------------------------- MODULE MCDistanceService -------------------------
EXTENDS DistanceService

(* Distinct, non-zero distances: a zero-filled or misplaced entry is never *)
(* mistaken for a computed one.                                            *)
MCDist == [p \in Seed \X Seed |-> 1 + p[1] + p[2] * MaxSeeds]
=============================================================================
