-------------------------- MODULE PublishedMatrix --------------------------
(***************************************************************************)
(* What the incremental distance service promises its readers (the domain  *)
(* division, the seed priorities): a triangular matrix over the first      *)
(* "ready" seeds that only grows, by one complete row at a time.           *)
(***************************************************************************)
EXTENDS Integers

CONSTANT MaxSeeds

VARIABLES ready, matrix

vars == <<ready, matrix>>

PairsBelow(n) == {p \in (0 .. MaxSeeds - 1) \X (0 .. MaxSeeds - 1) : p[1] < p[2] /\ p[2] < n}

Init == ready = 0 /\ matrix = [p \in PairsBelow(0) |-> 0]

(* The next seed becomes visible together with its distances to all        *)
(* earlier ones.                                                           *)
PublishRow ==
  /\ ready < MaxSeeds
  /\ ready' = ready + 1
  /\ DOMAIN matrix' = PairsBelow(ready')
  /\ \A p \in PairsBelow(ready') : matrix'[p] \in Int
  /\ \A p \in PairsBelow(ready) : matrix'[p] = matrix[p]

Spec == Init /\ [][PublishRow]_vars
=============================================================================
