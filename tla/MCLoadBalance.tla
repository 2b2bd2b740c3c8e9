--------------------------- MODULE MCLoadBalance ---------------------------
EXTENDS LoadBalance

CONSTANTS a, b, c

(* The workers that run from the start are interchangeable.                *)
Symmetry == Permutations(Early)
=============================================================================
