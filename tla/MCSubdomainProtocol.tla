------------------------ MODULE MCSubdomainProtocol ------------------------
EXTENDS SubdomainProtocol, TLC

CONSTANTS a, b, c

(* The workers that run from the start are interchangeable.                *)
Symmetry == Permutations(Early)
=============================================================================
