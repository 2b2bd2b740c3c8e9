-------------------------- MODULE MCTestcaseCache --------------------------
EXTENDS TestcaseCache, TLC

CONSTANTS a, b, c, d

(* Entries are told apart by their lengths and slots only.                 *)
Symmetry == Permutations(Entry)
=============================================================================
