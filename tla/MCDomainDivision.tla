-------------------------- MODULE MCDomainDivision --------------------------
(* Distances between trace maps of NumBits edges; without loss of          *)
(* generality the first trace is empty (XOR with it keeps all distances).  *)
EXTENDS DomainDivision

CONSTANT NumBits

Hamming(a, b) == Cardinality((a \ b) \union (b \ a))

TraceMatrices ==
  {[p \in Pair |-> Hamming(t[p[1]], t[p[2]])] :
     t \in {f \in [Index -> SUBSET (1 .. NumBits)] : f[0] = {}}}

(* If there was an earlier division, every seed still carries a label of it. *)
LastLabels == {1}
=============================================================================
