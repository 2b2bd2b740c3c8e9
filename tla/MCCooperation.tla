--------------------------- MODULE MCCooperation ---------------------------
(***************************************************************************)
(* Cooperation for traces over NumBits bits with their Hamming distance,   *)
(* and three subdomains.  Center sets: two corners and a point between     *)
(* them, and three equidistant points, so that ties occur.                 *)
(***************************************************************************)
EXTENDS Cooperation, FiniteSets

CONSTANT NumBits

Traces == {t \union {} : t \in SUBSET (1 .. NumBits)}
Hamming(p, q) == Cardinality((p \ q) \union (q \ p))

CenterChoices == {<<{}, {1}, {1, 2, 3}>>, <<{1}, {2}, {3}>>}

Table(c, order) == [k \in 1 .. 3 |-> [id |-> order[k] - 1, center |-> c[order[k]]]]

(* SCAN returns the keys in hash order, and after the worker's own key was *)
(* read: the table may be that of a later division.  Three orders have     *)
(* every subdomain in every place.                                         *)
Orders == {<<1, 2, 3>>, <<2, 3, 1>>, <<3, 1, 2>>}
ScanOrder == {[id |-> k - 1, center |-> c[k], table |-> Table(t, o)] :
                c, t \in CenterChoices, k \in 1 .. 3, o \in Orders}
=============================================================================
