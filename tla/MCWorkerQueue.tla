--------------------------- MODULE MCWorkerQueue ---------------------------
(* Two inputs with overlapping traces at different distances from the      *)
(* center, the cheaper one covering more; a task whose radius holds the    *)
(* nearer one or, once widened, both.                                      *)
EXTENDS WorkerQueue

MCEdge == 1 .. 2
MCTask == {1}
MCInput == {"a", "b"}
MCTrace(i) == IF i = "a" THEN {1, 2} ELSE {2}
MCFactor(i) == IF i = "a" THEN 1 ELSE 2
MCDeviation(i, t) == IF i = "a" THEN 2 ELSE 1
MCRadii(t) == {1}
=============================================================================
