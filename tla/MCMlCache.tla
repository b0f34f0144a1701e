----------------------------- MODULE MCMlCache -----------------------------
(* Instances of MlCache: two workers, two or three clients. *)
EXTENDS MlCache

CONSTANTS w1, w2, c1, c2, c3

MCWorkerOf2 == [c \in {c1, c2} |-> IF c = c1 THEN w1 ELSE w2]
MCWorkerOf3 == [c \in {c1, c2, c3} |-> IF c = c2 THEN w2 ELSE w1]
MCAbsent == {1}
=============================================================================
