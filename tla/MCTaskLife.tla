----------------------------- MODULE MCTaskLife -----------------------------
(* Instances of TaskLife.                                                  *)
EXTENDS TaskLife

NoMoves == {}

OneEach == [v \in 1 .. MaxVersion |-> 1]
=============================================================================
