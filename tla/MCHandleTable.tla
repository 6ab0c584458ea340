---------------------------- MODULE MCHandleTable ----------------------------
(* HandleTable on two objects and two slots: the slots are reused, objects    *)
(* have two handles at once, and freed handles stay in the clients' hands.    *)
EXTENDS HandleTable, TLC

MCKeys == {0, 1, 2}
AnyObject == Permutations(Objects)
=============================================================================
