----------------------------- MODULE MCTaskLists -----------------------------
(***************************************************************************)
(* Three tasks of two priorities.                                          *)
(***************************************************************************)
EXTENDS TaskLists

CONSTANTS t1, t2, t3

TasksValue == {t1, t2, t3}
PriorityValue == [t \in {t1, t2, t3} |-> IF t = t1 THEN 5 ELSE 0]
=============================================================================
