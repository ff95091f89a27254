------------------------------ MODULE MCLongFirst ------------------------------
(***************************************************************************)
(* TLC instance of LongFirst: a process m1 that may have a second thread   *)
(* w1, and a process m2.                                                   *)
(***************************************************************************)
EXTENDS LongFirst

CONSTANTS m1, w1, m2

MCLeader == [t \in Tasks |-> IF t = w1 THEN m1 ELSE t]

===============================================================================
