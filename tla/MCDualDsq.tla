------------------------------ MODULE MCDualDsq -------------------------------
(***************************************************************************)
(* TLC instance of DualDsq: the threads of db_sim.                         *)
(***************************************************************************)
EXTENDS DualDsq

CONSTANTS q1, k1, k2

===============================================================================
