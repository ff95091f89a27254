--------------------------------- MODULE MCBench ---------------------------------
(***************************************************************************)
(* TLC instance of Bench: two schedulers and one of somebody else's, two   *)
(* data sizes, suites of two tests, and scripts with two runs a side after *)
(* a session that may have had three.                                      *)
(***************************************************************************)
EXTENDS Bench

MCSchedulers == <<"aware", "bpfland">>
MCSizes == <<1, 2>>

===============================================================================
