------------------------------- MODULE Experiment -------------------------------
(***************************************************************************)
(* What every A/B session of the repository promises about its results:    *)
(* each configuration is tried once; a session goes on to measure under a  *)
(* scheduler only if its process is alive when it looks, and looks for     *)
(* each configuration anew; it starts no scheduler from then on until the  *)
(* result is recorded; and nothing but a measurement gives a result.  A    *)
(* session may give up, and processes may die, at any time: also between   *)
(* the look and the measurement, which nobody notices.                     *)
(***************************************************************************)
CONSTANTS
  Configs,   \* what is compared: records with a label
  Baseline,  \* the label of the machine's own scheduler
  Null

VARIABLES
  alive,      \* the schedulers that have a process
  measuring,  \* the configuration the session has gone on to measure, or Null
  records     \* what is known of each configuration; Null before it was tried

vars == <<alive, measuring, records>>

Init == measuring = Null /\ records = [c \in Configs |-> Null]

Begin(c) ==
  /\ measuring = Null /\ records[c] = Null
  /\ c.label # Baseline => c.label \in alive
  /\ measuring' = c
  /\ UNCHANGED <<alive, records>>

Record(c, result) ==
  /\ records[c] = Null
  /\ measuring \in {c, Null}
  /\ measuring = Null => result = "failed"
  /\ records' = [records EXCEPT ![c] = result]
  /\ measuring' = Null
  /\ UNCHANGED alive

GiveUp == measuring' = Null /\ alive' \subseteq alive /\ UNCHANGED records

Processes ==
  /\ measuring # Null => alive' \subseteq alive
  /\ UNCHANGED <<measuring, records>>

Next ==
  \/ \E c \in Configs :
       \/ Begin(c)
       \/ \E result \in {"ok", "empty", "failed"} : Record(c, result)
  \/ GiveUp \/ Processes

Spec == Init /\ [][Next]_vars

===============================================================================
