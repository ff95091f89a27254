-------------------------------- MODULE Discovery --------------------------------
(***************************************************************************)
(* Stage 1 and its verification: the report of the static analysis goes to *)
(* a language model (run_stage1.sh), whose manifest verify_manifest.py and *)
(* evaluate_accuracy.py compare with the one a person has written.  The    *)
(* model is external: it gives any of the reported names any role, in full *)
(* or cut to its first characters, and may leave names out; it invents     *)
(* none.                                                                   *)
(***************************************************************************)
EXTENDS StaticAnalysis, Manifest

CONSTANTS
  Role,   \* the role that each name really has
  Cuts    \* the lengths to which the language model may cut names

ASSUME DiscoveryAssumption ==
  /\ \A n \in DOMAIN Role : Role[n] \in {"foreground", "background"}
  /\ Cuts \subseteq Nat

VARIABLES
  generated,  \* the manifest the model has written
  outcome,    \* the verdict of verify_manifest.py
  exit        \* the status of evaluate_accuracy.py

discoveryVars == <<analysisVars, generated, outcome, exit>>

NamesOf(entries) == {e[3] : e \in entries} \ {<<>>}
ByPrefix(n, role) == Entry(n, role, "comm_prefix", n, Len(n))

\* The reference manifest: every name that the sources give to a thread.
ground_truth ==
  {ByPrefix(c.name, Role[c.name]) :
     c \in {d \in UNION {tree[f].calls : f \in DOMAIN tree} : d.name # <<>>}}

DiscoveryInit == Init1a /\ generated = {} /\ outcome = "none" /\ exit = 0

Label ==
  /\ phase = "reported"
  /\ \E S \in SUBSET NamesOf(names), cut \in Cuts :
     \E roles \in [S -> {"foreground", "background"}] :
       generated' = {ByPrefix(Truncated(n, cut), roles[n]) : n \in S}
  /\ phase' = "labelled"
  /\ UNCHANGED <<tree, i, macro_wrappers, proc_title_setters, names, creates, outcome, exit>>

Verify ==
  /\ phase = "labelled"
  /\ outcome' = verdict(generated, ground_truth)
  /\ phase' = "verified"
  /\ UNCHANGED <<tree, i, macro_wrappers, proc_title_setters, names, creates, generated, exit>>

Evaluate ==
  /\ phase = "verified"
  /\ exit' = IF compute_metrics(generated, ground_truth).safety_violations > 0 THEN 1 ELSE 0
  /\ phase' = "evaluated"
  /\ UNCHANGED <<tree, i, macro_wrappers, proc_title_setters, names, creates, generated, outcome>>

Judged == phase \in {"evaluated", "exception"} /\ UNCHANGED discoveryVars

DiscoveryNext ==
  \/ Analyze /\ UNCHANGED <<generated, outcome, exit>>
  \/ Label \/ Verify \/ Evaluate
  \/ Judged

DiscoverySpec == DiscoveryInit /\ [][DiscoveryNext]_discoveryVars

-------------------------------------------------------------------------------
(***************************************************************************)
(* Properties                                                              *)
(***************************************************************************)
\* "PASS" without warnings means that schedulers generated from the two manifests
\* (patterns A and B) call the same threads background.  It does not mean that the static
\* analysis has reported every background name of the reference, but every one that no
\* reported name begins with: a longer name that was cut is the same entry.
CleanPassIsExact ==
  outcome = "PASS" =>
    /\ \A e \in OfRole(ground_truth, "background") :
         \E n \in NamesOf(names) : Seqs!IsPrefix(e.prefix, n)
    /\ \A n \in DOMAIN Role : is_background(generated, n) <=> is_background(ground_truth, n)

\* A foreground thread that the generated manifest calls background under the same key
\* makes both tools fail; the batch tool fails for no other reason, so that never
\* without the other one.
SafetyFailsBoth ==
  phase = "evaluated" =>
    /\ Keys(ground_truth, "foreground") \cap Keys(generated, "background") # {}
         => exit = 1 /\ outcome = "FAIL"
    /\ exit = 1 => outcome = "FAIL"

===============================================================================
