-------------------------- MODULE MCSelectivePreempt --------------------------
(***************************************************************************)
(* TLC instances of SelectivePreempt.  The .cfg files choose the tasks     *)
(* among two foreground and two background threads.                        *)
(***************************************************************************)
EXTENDS SelectivePreempt, TLC

CONSTANTS f1, f2, b1, b2

\* Tasks are interchangeable that agree on their name and on being a renamer.
Symmetry ==
  Permutations(Background) \cup Permutations(Renamers)
    \cup Permutations(Tasks \ (Background \cup Renamers))

===============================================================================
