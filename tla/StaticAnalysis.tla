----------------------------- MODULE StaticAnalysis -----------------------------
(***************************************************************************)
(* Stage 1a: the search of a source tree for the places where threads are  *)
(* named and created.  A first pass over the files collects the macros     *)
(* that stand for pthread_setname_np or prctl and the functions that call  *)
(* setproctitle; a second one looks at the calls, as tree-sitter parses    *)
(* them and once more as a regular expression finds them in the text.      *)
(*                                                                         *)
(* Of a source file only that is kept which the analysis looks at:         *)
(*   readable, utf8, searched   can it be opened, is it valid UTF-8, has   *)
(*                              it an extension and a directory that count *)
(*   macros, setters            what it defines                            *)
(*   calls                      its calls, [line, callee, form, fits,      *)
(*                              parsed, text, name]: fits says whether the *)
(*                              arguments are as the rule for this callee  *)
(*                              wants them, parsed whether tree-sitter     *)
(*                              sees the call, name is the string that is  *)
(*                              the thread's name, or <<>>, and text says  *)
(*                              what the regular expressions make of the   *)
(*                              lines on which it is written.              *)
(* All four expressions want the call to end in ");" on the line of its    *)
(* last argument.  A text is "statement" if what stands before that is     *)
(* the argument which is the name, "inside" if it is more than that, which *)
(* is then no literal: the call is a part of a longer expression, or has   *)
(* further arguments, as prctl(PR_SET_NAME, "x", 0, 0, 0); and "other" if *)
(* there is no match: the call is a condition, the line ends earlier, or   *)
(* PR_SET_NAME does not come first.  What only the text has, as a call in  *)
(* a comment, is a call that is not parsed.                                *)
(***************************************************************************)
EXTENDS Integers, Sequences, FiniteSets

CONSTANT
  Trees    \* the source trees, each a sequence of files in the order of their paths

ASSUME TreeAssumption ==
  \A t \in Trees :
    /\ Len(t) \in Nat /\ DOMAIN t = 1 .. Len(t)
    /\ \A f \in DOMAIN t : /\ IsFiniteSet(t[f].calls)
                           /\ \A c \in t[f].calls : c.name \in Seq(STRING)

VARIABLES
  tree, phase, i,            \* the tree, the pass and the next file in it
  macro_wrappers, proc_title_setters,
  names, creates             \* the entries of the report: <<file, line, name>>

analysisVars == <<tree, phase, i, macro_wrappers, proc_title_setters, names, creates>>

Init1a ==
  /\ tree \in Trees
  /\ phase = "macros" /\ i = 1
  /\ macro_wrappers = {} /\ proc_title_setters = {}
  /\ names = {} /\ creates = {}

\* collect_source_files: files are addressed by their place in the tree.
Collected == {f \in DOMAIN tree : tree[f].searched}

-------------------------------------------------------------------------------
(***************************************************************************)
(* One file                                                                *)
(***************************************************************************)
Wrapped == {"pthread_setname_np", "prctl"}

\* The chain of elifs in analyze_file, for a call that tree-sitter sees.
NamesThread(call) ==
  /\ call.fits
  /\ call.callee \in Wrapped \cup macro_wrappers' \cup proc_title_setters'

CreatesThread(call) ==
  /\ call.fits
  /\ call.callee \notin Wrapped \cup macro_wrappers' \cup proc_title_setters'
  /\ \/ call.callee = "pthread_create"
     \/ call.form \in {"qualified", "declaration"} /\ call.callee \in {"thread", "jthread"}
     \/ call.form = "method" /\ call.callee \in {"emplace_back", "push_back"}

\* regex_find_thread_names, which also finds some of what tree-sitter does not see, by
\* its text alone; it does not know the functions that set the process title.
FoundByRegex(call) == call.text # "other" /\ call.callee \in Wrapped \cup macro_wrappers'

RegexName(call) == IF call.text = "statement" THEN call.name ELSE <<>>

Entries(f, calls) == {<<f, c.line, c.name>> : c \in calls}
RegexEntries(f, calls) == {<<f, c.line, RegexName(c)>> : c \in calls}
Lines(entries) == {<<e[1], e[2]>> : e \in entries}

\* A call found by regex is added only if there is none on its line yet.
NamingSites(f) ==
  LET parsed == Entries(f, {c \in tree[f].calls : c.parsed /\ NamesThread(c)})
      regex  == RegexEntries(f, {c \in tree[f].calls : FoundByRegex(c)})
  IN  parsed \cup {e \in regex : <<e[1], e[2]>> \notin Lines(parsed)}

CreationSites(f) == Entries(f, {c \in tree[f].calls : c.parsed /\ CreatesThread(c)})

\* What a file defines, in either pass.
Define(f) ==
  /\ macro_wrappers' = macro_wrappers \cup tree[f].macros
  /\ proc_title_setters' = proc_title_setters \cup tree[f].setters

-------------------------------------------------------------------------------
(***************************************************************************)
(* analyze                                                                 *)
(***************************************************************************)
NextFile(pass, then) ==
  IF i < Len(tree) THEN i' = i + 1 /\ phase' = pass ELSE i' = 1 /\ phase' = then

\* Mutant: there is no first pass.
CollectNothing ==
  /\ phase = "macros"
  /\ phase' = "calls"
  /\ UNCHANGED <<tree, i, macro_wrappers, proc_title_setters, names, creates>>

\* First pass: a file that cannot be opened is skipped, but the exception raised for one
\* that is not UTF-8 is of no kind that is caught.
CollectMacros ==
  /\ phase = "macros"
  /\ IF i \in Collected /\ tree[i].readable
     THEN IF tree[i].utf8
          THEN Define(i) /\ NextFile("macros", "calls")
          ELSE phase' = "exception" /\ UNCHANGED <<i, macro_wrappers, proc_title_setters>>
     ELSE NextFile("macros", "calls") /\ UNCHANGED <<macro_wrappers, proc_title_setters>>
  /\ UNCHANGED <<tree, names, creates>>

\* Second pass, analyze_file.
AnalyzeFile ==
  /\ phase = "calls"
  /\ IF i \in Collected /\ tree[i].readable
     THEN /\ Define(i)
          /\ names' = names \cup NamingSites(i)
          /\ creates' = creates \cup CreationSites(i)
     ELSE UNCHANGED <<macro_wrappers, proc_title_setters, names, creates>>
  /\ NextFile("calls", "dedup")
  /\ UNCHANGED tree

\* One entry for each line is kept: the first, which may be any here.
OnePerLine(entries) ==
  {s \in SUBSET entries : /\ Lines(s) = Lines(entries)
                          /\ Cardinality(s) = Cardinality(Lines(entries))}

Deduplicate ==
  /\ phase = "dedup"
  /\ names' \in OnePerLine(names)
  /\ creates' \in OnePerLine(creates)
  /\ phase' = "reported"
  /\ UNCHANGED <<tree, i, macro_wrappers, proc_title_setters>>

Analyze == CollectMacros \/ AnalyzeFile \/ Deduplicate

-------------------------------------------------------------------------------
(***************************************************************************)
(* Properties                                                              *)
(***************************************************************************)
Known(kind) == UNION {tree[f][kind] : f \in Collected \cap {g \in DOMAIN tree : tree[g].readable}}

\* Once there is a report, the line of every call in a readable file is in it that
\* tree-sitter sees, also of one through a macro that a later file defines, and of every
\* naming call that only a regular expression can find.  A pthread_create that the
\* sources redefine as something that names threads is taken for that.  Though both
\* searches find most calls, a line is there once, and no line of a file that was to be
\* skipped is.
SitesFound ==
  phase = "reported" =>
    /\ Cardinality(names) = Cardinality(Lines(names))
    /\ \A e \in names \cup creates : e[1] \in Collected
    /\ \A f \in Collected : tree[f].readable => \A c \in tree[f].calls :
         c.fits =>
           /\ c.callee \in Wrapped \cup Known("macros") /\ (c.parsed \/ c.text # "other")
                => <<f, c.line>> \in Lines(names)
           /\ c.callee \in Known("setters") /\ c.parsed => <<f, c.line>> \in Lines(names)
           /\ c.callee \in {"pthread_create"} \ (Known("macros") \cup Known("setters")) /\ c.parsed
                => <<f, c.line>> \in Lines(creates)

===============================================================================
