----------------------------- MODULE Pipeline_proofs ---------------------------
(***************************************************************************)
(* Theorems about the stages of the pipeline, for any source trees,        *)
(* labellings, manifests and profiles: what the static analysis finds and  *)
(* what a verdict about a manifest means (Discovery), and that generation  *)
(* succeeds and makes a scheduler like the one its template was derived    *)
(* from, on any number of CPUs and tasks (Generated).                      *)
(***************************************************************************)
EXTENDS Generated, Discovery, BgPreempt_proofs, FiniteSetTheorems, WellFoundedInduction

CONSTANT Queries
VARIABLE query

\* The hand-written program that template A was derived from.
Db == INSTANCE DualDsq

-------------------------------------------------------------------------------
(***************************************************************************)
(* Finite sets and prefixes.                                               *)
(***************************************************************************)
LEMMA ImageFinite ==
  ASSUME NEW S, IsFiniteSet(S), NEW f, DOMAIN f = S
  PROVE  IsFiniteSet({f[x] : x \in S})
<1> DEFINE T == {f[x] : x \in S}
<1>1. [x \in S |-> f[x]] \in Surjection(S, T)
  BY DEF Surjection
<1> QED
  BY <1>1, FS_Surjection

LEMMA CardinalityOfNone ==
  ASSUME NEW S, IsFiniteSet(S)
  PROVE  Cardinality(S) \in Nat /\ (Cardinality(S) > 0 <=> S # {})
<1>1. Cardinality(S) \in Nat /\ (Cardinality(S) = 0 <=> S = {})
  BY FS_CardinalityType, FS_EmptySet
<1> QED
  BY <1>1

\* What is cut off from a name leaves a prefix of it.
LEMMA CutIsPrefix ==
  ASSUME NEW s \in Seq(STRING), NEW n \in Nat
  PROVE  Seqs!IsPrefix(Truncated(s, n), s)
<1>1. CASE n = Null \/ n >= Len(s)
  BY <1>1 DEF Truncated, Seqs!IsPrefix
<1>2. CASE ~(n = Null \/ n >= Len(s))
  <2>1. Truncated(s, n) = SubSeq(s, 1, n) /\ n \in 0 .. Len(s) - 1
    BY <1>2 DEF Truncated
  <2>2. Len(SubSeq(s, 1, n)) = n /\ SubSeq(SubSeq(s, 1, n), 1, n) = SubSeq(s, 1, n)
    BY <2>1
  <2> QED
    BY <2>1, <2>2 DEF Seqs!IsPrefix
<1> QED
  BY <1>1, <1>2

-------------------------------------------------------------------------------
(***************************************************************************)
(* Stage 1a.                                                               *)
(***************************************************************************)
Read == {f \in Collected : tree[f].readable}
Searching == {"macros", "calls"}
After == {"reported", "labelled", "verified", "evaluated"}

\* The sites that the calls of file f have in the report.
Reported(f) ==
  \A c \in tree[f].calls : c.fits =>
    /\ c.callee \in Wrapped \cup Known("macros") /\ (c.parsed \/ c.text # "other")
         => <<f, c.line>> \in Lines(names)
    /\ c.callee \in Known("setters") /\ c.parsed => <<f, c.line>> \in Lines(names)
    /\ c.callee \in {"pthread_create"} \ (Known("macros") \cup Known("setters")) /\ c.parsed
         => <<f, c.line>> \in Lines(creates)

\* The first pass has seen what the files before i define, and the second pass has
\* seen what all files define.
Defined ==
  /\ macro_wrappers \subseteq Known("macros") /\ proc_title_setters \subseteq Known("setters")
  /\ phase = "macros" => \A f \in Read : f < i =>
       tree[f].macros \subseteq macro_wrappers /\ tree[f].setters \subseteq proc_title_setters
  /\ phase \notin {"macros", "exception"} =>
       macro_wrappers = Known("macros") /\ proc_title_setters = Known("setters")

\* The calls of a file are in the report once it has been analyzed.
SearchInv ==
  /\ tree \in Trees /\ i \in Nat
  /\ Defined
  /\ phase = "calls" => \A f \in Read : f < i => Reported(f)
  /\ phase \in {"dedup"} \cup After => \A f \in Read : Reported(f)
  /\ \A e \in names \cup creates : e[1] \in Collected
  /\ \A e \in names : e[3] \in Seq(STRING)
  /\ IsFiniteSet(names)
  /\ phase \in After => Cardinality(names) = Cardinality(Lines(names))

LEMMA SearchBegins == DiscoveryInit => SearchInv
<1> SUFFICES ASSUME DiscoveryInit PROVE SearchInv
  OBVIOUS
<1> USE DEF DiscoveryInit, Init1a
<1>1. IsFiniteSet(names)
  BY FS_EmptySet
<1>2. Defined
  <2>1. \A f \in Read : ~(f < i)
    BY TreeAssumption DEF Read, Collected
  <2> QED
    BY <2>1 DEF Defined
<1> QED
  BY <1>1, <1>2 DEF SearchInv, After

\* What a file that was read defines is known, and nothing else.
LEMMA KnownOf ==
  ASSUME NEW f \in Read
  PROVE  tree[f].macros \subseteq Known("macros") /\ tree[f].setters \subseteq Known("setters")
<1>1. f \in Collected \cap {g \in DOMAIN tree : tree[g].readable}
  BY DEF Read, Collected
<1> QED
  BY <1>1 DEF Known

LEMMA KnownBy ==
  ASSUME NEW S, NEW T,
         \A f \in Read : tree[f].macros \subseteq S /\ tree[f].setters \subseteq T
  PROVE  Known("macros") \subseteq S /\ Known("setters") \subseteq T
BY DEF Read, Known

\* A pass goes on from file i, or ends when there is no other one.
LEMMA PassGoesOn ==
  ASSUME tree \in Trees, i \in Nat, NEW pass, NEW then, NextFile(pass, then)
  PROVE  /\ i' \in Nat
         /\ \/ phase' = pass /\ \A f \in Read : f < i' => f < i \/ f = i
            \/ phase' = then /\ i' = 1 /\ \A f \in Read : f < i \/ f = i
<1>1. \A f \in Read : f \in 1 .. Len(tree)
  BY TreeAssumption DEF Read, Collected
<1>2. Len(tree) \in Nat
  BY TreeAssumption
<1>3. CASE i < Len(tree)
  BY <1>1, <1>2, <1>3 DEF NextFile
<1>4. CASE ~(i < Len(tree))
  BY <1>1, <1>2, <1>4 DEF NextFile
<1> QED
  BY <1>3, <1>4

LEMMA MacrosKeep == SearchInv /\ CollectMacros => SearchInv'
<1> SUFFICES ASSUME SearchInv, CollectMacros PROVE SearchInv'
  OBVIOUS
<1>1. /\ phase = "macros" /\ UNCHANGED <<tree, names, creates>>
      /\ phase' \in {"macros", "calls", "exception"} /\ i' \in Nat
  <2>1. NextFile("macros", "calls") \/ (phase' = "exception" /\ UNCHANGED i)
    BY DEF CollectMacros
  <2>2. NextFile("macros", "calls") => phase' \in {"macros", "calls"} /\ i' \in Nat
    BY PassGoesOn DEF SearchInv
  <2> QED
    BY <2>1, <2>2 DEF CollectMacros, SearchInv
<1>2. UNCHANGED <<Read, Collected, Known("macros"), Known("setters")>>
  BY <1>1 DEF Read, Collected, Known
<1>3. Defined'
  <2>1. CASE i \in Read /\ tree[i].utf8
    <3>1. Define(i) /\ NextFile("macros", "calls")
      BY <2>1 DEF CollectMacros, Read
    <3>2. macro_wrappers' \subseteq Known("macros") /\ proc_title_setters' \subseteq Known("setters")
      BY <2>1, <3>1, KnownOf DEF Define, SearchInv, Defined
    <3>3. \A f \in Read : f < i \/ f = i =>
            tree[f].macros \subseteq macro_wrappers' /\ tree[f].setters \subseteq proc_title_setters'
      BY <1>1, <3>1 DEF Define, SearchInv, Defined
    <3>4. CASE phase' = "macros"
      BY <1>1, <1>2, <3>1, <3>2, <3>3, <3>4, PassGoesOn DEF Defined, SearchInv
    <3>5. CASE phase' = "calls"
      <4>1. \A f \in Read : f < i \/ f = i
        BY <3>1, <3>5, PassGoesOn DEF SearchInv
      <4>2. Known("macros") \subseteq macro_wrappers' /\ Known("setters") \subseteq proc_title_setters'
        BY <3>3, <4>1, KnownBy
      <4> QED
        BY <1>2, <3>2, <3>5, <4>2 DEF Defined
    <3> QED
      BY <3>1, <3>4, <3>5, PassGoesOn DEF SearchInv
  <2>2. CASE i \in Read /\ ~tree[i].utf8
    <3>1. phase' = "exception" /\ UNCHANGED <<macro_wrappers, proc_title_setters>>
      BY <2>2 DEF CollectMacros, Read
    <3> QED
      BY <1>2, <3>1 DEF Defined, SearchInv
  <2>3. CASE i \notin Read
    <3>1. NextFile("macros", "calls") /\ UNCHANGED <<macro_wrappers, proc_title_setters>>
      BY <2>3 DEF CollectMacros, Read
    <3>2. \A f \in Read : f < i =>
            tree[f].macros \subseteq macro_wrappers' /\ tree[f].setters \subseteq proc_title_setters'
      BY <1>1, <3>1 DEF SearchInv, Defined
    <3>3. CASE phase' = "macros"
      BY <1>1, <1>2, <2>3, <3>1, <3>2, <3>3, PassGoesOn DEF Defined, SearchInv
    <3>4. CASE phase' = "calls"
      <4>1. \A f \in Read : f < i
        BY <2>3, <3>1, <3>4, PassGoesOn DEF SearchInv
      <4>2. Known("macros") \subseteq macro_wrappers' /\ Known("setters") \subseteq proc_title_setters'
        BY <3>2, <4>1, KnownBy
      <4> QED
        BY <1>2, <3>1, <3>4, <4>2 DEF Defined, SearchInv
    <3> QED
      BY <3>1, <3>3, <3>4, PassGoesOn DEF SearchInv
  <2> QED
    BY <2>1, <2>2, <2>3
<1>4. phase' = "calls" => i' = 1
  BY <1>1, PassGoesOn DEF CollectMacros, SearchInv
<1>5. \A f \in Read : ~(f < 1)
  BY TreeAssumption DEF SearchInv, Read, Collected
<1> QED
  BY <1>1, <1>2, <1>3, <1>4, <1>5 DEF SearchInv, After

\* All calls of a file are in the report once it has been analyzed, those through a macro
\* because all macros are known by then.
LEMMA FileIsReported ==
  ASSUME SearchInv, AnalyzeFile, NEW f \in Read, f = i
  PROVE  Reported(f)'
<1>1. /\ phase = "calls" /\ UNCHANGED tree
      /\ names' = names \cup NamingSites(f) /\ creates' = creates \cup CreationSites(f)
  BY DEF AnalyzeFile, Read
<1>2. macro_wrappers' = Known("macros") /\ proc_title_setters' = Known("setters")
  BY <1>1, KnownOf DEF AnalyzeFile, Read, Define, SearchInv, Defined
<1>3. UNCHANGED <<Known("macros"), Known("setters")>>
  BY <1>1 DEF Known, Collected
<1> SUFFICES ASSUME NEW c \in tree[f].calls, c.fits
             PROVE  /\ c.callee \in Wrapped \cup Known("macros") /\ (c.parsed \/ c.text # "other")
                         => <<f, c.line>> \in Lines(names')
                    /\ c.callee \in Known("setters") /\ c.parsed => <<f, c.line>> \in Lines(names')
                    /\ c.callee \in {"pthread_create"} \ (Known("macros") \cup Known("setters")) /\ c.parsed
                         => <<f, c.line>> \in Lines(creates')
  BY <1>1, <1>3 DEF Reported
<1> DEFINE e == <<f, c.line, c.name>>
           parsed == Entries(f, {d \in tree[f].calls : d.parsed /\ NamesThread(d)})
           r == <<f, c.line, RegexName(c)>>
           regex == RegexEntries(f, {d \in tree[f].calls : FoundByRegex(d)})
<1>4. /\ NamesThread(c) /\ c.parsed => e \in NamingSites(f)
      /\ CreatesThread(c) /\ c.parsed => e \in CreationSites(f)
  BY DEF NamingSites, CreationSites, Entries
<1>5. ASSUME FoundByRegex(c)
      PROVE  <<f, c.line>> \in Lines(NamingSites(f))
  <2>1. r \in regex
    BY <1>5 DEF RegexEntries
  <2>2. NamingSites(f) = parsed \cup {d \in regex : <<d[1], d[2]>> \notin Lines(parsed)}
    BY DEF NamingSites
  <2> HIDE DEF parsed, regex
  <2>3. CASE <<f, c.line>> \in Lines(parsed)
    BY <2>2, <2>3 DEF Lines
  <2>4. CASE <<f, c.line>> \notin Lines(parsed)
    <3>1. r \in NamingSites(f) /\ r[1] = f /\ r[2] = c.line
      BY <2>1, <2>2, <2>4
    <3> HIDE DEF r
    <3> QED
      BY <3>1 DEF Lines
  <2> QED
    BY <2>3, <2>4
<1>6. /\ c.callee \in Wrapped \cup Known("macros") /\ c.text # "other" => FoundByRegex(c)
      /\ c.callee \in Wrapped \cup Known("macros") \cup Known("setters") => NamesThread(c)
      /\ c.callee \in {"pthread_create"} \ (Known("macros") \cup Known("setters")) => CreatesThread(c)
  BY <1>2 DEF FoundByRegex, NamesThread, CreatesThread, Wrapped
<1>7. e[1] = f /\ e[2] = c.line
  OBVIOUS
<1> QED
  BY <1>1, <1>4, <1>5, <1>6, <1>7 DEF Lines

\* What has been reported stays so.
LEMMA ReportGrows ==
  ASSUME NEW f \in Read, Reported(f), UNCHANGED tree,
         Lines(names) \subseteq Lines(names'), Lines(creates) \subseteq Lines(creates')
  PROVE  Reported(f)'
<1>1. UNCHANGED <<Known("macros"), Known("setters")>>
  BY DEF Known, Collected
<1>2. Lines(names)' = Lines(names') /\ Lines(creates)' = Lines(creates')
  BY DEF Lines
<1> QED
  BY <1>1, <1>2 DEF Reported

LEMMA AnalyzeKeeps == SearchInv /\ AnalyzeFile => SearchInv'
<1> SUFFICES ASSUME SearchInv, AnalyzeFile PROVE SearchInv'
  OBVIOUS
<1>1. phase = "calls" /\ UNCHANGED tree /\ NextFile("calls", "dedup")
  BY DEF AnalyzeFile
<1>2. UNCHANGED <<Read, Collected, Known("macros"), Known("setters")>>
  BY <1>1 DEF Read, Collected, Known
<1>3. /\ phase' \in {"calls", "dedup"} /\ i' \in Nat
      /\ phase' = "calls" => \A f \in Read : f < i' => f < i \/ f = i
      /\ phase' = "dedup" => \A f \in Read : f < i \/ f = i
  BY <1>1, PassGoesOn DEF SearchInv
<1>4. macro_wrappers' = Known("macros") /\ proc_title_setters' = Known("setters")
  <2>1. CASE i \in Read
    BY <1>1, <2>1, KnownOf DEF AnalyzeFile, Read, Define, SearchInv, Defined
  <2>2. CASE i \notin Read
    BY <1>1, <2>2 DEF AnalyzeFile, Read, SearchInv, Defined
  <2> QED
    BY <2>1, <2>2
<1>5. \A f \in Read : f < i \/ f = i => Reported(f)'
  <2>1. Lines(names) \subseteq Lines(names') /\ Lines(creates) \subseteq Lines(creates')
    BY DEF AnalyzeFile, Lines
  <2>2. \A f \in Read : f < i => Reported(f)'
    BY <1>1, <2>1, ReportGrows DEF SearchInv
  <2> QED
    BY <2>2, FileIsReported
<1>6. /\ \A e \in (names \cup creates)' : e[1] \in Collected
      /\ \A e \in names' : e[3] \in Seq(STRING)
      /\ IsFiniteSet(names')
  <2>1. CASE i \in Read
    <3>1. names' = names \cup NamingSites(i) /\ creates' = creates \cup CreationSites(i)
      BY <2>1 DEF AnalyzeFile, Read
    <3> DEFINE byTree == Entries(i, tree[i].calls)
               byText == RegexEntries(i, tree[i].calls)
               sites == byTree \cup byText
    <3>2. NamingSites(i) \subseteq sites /\ CreationSites(i) \subseteq sites
      BY DEF NamingSites, CreationSites, Entries, RegexEntries
    <3>3. \A e \in sites : e[1] = i /\ e[3] \in Seq(STRING)
      <4>1. <<>> \in Seq(STRING)
        OBVIOUS
      <4>2. \A c \in tree[i].calls : c.name \in Seq(STRING) /\ RegexName(c) \in Seq(STRING)
        BY <2>1, <4>1, TreeAssumption DEF RegexName, SearchInv, Read, Collected
      <4>3. \A e \in byTree : e[1] = i /\ e[3] \in Seq(STRING)
        BY <4>2 DEF Entries
      <4>4. \A e \in byText : e[1] = i /\ e[3] \in Seq(STRING)
        BY <4>2 DEF RegexEntries
      <4> QED
        BY <4>3, <4>4
    <3>4. IsFiniteSet(sites)
      <4> DEFINE entry == [c \in tree[i].calls |-> <<i, c.line, c.name>>]
                 match == [c \in tree[i].calls |-> <<i, c.line, RegexName(c)>>]
      <4>1. /\ byTree = {entry[c] : c \in tree[i].calls} /\ DOMAIN entry = tree[i].calls
            /\ byText = {match[c] : c \in tree[i].calls} /\ DOMAIN match = tree[i].calls
        BY DEF Entries, RegexEntries
      <4>2. IsFiniteSet(tree[i].calls)
        BY <2>1, TreeAssumption DEF SearchInv, Read, Collected
      <4> HIDE DEF entry, match, byTree, byText
      <4>3. IsFiniteSet(byTree) /\ IsFiniteSet(byText)
        BY <4>1, <4>2, ImageFinite
      <4> QED
        BY <4>3, FS_Union
    <3> HIDE DEF sites
    <3>5. IsFiniteSet(NamingSites(i)) /\ IsFiniteSet(names)
      BY <3>2, <3>4, FS_Subset DEF SearchInv
    <3>6. IsFiniteSet(names')
      BY <3>1, <3>5, FS_Union
    <3>7. i \in Collected
      BY <2>1 DEF Read
    <3> QED
      BY <3>1, <3>2, <3>3, <3>6, <3>7 DEF SearchInv
  <2>2. CASE i \notin Read
    BY <2>2 DEF AnalyzeFile, Read, SearchInv
  <2> QED
    BY <2>1, <2>2
<1> QED
  BY <1>1, <1>2, <1>3, <1>4, <1>5, <1>6 DEF SearchInv, Defined, After

LEMMA DeduplicateKeeps == SearchInv /\ Deduplicate => SearchInv'
<1> SUFFICES ASSUME SearchInv, Deduplicate PROVE SearchInv'
  OBVIOUS
<1>1. /\ phase = "dedup" /\ phase' = "reported"
      /\ UNCHANGED <<tree, i, macro_wrappers, proc_title_setters>>
  BY DEF Deduplicate
<1>2. UNCHANGED <<Read, Collected, Known("macros"), Known("setters")>>
  BY <1>1 DEF Read, Collected, Known
<1>3. /\ names' \subseteq names /\ creates' \subseteq creates
      /\ Lines(names') = Lines(names) /\ Lines(creates') = Lines(creates)
      /\ Cardinality(names') = Cardinality(Lines(names'))
  BY DEF Deduplicate, OnePerLine
<1>4. IsFiniteSet(names')
  BY <1>3, FS_Subset DEF SearchInv
<1>5. \A f \in Read : Reported(f)'
  BY <1>1, <1>3, ReportGrows DEF SearchInv
<1>6. Defined'
  BY <1>1, <1>2 DEF SearchInv, Defined
<1>7. Lines(names)' = Lines(names')
  BY DEF Lines
<1> QED
  BY <1>1, <1>2, <1>3, <1>4, <1>5, <1>6, <1>7 DEF SearchInv, After

\* What comes after the report leaves the report alone.
LEMMA VerdictsKeepReport ==
  ASSUME SearchInv, phase \in After, phase' \in After,
         UNCHANGED <<tree, i, macro_wrappers, proc_title_setters, names, creates>>
  PROVE  SearchInv'
<1>1. UNCHANGED <<Read, Collected, Known("macros"), Known("setters"), Lines(names)>>
  BY DEF Read, Collected, Known, Lines
<1>2. \A f \in Read : Reported(f)'
  BY ReportGrows DEF SearchInv, Lines
<1> QED
  BY <1>1, <1>2 DEF SearchInv, Defined, After

LEMMA SearchKeeps == SearchInv /\ [DiscoveryNext]_discoveryVars => SearchInv'
<1> SUFFICES ASSUME SearchInv, [DiscoveryNext]_discoveryVars PROVE SearchInv'
  OBVIOUS
<1>1. CASE Analyze
  BY <1>1, MacrosKeep, AnalyzeKeeps, DeduplicateKeeps DEF Analyze
<1>2. CASE Label \/ Verify \/ Evaluate
  BY <1>2, VerdictsKeepReport DEF Label, Verify, Evaluate, After
<1>3. CASE UNCHANGED discoveryVars
  BY <1>3 DEF discoveryVars, analysisVars, SearchInv, Defined, Read, Collected, Known, Lines, Reported
<1> QED
  BY <1>1, <1>2, <1>3 DEF DiscoveryNext, Judged

\* For any source trees, what tree-sitter sees and what the regular expressions match is
\* reported: the second pass knows the macros of all files, whatever their order, and the
\* two searches are merged line by line.
THEOREM SitesAreFound == DiscoverySpec => []SitesFound
<1>1. SearchInv => SitesFound
  BY DEF SearchInv, Read, Reported, After, SitesFound
<1> QED
  BY <1>1, SearchBegins, SearchKeeps, PTL DEF DiscoverySpec

-------------------------------------------------------------------------------
(***************************************************************************)
(* The manifest of the language model, and the two verifiers.              *)
(***************************************************************************)
LEMMA KeysFinite ==
  ASSUME NEW m, IsFiniteSet(m), NEW role
  PROVE  IsFiniteSet(Keys(m, role))
<1> DEFINE S == OfRole(m, role)
           key == [e \in S |-> Key(e)]
<1>1. IsFiniteSet(S)
  BY FS_Subset DEF OfRole
<1>2. Keys(m, role) = {key[e] : e \in S} /\ DOMAIN key = S
  BY DEF Keys
<1> HIDE DEF key, S
<1> QED
  BY <1>1, <1>2, ImageFinite

LEMMA NamesOfFinite ==
  ASSUME IsFiniteSet(names)
  PROVE  IsFiniteSet(NamesOf(names))
<1> DEFINE name == [e \in names |-> e[3]]
           T == {name[e] : e \in names}
<1>1. IsFiniteSet(T)
  BY ImageFinite
<1>2. NamesOf(names) \subseteq T
  BY DEF NamesOf
<1> HIDE DEF T
<1> QED
  BY <1>1, <1>2, FS_Subset

LEMMA TruthFinite ==
  ASSUME tree \in Trees
  PROVE  IsFiniteSet(ground_truth)
<1> DEFINE calls == [f \in DOMAIN tree |-> tree[f].calls]
           all == UNION {tree[f].calls : f \in DOMAIN tree}
           named == {d \in all : d.name # <<>>}
           entry == [c \in named |-> ByPrefix(c.name, Role[c.name])]
<1>1. IsFiniteSet(DOMAIN tree)
  BY TreeAssumption, FS_Interval
<1>2. IsFiniteSet({calls[f] : f \in DOMAIN tree})
  BY <1>1, ImageFinite
<1>3. {calls[f] : f \in DOMAIN tree} = {tree[f].calls : f \in DOMAIN tree}
  OBVIOUS
<1>4. \A T \in {tree[f].calls : f \in DOMAIN tree} : IsFiniteSet(T)
  BY TreeAssumption
<1>5. IsFiniteSet(all)
  BY <1>2, <1>3, <1>4, FS_UNION
<1> HIDE DEF all
<1>6. IsFiniteSet(named)
  BY <1>5, FS_Subset
<1>7. ground_truth = {entry[c] : c \in named} /\ DOMAIN entry = named
  BY DEF ground_truth, all
<1> HIDE DEF named, entry
<1> QED
  BY <1>6, <1>7, ImageFinite

\* A thread of the reference that is foreground there and background under the same key
\* in the generated manifest is a failure for both programs, ...
LEMMA SafetyIsSeen ==
  ASSUME NEW gen, NEW truth, IsFiniteSet(truth)
  PROVE  /\ compute_metrics(gen, truth).safety_violations > 0
              <=> Keys(truth, "foreground") \cap Keys(gen, "background") # {}
         /\ Keys(truth, "foreground") \cap Keys(gen, "background") # {} => verdict(gen, truth) = "FAIL"
<1> DEFINE wrong == Keys(truth, "foreground") \cap Keys(gen, "background")
           missing == Keys(truth, "background") \ Keys(gen, "background")
           partial == {k \in missing : PartialMatch(Keys(gen, "background"), k)}
<1>1. IsFiniteSet(wrong) /\ IsFiniteSet(missing \ partial)
  <2>1. IsFiniteSet(Keys(truth, "foreground")) /\ IsFiniteSet(Keys(truth, "background"))
    BY KeysFinite
  <2> QED
    BY <2>1, FS_Subset
<1>2. compute_metrics(gen, truth).safety_violations = Cardinality(wrong)
  BY DEF compute_metrics
<1>3. compare_manifests(gen, truth).fails = Cardinality(missing \ partial) + Cardinality(wrong)
  BY DEF compare_manifests
<1> HIDE DEF wrong, missing, partial
<1>4. /\ Cardinality(wrong) \in Nat /\ (Cardinality(wrong) > 0 <=> wrong # {})
      /\ Cardinality(missing \ partial) \in Nat
  BY <1>1, CardinalityOfNone
<1>5. wrong # {} => compare_manifests(gen, truth).fails > 0
  BY <1>3, <1>4
<1> QED
  BY <1>2, <1>4, <1>5 DEF verdict, wrong

\* ... and a PASS without warnings leaves no difference between the background threads.
LEMMA PassIsEqual ==
  ASSUME NEW gen, NEW truth, IsFiniteSet(gen), IsFiniteSet(truth), verdict(gen, truth) = "PASS"
  PROVE  Keys(gen, "background") = Keys(truth, "background")
<1> DEFINE genBg == Keys(gen, "background")
           wrong == Keys(truth, "foreground") \cap genBg
           missing == Keys(truth, "background") \ genBg
           partial == {k \in missing : PartialMatch(genBg, k)}
           extra == genBg \ Keys(truth, "background")
<1>1. /\ compare_manifests(gen, truth).fails = Cardinality(missing \ partial) + Cardinality(wrong)
      /\ compare_manifests(gen, truth).warnings = Cardinality(partial) + Cardinality(extra)
  BY DEF compare_manifests
<1>2. ~(compare_manifests(gen, truth).fails > 0) /\ ~(compare_manifests(gen, truth).warnings > 0)
  BY DEF verdict
<1>3. IsFiniteSet(missing \ partial) /\ IsFiniteSet(wrong) /\ IsFiniteSet(partial) /\ IsFiniteSet(extra)
  <2>1. IsFiniteSet(Keys(truth, "foreground")) /\ IsFiniteSet(Keys(truth, "background")) /\ IsFiniteSet(genBg)
    BY KeysFinite
  <2> QED
    BY <2>1, FS_Subset
<1> HIDE DEF wrong, missing, partial, extra
<1>4. missing \ partial = {} /\ partial = {} /\ extra = {}
  <2>1. /\ Cardinality(missing \ partial) \in Nat /\ (Cardinality(missing \ partial) > 0 <=> missing \ partial # {})
        /\ Cardinality(wrong) \in Nat
        /\ Cardinality(partial) \in Nat /\ (Cardinality(partial) > 0 <=> partial # {})
        /\ Cardinality(extra) \in Nat /\ (Cardinality(extra) > 0 <=> extra # {})
    BY <1>3, CardinalityOfNone
  <2> QED
    BY <1>1, <1>2, <2>1
<1> QED
  BY <1>4 DEF missing, partial, extra

\* Manifests with the same background keys give the same classifier.
LEMMA SameKeysSameClass ==
  ASSUME NEW gen, NEW truth, Keys(gen, "background") = Keys(truth, "background"), NEW name
  PROVE  is_background(gen, name) <=> is_background(truth, name)
<1>1. ASSUME NEW m, NEW n, Keys(m, "background") \subseteq Keys(n, "background")
      PROVE  RolePrefixes(m, "background") \subseteq RolePrefixes(n, "background")
  <2> SUFFICES ASSUME NEW e \in OfRole(m, "background")
               PROVE  <<e.prefix, e.length>> \in RolePrefixes(n, "background")
    BY DEF RolePrefixes
  <2>1. PICK d \in OfRole(n, "background") : Key(d) = Key(e)
    BY <1>1 DEF Keys
  <2>2. d.prefix = e.prefix /\ d.length = e.length
    BY <2>1 DEF Key
  <2> QED
    BY <2>2 DEF RolePrefixes
<1>2. RolePrefixes(gen, "background") = RolePrefixes(truth, "background")
  BY <1>1
<1> QED
  BY <1>2 DEF is_background

\* What the language model has written comes from names in the report; what the two
\* programs said is what they say of this manifest.
VerdictInv ==
  /\ phase \in {"labelled", "verified", "evaluated"} =>
       /\ IsFiniteSet(generated)
       /\ \A e \in generated : \E n \in NamesOf(names) : Seqs!IsPrefix(e.prefix, n)
  /\ outcome = IF phase \in {"verified", "evaluated"} THEN verdict(generated, ground_truth) ELSE "none"
  /\ phase = "evaluated" =>
       (exit = 1 => compute_metrics(generated, ground_truth).safety_violations > 0)
       /\ (exit # 1 => ~(compute_metrics(generated, ground_truth).safety_violations > 0))

LEMMA VerdictBegins == DiscoveryInit => VerdictInv
BY DEF DiscoveryInit, Init1a, VerdictInv

LEMMA LabelKeeps ==
  ASSUME SearchInv, VerdictInv, Label
  PROVE  VerdictInv'
<1>1. PICK S \in SUBSET NamesOf(names), cut \in Cuts :
        \E roles \in [S -> {"foreground", "background"}] :
          generated' = {ByPrefix(Truncated(n, cut), roles[n]) : n \in S}
  BY DEF Label
<1>r. PICK roles \in [S -> {"foreground", "background"}] :
        generated' = {ByPrefix(Truncated(n, cut), roles[n]) : n \in S}
  BY <1>1
<1>2. IsFiniteSet(generated')
  <2> DEFINE entry == [n \in S |-> ByPrefix(Truncated(n, cut), roles[n])]
  <2>1. generated' = {entry[n] : n \in S} /\ DOMAIN entry = S
    BY <1>r
  <2>2. IsFiniteSet(S)
    BY NamesOfFinite, FS_Subset DEF SearchInv
  <2> HIDE DEF entry
  <2> QED
    BY <2>1, <2>2, ImageFinite
<1>3. \A e \in generated' : \E n \in NamesOf(names) : Seqs!IsPrefix(e.prefix, n)
  <2> SUFFICES ASSUME NEW n \in S
               PROVE  Seqs!IsPrefix(ByPrefix(Truncated(n, cut), roles[n]).prefix, n)
    BY <1>r
  <2>1. n \in Seq(STRING) /\ cut \in Nat
    BY DiscoveryAssumption DEF SearchInv, NamesOf
  <2>2. ByPrefix(Truncated(n, cut), roles[n]).prefix = Truncated(n, cut)
    BY DEF ByPrefix, Entry
  <2> QED
    BY <2>1, <2>2, CutIsPrefix
<1>4. NamesOf(names)' = NamesOf(names)
  BY DEF Label, NamesOf
<1>5. phase = "reported" /\ phase' = "labelled" /\ UNCHANGED <<outcome, exit>>
  BY DEF Label
<1> QED
  BY <1>2, <1>3, <1>4, <1>5 DEF VerdictInv

LEMMA VerdictKeeps ==
  ASSUME SearchInv, VerdictInv, [DiscoveryNext]_discoveryVars
  PROVE  VerdictInv'
<1>1. CASE Analyze /\ UNCHANGED <<generated, outcome, exit>>
  <2>1. phase \in {"macros", "calls", "dedup"} /\ phase' \in {"macros", "calls", "exception", "dedup", "reported"}
    BY <1>1 DEF Analyze, CollectMacros, AnalyzeFile, Deduplicate, NextFile
  <2> QED
    BY <1>1, <2>1 DEF VerdictInv
<1>2. CASE Label
  BY <1>2, LabelKeeps
<1>3. CASE Verify \/ Evaluate
  <2>1. ground_truth' = ground_truth /\ NamesOf(names)' = NamesOf(names) /\ generated' = generated
    BY <1>3 DEF Verify, Evaluate, ground_truth, NamesOf
  <2>2. CASE Verify
    BY <2>1, <2>2 DEF Verify, VerdictInv
  <2>3. CASE Evaluate
    BY <2>1, <2>3 DEF Evaluate, VerdictInv
  <2> QED
    BY <1>3, <2>2, <2>3
<1>4. CASE UNCHANGED discoveryVars
  <2>1. ground_truth' = ground_truth /\ NamesOf(names)' = NamesOf(names)
    BY <1>4 DEF discoveryVars, analysisVars, ground_truth, NamesOf
  <2> QED
    BY <1>4, <2>1 DEF discoveryVars, analysisVars, VerdictInv
<1> QED
  BY <1>1, <1>2, <1>3, <1>4 DEF DiscoveryNext, Judged

\* A PASS without warnings means that the two manifests make the same threads background,
\* and that the analysis has reported a name for each of the reference's: whatever the
\* sources, the names, and the roles and cuts of the language model.
THEOREM CleanPassesAreExact == DiscoverySpec => []CleanPassIsExact
<1>1. SearchInv /\ VerdictInv => CleanPassIsExact
  <2> SUFFICES ASSUME SearchInv, VerdictInv, outcome = "PASS"
               PROVE  /\ \A e \in OfRole(ground_truth, "background") :
                           \E n \in NamesOf(names) : Seqs!IsPrefix(e.prefix, n)
                      /\ \A n \in DOMAIN Role : is_background(generated, n) <=> is_background(ground_truth, n)
    BY DEF CleanPassIsExact
  <2>1. phase \in {"verified", "evaluated"} /\ verdict(generated, ground_truth) = "PASS"
    BY DEF VerdictInv
  <2>2. IsFiniteSet(generated) /\ IsFiniteSet(ground_truth)
    BY <2>1, TruthFinite DEF SearchInv, VerdictInv
  <2>3. Keys(generated, "background") = Keys(ground_truth, "background")
    BY <2>1, <2>2, PassIsEqual
  <2>4. ASSUME NEW e \in OfRole(ground_truth, "background")
        PROVE  \E n \in NamesOf(names) : Seqs!IsPrefix(e.prefix, n)
    <3>1. PICK d \in OfRole(generated, "background") : Key(d) = Key(e)
      BY <2>3 DEF Keys
    <3>2. d.prefix = e.prefix /\ d \in generated
      BY <3>1 DEF Key, OfRole
    <3> QED
      BY <2>1, <3>2 DEF VerdictInv
  <2> QED
    BY <2>3, <2>4, SameKeysSameClass
<1> QED
  BY <1>1, SearchBegins, SearchKeeps, VerdictBegins, VerdictKeeps, PTL DEF DiscoverySpec

\* No verdict of one program contradicts the other about safety: a foreground thread that
\* the generated manifest calls background makes both fail.
THEOREM SafetyIsNeverPassed == DiscoverySpec => []SafetyFailsBoth
<1>1. SearchInv /\ VerdictInv => SafetyFailsBoth
  <2> SUFFICES ASSUME SearchInv, VerdictInv, phase = "evaluated"
               PROVE  /\ Keys(ground_truth, "foreground") \cap Keys(generated, "background") # {}
                           => exit = 1 /\ outcome = "FAIL"
                      /\ exit = 1 => outcome = "FAIL"
    BY DEF SafetyFailsBoth
  <2>1. IsFiniteSet(ground_truth)
    BY TruthFinite DEF SearchInv
  <2> QED
    BY <2>1, SafetyIsSeen DEF VerdictInv
<1> QED
  BY <1>1, SearchBegins, SearchKeeps, VerdictBegins, VerdictKeeps, PTL DEF DiscoverySpec

-------------------------------------------------------------------------------
(***************************************************************************)
(* Names, stems and prefixes.                                              *)
(***************************************************************************)
Less == {p \in Nat \X Nat : p[1] < p[2]}

LEMMA LeastNumber ==
  ASSUME NEW T \in SUBSET Nat, T # {}
  PROVE  \E n \in T : \A k \in T : n <= k
<1>1. IsWellFoundedOn(Less, Nat)
  BY NatLessThanWellFounded DEF OpToRel, Less
<1>2. PICK n \in T : \A k \in T : ~(<<k, n>> \in Less)
  BY <1>1, WFMin
<1>3. ASSUME NEW k \in T PROVE ~(k < n)
  <2>1. <<k, n>> \in Nat \X Nat /\ <<k, n>>[1] = k /\ <<k, n>>[2] = n
    BY <1>2
  <2> QED
    BY <1>2, <2>1 DEF Less
<1> QED
  BY <1>2, <1>3

\* There is a place from which on all characters are stripped, and the last one before it
\* is not: the least of the places from which on all characters can be.
LEMMA RstripCuts ==
  ASSUME NEW s \in Seq(STRING), NEW chars
  PROVE  \E n \in 0 .. Len(s) : Rstrip(s, chars) = SubSeq(s, 1, n)
<1> DEFINE Ok(n) == /\ n > 0 => s[n] \notin chars
                    /\ \A j \in n + 1 .. Len(s) : s[j] \in chars
           T == {n \in 0 .. Len(s) : \A j \in n + 1 .. Len(s) : s[j] \in chars}
<1>1. Len(s) \in T /\ T \subseteq Nat
  OBVIOUS
<1>2. PICK n \in T : \A k \in T : n <= k
  BY <1>1, LeastNumber
<1>3. n > 0 => s[n] \notin chars
  <2> SUFFICES ASSUME n > 0, s[n] \in chars PROVE FALSE
    OBVIOUS
  <2>0. n \in Nat /\ n <= Len(s) /\ Len(s) \in Nat
    OBVIOUS
  <2>1. n - 1 \in 0 .. Len(s) /\ \A j \in (n - 1) + 1 .. Len(s) : j = n \/ j \in n + 1 .. Len(s)
    BY <2>0
  <2>2. n - 1 \in T
    BY <2>1
  <2> HIDE DEF T
  <2> QED
    BY <1>2, <2>0, <2>2
<1>4. \E k \in 0 .. Len(s) : Ok(k)
  BY <1>3
<1> DEFINE i0 == CHOOSE k \in 0 .. Len(s) : Ok(k)
<1>5. i0 \in 0 .. Len(s)
  BY <1>4
<1>6. Rstrip(s, chars) = SubSeq(s, 1, i0)
  BY DEF Rstrip
<1> QED
  BY <1>5, <1>6

\* A stem is a beginning of the name, of a name that has one, and of the same characters.
LEMMA StemOfName ==
  ASSUME NEW name \in Seq(STRING)
  PROVE  /\ Stem(name) \in Seq(STRING) /\ Seqs!IsPrefix(Stem(name), name)
         /\ name # <<>> => Stem(name) # <<>>
         /\ Plain(name) => Plain(Stem(name))
         /\ ~EndsComment(name) => ~EndsComment(Stem(name)) /\ ~EndsComment(Append(Stem(name), "*"))
<1>1. PICK m \in 0 .. Len(name) : Rstrip(name, Digits) = SubSeq(name, 1, m)
  BY RstripCuts
<1> DEFINE head == SubSeq(name, 1, m)
<1>2. head \in Seq(STRING) /\ Len(head) = m
  BY <1>1
<1>3. PICK n \in 0 .. m : Rstrip(head, {"_"}) = SubSeq(head, 1, n)
  <2> HIDE DEF head
  <2> QED
    BY <1>2, RstripCuts
<1>4. SubSeq(head, 1, n) = SubSeq(name, 1, n) /\ n \in 0 .. Len(name)
  <2> HIDE DEF head
  <2>0. Len(name) \in Nat
    OBVIOUS
  <2>1. m \in Nat /\ n \in Nat /\ n <= m /\ m <= Len(name)
    BY <2>0
  <2> DEFINE one == SubSeq(head, 1, n)
             two == SubSeq(name, 1, n)
  <2>2. one \in Seq(STRING) /\ Len(one) = n /\ \A j \in 1 .. n : one[j] = head[j]
    BY <1>2, <2>1
  <2>3. two \in Seq(STRING) /\ Len(two) = n /\ \A j \in 1 .. n : two[j] = name[j]
    BY <2>0, <2>1
  <2>4. \A j \in 1 .. n : head[j] = name[j]
    BY <2>0, <2>1 DEF head
  <2> HIDE DEF one, two
  <2>5. one = two
    BY <2>1, <2>2, <2>3, <2>4
  <2> QED
    BY <2>0, <2>1, <2>5 DEF one, two
<1>5. Stem(name) = SubSeq(name, 1, n) \/ Stem(name) = name
  BY <1>1, <1>3, <1>4 DEF Stem
<1>6. name # <<>> => Stem(name) # <<>>
  BY DEF Stem
<1>7. n \in 0 .. Len(name)
  BY <1>4
<1>8. PICK k \in 0 .. Len(name) : Stem(name) = SubSeq(name, 1, k)
  <2>1. name = SubSeq(name, 1, Len(name))
    OBVIOUS
  <2> QED
    BY <1>5, <1>7, <2>1
<1>9. Stem(name) \in Seq(STRING) /\ Len(Stem(name)) = k
  BY <1>8
<1>10. Seqs!IsPrefix(Stem(name), name)
  <2>1. SubSeq(SubSeq(name, 1, k), 1, k) = SubSeq(name, 1, k)
    BY <1>8
  <2> QED
    BY <1>8, <1>9, <2>1 DEF Seqs!IsPrefix
<1>11. \A j \in DOMAIN Stem(name) : j \in DOMAIN name /\ Stem(name)[j] = name[j]
  BY <1>8, <1>9
<1>12. Plain(name) => Plain(Stem(name))
  BY <1>11 DEF Plain
<1>13. EndsComment(Stem(name)) => EndsComment(name)
  BY <1>11 DEF EndsComment
\* The asterisk comes last, so that no slash follows it.
<1>14. EndsComment(Append(Stem(name), "*")) => EndsComment(Stem(name))
  <2> SUFFICES ASSUME NEW s \in Seq(STRING), EndsComment(Append(s, "*")) PROVE EndsComment(s)
    BY <1>9
  <2>1. /\ DOMAIN Append(s, "*") = 1 .. Len(s) + 1 /\ Append(s, "*")[Len(s) + 1] = "*"
        /\ \A j \in 1 .. Len(s) : Append(s, "*")[j] = s[j]
        /\ DOMAIN s = 1 .. Len(s) /\ Len(s) \in Nat
    OBVIOUS
  <2>2. PICK p \in 1 .. Len(s) + 1 : /\ p + 1 \in 1 .. Len(s) + 1
                                    /\ Append(s, "*")[p] = "*" /\ Append(s, "*")[p + 1] = "/"
    BY <2>1 DEF EndsComment
  <2>3. p + 1 # Len(s) + 1
    BY <2>1, <2>2
  <2>4. p \in 1 .. Len(s) /\ p + 1 \in 1 .. Len(s)
    BY <2>1, <2>2, <2>3
  <2> QED
    BY <2>1, <2>2, <2>4 DEF EndsComment
<1> QED
  BY <1>6, <1>9, <1>10, <1>12, <1>13, <1>14

\* The entries of a manifest made from a profile.
LEMMA ProfileEntries ==
  ASSUME NEW p
  PROVE  /\ \A e \in build_manifest(p) : \E t \in p :
              /\ e.role = t.role /\ e.prefix = Stem(t.comm) /\ e.length = Len(Stem(t.comm))
              /\ e.pattern = Append(Stem(t.comm), "*") \/ \E u \in p : e.pattern = u.comm
         /\ \A t \in p : <<Stem(t.comm), Len(Stem(t.comm))>> \in RolePrefixes(build_manifest(p), t.role)
<1> DEFINE comms(g) == {t.comm : t \in {u \in p : u.role = g[1] /\ Stem(u.comm) = g[2]}}
           name(g) == IF Cardinality(comms(g)) = 1 THEN CHOOSE c \in comms(g) : TRUE
                      ELSE Append(g[2], "*")
           type(g) == IF Cardinality(comms(g)) = 1 THEN "comm_exact" ELSE "comm_prefix"
           entry(g) == Entry(name(g), g[1], type(g), g[2], Len(g[2]))
<1>1. build_manifest(p) = {entry(g) : g \in {<<t.role, Stem(t.comm)>> : t \in p}}
  BY DEF build_manifest
<1>2. \A g : /\ entry(g).role = g[1] /\ entry(g).prefix = g[2] /\ entry(g).length = Len(g[2])
             /\ entry(g).pattern = name(g)
  BY DEF Entry
<1> HIDE DEF entry
<1>3. ASSUME NEW e \in build_manifest(p)
      PROVE  \E t \in p :
               /\ e.role = t.role /\ e.prefix = Stem(t.comm) /\ e.length = Len(Stem(t.comm))
               /\ e.pattern = Append(Stem(t.comm), "*") \/ \E u \in p : e.pattern = u.comm
  <2>1. PICK t \in p : e = entry(<<t.role, Stem(t.comm)>>)
    BY <1>1
  <2> DEFINE g == <<t.role, Stem(t.comm)>>
  <2>2. t.comm \in comms(g)
    OBVIOUS
  <2>3. \A c \in comms(g) : \E u \in p : c = u.comm
    OBVIOUS
  <2> HIDE DEF comms
  <2>4. name(g) = Append(Stem(t.comm), "*") \/ \E u \in p : name(g) = u.comm
    BY <2>2, <2>3
  <2> QED
    BY <1>2, <2>1, <2>4
<1>4. ASSUME NEW t \in p
      PROVE  <<Stem(t.comm), Len(Stem(t.comm))>> \in RolePrefixes(build_manifest(p), t.role)
  <2> DEFINE e == entry(<<t.role, Stem(t.comm)>>)
  <2>1. e \in build_manifest(p) /\ e.role = t.role /\ e.prefix = Stem(t.comm) /\ e.length = Len(Stem(t.comm))
    BY <1>1, <1>2
  <2> HIDE DEF e
  <2> QED
    BY <2>1 DEF RolePrefixes, OfRole
<1> QED
  BY <1>3, <1>4

\* The whole stem is compared, although its length is given too.
LEMMA WholeIsChecked ==
  ASSUME NEW s \in Seq(STRING)
  PROVE  Checked(<<s, Len(s)>>) = s
BY DEF Checked, Truncated

\* What is compared of a prefix that is not null is compared as it is written.
LEMMA CheckedIsPart ==
  ASSUME NEW s \in Seq(STRING), s # <<>>, NEW n, n = Null \/ (n \in Nat /\ n >= 1)
  PROVE  Checked(<<s, n>>) # <<>> /\ (Plain(s) => Plain(Checked(<<s, n>>)))
<1>1. CASE n = Null \/ n >= Len(s)
  BY <1>1 DEF Checked, Truncated
<1>2. CASE n # Null /\ ~(n >= Len(s))
  <2>1. Checked(<<s, n>>) = SubSeq(s, 1, n) /\ n \in 1 .. Len(s)
    BY <1>2 DEF Checked, Truncated
  <2>2. SubSeq(s, 1, n) \in Seq(STRING) /\ Len(SubSeq(s, 1, n)) = n
    BY <2>1
  <2>3. \A j \in DOMAIN SubSeq(s, 1, n) : j \in DOMAIN s /\ SubSeq(s, 1, n)[j] = s[j]
    BY <2>1, <2>2
  <2>4. Plain(s) => Plain(SubSeq(s, 1, n))
    <3> DEFINE part == SubSeq(s, 1, n)
    <3> HIDE DEF part
    <3> QED
      BY <2>3 DEF Plain, part
  <2>5. SubSeq(s, 1, n) # <<>>
    BY <2>1, <2>2
  <2> QED
    BY <2>1, <2>4, <2>5
<1> QED
  BY <1>1, <1>2

-------------------------------------------------------------------------------
(***************************************************************************)
(* Stages 2 and 3.                                                         *)
(***************************************************************************)
\* A scheduler is generated and compiled from any manifest unless the manifest has what
\* the generator or the compiler does not accept.
StageInv ==
  /\ manifest \in Manifests
  /\ stage \in {"select", "generate", "load", "run"} \cup Ends
  /\ stage = "select" => pattern = "none"
  /\ stage # "select" => pattern \in Patterns
  /\ stage = "exception" => ExtractFails(manifest)
  /\ stage \in {"load", "run", "compile error"} => ~ExtractFails(manifest)
  /\ stage = "compile error" => ~Compiles(manifest, pattern)

LEMMA StageBegins == Init => StageInv
BY DEF Init, StageInv, Ends

LEMMA StageKeeps ==
  ASSUME StageInv, [Next]_vars
  PROVE  StageInv'
<1>1. CASE SelectPolicy
  <2>1. stage = "select" /\ stage' = "generate" /\ UNCHANGED manifest /\ pattern' \in Patterns
    BY <1>1 DEF SelectPolicy, select_policy, Patterns
  <2> QED
    BY <2>1 DEF StageInv, Ends
<1>2. CASE generate_scheduler
  BY <1>2 DEF generate_scheduler, StageInv, Ends
<1>3. CASE Load
  BY <1>3 DEF Load, StageInv, Ends
<1>4. CASE Machine \/ (\E c \in CPUs : Rename(c)) \/ Stopped \/ UNCHANGED vars
  BY <1>4 DEF Machine, Rename, Stopped, StageInv, pipeVars, vars
<1> QED
  BY <1>1, <1>2, <1>3, <1>4 DEF Next, Pipeline

\* The prefix of an entry is text or null, and its length a number or null.
LEMMA EntryTypes ==
  ASSUME NEW m \in Manifests, NEW e \in m
  PROVE  (e.prefix = Null \/ e.prefix \in Seq(STRING)) /\ (e.length = Null \/ e.length \in Nat)
<1>1. CASE m \in Written
  BY <1>1, GeneratedAssumption
<1>2. CASE \E p \in Profiles : m = build_manifest(p)
  <2>1. PICK p \in Profiles : m = build_manifest(p)
    BY <1>2
  <2>2. PICK t \in p : e.prefix = Stem(t.comm) /\ e.length = Len(Stem(t.comm))
    BY <2>1, ProfileEntries
  <2>3. Stem(t.comm) \in Seq(STRING)
    BY <2>1, GeneratedAssumption, StemOfName
  <2>4. Len(Stem(t.comm)) \in Nat
    BY <2>3
  <2> QED
    BY <2>2, <2>3, <2>4
<1> QED
  BY <1>1, <1>2 DEF Manifests

LEMMA PlainEntriesCompile ==
  ASSUME NEW m \in Manifests, \A e \in m : ByComm(e)
  PROVE  ~ExtractFails(m) /\ \A kind : Compiles(m, kind)
<1>1. ~ExtractFails(m)
  BY DEF ExtractFails, ByComm
<1>2. ASSUME NEW e \in m PROVE Comparable(e)
  <2>1. /\ e.prefix \in Seq(STRING) /\ e.prefix # <<>> /\ Plain(e.prefix)
        /\ e.length = Null \/ (e.length \in Nat /\ e.length >= 1)
        /\ ~EndsComment(e.prefix) /\ ~EndsComment(e.pattern)
    BY EntryTypes DEF ByComm
  <2> QED
    BY <2>1, CheckedIsPart DEF Comparable
<1> QED
  BY <1>1, <1>2 DEF Compiles, OfRole

\* Stages 2 and 3 and the compiler fail for no manifest that identifies all threads by
\* comm, whatever its prefixes and lengths and whichever pattern is selected.
THEOREM CommManifestsAlwaysRun == Spec => []CommManifestsRun
<1>1. StageInv => CommManifestsRun
  <2> SUFFICES ASSUME StageInv, \A e \in manifest : ByComm(e) PROVE stage \notin Ends
    BY DEF CommManifestsRun
  <2> QED
    BY PlainEntriesCompile DEF StageInv, Ends
<1> QED
  BY <1>1, StageBegins, StageKeeps, PTL DEF Spec

\* A manifest made from any profile gets a scheduler, whose classifier finds again every
\* thread profiled as background: a stem is a beginning of the names it stands for.
THEOREM ProfiledThreadsAreKept == Spec => []ProfiledThreadsKept
<1>1. StageInv => ProfiledThreadsKept
  <2> SUFFICES ASSUME StageInv, NEW p \in Profiles, manifest = build_manifest(p)
               PROVE  /\ (\A t \in p : t.comm # <<>> /\ Plain(t.comm) /\ ~EndsComment(t.comm))
                           => stage \notin Ends
                      /\ \A t \in p : t.role = "background" =>
                           /\ is_background(manifest, t.comm)
                           /\ \/ classify_task(manifest, t.comm) = "hog"
                              \/ \E u \in p : u.role = "foreground" /\ Seqs!IsPrefix(Stem(u.comm), t.comm)
    BY DEF ProfiledThreadsKept
  <2>0. \A t \in p : t.comm \in Seq(STRING)
    BY GeneratedAssumption
  <2>1. ASSUME \A t \in p : t.comm # <<>> /\ Plain(t.comm) /\ ~EndsComment(t.comm)
        PROVE  stage \notin Ends
    <3>1. ASSUME NEW e \in manifest PROVE ByComm(e)
      <4>1. PICK t \in p : /\ e.prefix = Stem(t.comm) /\ e.length = Len(Stem(t.comm))
                           /\ e.pattern = Append(Stem(t.comm), "*") \/ \E u \in p : e.pattern = u.comm
        BY <3>1, ProfileEntries
      <4>2. /\ Stem(t.comm) \in Seq(STRING) /\ Stem(t.comm) # <<>> /\ Plain(Stem(t.comm))
            /\ ~EndsComment(Stem(t.comm)) /\ ~EndsComment(Append(Stem(t.comm), "*"))
        BY <2>0, <2>1, StemOfName
      <4>5. ~EndsComment(e.pattern)
        BY <2>1, <4>1, <4>2
      <4>3. Len(Stem(t.comm)) >= 1
        BY <4>2
      <4>4. Stem(t.comm) # Null
        BY <4>2, GeneratedAssumption
      <4> QED
        BY <4>1, <4>2, <4>3, <4>4, <4>5 DEF ByComm
    <3> QED
      BY <3>1, PlainEntriesCompile DEF StageInv, Ends
  <2>2. ASSUME NEW t \in p, t.role = "background"
        PROVE  \E q \in RolePrefixes(manifest, "background") : Matches(t.comm, q)
    <3> DEFINE q == <<Stem(t.comm), Len(Stem(t.comm))>>
    <3>1. q \in RolePrefixes(manifest, "background")
      BY <2>2, ProfileEntries
    <3>2. Matches(t.comm, q)
      BY <2>0, StemOfName, WholeIsChecked DEF Matches
    <3> QED
      BY <3>1, <3>2
  <2>3. ASSUME NEW t \in p, NEW q \in RolePrefixes(manifest, "foreground"), Matches(t.comm, q)
        PROVE  \E u \in p : u.role = "foreground" /\ Seqs!IsPrefix(Stem(u.comm), t.comm)
    <3>1. PICK e \in manifest : e.role = "foreground" /\ q = <<e.prefix, e.length>>
      BY DEF RolePrefixes, OfRole
    <3>2. PICK u \in p : e.role = u.role /\ e.prefix = Stem(u.comm) /\ e.length = Len(Stem(u.comm))
      BY ProfileEntries
    <3>3. Checked(q) = Stem(u.comm)
      BY <2>0, <3>1, <3>2, StemOfName, WholeIsChecked
    <3> QED
      BY <2>3, <3>1, <3>2, <3>3 DEF Matches
  <2> QED
    BY <2>1, <2>2, <2>3 DEF is_background, classify_task
<1> QED
  BY <1>1, StageBegins, StageKeeps, PTL DEF Spec
-------------------------------------------------------------------------------
(***************************************************************************)
(* The machine of a generated scheduler, whatever its template.            *)
(***************************************************************************)
ClassTypes == class \in [Tasks -> {"unknown", "nginx", "hog", "normal"}]

\* The looks at the two DSQs.
LookStep(c) == DispatchFirst(c) \/ DispatchSecond(c) \/ ConsumeGlobalAgain(c)

LEMMA LookIsDispatch ==
  ASSUME NEW c, LookStep(c) PROVE AnyDispatch(c) /\ UNCHANGED <<preemptVars, class>>
BY DEF LookStep, DispatchFirst, DispatchSecond, ConsumeGlobalAgain, AnyDispatch

\* The loop of select_cpu stays in the array.
LEMMA LimitInRange == ScanLimit \in 1 .. MaxCpus
BY CoreAssumption, PreemptAssumption DEF ScanLimit

LEMMA WakeupOfGenerated ==
  ASSUME NEW t, SelectCpu(t) \/ WakeupStep(t)
  PROVE  \E b : WakeupAs(t, b)
BY LimitInRange, ScanIsOn DEF SelectCpu, WakeupStep, Enqueue, Scan, WakeupAs

\* Every other step of a CPU but the one of put_prev, where a scheduler of template A
\* calls enqueue but not stopping.
LEMMA ScheduleOfGenerated ==
  ASSUME NEW c, ScheduleStep(c) \/ SliceStep(c) \/ BlockStep(c), ~LookStep(c), ~PutPrevStep(c)
  PROVE  \E b : ScheduleAs(c, b)
BY DEF ScheduleStep, SliceStep, BlockStep, StartStep, ScheduleAs, LookStep

LEMMA StepOfPolicy ==
  ASSUME PreemptTypes, [Next]_vars
  PROVE  [AnyNext]_<<coreVars, dsqVars>>
<1>1. ASSUME NEW t \in Tasks, SelectCpu(t) \/ WakeupStep(t) PROVE AnyNext
  BY <1>1, WakeupOfGenerated, WakeupIsPolicy
<1>2. ASSUME NEW c \in CPUs, ScheduleStep(c) \/ SliceStep(c) \/ BlockStep(c) PROVE AnyNext
  <2>1. CASE LookStep(c)
    BY <2>1, LookIsDispatch DEF AnyNext, AnySchedule
  <2>2. CASE PutPrevStep(c)
    <3>1. AnyPutPrev(c)
      BY <2>2, EnqueueInserts DEF PutPrevStep, AnyPutPrev
    <3> QED
      BY <3>1 DEF AnyNext, AnySchedule
  <2>3. CASE ~LookStep(c) /\ ~PutPrevStep(c)
    BY <1>2, <2>3, ScheduleOfGenerated, ScheduleIsPolicy
  <2> QED
    BY <2>1, <2>2, <2>3
<1>3. ASSUME TimePasses \/ Pipeline \/ (\E c \in CPUs : Rename(c)) \/ Stopped \/ UNCHANGED vars
      PROVE  UNCHANGED <<coreVars, dsqVars>>
  BY <1>3 DEF TimePasses, Pipeline, SelectPolicy, generate_scheduler, Load, Rename, Stopped, vars, machineVars
<1> QED
  BY <1>1, <1>2, <1>3 DEF Next, Machine

\* A callback leaves the class that the task has, or has none, in the cache.
LEMMA CacheTypes ==
  ASSUME ClassTypes, NEW t \in Tasks, Classified(t) PROVE ClassTypes'
<1>1. TaskClass(t) \in {"unknown", "nginx", "hog", "normal"}
  BY DEF ClassTypes, TaskClass, classify_task
<1> QED
  BY <1>1 DEF ClassTypes, Classified

LEMMA ClassStep ==
  ASSUME CoreInv, [Next]_vars
  PROVE  UNCHANGED class \/ \E t \in Tasks : Classified(t)
<1>1. ASSUME NEW t \in Tasks, SelectCpu(t) \/ WakeupStep(t)
      PROVE  UNCHANGED class \/ Classified(t)
  BY <1>1 DEF SelectCpu, WakeupStep, Enqueue, Scan
<1>2. ASSUME NEW c \in CPUs, ScheduleStep(c) \/ SliceStep(c) \/ BlockStep(c)
      PROVE  UNCHANGED class \/ \E t \in Tasks : Classified(t)
  <2>1. CASE PutPrevStep(c)
    <3>1. PrevRunnable(c) => curr[c] \in Tasks
      BY DEF PrevRunnable, CoreInv, CoreTypeOK
    <3> QED
      BY <2>1, <3>1 DEF PutPrevStep
  <2>2. CASE StartStep(c)
    <3>1. local[c] \in Seq(Tasks) /\ local[c] # <<>>
      BY <2>2 DEF StartStep, StartNext, SetNext, CoreInv, CoreTypeOK, LocalReady
    <3>2. Head(local[c]) \in Tasks
      BY <3>1, HeadTailSeq
    <3> QED
      BY <2>2, <3>2 DEF StartStep
  <2>3. CASE BlockStep(c)
    <3>1. curr[c] \in Tasks
      BY <2>3 DEF BlockStep, TaskBlocks, Block, CoreInv, PlaceInv, CpuOwns
    <3> QED
      BY <2>3, <3>1 DEF BlockStep
  <2>4. CASE LookStep(c)
    BY <2>4, LookIsDispatch
  <2> QED
    BY <1>2, <2>1, <2>2, <2>3, <2>4 DEF ScheduleStep, SliceStep, LookStep
<1>3. ASSUME \/ (TimePasses /\ UNCHANGED class) \/ Pipeline
             \/ (\E c \in CPUs : Rename(c)) \/ Stopped \/ UNCHANGED vars
      PROVE  UNCHANGED class
  BY <1>3 DEF Pipeline, SelectPolicy, generate_scheduler, Load, Rename, Stopped, vars, machineVars
<1> QED
  BY <1>1, <1>2, <1>3 DEF Next, Machine

LEMMA PreemptTypesNext ==
  ASSUME CoreInv, PreemptTypes, [Next]_vars PROVE PreemptTypes'
<1>0. tpc \in [Tasks -> TaskPcs]
  BY DEF CoreInv, CoreTypeOK
<1>1. ASSUME NEW t \in Tasks, SelectCpu(t) \/ WakeupStep(t) PROVE PreemptTypes'
  BY <1>0, <1>1, WakeupOfGenerated, PreemptTypesWakeup
<1>2. ASSUME NEW c \in CPUs, ScheduleStep(c) \/ SliceStep(c) \/ BlockStep(c) PROVE PreemptTypes'
  <2>1. CASE LookStep(c)
    BY <2>1, LookIsDispatch, PreemptTypesDispatch
  <2>2. CASE PutPrevStep(c)
    <3>1. UNCHANGED <<tpc, bg_start, scanVars, kick, rnow, clock>>
      BY <2>2 DEF PutPrevStep, PutPrev
    <3>2. bg_running' \in [Slots -> BOOLEAN] /\ \A m \in Slots : bg_running'[m] => bg_running[m]
      BY <2>2 DEF PutPrevStep, stopping, PreemptTypes, PreemptTypeOK
    <3> QED
      BY <3>1, <3>2 DEF scanVars, PreemptTypes, PreemptTypeOK, FlaggedSlots
  <2>3. CASE ~LookStep(c) /\ ~PutPrevStep(c)
    BY <1>0, <1>2, <2>3, ScheduleOfGenerated, PreemptTypesSchedule
  <2> QED
    BY <2>1, <2>2, <2>3
<1>3. CASE TimePasses
  BY <1>3, PreemptTypesTime
<1>4. ASSUME Pipeline \/ (\E c \in CPUs : Rename(c)) \/ Stopped \/ UNCHANGED vars
      PROVE  PreemptTypes'
  <2>1. UNCHANGED <<coreVars, preemptVars>>
    BY <1>4 DEF Pipeline, SelectPolicy, generate_scheduler, Load, Rename, Stopped, vars, machineVars
  <2> QED
    BY <2>1, PreemptTypesKept DEF coreVars
<1> QED
  BY <1>1, <1>2, <1>3, <1>4 DEF Next, Machine
-------------------------------------------------------------------------------
(***************************************************************************)
(* The invariant of Generated: nothing runs before the scheduler is loaded *)
(* with the pattern it keeps, and a CPU or wake-up is in no phase that the *)
(* template of this pattern does not have.                                 *)
(***************************************************************************)
Unstarted == stage # "run" => CoreInit /\ PreemptInit /\ class = [t \in Tasks |-> "unknown"]

\* In A no wake-up scans or kicks, and no CPU has to stamp a time; only in C dispatch
\* looks at the first queue again.
PhasesOfPattern ==
  /\ A => /\ \A t \in Tasks : tpc[t] \notin {"scan", "age"} /\ kick[t] = {}
          /\ \A c \in CPUs : cpc[c] \notin {"running", "recheck"}
  /\ B => \A c \in CPUs : cpc[c] # "recheck"

NameTypes == comm \in [Tasks -> Seq(STRING)]

GeneratedInv ==
  StageInv /\ CoreInv /\ PreemptTypes /\ ClassTypes /\ NameTypes /\ Unstarted /\ PhasesOfPattern

LEMMA OnePattern == ~(A /\ B) /\ ~(A /\ C) /\ ~(B /\ C)
BY DEF A, B, C

LEMMA UnstartedHasNoPhase ==
  ASSUME CoreInit, PreemptInit PROVE PhasesOfPattern
BY DEF CoreInit, PreemptInit, PhasesOfPattern

\* What a wake-up does to the phases, in A and in general.
LEMMA PhasesWakeup ==
  ASSUME CoreTypeOK, PreemptTypeOK, PhasesOfPattern, NEW t \in Tasks, SelectCpu(t) \/ WakeupStep(t)
  PROVE  /\ UNCHANGED cpc
         /\ A => \A u \in Tasks : tpc'[u] \notin {"scan", "age"} /\ kick'[u] = {}
<1>1. UNCHANGED cpc
  BY DEF SelectCpu, SelectIdle, SelectBusy, WakeIdle, WakeBusy, WakeupStep, Enqueue, EnqueueWoken,
         EnqueueDirect, ActivateShared, ActivateLocal, Activate, Scan, ScanFlag, CheckAge, DeliverKick,
         NextSlot, EndScan, ScanStep, Preempt
<1>2. ASSUME A PROVE \A u \in Tasks : tpc'[u] \notin {"scan", "age"} /\ kick'[u] = {}
  <2>1. ~MayPreempt(t)
    BY <1>2, OnePattern DEF MayPreempt
  <2>2. tpc[t] \notin {"scan", "age"} /\ kick[t] = {}
    BY <1>2 DEF PhasesOfPattern
  <2>3. ~Scan(t)
    BY <2>2 DEF Scan, ScanFlag, CheckAge, DeliverKick
  <2>4. UNCHANGED kick
    BY <2>3 DEF SelectCpu, SelectIdle, SelectBusy, WakeupStep, Enqueue, EnqueueWoken, EnqueueDirect, preemptVars
  <2>5. \E pc \in {"enq", "enqLocal", "ready"} : tpc' = [tpc EXCEPT ![t] = pc]
    BY <2>1, <2>3 DEF SelectCpu, SelectIdle, SelectBusy, WakeIdle, WakeBusy, WakeupStep, Enqueue,
                      EnqueueWoken, EnqueueDirect, ActivateShared, ActivateLocal, Activate
  <2> QED
    BY <1>2, <2>4, <2>5 DEF PhasesOfPattern, CoreTypeOK
<1> QED
  BY <1>1, <1>2

\* What schedule() does to them: c goes to a phase of its template, its task to sleep or
\* nowhere.
LEMMA PhasesSchedule ==
  ASSUME CoreTypeOK, PhasesOfPattern, NEW c \in CPUs, ScheduleStep(c) \/ SliceStep(c) \/ BlockStep(c)
  PROVE  /\ UNCHANGED kick
         /\ \A u \in Tasks : tpc'[u] \in {tpc[u], "asleep"}
         /\ \A d \in CPUs \ {c} : cpc'[d] = cpc[d]
         /\ A => cpc'[c] \notin {"running", "recheck"}
         /\ B => cpc'[c] # "recheck"
<1> DEFINE Goes(pcs) == \E pc \in pcs : cpc' = [cpc EXCEPT ![c] = pc]
           Quiet == /\ UNCHANGED kick
                    /\ \A u \in Tasks : tpc'[u] \in {tpc[u], "asleep"}
<1>1. CASE LookStep(c)
  <2>1. Quiet
    BY <1>1, LookIsDispatch DEF preemptVars, AnyDispatch, TakeForeground, TakeBackground, MoveToLocal,
                                Advance, NothingFound
  <2>2. CASE DispatchFirst(c)
    <3>1. Goes({"put", "dispatchBg"})
      BY <2>2 DEF DispatchFirst, TakeForeground, MoveToLocal, Advance
    <3> QED
      BY <2>1, <3>1 DEF CoreTypeOK
  <2>3. CASE DispatchSecond(c)
    <3>1. Goes({"put", "run", "idle"}) \/ (C /\ Goes({"recheck"}))
      BY <2>3 DEF DispatchSecond, TakeBackground, MoveToLocal, Advance, NothingFound
    <3> QED
      BY <2>1, <3>1, OnePattern DEF CoreTypeOK
  <2>4. CASE ConsumeGlobalAgain(c)
    <3>1. Goes({"put", "run", "idle"})
      BY <2>4 DEF ConsumeGlobalAgain, TakeForeground, MoveToLocal, NothingFound
    <3> QED
      BY <2>1, <3>1 DEF CoreTypeOK
  <2> QED
    BY <1>1, <2>2, <2>3, <2>4 DEF LookStep
<1>2. CASE BalanceCpu(c) \/ PutPrevStep(c) \/ StampStart(c)
  <2>1. Quiet
    BY <1>2 DEF BalanceCpu, Balance, preemptVars, PutPrevStep, PutPrev, StampStart, RunningDone
  <2>2. Goes({"put", "dispatch", "next", "run"})
    BY <1>2 DEF BalanceCpu, Balance, PutPrevStep, PutPrev, StampStart, RunningDone
  <2> QED
    BY <2>1, <2>2 DEF CoreTypeOK
<1>3. CASE StartStep(c)
  <2>1. Quiet
    BY <1>3 DEF StartStep, StartNext, SetNext
  <2>2. Goes({"run"}) \/ (~A /\ Goes({"running"}))
    BY <1>3 DEF StartStep, StartNext, SetNext, Flagged
  <2> QED
    BY <2>1, <2>2 DEF CoreTypeOK
<1>4. CASE SliceStep(c)
  BY <1>4 DEF SliceStep, SliceEnds, SliceExpires, preemptVars, PhasesOfPattern
<1>5. CASE BlockStep(c)
  <2>1. Quiet
    BY <1>5 DEF BlockStep, TaskBlocks, Block, CoreTypeOK
  <2>2. Goes({"blocked"})
    BY <1>5 DEF BlockStep, TaskBlocks, Block
  <2> QED
    BY <2>1, <2>2 DEF CoreTypeOK
<1> QED
  BY <1>1, <1>2, <1>3, <1>4, <1>5 DEF ScheduleStep, LookStep

LEMMA PhasesNext ==
  ASSUME GeneratedInv, [Next]_vars PROVE Unstarted' /\ PhasesOfPattern'
<1>0. CoreTypeOK /\ PreemptTypeOK /\ PhasesOfPattern /\ Unstarted
  BY DEF GeneratedInv, CoreInv, PreemptTypes
<1>1. CASE Pipeline
  <2>1. stage # "run" /\ UNCHANGED machineVars
    BY <1>1 DEF Pipeline, SelectPolicy, generate_scheduler, Load
  <2>2. CoreInit' /\ PreemptInit' /\ class' = [t \in Tasks |-> "unknown"]
    BY <2>1, <1>0 DEF Unstarted, machineVars, coreVars, dsqVars, preemptVars, mapVars, scanVars,
                      CoreInit, PreemptInit
  <2> QED
    BY <2>2, UnstartedHasNoPhase DEF Unstarted, CoreInit, PreemptInit, PhasesOfPattern
<1>2. CASE Machine
  <2>0. stage = "run" /\ UNCHANGED <<stage, pattern>>
    BY <1>2 DEF Machine, pipeVars
  <2>1. ASSUME NEW t \in Tasks, SelectCpu(t) \/ WakeupStep(t) PROVE PhasesOfPattern'
    BY <1>0, <2>0, <2>1, PhasesWakeup DEF PhasesOfPattern, A, B
  <2>2. ASSUME NEW c \in CPUs, ScheduleStep(c) \/ SliceStep(c) \/ BlockStep(c) PROVE PhasesOfPattern'
    BY <1>0, <2>0, <2>2, PhasesSchedule DEF PhasesOfPattern, A, B
  <2>3. ASSUME TimePasses PROVE PhasesOfPattern'
    <3>1. UNCHANGED <<tpc, cpc, kick>>
      BY <2>3 DEF TimePasses, coreVars
    <3> QED
      BY <1>0, <2>0, <3>1 DEF PhasesOfPattern, A, B
  <2> QED
    BY <1>2, <2>0, <2>1, <2>2, <2>3 DEF Machine, Unstarted
<1>3. CASE (\E c \in CPUs : Rename(c)) \/ Stopped \/ UNCHANGED vars
  BY <1>0, <1>3 DEF Rename, Stopped, vars, pipeVars, machineVars, coreVars, dsqVars, preemptVars, mapVars, scanVars,
                    Unstarted, PhasesOfPattern, A, B, CoreInit, PreemptInit
<1> QED
  BY <1>1, <1>2, <1>3 DEF Next

\* A thread takes one of the names that it may take.
LEMMA NamesNext == ASSUME NameTypes, [Next]_vars PROVE NameTypes'
<1>1. ASSUME NEW c \in CPUs, Rename(c) PROVE NameTypes'
  <2>1. PICK name \in NewNames[curr[c]] : comm' = [comm EXCEPT ![curr[c]] = name]
    BY <1>1 DEF Rename
  <2>2. curr[c] \in Tasks /\ name \in Seq(STRING)
    BY <1>1, <2>1, GeneratedAssumption DEF Rename
  <2> QED
    BY <2>1, <2>2 DEF NameTypes
<1>2. Pipeline \/ Machine \/ Stopped \/ UNCHANGED vars => UNCHANGED comm
  BY DEF Pipeline, SelectPolicy, generate_scheduler, Load, Machine, Stopped, vars
<1> QED
  BY <1>1, <1>2 DEF Next, NameTypes

LEMMA GeneratedInvHolds == Spec => []GeneratedInv
<1>1. Init => GeneratedInv
  <2>1. ASSUME Init PROVE ClassTypes /\ NameTypes /\ Unstarted /\ PhasesOfPattern
    BY <2>1, UnstartedHasNoPhase, GeneratedAssumption DEF Init, ClassTypes, NameTypes, Unstarted
  <2> QED
    BY <2>1, StageBegins, CoreInvInit, PreemptTypesInit DEF Init, GeneratedInv
<1>2. ASSUME GeneratedInv, [Next]_vars PROVE GeneratedInv'
  <2>1. CoreInv' /\ PreemptTypes'
    BY <1>2, StepOfPolicy, CoreInvNext, PreemptTypesNext DEF GeneratedInv
  <2>2. ClassTypes'
    BY <1>2, ClassStep, CacheTypes DEF GeneratedInv, ClassTypes
  <2>3. StageInv' /\ NameTypes' /\ Unstarted' /\ PhasesOfPattern'
    BY <1>2, StageKeeps, NamesNext, PhasesNext DEF GeneratedInv
  <2> QED
    BY <2>1, <2>2, <2>3 DEF GeneratedInv
<1> QED
  BY <1>1, <1>2, PTL DEF Spec
\* Type correctness of the pipeline and of whatever scheduler it generates.
THEOREM GeneratedTypeCorrect == Spec => []TypeOK
<1>1. GeneratedInv => TypeOK
  BY DEF GeneratedInv, StageInv, CoreInv, PreemptTypes, ClassTypes, NameTypes, TypeOK
<1> QED
  BY <1>1, GeneratedInvHolds, PTL

\* Whatever the manifest and the pattern, the generated scheduler implements the abstract
\* scheduler.
THEOREM GeneratedIsPolicy == Spec => AnyPolicy
<1>1. Init => CoreInit
  BY DEF Init
<1>2. GeneratedInv /\ [Next]_vars => [AnyNext]_<<coreVars, dsqVars>>
  BY StepOfPolicy DEF GeneratedInv
<1> QED
  BY <1>1, <1>2, GeneratedInvHolds, PTL DEF Spec, AnyPolicy

\* No generated scheduler loses a thread or queues it twice, ...
THEOREM GeneratedOnePlace == Spec => []OnePlace
BY GeneratedIsPolicy, NoTaskLostOrDoubled, PTL

\* ... or leaves one waiting in a DSQ that no CPU will look at.
THEOREM GeneratedNoStall == Spec => []NoStall
BY GeneratedIsPolicy, WorkIsNeverStranded, PTL
-------------------------------------------------------------------------------
(***************************************************************************)
(* Template B: a generated scheduler is a redis_aware.                     *)
(***************************************************************************)
\* The machine of the instance is the machine here.
LEMMA RedisMachine ==
  ASSUME NEW m, NEW t, NEW c, NEW b, NEW pc, NEW limit
  PROVE  /\ SelectIdle(t) <=> RedisAware(m)!SelectIdle(t)
         /\ SelectBusy(t, b) <=> RedisAware(m)!SelectBusy(t, b)
         /\ ScanFlag(t, limit) <=> RedisAware(m)!ScanFlag(t, limit)
         /\ CheckAge(t, limit) <=> RedisAware(m)!CheckAge(t, limit)
         /\ DeliverKick(t) <=> RedisAware(m)!DeliverKick(t)
         /\ EnqueueWoken(t, b) <=> RedisAware(m)!EnqueueWoken(t, b)
         /\ EnqueueDirect(t) <=> RedisAware(m)!EnqueueDirect(t)
         /\ BalanceCpu(c) <=> RedisAware(m)!BalanceCpu(c)
         /\ TakeForeground(c) <=> RedisAware(m)!TakeForeground(c)
         /\ TakeBackground(c) <=> RedisAware(m)!TakeBackground(c)
         /\ Advance(c, pc) <=> RedisAware(m)!Advance(c, pc)
         /\ NothingFound(c) <=> RedisAware(m)!NothingFound(c)
         /\ PutPrevTask(c, b) <=> RedisAware(m)!PutPrevTask(c, b)
         /\ StartNext(c, b) <=> RedisAware(m)!StartNext(c, b)
         /\ StampStart(c) <=> RedisAware(m)!StampStart(c)
         /\ SliceEnds(c) <=> RedisAware(m)!SliceEnds(c)
         /\ TaskBlocks(c, b) <=> RedisAware(m)!TaskBlocks(c, b)
         /\ TimePasses <=> RedisAware(m)!TimePasses
BY DEF CPUs, Slots, coreVars, dsqVars, mapVars, scanVars, preemptVars, WakeIdle, Wakeable,
       ClaimIdle, SelectIdle, WakeBusy, SelectBusy, ScanStep, EndScan, NextSlot,
       ScanFlag, Elapsed, OldEnough, CheckAge, LockFree, Preempt, DeliverKick, Activate,
       ActivateShared, InsertForeground, InsertBackground, enqueue, EnqueueWoken,
       ActivateLocal, EnqueueDirect, Balance, BalanceCpu, HeldElsewhere, MoveToLocal,
       TakeForeground, TakeBackground, Advance, PrevRunnable, NothingFound, stopping,
       PutPrev, PutPrevTask, SetNext, StartNext, RunningDone, StampStart, SliceExpires,
       SliceEnds, Block, TaskBlocks, TimePasses,
       RedisAware!CPUs, RedisAware!Slots, RedisAware!coreVars, RedisAware!dsqVars,
       RedisAware!mapVars, RedisAware!scanVars, RedisAware!preemptVars,
       RedisAware!WakeIdle, RedisAware!Wakeable, RedisAware!ClaimIdle,
       RedisAware!SelectIdle, RedisAware!WakeBusy, RedisAware!SelectBusy,
       RedisAware!ScanStep, RedisAware!EndScan, RedisAware!NextSlot,
       RedisAware!ScanFlag, RedisAware!Elapsed, RedisAware!OldEnough, RedisAware!CheckAge,
       RedisAware!LockFree, RedisAware!Preempt, RedisAware!DeliverKick,
       RedisAware!Activate, RedisAware!ActivateShared, RedisAware!InsertForeground,
       RedisAware!InsertBackground, RedisAware!enqueue, RedisAware!EnqueueWoken,
       RedisAware!ActivateLocal, RedisAware!EnqueueDirect, RedisAware!Balance,
       RedisAware!BalanceCpu, RedisAware!HeldElsewhere, RedisAware!MoveToLocal,
       RedisAware!TakeForeground, RedisAware!TakeBackground, RedisAware!Advance,
       RedisAware!PrevRunnable, RedisAware!NothingFound, RedisAware!stopping,
       RedisAware!PutPrev, RedisAware!PutPrevTask, RedisAware!SetNext,
       RedisAware!StartNext, RedisAware!RunningDone, RedisAware!StampStart,
       RedisAware!SliceExpires, RedisAware!SliceEnds, RedisAware!Block,
       RedisAware!TaskBlocks, RedisAware!TimePasses

\* What the generated function says of a thread's first name is whether it is in the set
\* that the refined program starts with.
LEMMA BackgroundMatches ==
  ASSUME NEW m, comm = Comm
  PROVE  NamedBackground(m) = [t \in Tasks |-> t \in Matched(m, "background")]
<1>1. ASSUME NEW t \in Tasks
      PROVE  is_background(m, Comm[t]) = (t \in Matched(m, "background"))
  <2>1. is_background(m, Comm[t]) <=> t \in Matched(m, "background")
    BY DEF is_background, Matched
  <2>2. is_background(m, Comm[t]) \in BOOLEAN
    BY DEF is_background
  <2> QED
    BY <2>1, <2>2
<1> QED
  BY <1>1 DEF NamedBackground

\* The class that redis_aware would compute is the one that a scheduler of template B does.
LEMMA RedisStep ==
  ASSUME GeneratedInv, Machine, B, NEW m, manifest = m
  PROVE  RedisAware(m)!Next
<1> DEFINE bg == NamedBackground(m)
<1>0. bg' = bg
  BY DEF Machine, NamedBackground
<1>1. ~A /\ ~C /\ CoreInv /\ PhasesOfPattern /\ (\A c \in CPUs : cpc[c] # "recheck")
  BY OnePattern DEF GeneratedInv, PhasesOfPattern
<1>2. ASSUME NEW t \in Tasks
      PROVE  IsBackground(t) = bg[t] /\ Flagged(t) = bg[t] /\ MayPreempt(t) = ~bg[t]
  <2>1. IsBackground(t) = is_background(m, comm[t])
    BY <1>1 DEF IsBackground
  <2>2. is_background(m, comm[t]) = bg[t]
    BY DEF NamedBackground
  <2>3. Flagged(t) = IsBackground(t)
    BY <1>1, <2>1 DEF Flagged, is_background
  <2>4. MayPreempt(t) = ~IsBackground(t)
    BY <1>1 DEF MayPreempt
  <2> QED
    BY <2>1, <2>2, <2>3, <2>4
<1>3. ASSUME NEW t \in Tasks, SelectCpu(t) PROVE RedisAware(m)!SelectCpu(t)
  BY <1>2, <1>3, RedisMachine DEF SelectCpu, RedisAware!SelectCpu
<1>4. ASSUME NEW t \in Tasks, WakeupStep(t) PROVE RedisAware(m)!WakeupStep(t)
  BY <1>0, <1>1, <1>2, <1>4, RedisMachine DEF WakeupStep, Enqueue, Scan, ScanLimit, RedisAware!WakeupStep
<1>5. ASSUME NEW c \in CPUs, ScheduleStep(c) PROVE RedisAware(m)!ScheduleStep(c)
  <2>1. CASE BalanceCpu(c) \/ StampStart(c)
    BY <1>0, <2>1, RedisMachine DEF RedisAware!ScheduleStep
  <2>2. CASE DispatchFirst(c)
    <3>1. RedisAware(m)!DispatchForeground(c)
      BY <2>2, RedisMachine DEF DispatchFirst, RedisAware!DispatchForeground, preemptVars, mapVars, scanVars,
            RedisAware!preemptVars, RedisAware!mapVars, RedisAware!scanVars
    <3> QED
      BY <1>0, <3>1 DEF RedisAware!ScheduleStep
  <2>3. CASE DispatchSecond(c)
    <3>1. RedisAware(m)!DispatchBackground(c)
      BY <1>1, <2>3, RedisMachine DEF DispatchSecond, RedisAware!DispatchBackground, preemptVars, mapVars, scanVars,
            RedisAware!preemptVars, RedisAware!mapVars, RedisAware!scanVars
    <3> QED
      BY <1>0, <3>1 DEF RedisAware!ScheduleStep
  <2>4. CASE PutPrevStep(c)
    <3>1. PrevRunnable(c) => curr[c] # NoTask /\ curr[c] \in Tasks
      BY <1>1 DEF PrevRunnable, CoreInv, CoreTypeOK
    <3>2. PutPrevTask(c, curr[c] # NoTask /\ bg[curr[c]])
      BY <1>2, <2>4, <3>1 DEF PutPrevStep, PutPrevTask, enqueue, stopping
    <3>3. RedisAware(m)!PutPrevTask(c, curr[c] # NoTask /\ bg[curr[c]])
      BY <3>2, RedisMachine
    <3> QED
      BY <1>0, <3>3 DEF RedisAware!ScheduleStep
  <2>5. CASE StartStep(c)
    <3>1. local[c] \in Seq(Tasks) /\ local[c] # <<>>
      BY <1>1, <2>5 DEF StartStep, StartNext, SetNext, CoreInv, CoreTypeOK, LocalReady
    <3>2. StartNext(c, bg[Head(local[c])])
      BY <1>2, <2>5, <3>1, HeadTailSeq DEF StartStep
    <3> QED
      BY <1>0, <3>2, RedisMachine DEF RedisAware!ScheduleStep
  <2> QED
    BY <1>1, <1>5, <2>1, <2>2, <2>3, <2>4, <2>5 DEF ScheduleStep, ConsumeGlobalAgain
<1>6. ASSUME NEW c \in CPUs, BlockStep(c) PROVE RedisAware(m)!BlockStep(c)
  <2>1. curr[c] \in Tasks
    BY <1>1, <1>6 DEF BlockStep, TaskBlocks, Block, CoreInv, PlaceInv, CpuOwns
  <2>2. TaskBlocks(c, bg[curr[c]])
    BY <1>2, <1>6, <2>1 DEF BlockStep
  <2> QED
    BY <1>0, <2>2, RedisMachine DEF RedisAware!BlockStep
<1>7. ASSUME NEW c \in CPUs, SliceStep(c) PROVE RedisAware(m)!SliceStep(c)
  BY <1>0, <1>7, RedisMachine DEF SliceStep, RedisAware!SliceStep
<1>8. TimePasses => RedisAware(m)!TimePasses
  BY RedisMachine
<1> QED
  BY <1>0, <1>3, <1>4, <1>5, <1>6, <1>7, <1>8 DEF Machine, RedisAware!Next, CPUs, RedisAware!CPUs

\* The pipeline does not touch the machine.
LEMMA RunStep ==
  ASSUME [Next]_vars PROVE (stage = "run" /\ Machine) \/ UNCHANGED machineVars
BY DEF Next, Machine, Pipeline, SelectPolicy, generate_scheduler, Load, Rename, Stopped, vars

\* A scheduler generated from template B is a redis_aware for the background threads of
\* the manifest: it starts as one, and makes no step that redis_aware would not.
THEOREM TemplateBIsRedisAware == Spec => RefinesRedisAware
<1>1. ASSUME Init, NEW m PROVE RedisAware(m)!Init
  BY <1>1, BackgroundMatches DEF Init, CoreInit, PreemptInit, CPUs, Slots, RedisAware!Init, RedisAware!CoreInit,
              RedisAware!PreemptInit, RedisAware!CPUs, RedisAware!Slots
<1>2. ASSUME GeneratedInv, [Next]_vars
      PROVE  [\A m \in Usable : stage = "run" /\ B /\ manifest = m => RedisAware(m)!Next]_machineVars
  BY <1>2, RedisStep, RunStep
<1>3. Init => \A m \in Usable : RedisAware(m)!Init
  BY <1>1
<1> QED
  BY <1>2, <1>3, GeneratedInvHolds, PTL DEF Spec, RefinesRedisAware
-------------------------------------------------------------------------------
(***************************************************************************)
(* Template C: a generated scheduler is an nginx_aware.                    *)
(***************************************************************************)
LEMMA NginxMachine ==
  ASSUME NEW m, NEW t, NEW c, NEW b, NEW pc, NEW limit
  PROVE  /\ SelectIdle(t) <=> NginxAware(m)!SelectIdle(t)
         /\ SelectBusy(t, b) <=> NginxAware(m)!SelectBusy(t, b)
         /\ ScanFlag(t, limit) <=> NginxAware(m)!ScanFlag(t, limit)
         /\ CheckAge(t, limit) <=> NginxAware(m)!CheckAge(t, limit)
         /\ DeliverKick(t) <=> NginxAware(m)!DeliverKick(t)
         /\ EnqueueWoken(t, b) <=> NginxAware(m)!EnqueueWoken(t, b)
         /\ EnqueueDirect(t) <=> NginxAware(m)!EnqueueDirect(t)
         /\ BalanceCpu(c) <=> NginxAware(m)!BalanceCpu(c)
         /\ TakeForeground(c) <=> NginxAware(m)!TakeForeground(c)
         /\ TakeBackground(c) <=> NginxAware(m)!TakeBackground(c)
         /\ Advance(c, pc) <=> NginxAware(m)!Advance(c, pc)
         /\ NothingFound(c) <=> NginxAware(m)!NothingFound(c)
         /\ PutPrevTask(c, b) <=> NginxAware(m)!PutPrevTask(c, b)
         /\ StartNext(c, b) <=> NginxAware(m)!StartNext(c, b)
         /\ StampStart(c) <=> NginxAware(m)!StampStart(c)
         /\ SliceEnds(c) <=> NginxAware(m)!SliceEnds(c)
         /\ TaskBlocks(c, b) <=> NginxAware(m)!TaskBlocks(c, b)
         /\ TimePasses <=> NginxAware(m)!TimePasses
BY DEF CPUs, Slots, coreVars, dsqVars, mapVars, scanVars, preemptVars, WakeIdle, Wakeable,
       ClaimIdle, SelectIdle, WakeBusy, SelectBusy, ScanStep, EndScan, NextSlot,
       ScanFlag, Elapsed, OldEnough, CheckAge, LockFree, Preempt, DeliverKick, Activate,
       ActivateShared, InsertForeground, InsertBackground, enqueue, EnqueueWoken,
       ActivateLocal, EnqueueDirect, Balance, BalanceCpu, HeldElsewhere, MoveToLocal,
       TakeForeground, TakeBackground, Advance, PrevRunnable, NothingFound, stopping,
       PutPrev, PutPrevTask, SetNext, StartNext, RunningDone, StampStart, SliceExpires,
       SliceEnds, Block, TaskBlocks, TimePasses,
       NginxAware!CPUs, NginxAware!Slots, NginxAware!coreVars, NginxAware!dsqVars,
       NginxAware!mapVars, NginxAware!scanVars, NginxAware!preemptVars,
       NginxAware!WakeIdle, NginxAware!Wakeable, NginxAware!ClaimIdle,
       NginxAware!SelectIdle, NginxAware!WakeBusy, NginxAware!SelectBusy,
       NginxAware!ScanStep, NginxAware!EndScan, NginxAware!NextSlot,
       NginxAware!ScanFlag, NginxAware!Elapsed, NginxAware!OldEnough, NginxAware!CheckAge,
       NginxAware!LockFree, NginxAware!Preempt, NginxAware!DeliverKick,
       NginxAware!Activate, NginxAware!ActivateShared, NginxAware!InsertForeground,
       NginxAware!InsertBackground, NginxAware!enqueue, NginxAware!EnqueueWoken,
       NginxAware!ActivateLocal, NginxAware!EnqueueDirect, NginxAware!Balance,
       NginxAware!BalanceCpu, NginxAware!HeldElsewhere, NginxAware!MoveToLocal,
       NginxAware!TakeForeground, NginxAware!TakeBackground, NginxAware!Advance,
       NginxAware!PrevRunnable, NginxAware!NothingFound, NginxAware!stopping,
       NginxAware!PutPrev, NginxAware!PutPrevTask, NginxAware!SetNext,
       NginxAware!StartNext, NginxAware!RunningDone, NginxAware!StampStart,
       NginxAware!SliceExpires, NginxAware!SliceEnds, NginxAware!Block,
       NginxAware!TaskBlocks, NginxAware!TimePasses

\* nginx_aware classifies and caches as a scheduler of template C does.
LEMMA NginxStep ==
  ASSUME GeneratedInv, Machine, C, NEW m, manifest = m
  PROVE  NginxAware(m)!Next
<1>0. NamedClass(m)' = NamedClass(m) /\ NginxAware(m)!ScanLimit = ScanLimit
  BY DEF Machine, NamedClass, ScanLimit, NginxAware!ScanLimit
<1>1. ~A /\ ~B /\ CoreInv
  BY OnePattern DEF GeneratedInv
<1>2. ASSUME NEW t \in Tasks
      PROVE  /\ NginxAware(m)!TaskClass(t) = TaskClass(t)
             /\ NginxAware(m)!Hog(t) = IsBackground(t) /\ Flagged(t) = IsBackground(t)
             /\ MayPreempt(t) = (TaskClass(t) = "nginx")
             /\ Classified(t) => NginxAware(m)!CacheClass(t)
  <2>1. NginxAware(m)!TaskClass(t) = TaskClass(t)
    BY DEF TaskClass, NginxAware!TaskClass, NamedClass
  <2>2. NginxAware(m)!Hog(t) = IsBackground(t)
    BY <2>1 DEF NginxAware!Hog, IsBackground
  <2>3. Flagged(t) = IsBackground(t)
    BY <1>1 DEF Flagged, IsBackground
  <2>4. MayPreempt(t) = (TaskClass(t) = "nginx")
    BY <1>1 DEF MayPreempt
  <2>5. Classified(t) => NginxAware(m)!CacheClass(t)
    BY <1>0, <2>1 DEF Classified, NginxAware!CacheClass
  <2> QED
    BY <2>1, <2>2, <2>3, <2>4, <2>5
<1>c. UNCHANGED class => NginxAware(m)!classVars' = NginxAware(m)!classVars
  BY <1>0 DEF NginxAware!classVars
<1>v. UNCHANGED preemptVars => NginxAware(m)!preemptVars' = NginxAware(m)!preemptVars
  BY DEF preemptVars, mapVars, scanVars,
         NginxAware!preemptVars, NginxAware!mapVars, NginxAware!scanVars
<1>3. ASSUME NEW t \in Tasks, SelectCpu(t) PROVE NginxAware(m)!SelectCpu(t)
  BY <1>2, <1>3, NginxMachine DEF SelectCpu, NginxAware!SelectCpu
<1>4. ASSUME NEW t \in Tasks, WakeupStep(t) PROVE NginxAware(m)!WakeupStep(t)
  BY <1>0, <1>2, <1>4, <1>c, NginxMachine DEF WakeupStep, Enqueue, Scan, NginxAware!WakeupStep
<1>5. ASSUME NEW c \in CPUs, ScheduleStep(c) PROVE NginxAware(m)!ScheduleStep(c)
  <2>1. CASE (BalanceCpu(c) \/ StampStart(c)) /\ UNCHANGED class
    BY <2>1, <1>c, NginxMachine DEF NginxAware!ScheduleStep
  <2>2. CASE DispatchFirst(c)
    <3>1. NginxAware(m)!ConsumeGlobal(c)
      BY <2>2, <1>v, NginxMachine DEF DispatchFirst, NginxAware!ConsumeGlobal
    <3> QED
      BY <2>2, <3>1, <1>c DEF DispatchFirst, NginxAware!ScheduleStep
  <2>3. CASE DispatchSecond(c)
    <3>1. NginxAware(m)!Dispatch(c)
      BY <2>3, <1>v, NginxMachine DEF DispatchSecond, NginxAware!Dispatch
    <3> QED
      BY <2>3, <3>1, <1>c DEF DispatchSecond, NginxAware!ScheduleStep
  <2>4. CASE ConsumeGlobalAgain(c)
    <3>1. NginxAware(m)!ConsumeGlobalAgain(c)
      BY <2>4, <1>v, NginxMachine DEF ConsumeGlobalAgain, NginxAware!ConsumeGlobalAgain
    <3> QED
      BY <2>4, <3>1, <1>c DEF ConsumeGlobalAgain, NginxAware!ScheduleStep
  <2>5. CASE PutPrevStep(c)
    <3>1. PrevRunnable(c) => curr[c] # NoTask /\ curr[c] \in Tasks
      BY <1>1 DEF PrevRunnable, CoreInv, CoreTypeOK
    <3>2. PutPrevTask(c, curr[c] # NoTask /\ NginxAware(m)!Hog(curr[c]))
      BY <1>2, <2>5, <3>1 DEF PutPrevStep, PutPrevTask, enqueue, stopping
    <3>3. NginxAware(m)!PutPrevTask(c, curr[c] # NoTask /\ NginxAware(m)!Hog(curr[c]))
      BY <3>2, NginxMachine
    <3>4. NginxAware(m)!PrevRunnable(c) <=> PrevRunnable(c)
      BY DEF PrevRunnable, NginxAware!PrevRunnable
    <3> QED
      BY <1>2, <1>c, <2>5, <3>1, <3>3, <3>4
         DEF PutPrevStep, NginxAware!PutPrevStep, NginxAware!ScheduleStep
  <2>6. CASE StartStep(c)
    <3>1. local[c] \in Seq(Tasks) /\ local[c] # <<>>
      BY <1>1, <2>6 DEF StartStep, StartNext, SetNext, CoreInv, CoreTypeOK, LocalReady
    <3>2. Head(local[c]) \in Tasks
      BY <3>1, HeadTailSeq
    <3> QED
      BY <1>2, <2>6, <3>2, NginxMachine DEF StartStep, NginxAware!ScheduleStep
  <2> QED
    BY <1>5, <2>1, <2>2, <2>3, <2>4, <2>5, <2>6 DEF ScheduleStep
<1>6. ASSUME NEW c \in CPUs, BlockStep(c) PROVE NginxAware(m)!BlockStep(c)
  <2>1. curr[c] \in Tasks
    BY <1>1, <1>6 DEF BlockStep, TaskBlocks, Block, CoreInv, PlaceInv, CpuOwns
  <2> QED
    BY <1>2, <1>6, <2>1, NginxMachine DEF BlockStep, NginxAware!BlockStep
<1>7. ASSUME NEW c \in CPUs, SliceStep(c) PROVE NginxAware(m)!SliceStep(c)
  BY <1>7, <1>c, NginxMachine DEF SliceStep, NginxAware!SliceStep
<1>8. TimePasses => NginxAware(m)!TimePasses
  BY NginxMachine
<1> QED
  BY <1>3, <1>4, <1>5, <1>6, <1>7, <1>8, <1>c DEF Machine, NginxAware!Next, CPUs, NginxAware!CPUs

\* What nginx_aware's comm is at first is what the generated classifier says of the name.
LEMMA NginxNames ==
  ASSUME NEW m, comm = Comm
  PROVE  NamedClass(m) =
           [t \in Tasks |->
              IF t \in Matched(m, "foreground") THEN "nginx"
              ELSE IF t \in Matched(m, "background") \ Matched(m, "foreground") THEN "hog" ELSE "normal"]
<1>1. ASSUME NEW t \in Tasks
      PROVE  classify_task(m, Comm[t]) =
               IF t \in Matched(m, "foreground") THEN "nginx"
               ELSE IF t \in Matched(m, "background") \ Matched(m, "foreground") THEN "hog" ELSE "normal"
  BY DEF classify_task, Matched
<1> QED
  BY <1>1 DEF NamedClass

\* A scheduler generated from template C is an nginx_aware for the foreground and the
\* other background threads of the manifest.
THEOREM TemplateCIsNginxAware == Spec => RefinesNginxAware
<1>1. ASSUME Init, NEW m PROVE NginxAware(m)!Init
  BY <1>1, NginxNames
     DEF Init, CoreInit, PreemptInit, CPUs, Slots, NginxAware!Init, NginxAware!CoreInit,
         NginxAware!PreemptInit, NginxAware!CPUs, NginxAware!Slots
<1>2. ASSUME GeneratedInv, [Next]_vars
      PROVE  [\A m \in Usable : stage = "run" /\ C /\ manifest = m => NginxAware(m)!Next]_machineVars
  BY <1>2, NginxStep, RunStep
<1>3. Init => \A m \in Usable : NginxAware(m)!Init
  BY <1>1
<1> QED
  BY <1>2, <1>3, GeneratedInvHolds, PTL DEF Spec, RefinesNginxAware
-------------------------------------------------------------------------------
(***************************************************************************)
(* Template A: a generated scheduler is a db_aware.                        *)
(***************************************************************************)
LEMMA DbMachine ==
  ASSUME NEW m, NEW t, NEW c, NEW pc
  PROVE  /\ WakeIdle(t) <=> DbAware(m)!WakeIdle(t)
         /\ WakeBusy(t, pc) <=> DbAware(m)!WakeBusy(t, pc)
         /\ ActivateShared(t) <=> DbAware(m)!ActivateShared(t)
         /\ InsertForeground(t) <=> DbAware(m)!InsertForeground(t)
         /\ InsertBackground(t) <=> DbAware(m)!InsertBackground(t)
         /\ ActivateLocal(t) <=> DbAware(m)!ActivateLocal(t)
         /\ Balance(c) <=> DbAware(m)!Balance(c)
         /\ TakeForeground(c) <=> DbAware(m)!TakeForeground(c)
         /\ TakeBackground(c) <=> DbAware(m)!TakeBackground(c)
         /\ Advance(c, pc) <=> DbAware(m)!Advance(c, pc)
         /\ NothingFound(c) <=> DbAware(m)!NothingFound(c)
         /\ PutPrev(c) <=> DbAware(m)!PutPrev(c)
         /\ PrevRunnable(c) <=> DbAware(m)!PrevRunnable(c)
         /\ SetNext(c, pc) <=> DbAware(m)!SetNext(c, pc)
         /\ SliceExpires(c) <=> DbAware(m)!SliceExpires(c)
         /\ Block(c) <=> DbAware(m)!Block(c)
BY DEF CPUs, dsqVars, WakeIdle, Wakeable, ClaimIdle, WakeBusy, LockFree, Activate,
       ActivateShared, InsertForeground, InsertBackground, ActivateLocal, Balance,
       HeldElsewhere, MoveToLocal, TakeForeground, TakeBackground, Advance, PrevRunnable,
       NothingFound, PutPrev, SetNext, SliceExpires, Block,
       DbAware!CPUs, DbAware!dsqVars, DbAware!WakeIdle, DbAware!Wakeable,
       DbAware!ClaimIdle, DbAware!WakeBusy, DbAware!LockFree, DbAware!Activate,
       DbAware!ActivateShared, DbAware!InsertForeground, DbAware!InsertBackground,
       DbAware!ActivateLocal, DbAware!Balance, DbAware!HeldElsewhere, DbAware!MoveToLocal,
       DbAware!TakeForeground, DbAware!TakeBackground, DbAware!Advance,
       DbAware!PrevRunnable, DbAware!NothingFound, DbAware!PutPrev, DbAware!SetNext,
       DbAware!SliceExpires, DbAware!Block

\* Without a scan, a kick, flags or time stamps nothing else happens.
LEMMA DbStep ==
  ASSUME GeneratedInv, Machine, A, NEW m, manifest = m
  PROVE  DbAware(m)!Next \/ UNCHANGED <<coreVars, dsqVars>>
<1> DEFINE query0 == [t \in Tasks |-> ~NamedBackground(m)[t]]
<1>0. query0' = query0
  BY DEF Machine, NamedBackground
<1>1. ~B /\ ~C /\ CoreInv /\ PhasesOfPattern
  BY OnePattern DEF GeneratedInv
<1>2. ASSUME NEW t \in Tasks PROVE query0[t] <=> ~IsBackground(t)
  BY <1>1 DEF IsBackground, NamedBackground
<1>3. ASSUME NEW t \in Tasks PROVE ~Flagged(t) /\ ~MayPreempt(t)
  BY <1>1 DEF Flagged, MayPreempt
<1>4. ASSUME NEW t \in Tasks, enqueue(t, IsBackground(t)) PROVE DbAware(m)!enqueue(t)
  <2>1. (query0[t] /\ InsertForeground(t)) \/ (~query0[t] /\ InsertBackground(t))
    BY <1>2, <1>4 DEF enqueue
  <2> QED
    BY <2>1, DbMachine DEF DbAware!enqueue
<1>5. ASSUME NEW t \in Tasks, SelectCpu(t) PROVE DbAware(m)!SelectCpu(t)
  BY <1>3, <1>5, DbMachine DEF SelectCpu, SelectIdle, SelectBusy, DbAware!SelectCpu
<1>6. ASSUME NEW t \in Tasks, WakeupStep(t) PROVE DbAware(m)!WakeupStep(t)
  <2>1. ~Scan(t)
    BY <1>1 DEF PhasesOfPattern, Scan, ScanFlag, CheckAge, DeliverKick
  <2>2. CASE EnqueueWoken(t, IsBackground(t))
    BY <1>0, <1>4, <2>2, DbMachine DEF EnqueueWoken, DbAware!EnqueueWoken, DbAware!WakeupStep
  <2>3. CASE EnqueueDirect(t)
    BY <1>0, <2>3, DbMachine DEF EnqueueDirect, DbAware!WakeupStep
  <2> QED
    BY <1>6, <2>1, <2>2, <2>3 DEF WakeupStep, Enqueue
<1>7. ASSUME NEW c \in CPUs, ScheduleStep(c) PROVE DbAware(m)!ScheduleStep(c)
  <2>1. ~StampStart(c) /\ ~ConsumeGlobalAgain(c)
    BY <1>1 DEF PhasesOfPattern, StampStart, RunningDone, ConsumeGlobalAgain
  <2>2. CASE BalanceCpu(c)
    BY <1>0, <2>2, DbMachine DEF BalanceCpu, DbAware!ScheduleStep
  <2>3. CASE DispatchFirst(c)
    BY <1>0, <2>3, DbMachine DEF DispatchFirst, DbAware!DispatchQuery, DbAware!ScheduleStep
  <2>4. CASE DispatchSecond(c)
    BY <1>0, <1>1, <2>4, DbMachine DEF DispatchSecond, DbAware!DispatchCompact, DbAware!ScheduleStep
  <2>5. CASE PutPrevStep(c)
    <3>1. PrevRunnable(c) => curr[c] \in Tasks
      BY <1>1 DEF PrevRunnable, CoreInv, CoreTypeOK
    <3>2. DbAware(m)!dsqVars' = DbAware(m)!dsqVars <=> UNCHANGED dsqVars
      BY DEF dsqVars, DbAware!dsqVars
    <3>3. DbAware(m)!PutPrevTask(c)
      BY <1>4, <2>5, <3>1, <3>2, DbMachine DEF PutPrevStep, DbAware!PutPrevTask
    <3> QED
      BY <1>0, <3>3 DEF DbAware!ScheduleStep
  <2>6. CASE StartStep(c)
    <3>1. local[c] \in Seq(Tasks) /\ local[c] # <<>>
      BY <1>1, <2>6 DEF StartStep, StartNext, SetNext, CoreInv, CoreTypeOK, LocalReady
    <3>2. SetNext(c, "run")
      BY <1>3, <2>6, <3>1, HeadTailSeq DEF StartStep, StartNext
    <3> QED
      BY <1>0, <3>2, DbMachine DEF DbAware!ScheduleStep
  <2> QED
    BY <1>7, <2>1, <2>2, <2>3, <2>4, <2>5, <2>6 DEF ScheduleStep
<1>8. ASSUME NEW c \in CPUs, BlockStep(c) PROVE DbAware(m)!Block(c)
  BY <1>8, DbMachine DEF BlockStep, TaskBlocks
<1>9. ASSUME NEW c \in CPUs, SliceStep(c) PROVE DbAware(m)!SliceStep(c)
  BY <1>0, <1>9, DbMachine DEF SliceStep, SliceEnds, DbAware!SliceStep
<1>10. TimePasses => UNCHANGED <<coreVars, dsqVars>>
  BY DEF TimePasses
<1> QED
  BY <1>0, <1>5, <1>6, <1>7, <1>8, <1>9, <1>10 DEF Machine, DbAware!Next, CPUs, DbAware!CPUs

\* A scheduler generated from template A is a db_aware whose query threads are those that
\* the manifest does not call background.
THEOREM TemplateAIsDbAware == Spec => RefinesDbAware
<1>1. ASSUME GeneratedInv, [Next]_vars
      PROVE  [\A m \in Usable :
                stage = "run" /\ A /\ manifest = m => DbAware(m)!Next]_<<coreVars, dsqVars>>
  <2>1. UNCHANGED machineVars => UNCHANGED <<coreVars, dsqVars>>
    BY DEF machineVars
  <2> QED
    BY <1>1, <2>1, DbStep, RunStep
<1> QED
  BY <1>1, GeneratedInvHolds, PTL DEF Spec, RefinesDbAware
-------------------------------------------------------------------------------
(***************************************************************************)
(* db_aware itself, where threads name themselves while they run,          *)
(* implements the abstract scheduler.                                      *)
(***************************************************************************)
LEMMA QueryMachine ==
  ASSUME NEW t, NEW c, NEW pc
  PROVE  /\ WakeIdle(t) <=> Db!WakeIdle(t)
         /\ WakeBusy(t, pc) <=> Db!WakeBusy(t, pc)
         /\ ActivateShared(t) <=> Db!ActivateShared(t)
         /\ InsertForeground(t) <=> Db!InsertForeground(t)
         /\ InsertBackground(t) <=> Db!InsertBackground(t)
         /\ ActivateLocal(t) <=> Db!ActivateLocal(t)
         /\ Balance(c) <=> Db!Balance(c)
         /\ TakeForeground(c) <=> Db!TakeForeground(c)
         /\ TakeBackground(c) <=> Db!TakeBackground(c)
         /\ Advance(c, pc) <=> Db!Advance(c, pc)
         /\ NothingFound(c) <=> Db!NothingFound(c)
         /\ PutPrev(c) <=> Db!PutPrev(c)
         /\ PrevRunnable(c) <=> Db!PrevRunnable(c)
         /\ SetNext(c, pc) <=> Db!SetNext(c, pc)
         /\ SliceExpires(c) <=> Db!SliceExpires(c)
         /\ Block(c) <=> Db!Block(c)
BY DEF CPUs, dsqVars, WakeIdle, Wakeable, ClaimIdle, WakeBusy, LockFree, Activate,
       ActivateShared, InsertForeground, InsertBackground, ActivateLocal, Balance,
       HeldElsewhere, MoveToLocal, TakeForeground, TakeBackground, Advance, PrevRunnable,
       NothingFound, PutPrev, SetNext, SliceExpires, Block,
       Db!CPUs, Db!dsqVars, Db!WakeIdle, Db!Wakeable, Db!ClaimIdle, Db!WakeBusy,
       Db!LockFree, Db!Activate, Db!ActivateShared, Db!InsertForeground,
       Db!InsertBackground, Db!ActivateLocal, Db!Balance, Db!HeldElsewhere, Db!MoveToLocal,
       Db!TakeForeground, Db!TakeBackground, Db!Advance, Db!PrevRunnable, Db!NothingFound,
       Db!PutPrev, Db!SetNext, Db!SliceExpires, Db!Block

\* Without a scan, flags or kicks every step of db_aware is one of the abstract
\* scheduler; a thread that names itself does not touch the queues it is in.
THEOREM DualIsPolicy == Db!Spec => AnyPolicy
<1>1. Db!Init => CoreInit
  BY DEF Db!Init, Db!CoreInit, CoreInit, CPUs, Db!CPUs
<1>2. ASSUME [Db!Next]_(Db!vars) PROVE [AnyNext]_<<coreVars, dsqVars>>
  <2>1. ASSUME NEW t, Db!enqueue(t) PROVE AnyInsert(t)
    BY <2>1, QueryMachine DEF Db!enqueue, AnyInsert
  <2>2. ASSUME NEW t \in Tasks, Db!SelectCpu(t) \/ Db!WakeupStep(t) PROVE AnyNext
    <3>1. AnyWakeup(t)
      BY <2>1, <2>2, QueryMachine DEF Db!SelectCpu, Db!WakeupStep, Db!EnqueueWoken, AnyWakeup
    <3> QED
      BY <3>1 DEF AnyNext
  <2>3. ASSUME NEW c \in CPUs, Db!ScheduleStep(c) \/ Db!SliceStep(c) \/ Db!Block(c) PROVE AnyNext
    <3>1. CASE Db!PutPrevTask(c)
      <4>1. AnyPutPrev(c)
        BY <2>1, <3>1, QueryMachine DEF Db!PutPrevTask, AnyPutPrev, dsqVars, Db!dsqVars
      <4> QED
        BY <4>1 DEF AnyNext, AnySchedule
    <3>2. CASE Db!DispatchQuery(c) \/ Db!DispatchCompact(c)
      <4>1. AnyDispatch(c)
        BY <3>2, QueryMachine DEF Db!DispatchQuery, Db!DispatchCompact, AnyDispatch
      <4> QED
        BY <4>1 DEF AnyNext, AnySchedule
    <3>3. CASE Db!Balance(c) \/ Db!SetNext(c, "run") \/ Db!SliceExpires(c) \/ Db!Block(c)
      BY <3>3, QueryMachine DEF AnyNext, AnySchedule
    <3> QED
      BY <2>3, <3>1, <3>2, <3>3 DEF Db!ScheduleStep, Db!SliceStep
  <2>4. ASSUME (\E c \in CPUs : Db!Rename(c)) \/ UNCHANGED Db!vars
        PROVE  UNCHANGED <<coreVars, dsqVars>>
    BY <2>4 DEF Db!Rename, Db!vars, Db!coreVars, Db!dsqVars, coreVars, dsqVars
  <2> QED
    BY <1>2, <2>2, <2>3, <2>4 DEF Db!Next, CPUs, Db!CPUs
<1> QED
  BY <1>1, <1>2, PTL DEF Db!Spec, AnyPolicy

\* No query or compaction thread is lost or queued twice.
THEOREM DualOnePlace == Db!Spec => []OnePlace
BY DualIsPolicy, NoTaskLostOrDoubled, PTL

\* No thread waits in QUERY_DSQ or COMPACT_DSQ unseen by all CPUs.
THEOREM DualNoStall == Db!Spec => []NoStall
BY DualIsPolicy, WorkIsNeverStranded, PTL

===============================================================================
