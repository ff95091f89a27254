-------------------------------- MODULE Manifest --------------------------------
(***************************************************************************)
(* What the stages of the pipeline compute from thread manifests: stage 1c *)
(* builds one from classified threads, stage 2 selects a scheduling        *)
(* pattern, stage 3 generates the classifier of the scheduler, and         *)
(* verify_manifest.py compares a manifest with a reference.                *)
(*                                                                         *)
(* A comm is a sequence of characters, <<"b", "i", "o", "_", "0">>.  A     *)
(* manifest is a set of entries [pattern, role, type, prefix, length]; the *)
(* fields of identification may be null, which the schema allows.          *)
(***************************************************************************)
EXTENDS Integers, Sequences, FiniteSets
Seqs == INSTANCE SequencesExt

CONSTANTS
  Null,      \* JSON null
  HostCpus   \* os.cpu_count()

ASSUME ManifestAssumption == HostCpus \in Nat

Digits == {"0", "1", "2", "3", "4", "5", "6", "7", "8", "9"}

Entry(pattern, role, type, prefix, length) ==
  [pattern |-> pattern, role |-> role, type |-> type, prefix |-> prefix, length |-> length]

OfRole(m, role) == {e \in m : e.role = role}

\* s[:n], where n may be null.
Truncated(s, n) == IF n = Null \/ n >= Len(s) THEN s ELSE SubSeq(s, 1, n)

\* str.rstrip(chars)
Rstrip(s, chars) ==
  SubSeq(s, 1, CHOOSE i \in 0 .. Len(s) :
                 /\ i > 0 => s[i] \notin chars
                 /\ \A j \in i + 1 .. Len(s) : s[j] \in chars)

-------------------------------------------------------------------------------
(***************************************************************************)
(* Stage 1c, build_manifest: threads is a set of [comm, role].             *)
(***************************************************************************)
\* Mutant: digits and underscores are stripped in one go, and an all-digit comm to
\* nothing.
StemTooFar(comm) == Rstrip(comm, Digits \cup {"_"})

\* The name without its trailing digits and then without its trailing underscores.
Stem(comm) ==
  LET prefix == Rstrip(Rstrip(comm, Digits), {"_"})
  IN  IF prefix = <<>> THEN comm ELSE prefix

build_manifest(threads) ==
  {LET comms == {t.comm : t \in {u \in threads : u.role = g[1] /\ Stem(u.comm) = g[2]}}
       exact == Cardinality(comms) = 1
   IN  Entry(IF exact THEN CHOOSE c \in comms : TRUE ELSE Append(g[2], "*"), g[1],
             IF exact THEN "comm_exact" ELSE "comm_prefix", g[2], Len(g[2])) :
     g \in {<<t.role, Stem(t.comm)>> : t \in threads}}

-------------------------------------------------------------------------------
(***************************************************************************)
(* Stage 2                                                                 *)
(***************************************************************************)
Patterns == {"simple_dual_dsq", "selective_preemption", "asymmetric_task_storage"}

count_thread_types(m) ==
  LET bg == Cardinality(OfRole(m, "background"))
  IN  [bg |-> bg, fg |-> Cardinality(m) - bg]

\* Is threads / cpus > 1.5?  Both may be left out; without a CPU the ratio is 1.
HighContention(m, threads, cpus) ==
  LET n == count_thread_types(m)
      t == IF threads = Null THEN n.bg + n.fg ELSE threads
      c == IF cpus = Null THEN IF HostCpus = 0 THEN 16 ELSE HostCpus ELSE cpus
  IN  c > 0 /\ 2 * t > 3 * c

select_policy(m, threads, cpus, external) ==
  IF external THEN "asymmetric_task_storage"
  ELSE IF HighContention(m, threads, cpus) THEN "selective_preemption"
  ELSE "simple_dual_dsq"

-------------------------------------------------------------------------------
(***************************************************************************)
(* Stage 3                                                                 *)
(***************************************************************************)
\* extract_bg_prefixes and extract_fg_prefixes, without duplicates; both fail with an
\* exception if the prefix of an entry is null, given length or not.
RolePrefixes(m, role) == {<<e.prefix, e.length>> : e \in OfRole(m, role)}
ExtractFails(m) == \E e \in m : e.prefix = Null

\* Mutant: the last character is left out.
CheckedShort(p) == Truncated(p[1], Len(p[1]) - 1)

\* The characters generate_comm_check compares; for none it generates `if ()'.
Checked(p) == Truncated(p[1], p[2])
Matches(comm, p) == Seqs!IsPrefix(Checked(p), comm)

\* The characters that do not stand for themselves in a C character constant; "non-ASCII"
\* is any character that is more than one byte.
Escaped == {"'", "\\", "\n", "non-ASCII"}
Plain(s) == \A n \in DOMAIN s : s[n] \notin Escaped

\* Names and prefixes are repeated in comments, which end at */.
EndsComment(s) == \E n \in DOMAIN s : n + 1 \in DOMAIN s /\ s[n] = "*" /\ s[n + 1] = "/"

\* Does the C compiler accept what is generated for this entry?  (Of several entries with
\* one prefix and length only the first is named in the comment.)
Comparable(e) ==
  LET p == <<e.prefix, e.length>>
  IN  Checked(p) # <<>> /\ Plain(Checked(p)) /\ ~EndsComment(e.prefix) /\ ~EndsComment(e.pattern)

\* Does it accept the program of this pattern?
Compiles(m, pattern) ==
  /\ \A e \in OfRole(m, "background") : Comparable(e)
  /\ pattern = "asymmetric_task_storage" => \A e \in OfRole(m, "foreground") : Comparable(e)

\* The function that generate_classification_fn generates: it knows the background
\* prefixes only.
is_background(m, comm) == \E p \in RolePrefixes(m, "background") : Matches(comm, p)

\* The one that generate_classify_task_fn generates, on the first call for a task:
\* TASK_FOREGROUND, TASK_CPU_HOG and TASK_NORMAL, named as in Asymmetric.
classify_task(m, comm) ==
  IF \E p \in RolePrefixes(m, "foreground") : Matches(comm, p) THEN "nginx"
  ELSE IF \E p \in RolePrefixes(m, "background") : Matches(comm, p) THEN "hog"
  ELSE "normal"

-------------------------------------------------------------------------------
(***************************************************************************)
(* verify_manifest.py                                                      *)
(***************************************************************************)
Key(e) == <<e.type, e.prefix, e.length>>

\* normalize_threads: the keys under which it enters the threads of a role.
Keys(m, role) == {Key(e) : e \in OfRole(m, role)}

compute_metrics(gen, truth) ==
  LET genBg == Keys(gen, "background")
      bg == Keys(truth, "background")
      fg == Keys(truth, "foreground")
  IN  [true_positives |-> Cardinality(genBg \cap bg),
       false_negatives |-> Cardinality(bg \ genBg),
       safety_violations |-> Cardinality(fg \cap genBg),
       extra_discoveries |-> Cardinality(genBg \ (bg \cup fg))]

\* A missing key counts as a warning only if some generated prefix begins with the
\* first three characters of its own.
PartialMatch(genBg, key) ==
  \E k \in genBg : /\ k[2] \notin {Null, <<>>} /\ key[2] \notin {Null, <<>>}
                   /\ Seqs!IsPrefix(Truncated(key[2], 3), k[2])

\* Mutant: a foreground thread found in the background is a warning.
compare_manifestsLenient(gen, truth) ==
  LET genBg == Keys(gen, "background")
      missing == Keys(truth, "background") \ genBg
      partial == {k \in missing : PartialMatch(genBg, k)}
  IN  [fails |-> Cardinality(missing \ partial),
       warnings |-> Cardinality(partial) + Cardinality(genBg \ Keys(truth, "background"))]

\* The comparison of the threads.  Application, method, rationale and default_role
\* are taken to agree; what is printed for safety_violations is not counted.
compare_manifests(gen, truth) ==
  LET genBg == Keys(gen, "background")
      missing == Keys(truth, "background") \ genBg
      partial == {k \in missing : PartialMatch(genBg, k)}
  IN  [fails |-> Cardinality(missing \ partial)
                 + Cardinality(Keys(truth, "foreground") \cap genBg),
       warnings |-> Cardinality(partial) + Cardinality(genBg \ Keys(truth, "background"))]

\* Mutant: warnings are not looked at.
verdictOf(gen, truth) ==
  IF compare_manifests(gen, truth).fails > 0 THEN "FAIL" ELSE "PASS"

verdict(gen, truth) ==
  LET r == compare_manifests(gen, truth)
  IN  IF r.fails > 0 THEN "FAIL" ELSE IF r.warnings > 0 THEN "PASS (with warnings)" ELSE "PASS"

===============================================================================
