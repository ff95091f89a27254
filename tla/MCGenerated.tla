------------------------------- MODULE MCGenerated -------------------------------
(***************************************************************************)
(* TLC instance of Generated: threads named "a1", "ab" and "c" on one CPU, *)
(* the second of which may take the name "c", arrays for two CPUs, and     *)
(* manifests whose prefixes are disjoint, overlap, are cut short by    *)
(* comm_length, are null or are empty.  A profiled thread may be called    *)
(* nothing or a quote, and an entry be named like the end of a comment.    *)
(***************************************************************************)
EXTENDS Generated, TLC

CONSTANTS t1, t2, t3

MCComm == t1 :> <<"a", "1">> @@ t2 :> <<"a", "b">> @@ t3 :> <<"c">>
MCNewNames == t1 :> {} @@ t2 :> {<<"c">>} @@ t3 :> {}

E(role, prefix, length) == Entry(prefix, role, "comm_prefix", prefix, length)

MCWritten == {
  {E("background", <<"a">>, 1), E("foreground", <<"a", "b", "c">>, 2)},
  {E("background", <<"c">>, Null)},
  {Entry(<<"*", "/">>, "background", "comm_prefix", <<"c">>, 1)},
  {E("background", Null, 1)},
  {E("background", <<"c">>, 1), E("foreground", <<>>, Null)} }

P(role, name) == [role |-> role, comm |-> name]

MCProfiles == {
  {P("background", <<"a", "_", "1">>), P("background", <<"a", "2">>), P("foreground", <<"1", "1">>),
   P("background", <<"c", "1">>), P("foreground", <<"c">>)},
  {P("background", <<>>), P("foreground", <<"'">>)} }

===============================================================================
