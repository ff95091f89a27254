------------------------------ MODULE MCDiscovery ------------------------------
(***************************************************************************)
(* TLC instance of Discovery: trees of three files in which a macro and a  *)
(* title setter are defined after or before their use, two threads are     *)
(* named on one line, calls are hidden from the parser as statements, in   *)
(* an expression and in a condition, and a file is unreadable, not UTF-8   *)
(* or not to be searched.  The foreground name begins with a background    *)
(* one.                                                                    *)
(***************************************************************************)
EXTENDS Discovery

bio == <<"b", "g", "_", "1">>
bgw == <<"b", "g", "_", "2">>
io  == <<"b", "g", "_", "1", "w">>

MCRole == [n \in {bio, bgw, io} |-> IF n = io THEN "foreground" ELSE "background"]

Call(line, callee, name) ==
  [line |-> line, callee |-> callee, form |-> "call", fits |-> TRUE, parsed |-> TRUE,
   text |-> "statement", name |-> name]
Hidden(call) == [call EXCEPT !.parsed = FALSE]
Unfit(call) == [call EXCEPT !.fits = FALSE, !.text = "other"]
Text(call, text) == [call EXCEPT !.text = text]
Form(call, form) == [call EXCEPT !.form = form]

File(calls) ==
  [readable |-> TRUE, utf8 |-> TRUE, searched |-> TRUE, macros |-> {}, setters |-> {},
   calls |-> calls]
Defining(file, macros, setters) == [file EXCEPT !.macros = macros, !.setters = setters]

Uses == File({Call(1, "set_title", bio), Call(2, "setProcTitle", io),
              Hidden(Call(3, "pthread_setname_np", bgw)), Call(4, "pthread_create", <<>>)})
Creates == File({Form(Call(1, "thread", <<>>), "qualified"), Unfit(Call(2, "prctl", <<>>)),
                 Form(Call(3, "emplace_back", <<>>), "method"), Call(4, "prctl", io),
                 Form(Call(5, "emplace_back", <<>>), "arrow"),
                 Hidden(Text(Call(6, "set_title", bgw), "inside")),
                 Text(Call(7, "pthread_setname_np", bio), "other"),
                 Hidden(Text(Call(8, "pthread_setname_np", bgw), "other"))})
Crowded == File({Call(1, "pthread_setname_np", bio), Call(1, "prctl", bgw),
                 Hidden(Call(1, "prctl", io)), Call(2, "prctl", <<>>)})
Defines == Defining(File({}), {"set_title"}, {"setProcTitle"})

Locked(file) == [file EXCEPT !.readable = FALSE]
Latin(file) == [file EXCEPT !.utf8 = FALSE]
Example(file) == [file EXCEPT !.searched = FALSE]

MCTrees ==
  { <<Uses, Creates, Defines>>, <<Defines, Crowded, Uses>>, <<Crowded, Example(Uses), Defines>>,
    <<Uses, Locked(Defines), Crowded>>, <<Locked(Uses), Crowded>>, <<Uses, Latin(Defines)>>,
    <<Uses, Creates, Locked(Defines)>> }

===============================================================================
