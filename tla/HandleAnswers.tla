---------------------------- MODULE HandleAnswers ---------------------------
(***************************************************************************)
(* What the methods of a handle answer, and what its database may be: the   *)
(* vocabulary of SerialHandle and GoHandle.  A text names the call that it  *)
(* is about, so that the answer of another call can be told from one's own. *)
(***************************************************************************)

None == << >>
Pending == <<"pending">>
Panic == <<"panic">>
NoRules == <<"no magic files loaded">>
NotOpen == <<"Magic database is not open">>
Number(n) == <<"number", n>>
DescriptionFor(g) == <<"description", g>>
ErrorFor(g, what) == <<"error", g, what>>

\* No rules, those of files, or those of the bundled text.
Database(from, rules) == [from |-> from, rules |-> rules]
NoDatabase == Database("none", << >>)
FromFiles == Database("files", << >>)

Operations == {"Close", "GetError", "Errno", "File", "Buffer", "EmptyBuffer",
               "SetFlags", "Load", "LoadDefaultPath", "LoadDefaultMagic"}
Idle == [op |-> "none"]
=============================================================================
