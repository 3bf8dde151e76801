--------------------------- MODULE MCMagicHandle ---------------------------
(* A few magic files for MagicHandle. *)
EXTENDS MagicHandle

\* a and b are texts, c is a compiled file that a text backs, d a compiled file
\* that was cut, e a text with an error, and f does not exist.
AllPaths == {"a", "c", "d", "e", "f"}
TextOf == [a |-> "good", c |-> "good", d |-> "good", e |-> "bad", f |-> "absent"]
CompiledOf == [a |-> "absent", c |-> "all", d |-> "bad", e |-> "absent", f |-> "absent"]
WarnsOf == [a |-> 0, c |-> 0, d |-> 1, e |-> 0, f |-> 0]

Lists == {<<"a">>, <<"f">>, <<"a", "c">>, <<"e", "a">>, <<"d", "f", "c">>, <<EmptyName, "a">>,
          <<"c", EmptyName, "a">>, <<"f", "e">>}
ShortLists == {<<"a">>, <<"a", "d">>, <<"f", "c">>}

AllActions == {"load", "buffer", "check", "compile"}
LoadOnly == {"load"}
MayFail == BOOLEAN
NeverFails == {FALSE}
=============================================================================
