---------------------------- MODULE MCMagicFile ----------------------------
(* Settings of the handle for MagicFile. *)
EXTENDS MagicFile

Set(options, skip) == [set |-> options, skip |-> skip]

\* What is printed, how files are looked at, with and without all matches, and what
\* is not looked for.  (Tar files, JSON and SIMH are answered alike: two of them are
\* left out where all matches are wanted.)
Outputs == {{}, {"mime_type"}, {"mime_encoding"}, {"mime_type", "mime_encoding"}, {"silent"}}
Looks == {{}, {"error", "symlink"}, {"devices"}}
AllFlags ==
  {Set(o \cup l, {}) : o \in Outputs, l \in Looks}
  \cup {Set(o, s) : o \in Outputs, s \in {GoNoCheckBuiltin, {"soft"}}}
  \cup {Set(o \cup {"continue"}, {"json", "simh"} \cup s) : o \in Outputs, s \in {{}, {"text"}}}
BuiltinOff == {Set({}, GoNoCheckBuiltin)}
=============================================================================
