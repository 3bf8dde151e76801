----------------------------- MODULE MagicFile -----------------------------
(***************************************************************************)
(* magic_file (magic/magic.c: file_or_fd, unreadable_info) and the checks    *)
(* of the file system before it reads (magic/fsmagic.c), on top of the      *)
(* detector pipeline.  The name is looked up again and again: by lstat, by  *)
(* readlink, by open, by stat if open failed.  Others may replace the file in *)
(* between.                                                                 *)
(***************************************************************************)
EXTENDS Classify

CONSTANT MaxChanges   \* how often others replace the file during one call

\* What a name stands for: its kind, whether this process may read it, and whether
\* it has setuid, setgid or sticky bits.
Kinds == {"absent", "broken", "link", "dir", "socket", "fifo", "device", "empty", "regular"}
Files == {f \in [kind : Kinds, readable : BOOLEAN, bits : BOOLEAN] :
            /\ f.bits => f.kind \notin {"absent", "broken", "link"}
            /\ f.readable => f.kind \notin {"absent", "broken", "socket"}}

ASSUME FileAssumption == MaxChanges \in Nat

VARIABLES
  disk,      \* what the name stands for, while it is looked up
  fd,        \* the kind of what was opened, until it is read
  changes    \* how often the file was replaced since the call began

vars == <<flags, stage, input, m, rv, out, result, lapse, disk, fd, changes>>

FileInit == Init /\ disk \in Files /\ fd = "absent" /\ changes = 0

-----------------------------------------------------------------------------
\* Another process replaces the file, creates or removes it.
Change ==
  /\ stage \in {"stat", "link", "open", "restat"} /\ changes < MaxChanges
  /\ disk' \in Files \ {disk}
  /\ changes' = changes + 1
  /\ UNCHANGED <<pipeline, fd>>

\* Any file may be there when a call begins.
File ==
  /\ NewCall
  /\ stage' = "stat" /\ out' = Cleared(out)
  /\ disk' \in Files /\ fd' = "absent" /\ changes' = 0
  /\ input' = [size |-> "empty", looks_text |-> FALSE]

\* The memory for the input cannot be allocated.
NoMemory ==
  /\ stage = "stat" /\ MayFail
  /\ stage' = "idle"
  /\ input' = [size |-> "none", looks_text |-> FALSE]
  /\ UNCHANGED <<flags, m, rv, out, result, lapse, disk, fd, changes>>

\* What file_fsmagic prints of a file it does not look into.
TypeTokensAlways == IF Mime THEN Encoding ELSE <<"type">>
TypeTokens == IF Has("mime_type") THEN <<"type">> \o Encoding
              ELSE IF Mime THEN Encoding
              ELSE IF Has("silent") THEN << >> ELSE <<"type">>
BrokenTokens == IF Has("mime_type") THEN <<"type">> ELSE IF Mime THEN << >> ELSE <<"type">>

\* lstat, or stat with MAGIC_SYMLINK.
Seen == IF ~Has("symlink") THEN disk.kind
        ELSE CASE disk.kind = "link" -> "regular" [] disk.kind = "broken" -> "absent"
               [] OTHER -> disk.kind

\* The end of file_fsmagic: the answer is no, or the call ends with what was printed.
Settled(tokens, value) ==
  \E p \in Printed(out, tokens) :
    IF ~p.ok THEN Conclude(p.o, -1)
    ELSE IF value = 0 THEN stage' = "open" /\ out' = p.o /\ UNCHANGED result
    ELSE Conclude(p.o, 0)

Matched == IF Has("silent") THEN 0 ELSE 1
Bits == IF disk.bits /\ Plain THEN <<"bits">> ELSE << >>

Stat ==
  /\ stage = "stat"
  /\ CASE Seen = "absent" ->
            IF Has("error") THEN Conclude(Errored(out), -1) ELSE Settled(<<"cannot">>, 0)
       [] Seen \in {"link", "broken"} -> stage' = "link" /\ UNCHANGED <<out, result>>
       [] Seen = "regular" \/ (Seen \in {"device", "empty"} /\ Has("devices")) ->
            Settled(Bits, 0)
       [] Seen = "fifo" /\ Has("devices") ->
            Settled(Bits, Matched)
       [] OTHER -> Settled(Bits \o TypeTokens, Matched)
  /\ UNCHANGED <<flags, input, m, rv, lapse, disk, fd, changes>>

\* readlink and stat: lstat saw a symbolic link, but it may be something else now.
ReadLink ==
  /\ stage = "link"
  /\ IF disk.kind = "broken" THEN
       IF Has("error") /\ ~Mime THEN Conclude(Errored(out), -1) ELSE Settled(BrokenTokens, 1)
     ELSE IF disk.kind # "link" /\ Has("error") THEN Conclude(Errored(out), -1)
     ELSE Settled(TypeTokens, Matched)
  /\ UNCHANGED <<flags, input, m, rv, lapse, disk, fd, changes>>

Opens == disk.readable /\ disk.kind \notin {"absent", "broken", "socket"}

Open ==
  /\ stage = "open"
  /\ IF Opens THEN fd' = disk.kind /\ stage' = "read" ELSE fd' = fd /\ stage' = "restat"
  /\ UNCHANGED <<flags, input, m, rv, out, result, lapse, disk, changes>>

\* It cannot be opened: if it is there, say so, and in any case succeed.
Restat ==
  /\ stage = "restat"
  /\ \E p \in Printed(out, IF disk.kind \in {"absent", "broken"} THEN << >>
                           ELSE <<"unreadable">>) :
       Conclude(p.o, IF p.ok THEN 0 ELSE -1)
  /\ UNCHANGED <<flags, input, m, rv, lapse, disk, fd, changes>>

\* What read gives: nothing, one byte, more, or an error.  The name is not looked up
\* again.
NoFile == [kind |-> "absent", readable |-> FALSE, bits |-> FALSE]
Read ==
  /\ stage = "read"
  /\ \/ /\ fd # "dir"
        /\ Examine(IF fd = "fifo" THEN {"byte", "many"} ELSE {"empty", "byte", "many"}, out)
        /\ UNCHANGED result
     \/ /\ fd # "fifo"
        /\ Conclude(Errored(out), -1)
        /\ UNCHANGED input
     \/ /\ fd = "fifo"
        /\ \E p \in Printed(out, <<"unreadable">>) : Conclude(p.o, IF p.ok THEN 0 ELSE -1)
        /\ UNCHANGED input
  /\ disk' = NoFile /\ fd' = "absent"
  /\ UNCHANGED <<flags, m, rv, lapse, changes>>

FileNext == \/ File \/ NoMemory \/ Change \/ Stat \/ ReadLink \/ Open \/ Restat \/ Read
            \/ Next /\ UNCHANGED <<disk, fd, changes>>

FileSpec == FileInit /\ [][FileNext]_vars

-----------------------------------------------------------------------------
\* Properties.

\* A call that ends without an answer leaves a text that says why, with exceptions:
\* no memory for the input, a file that vanished before it was opened, a pipe when
\* devices are to be read, a broken link when only the encoding is asked for, and
\* rules (or the join of their text) that failed without an error or matched
\* without a text.
Unexplained ==
  \/ stage = "stat" /\ input'.size = "none"
  \/ stage = "restat" /\ disk.kind \in {"absent", "broken"} /\ changes > 0
  \/ stage = "stat" /\ Seen = "fifo" /\ Has("devices")
  \/ stage = "link" /\ disk.kind = "broken" /\ EncodingOnly
  \/ stage = "done" /\ "mute" \in lapse
FailuresExplained ==
  [][stage # "idle" /\ stage' = "idle" /\ result' = << >> =>
       \/ Unexplained
       \/ /\ out'.had /\ out'.text # << >>
          /\ out'.text[Len(out'.text)] = "error"]_vars

\* The checks of the file system, the complaint that it cannot be read and the
\* detectors do not speak in one answer, even of a file that is replaced meanwhile.
\* Only if it was not there at first may "cannot open" stand beside what became of it.
Accounts == {Descriptions, {"type"}, {"cannot"}, {"unreadable"}}
OneAccount ==
  OneKind =>
    \A A, B \in Accounts : A # B /\ (changes = 0 \/ {"cannot"} \notin {A, B}) =>
      Found(result) \cap A = {} \/ Found(result) \cap B = {}
=============================================================================
