------------------------------ MODULE MagicTool ------------------------------
(***************************************************************************)
(* The command line tool (bin/file.go, bin/main.go): one goroutine that     *)
(* opens a handle, loads a database, asks for each of its targets and       *)
(* closes the handle.  Its calls are those of module GoHandle; what is here *)
(* is the order it makes them in and what it does with their answers.       *)
(***************************************************************************)
EXTENDS GoHandle

CONSTANTS
  Main,        \* the goroutine
  ToolHandle,  \* its handle
  Commands     \* command lines: the type, whether --magic is given, how many targets

ASSUME ToolAssumption ==
  /\ Main \in Goroutines /\ ToolHandle \in Handles
  /\ Commands \subseteq [type : {"", "extension", "mime", "other"}, magic : BOOLEAN,
                        targets : Nat \ {0}]

VARIABLES
  args,     \* the command line, or NoCommand when another program runs
  doing,    \* what doFile is doing
  printed,  \* the descriptions that it has printed
  said      \* the message of Fatalf

toolVars == <<args, doing, printed, said>>

NoCommand == [type |-> "none"]
IsTool == args # NoCommand
ToolUses == [g \in Goroutines |->
  IF g = Main THEN {"Load", "LoadDefaultMagic", "File", "Close"} ELSE {}]

ToolInit ==
  /\ \/ uses # ToolUses /\ args = NoCommand
     \/ uses = ToolUses /\ args \in Commands
  /\ doing = "flags" /\ printed = << >> /\ said = None

-----------------------------------------------------------------------------
Does(from, to) == IsTool /\ doing = from /\ doing' = to

\* kingpin.Fatalf: exit status 1, and no deferred call runs.
WrongType ==
  /\ args \in Commands /\ args.type = "other" /\ Does("flags", "exit 1")
  /\ said' = <<"Unsupported type">>
  /\ UNCHANGED <<goVars, args, printed>>

\* No type sets MAGIC_RAW.  Nobody looks whether the handle is open.
OpenHandle ==
  /\ args \in Commands /\ args.type # "other" /\ Does("flags", "load")
  /\ NewMagicHandle(Main, ToolHandle) /\ ~ms'[ToolHandle].raw
  /\ UNCHANGED <<args, printed, said>>

\* The file that --magic names, or the bundled rules.
LoadDatabase ==
  /\ Does("load", "loading")
  /\ IF args.magic THEN Call(Main, "Load", ToolHandle) ELSE CallDefault(Main, ToolHandle)
  /\ UNCHANGED <<args, printed, said>>

\* The result is printed, or dropped.
Loaded ==
  /\ Does("loading", "targets") /\ Unlock(Main)
  /\ UNCHANGED <<args, printed, said>>

AskTarget ==
  /\ Does("targets", "asking") /\ Len(printed) < args.targets
  /\ Call(Main, "File", ToolHandle)
  /\ UNCHANGED <<args, printed, said>>

\* The first error ends the tool; File returns one whenever libmagic returned NULL.
Described == ret[Main] = DescriptionFor(Main)
PrintTarget ==
  /\ Described /\ Does("asking", "targets") /\ Unlock(Main)
  /\ printed' = Append(printed, ret[Main])
  /\ UNCHANGED <<args, said>>
GiveUp ==
  /\ ~Described /\ Does("asking", "exit 1") /\ Unlock(Main)
  /\ said' = ret[Main]
  /\ UNCHANGED <<args, printed>>

\* The deferred Close, and the end of main.
CloseHandle ==
  /\ Does("targets", "closing") /\ Len(printed) = args.targets
  /\ Call(Main, "Close", ToolHandle)
  /\ UNCHANGED <<args, printed, said>>
Exit ==
  /\ Does("closing", "exit 0") /\ Unlock(Main)
  /\ UNCHANGED <<args, printed, said>>

ToolWithin == IsTool /\ Within(Main) /\ UNCHANGED toolVars

ToolNext ==
  \/ WrongType \/ OpenHandle \/ LoadDatabase \/ Loaded \/ AskTarget \/ PrintTarget
  \/ GiveUp \/ CloseHandle \/ Exit \/ ToolWithin

-----------------------------------------------------------------------------
\* Properties.

\* The exit status tells the truth although the result of the load is dropped: 0
\* only when every target was described, by a database; and a tool that stops
\* because nothing could be opened or loaded has printed no target and says why:
\* the failure of the load outlives the call that could not use its result.
ToolReports ==
  /\ doing \in {"closing", "exit 0"} =>
       /\ Len(printed) = args.targets
       /\ \A i \in DOMAIN printed : printed[i] = DescriptionFor(Main)
  /\ doing = "exit 1" =>
       /\ args.type # "other" =>
            \/ ms[ToolHandle].db # NoDatabase
            \/ printed = << >> /\ said \in {NotOpen, ErrorFor(Main, "load")}
       /\ ms[ToolHandle].open # "closed"
=============================================================================
