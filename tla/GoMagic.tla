------------------------------- MODULE GoMagic -------------------------------
(***************************************************************************)
(* The whole of the Go code: the rules are bundled (module Bundle), a       *)
(* package that compiles is linked into a program, and the program runs:    *)
(* goroutines that share handles (GoHandle), or the command line tool       *)
(* (MagicTool).  A program that does not import magic_files needs no rules. *)
(***************************************************************************)
EXTENDS MagicTool, Bundle

VARIABLE linked  \* the program is running

allVars == <<goVars, toolVars, buildVars, linked>>

Imports == \E g \in Goroutines : "LoadDefaultMagic" \in uses[g]

SystemInit ==
  /\ uses \in Programs \cup {ToolUses}
  /\ bundle = << >> /\ Fresh /\ ToolInit /\ BuildInit
  /\ linked = ~Imports

-----------------------------------------------------------------------------
Prepares == ~linked /\ BuildNext /\ UNCHANGED <<goVars, toolVars, linked>>

\* Builder.Run: go build with the ab0x.go of the moment.  The source tree does not
\* matter to the program any more.
Build ==
  /\ ~linked /\ Compiles
  /\ bundle' = source.rules /\ linked' = TRUE
  /\ asset' = << >> /\ source' = Incomplete /\ passes' = 0
  /\ UNCHANGED <<fsVars, handleVars, toolVars, step, rest, lines>>

Running == linked /\ UNCHANGED <<buildVars, linked>>
Runs ==
  /\ Running
  /\ \/ ToolNext
     \/ GoNext /\ ~IsTool /\ UNCHANGED toolVars

\* The tool has ended, or no more passes are made.
Ended ==
  /\ \/ IsTool /\ doing \in {"exit 0", "exit 1"}
     \/ dead
     \/ ~linked /\ step = "idle" /\ passes = MaxPasses
  /\ UNCHANGED allVars

System == Prepares \/ Build \/ Runs \/ Ended

SystemSpec == SystemInit /\ [][System]_allVars

\* What GoFairness says of the goroutines that share handles; the one goroutine of
\* the tool is scheduled as well.
Continues(g) == Running /\ Proceed(g) /\ ~IsTool /\ UNCHANGED toolVars
Takes(g) == Running /\ Lock(g) /\ ~IsTool /\ UNCHANGED toolVars
SystemFairness ==
  /\ \A g \in Goroutines : WF_allVars(Continues(g)) /\ SF_allVars(Takes(g))
  /\ WF_allVars(Running /\ ToolNext)
FairSystemSpec == SystemSpec /\ SystemFairness
=============================================================================
