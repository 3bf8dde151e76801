------------------------------- MODULE Bundle -------------------------------
(***************************************************************************)
(* How the bundled rules get into the package (magefile.go): a pass over a   *)
(* source tree of file(1) copies the lines of its rule files into            *)
(* magic_files/magic_rules.mgc, fileb0x turns that file into ab0x.go, and    *)
(* the function init in it is renamed to Init, which LoadDefaultMagic calls. *)
(* A pass may fail at every step, or be killed, and be started again, with   *)
(* another tree.                                                            *)
(***************************************************************************)
EXTENDS Integers, Sequences

CONSTANTS
  Trees,     \* source trees: the rule files that Glob finds, each a sequence of lines
  MaxPasses  \* how often the rules are prepared

(* A line is a number, Comment, or Unreadable: one at which the scanner gives *)
(* up, as it is too long or the read fails (a directory, for example).        *)
Comment == 0
Unreadable == -1
Lines == Nat \cup {Unreadable}

ASSUME BundleAssumption == Trees \subseteq Seq(Seq(Lines)) /\ MaxPasses \in Nat

VARIABLES
  step,    \* where PrepareMagicFile is
  rest,    \* the files that it has still to read
  lines,   \* the lines of the open file that it has still to read; in the end, those
           \* that replace_string_in_file has read
  asset,   \* magic_rules.mgc
  source,  \* ab0x.go: the name of its function, and the rules in it
  passes   \* how many passes were begun

buildVars == <<step, rest, lines, asset, source, passes>>

\* A file that is not there, or not complete, has no function.
Incomplete == [func |-> "none", rules |-> << >>]
Generated(func, rules) == [func |-> func, rules |-> rules]

BuildInit ==
  /\ step = "idle" /\ rest = << >> /\ lines = << >>
  /\ asset = << >> /\ source = Incomplete /\ passes = 0

-----------------------------------------------------------------------------
Steps(from, to) == step = from /\ step' = to

\* PrepareMagicFile opens the output with O_TRUNC, before it looks at the tree.
PrepareAppends(tree) ==
  /\ passes < MaxPasses /\ Steps("idle", "glob")
  /\ rest' = tree
  /\ passes' = passes + 1
  /\ UNCHANGED <<lines, asset, source>>
Prepare(tree) ==
  /\ passes < MaxPasses /\ Steps("idle", "glob")
  /\ rest' = tree
  /\ asset' = << >>
  /\ passes' = passes + 1
  /\ UNCHANGED <<lines, source>>
Glob ==
  /\ Steps("glob", "files")
  /\ UNCHANGED <<rest, lines, asset, source, passes>>

OpenFile ==
  /\ rest # << >> /\ Steps("files", "scan")
  /\ lines' = Head(rest) /\ rest' = Tail(rest)
  /\ UNCHANGED <<asset, source, passes>>

\* Comments are dropped; every other line is written, an empty one too.
ScanLine ==
  /\ lines # << >> /\ Head(lines) # Unreadable /\ Steps("scan", "scan")
  /\ asset' = IF Head(lines) = Comment THEN asset ELSE Append(asset, Head(lines))
  /\ lines' = Tail(lines)
  /\ UNCHANGED <<rest, source, passes>>

\* Scan returns false: the end of the file, or an error that nobody asks for.
EndOfFile ==
  /\ lines # << >> => Head(lines) = Unreadable
  /\ Steps("scan", "files")
  /\ lines' = << >>
  /\ UNCHANGED <<rest, asset, source, passes>>

\* fileb0x: run it; if that fails, install it and run it again.  Not every version
\* of it knows the option "init: Init" of b0x.yaml.
StartFileb0x ==
  /\ rest = << >> /\ Steps("files", "fileb0x")
  /\ UNCHANGED <<rest, lines, asset, source, passes>>
Fileb0x ==
  /\ \/ /\ step \in {"fileb0x", "again"} /\ step' = "replace"
        /\ source' \in {Generated(func, asset) : func \in {"init", "Init"}}
     \/ /\ Steps("fileb0x", "install")
        /\ source' \in {source, Incomplete}
     \/ /\ Steps("again", "idle")
        /\ source' \in {source, Incomplete}
  /\ UNCHANGED <<rest, lines, asset, passes>>
Install ==
  /\ Steps("install", "again")
  /\ UNCHANGED <<rest, lines, asset, source, passes>>

\* replace_string_in_file: the file is read, emptied and written again.
Truncate ==
  /\ Steps("replace", "rename")
  /\ lines' = source.rules
  /\ source' = Incomplete
  /\ UNCHANGED <<rest, asset, passes>>
Rename ==
  /\ Steps("rename", "idle")
  /\ source' = Generated("Init", lines) /\ lines' = << >>
  /\ UNCHANGED <<rest, asset, passes>>

\* An open, Glob, a write or a command fails, or mage is killed: the pass ends where
\* it is.
Fail ==
  /\ step # "idle" /\ step' = "idle"
  /\ rest' = << >> /\ lines' = << >>
  /\ UNCHANGED <<asset, source, passes>>

BuildNext ==
  \/ (\E tree \in Trees : Prepare(tree)) \/ Glob \/ OpenFile \/ ScanLine \/ EndOfFile
  \/ StartFileb0x \/ Fileb0x \/ Install \/ Truncate \/ Rename \/ Fail

\* go build: LoadDefaultMagic needs a function of the name Init.
Compiles == step = "idle" /\ source.func = "Init"

-----------------------------------------------------------------------------
\* Properties.

\* The places of the lines that a pass keeps of a tree, a file and a line in it: those
\* before the line at which the scanner gives up, without the comments.
Places(tree) ==
  UNION {{i} \X {j \in DOMAIN tree[i] :
                   tree[i][j] # Comment /\ \A k \in 1..j : tree[i][k] # Unreadable} :
           i \in DOMAIN tree}
Before(p, q) == p[1] < q[1] \/ (p[1] = q[1] /\ p[2] < q[2])

\* The rules are the lines at these places, every one of them once, in their order.
Copies(rules, tree, places) ==
  \E from \in [DOMAIN rules -> places] :
    /\ \A p \in places : \E k \in DOMAIN rules : from[k] = p
    /\ \A k, l \in DOMAIN rules : k < l => Before(from[k], from[l])
    /\ \A k \in DOMAIN rules : rules[k] = tree[from[k][1]][from[k][2]]

\* However often the rules are prepared, and wherever a pass fails or is killed: a
\* package that compiles bundles the rules of one tree, all of its files in their
\* order, never what a failed pass left or the rules of two passes.
BundleFaithful ==
  Compiles => \E tree \in Trees : Copies(source.rules, tree, Places(tree))
=============================================================================
