---------------------------- MODULE DefaultRules ----------------------------
(***************************************************************************)
(* LoadDefaultMagic (magic_files/defaults.go): every call unpacks the       *)
(* bundled rules into one file of an in-memory file system that the process *)
(* shares (Init in magic_files/ab0x.go), reads that file back and hands the *)
(* text to LoadBuffer.  Goroutines with handles of their own may do so at   *)
(* the same time: only the file system has locks, one for each read and     *)
(* write.                                                                   *)
(***************************************************************************)
EXTENDS Integers, Sequences

CONSTANTS
  Goroutines,  \* the callers
  Bundles      \* the texts that may be bundled, cut into the pieces io.Copy writes

ASSUME DefaultsAssumption == Bundles \subseteq Seq(Nat \ {0})

VARIABLES
  bundle,  \* FileMagicFilesMagicRulesMgc, uncompressed
  data,    \* the content of magic_files/magic_rules.mgc: blocks, or Zeros
  pc,      \* where each goroutine is
  wpos,    \* the offset of its open file for writing
  text     \* what it has read so far

fsVars == <<data, pc, wpos, text>>
vars == <<bundle, data, pc, wpos, text>>

Zeros == 0
Blocks == Len(bundle)

Init ==
  /\ bundle \in Bundles
  /\ data = << >>
  /\ pc = [g \in Goroutines |-> "open"]
  /\ wpos = [g \in Goroutines |-> 0]
  /\ text = [g \in Goroutines |-> << >>]

-----------------------------------------------------------------------------
\* OpenFile with O_TRUNC empties the file for everybody who has it open.
Open(g) ==
  /\ pc[g] = "open"
  /\ data' = << >>
  /\ wpos' = [wpos EXCEPT ![g] = 0]
  /\ pc' = [pc EXCEPT ![g] = "write"]
  /\ UNCHANGED <<bundle, text>>

\* A write at offset pos: inside of the file it overwrites, beyond its end the
\* gap is filled with zeros.
WrittenAtEnd(file, pos, block) == Append(file, block)
Written(file, pos, block) ==
  [i \in 1..(IF pos < Len(file) THEN Len(file) ELSE pos + 1) |->
     IF i = pos + 1 THEN block ELSE IF i \in DOMAIN file THEN file[i] ELSE Zeros]

\* One round of io.Copy.
Write(g) ==
  /\ pc[g] = "write" /\ wpos[g] < Blocks
  /\ data' = Written(data, wpos[g], bundle[wpos[g] + 1])
  /\ wpos' = [wpos EXCEPT ![g] = @ + 1]
  /\ UNCHANGED <<bundle, pc, text>>

\* io.Copy is done; ReadFile opens the file again.
Reopen(g) ==
  /\ pc[g] = "write" /\ wpos[g] = Blocks
  /\ pc' = [pc EXCEPT ![g] = "read"]
  /\ text' = [text EXCEPT ![g] = << >>]
  /\ UNCHANGED <<bundle, data, wpos>>

\* Read on, up to where the file ends at that moment.
Read(g) ==
  /\ pc[g] = "read" /\ Len(text[g]) < Len(data)
  /\ text' = [text EXCEPT ![g] = Append(@, data[Len(@) + 1])]
  /\ UNCHANGED <<bundle, data, pc, wpos>>

\* End of file: the text goes to LoadBuffer and the goroutine may load again.
LoadBufferExact(g) ==
  /\ pc[g] = "read" /\ Len(text[g]) = Len(data)
  /\ pc' = [pc EXCEPT ![g] = "done"]
  /\ UNCHANGED <<bundle, data, wpos, text>>
LoadBuffer(g) ==
  /\ pc[g] = "read" /\ Len(text[g]) >= Len(data)
  /\ pc' = [pc EXCEPT ![g] = "done"]
  /\ UNCHANGED <<bundle, data, wpos, text>>

Again(g) ==
  /\ pc[g] = "done"
  /\ pc' = [pc EXCEPT ![g] = "open"]
  /\ UNCHANGED <<bundle, data, wpos, text>>

Step(g) == Open(g) \/ Write(g) \/ Reopen(g) \/ Read(g) \/ LoadBuffer(g)
Next == \E g \in Goroutines : Step(g) \/ Again(g)

Spec == Init /\ [][Next]_vars

-----------------------------------------------------------------------------
\* Properties.

\* C reads the text up to the first zero.
Visible(t) == {i \in DOMAIN t : \A k \in 1..i : t[k] # Zeros}

\* The file, or a copy of its beginning: a block in it is where it belongs.
Placed(file) ==
  /\ file \in Seq(Nat) /\ Len(file) <= Blocks
  /\ \A i \in DOMAIN file : file[i] \in {bundle[i], Zeros}

\* The types of the state: neither the file nor what was read of it is longer than
\* the bundled text, or has a block out of place.
TypeOK ==
  /\ bundle \in Seq(Nat \ {0})
  /\ pc \in [Goroutines -> {"open", "write", "read", "done"}]
  /\ wpos \in [Goroutines -> 0..Blocks]
  /\ text \in [Goroutines -> Seq(Nat)]
  /\ Placed(data) /\ \A g \in Goroutines : Placed(text[g])

\* However the goroutines interleave, what a handle is given is a beginning of the
\* bundled rules: no block twice, none skipped, none out of order.
LoadsPrefix ==
  \A g \in Goroutines : pc[g] = "done" =>
    \A i \in Visible(text[g]) : i <= Blocks /\ text[g][i] = bundle[i]

\* README: "You can load them into memory by calling LoadDefaultMagic": all of
\* the bundled rules.
LoadsAll == \A g \in Goroutines : pc[g] = "done" => Visible(text[g]) = DOMAIN bundle
=============================================================================
