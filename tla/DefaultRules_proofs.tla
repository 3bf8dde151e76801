------------------------ MODULE DefaultRules_proofs ------------------------
(***************************************************************************)
(* For any number of goroutines and any bundled text: what a handle is      *)
(* given by LoadDefaultMagic is a beginning of the bundled rules.           *)
(***************************************************************************)
EXTENDS DefaultRules, TLAPS

LEMMA EmptyPlaced ==
  ASSUME bundle \in Seq(Nat \ {0})
  PROVE  Placed(<< >>)
  BY DEF Placed, Blocks

\* A write puts a block where it belongs, whoever truncated the file before.
LEMMA WrittenPlaced ==
  ASSUME bundle \in Seq(Nat \ {0}), NEW file, Placed(file), NEW pos \in 0..(Blocks - 1)
  PROVE  Placed(Written(file, pos, bundle[pos + 1]))
  <1> DEFINE n == IF pos < Len(file) THEN Len(file) ELSE pos + 1
             new == Written(file, pos, bundle[pos + 1])
  <1>1. /\ Len(file) \in Nat /\ Len(file) <= Blocks /\ DOMAIN file = 1..Len(file)
        /\ Blocks \in Nat /\ DOMAIN bundle = 1..Blocks
    BY DEF Placed, Blocks
  <1>2. n \in Nat /\ n <= Blocks
    BY <1>1
  <1>3. bundle[pos + 1] \in Nat
    BY <1>1
  <1>4. new = [i \in 1..n |-> IF i = pos + 1 THEN bundle[pos + 1]
                              ELSE IF i \in DOMAIN file THEN file[i] ELSE Zeros]
    BY DEF Written
  <1> HIDE DEF n
  <1>5. \A i \in 1..n : new[i] \in {bundle[i], Zeros}
    <2> HIDE DEF new
    <2> QED
      BY <1>4 DEF Placed
  <1>6. \A i \in 1..n : bundle[i] \in Nat
    BY <1>1, <1>2
  <1>7. new \in Seq(Nat) /\ Len(new) = n /\ DOMAIN new = 1..n
    <2>1. new \in [1..n -> Nat]
      <3> HIDE DEF new
      <3>1. \A i \in 1..n : new[i] \in Nat
        BY <1>5, <1>6 DEF Zeros
      <3> QED
        BY <1>4, <3>1
    <2> HIDE DEF new
    <2> QED
      BY <1>2, <2>1
  <1> QED
    BY <1>2, <1>5, <1>7 DEF Placed

\* What is read of a file is placed as it is in the file, however the file was
\* changed since the blocks before were read.
LEMMA ReadPlaced ==
  ASSUME bundle \in Seq(Nat \ {0}), NEW file, NEW t, Placed(file), Placed(t), Len(t) < Len(file)
  PROVE  Placed(Append(t, file[Len(t) + 1]))
  <1>1. Len(t) \in Nat /\ Len(file) \in Nat /\ Len(file) <= Blocks /\ Blocks \in Nat
    BY DEF Placed, Blocks
  <1>2. Len(t) + 1 \in DOMAIN file
    BY <1>1 DEF Placed
  <1>3. file[Len(t) + 1] \in {bundle[Len(t) + 1], Zeros} /\ file[Len(t) + 1] \in Nat
    BY <1>2 DEF Placed
  <1> DEFINE b == file[Len(t) + 1]
  <1>4. Append(t, b) \in Seq(Nat) /\ Len(Append(t, b)) = Len(t) + 1
    BY <1>3 DEF Placed
  <1>5. \A i \in 1..(Len(t) + 1) : Append(t, b)[i] \in {bundle[i], Zeros}
    BY <1>1, <1>3 DEF Placed
  <1>6. Len(t) + 1 <= Blocks /\ DOMAIN Append(t, b) = 1..(Len(t) + 1)
    BY <1>1, <1>4
  <1> QED
    BY <1>4, <1>5, <1>6 DEF Placed

\* What is placed stays placed while the bundled text stays the same.
LEMMA PlacedNext ==
  ASSUME NEW file, Placed(file), UNCHANGED bundle
  PROVE  Placed(file)'
  BY DEF Placed, Blocks

LEMMA TypeInit == Init => TypeOK
  <1> SUFFICES ASSUME Init PROVE TypeOK
    OBVIOUS
  <1>1. bundle \in Seq(Nat \ {0})
    BY DefaultsAssumption DEF Init
  <1>2. Blocks \in Nat
    BY <1>1 DEF Blocks
  <1> QED
    BY <1>1, <1>2, EmptyPlaced DEF Init, TypeOK

LEMMA StepType ==
  ASSUME TypeOK, NEW g \in Goroutines, Step(g) \/ Again(g)
  PROVE  TypeOK'
  <1>0. bundle \in Seq(Nat \ {0}) /\ Blocks \in Nat
    BY DEF TypeOK, Blocks
  <1>0a. UNCHANGED bundle /\ UNCHANGED Blocks
    BY DEF Step, Open, Write, Reopen, Read, LoadBuffer, Again, Blocks
  <1>0b. ASSUME NEW file, Placed(file) PROVE Placed(file)'
    BY <1>0a, <1>0b, PlacedNext
  <1>1. CASE Open(g)
    <2>1. Placed(<< >>)'
      BY <1>0, <1>0b, EmptyPlaced
    <2>2. Placed(data)' /\ (\A h \in Goroutines : Placed(text[h])')
      BY <1>1, <2>1, <1>0b DEF Open, TypeOK, Placed, Blocks
    <2> QED
      BY <1>0, <1>0a, <1>1, <2>2 DEF Open, TypeOK
  <1>2. CASE Write(g)
    <2>1. wpos[g] \in 0..(Blocks - 1)
      BY <1>0, <1>2 DEF Write, TypeOK
    <2>2. Placed(Written(data, wpos[g], bundle[wpos[g] + 1]))
      BY <1>0, <2>1, WrittenPlaced DEF TypeOK
    <2>3. Placed(data)'
      BY <1>2, <2>2, <1>0a DEF Write, Placed, Blocks
    <2>4. wpos' \in [Goroutines -> 0..Blocks]
      BY <1>0, <1>2, <2>1 DEF Write, TypeOK
    <2>5. \A h \in Goroutines : Placed(text[h])'
      BY <1>2, <1>0a DEF Write, TypeOK, Placed, Blocks
    <2> QED
      BY <1>0, <1>0a, <1>2, <2>3, <2>4, <2>5 DEF Write, TypeOK
  <1>3. CASE Reopen(g)
    <2>1. Placed(<< >>)
      BY <1>0, EmptyPlaced
    <2>2. Placed(data)' /\ (\A h \in Goroutines : Placed(text[h])')
      BY <1>3, <2>1, <1>0a DEF Reopen, TypeOK, Placed, Blocks
    <2>3. << >> \in Seq(Nat)
      OBVIOUS
    <2> QED
      BY <1>0, <1>0a, <1>3, <2>2, <2>3 DEF Reopen, TypeOK
  <1>4. CASE Read(g)
    <2>1. Placed(Append(text[g], data[Len(text[g]) + 1]))
      BY <1>0, <1>4, ReadPlaced DEF Read, TypeOK
    <2>2. Placed(data)' /\ (\A h \in Goroutines : Placed(text[h])')
      BY <1>4, <2>1, <1>0a DEF Read, TypeOK, Placed, Blocks
    <2>3. Append(text[g], data[Len(text[g]) + 1]) \in Seq(Nat)
      BY <2>1 DEF Placed
    <2> QED
      BY <1>0, <1>0a, <1>4, <2>2, <2>3 DEF Read, TypeOK
  <1>5. CASE LoadBuffer(g) \/ Again(g)
    <2>1. Placed(data)' /\ (\A h \in Goroutines : Placed(text[h])')
      BY <1>5, <1>0a DEF LoadBuffer, Again, TypeOK, Placed, Blocks
    <2> QED
      BY <1>0, <1>0a, <1>5, <2>1 DEF LoadBuffer, Again, TypeOK
  <1> QED
    BY <1>1, <1>2, <1>3, <1>4, <1>5 DEF Step

LEMMA TypeNext == TypeOK /\ [Next]_vars => TypeOK'
  <1>1. TypeOK /\ UNCHANGED vars => TypeOK'
    BY DEF vars, TypeOK, Placed, Blocks
  <1> QED
    BY <1>1, StepType DEF Next

\* The file and all that was read of it have every block in its place.
THEOREM TypeCorrect == Spec => []TypeOK
  BY TypeInit, TypeNext, PTL DEF Spec

\* What is visible of a copy is a beginning of the bundled text.
LEMMA PlacedPrefix ==
  ASSUME bundle \in Seq(Nat \ {0}), NEW t, Placed(t), NEW i \in Visible(t)
  PROVE  i \in 1..Blocks /\ t[i] = bundle[i]
  <1>1. i \in 1..Len(t) /\ Len(t) \in Nat /\ Len(t) <= Blocks /\ Blocks \in Nat
    BY DEF Visible, Placed, Blocks
  <1>2. t[i] # Zeros
    BY <1>1 DEF Visible
  <1> QED
    BY <1>1, <1>2 DEF Placed

LEMMA PrefixOfBundle == TypeOK => LoadsPrefix
  <1> SUFFICES ASSUME TypeOK, NEW g \in Goroutines, NEW i \in Visible(text[g])
               PROVE  i <= Blocks /\ text[g][i] = bundle[i]
    BY DEF LoadsPrefix
  <1>1. i \in 1..Blocks /\ text[g][i] = bundle[i]
    BY PlacedPrefix DEF TypeOK
  <1>2. Blocks \in Nat
    BY DEF TypeOK, Blocks
  <1> QED
    BY <1>1, <1>2

\* Concurrent calls of LoadDefaultMagic can only cut the rules short, for any
\* number of goroutines and however often each loads.
THEOREM PrefixLoaded == Spec => []LoadsPrefix
  BY PrefixOfBundle, TypeCorrect, PTL
=============================================================================
