-------------------------- MODULE RuleLoader_proofs --------------------------
(***************************************************************************)
(* For every set of handles and texts: the state is well typed, whatever    *)
(* loads run at the same time; parse() stays inside of the level table when *)
(* loads run one at a time.  Where the levels of the texts fit cont_level:  *)
(* what a load stores keeps the groups of the text together, has every rule *)
(* when the load ended well, and its default rules come last unless a       *)
(* warning was given; and when loads run one at a time, each elif or else   *)
(* follows an if or elif.                                                   *)
(***************************************************************************)
EXTENDS RuleLoader, FiniteSetTheorems, SequenceTheorems, TLAPS

\* A load that is under way is a load record, and stands on a line of its text.
LEMMA LoadingType ==
  ASSUME TypeOK, NEW h \in Handles, Loading(h)
  PROVE  /\ load[h] \in LoadState
         /\ load[h].text \in Seq(Line)
         /\ load[h].next \in 1..(Len(load[h].text) + 1)
         /\ load[h].phase = "parse" => /\ load[h].next \in 1..Len(load[h].text)
                                       /\ load[h].text[load[h].next] \in Line
                                       /\ load[h].text[load[h].next].kind = "rule"
  <1>1. load[h] # Idle
    BY DEF Loading, Idle
  <1>2. LoadOK(load[h])
    BY DEF TypeOK
  <1>3. load[h] \in LoadState /\ load[h].text \in Seq(Line)
    BY <1>1, LoaderAssumption DEF TypeOK, LoadState
  <1> QED
    BY <1>1, <1>2, <1>3 DEF LoadOK, LoadState

\* The rule made of a line of the text has its level reduced to 8 bits.
LEMMA RuleOfType ==
  ASSUME NEW d, d.text[d.next] \in Line, d.next \in Nat \ {0}
  PROVE  RuleOf(d) \in Rules
  <1> DEFINE line == d.text[d.next]
  <1>1. /\ line.level \in Levels /\ line.cond \in Conds
        /\ line.test \in Tests /\ line.factor \in Factors
    BY DEF Line
  <1>a. line.level \in Nat /\ LevelModulus \in Nat \ {0}
    BY <1>1, LoaderAssumption
  <1>2. line.level % LevelModulus \in 0..(LevelModulus - 1)
    <2> DEFINE level == line.level
    <2>1. level \in Nat
      BY <1>a
    <2> HIDE DEF level
    <2> QED
      BY <1>a, <2>1
  <1>3. NoFactor \in Factors
    BY DEF NoFactor, Factors
  <1> HIDE DEF line
  <1>4. [line |-> d.next, level |-> line.level % LevelModulus, cond |-> line.cond,
         test |-> line.test, factor |-> NoFactor] \in Rules
    BY <1>1, <1>2, <1>3 DEF Rules
  <1> QED
    BY <1>4 DEF RuleOf, line

\* parse_strength changes the factor of the first rule of the group.
LEMMA StrengthenedType ==
  ASSUME NEW group \in Seq(Rules), group # << >>, NEW factor \in Factors
  PROVE  Strengthened(group, factor) \in Seq(Rules) /\ Strengthened(group, factor) # << >>
  <1>1. group[1] \in Rules /\ 1 \in DOMAIN group
    OBVIOUS
  <1>2. [group[1] EXCEPT !.factor = factor] \in Rules
    BY <1>1 DEF Rules
  <1>3. Strengthened(group, factor) = [group EXCEPT ![1] = [group[1] EXCEPT !.factor = factor]]
    BY <1>1 DEF Strengthened
  <1> HIDE DEF Rules
  <1> QED
    BY <1>1, <1>2, <1>3

LEMMA WarnType ==
  ASSUME TypeOK, NEW h \in Handles, NEW n \in Nat, Warn(h, n)
  PROVE  magwarn' \in [Handles -> Nat]
  <1>1. magwarn[h] + n \in Nat
    BY DEF TypeOK
  <1> QED
    BY <1>1 DEF TypeOK, Warn

LEMMA LineType ==
  ASSUME NEW line \in Line
  PROVE  /\ line.level \in Levels /\ line.level \in Nat
         /\ line.cond \in Conds /\ line.factor \in Factors /\ line.warns \in {0, 1}
  BY LoaderAssumption DEF Line

LEMMA TypeInit == Init => TypeOK
  BY LoaderAssumption DEF Init, TypeOK, LoadOK, Conds

LEMMA AddEntryType ==
  ASSUME NEW d \in LoadState
  PROVE  /\ AddEntry(d) \in LoadState
         /\ AddEntry(d).text = d.text /\ AddEntry(d).next = d.next
         /\ AddEntry(d).me = << >> /\ AddEntry(d).phase = d.phase
  <1>1. SetOf(d.me) \in {1, 2}
    BY DEF SetOf
  <1>2. Append(d.sets[SetOf(d.me)], d.me) \in Groups
    BY <1>1 DEF LoadState, Groups
  <1>3. AddTo(d.sets, d.me) \in [{1, 2} -> Groups]
    BY <1>1, <1>2 DEF AddTo, LoadState
  <1>4. << >> \in Seq(Rules)
    OBVIOUS
  <1> QED
    BY <1>3, <1>4 DEF AddEntry, LoadState

\* What a step of the loader makes of a load record.
LEMMA PhaseType ==
  ASSUME NEW d \in LoadState, NEW phase \in {"line", "parse"}
  PROVE  [d EXCEPT !.phase = phase] \in LoadState
  BY DEF LoadState

LEMMA NextType ==
  ASSUME NEW d \in LoadState, NEW b \in {0, 1}
  PROVE  [d EXCEPT !.next = @ + 1, !.errs = b] \in LoadState
  <1>1. d.next + 1 \in Nat \ {0}
    BY DEF LoadState
  <1> QED
    BY <1>1 DEF LoadState

LEMMA RejectType ==
  ASSUME NEW d \in LoadState, NEW b \in {0, 1}
  PROVE  [d EXCEPT !.phase = "line", !.next = @ + 1, !.errs = b] \in LoadState
  <1>1. d.next + 1 \in Nat \ {0}
    BY DEF LoadState
  <1> QED
    BY <1>1 DEF LoadState

LEMMA FinishType ==
  ASSUME NEW d \in LoadState, NEW b \in {0, 1}, NEW rule \in Rules
  PROVE  [d EXCEPT !.phase = "line", !.next = @ + 1, !.me = Append(@, rule), !.errs = b]
            \in LoadState
  <1>1. d.next + 1 \in Nat \ {0}
    BY DEF LoadState
  <1>2. Append(d.me, rule) \in Seq(Rules)
    BY DEF LoadState
  <1> QED
    BY <1>1, <1>2 DEF LoadState

LEMMA PutType ==
  ASSUME TypeOK, NEW h \in Handles, NEW e \in LoadState \cup {Idle}, LoadOK(e), Put(h, e)
  PROVE  /\ load' \in [Handles -> LoadState \cup {Idle}]
         /\ \A g \in Handles : LoadOK(load'[g])
         /\ load'[h] = e
         /\ \A g \in Handles \ {h} : load'[g] = load[g]
  BY DEF Put, TypeOK

LEMMA CondType ==
  ASSUME TypeOK, NEW h \in Handles, NEW l \in Levels, NEW c \in Conds,
         last_cond' = [last_cond EXCEPT ![h][l] = c]
  PROVE  last_cond' \in [Handles -> [Levels -> Conds]]
  BY DEF TypeOK

\* What ReadLine makes of a load: it stands on the next line, with or without a
\* pending group as before, or parses the rule it stands on.
StandsOn(h) == load[h].text[load[h].next]
Reads(h, e) ==
  /\ LoadOK(e) /\ Put(h, e) /\ e.text = load[h].text
  /\ e.me = << >> <=> load[h].me = << >>
  /\ \/ e.phase = "line" /\ UNCHANGED <<len, last_cond>>
     \/ /\ e.phase = "parse" /\ e.next = load[h].next
        /\ IF NeedsCheck(StandsOn(h).level) THEN CheckMem(h, StandsOn(h).level)
                                           ELSE UNCHANGED <<len, last_cond>>

LEMMA ReadLineReads ==
  ASSUME TypeOK, NEW h \in Handles, ReadLine(h)
  PROVE  /\ StandsOn(h) \in Line /\ load[h] \in LoadState
         /\ magwarn' \in [Handles -> Nat]
         /\ \E e \in LoadState : Reads(h, e)
  <1> DEFINE d == load[h]
             line == d.text[d.next]
  <1>1. /\ d \in LoadState /\ d.text \in Seq(Line) /\ d.phase = "line"
        /\ d.next \in 1..Len(d.text)
    BY LoadingType DEF ReadLine, Loading, AtEnd, Count, LoadState
  <1>2. line \in Line
    BY <1>1
  <1>3. ASSUME SkipLine(h), UNCHANGED <<len, last_cond>>
        PROVE  /\ magwarn' \in [Handles -> Nat]
               /\ \E e \in LoadState : Reads(h, e)
    <2>1. PICK b \in {0, 1} : Put(h, [d EXCEPT !.next = @ + 1, !.errs = b])
      BY <1>1, <1>3 DEF SkipLine, LoadState
    <2> DEFINE e == [d EXCEPT !.next = @ + 1, !.errs = b]
    <2>2. e \in LoadState
      BY <1>1, NextType
    <2>3. e.phase = "line" /\ e.text = d.text /\ e.me = d.me /\ e.next = d.next + 1
      BY <1>1 DEF LoadState
    <2>4. LoadOK(e)
      BY <1>1, <2>3 DEF LoadOK
    <2>5. PICK n \in {0, line.warns} : Warn(h, n)
      BY <1>3 DEF SkipLine
    <2>6. magwarn' \in [Handles -> Nat]
      BY <1>2, <2>5, LineType, WarnType
    <2> HIDE DEF e
    <2> QED
      BY <1>3, <2>1, <2>2, <2>3, <2>4, <2>6 DEF Reads, e
  <1>4. ASSUME ReadStrength(h), UNCHANGED <<len, last_cond>>
        PROVE  /\ magwarn' \in [Handles -> Nat]
               /\ \E e \in LoadState : Reads(h, e)
    <2>1. CASE TakesFactor(d.me[1], line)
      <3> DEFINE group == Strengthened(d.me, line.factor)
                 e == [d EXCEPT !.next = @ + 1, !.me = group]
      <3>1. d.me # << >> /\ Put(h, e) /\ magwarn' = magwarn
        BY <1>4, <2>1 DEF ReadStrength
      <3>2. d.me \in Seq(Rules) /\ d.next + 1 \in Nat \ {0}
        BY <1>1 DEF LoadState
      <3>3. line.factor \in Factors
        BY <1>2, LineType
      <3>4. group \in Seq(Rules) /\ group # << >>
        BY <3>1, <3>2, <3>3, StrengthenedType
      <3> HIDE DEF group
      <3>5. e \in LoadState
        BY <1>1, <3>2, <3>4 DEF LoadState
      <3>6. e.phase = "line" /\ e.text = d.text /\ e.me = group /\ e.next = d.next + 1
        BY <1>1 DEF LoadState
      <3> HIDE DEF e
      <3>7. LoadOK(e)
        BY <1>1, <3>6 DEF LoadOK
      <3> QED
        BY <1>4, <3>1, <3>4, <3>5, <3>6, <3>7 DEF Reads, TypeOK
    <2>2. CASE ~TakesFactor(d.me[1], line)
      <3> DEFINE e == [d EXCEPT !.next = @ + 1, !.errs = 1]
      <3>1. Put(h, e) /\ Warn(h, 1)
        BY <1>4, <2>2 DEF ReadStrength
      <3>2. e \in LoadState
        BY <1>1, NextType
      <3>3. e.phase = "line" /\ e.text = d.text /\ e.me = d.me /\ e.next = d.next + 1
        BY <1>1 DEF LoadState
      <3>4. LoadOK(e)
        BY <1>1, <3>3 DEF LoadOK
      <3> HIDE DEF e
      <3>5. magwarn' \in [Handles -> Nat]
        BY <3>1, WarnType
      <3> QED
        BY <1>4, <3>1, <3>2, <3>3, <3>4, <3>5 DEF Reads
    <2> QED
      BY <2>1, <2>2
  <1>5. ASSUME MeetRule(h), UNCHANGED magwarn
        PROVE  /\ magwarn' \in [Handles -> Nat]
               /\ \E e \in LoadState : Reads(h, e)
    <2> DEFINE e == [d EXCEPT !.phase = "parse"]
    <2>1. /\ Put(h, e) /\ line.kind = "rule"
          /\ IF NeedsCheck(line.level) THEN CheckMem(h, line.level)
                                       ELSE UNCHANGED <<len, last_cond>>
      BY <1>5 DEF MeetRule
    <2>2. e \in LoadState
      BY <1>1, PhaseType
    <2>3. e.phase = "parse" /\ e.text = d.text /\ e.me = d.me /\ e.next = d.next
      BY <1>1 DEF LoadState
    <2>4. LoadOK(e)
      BY <1>1, <2>1, <2>3 DEF LoadOK
    <2> HIDE DEF e
    <2> QED
      BY <1>5, <2>1, <2>2, <2>3, <2>4 DEF Reads, TypeOK, StandsOn
  <1>6. \/ SkipLine(h) /\ UNCHANGED <<len, last_cond>>
        \/ ReadStrength(h) /\ UNCHANGED <<len, last_cond>>
        \/ MeetRule(h) /\ UNCHANGED magwarn
    BY DEF ReadLine
  <1> QED
    BY <1>1, <1>2, <1>3, <1>4, <1>5, <1>6 DEF StandsOn

\* check_cond leaves one of the four conditions.
LEMMA NextCondType ==
  ASSUME NEW cond \in Conds
  PROVE  NextCond(cond) \in Conds
  BY DEF NextCond, Conds

LEMMA TypeNext == TypeOK /\ [Next]_vars => TypeOK'
  <1> SUFFICES ASSUME TypeOK, [Next]_vars PROVE TypeOK'
    OBVIOUS
  <1>1. ASSUME NEW h \in Handles, Begin(h) PROVE TypeOK'
    <2>1. PICK text \in Texts, source \in Sources :
            Put(h, [phase |-> "line", text |-> text, source |-> source, next |-> 1,
                    me |-> << >>, sets |-> NoSets, errs |-> 0, lost |-> FALSE])
      BY <1>1 DEF Begin
    <2> DEFINE e == [phase |-> "line", text |-> text, source |-> source, next |-> 1,
                     me |-> << >>, sets |-> NoSets, errs |-> 0, lost |-> FALSE]
    <2>2. NoSets \in [{1, 2} -> Groups]
      BY DEF NoSets, Groups
    <2>3. e \in LoadState
      BY <2>2 DEF LoadState
    <2>4. Len(text) \in Nat
      BY LoaderAssumption
    <2>5. LoadOK(e)
      BY <2>4 DEF LoadOK
    <2> QED
      BY <1>1, <2>1, <2>3, <2>5, PutType DEF Begin, TypeOK
  <1>2. ASSUME NEW h \in Handles, ReadLine(h) PROVE TypeOK'
    <2>1. StandsOn(h) \in Line /\ magwarn' \in [Handles -> Nat]
      BY <1>2, ReadLineReads
    <2>2. PICK e \in LoadState : Reads(h, e)
      BY <1>2, ReadLineReads
    <2> DEFINE level == StandsOn(h).level
    <2>3. level \in Levels /\ level \in Nat /\ "none" \in Conds
      BY <2>1, LineType DEF Conds
    <2> HIDE DEF level
    <2>4. len' \in [Handles -> Nat \ {0}] /\ last_cond' \in [Handles -> [Levels -> Conds]]
      <3>1. CASE UNCHANGED <<len, last_cond>>
        BY <3>1 DEF TypeOK
      <3>2. CASE CheckMem(h, level)
        <4>1. len' \in [Handles -> Nat \ {0}]
          BY <2>3, <3>2, LoaderAssumption DEF CheckMem, TypeOK
        <4>2. last_cond' \in [Handles -> [Levels -> Conds]]
          BY <2>3, <3>2 DEF CheckMem, TypeOK
        <4> QED
          BY <4>1, <4>2
      <3> QED
        BY <2>2, <3>1, <3>2 DEF Reads, level
    <2> QED
      BY <1>2, <2>1, <2>2, <2>4, PutType DEF ReadLine, Reads, TypeOK
  <1>3. ASSUME NEW h \in Handles, Parse(h) PROVE TypeOK'
    <2> DEFINE d == load[h]
               line == d.text[d.next]
    <2>1. /\ d \in LoadState /\ d.text \in Seq(Line)
          /\ d.next \in 1..Len(d.text)
          /\ line \in Line
      BY <1>3, LoadingType DEF Parse, Loading
    <2>2. line.level \in Levels
      BY <2>1 DEF Line
    <2>3. ASSUME FinishRule(h, d)
          PROVE  /\ \E e \in LoadState : LoadOK(e) /\ Put(h, e)
                 /\ last_cond' \in [Handles -> [Levels -> Conds]]
                 /\ magwarn' \in [Handles -> Nat]
      <3>1. PICK b \in {0, 1} :
              Put(h, [d EXCEPT !.phase = "line", !.next = @ + 1,
                               !.me = Append(@, RuleOf(d)), !.errs = b])
        BY <2>1, <2>3, Zenon DEF FinishRule, LoadState
      <3> DEFINE e == [d EXCEPT !.phase = "line", !.next = @ + 1,
                               !.me = Append(@, RuleOf(d)), !.errs = b]
      <3>2. RuleOf(d) \in Rules
        BY <2>1, RuleOfType
      <3>3. e \in LoadState
        BY <2>1, <3>2, FinishType
      <3>4. LoadOK(e)
        BY <2>1 DEF LoadOK, LoadState
      <3>5. NextCond(line.cond) \in Conds
        BY <2>1, LineType, NextCondType, Zenon
      <3>6. \/ last_cond' = last_cond
            \/ last_cond' = [last_cond EXCEPT ![h][line.level] = NextCond(line.cond)]
        BY <2>3, Zenon DEF FinishRule
      <3>7. last_cond' \in [Handles -> [Levels -> Conds]]
        <4>1. CASE last_cond' = last_cond
          BY <4>1, Zenon DEF TypeOK
        <4>2. CASE last_cond' = [last_cond EXCEPT ![h][line.level] = NextCond(line.cond)]
          BY <2>2, <3>5, <4>2, CondType, Zenon
        <4> QED
          BY <3>6, <4>1, <4>2
      <3>8. PICK n \in {1, line.warns, 1 + 1, line.warns + 1} : Warn(h, n)
        BY <2>3, Zenon DEF FinishRule
      <3>9. line.warns \in {0, 1}
        BY <2>1, LineType
      <3>10. magwarn' \in [Handles -> Nat]
        BY <3>8, <3>9, WarnType
      <3> QED
        BY <3>1, <3>3, <3>4, <3>7, <3>10, Zenon
    <2>4. ASSUME RejectLine(h)
          PROVE  /\ \E e \in LoadState : LoadOK(e) /\ Put(h, e)
                 /\ last_cond' \in [Handles -> [Levels -> Conds]]
      <3> DEFINE e == [d EXCEPT !.phase = "line", !.next = @ + 1, !.errs = 1]
      <3>1. e \in LoadState
        BY <2>1, RejectType
      <3>2. LoadOK(e)
        BY <2>1 DEF LoadOK, LoadState
      <3> QED
        BY <2>4, <3>1, <3>2 DEF RejectLine, TypeOK
    <2>5. ASSUME NEW oom \in Oom,
                 Put(h, [(IF oom THEN d ELSE AddEntry(d)) EXCEPT !.phase = "line"])
          PROVE  \E e \in LoadState : LoadOK(e) /\ Put(h, e)
      <3>1. PICK c \in {d, AddEntry(d)} : Put(h, [c EXCEPT !.phase = "line"])
        BY <2>5
      <3>2. c \in LoadState /\ c.text = d.text /\ c.next = d.next
        BY <2>1, AddEntryType
      <3> DEFINE e == [c EXCEPT !.phase = "line"]
      <3>3. e \in LoadState
        BY <3>2, PhaseType
      <3>4. LoadOK(e)
        BY <2>1, <3>2 DEF LoadOK, LoadState
      <3> QED
        BY <3>1, <3>3, <3>4
    <2>6. /\ \E e \in LoadState : LoadOK(e) /\ Put(h, e)
          /\ last_cond' \in [Handles -> [Levels -> Conds]]
          /\ magwarn' \in [Handles -> Nat]
      <3>1. CASE ParseGroup(h)
        BY <2>3, <2>4, <2>5, <3>1 DEF ParseGroup, TypeOK
      <3>2. CASE ParseContinuation(h)
        <4>1. CASE RejectLine(h)
          <5>1. (\E n \in {0, 1} : Warn(h, n)) \/ UNCHANGED magwarn
                  \/ FinishRule(h, d)
            BY <3>2 DEF ParseContinuation
          <5> QED
            BY <2>3, <2>4, <4>1, <5>1, WarnType DEF TypeOK
        <4> QED
          BY <2>3, <3>2, <4>1 DEF ParseContinuation
      <3> QED
        BY <1>3, <3>1, <3>2 DEF Parse
    <2>7. PICK e \in LoadState : LoadOK(e) /\ Put(h, e)
      BY <2>6
    <2> QED
      BY <1>3, <2>2, <2>6, <2>7, PutType DEF Parse, TypeOK
  <1>4. ASSUME NEW h \in Handles, Finish(h) PROVE TypeOK'
    <2>1. Idle \in LoadState \cup {Idle} /\ LoadOK(Idle)
      BY DEF LoadOK
    <2>2. magwarn' \in [Handles -> Nat]
      <3>1. (\E n \in Nat : Warn(h, n)) \/ UNCHANGED magwarn
        <4>1. ASSUME NEW e, Arrange(h, e) PROVE \E n \in Nat : Warn(h, n)
          <5>1. PICK first, second : \/ Warn(h, Late(first) + Late(second))
                                     \/ Warn(h, Late(first))
            BY <4>1, Zenon DEF Arrange
          <5>2. Late(first) \in Nat /\ Late(second) \in Nat
            BY DEF Late
          <5>3. Late(first) + Late(second) \in Nat
            BY <5>2
          <5> QED
            BY <5>1, <5>2, <5>3, Zenon
        <4> QED
          BY <1>4, <4>1 DEF Finish
      <3> QED
        BY <3>1, WarnType DEF TypeOK
    <2> QED
      BY <1>4, <2>1, <2>2, PutType DEF Finish, TypeOK
  <1>5. CASE UNCHANGED vars
    BY <1>5 DEF vars, TypeOK
  <1> QED
    BY <1>1, <1>2, <1>3, <1>4, <1>5 DEF Next, Step, Done

\* Whatever loads run at the same time, the state has its types: a load that is
\* under way stands on a line of its text, a rule while parse() is in it, and
\* every rule of the pending group has a level that fits cont_level.
THEOREM TypeCorrect == Spec => []TypeOK
  BY TypeInit, TypeNext, PTL DEF Spec
-----------------------------------------------------------------------------
\* One load at a time.  While a group is pending, the static variable holds the
\* level of a line of this load, for which the table was enlarged if need be.
Covered(h) == Loading(h) /\ load[h].me # << >> => last_cont_level < len[h]
SerialInv == TypeOK /\ LevelInBounds /\ \A h \in Handles : Covered(h)

LEMMA SerialInit == Init => SerialInv
  <1> SUFFICES ASSUME Init PROVE SerialInv
    OBVIOUS
  <1>1. TypeOK
    BY TypeInit
  <1>2. \A h \in Handles : ~Loading(h) /\ load[h].phase # "parse"
    BY DEF Init, Loading, Idle
  <1> QED
    BY <1>1, <1>2 DEF SerialInv, LevelInBounds, Covered

LEMMA SerialNextIsNext == [SerialNext]_vars => [Next]_vars
  BY DEF SerialNext, Next

\* A handle that is not loading satisfies the invariant, whatever the rest does.
LEMMA OthersIdle ==
  ASSUME TypeOK, NEW h \in Handles, \A g \in Handles \ {h} : ~Loading(g),
         NEW e, Put(h, e)
  PROVE  \A g \in Handles \ {h} : ~Loading(g)' /\ load'[g].phase # "parse"
  <1>1. \A g \in Handles \ {h} : load'[g] = load[g]
    BY DEF Put, TypeOK
  <1> QED
    BY <1>1 DEF Loading

LEMMA SerialStep == SerialInv /\ [SerialNext]_vars => SerialInv'
  <1> SUFFICES ASSUME SerialInv, [SerialNext]_vars PROVE SerialInv'
    OBVIOUS
  <1>0. TypeOK /\ TypeOK'
    BY SerialNextIsNext, TypeNext DEF SerialInv
  <1>1. CASE UNCHANGED vars
    BY <1>0, <1>1 DEF SerialInv, LevelInBounds, Covered, Loading, vars
  <1>2. ASSUME NEW h \in Handles, \A g \in Handles \ {h} : ~Loading(g),
               NEW e, Put(h, e), Covered(h)',
               e.phase = "parse" =>
                 LET level == e.text[e.next].level
                 IN level = 0 \/ e.me # << >> => level < len'[h]
        PROVE  SerialInv'
    <2>1. load'[h] = e
      BY <1>0, <1>2 DEF Put, TypeOK
    <2>2. \A g \in Handles \ {h} : ~Loading(g)' /\ load'[g].phase # "parse"
      BY <1>0, <1>2, OthersIdle
    <2>3. LevelInBounds'
      BY <1>2, <2>1, <2>2 DEF LevelInBounds
    <2>4. \A g \in Handles : Covered(g)'
      BY <1>2, <2>2 DEF Covered
    <2> QED
      BY <1>0, <2>3, <2>4 DEF SerialInv
  <1>3. ASSUME NEW h \in Handles, \A g \in Handles \ {h} : ~Loading(g), Begin(h)
        PROVE  SerialInv'
    <2>1. PICK text \in Texts, source \in Sources :
            Put(h, [phase |-> "line", text |-> text, source |-> source, next |-> 1,
                    me |-> << >>, sets |-> NoSets, errs |-> 0, lost |-> FALSE])
      BY <1>3 DEF Begin
    <2>2. load'[h].me = << >>
      BY <1>0, <2>1 DEF Put, TypeOK
    <2> QED
      BY <1>2, <1>3, <2>1, <2>2 DEF Covered
  <1>4. ASSUME NEW h \in Handles, \A g \in Handles \ {h} : ~Loading(g), ReadLine(h)
        PROVE  SerialInv'
    <2> DEFINE d == load[h]
               level == StandsOn(h).level
    <2>1. Loading(h) /\ d \in LoadState /\ last_cont_level' = last_cont_level
      BY <1>4, ReadLineReads, <1>0 DEF ReadLine, Loading, Idle
    <2>2. len[h] \in Nat \ {0} /\ last_cont_level \in Nat
      BY <1>0, LoaderAssumption DEF TypeOK
    <2>3. PICK e \in LoadState : Reads(h, e)
      BY <1>0, <1>4, ReadLineReads
    <2>4. Put(h, e) /\ load'[h] = e
      BY <1>0, <2>3 DEF Put, TypeOK, Reads
    <2>5. d.me # << >> => last_cont_level < len[h]
      BY <2>1 DEF SerialInv, Covered
    <2>6. CASE e.phase = "line"
      <3>1. Covered(h)'
        BY <2>1, <2>3, <2>4, <2>5, <2>6 DEF Covered, Reads
      <3> QED
        BY <1>2, <1>4, <2>4, <2>6, <3>1
    <2>7. CASE e.phase = "parse"
      <3>1. /\ e.text = d.text /\ e.next = d.next /\ (e.me = << >> <=> d.me = << >>)
            /\ IF NeedsCheck(level) THEN CheckMem(h, level) ELSE UNCHANGED <<len, last_cond>>
        BY <2>3, <2>7 DEF Reads
      <3>2. level \in Nat
        BY <1>0, <1>4, ReadLineReads, LineType
      <3>3. e.text[e.next].level = level
        BY <3>1 DEF StandsOn
      <3> HIDE DEF level
      <3>4. len'[h] \in Nat /\ len'[h] >= len[h]
        <4>1. \/ len'[h] = len[h]
              \/ level >= len[h] /\ len'[h] = Slack + level
          BY <1>0, <3>1 DEF CheckMem, TypeOK
        <4> QED
          BY <2>2, <3>2, <4>1, LoaderAssumption
      <3>5. Covered(h)'
        BY <2>1, <2>2, <2>4, <2>5, <3>1, <3>4 DEF Covered
      <3>6. NeedsCheck(level) => level < len'[h]
        BY <1>0, <2>2, <3>1, <3>2, LoaderAssumption DEF CheckMem, TypeOK
      <3>7. ~NeedsCheck(level) => level # 0 /\ level <= last_cont_level
        BY <2>2, <3>2 DEF NeedsCheck
      <3>8. level = 0 \/ e.me # << >> => level < len'[h]
        BY <2>2, <2>5, <3>1, <3>2, <3>4, <3>6, <3>7
      <3> QED
        BY <1>2, <1>4, <2>4, <3>3, <3>5, <3>8
    <2> QED
      BY <2>3, <2>6, <2>7 DEF Reads
  <1>5. ASSUME NEW h \in Handles, \A g \in Handles \ {h} : ~Loading(g), Parse(h)
        PROVE  SerialInv'
    <2> DEFINE d == load[h]
               line == d.text[d.next]
    <2>1. Loading(h) /\ d \in LoadState
      BY <1>0, <1>5, LoadingType DEF Parse, Loading
    <2>2. /\ len' = len /\ last_cont_level' = line.level
          /\ line.level = 0 \/ d.me # << >> => line.level < len[h]
      BY <1>5 DEF Parse, SerialInv, LevelInBounds
    <2>3. PICK e : /\ Put(h, e) /\ e.phase = "line"
                   /\ e.me # << >> => line.level = 0 \/ d.me # << >>
      <3>1. CASE FinishRule(h, d) /\ (line.level = 0 \/ d.me # << >>)
        BY <2>1, <3>1, Zenon DEF FinishRule, LoadState
      <3>2. CASE RejectLine(h)
        <4>1. Put(h, [d EXCEPT !.phase = "line", !.next = @ + 1, !.errs = 1])
          BY <3>2 DEF RejectLine
        <4>2. /\ [d EXCEPT !.phase = "line", !.next = @ + 1, !.errs = 1].phase = "line"
              /\ [d EXCEPT !.phase = "line", !.next = @ + 1, !.errs = 1].me = d.me
          BY <2>1 DEF LoadState
        <4> QED
          BY <4>1, <4>2
      <3>3. CASE /\ d.me # << >>
                 /\ \E oom \in Oom :
                      Put(h, [(IF oom THEN d ELSE AddEntry(d)) EXCEPT !.phase = "line"])
        <4>1. PICK c \in {d, AddEntry(d)} : Put(h, [c EXCEPT !.phase = "line"])
          BY <3>3
        <4>2. c \in LoadState
          BY <2>1, <4>1, AddEntryType
        <4>3. [c EXCEPT !.phase = "line"].phase = "line"
          BY <4>2 DEF LoadState
        <4> QED
          BY <3>3, <4>1, <4>3
      <3> QED
        BY <1>5, <3>1, <3>2, <3>3, Zenon DEF Parse, ParseGroup, ParseContinuation
    <2>4. load'[h] = e
      BY <1>0, <2>3 DEF Put, TypeOK
    <2>5. Covered(h)'
      BY <2>2, <2>3, <2>4 DEF Covered
    <2> QED
      BY <1>2, <1>5, <2>3, <2>5
  <1>6. ASSUME NEW h \in Handles, \A g \in Handles \ {h} : ~Loading(g), Finish(h)
        PROVE  SerialInv'
    <2>1. Put(h, Idle) /\ load'[h] = Idle
      BY <1>0, <1>6 DEF Finish, Put, TypeOK
    <2> QED
      BY <1>2, <1>6, <2>1 DEF Covered, Loading, Idle
  <1> QED
    BY <1>1, <1>3, <1>4, <1>5, <1>6 DEF SerialNext, Step, Done

\* When loads run one at a time, check_cond never indexes the level table beyond
\* its end, although the only test parse() makes is against a static variable
\* that the last line of the previous load left behind.
THEOREM SerialLevelInBounds == SerialSpec => []LevelInBounds
  <1>1. SerialInv => LevelInBounds
    BY DEF SerialInv
  <1> QED
    BY SerialInit, SerialStep, <1>1, PTL DEF SerialSpec

-----------------------------------------------------------------------------

\* A set of numbers has a least element: what an induction over the groups of a
\* set, or over the rules of a group, comes down to.
LEMMA Least ==
  ASSUME NEW S \in SUBSET Nat, S # {}
  PROVE  \E k \in S : \A j \in S : k <= j
  <1> DEFINE R == OpToRel(<, Nat)
  <1>1. \A x, y \in Nat : x < y => <<x, y>> \in R
    BY DEF OpToRel
  <1>2. IsWellFoundedOn(R, Nat)
    BY NatLessThanWellFounded
  <1> HIDE DEF R
  <1>3. PICK k \in S : \A j \in S : ~ (<<j, k>> \in R)
    BY <1>2, WFMin
  <1>4. \A j \in S : ~ (j < k) /\ j \in Nat /\ k \in Nat
    BY <1>1, <1>3
  <1> QED
    BY <1>4

\* What coalesce_entries has copied after each group.
Copied(seqs, n, array) ==
  array[0] = << >> /\ \A m \in 1..n : array[m] = array[m - 1] \o seqs[m]

\* Copying after each group is a function: the least number of groups that could
\* not be copied does not exist.
LEMMA CopiedExists ==
  ASSUME NEW T, NEW seqs \in Seq(Seq(T))
  PROVE  \E array \in [0..Len(seqs) -> Seq(T)] : Copied(seqs, Len(seqs), array)
  <1> DEFINE N == Len(seqs)
             Good(n) == \E array \in [0..n -> Seq(T)] : Copied(seqs, n, array)
             Bad == {n \in 0..N : ~Good(n)}
  <1>1. N \in Nat /\ \A n \in 1..N : seqs[n] \in Seq(T)
    OBVIOUS
  <1>2. Good(0)
    <2> DEFINE array == [m \in 0..0 |-> << >>]
    <2>1. << >> \in Seq(T)
      OBVIOUS
    <2>2. array \in [0..0 -> Seq(T)]
      BY <2>1
    <2>3. Copied(seqs, 0, array)
      BY DEF Copied
    <2> QED
      BY <2>2, <2>3
  <1>3. ASSUME NEW n \in 0..N, n # 0, Good(n - 1) PROVE Good(n)
    <2>1. n \in 1..N /\ n - 1 \in Nat
      BY <1>1, <1>3
    <2>2. PICK a \in [0..(n - 1) -> Seq(T)] : Copied(seqs, n - 1, a)
      BY <1>3
    <2> DEFINE array == [m \in 0..n |-> IF m = n THEN a[n - 1] \o seqs[n] ELSE a[m]]
    <2>3. a[n - 1] \o seqs[n] \in Seq(T)
      BY <1>1, <2>1, ConcatProperties
    <2>4. array \in [0..n -> Seq(T)]
      BY <2>1, <2>3
    <2>5. \A m \in 0..n : array[m] = IF m = n THEN a[n - 1] \o seqs[n] ELSE a[m]
      OBVIOUS
    <2> HIDE DEF array
    <2>6. array[0] = << >>
      BY <2>1, <2>2, <2>5 DEF Copied
    <2>7. ASSUME NEW m \in 1..n PROVE array[m] = array[m - 1] \o seqs[m]
      <3>1. m - 1 \in 0..n /\ m - 1 # n /\ m \in 0..n
        BY <2>1
      <3>2. array[m - 1] = a[m - 1]
        BY <2>5, <3>1
      <3>3. CASE m = n
        BY <2>5, <3>1, <3>2, <3>3
      <3>4. CASE m # n
        <4>1. m \in 1..(n - 1)
          BY <2>1, <3>4
        <4> QED
          BY <2>2, <2>5, <3>1, <3>2, <3>4, <4>1 DEF Copied
      <3> QED
        BY <3>3, <3>4
    <2> QED
      BY <2>4, <2>6, <2>7 DEF Copied
  <1> HIDE DEF Good
  <1>4. Bad = {}
    <2> SUFFICES ASSUME Bad # {} PROVE FALSE
      OBVIOUS
    <2>1. Bad \in SUBSET Nat
      OBVIOUS
    <2>2. PICK k \in Bad : \A j \in Bad : k <= j
      BY <2>1, Least
    <2>3. k # 0 /\ k \in 0..N /\ ~Good(k)
      BY <1>2, <2>2
    <2>4. k - 1 \in 0..N /\ ~(k <= k - 1)
      BY <1>1, <2>3
    <2>5. Good(k - 1)
      BY <2>2, <2>4
    <2> QED
      BY <1>3, <2>3, <2>5
  <1>5. Good(N)
    BY <1>1, <1>4
  <1> QED
    BY <1>5 DEF Good

\* Coalesced is the last of these arrays: its recursion defines them.
LEMMA CoalescedIsCopied ==
  ASSUME NEW T, NEW seqs \in Seq(Seq(T))
  PROVE  \E array \in [0..Len(seqs) -> Seq(T)] :
           Copied(seqs, Len(seqs), array) /\ Coalesced(seqs) = array[Len(seqs)]
  <1> DEFINE N == Len(seqs)
             Defines(f) == f = [n \in 0..N |-> IF n = 0 THEN << >> ELSE f[n - 1] \o seqs[n]]
  <1>1. PICK array \in [0..N -> Seq(T)] : Copied(seqs, N, array)
    BY CopiedExists
  <1>2. N \in Nat
    OBVIOUS
  <1>3. Defines(array)
    <2>1. array = [n \in 0..N |-> array[n]]
      OBVIOUS
    <2>a. array[0] = << >> /\ \A n \in 1..N : array[n] = array[n - 1] \o seqs[n]
      BY <1>1 DEF Copied
    <2>b. \A n \in 0..N : n = 0 \/ n \in 1..N
      BY <1>2
    <2> HIDE DEF N
    <2>2. \A n \in 0..N : array[n] = IF n = 0 THEN << >> ELSE array[n - 1] \o seqs[n]
      BY <2>a, <2>b, Zenon
    <2> QED
      BY <2>1, <2>2
  <1>4. PICK f : Defines(f) /\ Coalesced(seqs) = f[N]
    <2> DEFINE g == CHOOSE f : Defines(f)
    <2>1. Defines(g)
      BY <1>3, Zenon
    <2>2. Coalesced(seqs) = g[N]
      BY DEF Coalesced
    <2> HIDE DEF g
    <2> QED
      BY <2>1, <2>2, Zenon
  <1>5. \A n \in 0..N : f[n] = IF n = 0 THEN << >> ELSE f[n - 1] \o seqs[n]
    <2>1. f = [n \in 0..N |-> IF n = 0 THEN << >> ELSE f[n - 1] \o seqs[n]]
      BY <1>4
    <2> QED
      BY <2>1
  <1> DEFINE Bad == {n \in 0..N : f[n] # array[n]}
  <1> HIDE DEF Defines
  <1>6. Bad = {}
    <2> SUFFICES ASSUME Bad # {} PROVE FALSE
      OBVIOUS
    <2>1. Bad \in SUBSET Nat
      OBVIOUS
    <2>2. PICK k \in Bad : \A j \in Bad : k <= j
      BY <2>1, Least
    <2>3. k # 0 /\ k \in 0..N /\ f[k] # array[k]
      BY <1>1, <1>2, <1>5, <2>2 DEF Copied
    <2>4. k - 1 \in 0..N /\ ~(k <= k - 1) /\ k \in 1..N
      BY <1>2, <2>3
    <2>5. f[k - 1] = array[k - 1]
      BY <2>2, <2>4
    <2>6. f[k] = f[k - 1] \o seqs[k]
      BY <1>5, <2>3
    <2>7. array[k] = array[k - 1] \o seqs[k]
      BY <1>1, <2>4 DEF Copied
    <2> QED
      BY <2>3, <2>5, <2>6, <2>7
  <1>7. f[N] = array[N]
    BY <1>2, <1>6
  <1> QED
    BY <1>1, <1>4, <1>7

\* Where the rules of each group are in the array: after those of the groups
\* before it, offset[j - 1] rules.
Placed(seqs, array, offset) ==
  /\ offset[0] = 0 /\ offset[Len(seqs)] = Len(array)
  /\ \A j \in 1..Len(seqs) : offset[j] = offset[j - 1] + Len(seqs[j])
  /\ \A j, k \in 0..Len(seqs) : j <= k => offset[j] <= offset[k]
  /\ \A j \in 1..Len(seqs) : \A r \in 1..Len(seqs[j]) :
       /\ offset[j - 1] + r \in 1..Len(array)
       /\ array[offset[j - 1] + r] = seqs[j][r]
  /\ \A p \in 1..Len(array) :
       \E j \in 1..Len(seqs) : \E r \in 1..Len(seqs[j]) : p = offset[j - 1] + r

\* The same of the array after n of the groups.
PlacedUpTo(seqs, n, array, offset) ==
  /\ \A j \in 0..n : offset[j] <= Len(array)
  /\ \A j \in 1..n : \A r \in 1..Len(seqs[j]) :
       /\ offset[j - 1] + r \in 1..Len(array)
       /\ array[offset[j - 1] + r] = seqs[j][r]
  /\ \A p \in 1..Len(array) :
       \E j \in 1..n : \E r \in 1..Len(seqs[j]) : p = offset[j - 1] + r

\* One more group is copied to the end of the array.
LEMMA PlacedNext ==
  ASSUME NEW T, NEW seqs \in Seq(Seq(T)), NEW n \in 1..Len(seqs), NEW array \in Seq(T),
         NEW offset \in [0..Len(seqs) -> Nat], offset[n - 1] = Len(array),
         offset[n] = Len(array) + Len(seqs[n]),
         PlacedUpTo(seqs, n - 1, array, offset)
  PROVE  PlacedUpTo(seqs, n, array \o seqs[n], offset)
  <1> DEFINE next == array \o seqs[n]
             M == Len(array)
             L == Len(seqs[n])
  <1>1. seqs[n] \in Seq(T) /\ n \in Nat /\ n >= 1
    OBVIOUS
  <1>2. M \in Nat /\ L \in Nat
    BY <1>1
  <1>3. /\ Len(next) = M + L
        /\ \A i \in 1..(M + L) : next[i] = IF i <= M THEN array[i] ELSE seqs[n][i - M]
    BY <1>1, ConcatProperties
  <1>4. offset[n - 1] = M /\ offset[n] = M + L
    OBVIOUS
  <1>5. /\ \A j \in 0..(n - 1) : offset[j] <= M
        /\ \A j \in 1..(n - 1) : \A r \in 1..Len(seqs[j]) :
             offset[j - 1] + r \in 1..M /\ array[offset[j - 1] + r] = seqs[j][r]
        /\ \A p \in 1..M :
             \E j \in 1..(n - 1) : \E r \in 1..Len(seqs[j]) : p = offset[j - 1] + r
    BY DEF PlacedUpTo
  <1> HIDE DEF M, L, next
  <1>6. \A j \in 0..n : offset[j] <= Len(next)
    <2> SUFFICES ASSUME NEW j \in 0..n PROVE offset[j] <= M + L
      BY <1>3
    <2>1. Len(seqs) \in Nat
      OBVIOUS
    <2>2. j = n \/ (j \in 0..(n - 1) /\ j \in 0..Len(seqs))
      BY <1>1, <2>1
    <2>3. j \in 0..Len(seqs) => offset[j] \in Nat
      OBVIOUS
    <2>4. CASE j = n
      BY <1>2, <1>4, <2>4
    <2>5. CASE j \in 0..(n - 1) /\ j \in 0..Len(seqs)
      <3>1. offset[j] <= M
        BY <1>5, <2>5
      <3> QED
        BY <1>2, <2>3, <2>5, <3>1
    <2> QED
      BY <2>2, <2>4, <2>5
  <1>7. ASSUME NEW j \in 1..n, NEW r \in 1..Len(seqs[j])
        PROVE  /\ offset[j - 1] + r \in 1..Len(next)
               /\ next[offset[j - 1] + r] = seqs[j][r]
    <2>1. CASE j = n
      <3>1. offset[j - 1] = M /\ r \in 1..L
        BY <1>4, <2>1 DEF L
      <3>2. M + r \in 1..(M + L) /\ ~(M + r <= M) /\ (M + r) - M = r
        BY <1>2, <3>1
      <3> QED
        BY <1>3, <2>1, <3>1, <3>2
    <2>2. CASE j # n
      <3>1. j \in 1..(n - 1)
        BY <1>1, <2>2
      <3>2. offset[j - 1] + r \in 1..M /\ array[offset[j - 1] + r] = seqs[j][r]
        BY <1>5, <3>1
      <3>3. offset[j - 1] + r \in 1..(M + L) /\ offset[j - 1] + r <= M
        BY <1>2, <3>2
      <3> QED
        BY <1>3, <3>2, <3>3
    <2> QED
      BY <2>1, <2>2
  <1>8. ASSUME NEW p \in 1..Len(next)
        PROVE  \E j \in 1..n : \E r \in 1..Len(seqs[j]) : p = offset[j - 1] + r
    <2>1. CASE p <= M
      <3>1. p \in 1..M
        BY <1>2, <1>3, <2>1
      <3>2. PICK j \in 1..(n - 1) : \E r \in 1..Len(seqs[j]) : p = offset[j - 1] + r
        BY <1>5, <3>1
      <3>3. j \in 1..n
        BY <1>1
      <3> QED
        BY <3>2, <3>3
    <2>2. CASE ~(p <= M)
      <3>1. p - M \in 1..L /\ p = M + (p - M)
        BY <1>2, <1>3, <2>2
      <3>2. n \in 1..n
        BY <1>1
      <3> QED
        BY <1>4, <3>1, <3>2 DEF L
    <2> QED
      BY <2>1, <2>2
  <1>9. PlacedUpTo(seqs, n, next, offset)
    BY <1>6, <1>7, <1>8, Zenon DEF PlacedUpTo
  <1> QED
    BY <1>9 DEF next

\* coalesce_entries places each group of the set at its own offset, one after the
\* other.
LEMMA CoalescedPlaces ==
  ASSUME NEW T, NEW seqs \in Seq(Seq(T))
  PROVE  /\ Coalesced(seqs) \in Seq(T)
         /\ \E offset \in [0..Len(seqs) -> Nat] : Placed(seqs, Coalesced(seqs), offset)
  <1> DEFINE N == Len(seqs)
  <1>1. PICK array \in [0..N -> Seq(T)] :
          Copied(seqs, N, array) /\ Coalesced(seqs) = array[N]
    BY CoalescedIsCopied
  <1>2. N \in Nat /\ \A j \in 1..N : seqs[j] \in Seq(T) /\ Len(seqs[j]) \in Nat
    OBVIOUS
  <1> DEFINE offset == [n \in 0..N |-> Len(array[n])]
  <1>3. offset \in [0..N -> Nat] /\ \A n \in 0..N : offset[n] = Len(array[n])
    BY <1>1
  <1> HIDE DEF offset
  <1>4. offset[0] = 0
    <2>1. array[0] = << >> /\ 0 \in 0..N
      BY <1>1, <1>2 DEF Copied
    <2> QED
      BY <1>3, <2>1
  <1>5. ASSUME NEW n \in 1..N
        PROVE  /\ array[n] = array[n - 1] \o seqs[n] /\ n - 1 \in 0..N /\ n \in 0..N
               /\ offset[n] = offset[n - 1] + Len(seqs[n])
    <2>1. n - 1 \in 0..N /\ n \in 0..N
      BY <1>2
    <2>2. array[n] = array[n - 1] \o seqs[n]
      BY <1>1 DEF Copied
    <2>3. array[n - 1] \in Seq(T) /\ seqs[n] \in Seq(T)
      BY <1>1, <1>2, <2>1
    <2>4. Len(array[n]) = Len(array[n - 1]) + Len(seqs[n])
      BY <2>2, <2>3, ConcatProperties
    <2> QED
      BY <1>3, <2>1, <2>2, <2>4
  <1> DEFINE Good(n) == /\ PlacedUpTo(seqs, n, array[n], offset)
                        /\ \A j \in 0..n : offset[j] <= offset[n]
             Bad == {n \in 0..N : ~Good(n)}
  <1>6. Good(0)
    <2>1. array[0] = << >> /\ 0 \in 0..N
      BY <1>1, <1>2 DEF Copied
    <2>2. Len(array[0]) = 0
      BY <2>1
    <2>3. PlacedUpTo(seqs, 0, array[0], offset)
      BY <1>4, <2>2 DEF PlacedUpTo
    <2> QED
      BY <1>4, <2>3
  <1>7. ASSUME NEW n \in 1..N, Good(n - 1) PROVE Good(n)
    <2>1. n - 1 \in 0..N /\ array[n] = array[n - 1] \o seqs[n] /\ n \in 0..N
      BY <1>5
    <2>2. offset[n - 1] = Len(array[n - 1]) /\ array[n - 1] \in Seq(T)
      BY <1>1, <1>3, <2>1
    <2>3. offset[n] = Len(array[n - 1]) + Len(seqs[n])
      BY <1>5, <2>2
    <2>4. PlacedUpTo(seqs, n, array[n], offset)
      BY <1>3, <1>7, <2>1, <2>2, <2>3, PlacedNext
    <2>5. offset[n] = Len(array[n])
      BY <1>3, <2>1
    <2>6. \A j \in 0..n : offset[j] <= offset[n]
      BY <2>4, <2>5 DEF PlacedUpTo
    <2> QED
      BY <2>4, <2>6
  <1> HIDE DEF Good
  <1>8. Bad = {}
    <2> SUFFICES ASSUME Bad # {} PROVE FALSE
      OBVIOUS
    <2>1. Bad \in SUBSET Nat
      OBVIOUS
    <2>2. PICK k \in Bad : \A j \in Bad : k <= j
      BY <2>1, Least
    <2>3. k # 0 /\ k \in 0..N /\ ~Good(k)
      BY <1>6, <2>2
    <2>4. k - 1 \in 0..N /\ ~(k <= k - 1) /\ k \in 1..N
      BY <1>2, <2>3
    <2>5. Good(k - 1)
      BY <2>2, <2>4
    <2> QED
      BY <1>7, <2>3, <2>4, <2>5
  <1>9. \A n \in 0..N : Good(n)
    BY <1>8
  <1>10. \A j, k \in 0..N : j <= k => offset[j] <= offset[k]
    <2> SUFFICES ASSUME NEW j \in 0..N, NEW k \in 0..N, j <= k
                 PROVE  offset[j] <= offset[k]
      OBVIOUS
    <2>1. j \in 0..k
      BY <1>2
    <2> QED
      BY <1>9, <2>1 DEF Good
  <1>11. N \in 0..N /\ offset[N] = Len(array[N]) /\ array[N] \in Seq(T)
    BY <1>1, <1>2, <1>3
  <1>12. PlacedUpTo(seqs, N, array[N], offset)
    BY <1>9, <1>11 DEF Good
  <1>13. Placed(seqs, array[N], offset)
    BY <1>4, <1>5, <1>10, <1>11, <1>12, Zenon DEF Placed, PlacedUpTo
  <1> QED
    BY <1>1, <1>3, <1>11, <1>13

\* A group as parse() builds it: its first rule is of level 0, the others are not.
Proper(group) ==
  group # << >> /\ group[1].level = 0 /\ \A r \in 2..Len(group) : group[r].level > 0

\* The positions one of which follows the group that begins at i.
After(array, i) == {k \in Starts(array) : k > i} \cup {Len(array) + 1}

\* The interpreter's group ends before the next rule of level 0.
LEMMA GroupAtIs ==
  ASSUME NEW array, NEW i \in Int, NEW b \in Int,
         b + 1 \in After(array, i),
         \A m \in After(array, i) : m \in Int /\ b + 1 <= m
  PROVE  GroupAt(array, i) = SubSeq(array, i, b)
  <1> DEFINE after == After(array, i)
             next == CHOOSE k \in after : \A m \in after : k <= m
  <1>1. b + 1 \in after /\ \A m \in after : m \in Int /\ b + 1 <= m
    OBVIOUS
  <1>2. GroupAt(array, i) = SubSeq(array, i, next - 1)
    BY DEF GroupAt, After
  <1> HIDE DEF after
  <1>3. next \in after /\ \A m \in after : next <= m
    BY <1>1
  <1> HIDE DEF next
  <1>4. next <= b + 1 /\ b + 1 <= next /\ next \in Int
    BY <1>1, <1>3
  <1>5. next - 1 = b
    BY <1>4
  <1> QED
    BY <1>2, <1>5

\* The rules of level 0 of the array are the first rules of the groups.
LEMMA PlacedStarts ==
  ASSUME NEW seqs \in Seq(Seq(Rules)), \A j \in 1..Len(seqs) : Proper(seqs[j]),
         NEW array \in Seq(Rules), NEW offset \in [0..Len(seqs) -> Nat],
         Placed(seqs, array, offset)
  PROVE  Starts(array) = {offset[j - 1] + 1 : j \in 1..Len(seqs)}
  <1> DEFINE N == Len(seqs)
  <1>1. \A j \in 1..N : Len(seqs[j]) \in Nat /\ 1 \in 1..Len(seqs[j])
    BY DEF Proper
  <1>2. ASSUME NEW p \in Starts(array) PROVE \E j \in 1..N : p = offset[j - 1] + 1
    <2>1. p \in 1..Len(array) /\ array[p].level = 0
      BY DEF Starts
    <2>2. PICK j \in 1..N : \E r \in 1..Len(seqs[j]) : p = offset[j - 1] + r
      BY <2>1 DEF Placed
    <2>3. PICK r \in 1..Len(seqs[j]) : p = offset[j - 1] + r
      BY <2>2
    <2>4. seqs[j][r].level = 0
      <3>1. array[offset[j - 1] + r] = seqs[j][r]
        BY <2>2, <2>3 DEF Placed
      <3> QED
        BY <2>1, <2>3, <3>1
    <2>5. r = 1
      <3>1. r = 1 \/ r \in 2..Len(seqs[j])
        BY <1>1
      <3>2. \A q \in 2..Len(seqs[j]) : seqs[j][q].level > 0
        BY DEF Proper
      <3> QED
        BY <2>4, <3>1, <3>2
    <2> QED
      BY <2>3, <2>5
  <1>3. ASSUME NEW j \in 1..N PROVE offset[j - 1] + 1 \in Starts(array)
    <2>1. seqs[j][1].level = 0 /\ 1 \in 1..Len(seqs[j])
      BY <1>1 DEF Proper
    <2>2. offset[j - 1] + 1 \in 1..Len(array) /\ array[offset[j - 1] + 1] = seqs[j][1]
      BY <2>1 DEF Placed
    <2>3. DOMAIN array = 1..Len(array)
      OBVIOUS
    <2> QED
      BY <2>1, <2>2, <2>3 DEF Starts
  <1> HIDE DEF N
  <1>4. \A p \in Starts(array) : p \in {offset[j - 1] + 1 : j \in 1..N}
    BY <1>2
  <1>5. \A p \in {offset[j - 1] + 1 : j \in 1..N} : p \in Starts(array)
    BY <1>3
  <1>6. Starts(array) = {offset[j - 1] + 1 : j \in 1..N}
    BY <1>4, <1>5, Zenon
  <1> QED
    BY <1>6 DEF N

LEMMA CoalescedStarts ==
  ASSUME NEW seqs \in Seq(Seq(Rules)), \A j \in 1..Len(seqs) : Proper(seqs[j])
  PROVE  \E offset \in [0..Len(seqs) -> Nat] :
           /\ Placed(seqs, Coalesced(seqs), offset)
           /\ Starts(Coalesced(seqs)) = {offset[j - 1] + 1 : j \in 1..Len(seqs)}
  <1> DEFINE array == Coalesced(seqs)
  <1>1. array \in Seq(Rules) /\ \E offset \in [0..Len(seqs) -> Nat] : Placed(seqs, array, offset)
    BY CoalescedPlaces
  <1> HIDE DEF array
  <1>2. PICK offset \in [0..Len(seqs) -> Nat] : Placed(seqs, array, offset)
    BY <1>1
  <1>3. Starts(array) = {offset[j - 1] + 1 : j \in 1..Len(seqs)}
    BY <1>1, <1>2, PlacedStarts
  <1> QED
    BY <1>2, <1>3 DEF array

\* What a piece of a sequence of rules is.
LEMMA SubSeqRules ==
  ASSUME NEW array, NEW i \in Nat, NEW b \in Nat, \A k \in i..b : array[k] \in Rules
  PROVE  /\ SubSeq(array, i, b) \in Seq(Rules)
         /\ Len(SubSeq(array, i, b)) = IF i <= b THEN b - i + 1 ELSE 0
         /\ \A r \in 1..(b - i + 1) : SubSeq(array, i, b)[r] = array[i + r - 1]
  BY SubSeqProperties

\* What the interpreter takes for a group, from one rule of level 0 to the next, is
\* the group that was placed there.
LEMMA PlacedGroup ==
  ASSUME NEW seqs \in Seq(Seq(Rules)), \A j \in 1..Len(seqs) : Proper(seqs[j]),
         NEW array \in Seq(Rules), NEW offset \in [0..Len(seqs) -> Nat],
         Placed(seqs, array, offset), NEW j \in 1..Len(seqs)
  PROVE  GroupAt(array, offset[j - 1] + 1) = seqs[j]
  <1> DEFINE N == Len(seqs)
             i == offset[j - 1] + 1
             b == offset[j]
             L == Len(seqs[j])
  <1>1. N \in Nat /\ j - 1 \in 0..N /\ j \in 0..N /\ Len(array) \in Nat
    OBVIOUS
  <1>2. seqs[j] \in Seq(Rules) /\ L \in Nat /\ L >= 1
    BY DEF Proper
  <1>a. \A n \in 0..N : offset[n] \in Nat
    OBVIOUS
  <1>3. i \in Nat /\ b \in Nat
    <2>1. offset[j - 1] \in Nat /\ offset[j] \in Nat
      BY <1>1, <1>a
    <2> QED
      BY <2>1
  <1>4. b = i - 1 + L
    <2>1. offset[j] = offset[j - 1] + L
      BY DEF Placed
    <2>2. offset[j - 1] \in Nat
      BY <1>1, <1>a
    <2> HIDE DEF L
    <2> QED
      BY <1>2, <2>1, <2>2
  <1>5. Starts(array) = {offset[k - 1] + 1 : k \in 1..N}
    BY PlacedStarts
  <1>6. b + 1 \in After(array, i)
    <2>1. CASE j = N
      BY <2>1 DEF Placed, After
    <2>2. CASE j # N
      <3>1. j + 1 \in 1..N /\ (j + 1) - 1 = j
        BY <1>1, <2>2
      <3>2. offset[(j + 1) - 1] + 1 \in Starts(array)
        BY <1>5, <3>1
      <3>3. b + 1 \in Starts(array)
        BY <3>1, <3>2
      <3> HIDE DEF b, i, L
      <3>4. b + 1 > i
        BY <1>2, <1>3, <1>4
      <3> QED
        BY <3>3, <3>4 DEF After
    <2> QED
      BY <2>1, <2>2
  <1>7. ASSUME NEW m \in After(array, i)
        PROVE  m \in Int /\ b + 1 <= m
    <2>1. CASE m = Len(array) + 1
      <3>1. offset[j] <= offset[N] /\ offset[N] = Len(array)
        BY <1>1 DEF Placed
      <3> HIDE DEF N
      <3> QED
        BY <1>1, <1>3, <2>1, <3>1
    <2>2. CASE m \in Starts(array) /\ m > i
      <3>1. PICK k \in 1..N : m = offset[k - 1] + 1
        BY <1>5, <2>2
      <3>2. k - 1 \in 0..N /\ offset[k - 1] \in Nat
        <4>1. k - 1 \in 0..N
          BY <1>1
        <4> QED
          BY <1>a, <4>1
      <3>3. CASE j <= k - 1
        <4>1. offset[j] <= offset[k - 1]
          BY <1>1, <3>2, <3>3 DEF Placed
        <4> QED
          BY <1>3, <3>1, <3>2, <4>1
      <3>4. CASE ~(j <= k - 1)
        <4>1. k - 1 <= j - 1
          BY <1>1, <3>4
        <4>2. offset[k - 1] <= offset[j - 1]
          BY <1>1, <3>2, <4>1 DEF Placed
        <4>3. ~(m > i)
          <5>1. offset[j - 1] \in Nat
            BY <1>1, <1>a
          <5> QED
            BY <3>1, <3>2, <4>2, <5>1
        <4> QED
          BY <2>2, <4>3
      <3> QED
        BY <3>3, <3>4
    <2> QED
      BY <2>1, <2>2 DEF After
  <1>8. GroupAt(array, i) = SubSeq(array, i, b)
    <2> HIDE DEF i, b
    <2> QED
      <3>1. i \in Int /\ b \in Int
        BY <1>3
      <3> QED
        BY <1>6, <1>7, <3>1, GroupAtIs, Zenon
  <1>9. \A r \in 1..L : i - 1 + r \in 1..Len(array) /\ array[i - 1 + r] = seqs[j][r]
    <2>1. \A r \in 1..L : offset[j - 1] + r \in 1..Len(array) /\ array[offset[j - 1] + r] = seqs[j][r]
      BY DEF Placed
    <2>2. offset[j - 1] = i - 1
      <3>1. offset[j - 1] \in Nat
        BY <1>1, <1>a
      <3> QED
        BY <3>1
    <2> HIDE DEF i
    <2> QED
      BY <2>1, <2>2
  <1> HIDE DEF i, b, L
  <1>10. \A k \in i..b : array[k] \in Rules
    <2> SUFFICES ASSUME NEW k \in i..b PROVE array[k] \in Rules
      OBVIOUS
    <2>1. k - i + 1 \in 1..L /\ i - 1 + (k - i + 1) = k
      BY <1>2, <1>3, <1>4
    <2>2. k \in 1..Len(array)
      BY <1>9, <2>1
    <2> QED
      BY <2>2
  <1> DEFINE group == SubSeq(array, i, b)
  <1>11. /\ group \in Seq(Rules) /\ Len(group) = IF i <= b THEN b - i + 1 ELSE 0
         /\ \A r \in 1..(b - i + 1) : group[r] = array[i + r - 1]
    BY <1>3, <1>10, SubSeqRules
  <1>12. Len(group) = L /\ L = b - i + 1
    BY <1>2, <1>3, <1>4, <1>11
  <1>13. \A r \in 1..L : group[r] = seqs[j][r]
    <2> SUFFICES ASSUME NEW r \in 1..L PROVE group[r] = seqs[j][r]
      OBVIOUS
    <2>1. group[r] = array[i + r - 1]
      BY <1>11, <1>12
    <2>2. i + r - 1 = i - 1 + r
      BY <1>2, <1>3
    <2> QED
      BY <1>9, <2>1, <2>2
  <1> HIDE DEF group
  <1>14. group = seqs[j]
    <2>1. Len(group) = Len(seqs[j])
      BY <1>12 DEF L
    <2>2. \A r \in 1..Len(group) : group[r] = seqs[j][r]
      BY <1>12, <1>13
    <2> QED
      BY <1>2, <1>11, <2>1, <2>2, SeqEqual
  <1> QED
    BY <1>8, <1>14 DEF group, i

\* The interpreter finds in the array the groups it was made of, and no other.
LEMMA StoredAreGroups ==
  ASSUME NEW seqs \in Seq(Seq(Rules)), \A j \in 1..Len(seqs) : Proper(seqs[j])
  PROVE  /\ StoredGroups(Coalesced(seqs)) = {seqs[j] : j \in 1..Len(seqs)}
         /\ Coalesced(seqs) # << >> => 1 \in Starts(Coalesced(seqs))
  <1> DEFINE array == Coalesced(seqs)
             N == Len(seqs)
  <1>1. array \in Seq(Rules) /\ \E offset \in [0..N -> Nat] : Placed(seqs, array, offset)
    BY CoalescedPlaces
  <1> HIDE DEF array
  <1>2. PICK offset \in [0..N -> Nat] : Placed(seqs, array, offset)
    BY <1>1
  <1>3. Starts(array) = {offset[j - 1] + 1 : j \in 1..N}
    BY <1>1, <1>2, PlacedStarts
  <1>4. \A j \in 1..N : GroupAt(array, offset[j - 1] + 1) = seqs[j]
    BY <1>1, <1>2, PlacedGroup
  <1>5. StoredGroups(array) = {seqs[j] : j \in 1..N}
    <2>1. \A g \in StoredGroups(array) : \E j \in 1..N : g = seqs[j]
      BY <1>3, <1>4 DEF StoredGroups
    <2>2. \A j \in 1..N : seqs[j] \in StoredGroups(array)
      BY <1>3, <1>4 DEF StoredGroups
    <2> QED
      BY <2>1, <2>2
  <1>6. ASSUME array # << >> PROVE 1 \in Starts(array)
    <2>1. Len(array) \in Nat /\ 1 \in 1..Len(array)
      BY <1>1, <1>6
    <2>2. PICK j \in 1..N : TRUE
      BY <1>2, <2>1 DEF Placed
    <2>3. 1 \in 1..N /\ offset[1 - 1] = 0
      BY <1>2, <2>2 DEF Placed
    <2>4. offset[1 - 1] + 1 \in Starts(array)
      BY <1>3, <2>3
    <2> QED
      BY <2>3, <2>4
  <1> QED
    BY <1>5, <1>6 DEF array

-----------------------------------------------------------------------------
\* Sorting moves the groups and changes none.
Moved(groups, sorted, p) ==
  /\ p \in [1..Len(groups) -> 1..Len(groups)] /\ Len(sorted) = Len(groups)
  /\ \A i \in 1..Len(groups) : sorted[i] = groups[p[i]]
  /\ \A i, j \in 1..Len(groups) : p[i] = p[j] => i = j
  /\ \A j \in 1..Len(groups) : \E i \in 1..Len(groups) : p[i] = j

\* qsort moves each group to one place.
LEMMA SortedMoves ==
  ASSUME NEW T, NEW groups \in Seq(Seq(T)), NEW sorted \in Sorted(groups)
  PROVE  /\ sorted \in Seq(Seq(T))
         /\ \E p : Moved(groups, sorted, p)
  <1> DEFINE N == Len(groups)
             Right(q) == \A i, j \in DOMAIN groups : i < j => Comes(groups[q[i]], groups[q[j]])
  <1>1. DOMAIN groups = 1..N /\ N \in Nat /\ groups \in [1..N -> Seq(T)]
    OBVIOUS
  <1>2. PICK p \in {q \in Bijection(DOMAIN groups, DOMAIN groups) : Right(q)} :
          sorted = [i \in DOMAIN groups |-> groups[p[i]]]
    BY Zenon DEF Sorted
  <1> HIDE DEF Right
  <1>3. p \in Bijection(1..N, 1..N)
    BY <1>1, <1>2
  <1>4. /\ p \in [1..N -> 1..N]
        /\ \A i, j \in 1..N : p[i] = p[j] => i = j
        /\ \A j \in 1..N : \E i \in 1..N : p[i] = j
    BY <1>3 DEF Bijection, Injection, Surjection, IsInjective
  <1>5. sorted = [i \in 1..N |-> groups[p[i]]]
    BY <1>1, <1>2
  <1> HIDE DEF N
  <1>6. sorted \in [1..N -> Seq(T)]
    BY <1>1, <1>4, <1>5
  <1>7. sorted \in Seq(Seq(T)) /\ Len(sorted) = N
    BY <1>1, <1>6
  <1>8. \A i \in 1..N : sorted[i] = groups[p[i]]
    BY <1>5
  <1> QED
    BY <1>4, <1>7, <1>8 DEF Moved, N

\* k is the line of the first rule of the group that line n belongs to.
IsHead(text, n, k) ==
  /\ k \in 1..n /\ text[k].kind = "rule" /\ text[k].level = 0
  /\ \A m \in (k + 1)..n : text[m].kind = "rule" => text[m].level > 0

\* A line has at most one rule of level 0 that it goes with.
LEMMA OneHead ==
  ASSUME NEW text, NEW n \in Nat, NEW k, NEW m, IsHead(text, n, k), IsHead(text, n, m)
  PROVE  k = m
  <1>1. k \in 1..n /\ m \in 1..n
    BY DEF IsHead
  <1>2. k \notin (m + 1)..n /\ m \notin (k + 1)..n
    BY DEF IsHead
  <1> QED
    BY <1>1, <1>2

\* A line that is no rule of level 0 belongs to the group of the line before.
LEMMA HeadStays ==
  ASSUME NEW text, NEW n \in Nat, NEW k, IsHead(text, n - 1, k),
         text[n].kind = "rule" => text[n].level > 0
  PROVE  IsHead(text, n, k)
  <1>1. k \in 1..(n - 1) /\ k \in 1..n
    BY DEF IsHead
  <1>2. \A m \in (k + 1)..n : m = n \/ m \in (k + 1)..(n - 1)
    BY <1>1
  <1> QED
    BY <1>1, <1>2 DEF IsHead

\* The line a group begins with.
StartOf(group) == group[1].line

\* A group that was made of lines of the text, as far as it has been read.
OfText(text, seen, group) ==
  /\ group \in Seq(Rules) /\ Proper(group)
  /\ \A r \in 1..Len(group) :
       /\ group[r].line \in 1..seen
       /\ text[group[r].line].kind = "rule"
       /\ IsHead(text, group[r].line, StartOf(group))
  /\ \A q, r \in 1..Len(group) : q < r => group[q].line < group[r].line

\* The groups filed in the two sets, and these with the pending one.
Filed(sets) ==
  {sets[1][i] : i \in 1..Len(sets[1])} \cup {sets[2][i] : i \in 1..Len(sets[2])}
AllGroups(d) == Filed(d.sets) \cup {g \in {d.me} : g # << >>}

\* No two groups of the sets begin with the same line.
Apart(sets) ==
  \A s, t \in {1, 2} : \A i \in 1..Len(sets[s]), j \in 1..Len(sets[t]) :
    StartOf(sets[s][i]) = StartOf(sets[t][j]) => s = t /\ i = j

LEMMA ApartFrom ==
  ASSUME NEW sets, Apart(sets), NEW s \in {1, 2}, NEW t \in {1, 2},
         NEW i \in 1..Len(sets[s]), NEW j \in 1..Len(sets[t]),
         StartOf(sets[s][i]) = StartOf(sets[t][j])
  PROVE  s = t /\ i = j
  BY DEF Apart

\* The named groups are in the second set.
NamesApart(sets) ==
  /\ \A i \in 1..Len(sets[1]) : sets[1][i][1].test.type # "name"
  /\ \A i \in 1..Len(sets[2]) : sets[2][i][1].test.type = "name"

\* Line n annotates the group.
Annotates(text, n, group) ==
  IsHead(text, n, StartOf(group)) /\ group[1].factor = text[n].factor
IsAnnotation(line) == line.kind = "strength" /\ line.factor.op # "none"

\* Every line up to the one the load stands on is where it belongs.
TextOK(d) ==
  /\ \A g \in AllGroups(d) : OfText(d.text, d.next - 1, g)
  /\ \A n \in 1..(d.next - 1) :
       d.text[n].kind = "rule" => \E g \in AllGroups(d) : n \in LinesOf(g)
  /\ \A n \in 1..(d.next - 1) :
       IsAnnotation(d.text[n]) => \E g \in AllGroups(d) : Annotates(d.text, n, g)
  /\ Apart(d.sets) /\ NamesApart(d.sets)
  /\ d.me # << >> => /\ \A g \in Filed(d.sets) : StartOf(g) # StartOf(d.me)
                     /\ IsHead(d.text, d.next - 1, StartOf(d.me))

\* Different groups begin with different lines.
LEMMA GroupsApart ==
  ASSUME NEW d \in LoadState, TextOK(d), NEW g \in AllGroups(d), NEW f \in AllGroups(d),
         StartOf(g) = StartOf(f)
  PROVE  g = f
  <1>1. CASE g \in Filed(d.sets) /\ f \in Filed(d.sets)
    <2>1. ASSUME NEW x \in Filed(d.sets)
          PROVE  \E s \in {1, 2} : \E i \in 1..Len(d.sets[s]) : x = d.sets[s][i]
      BY DEF Filed
    <2>2a. PICK s \in {1, 2} : \E i \in 1..Len(d.sets[s]) : g = d.sets[s][i]
      BY <1>1, <2>1
    <2>2. PICK i \in 1..Len(d.sets[s]) : g = d.sets[s][i]
      BY <2>2a
    <2>3a. PICK t \in {1, 2} : \E j \in 1..Len(d.sets[t]) : f = d.sets[t][j]
      BY <1>1, <2>1
    <2>3. PICK j \in 1..Len(d.sets[t]) : f = d.sets[t][j]
      BY <2>3a
    <2>4. Apart(d.sets)
      BY DEF TextOK
    <2>5. s = t /\ i = j
      BY <2>2, <2>3, <2>4, ApartFrom
    <2> QED
      BY <2>2, <2>3, <2>5
  <1>2. CASE g \notin Filed(d.sets) \/ f \notin Filed(d.sets)
    BY <1>2 DEF TextOK, AllGroups
  <1> QED
    BY <1>1, <1>2

\* Filing the pending group.
LEMMA FiledAll ==
  ASSUME NEW d \in LoadState, TextOK(d), d.me # << >>
  PROVE  /\ AddTo(d.sets, d.me) \in [{1, 2} -> Groups]
         /\ Filed(AddTo(d.sets, d.me)) = AllGroups(d)
         /\ Apart(AddTo(d.sets, d.me)) /\ NamesApart(AddTo(d.sets, d.me))
  <1> DEFINE s == SetOf(d.me)
             sets == AddTo(d.sets, d.me)
  <1>1. s \in {1, 2} /\ (s = 2 <=> d.me[1].test.type = "name")
    BY DEF SetOf
  <1>2. d.sets \in [{1, 2} -> Groups] /\ d.me \in Seq(Rules)
    BY DEF LoadState
  <1> HIDE DEF s
  <1>3. /\ sets[s] = Append(d.sets[s], d.me)
        /\ \A t \in {1, 2} \ {s} : sets[t] = d.sets[t]
        /\ sets \in [{1, 2} -> Groups]
    <2>1. sets = [d.sets EXCEPT ![s] = Append(d.sets[s], d.me)]
      BY DEF AddTo, s
    <2> HIDE DEF sets
    <2>2. Append(d.sets[s], d.me) \in Groups
      BY <1>1, <1>2 DEF Groups
    <2> QED
      BY <1>1, <1>2, <2>1, <2>2
  <1> HIDE DEF sets
  <1> DEFINE L == Len(d.sets[s])
  <1>4. /\ L \in Nat /\ Len(sets[s]) = L + 1
        /\ \A i \in 1..L : sets[s][i] = d.sets[s][i]
        /\ sets[s][L + 1] = d.me
    <2>1. d.sets[s] \in Seq(Seq(Rules))
      BY <1>1, <1>2 DEF Groups
    <2> QED
      BY <1>2, <1>3, <2>1, AppendProperties
  <1> HIDE DEF L
  <1>5. \A i \in 1..(L + 1) : i = L + 1 \/ i \in 1..L
    BY <1>4
  <1>6. \A i \in 1..L : i \in 1..(L + 1)
    BY <1>4
  <1>7. L + 1 \in 1..(L + 1)
    BY <1>4
  <1>8. ASSUME NEW t \in {1, 2}, NEW i \in 1..Len(sets[t])
        PROVE  \/ i \in 1..Len(d.sets[t]) /\ sets[t][i] = d.sets[t][i]
               \/ t = s /\ i = L + 1 /\ sets[t][i] = d.me
    <2>1. CASE t = s
      BY <1>4, <1>5, <2>1 DEF L
    <2>2. CASE t # s
      BY <1>3, <2>2
    <2> QED
      BY <2>1, <2>2
  <1>9. ASSUME NEW t \in {1, 2}, NEW i \in 1..Len(d.sets[t])
        PROVE  i \in 1..Len(sets[t]) /\ sets[t][i] = d.sets[t][i]
    <2>1. CASE t = s
      BY <1>4, <1>6, <2>1 DEF L
    <2>2. CASE t # s
      BY <1>3, <2>2
    <2> QED
      BY <2>1, <2>2
  <1>10. L + 1 \in 1..Len(sets[s]) /\ sets[s][L + 1] = d.me
    BY <1>4, <1>7
  <1>11. Filed(sets) = AllGroups(d)
    <2>1. \A S : \A x : x \in Filed(S) <=> \E t \in {1, 2} : \E i \in 1..Len(S[t]) : x = S[t][i]
      BY DEF Filed
    <2>2. ASSUME NEW x \in Filed(sets) PROVE x \in AllGroups(d)
      <3>1a. PICK t \in {1, 2} : \E i \in 1..Len(sets[t]) : x = sets[t][i]
        BY <2>1, <2>2
      <3>1. PICK i \in 1..Len(sets[t]) : x = sets[t][i]
        BY <3>1a
      <3>2. x \in Filed(d.sets) \/ x = d.me
        BY <1>8, <2>1, <3>1
      <3> QED
        BY <3>2 DEF AllGroups
    <2>3. ASSUME NEW x \in AllGroups(d) PROVE x \in Filed(sets)
      <3>1. x \in Filed(d.sets) \/ x = d.me
        BY <2>3 DEF AllGroups
      <3>2. CASE x \in Filed(d.sets)
        <4>1a. PICK t \in {1, 2} : \E i \in 1..Len(d.sets[t]) : x = d.sets[t][i]
          BY <2>1, <3>2
        <4>1. PICK i \in 1..Len(d.sets[t]) : x = d.sets[t][i]
          BY <4>1a
        <4> QED
          BY <1>9, <2>1, <4>1
      <3>3. CASE x = d.me
        BY <1>1, <1>10, <2>1, <3>3
      <3> QED
        BY <3>1, <3>2, <3>3
    <2> QED
      BY <2>2, <2>3
  <1>12. Apart(sets)
    <2>1. \A t \in {1, 2} : \A i \in 1..Len(d.sets[t]) : StartOf(d.sets[t][i]) # StartOf(d.me)
      <3>1. \A t \in {1, 2} : \A i \in 1..Len(d.sets[t]) : d.sets[t][i] \in Filed(d.sets)
        BY DEF Filed
      <3> QED
        BY <3>1 DEF TextOK
    <2>2. ASSUME NEW t \in {1, 2}, NEW u \in {1, 2},
                 NEW i \in 1..Len(sets[t]), NEW j \in 1..Len(sets[u]),
                 StartOf(sets[t][i]) = StartOf(sets[u][j])
          PROVE  t = u /\ i = j
      <3>1. CASE i \in 1..Len(d.sets[t]) /\ sets[t][i] = d.sets[t][i]
        <4>1. CASE j \in 1..Len(d.sets[u]) /\ sets[u][j] = d.sets[u][j]
          <5>1. StartOf(d.sets[t][i]) = StartOf(d.sets[u][j])
            BY <2>2, <3>1, <4>1
          <5>2. Apart(d.sets)
            BY DEF TextOK
          <5> QED
            BY <3>1, <4>1, <5>1, <5>2, ApartFrom
        <4>2. CASE sets[u][j] = d.me
          BY <2>1, <2>2, <3>1, <4>2
        <4> QED
          BY <1>8, <4>1, <4>2
      <3>2. CASE t = s /\ i = L + 1 /\ sets[t][i] = d.me
        <4>1. CASE j \in 1..Len(d.sets[u]) /\ sets[u][j] = d.sets[u][j]
          BY <2>1, <2>2, <3>2, <4>1
        <4>2. CASE u = s /\ j = L + 1 /\ sets[u][j] = d.me
          BY <3>2, <4>2
        <4> QED
          BY <1>8, <4>1, <4>2
      <3> QED
        BY <1>8, <3>1, <3>2
    <2> QED
      BY <2>2 DEF Apart
  <1>13. NamesApart(sets)
    <2>1. \A i \in 1..Len(sets[1]) : sets[1][i][1].test.type # "name"
      BY <1>1, <1>8 DEF TextOK, NamesApart
    <2>2. \A i \in 1..Len(sets[2]) : sets[2][i][1].test.type = "name"
      BY <1>1, <1>8 DEF TextOK, NamesApart
    <2> QED
      BY <2>1, <2>2 DEF NamesApart
  <1> QED
    BY <1>3, <1>11, <1>12, <1>13 DEF sets

LEMMA OfTextLater ==
  ASSUME NEW text, NEW seen \in Nat, NEW group, OfText(text, seen, group)
  PROVE  OfText(text, seen + 1, group)
  BY DEF OfText

\* One more line is read while a group is pending, or begins.
Grows(d, e) ==
  /\ e.text = d.text /\ e.sets = d.sets /\ e.next = d.next + 1
  /\ e.me # << >> /\ OfText(d.text, d.next, e.me)
  /\ LinesOf(d.me) \subseteq LinesOf(e.me)
  /\ d.text[d.next].kind = "rule" => d.next \in LinesOf(e.me)
  /\ StartOf(e.me) = IF d.me = << >> THEN d.next ELSE StartOf(d.me)
  /\ IsHead(d.text, d.next, StartOf(e.me))
  /\ IsAnnotation(d.text[d.next]) => e.me[1].factor = d.text[d.next].factor
  /\ d.me = << >> \/ e.me[1].factor = d.me[1].factor \/ d.me[1].factor.op = "none"

\* A line that is read while a group is pending goes with that group.
LEMMA GrowsOK ==
  ASSUME NEW d \in LoadState, TextOK(d), NEW e, Grows(d, e)
  PROVE  TextOK(e)
  <1>1. d.next \in Nat /\ d.next >= 1 /\ d.next - 1 \in Nat /\ (d.next - 1) + 1 = d.next
    BY DEF LoadState
  <1>2. /\ e.text = d.text /\ e.sets = d.sets /\ e.next - 1 = d.next /\ e.me # << >>
        /\ StartOf(e.me) = IF d.me = << >> THEN d.next ELSE StartOf(d.me)
        /\ IsHead(d.text, d.next, StartOf(e.me))
    BY <1>1 DEF Grows
  <1>3. AllGroups(e) = Filed(d.sets) \cup {e.me}
    BY <1>2 DEF AllGroups
  <1>4. \A n \in 1..d.next : n = d.next \/ n \in 1..(d.next - 1)
    BY <1>1
  <1>5. \A g \in AllGroups(d) : g \in Filed(d.sets) \/ (g = d.me /\ d.me # << >>)
    BY DEF AllGroups
  <1>6. \A g \in Filed(d.sets) : g \in AllGroups(d)
    BY DEF AllGroups
  <1>7. \A g \in AllGroups(e) : OfText(d.text, d.next, g)
    <2>1. ASSUME NEW g \in Filed(d.sets) PROVE OfText(d.text, d.next, g)
      <3>1. OfText(d.text, d.next - 1, g)
        BY <1>6 DEF TextOK
      <3> QED
        BY <1>1, <3>1, OfTextLater
    <2>2. OfText(d.text, d.next, e.me)
      BY DEF Grows
    <2> QED
      BY <1>3, <2>1, <2>2
  <1>8. ASSUME NEW n \in 1..d.next, d.text[n].kind = "rule"
        PROVE  \E g \in AllGroups(e) : n \in LinesOf(g)
    <2>1. CASE n = d.next
      <3>1. n \in LinesOf(e.me)
        BY <1>8, <2>1 DEF Grows
      <3> QED
        BY <1>3, <3>1
    <2>2. CASE n \in 1..(d.next - 1)
      <3>1. PICK g \in AllGroups(d) : n \in LinesOf(g)
        BY <1>8, <2>2 DEF TextOK
      <3>2. CASE g \in Filed(d.sets)
        BY <1>3, <3>1, <3>2
      <3>3. CASE g = d.me
        <4>1. n \in LinesOf(e.me)
          BY <3>1, <3>3 DEF Grows
        <4> QED
          BY <1>3, <4>1
      <3> QED
        BY <1>5, <3>2, <3>3
    <2> QED
      BY <1>4, <2>1, <2>2
  <1>9. ASSUME NEW n \in 1..d.next, IsAnnotation(d.text[n])
        PROVE  \E g \in AllGroups(e) : Annotates(d.text, n, g)
    <2>1. CASE n = d.next
      <3>1. Annotates(d.text, n, e.me)
        BY <1>2, <1>9, <2>1 DEF Annotates, Grows
      <3> QED
        BY <1>3, <3>1
    <2>2. CASE n \in 1..(d.next - 1)
      <3>1. PICK g \in AllGroups(d) : Annotates(d.text, n, g)
        BY <1>9, <2>2 DEF TextOK
      <3>2. CASE g \in Filed(d.sets)
        BY <1>3, <3>1, <3>2
      <3>3. CASE g = d.me /\ d.me # << >>
        <4>1. IsHead(d.text, n, StartOf(e.me))
          BY <1>2, <3>1, <3>3 DEF Annotates
        <4>2. d.me[1].factor.op # "none"
          BY <1>9, <3>1, <3>3 DEF Annotates, IsAnnotation
        <4>3. e.me[1].factor = d.me[1].factor
          BY <3>3, <4>2 DEF Grows
        <4>4. Annotates(d.text, n, e.me)
          BY <3>1, <3>3, <4>1, <4>3 DEF Annotates
        <4> QED
          BY <1>3, <4>4
      <3> QED
        BY <1>5, <3>2, <3>3
    <2> QED
      BY <1>4, <2>1, <2>2
  <1>10. Apart(d.sets) /\ NamesApart(d.sets)
    BY DEF TextOK
  <1>11. ASSUME NEW g \in Filed(d.sets) PROVE StartOf(g) # StartOf(e.me)
    <2>1. CASE d.me = << >>
      <3>1. OfText(d.text, d.next - 1, g)
        BY <1>6 DEF TextOK
      <3>2. 1 \in 1..Len(g)
        BY <3>1 DEF OfText, Proper
      <3>3. StartOf(g) \in 1..(d.next - 1)
        BY <3>1, <3>2 DEF OfText, StartOf
      <3> QED
        BY <1>1, <1>2, <2>1, <3>3
    <2>2. CASE d.me # << >>
      BY <1>2, <2>2 DEF TextOK
    <2> QED
      BY <2>1, <2>2
  <1> QED
    BY <1>2, <1>7, <1>8, <1>9, <1>10, <1>11, Zenon DEF TextOK

\* One more line is read while no group is pending: it is no rule.
LEMMA SkipOK ==
  ASSUME NEW d \in LoadState, TextOK(d), d.me = << >>, NEW e,
         e.text = d.text /\ e.sets = d.sets /\ e.me = d.me /\ e.next = d.next + 1,
         d.text[d.next].kind \notin {"rule", "strength"}
  PROVE  TextOK(e)
  <1>1. d.next \in Nat /\ d.next >= 1 /\ d.next - 1 \in Nat /\ (d.next - 1) + 1 = d.next
    BY DEF LoadState
  <1>2. e.text = d.text /\ e.sets = d.sets /\ e.next - 1 = d.next /\ e.me = << >>
    BY <1>1
  <1>3. AllGroups(e) = AllGroups(d)
    BY DEF AllGroups
  <1>4. \A n \in 1..d.next : n = d.next \/ n \in 1..(d.next - 1)
    BY <1>1
  <1>5. \A g \in AllGroups(e) : OfText(d.text, d.next, g)
    <2> SUFFICES ASSUME NEW g \in AllGroups(d) PROVE OfText(d.text, d.next, g)
      BY <1>3
    <2>1. OfText(d.text, d.next - 1, g)
      BY DEF TextOK
    <2> QED
      BY <1>1, <2>1, OfTextLater
  <1>6. \A n \in 1..d.next : d.text[n].kind = "rule" => \E g \in AllGroups(e) : n \in LinesOf(g)
    BY <1>3, <1>4 DEF TextOK
  <1>7. \A n \in 1..d.next : IsAnnotation(d.text[n]) => \E g \in AllGroups(e) : Annotates(d.text, n, g)
    BY <1>3, <1>4 DEF TextOK, IsAnnotation
  <1>8. Apart(d.sets) /\ NamesApart(d.sets)
    BY DEF TextOK
  <1> QED
    BY <1>2, <1>5, <1>6, <1>7, <1>8, Zenon DEF TextOK

\* The pending group is filed.
LEMMA AddEntryOK ==
  ASSUME NEW d \in LoadState, TextOK(d), d.me # << >>, NEW e,
         e.text = d.text /\ e.next = d.next /\ e.me = << >>,
         e.sets = AddTo(d.sets, d.me)
  PROVE  TextOK(e)
  <1>1. AllGroups(e) = AllGroups(d)
    BY FiledAll DEF AllGroups
  <1>2. Apart(e.sets) /\ NamesApart(e.sets)
    BY FiledAll
  <1> QED
    BY <1>1, <1>2 DEF TextOK

\* Nothing the groups depend on changes.
LEMMA SameOK ==
  ASSUME NEW d, TextOK(d), NEW e,
         e.text = d.text /\ e.next = d.next /\ e.me = d.me /\ e.sets = d.sets
  PROVE  TextOK(e)
  BY DEF TextOK, AllGroups

LEMMA PendingOfText ==
  ASSUME NEW d \in LoadState, TextOK(d), d.me # << >>
  PROVE  /\ OfText(d.text, d.next - 1, d.me) /\ OfText(d.text, d.next, d.me)
         /\ 1 \in 1..Len(d.me) /\ d.me[1] \in Rules
         /\ IsHead(d.text, d.next - 1, StartOf(d.me)) /\ StartOf(d.me) \in 1..(d.next - 1)
  <1>1. d.next - 1 \in Nat /\ (d.next - 1) + 1 = d.next
    BY DEF LoadState
  <1>2. OfText(d.text, d.next - 1, d.me) /\ IsHead(d.text, d.next - 1, StartOf(d.me))
    BY DEF TextOK, AllGroups
  <1>3. OfText(d.text, d.next, d.me)
    BY <1>1, <1>2, OfTextLater
  <1>4. 1 \in 1..Len(d.me) /\ d.me[1] \in Rules
    BY DEF LoadState
  <1> QED
    BY <1>2, <1>3, <1>4 DEF IsHead

\* A line that is no rule and no strength leaves the pending group alone.
LEMMA SkipGrows ==
  ASSUME NEW d \in LoadState, TextOK(d), d.me # << >>, NEW e,
         e.text = d.text /\ e.sets = d.sets /\ e.me = d.me /\ e.next = d.next + 1,
         d.text[d.next].kind \notin {"rule", "strength"}
  PROVE  Grows(d, e)
  <1>1. d.next \in Nat
    BY DEF LoadState
  <1>2. OfText(d.text, d.next, d.me) /\ IsHead(d.text, d.next - 1, StartOf(d.me))
    BY PendingOfText
  <1>3. IsHead(d.text, d.next, StartOf(d.me))
    BY <1>1, <1>2, HeadStays
  <1> QED
    BY <1>2, <1>3 DEF Grows, IsAnnotation

\* A strength changes the factor of the first rule, and no line.
LEMMA StrengthenedGroup ==
  ASSUME NEW text, NEW seen, NEW group, OfText(text, seen, group), NEW factor \in Factors
  PROVE  /\ OfText(text, seen, Strengthened(group, factor))
         /\ LinesOf(Strengthened(group, factor)) = LinesOf(group)
         /\ StartOf(Strengthened(group, factor)) = StartOf(group)
         /\ Strengthened(group, factor)[1].factor = factor
         /\ Strengthened(group, factor) # << >>
  <1> DEFINE first == [group[1] EXCEPT !.factor = factor]
             new == Strengthened(group, factor)
  <1>1. group \in Seq(Rules) /\ Proper(group) /\ 1 \in 1..Len(group) /\ group[1] \in Rules
    <2>1. group \in Seq(Rules) /\ Proper(group)
      BY DEF OfText
    <2>2. 1 \in 1..Len(group)
      BY <2>1 DEF Proper
    <2> QED
      BY <2>1, <2>2
  <1>2. /\ first \in Rules /\ first.factor = factor
        /\ first.line = group[1].line /\ first.level = group[1].level
    BY <1>1 DEF Rules
  <1>3. new = [group EXCEPT ![1] = first]
    BY <1>1 DEF Strengthened
  <1> HIDE DEF first, new
  <1>4. /\ new \in Seq(Rules) /\ Len(new) = Len(group)
        /\ \A r \in 1..Len(group) : new[r] = IF r = 1 THEN first ELSE group[r]
    BY <1>1, <1>2, <1>3, ExceptSeq
  <1>5. new[1] = first
    BY <1>1, <1>4
  <1>6. \A r \in 1..Len(group) : new[r].line = group[r].line /\ new[r].level = group[r].level
    BY <1>2, <1>4
  <1>7. StartOf(new) = StartOf(group)
    BY <1>2, <1>5 DEF StartOf
  <1>8. new # << >>
    BY <1>1, <1>4
  <1>9. Proper(new)
    <2>1. \A r \in 2..Len(group) : r \in 1..Len(group) /\ group[r].level > 0
      BY <1>1 DEF Proper
    <2>2. group[1].level = 0
      BY <1>1 DEF Proper
    <2>3. new[1].level = 0
      BY <1>2, <1>5, <2>2
    <2>4. \A r \in 2..Len(new) : new[r].level > 0
      BY <1>4, <1>6, <2>1
    <2> QED
      BY <1>8, <2>3, <2>4 DEF Proper
  <1>10. OfText(text, seen, new)
    <2>1. \A r \in 1..Len(new) : /\ new[r].line \in 1..seen
                                /\ text[new[r].line].kind = "rule"
                                /\ IsHead(text, new[r].line, StartOf(new))
      BY <1>4, <1>6, <1>7 DEF OfText
    <2>2. \A q, r \in 1..Len(new) : q < r => new[q].line < new[r].line
      BY <1>4, <1>6 DEF OfText
    <2> QED
      BY <1>4, <1>9, <2>1, <2>2, Zenon DEF OfText
  <1>11. LinesOf(new) = LinesOf(group)
    <2>1. DOMAIN group = 1..Len(group) /\ DOMAIN new = 1..Len(group)
      BY <1>1, <1>4
    <2> QED
      BY <1>6, <2>1 DEF LinesOf
  <1> QED
    BY <1>2, <1>5, <1>7, <1>8, <1>10, <1>11 DEF new

\* A strength goes with the pending group.
LEMMA StrengthGrows ==
  ASSUME NEW d \in LoadState, TextOK(d), d.me # << >>, NEW e,
         e.text = d.text /\ e.sets = d.sets /\ e.next = d.next + 1,
         NEW line \in Line, line = d.text[d.next], line.kind = "strength",
         TakesFactor(d.me[1], line), e.me = Strengthened(d.me, line.factor)
  PROVE  Grows(d, e)
  <1>1. d.next \in Nat
    BY DEF LoadState
  <1>2. OfText(d.text, d.next, d.me) /\ IsHead(d.text, d.next - 1, StartOf(d.me))
    BY PendingOfText
  <1>3. IsHead(d.text, d.next, StartOf(d.me))
    BY <1>1, <1>2, HeadStays
  <1>4. line.factor \in Factors
    BY LineType
  <1> DEFINE new == Strengthened(d.me, line.factor)
  <1>5. /\ OfText(d.text, d.next, new) /\ LinesOf(new) = LinesOf(d.me)
        /\ StartOf(new) = StartOf(d.me) /\ new[1].factor = line.factor /\ new # << >>
    BY <1>2, <1>4, StrengthenedGroup
  <1>6. d.me[1].factor.op = "none"
    BY DEF TakesFactor
  <1> HIDE DEF new
  <1>7. e.me = new
    BY DEF new
  <1> QED
    BY <1>3, <1>5, <1>6, <1>7 DEF Grows

\* The levels of the texts fit cont_level: beyond 8 bits a level wraps, and a
\* continuation may come to look like the beginning of a group.
LevelsFit == Levels \subseteq 0..(LevelModulus - 1)

\* Within 8 bits the level of a line is that of its rule.
LEMMA RuleOfLine ==
  ASSUME LevelsFit, NEW d \in LoadState, NEW line \in Line, line = d.text[d.next]
  PROVE  /\ RuleOf(d) \in Rules
         /\ RuleOf(d).line = d.next /\ RuleOf(d).level = line.level
         /\ RuleOf(d).cond = line.cond /\ RuleOf(d).factor.op = "none"
  <1>1. line.level \in 0..(LevelModulus - 1) /\ LevelModulus \in Nat \ {0}
    BY LineType, LoaderAssumption DEF LevelsFit
  <1>2. line.level % LevelModulus = line.level
    <2> DEFINE level == line.level
    <2>1. level \in 0..(LevelModulus - 1)
      BY <1>1
    <2> HIDE DEF level
    <2>2. level % LevelModulus = level
      BY <1>1, <2>1
    <2> QED
      BY <2>2 DEF level
  <1>3. d.next \in Nat \ {0}
    BY DEF LoadState
  <1>4. RuleOf(d) \in Rules
    BY <1>3, RuleOfType
  <1> QED
    BY <1>2, <1>4 DEF RuleOf, NoFactor

\* A rule goes with the pending group, or starts one.
LEMMA AppendGrows ==
  ASSUME LevelsFit, NEW d \in LoadState, TextOK(d), NEW e,
         e.text = d.text /\ e.sets = d.sets /\ e.next = d.next + 1,
         NEW line \in Line, line = d.text[d.next], line.kind = "rule",
         IF d.me = << >> THEN line.level = 0 ELSE line.level > 0,
         e.me = Append(d.me, RuleOf(d))
  PROVE  Grows(d, e)
  <1> DEFINE rule == RuleOf(d)
             L == Len(d.me)
  <1>1. d.next \in Nat /\ d.next >= 1 /\ d.me \in Seq(Rules)
    BY DEF LoadState
  <1>2. rule \in Rules /\ rule.line = d.next /\ rule.level = line.level
    BY RuleOfLine
  <1> HIDE DEF rule
  <1>3. /\ e.me \in Seq(Rules) /\ e.me # << >> /\ Len(e.me) = L + 1
        /\ \A r \in 1..L : e.me[r] = d.me[r]
        /\ e.me[L + 1] = rule
    BY <1>1, <1>2, AppendProperties DEF rule
  <1>4. L \in Nat /\ (d.me = << >> <=> L = 0)
    BY <1>1
  <1>5. DOMAIN d.me = 1..L /\ DOMAIN e.me = 1..(L + 1)
    BY <1>1, <1>3
  <1> HIDE DEF L
  <1>6. \A r \in 1..(L + 1) : r = L + 1 \/ r \in 1..L
    BY <1>4
  <1>7. L + 1 \in 1..(L + 1) /\ \A r \in 1..L : r \in 1..(L + 1)
    BY <1>4
  <1>8. StartOf(e.me) = IF d.me = << >> THEN d.next ELSE StartOf(d.me)
    <2>1. CASE d.me = << >>
      BY <1>2, <1>3, <1>4, <2>1 DEF StartOf
    <2>2. CASE d.me # << >>
      <3>1. 1 \in 1..L
        BY <1>4, <2>2
      <3> QED
        BY <1>3, <2>2, <3>1 DEF StartOf
    <2> QED
      BY <2>1, <2>2
  <1>9. IsHead(d.text, d.next, StartOf(e.me))
    <2>1. CASE d.me = << >>
      BY <1>1, <1>8, <2>1 DEF IsHead
    <2>2. CASE d.me # << >>
      <3>1. IsHead(d.text, d.next - 1, StartOf(d.me))
        BY <2>2, PendingOfText
      <3>2. IsHead(d.text, d.next, StartOf(d.me))
        BY <1>1, <2>2, <3>1, HeadStays
      <3> QED
        BY <1>8, <2>2, <3>2
    <2> QED
      BY <2>1, <2>2
  <1>10. ASSUME NEW r \in 1..L
         PROVE  /\ OfText(d.text, d.next - 1, d.me) /\ e.me[r] = d.me[r]
                /\ StartOf(e.me) = StartOf(d.me) /\ d.me # << >>
    <2>1. d.me # << >>
      BY <1>4
    <2> QED
      BY <1>3, <1>8, <2>1, PendingOfText
  <1>11. OfText(d.text, d.next, e.me)
    <2>1. Proper(e.me)
      <3>1. e.me[1].level = 0
        <4>1. CASE L = 0
          BY <1>2, <1>3, <1>4, <4>1
        <4>2. CASE 1 \in 1..L
          BY <1>10, <4>2 DEF OfText, Proper
        <4>3. L = 0 \/ 1 \in 1..L
          BY <1>4
        <4> QED
          BY <4>1, <4>2, <4>3
      <3>2. ASSUME NEW r \in 2..(L + 1) PROVE e.me[r].level > 0
        <4>1. CASE r = L + 1
          <5>1. d.me # << >>
            BY <1>4, <4>1
          <5> QED
            BY <1>2, <1>3, <4>1, <5>1
        <4>2. CASE r \in 1..L
          <5>1. r \in 2..Len(d.me)
            BY <4>2 DEF L
          <5> QED
            BY <1>10, <4>2, <5>1 DEF OfText, Proper
        <4>3. r = L + 1 \/ r \in 1..L
          BY <1>4
        <4> QED
          BY <4>1, <4>2, <4>3
      <3> QED
        BY <1>3, <3>1, <3>2 DEF Proper
    <2>2. ASSUME NEW r \in 1..(L + 1)
          PROVE  /\ e.me[r].line \in 1..d.next /\ d.text[e.me[r].line].kind = "rule"
                 /\ IsHead(d.text, e.me[r].line, StartOf(e.me))
                 /\ r \in 1..L => e.me[r].line < d.next
      <3>1. CASE r = L + 1
        BY <1>1, <1>2, <1>3, <1>4, <1>9, <3>1
      <3>2. CASE r \in 1..L
        <4>1. r \in 1..Len(d.me) /\ OfText(d.text, d.next - 1, d.me)
          BY <1>10, <3>2 DEF L
        <4>2. /\ d.me[r].line \in 1..(d.next - 1) /\ d.text[d.me[r].line].kind = "rule"
              /\ IsHead(d.text, d.me[r].line, StartOf(d.me))
          BY <4>1 DEF OfText
        <4>3. \A n \in 1..(d.next - 1) : n \in 1..d.next /\ n < d.next
          BY <1>1
        <4> QED
          BY <1>10, <3>2, <4>2, <4>3
      <3> QED
        BY <1>6, <3>1, <3>2
    <2>3. ASSUME NEW q \in 1..(L + 1), NEW r \in 1..(L + 1), q < r
          PROVE  e.me[q].line < e.me[r].line
      <3>1. q \in 1..L
        BY <1>4, <2>3
      <3>2. CASE r = L + 1
        BY <1>2, <1>3, <2>2, <3>1, <3>2
      <3>3. CASE r \in 1..L
        <4>1. OfText(d.text, d.next - 1, d.me) /\ q \in 1..Len(d.me) /\ r \in 1..Len(d.me)
          BY <1>10, <3>1, <3>3 DEF L
        <4>2. d.me[q].line < d.me[r].line
          BY <2>3, <4>1 DEF OfText
        <4> QED
          BY <1>10, <3>1, <3>3, <4>2
      <3> QED
        BY <1>6, <3>2, <3>3
    <2> QED
      BY <1>3, <2>1, <2>2, <2>3 DEF OfText
  <1>12. LinesOf(d.me) \subseteq LinesOf(e.me) /\ d.next \in LinesOf(e.me)
    <2>1. \A r \in 1..L : d.me[r].line \in LinesOf(e.me)
      BY <1>3, <1>5, <1>7 DEF LinesOf
    <2>2. rule.line \in LinesOf(e.me)
      BY <1>3, <1>5, <1>7 DEF LinesOf
    <2> QED
      BY <1>2, <1>5, <2>1, <2>2 DEF LinesOf
  <1>13. d.me = << >> \/ e.me[1].factor = d.me[1].factor
    <2>1. CASE 1 \in 1..L
      BY <1>3, <2>1
    <2> QED
      BY <1>4, <2>1
  <1> QED
    BY <1>3, <1>8, <1>9, <1>11, <1>12, <1>13 DEF Grows, IsAnnotation

-----------------------------------------------------------------------------
\* The steps of a load that reports no error, from record d to record e.
Skips(h, d, e) ==
  /\ e.phase = "line" /\ StandsOn(h).kind \notin {"rule", "strength"}
  /\ e.text = d.text /\ e.sets = d.sets /\ e.me = d.me /\ e.next = d.next + 1
  /\ UNCHANGED <<last_cont_level, last_cond>>

Strengthens(h, d, e) ==
  /\ e.phase = "line" /\ StandsOn(h).kind = "strength"
  /\ d.me # << >> /\ TakesFactor(d.me[1], StandsOn(h))
  /\ e.text = d.text /\ e.sets = d.sets /\ e.next = d.next + 1
  /\ e.me = Strengthened(d.me, StandsOn(h).factor)
  /\ UNCHANGED <<last_cont_level, last_cond>>

Meets(h, d, e) ==
  /\ e.phase = "parse" /\ StandsOn(h).kind = "rule"
  /\ e.text = d.text /\ e.sets = d.sets /\ e.me = d.me /\ e.next = d.next
  /\ IF NeedsCheck(StandsOn(h).level)
       THEN last_cond' = [last_cond EXCEPT ![h][StandsOn(h).level] = "none"]
       ELSE UNCHANGED last_cond
  /\ UNCHANGED last_cont_level

Appends(h, d, e) ==
  /\ d.phase = "parse" /\ e.phase = "line" /\ StandsOn(h).kind = "rule"
  /\ IF d.me = << >> THEN StandsOn(h).level = 0 ELSE StandsOn(h).level > 0
  /\ e.text = d.text /\ e.sets = d.sets /\ e.next = d.next + 1
  /\ e.me = Append(d.me, RuleOf(d))
  /\ CondFollows(last_cond[h][StandsOn(h).level], StandsOn(h).cond)
  /\ last_cond' = [last_cond EXCEPT ![h][StandsOn(h).level] = NextCond(StandsOn(h).cond)]
  /\ last_cont_level' = StandsOn(h).level

\* The pending group is filed, or it is not; the line is parsed again.
Refiles(h, d, e) ==
  /\ d.phase = "parse" /\ e.phase = "line" /\ StandsOn(h).kind = "rule"
  /\ StandsOn(h).level = 0 /\ d.me # << >>
  /\ e.text = d.text /\ e.next = d.next
  /\ \/ e.me = << >> /\ e.sets = AddTo(d.sets, d.me)
     \/ e.me = d.me /\ e.sets = d.sets
  /\ last_cont_level' = 0 /\ UNCHANGED last_cond

Kinds(h, d, e) ==
  Skips(h, d, e) \/ Strengthens(h, d, e) \/ Meets(h, d, e) \/ Appends(h, d, e)
    \/ Refiles(h, d, e)

\* Without an error, ReadLine takes one of these steps.
LEMMA ReadLineKinds ==
  ASSUME TypeOK, NEW h \in Handles, ReadLine(h), load'[h].errs = 0
  PROVE  /\ Loading(h) /\ load[h] \in LoadState /\ load[h].errs = 0
         /\ StandsOn(h) \in Line /\ Kinds(h, load[h], load'[h])
  <1> DEFINE d == load[h]
             line == StandsOn(h)
             e == load'[h]
  <1>1. d \in LoadState /\ line \in Line /\ d.phase = "line" /\ Loading(h)
    BY ReadLineReads DEF ReadLine, Loading
  <1>2. ASSUME NEW x, Put(h, x) PROVE e = x
    BY <1>2 DEF Put, TypeOK
  <1>3. line = d.text[d.next]
    BY DEF StandsOn
  <1>8. UNCHANGED last_cont_level
    BY DEF ReadLine
  <1>9. e.errs = 0
    OBVIOUS
  <1> HIDE DEF line, e
  <1>4. ASSUME SkipLine(h), UNCHANGED <<len, last_cond>>
        PROVE  d.errs = 0 /\ Kinds(h, d, e)
    <2>1. PICK b : /\ Put(h, [d EXCEPT !.next = @ + 1, !.errs = IF b THEN 1 ELSE @])
                   /\ b <=> \/ line.kind = "unknown"
                            \/ line.kind \in {"bang", "strength"} /\ d.me = << >>
                            \/ line.kind = "bang" /\ ~line.valid
      BY <1>3, <1>4, Zenon DEF SkipLine
    <2>2. line.kind \in {"unknown", "blank", "bang"} \/ (line.kind = "strength" /\ d.me = << >>)
      BY <1>3, <1>4 DEF SkipLine
    <2> DEFINE x == [d EXCEPT !.next = @ + 1, !.errs = IF b THEN 1 ELSE @]
    <2>3. e = x
      BY <1>2, <2>1
    <2>4. /\ x.phase = "line" /\ x.text = d.text /\ x.sets = d.sets /\ x.me = d.me
          /\ x.next = d.next + 1 /\ x.errs = IF b THEN 1 ELSE d.errs
      BY <1>1 DEF LoadState
    <2> HIDE DEF x, d
    <2>5. ~b /\ d.errs = 0
      BY <1>9, <2>3, <2>4
    <2>6. line.kind \notin {"rule", "strength"}
      BY <2>1, <2>2, <2>5
    <2>7. Skips(h, d, e)
      BY <1>4, <1>8, <2>3, <2>4, <2>6 DEF Skips, line
    <2> QED
      BY <2>5, <2>7, Zenon DEF Kinds
  <1>5. ASSUME ReadStrength(h), UNCHANGED <<len, last_cond>>
        PROVE  d.errs = 0 /\ Kinds(h, d, e)
    <2>1. line.kind = "strength" /\ d.me # << >>
      BY <1>3, <1>5 DEF ReadStrength
    <2>2. CASE TakesFactor(d.me[1], line)
      <3> DEFINE x == [d EXCEPT !.next = @ + 1, !.me = Strengthened(@, line.factor)]
      <3>1. Put(h, x)
        BY <1>3, <1>5, <2>2 DEF ReadStrength
      <3>2. e = x
        BY <1>2, <3>1
      <3>3. /\ x.phase = "line" /\ x.text = d.text /\ x.sets = d.sets
            /\ x.me = Strengthened(d.me, line.factor)
            /\ x.next = d.next + 1 /\ x.errs = d.errs
        BY <1>1 DEF LoadState
      <3> HIDE DEF x, d
      <3>4. d.errs = 0
        BY <1>9, <3>2, <3>3
      <3>5. Strengthens(h, d, e)
        BY <1>5, <1>8, <2>1, <2>2, <3>2, <3>3 DEF Strengthens, line
      <3> QED
        BY <3>4, <3>5, Zenon DEF Kinds
    <2>3. CASE ~TakesFactor(d.me[1], line)
      <3> DEFINE x == [d EXCEPT !.next = @ + 1, !.errs = 1]
      <3>1. Put(h, x)
        BY <1>3, <1>5, <2>3 DEF ReadStrength
      <3>2. x.errs = 1
        BY <1>1 DEF LoadState
      <3>3. e = x
        BY <1>2, <3>1
      <3> HIDE DEF x
      <3> QED
        BY <1>9, <3>2, <3>3
    <2> QED
      BY <2>2, <2>3
  <1>6. ASSUME MeetRule(h), UNCHANGED magwarn
        PROVE  d.errs = 0 /\ Kinds(h, d, e)
    <2> DEFINE x == [d EXCEPT !.phase = "parse"]
    <2>1. Put(h, x) /\ line.kind = "rule"
      BY <1>3, <1>6 DEF MeetRule
    <2>2. IF NeedsCheck(line.level)
            THEN last_cond' = [last_cond EXCEPT ![h][line.level] = "none"]
            ELSE UNCHANGED last_cond
      BY <1>3, <1>6 DEF MeetRule, CheckMem
    <2>3. e = x
      BY <1>2, <2>1
    <2>4. /\ x.phase = "parse" /\ x.text = d.text /\ x.sets = d.sets /\ x.me = d.me
          /\ x.next = d.next /\ x.errs = d.errs
      BY <1>1 DEF LoadState
    <2> HIDE DEF x, d
    <2>5. d.errs = 0
      BY <1>9, <2>3, <2>4
    <2>6. Meets(h, d, e)
      BY <1>8, <2>1, <2>2, <2>3, <2>4 DEF Meets, line
    <2> QED
      BY <2>5, <2>6, Zenon DEF Kinds
  <1>7. \/ SkipLine(h) /\ UNCHANGED <<len, last_cond>>
        \/ ReadStrength(h) /\ UNCHANGED <<len, last_cond>>
        \/ MeetRule(h) /\ UNCHANGED magwarn
    BY DEF ReadLine
  <1>10. d.errs = 0 /\ Kinds(h, d, e)
    BY <1>4, <1>5, <1>6, <1>7, Zenon
  <1> QED
    BY <1>1, <1>10, Zenon DEF line, e

\* Without an error, so does Parse.
LEMMA ParseKinds ==
  ASSUME TypeOK, NEW h \in Handles, Parse(h), load'[h].errs = 0
  PROVE  /\ Loading(h) /\ load[h] \in LoadState /\ load[h].errs = 0
         /\ StandsOn(h) \in Line /\ Kinds(h, load[h], load'[h])
  <1> DEFINE d == load[h]
             line == StandsOn(h)
             e == load'[h]
  <1>1. /\ d \in LoadState /\ line \in Line /\ d.phase = "parse" /\ Loading(h)
        /\ line.kind = "rule"
    BY LoadingType DEF Parse, Loading, StandsOn
  <1>2. ASSUME NEW x, Put(h, x) PROVE e = x
    BY <1>2 DEF Put, TypeOK
  <1>3. line = d.text[d.next] /\ last_cont_level' = line.level /\ line.level \in Nat
    BY <1>1, LineType DEF StandsOn, Parse
  <1>9. e.errs = 0
    OBVIOUS
  <1> HIDE DEF line, e
  <1>4. ASSUME FinishRule(h, d), IF d.me = << >> THEN line.level = 0 ELSE line.level > 0
        PROVE  d.errs = 0 /\ Kinds(h, d, e)
    <2>1. PICK follows \in BOOLEAN :
            /\ Put(h, [d EXCEPT !.phase = "line", !.next = @ + 1, !.me = Append(@, RuleOf(d)),
                                !.errs = IF follows /\ line.valid THEN @ ELSE 1])
            /\ last_cond' = IF follows
                              THEN [last_cond EXCEPT ![h][line.level] = NextCond(line.cond)]
                              ELSE last_cond
            /\ follows => CondFollows(last_cond[h][line.level], line.cond)
      <3>1. PICK reached \in {TRUE, line.valid} :
              /\ Put(h, [d EXCEPT !.phase = "line", !.next = @ + 1, !.me = Append(@, RuleOf(d)),
                                  !.errs = IF (reached /\ CondFollows(last_cond[h][line.level], line.cond))
                                                /\ line.valid THEN @ ELSE 1])
              /\ last_cond' = IF reached /\ CondFollows(last_cond[h][line.level], line.cond)
                                THEN [last_cond EXCEPT ![h][line.level] = NextCond(line.cond)]
                                ELSE last_cond
        BY <1>3, <1>4, Zenon DEF FinishRule
      <3> DEFINE follows == reached /\ CondFollows(last_cond[h][line.level], line.cond)
      <3>2. follows \in BOOLEAN /\ (follows => CondFollows(last_cond[h][line.level], line.cond))
        BY Zenon
      <3> QED
        BY <3>1, <3>2, Zenon
    <2> DEFINE x == [d EXCEPT !.phase = "line", !.next = @ + 1, !.me = Append(@, RuleOf(d)),
                              !.errs = IF follows /\ line.valid THEN @ ELSE 1]
    <2>2. e = x
      BY <1>2, <2>1
    <2>3. /\ x.phase = "line" /\ x.text = d.text /\ x.sets = d.sets
          /\ x.me = Append(d.me, RuleOf(d))
          /\ x.next = d.next + 1 /\ x.errs = IF follows /\ line.valid THEN d.errs ELSE 1
      BY <1>1 DEF LoadState
    <2> HIDE DEF x, d
    <2>4. follows /\ d.errs = 0
      BY <1>9, <2>2, <2>3
    <2>6. last_cond' = [last_cond EXCEPT ![h][line.level] = NextCond(line.cond)]
      BY <2>1, <2>4
    <2>7. CondFollows(last_cond[h][line.level], line.cond)
      BY <2>1, <2>4
    <2>8. d.phase = "parse" /\ line.kind = "rule"
      BY <1>1 DEF d
    <2>9. IF d.me = << >> THEN line.level = 0 ELSE line.level > 0
      BY <1>4 DEF d
    <2>10. e.phase = "line" /\ e.text = d.text /\ e.sets = d.sets /\ e.next = d.next + 1
             /\ e.me = Append(d.me, RuleOf(d))
      BY <2>2, <2>3
    <2>5. Appends(h, d, e)
      BY <1>3, <2>6, <2>7, <2>8, <2>9, <2>10, Zenon DEF Appends, line
    <2> QED
      BY <2>4, <2>5, Zenon DEF Kinds
  <1>5. ASSUME RejectLine(h) PROVE FALSE
    <2> DEFINE x == [d EXCEPT !.phase = "line", !.next = @ + 1, !.errs = 1]
    <2>1. Put(h, x)
      BY <1>5 DEF RejectLine
    <2>2. x.errs = 1
      BY <1>1 DEF LoadState
    <2>3. e = x
      BY <1>2, <2>1
    <2> HIDE DEF x
    <2> QED
      BY <1>9, <2>2, <2>3
  <1>6. ASSUME line.level = 0, d.me # << >>, UNCHANGED last_cond,
               NEW oom \in Oom,
               Put(h, [(IF oom THEN d ELSE AddEntry(d)) EXCEPT !.phase = "line"])
        PROVE  d.errs = 0 /\ Kinds(h, d, e)
    <2>1. PICK c \in {d, AddEntry(d)} : Put(h, [c EXCEPT !.phase = "line"])
      BY <1>6
    <2>2. c \in LoadState
      BY <1>1, AddEntryType
    <2>3. /\ c.text = d.text /\ c.next = d.next /\ c.errs = d.errs
          /\ \/ c.me = << >> /\ c.sets = AddTo(d.sets, d.me)
             \/ c.me = d.me /\ c.sets = d.sets
      BY <1>1, <2>1 DEF AddEntry, LoadState
    <2> DEFINE x == [c EXCEPT !.phase = "line"]
    <2>4. e = x
      BY <1>2, <2>1
    <2>5. /\ x.phase = "line" /\ x.text = c.text /\ x.sets = c.sets /\ x.me = c.me
          /\ x.next = c.next /\ x.errs = c.errs
      BY <2>2 DEF LoadState
    <2> HIDE DEF x, d
    <2>6. d.errs = 0
      BY <1>9, <2>3, <2>4, <2>5
    <2>7. Refiles(h, d, e)
      BY <1>1, <1>3, <1>6, <2>3, <2>4, <2>5 DEF Refiles, line, d
    <2> QED
      BY <2>6, <2>7, Zenon DEF Kinds
  <1>7. d.errs = 0 /\ Kinds(h, d, e)
    <2>1. CASE line.level = 0 /\ ParseGroup(h)
      BY <1>4, <1>5, <1>6, <2>1 DEF ParseGroup
    <2>2. CASE line.level > 0 /\ ParseContinuation(h)
      BY <1>4, <1>5, <2>2 DEF ParseContinuation
    <2> QED
      BY <1>3, <2>1, <2>2 DEF Parse
  <1> QED
    BY <1>1, <1>7, Zenon DEF line, e

\* Each of these steps keeps the lines where they belong.
LEMMA KindsOK ==
  ASSUME LevelsFit, NEW h \in Handles, load[h] \in LoadState, StandsOn(h) \in Line,
         TextOK(load[h]), NEW e, Kinds(h, load[h], e)
  PROVE  TextOK(e)
  <1> DEFINE d == load[h]
             line == StandsOn(h)
  <1>1. line = d.text[d.next] /\ line \in Line /\ d \in LoadState /\ TextOK(d)
    BY DEF StandsOn
  <1> HIDE DEF d
  <1>2. CASE Skips(h, d, e)
    <2>1. /\ e.text = d.text /\ e.sets = d.sets /\ e.me = d.me /\ e.next = d.next + 1
          /\ d.text[d.next].kind \notin {"rule", "strength"}
      BY <1>1, <1>2 DEF Skips
    <2> HIDE DEF line
    <2>2. CASE d.me = << >>
      BY <1>1, <2>1, <2>2, SkipOK
    <2>3. CASE d.me # << >>
      BY <1>1, <2>1, <2>3, SkipGrows, GrowsOK
    <2> QED
      BY <2>2, <2>3
  <1>3. CASE Strengthens(h, d, e)
    <2>1. Grows(d, e)
      BY <1>1, <1>3, StrengthGrows DEF Strengthens
    <2> QED
      BY <1>1, <2>1, GrowsOK
  <1>4. CASE Meets(h, d, e)
    <2>1. e.text = d.text /\ e.next = d.next /\ e.me = d.me /\ e.sets = d.sets
      BY <1>4, Zenon DEF Meets
    <2> QED
      BY <1>1, <2>1, SameOK
  <1>5. CASE Appends(h, d, e)
    <2>1. /\ line.kind = "rule" /\ e.text = d.text /\ e.sets = d.sets /\ e.next = d.next + 1
          /\ e.me = Append(d.me, RuleOf(d))
          /\ IF d.me = << >> THEN line.level = 0 ELSE line.level > 0
      BY <1>5, Zenon DEF Appends
    <2> HIDE DEF line
    <2>2. Grows(d, e)
      BY <1>1, <2>1, AppendGrows
    <2> QED
      BY <1>1, <2>2, GrowsOK
  <1>6. CASE Refiles(h, d, e)
    <2>1. /\ d.me # << >> /\ e.text = d.text /\ e.next = d.next
          /\ \/ e.me = << >> /\ e.sets = AddTo(d.sets, d.me)
             \/ e.me = d.me /\ e.sets = d.sets
      BY <1>6, Zenon DEF Refiles
    <2> QED
      BY <1>1, <2>1, AddEntryOK, SameOK
  <1> QED
    BY <1>2, <1>3, <1>4, <1>5, <1>6, Zenon DEF Kinds, d

-----------------------------------------------------------------------------
\* The array of a set whose groups are those of a text.
LEMMA PlacedLines ==
  ASSUME NEW text, NEW seen \in Nat, NEW seqs \in Seq(Seq(Rules)),
         \A j \in 1..Len(seqs) : OfText(text, seen, seqs[j]),
         \A j, k \in 1..Len(seqs) : StartOf(seqs[j]) = StartOf(seqs[k]) => j = k
  PROVE  LET array == Coalesced(seqs)
         IN  /\ \A j \in 1..Len(seqs) : \A r \in 1..Len(seqs[j]) :
                  \E p \in 1..Len(array) : array[p] = seqs[j][r]
             /\ \A p \in 1..Len(array) :
                  \E j \in 1..Len(seqs) : \E r \in 1..Len(seqs[j]) : array[p] = seqs[j][r]
             /\ \A p, q \in 1..Len(array) : array[p].line = array[q].line => p = q
             /\ array \in Seq(Rules)
  <1> DEFINE array == Coalesced(seqs)
             N == Len(seqs)
  <1>1. array \in Seq(Rules) /\ \E offset \in [0..N -> Nat] : Placed(seqs, array, offset)
    BY CoalescedPlaces
  <1> HIDE DEF array
  <1>2. PICK offset \in [0..N -> Nat] : Placed(seqs, array, offset)
    BY <1>1
  <1>3. \A j \in 1..N : \A r \in 1..Len(seqs[j]) :
          offset[j - 1] + r \in 1..Len(array) /\ array[offset[j - 1] + r] = seqs[j][r]
    BY <1>2 DEF Placed
  <1>4. \A p \in 1..Len(array) :
          \E j \in 1..N : \E r \in 1..Len(seqs[j]) : p = offset[j - 1] + r
    BY <1>2 DEF Placed
  <1>5. \A j \in 1..N : \A r \in 1..Len(seqs[j]) :
          \E p \in 1..Len(array) : array[p] = seqs[j][r]
    BY <1>3
  <1>6. \A p \in 1..Len(array) :
          \E j \in 1..N : \E r \in 1..Len(seqs[j]) : array[p] = seqs[j][r]
    <2> SUFFICES ASSUME NEW p \in 1..Len(array)
                 PROVE  \E j \in 1..N : \E r \in 1..Len(seqs[j]) : array[p] = seqs[j][r]
      OBVIOUS
    <2>1. PICK j \in 1..N : \E r \in 1..Len(seqs[j]) : p = offset[j - 1] + r
      BY <1>4
    <2>2. PICK r \in 1..Len(seqs[j]) : p = offset[j - 1] + r
      BY <2>1
    <2>3. array[offset[j - 1] + r] = seqs[j][r]
      BY <1>3
    <2>4. array[p] = seqs[j][r]
      BY <2>2, <2>3
    <2> QED
      BY <2>4
  <1>7. ASSUME NEW p \in 1..Len(array), NEW q \in 1..Len(array), array[p].line = array[q].line
        PROVE  p = q
    <2>1. PICK j \in 1..N : \E r \in 1..Len(seqs[j]) : p = offset[j - 1] + r
      BY <1>4
    <2>2. PICK r \in 1..Len(seqs[j]) : p = offset[j - 1] + r
      BY <2>1
    <2>3. PICK k \in 1..N : \E t \in 1..Len(seqs[k]) : q = offset[k - 1] + t
      BY <1>4
    <2>4. PICK t \in 1..Len(seqs[k]) : q = offset[k - 1] + t
      BY <2>3
    <2>5. array[p] = seqs[j][r] /\ array[q] = seqs[k][t]
      BY <1>3, <2>2, <2>4
    <2> DEFINE n == seqs[j][r].line
    <2>6. seqs[k][t].line = n
      BY <1>7, <2>5
    <2>7. n \in 1..seen /\ IsHead(text, n, StartOf(seqs[j]))
      BY DEF OfText
    <2>8. IsHead(text, seqs[k][t].line, StartOf(seqs[k]))
      BY DEF OfText
    <2>9. IsHead(text, n, StartOf(seqs[k]))
      BY <2>6, <2>8
    <2> HIDE DEF n
    <2>10. n \in Nat
      BY <2>7
    <2>11. StartOf(seqs[j]) = StartOf(seqs[k])
      BY <2>7, <2>9, <2>10, OneHead
    <2>12. j = k
      BY <2>11
    <2>13. r = t
      <3>1. \A x, y \in 1..Len(seqs[j]) : x < y => seqs[j][x].line < seqs[j][y].line
        BY DEF OfText
      <3>2. t \in 1..Len(seqs[j]) /\ seqs[j][t].line = n /\ seqs[j][r].line = n
        BY <2>6, <2>12 DEF n
      <3>a. /\ r < t => seqs[j][r].line < seqs[j][t].line
            /\ t < r => seqs[j][t].line < seqs[j][r].line
        BY <3>1, <3>2
      <3>b. ~(n < n)
        BY <2>10
      <3>3. ~(r < t) /\ ~(t < r)
        BY <3>2, <3>a, <3>b
      <3>4. Len(seqs[j]) \in Nat
        OBVIOUS
      <3> QED
        BY <3>2, <3>3, <3>4
    <2> QED
      BY <2>2, <2>4, <2>12, <2>13
  <1>8. \A p, q \in 1..Len(array) : array[p].line = array[q].line => p = q
    BY <1>7
  <1> QED
    BY <1>1, <1>5, <1>6, <1>8 DEF array

\* An array with no line twice has as many rules as lines.
LEMMA LinesCount ==
  ASSUME NEW array \in Seq(Rules),
         \A p, q \in 1..Len(array) : array[p].line = array[q].line => p = q
  PROVE  IsFiniteSet(LinesOf(array)) /\ Cardinality(LinesOf(array)) = Len(array)
  <1> DEFINE N == Len(array)
             f == [p \in 1..N |-> array[p].line]
             S == LinesOf(array)
  <1>1. N \in Nat /\ DOMAIN array = 1..N
    OBVIOUS
  <1>2. \A p \in 1..N : array[p].line \in S
    BY <1>1 DEF LinesOf
  <1>3. \A n \in S : \E p \in 1..N : array[p].line = n
    BY <1>1 DEF LinesOf
  <1> HIDE DEF S
  <1>4. f \in [1..N -> S]
    BY <1>2
  <1>5. \A p \in 1..N : f[p] = array[p].line
    OBVIOUS
  <1>6. \A p, q \in 1..N : array[p].line = array[q].line => p = q
    OBVIOUS
  <1> HIDE DEF f, N
  <1>7. f \in Injection(1..N, S)
    BY <1>4, <1>5, <1>6 DEF Injection, IsInjective
  <1>8. f \in Surjection(1..N, S)
    BY <1>3, <1>4, <1>5 DEF Surjection
  <1>9. ExistsBijection(1..N, S)
    BY <1>7, <1>8 DEF ExistsBijection, Bijection
  <1>10. Cardinality(S) = N
    BY <1>1, <1>9, FS_CountingElements
  <1>11. IsFiniteSet(S)
    BY <1>1, <1>9, FS_NatBijection
  <1> QED
    BY <1>10, <1>11 DEF S, N

\* When set_last_default has nothing to warn of, no group comes after a default one.
LEMMA NotLate ==
  ASSUME NEW seqs \in Seq(Seq(Rules)), \A j \in 1..Len(seqs) : Proper(seqs[j]),
         Late(seqs) = 0, NEW i \in Starts(Coalesced(seqs)), NEW k \in Starts(Coalesced(seqs)),
         Coalesced(seqs)[i].test.type = "default"
  PROVE  k <= i
  <1> DEFINE array == Coalesced(seqs)
             N == Len(seqs)
  <1>1. \E offset \in [0..N -> Nat] :
          Placed(seqs, array, offset) /\ Starts(array) = {offset[j - 1] + 1 : j \in 1..N}
    BY CoalescedStarts
  <1>2. i \in Starts(array) /\ k \in Starts(array) /\ array[i].test.type = "default"
    OBVIOUS
  <1> HIDE DEF array
  <1>3. PICK offset \in [0..N -> Nat] :
          Placed(seqs, array, offset) /\ Starts(array) = {offset[j - 1] + 1 : j \in 1..N}
    BY <1>1
  <1>4. Starts(array) = {offset[j - 1] + 1 : j \in 1..N}
    BY <1>3
  <1>5. PICK j \in 1..N : i = offset[j - 1] + 1
    BY <1>2, <1>4
  <1>6. PICK m \in 1..N : k = offset[m - 1] + 1
    BY <1>2, <1>4
  <1>7. N \in Nat /\ DOMAIN seqs = 1..N /\ 1 \in 1..Len(seqs[j])
    BY DEF Proper
  <1>8. array[i] = seqs[j][1]
    <2>1. array[offset[j - 1] + 1] = seqs[j][1]
      BY <1>3, <1>7 DEF Placed
    <2> QED
      BY <1>5, <2>1
  <1>9. ~(j < N)
    BY <1>2, <1>7, <1>8 DEF Late
  <1>10. m - 1 \in 0..N /\ j - 1 \in 0..N /\ m - 1 <= j - 1
    BY <1>7, <1>9
  <1>11. offset[m - 1] <= offset[j - 1]
    BY <1>3, <1>10 DEF Placed
  <1>12. offset[m - 1] \in Nat /\ offset[j - 1] \in Nat
    <2>1. \A n \in 0..N : offset[n] \in Nat
      OBVIOUS
    <2> QED
      BY <1>10, <2>1
  <1> QED
    BY <1>5, <1>6, <1>11, <1>12

\* The first line of a group, as the text has it.
LEMMA FirstLineIs ==
  ASSUME NEW c, c.read \in Nat, NEW n \in 1..c.read, NEW k, IsHead(c.text, n, k)
  PROVE  FirstLine(c, n) = k /\ k \in RuleLines(c)
  <1> DEFINE S == RuleLines(c)
             P(x) == /\ x <= n /\ c.text[x].level = 0
                     /\ \A m \in S : x < m /\ m <= n => c.text[m].level > 0
             first == CHOOSE x \in S : P(x)
  <1>1. \A x : x \in S <=> x \in 1..c.read /\ c.text[x].kind = "rule"
    BY DEF RuleLines
  <1> HIDE DEF S
  <1>2. k \in S /\ P(k)
    <2>1. k \in 1..n /\ c.text[k].kind = "rule" /\ c.text[k].level = 0
      BY DEF IsHead
    <2>2. k \in S /\ k <= n
      BY <1>1, <2>1
    <2>3. ASSUME NEW m \in S, k < m, m <= n PROVE c.text[m].level > 0
      <3>1. m \in (k + 1)..n /\ c.text[m].kind = "rule"
        BY <1>1, <2>1, <2>3
      <3> QED
        BY <3>1 DEF IsHead
    <2> QED
      BY <2>1, <2>2, <2>3
  <1>3. ASSUME NEW x \in S, P(x) PROVE x = k
    <2>1. x \in 1..n /\ c.text[x].kind = "rule" /\ c.text[x].level = 0
      BY <1>1, <1>3
    <2>2. ASSUME NEW m \in (x + 1)..n, c.text[m].kind = "rule" PROVE c.text[m].level > 0
      <3>1. m \in S /\ x < m /\ m <= n
        BY <1>1, <2>1, <2>2
      <3> QED
        BY <1>3, <3>1
    <2>3. IsHead(c.text, n, x)
      BY <2>1, <2>2 DEF IsHead
    <2>4. n \in Nat
      OBVIOUS
    <2> QED
      BY <2>3, <2>4, OneHead
  <1>4. FirstLine(c, n) = first
    BY DEF FirstLine, S
  <1> HIDE DEF P
  <1>5. first \in S /\ P(first)
    BY <1>2, Zenon
  <1> HIDE DEF first
  <1> QED
    BY <1>2, <1>3, <1>4, <1>5 DEF S

\* A group has the lines of one group of the text.
LEMMA GroupLines ==
  ASSUME NEW d \in LoadState, TextOK(d), NEW c, c.text = d.text, c.read = d.next - 1,
         NEW g \in AllGroups(d)
  PROVE  LinesOf(g) = LinesFrom(c, StartOf(g))
  <1>1. d.next - 1 \in Nat /\ c.read \in Nat
    BY DEF LoadState
  <1>2. \A f \in AllGroups(d) : OfText(c.text, c.read, f)
    BY DEF TextOK
  <1>3. ASSUME NEW f \in AllGroups(d), NEW n \in LinesOf(f)
        PROVE  n \in RuleLines(c) /\ FirstLine(c, n) = StartOf(f) /\ n >= StartOf(f)
    <2>1. OfText(c.text, c.read, f)
      BY <1>2
    <2>2. DOMAIN f = 1..Len(f)
      BY <2>1 DEF OfText
    <2>3. PICK r \in 1..Len(f) : n = f[r].line
      BY <2>2 DEF LinesOf
    <2>4. n \in 1..c.read /\ c.text[n].kind = "rule" /\ IsHead(c.text, n, StartOf(f))
      BY <2>1, <2>3 DEF OfText
    <2>5. FirstLine(c, n) = StartOf(f)
      BY <1>1, <2>4, FirstLineIs
    <2>6. n >= StartOf(f)
      BY <2>4 DEF IsHead
    <2> QED
      BY <2>4, <2>5, <2>6 DEF RuleLines
  <1>4. ASSUME NEW n \in LinesOf(g) PROVE n \in LinesFrom(c, StartOf(g))
    BY <1>3, <1>4 DEF LinesFrom
  <1>5. ASSUME NEW n \in LinesFrom(c, StartOf(g)) PROVE n \in LinesOf(g)
    <2>1. n \in 1..c.read /\ c.text[n].kind = "rule" /\ FirstLine(c, n) = StartOf(g)
      BY DEF LinesFrom, RuleLines
    <2>2. PICK f \in AllGroups(d) : n \in LinesOf(f)
      BY <2>1 DEF TextOK
    <2>3. StartOf(f) = StartOf(g)
      BY <1>3, <2>1, <2>2
    <2>4. f = g
      BY <2>3, GroupsApart
    <2> QED
      BY <2>2, <2>4
  <1> QED
    BY <1>4, <1>5

\* What the properties say of one stored array.
TogetherIn(c, array) ==
  /\ array # << >> => 1 \in Starts(array)
  /\ \A group \in StoredGroups(array) :
       /\ LinesOf(group) = LinesFrom(c, group[1].line)
       /\ \A r \in 2..Len(group) : group[r - 1].line < group[r].line
DefaultEnds(array) ==
  \A i, j \in Starts(array) : array[i].test.type = "default" => j <= i

\* The record of a load that stores what is in the load d.
Reports(c, d) == c.text = d.text /\ c.read = d.next - 1

\* A set of groups, and the array it is stored as.
StoredAs(groups, array) ==
  /\ StoredGroups(array) = {groups[i] : i \in 1..Len(groups)}
  /\ \A n : n \in LinesOf(array) <=> \E i \in 1..Len(groups) : n \in LinesOf(groups[i])
  /\ IsFiniteSet(LinesOf(array)) /\ Cardinality(LinesOf(array)) = Len(array)
  /\ \A i \in 1..Len(groups) : \E p \in DOMAIN array : array[p] = groups[i][1]

\* A set of groups of the text, sorted and copied to one array.
LEMMA SetStored ==
  ASSUME NEW d \in LoadState, TextOK(d), NEW c, Reports(c, d),
         NEW groups \in Groups, \A i \in 1..Len(groups) : groups[i] \in AllGroups(d),
         \A i, j \in 1..Len(groups) : StartOf(groups[i]) = StartOf(groups[j]) => i = j,
         NEW sorted \in Sorted(groups)
  PROVE  /\ TogetherIn(c, Coalesced(sorted))
         /\ Late(sorted) = 0 => DefaultEnds(Coalesced(sorted))
         /\ StoredAs(groups, Coalesced(sorted))
  <1> DEFINE array == Coalesced(sorted)
             N == Len(groups)
             text == d.text
             seen == d.next - 1
  <1>1. groups \in Seq(Seq(Rules)) /\ N \in Nat /\ seen \in Nat
    BY DEF Groups, LoadState
  <1>2. sorted \in Seq(Seq(Rules)) /\ \E p : Moved(groups, sorted, p)
    BY <1>1, SortedMoves
  <1>3. PICK p : Moved(groups, sorted, p)
    BY <1>2
  <1>4. Len(sorted) = N
    BY <1>3 DEF Moved
  <1>4a. p \in [1..N -> 1..N]
    BY <1>3 DEF Moved
  <1>4b. \A i \in 1..N : sorted[i] = groups[p[i]]
    BY <1>3 DEF Moved
  <1>4c. \A i, j \in 1..N : p[i] = p[j] => i = j
    BY <1>3 DEF Moved
  <1>4d. \A j \in 1..N : \E i \in 1..N : p[i] = j
    BY <1>3 DEF Moved
  <1>5. \A g \in AllGroups(d) : OfText(text, seen, g)
    BY DEF TextOK
  <1>6. \A i \in 1..N : groups[i] \in AllGroups(d)
    OBVIOUS
  <1>7. \A i, j \in 1..N : StartOf(groups[i]) = StartOf(groups[j]) => i = j
    OBVIOUS
  <1> HIDE DEF N, text, seen, array
  <1>8. ASSUME NEW j \in 1..N PROVE \E i \in 1..N : groups[j] = sorted[i]
    <2>1. PICK i \in 1..N : p[i] = j
      BY <1>4d
    <2> QED
      BY <1>4b, <2>1
  <1>9. \A i \in 1..N : p[i] \in 1..N
    BY <1>4a
  <1>10. ASSUME NEW j \in 1..N PROVE OfText(text, seen, sorted[j])
    <2>1. groups[p[j]] \in AllGroups(d)
      BY <1>6, <1>9
    <2> QED
      BY <1>4b, <1>5, <2>1
  <1>11. ASSUME NEW j \in 1..N, NEW k \in 1..N, StartOf(sorted[j]) = StartOf(sorted[k])
         PROVE  j = k
    <2>1. StartOf(groups[p[j]]) = StartOf(groups[p[k]])
      BY <1>4b, <1>11
    <2>2. p[j] = p[k]
      BY <1>7, <1>9, <2>1
    <2> QED
      BY <1>4c, <2>2
  <1>12. \A j \in 1..N : Proper(sorted[j])
    BY <1>10 DEF OfText
  <1>13. /\ StoredGroups(array) = {sorted[j] : j \in 1..N}
         /\ array # << >> => 1 \in Starts(array)
    <2>1. \A j \in 1..Len(sorted) : Proper(sorted[j])
      BY <1>4, <1>12
    <2>2. /\ StoredGroups(array) = {sorted[j] : j \in 1..Len(sorted)}
          /\ array # << >> => 1 \in Starts(array)
      BY <1>2, <2>1, StoredAreGroups DEF array
    <2> QED
      BY <1>4, <2>2
  <1>14. StoredGroups(array) = {groups[i] : i \in 1..N}
    <2>1. \A j \in 1..N : sorted[j] \in {groups[i] : i \in 1..N}
      BY <1>4b, <1>9
    <2>2. \A i \in 1..N : groups[i] \in {sorted[j] : j \in 1..N}
      BY <1>8
    <2> QED
      BY <1>13, <2>1, <2>2
  <1>15. TogetherIn(c, array)
    <2>1. ASSUME NEW g \in StoredGroups(array)
          PROVE  /\ LinesOf(g) = LinesFrom(c, g[1].line)
                 /\ \A r \in 2..Len(g) : g[r - 1].line < g[r].line
      <3>1. g \in AllGroups(d)
        BY <1>6, <1>14
      <3>2. LinesOf(g) = LinesFrom(c, StartOf(g))
        BY <3>1, GroupLines DEF Reports
      <3>3. OfText(text, seen, g)
        BY <1>5, <3>1
      <3>4. \A q, r \in 1..Len(g) : q < r => g[q].line < g[r].line
        BY <3>3 DEF OfText
      <3>5. g \in Seq(Rules)
        BY <3>3 DEF OfText
      <3>6. \A r \in 2..Len(g) : r - 1 \in 1..Len(g) /\ r \in 1..Len(g) /\ r - 1 < r
        BY <3>5
      <3> QED
        BY <3>2, <3>4, <3>6 DEF StartOf
    <2> QED
      BY <1>13, <2>1 DEF TogetherIn
  <1>16. ASSUME Late(sorted) = 0 PROVE DefaultEnds(array)
    <2>1. \A j \in 1..Len(sorted) : Proper(sorted[j])
      BY <1>4, <1>12
    <2> SUFFICES ASSUME NEW i \in Starts(array), NEW k \in Starts(array),
                        array[i].test.type = "default"
                 PROVE  k <= i
      BY DEF DefaultEnds
    <2> QED
      BY <1>2, <1>16, <2>1, NotLate DEF array
  <1>17. /\ \A j \in 1..Len(sorted) : OfText(text, seen, sorted[j])
         /\ \A j, k \in 1..Len(sorted) : StartOf(sorted[j]) = StartOf(sorted[k]) => j = k
    <2>1. \A j \in 1..N : OfText(text, seen, sorted[j])
      BY <1>10
    <2>2. \A j, k \in 1..N : StartOf(sorted[j]) = StartOf(sorted[k]) => j = k
      BY <1>11
    <2> QED
      BY <1>4, <2>1, <2>2
  <1>18. /\ \A j \in 1..Len(sorted) : \A r \in 1..Len(sorted[j]) :
              \E q \in 1..Len(array) : array[q] = sorted[j][r]
         /\ \A q \in 1..Len(array) :
              \E j \in 1..Len(sorted) : \E r \in 1..Len(sorted[j]) : array[q] = sorted[j][r]
         /\ \A q, r \in 1..Len(array) : array[q].line = array[r].line => q = r
         /\ array \in Seq(Rules)
    BY <1>1, <1>2, <1>17, PlacedLines DEF array
  <1>19. IsFiniteSet(LinesOf(array)) /\ Cardinality(LinesOf(array)) = Len(array)
    BY <1>18, LinesCount
  <1>20. DOMAIN array = 1..Len(array) /\ \A j \in 1..N : DOMAIN sorted[j] = 1..Len(sorted[j])
    BY <1>10, <1>18 DEF OfText
  <1>21. \A n \in LinesOf(array) : \E i \in 1..N : n \in LinesOf(groups[i])
    <2> SUFFICES ASSUME NEW q \in 1..Len(array)
                 PROVE  \E i \in 1..N : array[q].line \in LinesOf(groups[i])
      BY <1>20 DEF LinesOf
    <2>1. PICK j \in 1..N : \E r \in 1..Len(sorted[j]) : array[q] = sorted[j][r]
      BY <1>4, <1>18
    <2>2. array[q].line \in LinesOf(sorted[j])
      BY <1>20, <2>1 DEF LinesOf
    <2>3. array[q].line \in LinesOf(groups[p[j]])
      BY <1>4b, <2>2
    <2> QED
      BY <1>9, <2>3
  <1>22. ASSUME NEW i \in 1..N, NEW n \in LinesOf(groups[i]) PROVE n \in LinesOf(array)
    <2>1. PICK j \in 1..N : groups[i] = sorted[j]
      BY <1>8
    <2>2. PICK r \in 1..Len(sorted[j]) : n = sorted[j][r].line
      BY <1>20, <2>1 DEF LinesOf
    <2>3. PICK q \in 1..Len(array) : array[q] = sorted[j][r]
      BY <1>4, <1>18
    <2> QED
      BY <1>20, <2>2, <2>3 DEF LinesOf
  <1>23. ASSUME NEW i \in 1..N PROVE \E q \in DOMAIN array : array[q] = groups[i][1]
    <2>1. PICK j \in 1..N : groups[i] = sorted[j]
      BY <1>8
    <2>2. 1 \in 1..Len(sorted[j])
      BY <1>10, <1>12 DEF Proper, OfText
    <2>3. PICK q \in 1..Len(array) : array[q] = sorted[j][1]
      BY <1>4, <1>18, <2>2
    <2>4. q \in DOMAIN array
      BY <1>20
    <2> QED
      BY <2>1, <2>3, <2>4
  <1>24. StoredAs(groups, array)
    <2>1. \A n : n \in LinesOf(array) <=> \E i \in 1..N : n \in LinesOf(groups[i])
      BY <1>21, <1>22
    <2> QED
      BY <1>14, <1>19, <1>23, <2>1, Zenon DEF StoredAs, N
  <1> QED
    BY <1>15, <1>16, <1>24 DEF array

\* The sets that apprentice_load arranges: all the groups, or all but a lost one.
LEMMA SetsStored ==
  ASSUME NEW d \in LoadState, TextOK(d), NEW c, Reports(c, d),
         NEW sets \in [{1, 2} -> Groups], Filed(sets) \subseteq AllGroups(d), Apart(sets),
         NEW s \in {1, 2}, NEW sorted \in Sorted(sets[s])
  PROVE  /\ TogetherIn(c, Coalesced(sorted))
         /\ Late(sorted) = 0 => DefaultEnds(Coalesced(sorted))
         /\ StoredAs(sets[s], Coalesced(sorted))
  <1>1. sets[s] \in Groups
    OBVIOUS
  <1>2. \A i \in 1..Len(sets[s]) : sets[s][i] \in AllGroups(d)
    BY DEF Filed
  <1>3. \A i, j \in 1..Len(sets[s]) : StartOf(sets[s][i]) = StartOf(sets[s][j]) => i = j
    BY ApartFrom
  <1> DEFINE groups == sets[s]
  <1> HIDE DEF groups
  <1>4. /\ groups \in Groups /\ sorted \in Sorted(groups)
        /\ \A i \in 1..Len(groups) : groups[i] \in AllGroups(d)
        /\ \A i, j \in 1..Len(groups) : StartOf(groups[i]) = StartOf(groups[j]) => i = j
    BY <1>1, <1>2, <1>3 DEF groups
  <1> QED
    BY <1>4, SetStored DEF groups

\* The two arrays have every rule of the text when the two sets have every group.
LEMMA EveryRuleStored ==
  ASSUME NEW d \in LoadState, TextOK(d), NEW c, Reports(c, d),
         NEW sets, Filed(sets) = AllGroups(d), Apart(sets), NamesApart(sets),
         StoredAs(sets[1], c.arrays[1]), StoredAs(sets[2], c.arrays[2])
  PROVE  HasEveryRule(c)
  <1> DEFINE A == LinesOf(c.arrays[1])
             B == LinesOf(c.arrays[2])
  <1>1. d.next - 1 \in Nat /\ c.read \in Nat /\ c.read = d.next - 1 /\ c.text = d.text
    BY DEF LoadState, Reports
  <1>2. \A s \in {1, 2} : \A i \in 1..Len(sets[s]) : sets[s][i] \in AllGroups(d)
    BY DEF Filed
  <1>3. ASSUME NEW g \in AllGroups(d)
        PROVE  \E s \in {1, 2} : \E i \in 1..Len(sets[s]) : g = sets[s][i]
    <2>1. g \in Filed(sets)
      OBVIOUS
    <2> QED
      BY <2>1 DEF Filed
  <1>4. ASSUME NEW s \in {1, 2}, NEW n
        PROVE  n \in LinesOf(c.arrays[s]) <=> \E i \in 1..Len(sets[s]) : n \in LinesOf(sets[s][i])
    BY DEF StoredAs
  <1>5. ASSUME NEW g \in AllGroups(d), NEW n \in LinesOf(g)
        PROVE  n \in RuleLines(c) /\ IsHead(c.text, n, StartOf(g)) /\ n \in Nat
    <2>1. OfText(c.text, c.read, g)
      BY <1>1 DEF TextOK
    <2>2. DOMAIN g = 1..Len(g)
      BY <2>1 DEF OfText
    <2>3. PICK r \in 1..Len(g) : n = g[r].line
      BY <2>2 DEF LinesOf
    <2>4. n \in 1..c.read /\ c.text[n].kind = "rule" /\ IsHead(c.text, n, StartOf(g))
      BY <2>1, <2>3 DEF OfText
    <2> QED
      BY <2>4 DEF RuleLines
  <1>6. A \cup B = RuleLines(c)
    <2>1. ASSUME NEW s \in {1, 2}, NEW n \in LinesOf(c.arrays[s]) PROVE n \in RuleLines(c)
      <3>1. PICK i \in 1..Len(sets[s]) : n \in LinesOf(sets[s][i])
        BY <1>4
      <3> QED
        BY <1>2, <1>5, <3>1
    <2>2. ASSUME NEW n \in RuleLines(c) PROVE n \in A \cup B
      <3>1. n \in 1..(d.next - 1) /\ d.text[n].kind = "rule"
        BY <1>1 DEF RuleLines
      <3>2. PICK g \in AllGroups(d) : n \in LinesOf(g)
        BY <3>1 DEF TextOK
      <3>3. PICK s \in {1, 2} : \E i \in 1..Len(sets[s]) : g = sets[s][i]
        BY <1>3
      <3>4. n \in LinesOf(c.arrays[s])
        BY <1>4, <3>2, <3>3
      <3> QED
        BY <3>4
    <2> QED
      BY <2>1, <2>2
  <1>7. A \cap B = {}
    <2> SUFFICES ASSUME NEW n \in A, n \in B PROVE FALSE
      OBVIOUS
    <2>1. PICK i \in 1..Len(sets[1]) : n \in LinesOf(sets[1][i])
      BY <1>4
    <2>2. PICK j \in 1..Len(sets[2]) : n \in LinesOf(sets[2][j])
      BY <1>4
    <2>3. sets[1][i] \in AllGroups(d) /\ sets[2][j] \in AllGroups(d)
      BY <1>2
    <2>4. IsHead(c.text, n, StartOf(sets[1][i])) /\ IsHead(c.text, n, StartOf(sets[2][j])) /\ n \in Nat
      BY <1>5, <2>1, <2>2, <2>3
    <2>5. StartOf(sets[1][i]) = StartOf(sets[2][j])
      BY <2>4, OneHead
    <2>6. 1 = 2
      BY <2>5, ApartFrom
    <2> QED
      BY <2>6
  <1>8. Len(c.arrays[1]) + Len(c.arrays[2]) = Cardinality(RuleLines(c))
    <2>1. /\ IsFiniteSet(A) /\ Cardinality(A) = Len(c.arrays[1])
          /\ IsFiniteSet(B) /\ Cardinality(B) = Len(c.arrays[2])
      BY DEF StoredAs
    <2> HIDE DEF A, B
    <2>2. Cardinality(A \cup B) = Cardinality(A) + Cardinality(B) - Cardinality(A \cap B)
      BY <2>1, FS_Union
    <2>3. Cardinality(A \cap B) = 0
      BY <1>7, FS_EmptySet
    <2>4. Cardinality(A) \in Nat /\ Cardinality(B) \in Nat
      BY <2>1, FS_CardinalityType
    <2>5. Cardinality(A \cup B) = Cardinality(A) + Cardinality(B)
      <3> DEFINE a == Cardinality(A)
                 b == Cardinality(B)
                 u == Cardinality(A \cup B)
                 z == Cardinality(A \cap B)
      <3>1. u = a + b - z /\ z = 0 /\ a \in Nat /\ b \in Nat
        BY <2>2, <2>3, <2>4
      <3> HIDE DEF a, b, u, z
      <3>2. u = a + b
        BY <3>1
      <3> QED
        BY <3>2 DEF a, b, u
    <2>6. Cardinality(RuleLines(c)) = Cardinality(A) + Cardinality(B)
      BY <1>6, <2>5
    <2> QED
      BY <2>1, <2>6
  <1>9. /\ \A group \in StoredGroups(c.arrays[1]) : group[1].test.type # "name"
        /\ \A group \in StoredGroups(c.arrays[2]) : group[1].test.type = "name"
    BY DEF StoredAs, NamesApart
  <1>10. ASSUME NEW n \in 1..c.read, c.text[n].kind = "strength", c.text[n].factor.op # "none"
         PROVE  \E s \in {1, 2} : \E r \in DOMAIN c.arrays[s] :
                  /\ c.arrays[s][r].line = FirstLine(c, n)
                  /\ c.arrays[s][r].factor = c.text[n].factor
    <2>1. n \in 1..(d.next - 1) /\ IsAnnotation(d.text[n])
      BY <1>1, <1>10 DEF IsAnnotation
    <2>2. PICK g \in AllGroups(d) : Annotates(d.text, n, g)
      BY <2>1 DEF TextOK
    <2>3. IsHead(c.text, n, StartOf(g)) /\ g[1].factor = c.text[n].factor
      BY <1>1, <2>2 DEF Annotates
    <2>4. FirstLine(c, n) = StartOf(g)
      BY <1>1, <2>3, FirstLineIs
    <2>5. PICK s \in {1, 2} : \E i \in 1..Len(sets[s]) : g = sets[s][i]
      BY <1>3
    <2>6. \E r \in DOMAIN c.arrays[s] : c.arrays[s][r] = g[1]
      BY <2>5 DEF StoredAs
    <2> QED
      BY <2>3, <2>4, <2>6 DEF StartOf
  <1> QED
    BY <1>6, <1>8, <1>9, <1>10 DEF HasEveryRule

-----------------------------------------------------------------------------
\* As long as a load has met no error, every line is where it belongs.
TextInv == \A h \in Handles : Loading(h) /\ load[h].errs = 0 => TextOK(load[h])

\* A load that begins has read no line.
LEMMA NewLoadOK ==
  ASSUME NEW text, NEW source
  PROVE  TextOK([phase |-> "line", text |-> text, source |-> source, next |-> 1,
                 me |-> << >>, sets |-> NoSets, errs |-> 0, lost |-> FALSE])
  <1> DEFINE e == [phase |-> "line", text |-> text, source |-> source, next |-> 1,
                   me |-> << >>, sets |-> NoSets, errs |-> 0, lost |-> FALSE]
  <1>1. e.next = 1 /\ e.me = << >> /\ e.sets = NoSets
    OBVIOUS
  <1> HIDE DEF e
  <1>2. Len(NoSets[1]) = 0 /\ Len(NoSets[2]) = 0
    BY DEF NoSets
  <1>3. AllGroups(e) = {}
    BY <1>1, <1>2 DEF AllGroups, Filed
  <1>4. \A n \in 1..(e.next - 1) : FALSE
    BY <1>1
  <1>5. Apart(e.sets) /\ NamesApart(e.sets)
    BY <1>1, <1>2 DEF Apart, NamesApart
  <1>6. TextOK(e)
    BY <1>1, <1>3, <1>4, <1>5 DEF TextOK
  <1> QED
    BY <1>6 DEF e

LEMMA TextOfNext ==
  (\A h \in Handles : load'[h].phase # "idle" /\ load'[h].errs = 0 => TextOK(load'[h]))
    => TextInv'
  BY Zenon DEF TextInv, Loading, TextOK, AllGroups, Filed, Apart, NamesApart, OfText, Proper, IsHead,
         StartOf, Annotates, IsAnnotation, LinesOf

\* A step of one handle that leaves its load in a state where the lines belong.
LEMMA TextPut ==
  ASSUME TypeOK, TextInv, NEW h \in Handles, NEW e, Put(h, e),
         e.phase # "idle" /\ e.errs = 0 => TextOK(e)
  PROVE  TextInv'
  <1>1. load'[h] = e /\ \A g \in Handles \ {h} : load'[g] = load[g]
    BY DEF Put, TypeOK
  <1>2. ASSUME NEW g \in Handles, load'[g].phase # "idle", load'[g].errs = 0
        PROVE  TextOK(load'[g])
    <2>1. CASE g = h
      BY <1>1, <1>2, <2>1
    <2>2. CASE g # h
      BY <1>1, <1>2, <2>2 DEF TextInv, Loading
    <2> QED
      BY <2>1, <2>2
  <1> QED
    BY <1>2, TextOfNext

LEMMA TextInit == Init => TextInv
  BY DEF Init, TextInv, Loading, Idle

LEMMA StepPuts ==
  ASSUME TypeOK, NEW h \in Handles, ReadLine(h) \/ Parse(h)
  PROVE  Put(h, load'[h])
  <1>1. CASE ReadLine(h)
    <2>1. \E x : Put(h, x)
      BY <1>1, ReadLineReads DEF Reads
    <2> QED
      BY <2>1 DEF Put, TypeOK
  <1>2. CASE Parse(h)
    <2>1. \E x : Put(h, x)
      BY <1>2, Zenon DEF Parse, ParseGroup, ParseContinuation, FinishRule, RejectLine
    <2> QED
      BY <2>1 DEF Put, TypeOK
  <1> QED
    BY <1>1, <1>2

\* Every step keeps the lines where they belong.
LEMMA TextStep ==
  ASSUME LevelsFit, TypeOK, TextInv, [Next]_vars
  PROVE  TextInv'
  <1>1. ASSUME NEW h \in Handles, Begin(h) PROVE TextInv'
    <2>1. PICK text \in Texts, source \in Sources :
            Put(h, [phase |-> "line", text |-> text, source |-> source, next |-> 1,
                    me |-> << >>, sets |-> NoSets, errs |-> 0, lost |-> FALSE])
      BY <1>1 DEF Begin
    <2> DEFINE e == [phase |-> "line", text |-> text, source |-> source, next |-> 1,
                     me |-> << >>, sets |-> NoSets, errs |-> 0, lost |-> FALSE]
    <2>2. TextOK(e) /\ Put(h, e)
      BY <2>1, NewLoadOK
    <2> HIDE DEF e
    <2> QED
      BY <2>2, TextPut
  <1>2. ASSUME NEW h \in Handles, ReadLine(h) \/ Parse(h) PROVE TextInv'
    <2> DEFINE e == load'[h]
    <2>2. Put(h, e)
      BY <1>2, StepPuts
    <2>3. ASSUME e.errs = 0 PROVE TextOK(e)
      <3>1. /\ Loading(h) /\ load[h] \in LoadState /\ load[h].errs = 0
            /\ StandsOn(h) \in Line /\ Kinds(h, load[h], e)
        BY <1>2, <2>3, ReadLineKinds, ParseKinds
      <3>2. TextOK(load[h])
        BY <3>1, Zenon DEF TextInv
      <3> HIDE DEF e
      <3> QED
        BY <3>1, <3>2, KindsOK
    <2> HIDE DEF e
    <2> QED
      BY <2>2, <2>3, TextPut
  <1>3. ASSUME NEW h \in Handles, Finish(h) PROVE TextInv'
    <2>1. Put(h, Idle)
      BY <1>3, Zenon DEF Finish
    <2>2. Idle.phase = "idle"
      BY DEF Idle
    <2> QED
      BY <2>1, <2>2, TextPut, Zenon
  <1>4. CASE UNCHANGED vars
    <2>1. load' = load
      BY <1>4 DEF vars
    <2>2. \A h \in Handles : load[h].phase # "idle" /\ load[h].errs = 0 => TextOK(load[h])
      BY Zenon DEF TextInv, Loading
    <2>3. \A h \in Handles : load'[h].phase # "idle" /\ load'[h].errs = 0 => TextOK(load'[h])
      BY <2>1, <2>2, Zenon
    <2> QED
      BY <2>3, TextOfNext, Zenon
  <1> QED
    BY <1>1, <1>2, <1>3, <1>4 DEF Next, Step, Done

-----------------------------------------------------------------------------
\* No warning is taken back.
WarnStays == \A g \in Handles : magwarn'[g] = 0 => magwarn[g] = 0

LEMMA WarnAdds ==
  ASSUME TypeOK, NEW h \in Handles, NEW n \in Nat, Warn(h, n)
  PROVE  WarnStays /\ magwarn'[h] = magwarn[h] + n /\ magwarn[h] \in Nat
  <1>1. magwarn[h] \in Nat /\ magwarn'[h] = magwarn[h] + n
    BY DEF TypeOK, Warn
  <1>2. \A g \in Handles \ {h} : magwarn'[g] = magwarn[g]
    BY DEF TypeOK, Warn
  <1>3. ASSUME NEW g \in Handles, magwarn'[g] = 0 PROVE magwarn[g] = 0
    <2>1. CASE g = h
      BY <1>1, <1>3, <2>1
    <2>2. CASE g # h
      BY <1>2, <1>3, <2>2
    <2> QED
      BY <2>1, <2>2
  <1> QED
    BY <1>1, <1>3 DEF WarnStays

\* No step takes a warning back.
LEMMA WarningsStay ==
  ASSUME TypeOK, [Next]_vars
  PROVE  WarnStays
  <1>0. ASSUME UNCHANGED magwarn PROVE WarnStays
    BY <1>0 DEF WarnStays
  <1>1. ASSUME NEW h \in Handles, ReadLine(h) PROVE WarnStays
    <2>1. StandsOn(h) \in Line
      BY <1>1, ReadLineReads
    <2>2. StandsOn(h).warns \in Nat
      BY <2>1, LineType
    <2>3. ASSUME SkipLine(h) PROVE \E n \in Nat : Warn(h, n)
      <3>1. \E n \in {0, StandsOn(h).warns} : Warn(h, n)
        BY <2>3 DEF SkipLine, StandsOn
      <3>2. \A n \in {0, StandsOn(h).warns} : n \in Nat
        BY <2>2
      <3> QED
        BY <3>1, <3>2, Zenon
    <2>4. ASSUME ReadStrength(h) PROVE UNCHANGED magwarn \/ Warn(h, 1)
      BY <2>4 DEF ReadStrength
    <2>5. (\E n \in Nat : Warn(h, n)) \/ UNCHANGED magwarn
      BY <1>1, <2>3, <2>4 DEF ReadLine
    <2> QED
      BY <1>0, <2>5, WarnAdds
  <1>2. ASSUME NEW h \in Handles, Parse(h) PROVE WarnStays
    <2>1. StandsOn(h) \in Line
      BY <1>2, LoadingType DEF Parse, Loading, StandsOn
    <2>2. StandsOn(h).warns \in {0, 1}
      BY <2>1, LineType
    <2>3. ASSUME FinishRule(h, load[h]) PROVE \E n \in Nat : Warn(h, n)
      <3> DEFINE w == StandsOn(h).warns
      <3>1. Warn(h, 1) \/ Warn(h, w) \/ Warn(h, 1 + 1) \/ Warn(h, w + 1)
        BY <2>3, Zenon DEF FinishRule, StandsOn
      <3>2. w \in Nat /\ w + 1 \in Nat /\ 1 \in Nat /\ 1 + 1 \in Nat
        BY <2>2
      <3> QED
        BY <3>1, <3>2, Zenon
    <2>4. (\E n \in Nat : Warn(h, n)) \/ UNCHANGED magwarn
      BY <1>2, <2>3 DEF Parse, ParseGroup, ParseContinuation
    <2> QED
      BY <1>0, <2>4, WarnAdds
  <1>3. ASSUME NEW h \in Handles, Finish(h) PROVE WarnStays
    <2>1. ASSUME NEW e, Arrange(h, e) PROVE \E n \in Nat : Warn(h, n)
      <3>1. PICK first, second : \/ Warn(h, Late(first) + Late(second))
                                 \/ Warn(h, Late(first))
        BY <2>1, Zenon DEF Arrange
      <3>2. Late(first) \in Nat /\ Late(second) \in Nat
        BY DEF Late
      <3>3. Late(first) + Late(second) \in Nat
        BY <3>2
      <3> QED
        BY <3>1, <3>2, <3>3, Zenon
    <2>2. (\E n \in Nat : Warn(h, n)) \/ UNCHANGED magwarn
      BY <1>3, <2>1 DEF Finish
    <2> QED
      BY <1>0, <2>2, WarnAdds
  <1>4. ASSUME NEW h \in Handles, Begin(h) PROVE WarnStays
    BY <1>0, <1>4 DEF Begin
  <1>5. CASE UNCHANGED vars
    BY <1>0, <1>5 DEF vars
  <1> QED
    BY <1>1, <1>2, <1>3, <1>4, <1>5 DEF Next, Step, Done

-----------------------------------------------------------------------------
\* What a load that ended left.
Results == [text : Texts, source : Sources, read : Nat, errs : {0, 1}, lost : BOOLEAN,
            arrays : Seq(Seq(Rules))]
Result(d, errs, arrays) ==
  [text |-> d.text, source |-> d.source, read |-> d.next - 1, errs |-> errs, lost |-> d.lost,
   arrays |-> arrays]

\* The three properties of one result, given by a handle that warned n times.
ResultOK(c, n) ==
  /\ \A s \in {1, 2} : TogetherIn(c, c.arrays[s])
  /\ c.source = "file" /\ c.errs = 0 /\ ~c.lost /\ c.read = Len(c.text) => HasEveryRule(c)
  /\ n = 0 => \A s \in {1, 2} : DefaultEnds(c.arrays[s])
ResultsOK ==
  /\ loaded \in [Handles -> Seq(Results)]
  /\ \A h \in Handles : \A k \in DOMAIN loaded[h] : ResultOK(loaded[h][k], magwarn[h])

LEMMA ResultType ==
  ASSUME NEW d \in LoadState, NEW errs \in {0, 1}, NEW arrays \in Seq(Seq(Rules))
  PROVE  Result(d, errs, arrays) \in Results
  <1>1. d.next - 1 \in Nat
    BY DEF LoadState
  <1>2. d.text \in Texts /\ d.source \in Sources /\ d.lost \in BOOLEAN
    BY DEF LoadState
  <1> QED
    BY <1>1, <1>2 DEF Result, Results

\* A load that keeps nothing has nothing out of place.
LEMMA NothingKept ==
  /\ NoArrays \in Seq(Seq(Rules))
  /\ \A d, n : ResultOK(Result(d, 1, NoArrays), n)
  <1>1. << >> \in Seq(Rules)
    OBVIOUS
  <1>2. NoArrays \in Seq(Seq(Rules)) /\ \A s \in {1, 2} : NoArrays[s] = << >>
    BY <1>1 DEF NoArrays
  <1>3. Starts(<< >>) = {}
    BY DEF Starts
  <1>4. StoredGroups(<< >>) = {}
    BY <1>3 DEF StoredGroups
  <1>5. \A c : TogetherIn(c, << >>) /\ DefaultEnds(<< >>)
    BY <1>3, <1>4 DEF TogetherIn, DefaultEnds
  <1>6. ASSUME NEW d, NEW n PROVE ResultOK(Result(d, 1, NoArrays), n)
    <2> DEFINE c == Result(d, 1, NoArrays)
    <2>1. c.errs = 1 /\ c.arrays = NoArrays
      BY DEF Result
    <2> HIDE DEF c
    <2>2. \A s \in {1, 2} : TogetherIn(c, c.arrays[s]) /\ DefaultEnds(c.arrays[s])
      BY <1>2, <1>5, <2>1
    <2>3. ResultOK(c, n)
      BY <2>1, <2>2 DEF ResultOK
    <2> QED
      BY <2>3 DEF c
  <1> QED
    BY <1>2, <1>6

\* The warnings that come later do not matter.
LEMMA ResultStays ==
  ASSUME NEW c, NEW m, NEW n, ResultOK(c, m), n = 0 => m = 0
  PROVE  ResultOK(c, n)
  BY DEF ResultOK

\* What is handed over to be arranged: all the groups of the text, or all but the
\* pending one that was lost.
Complete(d, e) ==
  /\ e \in LoadState /\ e.text = d.text /\ e.next = d.next
  /\ Filed(e.sets) \subseteq AllGroups(d) /\ Apart(e.sets) /\ NamesApart(e.sets)
  /\ ~e.lost => Filed(e.sets) = AllGroups(d)

LEMMA EndingComplete ==
  ASSUME NEW d \in LoadState, TextOK(d), NEW e,
         \/ d.me = << >> /\ e = d
         \/ d.me # << >> /\ e = [d EXCEPT !.lost = TRUE]
         \/ d.me # << >> /\ e = AddEntry(d)
  PROVE  Complete(d, e)
  <1>1. Filed(d.sets) \subseteq AllGroups(d) /\ Apart(d.sets) /\ NamesApart(d.sets)
    BY DEF AllGroups, TextOK
  <1>2. CASE d.me = << >> /\ e = d
    <2>1. Filed(d.sets) = AllGroups(d)
      BY <1>2 DEF AllGroups
    <2> QED
      BY <1>1, <1>2, <2>1 DEF Complete
  <1>3. CASE d.me # << >> /\ e = [d EXCEPT !.lost = TRUE]
    <2> DEFINE x == [d EXCEPT !.lost = TRUE]
    <2>1. x \in LoadState /\ x.text = d.text /\ x.next = d.next /\ x.sets = d.sets /\ x.lost
      BY DEF LoadState
    <2> HIDE DEF x
    <2>2. Complete(d, x)
      BY <1>1, <2>1 DEF Complete
    <2> QED
      BY <1>3, <2>2 DEF x
  <1>4. CASE d.me # << >> /\ e = AddEntry(d)
    <2> DEFINE x == AddEntry(d)
    <2>1. x \in LoadState /\ x.text = d.text /\ x.next = d.next
      BY AddEntryType
    <2>2. x.sets = AddTo(d.sets, d.me)
      BY DEF AddEntry, LoadState
    <2> HIDE DEF x
    <2>3. Filed(x.sets) = AllGroups(d) /\ Apart(x.sets) /\ NamesApart(x.sets)
      BY <1>4, <2>2, FiledAll
    <2>4. Complete(d, x)
      BY <2>1, <2>3 DEF Complete
    <2> QED
      BY <1>4, <2>4 DEF x
  <1> QED
    BY <1>2, <1>3, <1>4

\* The groups of a text, arranged: each set in one array.
LEMMA ArrangedOK ==
  ASSUME NEW d \in LoadState, TextOK(d), NEW e, Complete(d, e),
         NEW first \in Sorted(e.sets[1]), NEW second \in Sorted(e.sets[2]),
         NEW n, n = 0 => Late(first) = 0 /\ Late(second) = 0
  PROVE  LET c == Result(e, 0, <<Coalesced(first), Coalesced(second)>>)
         IN c \in Results /\ ResultOK(c, n)
  <1> DEFINE arrays == <<Coalesced(first), Coalesced(second)>>
             c == Result(e, 0, arrays)
             sets == e.sets
  <1>1. sets \in [{1, 2} -> Groups]
    BY DEF Complete, LoadState
  <1>2. Filed(sets) \subseteq AllGroups(d) /\ Apart(sets) /\ NamesApart(sets)
    BY DEF Complete
  <1>3. c.arrays = arrays /\ c.text = e.text /\ c.read = e.next - 1 /\ c.lost = e.lost
    BY DEF Result
  <1>4. arrays[1] = Coalesced(first) /\ arrays[2] = Coalesced(second)
    OBVIOUS
  <1>5. Reports(c, d)
    BY <1>3 DEF Complete, Reports
  <1>6. first \in Sorted(sets[1]) /\ second \in Sorted(sets[2])
    OBVIOUS
  <1>a. sets[1] \in Seq(Seq(Rules)) /\ sets[2] \in Seq(Seq(Rules))
    BY <1>1 DEF Groups
  <1>7. Coalesced(first) \in Seq(Rules) /\ Coalesced(second) \in Seq(Rules)
    <2>1. first \in Seq(Seq(Rules)) /\ second \in Seq(Seq(Rules))
      BY <1>6, <1>a, SortedMoves
    <2> QED
      BY <2>1, CoalescedPlaces
  <1>8. arrays \in Seq(Seq(Rules))
    BY <1>7
  <1>9. c \in Results
    BY <1>8, ResultType DEF Complete
  <1> HIDE DEF c, arrays, sets
  <1>10. /\ TogetherIn(c, Coalesced(first)) /\ TogetherIn(c, Coalesced(second))
         /\ Late(first) = 0 => DefaultEnds(Coalesced(first))
         /\ Late(second) = 0 => DefaultEnds(Coalesced(second))
         /\ StoredAs(sets[1], Coalesced(first)) /\ StoredAs(sets[2], Coalesced(second))
    BY <1>1, <1>2, <1>5, <1>6, SetsStored
  <1>11. \A s \in {1, 2} : TogetherIn(c, c.arrays[s])
    BY <1>3, <1>4, <1>10
  <1>12. n = 0 => \A s \in {1, 2} : DefaultEnds(c.arrays[s])
    BY <1>3, <1>4, <1>10
  <1>13. ~c.lost => HasEveryRule(c)
    <2> SUFFICES ASSUME ~c.lost PROVE HasEveryRule(c)
      OBVIOUS
    <2>1. Filed(sets) = AllGroups(d)
      BY <1>3 DEF Complete, sets
    <2>2. StoredAs(sets[1], c.arrays[1]) /\ StoredAs(sets[2], c.arrays[2])
      BY <1>3, <1>4, <1>10
    <2> QED
      BY <1>2, <1>5, <2>1, <2>2, EveryRuleStored
  <1>14. ResultOK(c, n)
    BY <1>11, <1>12, <1>13 DEF ResultOK
  <1> QED
    BY <1>9, <1>14 DEF c, arrays

LEMMA ResultsOfNext ==
  /\ loaded' \in [Handles -> Seq(Results)]
  /\ \A h \in Handles : \A k \in DOMAIN loaded'[h] : ResultOK(loaded'[h][k], magwarn'[h])
  => ResultsOK'
  BY Zenon DEF ResultsOK, ResultOK, TogetherIn, DefaultEnds, HasEveryRule, StoredGroups, GroupAt,
               Starts, LinesFrom, LinesOf, FirstLine, RuleLines

\* What is left of a load comes after what was left before.
LEMMA EndsAdds ==
  ASSUME loaded \in [Handles -> Seq(Results)], NEW h \in Handles, NEW d, NEW errs, NEW arrays,
         Ends(h, d, errs, arrays), Result(d, errs, arrays) \in Results
  PROVE  /\ loaded' \in [Handles -> Seq(Results)]
         /\ \A g \in Handles : \A k \in DOMAIN loaded'[g] :
              \/ k \in DOMAIN loaded[g] /\ loaded'[g][k] = loaded[g][k]
              \/ g = h /\ loaded'[g][k] = Result(d, errs, arrays)
  <1> DEFINE c == Result(d, errs, arrays)
             L == Len(loaded[h])
  <1>1. loaded' = [loaded EXCEPT ![h] = Append(loaded[h], c)]
    BY DEF Ends, Result
  <1>2. c \in Results
    OBVIOUS
  <1> HIDE DEF c
  <1>3. Append(loaded[h], c) \in Seq(Results)
    BY <1>2
  <1>4. loaded' \in [Handles -> Seq(Results)]
    BY <1>1, <1>3
  <1>5. loaded'[h] = Append(loaded[h], c) /\ \A g \in Handles \ {h} : loaded'[g] = loaded[g]
    BY <1>1
  <1>6. loaded[h] \in Seq(Results) /\ L \in Nat
    OBVIOUS
  <1>7. /\ DOMAIN loaded[h] = 1..L /\ DOMAIN loaded'[h] = 1..(L + 1)
        /\ \A k \in 1..L : loaded'[h][k] = loaded[h][k]
        /\ loaded'[h][L + 1] = c
    BY <1>2, <1>5, <1>6, AppendProperties
  <1> HIDE DEF L
  <1>8. ASSUME NEW g \in Handles, NEW k \in DOMAIN loaded'[g]
        PROVE  \/ k \in DOMAIN loaded[g] /\ loaded'[g][k] = loaded[g][k]
               \/ g = h /\ loaded'[g][k] = c
    <2>1. CASE g # h
      BY <1>5, <2>1
    <2>2. CASE g = h
      <3>1. k \in 1..L \/ k = L + 1
        BY <1>6, <1>7, <2>2
      <3> QED
        BY <1>7, <2>2, <3>1
    <2> QED
      BY <2>1, <2>2
  <1> QED
    BY <1>4, <1>8 DEF c

\* A result in order is added to those before.
LEMMA ResultAdded ==
  ASSUME ResultsOK, WarnStays, NEW h \in Handles, NEW d, NEW errs, NEW arrays,
         Ends(h, d, errs, arrays), Result(d, errs, arrays) \in Results,
         ResultOK(Result(d, errs, arrays), magwarn'[h])
  PROVE  ResultsOK'
  <1>1. loaded \in [Handles -> Seq(Results)]
    BY DEF ResultsOK
  <1>2. /\ loaded' \in [Handles -> Seq(Results)]
        /\ \A g \in Handles : \A k \in DOMAIN loaded'[g] :
             \/ k \in DOMAIN loaded[g] /\ loaded'[g][k] = loaded[g][k]
             \/ g = h /\ loaded'[g][k] = Result(d, errs, arrays)
    BY <1>1, EndsAdds
  <1>3. ASSUME NEW g \in Handles, NEW k \in DOMAIN loaded[g]
        PROVE  ResultOK(loaded[g][k], magwarn'[g])
    <2>1. ResultOK(loaded[g][k], magwarn[g])
      BY DEF ResultsOK
    <2>2. magwarn'[g] = 0 => magwarn[g] = 0
      BY DEF WarnStays
    <2> QED
      BY <2>1, <2>2, ResultStays
  <1>4. \A g \in Handles : \A k \in DOMAIN loaded'[g] : ResultOK(loaded'[g][k], magwarn'[g])
    BY <1>2, <1>3
  <1> QED
    BY <1>2, <1>4, ResultsOfNext

LEMMA ResultsKept ==
  ASSUME ResultsOK, WarnStays, loaded' = loaded
  PROVE  ResultsOK'
  <1>1. loaded' \in [Handles -> Seq(Results)]
    BY DEF ResultsOK
  <1>2. ASSUME NEW g \in Handles, NEW k \in DOMAIN loaded[g]
        PROVE  ResultOK(loaded[g][k], magwarn'[g])
    <2>1. ResultOK(loaded[g][k], magwarn[g])
      BY DEF ResultsOK
    <2>2. magwarn'[g] = 0 => magwarn[g] = 0
      BY DEF WarnStays
    <2> QED
      BY <2>1, <2>2, ResultStays
  <1>3. \A g \in Handles : \A k \in DOMAIN loaded'[g] : ResultOK(loaded'[g][k], magwarn'[g])
    BY <1>2
  <1> QED
    BY <1>1, <1>3, ResultsOfNext

LEMMA LateCounts ==
  ASSUME NEW a, NEW b, NEW m \in Nat, m + (Late(a) + Late(b)) = 0
  PROVE  Late(a) = 0 /\ Late(b) = 0
  <1>1. Late(a) \in {0, 1} /\ Late(b) \in {0, 1}
    BY DEF Late
  <1> QED
    BY <1>1

\* The end of a load leaves a result in which everything has its place.
LEMMA ArrangeOK ==
  ASSUME TypeOK, ResultsOK, NEW h \in Handles, NEW d \in LoadState, TextOK(d),
         NEW e, Complete(d, e), Arrange(h, e)
  PROVE  ResultsOK'
  <1>1. PICK first \in Sorted(e.sets[1]) : \E second \in Sorted(e.sets[2]) :
          \/ /\ Ends(h, e, 0, <<Coalesced(first), Coalesced(second)>>)
             /\ Warn(h, Late(first) + Late(second))
          \/ /\ Ends(h, e, 1, NoArrays)
             /\ Warn(h, Late(first)) \/ Warn(h, Late(first) + Late(second))
    BY Zenon DEF Arrange
  <1>2. PICK second \in Sorted(e.sets[2]) :
          \/ /\ Ends(h, e, 0, <<Coalesced(first), Coalesced(second)>>)
             /\ Warn(h, Late(first) + Late(second))
          \/ /\ Ends(h, e, 1, NoArrays)
             /\ Warn(h, Late(first)) \/ Warn(h, Late(first) + Late(second))
    BY <1>1
  <1>3. Late(first) \in Nat /\ Late(first) + Late(second) \in Nat
    <2>1. Late(first) \in Nat /\ Late(second) \in Nat
      BY DEF Late
    <2> QED
      BY <2>1
  <1>4. CASE /\ Ends(h, e, 0, <<Coalesced(first), Coalesced(second)>>)
             /\ Warn(h, Late(first) + Late(second))
    <2>1. /\ WarnStays /\ magwarn[h] \in Nat
          /\ magwarn'[h] = magwarn[h] + (Late(first) + Late(second))
      BY <1>3, <1>4, WarnAdds
    <2>2. magwarn'[h] = 0 => Late(first) = 0 /\ Late(second) = 0
      BY <2>1, LateCounts
    <2> DEFINE n == magwarn'[h]
               arrays == <<Coalesced(first), Coalesced(second)>>
    <2>3. n = 0 => Late(first) = 0 /\ Late(second) = 0
      BY <2>2
    <2> HIDE DEF n
    <2>4. Result(e, 0, arrays) \in Results /\ ResultOK(Result(e, 0, arrays), n)
      BY <2>3, ArrangedOK
    <2>5. Ends(h, e, 0, arrays)
      BY <1>4
    <2> HIDE DEF arrays
    <2> QED
      BY <2>1, <2>4, <2>5, ResultAdded, Zenon DEF n
  <1>5. CASE /\ Ends(h, e, 1, NoArrays)
             /\ Warn(h, Late(first)) \/ Warn(h, Late(first) + Late(second))
    <2>1. WarnStays
      BY <1>3, <1>5, WarnAdds
    <2>2. Result(e, 1, NoArrays) \in Results
      BY NothingKept, ResultType DEF Complete
    <2> QED
      BY <1>5, <2>1, <2>2, NothingKept, ResultAdded
  <1> QED
    BY <1>2, <1>4, <1>5

\* How a load that is not idle ends: with all that is left of it, or with nothing.
LEMMA FinishEnds ==
  ASSUME TypeOK, TextInv, NEW h \in Handles, Finish(h)
  PROVE  /\ Loading(h) /\ load[h] \in LoadState
         /\ load[h].errs = 0 => TextOK(load[h])
         /\ \E e \in LoadState :
              \/ load[h].errs = 0 /\ Complete(load[h], e) /\ Arrange(h, e)
              \/ Ends(h, e, 1, NoArrays) /\ UNCHANGED magwarn
  <1> DEFINE d == load[h]
  <1>1. Loading(h) /\ d \in LoadState
    BY LoadingType DEF Finish, Loading
  <1>2. PICK oom \in Oom :
          LET e == IF d.me = << >> THEN d
                   ELSE IF oom THEN [d EXCEPT !.lost = TRUE] ELSE AddEntry(d)
          IN \/ d.errs = 0 /\ Arrange(h, e)
             \/ d.errs # 0 /\ Ends(h, e, d.errs, NoArrays) /\ UNCHANGED magwarn
    BY Zenon DEF Finish
  <1> DEFINE e == IF d.me = << >> THEN d
                  ELSE IF oom THEN [d EXCEPT !.lost = TRUE] ELSE AddEntry(d)
  <1>3. \/ d.me = << >> /\ e = d
        \/ d.me # << >> /\ e = [d EXCEPT !.lost = TRUE]
        \/ d.me # << >> /\ e = AddEntry(d)
    OBVIOUS
  <1>4. \/ d.errs = 0 /\ Arrange(h, e)
        \/ d.errs = 1 /\ Ends(h, e, 1, NoArrays) /\ UNCHANGED magwarn
    BY <1>1, <1>2 DEF LoadState
  <1>5. e \in LoadState
    BY <1>1, <1>3, AddEntryType DEF LoadState
  <1>6. d.errs = 0 => TextOK(d)
    BY <1>1, Zenon DEF TextInv
  <1> HIDE DEF e, d
  <1>7. d.errs = 0 => Complete(d, e)
    BY <1>1, <1>3, <1>6, EndingComplete
  <1>8. \/ d.errs = 0 /\ Complete(d, e) /\ Arrange(h, e)
        \/ Ends(h, e, 1, NoArrays) /\ UNCHANGED magwarn
    BY <1>4, <1>7
  <1> QED
    BY <1>1, <1>5, <1>6, <1>8 DEF d

\* Finish leaves a result in order.
LEMMA FinishOK ==
  ASSUME TypeOK, TextInv, ResultsOK, NEW h \in Handles, Finish(h)
  PROVE  ResultsOK'
  <1>1. load[h] \in LoadState /\ (load[h].errs = 0 => TextOK(load[h]))
    BY FinishEnds
  <1>2. PICK e \in LoadState :
          \/ load[h].errs = 0 /\ Complete(load[h], e) /\ Arrange(h, e)
          \/ Ends(h, e, 1, NoArrays) /\ UNCHANGED magwarn
    BY FinishEnds
  <1>3. CASE load[h].errs = 0 /\ Complete(load[h], e) /\ Arrange(h, e)
    BY <1>1, <1>3, ArrangeOK
  <1>4. CASE Ends(h, e, 1, NoArrays) /\ UNCHANGED magwarn
    <2>1. WarnStays
      BY <1>4 DEF WarnStays
    <2>2. Result(e, 1, NoArrays) \in Results
      BY NothingKept, ResultType
    <2> QED
      BY <1>4, <2>1, <2>2, NothingKept, ResultAdded
  <1> QED
    BY <1>2, <1>3, <1>4

\* The inductive invariant: while a load goes on each line is where it belongs, and
\* what the loads that ended left is in order.
OrderInv == TypeOK /\ TextInv /\ ResultsOK

LEMMA OrderInit == Init => OrderInv
  <1> SUFFICES ASSUME Init PROVE OrderInv
    OBVIOUS
  <1>1. << >> \in Seq(Results)
    OBVIOUS
  <1>2. loaded = [h \in Handles |-> << >>]
    BY DEF Init
  <1>3. ResultsOK
    BY <1>1, <1>2 DEF ResultsOK
  <1> QED
    BY <1>3, TypeInit, TextInit DEF OrderInv

\* Every step keeps the invariant.
LEMMA OrderNext ==
  ASSUME LevelsFit, OrderInv, [Next]_vars
  PROVE  OrderInv'
  <1>1. TypeOK /\ TextInv /\ ResultsOK
    BY DEF OrderInv
  <1>2. TypeOK' /\ TextInv'
    BY <1>1, TypeNext, TextStep
  <1>3. WarnStays
    BY <1>1, WarningsStay
  <1>4. loaded' = loaded \/ \E h \in Handles : Finish(h)
    BY Zenon DEF Next, Done, Step, Begin, ReadLine, Parse, vars
  <1>5. ASSUME loaded' = loaded PROVE ResultsOK'
    BY <1>1, <1>3, <1>5, ResultsKept
  <1>6. ASSUME NEW h \in Handles, Finish(h) PROVE ResultsOK'
    BY <1>1, <1>6, FinishOK
  <1>7. ResultsOK'
    BY <1>4, <1>5, <1>6
  <1> QED
    BY <1>2, <1>7 DEF OrderInv

LEMMA OrderHolds ==
  ASSUME LevelsFit
  PROVE  Spec => []OrderInv
  BY OrderInit, OrderNext, PTL DEF Spec

\* The three properties are what the invariant says of the results.
LEMMA OrderGives ==
  ASSUME OrderInv
  PROVE  GroupsStayTogether /\ FileLoadsEveryRule /\ DefaultLastOrWarned
  <1>1. \A h \in Handles : \A k \in DOMAIN loaded[h] : ResultOK(loaded[h][k], magwarn[h])
    BY DEF OrderInv, ResultsOK
  <1>2. GroupsStayTogether
    BY <1>1 DEF ResultOK, TogetherIn, GroupsStayTogether
  <1>3. FileLoadsEveryRule
    BY <1>1 DEF ResultOK, FileLoadsEveryRule
  <1>4. DefaultLastOrWarned
    BY <1>1 DEF ResultOK, DefaultEnds, DefaultLastOrWarned
  <1> QED
    BY <1>2, <1>3, <1>4

\* Whatever loads run at the same time, a group of a stored array has the rules of
\* one group of the text, all of them and in their order (addentry, qsort with
\* apprentice_sort and coalesce_entries keep them together).
THEOREM GroupsKept ==
  ASSUME LevelsFit
  PROVE  Spec => []GroupsStayTogether
  BY OrderHolds, OrderGives, PTL

\* A file that is loaded to its end without an error, and of which no group was
\* lost, is stored with every rule, and every strength is that of its own group.
THEOREM FileLoaded ==
  ASSUME LevelsFit
  PROVE  Spec => []FileLoadsEveryRule
  BY OrderHolds, OrderGives, PTL

\* A default rule that is not the last of its set was warned of.
THEOREM DefaultWarned ==
  ASSUME LevelsFit
  PROVE  Spec => []DefaultLastOrWarned
  BY OrderHolds, OrderGives, PTL

-----------------------------------------------------------------------------
\* The conditions of a group, as ConditionsPaired reads them.
PairedAt(group, r) ==
  group[r].cond \in {"elif", "else"} =>
    \E q \in Before(group, r) :
      /\ \A m \in Before(group, r) : m <= q
      /\ group[q].cond \in {"if", "elif"}
Paired(group) == ~Jumps(group) => \A r \in DOMAIN group : PairedAt(group, r)

\* The groups f and g have the same levels and conditions, as far as g goes.
Extends(f, g) ==
  /\ f \in Seq(Rules) /\ g \in Seq(Rules) /\ Len(g) <= Len(f)
  /\ \A r \in 1..Len(g) : f[r].level = g[r].level /\ f[r].cond = g[r].cond

\* What follows a rule in its group does not change what comes before it.
LEMMA ExtendsPaired ==
  ASSUME NEW f, NEW g, Extends(f, g), Paired(g), ~Jumps(f)
  PROVE  ~Jumps(g) /\ \A r \in 1..Len(g) : PairedAt(f, r)
  <1> DEFINE L == Len(g)
  <1>1. L \in Nat /\ Len(f) \in Nat /\ L <= Len(f) /\ DOMAIN g = 1..L
    BY DEF Extends
  <1>2. \A r \in 1..L : f[r].level = g[r].level /\ f[r].cond = g[r].cond
    BY DEF Extends
  <1>3. ~Jumps(g)
    <2> SUFFICES ASSUME NEW r \in 2..L, g[r].level > g[r - 1].level + 1 PROVE FALSE
      BY DEF Jumps
    <2>1. r \in 1..L /\ r - 1 \in 1..L /\ r \in 2..Len(f)
      BY <1>1
    <2>2. f[r].level > f[r - 1].level + 1
      BY <1>2, <2>1
    <2> QED
      BY <2>1, <2>2 DEF Jumps
  <1> HIDE DEF L
  <1>4. ASSUME NEW r \in 1..L PROVE Before(f, r) = Before(g, r)
    <2>1. ASSUME NEW q \in 1..(r - 1), NEW m \in q..r PROVE q \in 1..L /\ m \in 1..L
      BY <1>1
    <2>2. \A q \in 1..(r - 1) : \A m \in q..r : f[m].level = g[m].level
      BY <1>2, <2>1
    <2>3. \A q \in 1..(r - 1) : f[q].level = g[q].level /\ f[r].level = g[r].level
      <3>1. \A q \in 1..(r - 1) : q \in 1..L
        BY <1>1
      <3> QED
        BY <1>2, <3>1
    <2> QED
      BY <2>2, <2>3 DEF Before
  <1>5. ASSUME NEW r \in 1..L PROVE PairedAt(f, r)
    <2>1. PairedAt(g, r)
      BY <1>1, <1>3 DEF Paired
    <2>2. \A q \in Before(g, r) : q \in 1..L
      BY <1>1 DEF Before
    <2> QED
      BY <1>2, <1>4, <2>1, <2>2 DEF PairedAt
  <1> QED
    BY <1>3, <1>5 DEF L

\* The rule at q is the last of its level, and nothing shallower came since.
Open(group, l, q) ==
  group[q].level = l /\ \A m \in (q + 1)..Len(group) : group[m].level > l

\* A rule joins the group: if it is an elif or else, it follows an if or elif.
LEMMA AppendPaired ==
  ASSUME NEW group \in Seq(Rules), NEW rule \in Rules, Paired(group),
         ~Jumps(Append(group, rule)) /\ rule.cond \in {"elif", "else"} =>
           \E q \in 1..Len(group) : Open(group, rule.level, q) /\ group[q].cond \in {"if", "elif"}
  PROVE  Paired(Append(group, rule)) /\ Extends(Append(group, rule), group)
  <1> DEFINE f == Append(group, rule)
             L == Len(group)
  <1>1. /\ f \in Seq(Rules) /\ Len(f) = L + 1 /\ L \in Nat
        /\ \A r \in 1..L : f[r] = group[r]
        /\ f[L + 1] = rule
    BY AppendProperties
  <1>2. DOMAIN f = 1..(L + 1)
    BY <1>1
  <1>3. ~Jumps(f) /\ rule.cond \in {"elif", "else"} =>
          \E q \in 1..L : Open(group, rule.level, q) /\ group[q].cond \in {"if", "elif"}
    OBVIOUS
  <1> HIDE DEF f
  <1>4. Extends(f, group)
    BY <1>1 DEF Extends
  <1>5. ASSUME ~Jumps(f), NEW r \in 1..(L + 1) PROVE PairedAt(f, r)
    <2>1. CASE r \in 1..L
      BY <1>4, <1>5, <2>1, ExtendsPaired
    <2>2. CASE r = L + 1
      <3> SUFFICES ASSUME rule.cond \in {"elif", "else"}
                   PROVE  \E q \in Before(f, L + 1) : /\ \A m \in Before(f, L + 1) : m <= q
                                                      /\ f[q].cond \in {"if", "elif"}
        BY <1>1, <2>2 DEF PairedAt
      <3>1. PICK q \in 1..L : Open(group, rule.level, q) /\ group[q].cond \in {"if", "elif"}
        BY <1>3, <1>5
      <3>2. rule.level \in Nat
        BY LoaderAssumption DEF Rules
      <3>3. \A m \in (q + 1)..L : f[m].level > rule.level
        <4>1. \A m \in (q + 1)..L : group[m].level > rule.level /\ m \in 1..L
          BY <1>1, <3>1 DEF Open
        <4> QED
          BY <1>1, <4>1
      <3>4. f[q].level = rule.level /\ f[L + 1].level = rule.level /\ f[q].cond \in {"if", "elif"}
        BY <1>1, <3>1 DEF Open
      <3>5. ASSUME NEW m \in q..(L + 1) PROVE f[m].level >= rule.level
        <4>1. m = q \/ m = L + 1 \/ m \in (q + 1)..L
          BY <1>1
        <4>2. CASE m \in (q + 1)..L
          <5>1. f[m].level > rule.level /\ m \in 1..(L + 1)
            BY <1>1, <3>3, <4>2
          <5>2. f[m] \in Rules
            BY <1>1, <5>1
          <5>3. f[m].level \in Nat
            BY <5>2, LoaderAssumption DEF Rules
          <5> QED
            BY <3>2, <5>1, <5>3
        <4>3. CASE m = q \/ m = L + 1
          BY <3>2, <3>4, <4>3
        <4> QED
          BY <4>1, <4>2, <4>3
      <3>6. q \in Before(f, L + 1)
        <4>1. q \in 1..((L + 1) - 1)
          BY <1>1
        <4> QED
          BY <3>4, <3>5, <4>1 DEF Before
      <3>7. ASSUME NEW m \in Before(f, L + 1) PROVE m <= q
        <4>1. m \in 1..L /\ f[m].level = rule.level
          BY <1>1, <3>4 DEF Before
        <4>2. ~(f[m].level > rule.level)
          BY <3>2, <4>1
        <4>3. m \notin (q + 1)..L
          BY <3>3, <4>2
        <4> QED
          BY <1>1, <4>1, <4>3
      <3> QED
        BY <3>4, <3>6, <3>7
    <2>3. r \in 1..L \/ r = L + 1
      BY <1>1
    <2> QED
      BY <2>1, <2>2, <2>3
  <1>6. Paired(f)
    BY <1>2, <1>5 DEF Paired
  <1> QED
    BY <1>4, <1>6 DEF f

\* A strength changes no level and no condition.
LEMMA StrengthenedExtends ==
  ASSUME NEW group \in Seq(Rules), group # << >>, NEW factor \in Factors
  PROVE  /\ Extends(Strengthened(group, factor), group)
         /\ Extends(group, Strengthened(group, factor))
         /\ Len(Strengthened(group, factor)) = Len(group)
  <1> DEFINE first == [group[1] EXCEPT !.factor = factor]
             new == Strengthened(group, factor)
  <1>1. 1 \in 1..Len(group) /\ group[1] \in Rules
    OBVIOUS
  <1>2. /\ first \in Rules /\ first.cond = group[1].cond /\ first.level = group[1].level
    BY <1>1 DEF Rules
  <1>3. new = [group EXCEPT ![1] = first]
    BY <1>1 DEF Strengthened
  <1> HIDE DEF first, new
  <1>4. /\ new \in Seq(Rules) /\ Len(new) = Len(group)
        /\ \A r \in 1..Len(group) : new[r] = IF r = 1 THEN first ELSE group[r]
    BY <1>1, <1>2, <1>3, ExceptSeq
  <1>5. \A r \in 1..Len(group) : new[r].level = group[r].level /\ new[r].cond = group[r].cond
    BY <1>2, <1>4
  <1>6. Len(group) <= Len(new) /\ Len(new) <= Len(group)
    BY <1>4
  <1> QED
    BY <1>4, <1>5, <1>6 DEF Extends, new

LEMMA StrengthenedPaired ==
  ASSUME NEW group \in Seq(Rules), group # << >>, NEW factor \in Factors, Paired(group)
  PROVE  Paired(Strengthened(group, factor))
  <1> DEFINE new == Strengthened(group, factor)
  <1>1. Extends(new, group) /\ Len(new) = Len(group)
    BY StrengthenedExtends
  <1> HIDE DEF new
  <1>2. ~Jumps(new) => \A r \in 1..Len(group) : PairedAt(new, r)
    BY <1>1, ExtendsPaired
  <1>3. DOMAIN new = 1..Len(group)
    BY <1>1 DEF Extends
  <1>4. Paired(new)
    BY <1>2, <1>3 DEF Paired
  <1> QED
    BY <1>4 DEF new

-----------------------------------------------------------------------------
\* One load at a time.  The next line starts a group, and the pending one waits to
\* be filed.
AtGroup(d) ==
  d.next \in DOMAIN d.text /\ d.text[d.next].kind = "rule" /\ d.text[d.next].level = 0

\* The level table of the handle, last_cond in it, tells the condition of the last
\* rule of level l of the group.
Tells(conds, group, l) ==
  l \in Levels /\ \E q \in DOMAIN group : Open(group, l, q) /\ conds[l] = NextCond(group[q].cond)

\* The static variable is the level of the last rule of the pending group, and the
\* table tells the conditions up to it.
TableOK(last, conds, group) ==
  /\ last = group[Len(group)].level
  /\ ~Jumps(group) => \A l \in 0..last : Tells(conds, group, l)

Deeper(last, l) == l = 0 \/ l > last
CondOK(last, conds, d) ==
  /\ \A g \in AllGroups(d) : Paired(g)
  /\ d.me # << >> /\ ~AtGroup(d) => TableOK(last, conds, d.me)
  /\ d.phase = "parse" /\ Deeper(last, d.text[d.next].level) =>
       conds[d.text[d.next].level] = "none"

\* The first rule of a group.
LEMMA TableStarts ==
  ASSUME NEW rule \in Rules, rule.level = 0, 0 \in Levels, NEW conds,
         conds[0] = NextCond(rule.cond)
  PROVE  TableOK(0, conds, Append(<< >>, rule))
  <1> DEFINE f == Append(<< >>, rule)
  <1>1. f \in Seq(Rules) /\ Len(f) = 1 /\ f[1] = rule /\ DOMAIN f = 1..1
    OBVIOUS
  <1> HIDE DEF f
  <1>2. Open(f, 0, 1)
    BY <1>1 DEF Open
  <1>3. \A l \in 0..0 : Tells(conds, f, l)
    BY <1>1, <1>2 DEF Tells
  <1>4. TableOK(0, conds, f)
    BY <1>1, <1>3 DEF TableOK
  <1> QED
    BY <1>4 DEF f

\* A continuation: it is no deeper than the level after the last rule's, or the
\* group jumps a level.
LEMMA AppendNoJump ==
  ASSUME NEW group \in Seq(Rules), group # << >>, NEW rule \in Rules,
         ~Jumps(Append(group, rule))
  PROVE  rule.level <= group[Len(group)].level + 1 /\ ~Jumps(group)
  <1> DEFINE f == Append(group, rule)
             L == Len(group)
  <1>1. /\ f \in Seq(Rules) /\ Len(f) = L + 1 /\ L \in Nat /\ L >= 1
        /\ \A r \in 1..L : f[r] = group[r]
        /\ f[L + 1] = rule
    BY AppendProperties
  <1>2. ~Jumps(f)
    OBVIOUS
  <1> HIDE DEF f
  <1>3. L + 1 \in 2..Len(f) /\ (L + 1) - 1 = L /\ L \in 1..L
    BY <1>1
  <1>4. ~(f[L + 1].level > f[L].level + 1)
    BY <1>2, <1>3 DEF Jumps
  <1>5. f[L] = group[L] /\ group[L] \in Rules
    BY <1>1, <1>3
  <1>6. group[L].level \in Nat /\ rule.level \in Nat
    BY <1>5, LoaderAssumption DEF Rules
  <1>7. rule.level <= group[L].level + 1
    BY <1>1, <1>4, <1>5, <1>6
  <1>8. ~Jumps(group)
    <2> SUFFICES ASSUME NEW r \in 2..L, group[r].level > group[r - 1].level + 1 PROVE FALSE
      BY DEF Jumps
    <2>1. r \in 1..L /\ r - 1 \in 1..L /\ r \in 2..Len(f)
      BY <1>1
    <2>2. f[r].level > f[r - 1].level + 1
      BY <1>1, <2>1
    <2> QED
      BY <1>2, <2>1, <2>2 DEF Jumps
  <1> QED
    BY <1>7, <1>8

\* A rule of the level l that the table allows follows an if or elif, if it is an
\* elif or else.
LEMMA TellsPaired ==
  ASSUME NEW group \in Seq(Rules), group # << >>, NEW last \in Nat, NEW conds,
         TableOK(last, conds, group), NEW rule \in Rules,
         CondFollows(conds[rule.level], rule.cond),
         rule.level > last => conds[rule.level] = "none",
         ~Jumps(Append(group, rule)), rule.cond \in {"elif", "else"}
  PROVE  \E q \in 1..Len(group) : Open(group, rule.level, q) /\ group[q].cond \in {"if", "elif"}
  <1> DEFINE l == rule.level
  <1>1. l \in Nat
    BY LoaderAssumption DEF Rules
  <1>2. conds[l] \in {"if", "elif"}
    BY DEF CondFollows
  <1>3. l \in 0..last
    BY <1>1, <1>2
  <1>4. ~Jumps(group)
    BY AppendNoJump
  <1>5. Tells(conds, group, l)
    BY <1>3, <1>4 DEF TableOK
  <1>6. PICK q \in DOMAIN group : Open(group, l, q) /\ conds[l] = NextCond(group[q].cond)
    BY <1>5 DEF Tells
  <1>7. group[q].cond \in {"if", "elif"}
    BY <1>2, <1>6 DEF NextCond
  <1>8. q \in 1..Len(group)
    OBVIOUS
  <1> QED
    BY <1>6, <1>7, <1>8

\* A continuation leaves the table up to its own level, and sets that.
LEMMA TableContinues ==
  ASSUME NEW group \in Seq(Rules), group # << >>, NEW last \in Nat,
         NEW conds \in [Levels -> Conds],
         TableOK(last, conds, group), NEW rule \in Rules, rule.level \in Levels
  PROVE  TableOK(rule.level, [conds EXCEPT ![rule.level] = NextCond(rule.cond)],
                 Append(group, rule))
  <1> DEFINE f == Append(group, rule)
             L == Len(group)
             l == rule.level
             new == [conds EXCEPT ![l] = NextCond(rule.cond)]
  <1>1. /\ f \in Seq(Rules) /\ Len(f) = L + 1 /\ L \in Nat /\ DOMAIN f = 1..(L + 1)
        /\ \A r \in 1..L : f[r] = group[r]
        /\ f[L + 1] = rule /\ DOMAIN group = 1..L
    BY AppendProperties
  <1>2. l \in Nat /\ l \in Levels
    BY LoaderAssumption DEF Rules
  <1>3. new[l] = NextCond(rule.cond) /\ \A k \in Levels \ {l} : new[k] = conds[k]
    BY <1>2
  <1>4. ~Jumps(f) => l <= last + 1 /\ ~Jumps(group)
    <2>1. last = group[Len(group)].level
      BY DEF TableOK
    <2> QED
      BY <2>1, AppendNoJump
  <1> HIDE DEF f, new, l
  <1>5. Tells(new, f, l)
    <2>1. \A m \in ((L + 1) + 1)..(L + 1) : FALSE
      BY <1>1
    <2>2. Open(f, l, L + 1)
      BY <1>1, <2>1 DEF Open, l
    <2>3. L + 1 \in DOMAIN f
      BY <1>1
    <2> QED
      BY <1>1, <1>2, <1>3, <2>2, <2>3 DEF Tells
  <1>6. ASSUME ~Jumps(f), NEW k \in 0..l, k # l PROVE Tells(new, f, k)
    <2>1. k \in 0..last /\ k < l
      BY <1>2, <1>4, <1>6
    <2>2. Tells(conds, group, k)
      BY <1>4, <1>6, <2>1 DEF TableOK
    <2>3. PICK q \in 1..L : Open(group, k, q) /\ conds[k] = NextCond(group[q].cond)
      BY <1>1, <2>2 DEF Tells
    <2>4. k \in Levels /\ new[k] = conds[k]
      BY <1>3, <1>6, <2>2 DEF Tells
    <2>5. q \in DOMAIN f /\ f[q] = group[q]
      BY <1>1
    <2>6. ASSUME NEW m \in (q + 1)..(L + 1) PROVE f[m].level > k
      <3>1. m = L + 1 \/ m \in (q + 1)..L
        BY <1>1
      <3>2. CASE m = L + 1
        BY <1>1, <2>1, <3>2 DEF l
      <3>3. CASE m \in (q + 1)..L
        <4>1. group[m].level > k /\ m \in 1..L
          BY <2>3, <3>3 DEF Open
        <4> QED
          BY <1>1, <4>1
      <3> QED
        BY <3>1, <3>2, <3>3
    <2>7. Open(f, k, q)
      BY <1>1, <2>3, <2>5, <2>6 DEF Open
    <2> QED
      BY <2>3, <2>4, <2>5, <2>7 DEF Tells
  <1>7. ~Jumps(f) => \A k \in 0..l : Tells(new, f, k)
    BY <1>5, <1>6
  <1>8. TableOK(l, new, f)
    BY <1>1, <1>7 DEF TableOK, l
  <1> QED
    BY <1>8 DEF l, new, f

\* A strength leaves the table as it is.
LEMMA TableStrengthened ==
  ASSUME NEW group \in Seq(Rules), group # << >>, NEW factor \in Factors, NEW last \in Nat,
         NEW conds, TableOK(last, conds, group)
  PROVE  TableOK(last, conds, Strengthened(group, factor))
  <1> DEFINE f == Strengthened(group, factor)
             L == Len(group)
  <1>1. Extends(f, group) /\ Extends(group, f) /\ Len(f) = L
    BY StrengthenedExtends
  <1>2. L \in Nat /\ L \in 1..L /\ DOMAIN group = 1..L
    OBVIOUS
  <1> HIDE DEF f
  <1>3. DOMAIN f = 1..L /\ \A r \in 1..L : f[r].level = group[r].level /\ f[r].cond = group[r].cond
    BY <1>1 DEF Extends
  <1>4. ~Jumps(f) => ~Jumps(group)
    <2> SUFFICES ASSUME NEW r \in 2..L, group[r].level > group[r - 1].level + 1 PROVE Jumps(f)
      BY DEF Jumps
    <2>1. r \in 1..L /\ r - 1 \in 1..L /\ r \in 2..Len(f)
      BY <1>1
    <2>2. f[r].level > f[r - 1].level + 1
      BY <1>3, <2>1
    <2> QED
      BY <2>1, <2>2 DEF Jumps
  <1>5. ASSUME NEW l, Tells(conds, group, l) PROVE Tells(conds, f, l)
    <2>1. PICK q \in 1..L : Open(group, l, q) /\ conds[l] = NextCond(group[q].cond)
      BY <1>2, <1>5 DEF Tells
    <2>2. \A m \in (q + 1)..L : m \in 1..L /\ group[m].level > l
      BY <1>2, <2>1 DEF Open
    <2>3. \A m \in (q + 1)..L : f[m].level > l
      BY <1>3, <2>2
    <2>4. Open(f, l, q)
      BY <1>1, <1>3, <2>1, <2>3 DEF Open
    <2> QED
      BY <1>3, <1>5, <2>1, <2>4 DEF Tells
  <1>6. last = f[Len(f)].level
    BY <1>1, <1>2, <1>3 DEF TableOK
  <1>7. TableOK(last, conds, f)
    BY <1>4, <1>5, <1>6 DEF TableOK
  <1> QED
    BY <1>7 DEF f

\* Pairing is kept when the pending group changes, or is filed.
LEMMA AllPaired ==
  ASSUME NEW d, \A g \in AllGroups(d) : Paired(g), NEW e, e.sets = d.sets,
         e.me # << >> => Paired(e.me)
  PROVE  \A g \in AllGroups(e) : Paired(g)
  BY DEF AllGroups

LEMMA LastType ==
  ASSUME TypeOK
  PROVE  last_cont_level \in Nat
  BY LoaderAssumption DEF TypeOK

\* What a step makes of the level table.
LEMMA CondSkips ==
  ASSUME TypeOK, NEW h \in Handles, load[h] \in LoadState, StandsOn(h) \in Line,
         NEW e, \/ Skips(h, load[h], e)
                \/ Strengthens(h, load[h], e),
         CondOK(last_cont_level, last_cond[h], load[h])
  PROVE  CondOK(last_cont_level', last_cond'[h], e)
  <1> DEFINE d == load[h]
             last == last_cont_level
             conds == last_cond[h]
  <1>1. /\ e.phase = "line" /\ e.text = d.text /\ e.sets = d.sets
        /\ last_cont_level' = last /\ last_cond'[h] = conds
        /\ d.text[d.next].kind # "rule"
    BY DEF Skips, Strengthens, StandsOn
  <1>2. last \in Nat /\ d.me \in Seq(Rules)
    BY LastType DEF LoadState
  <1>3. /\ \A g \in AllGroups(d) : Paired(g)
        /\ d.me # << >> => TableOK(last, conds, d.me)
    BY <1>1 DEF CondOK, AtGroup
  <1>4. d.me # << >> => Paired(d.me)
    BY <1>3 DEF AllGroups
  <1>5. e.me = d.me \/ \E factor \in Factors : e.me = Strengthened(d.me, factor) /\ d.me # << >>
    BY LineType DEF Skips, Strengthens
  <1> HIDE DEF d, last, conds
  <1>6. ASSUME e.me # << >> PROVE Paired(e.me) /\ TableOK(last, conds, e.me)
    <2>1. CASE e.me = d.me
      BY <1>3, <1>4, <1>6, <2>1
    <2>2. ASSUME NEW factor \in Factors, e.me = Strengthened(d.me, factor), d.me # << >>
          PROVE  Paired(e.me) /\ TableOK(last, conds, e.me)
      <3>1. Paired(Strengthened(d.me, factor))
        BY <1>2, <1>4, <2>2, StrengthenedPaired
      <3>2. TableOK(last, conds, Strengthened(d.me, factor))
        BY <1>2, <1>3, <2>2, TableStrengthened
      <3> QED
        BY <2>2, <3>1, <3>2
    <2> QED
      BY <1>5, <2>1, <2>2
  <1>7. \A g \in AllGroups(e) : Paired(g)
    BY <1>1, <1>3, <1>6, AllPaired
  <1>8. CondOK(last, conds, e)
    BY <1>1, <1>6, <1>7 DEF CondOK
  <1> QED
    BY <1>1, <1>8

\* file_check_mem begins the entry of a deeper level afresh, and no other.
LEMMA CondMeets ==
  ASSUME TypeOK, NEW h \in Handles, load[h] \in LoadState, StandsOn(h) \in Line,
         load[h].next \in DOMAIN load[h].text, NEW e, Meets(h, load[h], e),
         CondOK(last_cont_level, last_cond[h], load[h])
  PROVE  CondOK(last_cont_level', last_cond'[h], e)
  <1> DEFINE d == load[h]
             last == last_cont_level
             conds == last_cond[h]
             l == StandsOn(h).level
             new == last_cond'[h]
  <1>1. /\ e.phase = "parse" /\ e.text = d.text /\ e.sets = d.sets /\ e.me = d.me
        /\ e.next = d.next /\ last_cont_level' = last /\ l = d.text[d.next].level
        /\ d.text[d.next].kind = "rule"
    BY DEF Meets, StandsOn
  <1>2. last \in Nat /\ l \in Nat /\ l \in Levels
    BY LineType, LastType
  <1>3. IF Deeper(last, l) THEN last_cond' = [last_cond EXCEPT ![h][l] = "none"]
                           ELSE last_cond' = last_cond
    BY DEF Meets, NeedsCheck, Deeper
  <1>4. conds \in [Levels -> Conds]
    BY DEF TypeOK
  <1>5. IF Deeper(last, l) THEN new = [conds EXCEPT ![l] = "none"] ELSE new = conds
    BY <1>3 DEF TypeOK
  <1>6. \A g \in AllGroups(d) : Paired(g)
    BY DEF CondOK
  <1>7. d.me # << >> /\ ~AtGroup(d) => TableOK(last, conds, d.me)
    BY DEF CondOK
  <1>8. AtGroup(e) <=> AtGroup(d)
    BY <1>1 DEF AtGroup
  <1>9. d.next \in DOMAIN d.text
    OBVIOUS
  <1> HIDE DEF d, last, conds, l, new
  <1>10. ASSUME e.me # << >>, ~AtGroup(e) PROVE TableOK(last, new, e.me)
    <2>a. l # 0
      BY <1>1, <1>8, <1>9, <1>10 DEF AtGroup
    <2>1. TableOK(last, conds, d.me) /\ l # 0
      BY <1>1, <1>7, <1>8, <1>10, <2>a
    <2>2. \A k \in 0..last : k \in Levels => new[k] = conds[k]
      BY <1>2, <1>4, <1>5, <2>1 DEF Deeper
    <2>3. \A k \in 0..last : Tells(conds, d.me, k) => Tells(new, d.me, k)
      BY <2>2 DEF Tells
    <2>4. TableOK(last, new, d.me)
      BY <2>1, <2>3 DEF TableOK
    <2> QED
      BY <1>1, <2>4
  <1>11. Deeper(last, l) => new[l] = "none"
    BY <1>2, <1>4, <1>5
  <1>12. \A g \in AllGroups(e) : Paired(g)
    BY <1>1, <1>6 DEF AllGroups
  <1>13. CondOK(last, new, e)
    BY <1>1, <1>10, <1>11, <1>12 DEF CondOK
  <1> QED
    BY <1>1, <1>13 DEF new

\* The group that begins with the rule, or goes on with it.
LEMMA CondAppend ==
  ASSUME NEW group \in Seq(Rules), NEW rule \in Rules, rule.level \in Levels,
         NEW last \in Nat, NEW conds \in [Levels -> Conds], Paired(group),
         CondFollows(conds[rule.level], rule.cond),
         Deeper(last, rule.level) => conds[rule.level] = "none",
         IF group = << >> THEN rule.level = 0
                          ELSE rule.level > 0 /\ TableOK(last, conds, group)
  PROVE  /\ Paired(Append(group, rule))
         /\ TableOK(rule.level, [conds EXCEPT ![rule.level] = NextCond(rule.cond)],
                    Append(group, rule))
  <1> DEFINE l == rule.level
             new == [conds EXCEPT ![l] = NextCond(rule.cond)]
  <1>1. l \in Nat /\ new[l] = NextCond(rule.cond)
    BY LoaderAssumption DEF Rules
  <1>2. CASE group = << >>
    <2>1. l = 0 /\ conds[l] = "none"
      BY <1>2 DEF Deeper
    <2>2. rule.cond \notin {"elif", "else"}
      BY <2>1 DEF CondFollows
    <2>3. Paired(Append(group, rule))
      BY <2>2, AppendPaired
    <2>4. new[0] = NextCond(rule.cond) /\ 0 \in Levels
      BY <1>1, <2>1
    <2> HIDE DEF new
    <2>5. TableOK(0, new, Append(<< >>, rule))
      BY <2>1, <2>4, TableStarts
    <2>6. TableOK(l, new, Append(group, rule))
      BY <1>2, <2>1, <2>5
    <2> QED
      BY <2>3, <2>6 DEF new
  <1>3. CASE group # << >>
    <2>1. TableOK(last, conds, group)
      BY <1>3
    <2>2. l > last => conds[l] = "none"
      BY DEF Deeper
    <2>3. ~Jumps(Append(group, rule)) /\ rule.cond \in {"elif", "else"} =>
            \E q \in 1..Len(group) : Open(group, l, q) /\ group[q].cond \in {"if", "elif"}
      BY <1>3, <2>1, <2>2, TellsPaired
    <2>4. Paired(Append(group, rule))
      BY <2>3, AppendPaired, Zenon
    <2>5. TableOK(l, new, Append(group, rule))
      BY <1>3, <2>1, TableContinues, Zenon
    <2> QED
      BY <2>4, <2>5
  <1> QED
    BY <1>2, <1>3

\* The rule joins the pending group, and the table has its condition.
LEMMA CondAppends ==
  ASSUME LevelsFit, TypeOK, NEW h \in Handles, load[h] \in LoadState, StandsOn(h) \in Line,
         NEW e, Appends(h, load[h], e),
         CondOK(last_cont_level, last_cond[h], load[h])
  PROVE  CondOK(last_cont_level', last_cond'[h], e)
  <1> DEFINE d == load[h]
             last == last_cont_level
             conds == last_cond[h]
             line == StandsOn(h)
             rule == RuleOf(d)
             l == line.level
             new == last_cond'[h]
  <1>1. /\ e.phase = "line" /\ e.sets = d.sets /\ e.me = Append(d.me, rule)
        /\ last_cont_level' = l /\ line = d.text[d.next] /\ d.phase = "parse"
    BY Zenon DEF Appends, StandsOn
  <1>2. IF d.me = << >> THEN l = 0 ELSE l > 0
    BY DEF Appends
  <1>3. CondFollows(conds[l], line.cond)
    BY DEF Appends
  <1>4. last_cond' = [last_cond EXCEPT ![h][l] = NextCond(line.cond)]
    BY DEF Appends
  <1>5. conds \in [Levels -> Conds] /\ new = [conds EXCEPT ![l] = NextCond(line.cond)]
    BY <1>4 DEF TypeOK
  <1>6. last \in Nat /\ d.me \in Seq(Rules) /\ l \in Levels
    BY LastType, LineType DEF LoadState
  <1>7. rule \in Rules /\ rule.level = l /\ rule.cond = line.cond
    BY <1>1, RuleOfLine
  <1>8. \A g \in AllGroups(d) : Paired(g)
    BY DEF CondOK
  <1>9. d.me # << >> => Paired(d.me)
    BY <1>8 DEF AllGroups
  <1>10. Paired(<< >>)
    BY DEF Paired
  <1>11. Deeper(last, l) => conds[l] = "none"
    BY <1>1 DEF CondOK
  <1>12. d.me # << >> /\ ~AtGroup(d) => TableOK(last, conds, d.me)
    BY DEF CondOK
  <1> HIDE DEF d, last, conds, line, rule, new
  <1>13. ASSUME d.me # << >> PROVE TableOK(last, conds, d.me) /\ l > 0
    <2>1. l > 0
      BY <1>2, <1>13
    <2>2. ~AtGroup(d)
      BY <1>1, <2>1 DEF AtGroup
    <2> QED
      BY <1>12, <1>13, <2>1, <2>2
  <1>14. Paired(d.me)
    BY <1>9, <1>10
  <1>15. /\ Paired(Append(d.me, rule))
         /\ TableOK(rule.level, [conds EXCEPT ![rule.level] = NextCond(rule.cond)],
                    Append(d.me, rule))
    <2>1. IF d.me = << >> THEN rule.level = 0
                          ELSE rule.level > 0 /\ TableOK(last, conds, d.me)
      BY <1>2, <1>7, <1>13
    <2>2. CondFollows(conds[rule.level], rule.cond)
      BY <1>3, <1>7
    <2>3. Deeper(last, rule.level) => conds[rule.level] = "none"
      BY <1>7, <1>11
    <2>4. rule.level \in Levels
      BY <1>6, <1>7
    <2> QED
      BY <1>5, <1>6, <1>7, <1>14, <2>1, <2>2, <2>3, <2>4, CondAppend
  <1>16. Paired(e.me) /\ TableOK(l, new, e.me)
    BY <1>1, <1>5, <1>7, <1>15
  <1>17. \A g \in AllGroups(e) : Paired(g)
    BY <1>1, <1>8, <1>16, AllPaired
  <1>18. CondOK(l, new, e)
    BY <1>1, <1>16, <1>17 DEF CondOK
  <1> QED
    BY <1>1, <1>18, Zenon DEF new

\* The pending group is filed as it is.
LEMMA CondRefiles ==
  ASSUME TypeOK, NEW h \in Handles, load[h] \in LoadState, TextOK(load[h]),
         load[h].next \in DOMAIN load[h].text, NEW e, Refiles(h, load[h], e),
         CondOK(last_cont_level, last_cond[h], load[h])
  PROVE  CondOK(last_cont_level', last_cond'[h], e)
  <1> DEFINE d == load[h]
  <1>1. /\ e.phase = "line" /\ e.text = d.text /\ e.next = d.next /\ d.me # << >>
        /\ d.text[d.next].kind = "rule" /\ d.text[d.next].level = 0
    BY DEF Refiles, StandsOn
  <1>2. AtGroup(e)
    BY <1>1 DEF AtGroup
  <1>3. \/ e.me = << >> /\ e.sets = AddTo(d.sets, d.me)
        \/ e.me = d.me /\ e.sets = d.sets
    BY DEF Refiles
  <1>4. \A g \in AllGroups(d) : Paired(g)
    BY DEF CondOK
  <1>5. \A g \in AllGroups(e) : Paired(g)
    <2>1. CASE e.me = << >> /\ e.sets = AddTo(d.sets, d.me)
      <3>1. Filed(e.sets) = AllGroups(d)
        BY <1>1, <2>1, FiledAll
      <3> QED
        BY <1>4, <2>1, <3>1 DEF AllGroups
    <2>2. CASE e.me = d.me /\ e.sets = d.sets
      BY <1>4, <2>2 DEF AllGroups
    <2> QED
      BY <1>3, <2>1, <2>2
  <1> HIDE DEF d
  <1> QED
    BY <1>1, <1>2, <1>5 DEF CondOK

LEMMA StandsIn ==
  ASSUME TypeOK, NEW h \in Handles, ReadLine(h) \/ Parse(h)
  PROVE  load[h].next \in DOMAIN load[h].text
  <1>1. CASE ReadLine(h)
    BY <1>1, LoadingType DEF ReadLine, Loading, AtEnd, Count, LoadState
  <1>2. CASE Parse(h)
    BY <1>2, LoadingType DEF Parse, Loading
  <1> QED
    BY <1>1, <1>2

\* Each step of a load without an error keeps the conditions and the table right.
LEMMA CondKinds ==
  ASSUME LevelsFit, TypeOK, NEW h \in Handles, load[h] \in LoadState, StandsOn(h) \in Line,
         load[h].next \in DOMAIN load[h].text, TextOK(load[h]), NEW e, Kinds(h, load[h], e),
         CondOK(last_cont_level, last_cond[h], load[h])
  PROVE  CondOK(last_cont_level', last_cond'[h], e)
  <1>1. CASE Skips(h, load[h], e) \/ Strengthens(h, load[h], e)
    BY <1>1, CondSkips
  <1>2. CASE Meets(h, load[h], e)
    BY <1>2, CondMeets
  <1>3. CASE Appends(h, load[h], e)
    BY <1>3, CondAppends
  <1>4. CASE Refiles(h, load[h], e)
    BY <1>4, CondRefiles
  <1> QED
    BY <1>1, <1>2, <1>3, <1>4, Zenon DEF Kinds

-----------------------------------------------------------------------------
\* What the arrays of the loads that ended promise.
PairedIn(array) == \A group \in StoredGroups(array) : Paired(group)
AllPairedIn(c) == \A s \in {1, 2} : PairedIn(c.arrays[s])
StoredPaired == \A h \in Handles : \A k \in DOMAIN loaded[h] : AllPairedIn(loaded[h][k])

CondInv ==
  \A h \in Handles :
    Loading(h) /\ load[h].errs = 0 => CondOK(last_cont_level, last_cond[h], load[h])

LEMMA CondOfNext ==
  (\A h \in Handles : load'[h].phase # "idle" /\ load'[h].errs = 0 =>
     CondOK(last_cont_level', last_cond'[h], load'[h]))
    => CondInv'
  BY Zenon DEF CondInv, Loading, CondOK, AllGroups, Filed, Paired, PairedAt, Jumps, Before,
               AtGroup, TableOK, Tells, Open, Deeper

LEMMA PairedOfNext ==
  (\A h \in Handles : \A k \in DOMAIN loaded'[h] : AllPairedIn(loaded'[h][k])) => StoredPaired'
  BY Zenon DEF StoredPaired, AllPairedIn, PairedIn, StoredGroups, GroupAt, Starts, Paired,
               PairedAt, Jumps, Before

\* A step of the only load there is.
LEMMA CondPut ==
  ASSUME TypeOK, NEW h \in Handles, \A g \in Handles \ {h} : ~Loading(g), NEW e, Put(h, e),
         e.phase # "idle" /\ e.errs = 0 => CondOK(last_cont_level', last_cond'[h], e)
  PROVE  CondInv'
  <1>1. load'[h] = e /\ \A g \in Handles \ {h} : load'[g] = load[g]
    BY DEF Put, TypeOK
  <1>2. ASSUME NEW g \in Handles, load'[g].phase # "idle", load'[g].errs = 0
        PROVE  CondOK(last_cont_level', last_cond'[g], load'[g])
    <2>1. CASE g = h
      BY <1>1, <1>2, <2>1
    <2>2. CASE g # h
      BY <1>1, <1>2, <2>2 DEF Loading
    <2> QED
      BY <2>1, <2>2
  <1> QED
    BY <1>2, CondOfNext, Zenon

LEMMA NewCondOK ==
  ASSUME NEW text, NEW source, NEW last, NEW conds
  PROVE  CondOK(last, conds,
                [phase |-> "line", text |-> text, source |-> source, next |-> 1,
                 me |-> << >>, sets |-> NoSets, errs |-> 0, lost |-> FALSE])
  <1> DEFINE e == [phase |-> "line", text |-> text, source |-> source, next |-> 1,
                   me |-> << >>, sets |-> NoSets, errs |-> 0, lost |-> FALSE]
  <1>1. e.phase = "line" /\ e.me = << >> /\ e.sets = NoSets
    OBVIOUS
  <1> HIDE DEF e
  <1>2. Len(NoSets[1]) = 0 /\ Len(NoSets[2]) = 0
    BY DEF NoSets
  <1>3. AllGroups(e) = {}
    BY <1>1, <1>2 DEF AllGroups, Filed
  <1>4. CondOK(last, conds, e)
    BY <1>1, <1>3 DEF CondOK
  <1> QED
    BY <1>4 DEF e

\* A load that ends leaves groups that are paired.
LEMMA PairedAdded ==
  ASSUME loaded \in [Handles -> Seq(Results)], StoredPaired, NEW h \in Handles, NEW d, NEW errs,
         NEW arrays, Ends(h, d, errs, arrays), Result(d, errs, arrays) \in Results,
         PairedIn(arrays[1]), PairedIn(arrays[2])
  PROVE  StoredPaired'
  <1>1. \A g \in Handles : \A k \in DOMAIN loaded'[g] :
          \/ k \in DOMAIN loaded[g] /\ loaded'[g][k] = loaded[g][k]
          \/ g = h /\ loaded'[g][k] = Result(d, errs, arrays)
    BY EndsAdds
  <1>2. AllPairedIn(Result(d, errs, arrays))
    <2>1. Result(d, errs, arrays).arrays = arrays
      BY DEF Result
    <2> QED
      BY <2>1 DEF AllPairedIn
  <1>3. \A g \in Handles : \A k \in DOMAIN loaded[g] : AllPairedIn(loaded[g][k])
    BY DEF StoredPaired
  <1>4. \A g \in Handles : \A k \in DOMAIN loaded'[g] : AllPairedIn(loaded'[g][k])
    BY <1>1, <1>2, <1>3, Zenon
  <1> QED
    BY <1>4, PairedOfNext, Zenon

LEMMA NonePaired == PairedIn(NoArrays[1]) /\ PairedIn(NoArrays[2])
  <1>1. NoArrays[1] = << >> /\ NoArrays[2] = << >>
    BY DEF NoArrays
  <1>2. Starts(<< >>) = {}
    BY DEF Starts
  <1>3. StoredGroups(<< >>) = {}
    BY <1>2 DEF StoredGroups
  <1> QED
    BY <1>1, <1>3 DEF PairedIn

\* The groups are stored as they were filed.
LEMMA ArrangePaired ==
  ASSUME loaded \in [Handles -> Seq(Results)], StoredPaired, NEW h \in Handles,
         NEW d \in LoadState, TextOK(d), \A g \in AllGroups(d) : Paired(g),
         NEW e, Complete(d, e), Arrange(h, e)
  PROVE  StoredPaired'
  <1>1. PICK first \in Sorted(e.sets[1]) : \E second \in Sorted(e.sets[2]) :
          \/ Ends(h, e, 0, <<Coalesced(first), Coalesced(second)>>)
          \/ Ends(h, e, 1, NoArrays)
    BY Zenon DEF Arrange
  <1>2. PICK second \in Sorted(e.sets[2]) :
          \/ Ends(h, e, 0, <<Coalesced(first), Coalesced(second)>>)
          \/ Ends(h, e, 1, NoArrays)
    BY <1>1
  <1>3. CASE Ends(h, e, 0, <<Coalesced(first), Coalesced(second)>>)
    <2> DEFINE arrays == <<Coalesced(first), Coalesced(second)>>
               sets == e.sets
               c == [text |-> d.text, read |-> d.next - 1]
    <2>1. /\ sets \in [{1, 2} -> Groups] /\ Filed(sets) \subseteq AllGroups(d) /\ Apart(sets)
          /\ e \in LoadState
      BY DEF Complete, LoadState
    <2>2. Reports(c, d)
      BY DEF Reports
    <2>3. first \in Sorted(sets[1]) /\ second \in Sorted(sets[2])
      OBVIOUS
    <2> HIDE DEF sets, c
    <2>4. StoredAs(sets[1], Coalesced(first)) /\ StoredAs(sets[2], Coalesced(second))
      BY <2>1, <2>2, <2>3, SetsStored
    <2>5. ASSUME NEW s \in {1, 2}, NEW array, StoredAs(sets[s], array) PROVE PairedIn(array)
      <3>1. \A i \in 1..Len(sets[s]) : sets[s][i] \in Filed(sets)
        BY DEF Filed
      <3>2. StoredGroups(array) = {sets[s][i] : i \in 1..Len(sets[s])}
        BY <2>5 DEF StoredAs
      <3> QED
        BY <2>1, <3>1, <3>2 DEF PairedIn
    <2>6. PairedIn(Coalesced(first)) /\ PairedIn(Coalesced(second))
      BY <2>4, <2>5
    <2>7. Coalesced(first) \in Seq(Rules) /\ Coalesced(second) \in Seq(Rules)
      <3>1. sets[1] \in Seq(Seq(Rules)) /\ sets[2] \in Seq(Seq(Rules))
        BY <2>1 DEF Groups
      <3>2. first \in Seq(Seq(Rules)) /\ second \in Seq(Seq(Rules))
        BY <2>3, <3>1, SortedMoves
      <3> QED
        BY <3>2, CoalescedPlaces
    <2>8. arrays \in Seq(Seq(Rules)) /\ PairedIn(arrays[1]) /\ PairedIn(arrays[2])
      BY <2>6, <2>7
    <2>9. Ends(h, e, 0, arrays)
      BY <1>3
    <2> HIDE DEF arrays
    <2>10. Result(e, 0, arrays) \in Results
      BY <2>1, <2>8, ResultType
    <2> QED
      BY <2>8, <2>9, <2>10, PairedAdded
  <1>4. CASE Ends(h, e, 1, NoArrays)
    <2>1. Result(e, 1, NoArrays) \in Results
      BY NothingKept, ResultType DEF Complete
    <2> QED
      BY <1>4, <2>1, NonePaired, PairedAdded
  <1> QED
    BY <1>2, <1>3, <1>4

\* The inductive invariant of loads one at a time.
CondsInv == OrderInv /\ CondInv /\ StoredPaired

LEMMA CondsInit == Init => CondsInv
  <1> SUFFICES ASSUME Init PROVE CondsInv
    OBVIOUS
  <1>1. CondInv
    BY DEF Init, CondInv, Loading, Idle
  <1>2. StoredPaired
    BY DEF Init, StoredPaired
  <1> QED
    BY <1>1, <1>2, OrderInit DEF CondsInv

\* A step of the only load there is keeps the invariant.
LEMMA CondsStep ==
  ASSUME LevelsFit, CondsInv, NEW h \in Handles, \A g \in Handles \ {h} : ~Loading(g),
         Begin(h) \/ Step(h)
  PROVE  CondInv' /\ StoredPaired'
  <1>1. TypeOK /\ TextInv /\ ResultsOK /\ StoredPaired
    BY DEF CondsInv, OrderInv
  <1>2. loaded \in [Handles -> Seq(Results)]
    BY <1>1 DEF ResultsOK
  <1>3. Loading(h) /\ load[h].errs = 0 => CondOK(last_cont_level, last_cond[h], load[h])
    BY DEF CondsInv, CondInv
  <1>4. ASSUME loaded' = loaded PROVE StoredPaired'
    <2>1. \A g \in Handles : \A k \in DOMAIN loaded'[g] : AllPairedIn(loaded'[g][k])
      BY <1>1, <1>4 DEF StoredPaired
    <2> QED
      BY <2>1, PairedOfNext, Zenon
  <1>5. ASSUME Begin(h) PROVE CondInv' /\ StoredPaired'
    <2>1. PICK text \in Texts, source \in Sources :
            Put(h, [phase |-> "line", text |-> text, source |-> source, next |-> 1,
                    me |-> << >>, sets |-> NoSets, errs |-> 0, lost |-> FALSE])
      BY <1>5 DEF Begin
    <2> DEFINE e == [phase |-> "line", text |-> text, source |-> source, next |-> 1,
                     me |-> << >>, sets |-> NoSets, errs |-> 0, lost |-> FALSE]
    <2>2. CondOK(last_cont_level', last_cond'[h], e) /\ Put(h, e)
      BY <2>1, NewCondOK
    <2> HIDE DEF e
    <2>3. CondInv'
      BY <1>1, <2>2, CondPut
    <2>4. loaded' = loaded
      BY <1>5 DEF Begin
    <2> QED
      BY <1>4, <2>3, <2>4
  <1>6. ASSUME ReadLine(h) \/ Parse(h) PROVE CondInv' /\ StoredPaired'
    <2> DEFINE e == load'[h]
    <2>1. Put(h, e)
      BY <1>1, <1>6, StepPuts
    <2>2. ASSUME e.errs = 0 PROVE CondOK(last_cont_level', last_cond'[h], e)
      <3>1. /\ Loading(h) /\ load[h] \in LoadState /\ load[h].errs = 0
            /\ StandsOn(h) \in Line /\ Kinds(h, load[h], e)
        BY <1>1, <1>6, <2>2, ReadLineKinds, ParseKinds
      <3>2. TextOK(load[h])
        BY <1>1, <3>1, Zenon DEF TextInv
      <3>3. load[h].next \in DOMAIN load[h].text
        BY <1>1, <1>6, StandsIn
      <3>4. CondOK(last_cont_level, last_cond[h], load[h])
        BY <1>3, <3>1
      <3> HIDE DEF e
      <3> QED
        BY <1>1, <3>1, <3>2, <3>3, <3>4, CondKinds
    <2> HIDE DEF e
    <2>3. CondInv'
      BY <1>1, <2>1, <2>2, CondPut
    <2>4. loaded' = loaded
      BY <1>6 DEF ReadLine, Parse
    <2> QED
      BY <1>4, <2>3, <2>4
  <1>7. ASSUME Finish(h) PROVE CondInv' /\ StoredPaired'
    <2>1. Put(h, Idle)
      BY <1>7, Zenon DEF Finish
    <2>2. Idle.phase = "idle"
      BY DEF Idle
    <2>3. CondInv'
      BY <1>1, <2>1, <2>2, CondPut, Zenon
    <2>4. /\ Loading(h) /\ load[h] \in LoadState
          /\ load[h].errs = 0 => TextOK(load[h])
          /\ \E e \in LoadState :
               \/ load[h].errs = 0 /\ Complete(load[h], e) /\ Arrange(h, e)
               \/ Ends(h, e, 1, NoArrays) /\ UNCHANGED magwarn
      BY <1>1, <1>7, FinishEnds
    <2>5. PICK e \in LoadState :
            \/ load[h].errs = 0 /\ Complete(load[h], e) /\ Arrange(h, e)
            \/ Ends(h, e, 1, NoArrays) /\ UNCHANGED magwarn
      BY <2>4
    <2>6. CASE load[h].errs = 0 /\ Complete(load[h], e) /\ Arrange(h, e)
      <3>1. \A g \in AllGroups(load[h]) : Paired(g)
        BY <1>3, <2>4, <2>6 DEF CondOK
      <3>2. StoredPaired'
        BY <1>1, <1>2, <2>4, <2>6, <3>1, ArrangePaired
      <3> QED
        BY <2>3, <3>2
    <2>7. CASE Ends(h, e, 1, NoArrays)
      <3>1. Result(e, 1, NoArrays) \in Results
        BY NothingKept, ResultType
      <3>2. StoredPaired'
        BY <1>1, <1>2, <2>7, <3>1, NonePaired, PairedAdded
      <3> QED
        BY <2>3, <3>2
    <2> QED
      BY <2>5, <2>6, <2>7
  <1> QED
    BY <1>5, <1>6, <1>7 DEF Step

LEMMA CondsNext ==
  ASSUME LevelsFit, CondsInv, [SerialNext]_vars
  PROVE  CondsInv'
  <1>1. OrderInv'
    BY SerialNextIsNext, OrderNext DEF CondsInv
  <1>2. CASE UNCHANGED vars
    <2>1. /\ last_cont_level' = last_cont_level /\ last_cond' = last_cond /\ load' = load
          /\ loaded' = loaded
      BY <1>2 DEF vars
    <2>2. \A g \in Handles : load[g].phase # "idle" /\ load[g].errs = 0 =>
            CondOK(last_cont_level, last_cond[g], load[g])
      BY Zenon DEF CondsInv, CondInv, Loading
    <2>3. \A g \in Handles : load'[g].phase # "idle" /\ load'[g].errs = 0 =>
            CondOK(last_cont_level', last_cond'[g], load'[g])
      BY <2>1, <2>2, Zenon
    <2>4. \A g \in Handles : \A k \in DOMAIN loaded[g] : AllPairedIn(loaded[g][k])
      BY DEF CondsInv, StoredPaired
    <2>5. \A g \in Handles : \A k \in DOMAIN loaded'[g] : AllPairedIn(loaded'[g][k])
      BY <2>1, <2>4
    <2> QED
      BY <1>1, <2>3, <2>5, CondOfNext, PairedOfNext, Zenon DEF CondsInv
  <1>3. ASSUME NEW h \in Handles, \A g \in Handles \ {h} : ~Loading(g), Begin(h) \/ Step(h)
        PROVE  CondsInv'
    <2>1. CondInv' /\ StoredPaired'
      BY <1>3, CondsStep
    <2> QED
      BY <1>1, <2>1 DEF CondsInv
  <1> QED
    BY <1>2, <1>3, Zenon DEF SerialNext, Done

\* Loads that run one at a time: in every group that is stored, and that jumps no
\* level, an elif or else follows an if or elif at its level (check_cond, with the
\* level table that parse() begins afresh for a level deeper than the last).
THEOREM SerialConditionsPaired ==
  ASSUME LevelsFit
  PROVE  SerialSpec => []ConditionsPaired
  <1>1. CondsInv => ConditionsPaired
    BY DEF CondsInv, StoredPaired, AllPairedIn, PairedIn, Paired, PairedAt, ConditionsPaired
  <1> QED
    BY CondsInit, CondsNext, <1>1, PTL DEF SerialSpec

\* A single handle is never disturbed: its loads run one at a time.
LEMMA AloneIsSerial ==
  ASSUME \A g, h \in Handles : g = h
  PROVE  [Next]_vars => [SerialNext]_vars
  BY Zenon DEF Next, SerialNext

\* The loads of a program with a single handle: the elif and else of what they
\* store are paired, and parse() stays inside of the level table.
THEOREM AlonePaired ==
  ASSUME LevelsFit, \A g, h \in Handles : g = h
  PROVE  Spec => [](ConditionsPaired /\ LevelInBounds)
  <1>1. Spec => SerialSpec
    BY AloneIsSerial, PTL DEF Spec, SerialSpec
  <1> QED
    BY <1>1, SerialConditionsPaired, SerialLevelInBounds, PTL
=============================================================================
