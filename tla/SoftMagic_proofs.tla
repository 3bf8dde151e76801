-------------------------- MODULE SoftMagic_proofs --------------------------
(***************************************************************************)
(* For any database, cyclic ones included, any settings and any input:     *)
(* the types of the interpreter's state, the bound on its recursion, that  *)
(* its per-level bookkeeping realises the tree of the rules (TreeInv),     *)
(* and what it prints: about one group or with separators between groups,  *)
(* and in step with the value it returns (PrintInv).                       *)
(***************************************************************************)
EXTENDS SoftMagic, FiniteSetTheorems, WellFoundedInduction, SequenceTheorems, TLAPS

Vias == {"top", "use", "indirect"}
Values == {-1, 0, 1, Running}
Rows == [off : Nat \X Nat, got_match : BOOLEAN, last_match : BOOLEAN]
Tables == [Levels -> Rows]
Prints == [out : Seq(Int), printed : BOOLEAN, firstline : BOOLEAN, group : Nat,
           flushed : BOOLEAN]
Frames == [via : Vias, rules : Seq(Rule), list : Nat, nonzero : BOOLEAN, magindex : Nat,
           cont_level : Levels, found_match : BOOLEAN, returnval : {0, 1},
           return : Values, status : Seq(Statuses), clobbered : BOOLEAN,
           saved_li : Tables \cup {<< >>}, saved_out : Seq(Int)]

\* An activation that stands inside of its list; one that was called by a use rule
\* keeps the table of its caller.
Good(f) ==
  /\ f \in Frames /\ f.magindex <= Len(f.rules)
  /\ DOMAIN f.status = DOMAIN f.rules
  /\ f.via = "use" => f.saved_li \in Tables

\* The same activation, further on.
Keeps(f, g) == Good(g) /\ g.via = f.via /\ g.list = f.list

\* It stands on a rule, which it examines.
OnRule(f) == Good(f) /\ f.magindex >= 1 /\ f.cont_level <= MaxLevel

-----------------------------------------------------------------------------
(* The level table and the output. *)

LEMMA LevelsFacts ==
  /\ MaxLevel \in Nat /\ 0 \in Levels /\ 1 \in Levels
  /\ \A l \in Levels : l <= MaxLevel => l + 1 \in Levels
  /\ \A l \in 0..MaxLevel : l \in Levels
  BY ParamsAssumption DEF Levels

LEMMA CheckMemType ==
  ASSUME NEW table \in Tables, NEW l \in Levels
  PROVE  CheckMem(table, l) \in Tables
  <1>1. [table EXCEPT ![l].got_match = FALSE] \in Tables
    BY DEF Tables, Rows
  <1>2. CheckMem(table, l) = [[table EXCEPT ![l].got_match = FALSE] EXCEPT ![l].last_match = FALSE]
    BY DEF CheckMem
  <1> DEFINE t == [table EXCEPT ![l].got_match = FALSE]
  <1> HIDE DEF t
  <1>3. ASSUME t \in Tables PROVE [t EXCEPT ![l].last_match = FALSE] \in Tables
    BY <1>3 DEF Tables, Rows
  <1> QED
    BY <1>1, <1>2, <1>3 DEF t

LEMMA OffType ==
  ASSUME NEW table \in Tables, NEW l \in Levels, NEW d \in Nat, NEW k \in Nat
  PROVE  [table EXCEPT ![l].off = <<d, k>>] \in Tables
  BY DEF Tables, Rows

LEMMA LastMatchType ==
  ASSUME NEW table \in Tables, NEW l \in Levels, NEW b \in BOOLEAN
  PROVE  [table EXCEPT ![l].last_match = b] \in Tables
  BY DEF Tables, Rows

LEMMA RecordMatchType ==
  ASSUME NEW table \in Tables, NEW l \in Levels, NEW e
  PROVE  RecordMatch(table, l, e) \in Tables
  <1> DEFINE t == [table EXCEPT ![l].last_match = TRUE]
             b == e.type # "clear"
  <1>1. t \in Tables /\ b \in BOOLEAN
    BY LastMatchType
  <1>2. RecordMatch(table, l, e) = [t EXCEPT ![l].got_match = b]
    BY DEF RecordMatch
  <1> HIDE DEF t, b
  <1>3. [t EXCEPT ![l].got_match = b] \in Tables
    BY <1>1 DEF Tables, Rows
  <1> QED
    BY <1>2, <1>3

LEMMA EmitType ==
  ASSUME NEW p \in Prints, NEW token \in Int
  PROVE  Emit(p, token) \in Prints
  <1> DEFINE out == Append(p.out, token)
  <1>1. p.out \in Seq(Int)
    BY DEF Prints
  <1>2. out \in Seq(Int)
    BY <1>1
  <1> HIDE DEF out
  <1>3. [p EXCEPT !.out = out] \in Prints
    BY <1>2 DEF Prints
  <1> QED
    BY <1>3 DEF Emit, out

LEMMA PrintTypes ==
  ASSUME NEW p \in Prints
  PROVE  /\ Text(p) \in Prints /\ PrintSep(p) \in Prints
         /\ \A e : PrintDesc(e, p) \in Prints
         /\ [p EXCEPT !.printed = TRUE] \in Prints
         /\ \A b \in BOOLEAN : [p EXCEPT !.flushed = b] \in Prints
         /\ \A out \in Seq(Int) : [p EXCEPT !.out = out] \in Prints
  <1>1. p.group \in Int /\ Separator \in Int
    BY DEF Prints, Separator
  <1>2. Text(p) \in Prints /\ PrintSep(p) \in Prints
    BY <1>1, EmitType DEF Text, PrintSep
  <1>3. \A e : PrintDesc(e, p) \in Prints
    BY <1>2 DEF PrintDesc
  <1> QED
    BY <1>2, <1>3 DEF Prints

-----------------------------------------------------------------------------
(* Activations. *)

\* Sets of numbers below a bound have a greatest element.
LEMMA Greatest ==
  ASSUME NEW n \in Nat, NEW S \in SUBSET (0..n), NEW i \in S
  PROVE  \E k \in S : \A j \in S : j <= k
  <1> DEFINE T == {m \in 0..n : n - m \in S}
  <1>1. T \subseteq Nat /\ T # {}
    <2>1. T \subseteq Nat /\ n - i \in T
      OBVIOUS
    <2> HIDE DEF T
    <2> QED
      BY <2>1
  <1> DEFINE R == OpToRel(<, Nat)
  <1>2. \A x, y \in Nat : x < y => <<x, y>> \in R
    BY DEF OpToRel
  <1>3. IsWellFoundedOn(R, Nat)
    BY NatLessThanWellFounded
  <1> HIDE DEF R
  <1>4. PICK m \in T : \A k \in T : ~ (<<k, m>> \in R)
    <2> HIDE DEF T
    <2> QED
      BY <1>1, <1>3, WFMin
  <1>5. \A j \in S : n - j \in T
    OBVIOUS
  <1>6. \A j \in S : ~ (n - j < m)
    BY <1>1, <1>2, <1>4, <1>5
  <1>7. n - m \in S /\ m \in 0..n
    BY <1>4
  <1>8. \A j \in S : j <= n - m
    BY <1>6, <1>7
  <1> QED
    BY <1>7, <1>8

LEMMA MarkGood ==
  ASSUME NEW f, Good(f), NEW s \in Statuses
  PROVE  /\ Keeps(f, Mark(f, s))
         /\ OnRule(f) => OnRule(Mark(f, s))
  <1> DEFINE t == [f.status EXCEPT ![f.magindex] = s]
  <1>1. f.status \in Seq(Statuses) /\ f \in Frames
    BY DEF Good, Frames
  <1>2. t \in Seq(Statuses) /\ DOMAIN t = DOMAIN f.status
    <2>1. CASE f.magindex \in 1..Len(f.status)
      BY <1>1, <2>1, ExceptSeq
    <2>2. CASE f.magindex \notin 1..Len(f.status)
      <3>1. t = f.status
        BY <1>1, <2>2
      <3> QED
        BY <1>1, <3>1
    <2> QED
      BY <2>1, <2>2
  <1>3. Mark(f, s) = [f EXCEPT !.status = t]
    BY DEF Mark
  <1> HIDE DEF t
  <1> QED
    BY <1>1, <1>2, <1>3 DEF Good, Keeps, OnRule, Frames

LEMMA FlushGood ==
  ASSUME NEW f, Good(f)
  PROVE  Keeps(f, Flush(f))
  <1> DEFINE past == {k \in f.magindex..Len(f.rules) :
                        \A j \in (f.magindex + 1)..k : f.rules[j].level # 0}
             n == CHOOSE k \in past : \A j \in past : j <= k
  <1>1. /\ f.magindex \in Nat /\ Len(f.rules) \in Nat /\ f.magindex <= Len(f.rules)
        /\ f \in Frames
    BY DEF Good, Frames
  <1>2. past \in SUBSET (0..Len(f.rules)) /\ f.magindex \in past
    BY <1>1
  <1>3. n \in past
    <2> HIDE DEF past
    <2> QED
      BY <1>1, <1>2, Greatest
  <1>4. n \in Nat /\ n <= Len(f.rules)
    BY <1>1, <1>3
  <1>5. Flush(f) = [f EXCEPT !.magindex = n, !.cont_level = 0]
    BY DEF Flush
  <1> HIDE DEF n
  <1> QED
    BY <1>1, <1>4, <1>5, LevelsFacts DEF Good, Keeps, Frames

LEMMA KeepsTrans ==
  ASSUME NEW f, NEW g, NEW h, Keeps(f, g), Keeps(g, h)
  PROVE  Keeps(f, h)
  BY DEF Keeps

LEMMA GoodKeeps == \A f : Good(f) => Keeps(f, f)
  BY DEF Keeps

\* The fields that a step may change.
LEMMA Updates ==
  ASSUME NEW f, Good(f), NEW b \in BOOLEAN, NEW r \in {0, 1}, NEW v \in Values,
         NEW l \in Levels
  PROVE  /\ Keeps(f, [f EXCEPT !.return = v])
         /\ Keeps(f, [f EXCEPT !.cont_level = l])
         /\ Keeps(f, [f EXCEPT !.cont_level = l, !.return = v])
         /\ Keeps(f, [f EXCEPT !.found_match = b, !.returnval = r, !.return = v])
         /\ Keeps(f, [f EXCEPT !.found_match = b, !.returnval = r])
         /\ Keeps(f, [f EXCEPT !.clobbered = TRUE])
         /\ OnRule(f) => /\ OnRule([f EXCEPT !.found_match = b, !.returnval = r])
                         /\ OnRule([f EXCEPT !.clobbered = TRUE])
                         /\ OnRule([f EXCEPT !.return = v])
  <1>1. Keeps(f, [f EXCEPT !.return = v]) /\ (OnRule(f) => OnRule([f EXCEPT !.return = v]))
    BY DEF Good, Keeps, Frames, OnRule
  <1>2. Keeps(f, [f EXCEPT !.cont_level = l])
    BY DEF Good, Keeps, Frames
  <1>3. Keeps(f, [f EXCEPT !.cont_level = l, !.return = v])
    BY DEF Good, Keeps, Frames
  <1>4. Keeps(f, [f EXCEPT !.found_match = b, !.returnval = r, !.return = v])
    BY DEF Good, Keeps, Frames
  <1>5. Keeps(f, [f EXCEPT !.found_match = b, !.returnval = r])
    BY DEF Good, Keeps, Frames
  <1>6. Keeps(f, [f EXCEPT !.clobbered = TRUE])
        /\ (OnRule(f) => OnRule([f EXCEPT !.clobbered = TRUE]))
    BY DEF Good, Keeps, Frames, OnRule
  <1>7. OnRule(f) => OnRule([f EXCEPT !.found_match = b, !.returnval = r])
    BY DEF Good, Keeps, Frames, OnRule
  <1> QED
    BY <1>1, <1>2, <1>3, <1>4, <1>5, <1>6, <1>7

\* The rule that an activation examines.
LEMMA RuleOf ==
  ASSUME NEW f, OnRule(f)
  PROVE  /\ f.rules[f.magindex] \in Rule /\ f.rules[f.magindex].desc \in BOOLEAN
         /\ f.rules[f.magindex].level \in 0..MaxLevel
         /\ f.cont_level \in 0..MaxLevel /\ f.magindex \in Nat
  <1>1. /\ f.rules \in Seq(Rule) /\ f.magindex \in 1..Len(f.rules)
        /\ f.cont_level \in 0..MaxLevel
    BY LevelsFacts DEF OnRule, Good, Frames, Levels
  <1>2. f.rules[f.magindex] \in Rule
    BY <1>1
  <1> QED
    BY <1>1, <1>2 DEF Rule

LEMMA DescribeKeeps ==
  ASSUME NEW f, OnRule(f), NEW e, e.desc \in BOOLEAN
  PROVE  Keeps(f, Describe(f, e)) /\ OnRule(Describe(f, e))
  <1> DEFINE b == f.found_match \/ e.desc
             r == IF Describes(e) THEN 1 ELSE f.returnval
  <1>1. Good(f) /\ b \in BOOLEAN /\ r \in {0, 1} /\ 0 \in Levels /\ Running \in Values
    BY LevelsFacts DEF OnRule, Good, Frames, Values
  <1>2. Describe(f, e) = [f EXCEPT !.found_match = b, !.returnval = r]
    BY DEF Describe
  <1> HIDE DEF b, r
  <1>3. Keeps(f, [f EXCEPT !.found_match = b, !.returnval = r])
        /\ OnRule([f EXCEPT !.found_match = b, !.returnval = r])
    BY <1>1, Updates, Zenon
  <1> QED
    BY <1>2, <1>3

\* A call of match() begins.
LEMMA FrameGood ==
  ASSUME NEW via \in Vias, NEW rules \in Seq(Rule), NEW list \in Nat, NEW nonzero \in BOOLEAN
  PROVE  LET f == Frame(via, rules, list, nonzero)
         IN /\ f \in Frames /\ f.magindex = 0 /\ f.via = via /\ f.list = list
            /\ f.rules = rules /\ DOMAIN f.status = DOMAIN rules
            /\ via # "use" => Good(f)
  <1> DEFINE f == Frame(via, rules, list, nonzero)
             t == [k \in DOMAIN rules |-> "unseen"]
  <1>1. t \in Seq(Statuses) /\ DOMAIN t = DOMAIN rules /\ Len(rules) \in Nat
    <2>1. "unseen" \in Statuses /\ DOMAIN rules = 1..Len(rules) /\ Len(rules) \in Nat
      BY DEF Statuses
    <2> QED
      BY <2>1
  <1> HIDE DEF t
  <1>2. f = [via |-> via, rules |-> rules, list |-> list, nonzero |-> nonzero,
             magindex |-> 0, cont_level |-> 0, found_match |-> FALSE, returnval |-> 0,
             return |-> Running, status |-> t,
             clobbered |-> FALSE, saved_li |-> << >>, saved_out |-> << >>]
    BY DEF Frame, t
  <1>3. 0 \in Levels /\ Running \in Values /\ << >> \in Seq(Int)
    BY LevelsFacts DEF Values
  <1> HIDE DEF f
  <1>4. f \in Frames
    BY <1>1, <1>2, <1>3 DEF Frames
  <1>5. /\ f.magindex = 0 /\ f.via = via /\ f.list = list /\ f.rules = rules
        /\ DOMAIN f.status = DOMAIN rules
    BY <1>1, <1>2
  <1>6. via # "use" => Good(f)
    BY <1>1, <1>4, <1>5 DEF Good
  <1> QED
    BY <1>4, <1>5, <1>6 DEF f

\* One that walks a list of the database.
OuterFrame(via, rules, list) == Frame(via, rules, list, FALSE)

LEMMA ListFrame ==
  ASSUME NEW via \in {"top", "indirect"}, NEW rules \in Seq(Rule), NEW list \in Nat
  PROVE  LET f == OuterFrame(via, rules, list)
         IN Good(f) /\ f.via = via /\ f.list = list
  <1> DEFINE no == FALSE
  <1>1. via \in Vias /\ via # "use" /\ no \in BOOLEAN
    BY DEF Vias
  <1> HIDE DEF no
  <1>2. /\ Good(Frame(via, rules, list, no))
        /\ Frame(via, rules, list, no).via = via
        /\ Frame(via, rules, list, no).list = list
    BY <1>1, FrameGood
  <1> QED
    BY <1>2, Zenon DEF no, OuterFrame

-----------------------------------------------------------------------------
(* The steps of an activation. *)

FlagsOK == flags \in [continue : BOOLEAN, nodesc : BOOLEAN, annotate : BOOLEAN]
SharedOK == li \in Tables /\ print \in Prints /\ err \in BOOLEAN

\* The activation f, at depth d, goes on; those above it are gone.
GoesOn(d, f) ==
  /\ \E g : Keeps(f, g) /\ Become(d, g)
  /\ li' \in Tables /\ print' \in Prints

LEMMA AnnotateType ==
  ASSUME FlagsOK, NEW d, NEW f, OnRule(f), NEW p \in Prints, NEW table \in Tables,
         Annotate(d, f, p, table)
  PROVE  GoesOn(d, f)
  <1> DEFINE m == Mark(f, "open")
             g == [m EXCEPT !.found_match = TRUE, !.returnval = 1, !.return = 1]
             q == IF p.firstline \/ flags.continue THEN Text(PrintSep(p)) ELSE p
  <1>1. Keeps(f, m) /\ Good(m)
    <2>1. "open" \in Statuses /\ Good(f)
      BY DEF Statuses, OnRule
    <2> QED
      BY <2>1, MarkGood DEF Keeps
  <1> HIDE DEF m
  <1>2. Keeps(m, g)
    <2>1. 1 \in Values /\ 1 \in {0, 1} /\ 0 \in Levels
      BY LevelsFacts DEF Values
    <2> QED
      BY <1>1, <2>1, Updates, Zenon
  <1>3. Keeps(f, g)
    BY <1>1, <1>2, KeepsTrans
  <1>4. q \in Prints
    BY PrintTypes
  <1> HIDE DEF g, q
  <1>5. [q EXCEPT !.printed = TRUE, !.firstline = FALSE] \in Prints
    BY <1>4 DEF Prints
  <1>6. Become(d, g) /\ li' = table /\ print' = [q EXCEPT !.printed = TRUE, !.firstline = FALSE]
    BY DEF Annotate, g, m, q
  <1> QED
    BY <1>3, <1>5, <1>6 DEF GoesOn

LEMMA SettleGroupType ==
  ASSUME FlagsOK, NEW d \in Nat, NEW f, OnRule(f), NEW p \in Prints, NEW table \in Tables,
         NEW verdict \in Statuses \cup {"hit"}, SettleGroup(d, f, p, table, verdict)
  PROVE  GoesOn(d, f)
  <1> DEFINE e == f.rules[f.magindex]
             g == Describe(f, e)
             p0 == [p EXCEPT !.printed = TRUE]
             p1 == IF Describes(e) THEN PrintDesc(e, PrintSep(p0)) ELSE p
  <1>1. Good(f) /\ e.desc \in BOOLEAN /\ f.magindex \in Nat
    BY RuleOf DEF OnRule
  <1>2. p1 \in Prints
    BY PrintTypes
  <1>3. Keeps(f, g) /\ OnRule(g) /\ Good(g) /\ g.found_match \in BOOLEAN
    <2>1. Keeps(f, g) /\ OnRule(g)
      BY <1>1, DescribeKeeps
    <2> HIDE DEF g
    <2> QED
      BY <2>1 DEF OnRule, Good, Frames
  <1>4. 1 \in Levels /\ 0 \in Levels
    BY LevelsFacts
  <1>5. CASE /\ ~Matched(e, verdict)
             /\ Become(d, Flush(Mark(f, verdict)))
             /\ print' = p /\ li' = table
    <2>1. verdict \in Statuses
      BY <1>5 DEF Matched
    <2>2. Keeps(f, Mark(f, verdict)) /\ Good(Mark(f, verdict))
      BY <1>1, <2>1, MarkGood DEF Keeps
    <2>3. Keeps(f, Flush(Mark(f, verdict)))
      BY <2>2, FlushGood, KeepsTrans
    <2> QED
      BY <1>5, <2>3 DEF GoesOn
  <1>6. CASE Annotate(d, f, p, table)
    BY <1>6, AnnotateType
  <1>7. CASE /\ Become(d, [Mark(g, "open") EXCEPT !.cont_level = 1])
             /\ li' = CheckMem([table EXCEPT ![0].off = <<d, f.magindex>>], 1)
             /\ print' = p1
    <2> DEFINE m == Mark(g, "open")
    <2>1. "open" \in Statuses
      BY DEF Statuses
    <2>2. Keeps(g, m) /\ Good(m)
      BY <1>3, <2>1, MarkGood DEF Keeps
    <2>3. Keeps(f, m)
      BY <1>3, <2>2, KeepsTrans
    <2> HIDE DEF m
    <2>4. Keeps(m, [m EXCEPT !.cont_level = 1])
      <3>1. TRUE \in BOOLEAN /\ 0 \in {0, 1} /\ 0 \in Values
        BY DEF Values
      <3> QED
        BY <1>4, <2>2, <3>1, Updates, Zenon
    <2>5. Keeps(f, [m EXCEPT !.cont_level = 1])
      BY <2>3, <2>4, KeepsTrans
    <2>6. li' \in Tables
      BY <1>1, <1>4, <1>7, OffType, CheckMemType
    <2> HIDE DEF p1
    <2> QED
      BY <1>2, <1>7, <2>5, <2>6 DEF GoesOn, m
  <1>8. CASE /\ Become(d, Flush(Mark(g, "bad")))
             /\ li' = table
             /\ print' = [p1 EXCEPT !.flushed = @ \/ g.found_match]
    <2>1. "bad" \in Statuses
      BY DEF Statuses
    <2>2. Keeps(g, Mark(g, "bad")) /\ Good(Mark(g, "bad"))
      BY <1>3, <2>1, MarkGood DEF Keeps
    <2>3. Keeps(f, Flush(Mark(g, "bad")))
      BY <1>3, <2>2, FlushGood, KeepsTrans
    <2> HIDE DEF p1, g
    <2>4. p1.flushed \/ g.found_match \in BOOLEAN
      BY <1>2, <1>3 DEF Prints
    <2>5. [p1 EXCEPT !.flushed = p1.flushed \/ g.found_match] \in Prints
      BY <1>2, <2>4, PrintTypes
    <2> QED
      BY <1>8, <2>3, <2>5 DEF GoesOn
  <1> QED
    BY <1>5, <1>6, <1>7, <1>8 DEF SettleGroup

LEMMA SettleContinuationType ==
  ASSUME FlagsOK, NEW d \in Nat, NEW f, OnRule(f), NEW p \in Prints, NEW table \in Tables,
         NEW verdict \in Statuses \cup {"hit"}, SettleContinuation(d, f, p, table, verdict)
  PROVE  GoesOn(d, f)
  <1> DEFINE e == f.rules[f.magindex]
             l == f.cont_level
             yes == RecordMatch(table, l, e)
             g == Describe(f, e)
             p1 == IF p.printed THEN p ELSE PrintSep([p EXCEPT !.printed = TRUE])
             pd == IF Describes(e) THEN PrintDesc(e, p1) ELSE p
  <1>1. Good(f) /\ e.desc \in BOOLEAN /\ f.magindex \in Nat /\ l \in 0..MaxLevel
    BY RuleOf DEF OnRule
  <1>2. pd \in Prints
    <2>1. p1 \in Prints
      BY PrintTypes
    <2> QED
      BY <2>1, PrintTypes
  <1>3. Keeps(f, g) /\ OnRule(g) /\ Good(g)
    BY <1>1, DescribeKeeps DEF OnRule
  <1>4. l \in Levels /\ l + 1 \in Levels
    BY <1>1, LevelsFacts
  <1>5. yes \in Tables
    BY <1>4, RecordMatchType
  <1>6. ASSUME NEW s \in Statuses PROVE Keeps(f, Mark(f, s))
    BY <1>1, MarkGood
  <1>7. ASSUME NEW s \in Statuses PROVE Keeps(f, Mark(g, s)) /\ Good(Mark(g, s))
    BY <1>3, MarkGood, KeepsTrans DEF Keeps
  <1>8. {"oob", "miss", "mute", "open", "bad"} \subseteq Statuses
    BY DEF Statuses
  <1>9. CASE /\ Become(d, Mark(f, "oob")) /\ print' = p /\ li' = table
    BY <1>6, <1>8, <1>9 DEF GoesOn
  <1>10. CASE /\ Become(d, Mark(f, "miss"))
              /\ print' = p /\ li' = [table EXCEPT ![l].last_match = FALSE]
    BY <1>4, <1>6, <1>8, <1>10, LastMatchType DEF GoesOn
  <1>11. CASE /\ Become(d, Mark(f, "mute")) /\ print' = p /\ li' = yes
    BY <1>5, <1>6, <1>8, <1>11 DEF GoesOn
  <1>12. CASE Annotate(d, f, p, yes)
    <2> HIDE DEF yes
    <2> QED
      BY <1>5, <1>12, AnnotateType
  <1>13. CASE /\ print' = pd
              /\ Become(d, [Mark(g, "open") EXCEPT !.cont_level = l + 1])
              /\ li' = CheckMem([yes EXCEPT ![l].off = <<d, f.magindex>>], l + 1)
    <2> DEFINE m == Mark(g, "open")
    <2>1. Keeps(f, m) /\ Good(m)
      BY <1>7, <1>8
    <2> HIDE DEF m, yes, pd
    <2>2. Keeps(m, [m EXCEPT !.cont_level = l + 1])
      <3>1. TRUE \in BOOLEAN /\ 0 \in {0, 1} /\ 0 \in Values
        BY DEF Values
      <3> QED
        BY <1>4, <2>1, <3>1, Updates, Zenon
    <2>3. Keeps(f, [m EXCEPT !.cont_level = l + 1])
      BY <2>1, <2>2, KeepsTrans
    <2>4. li' \in Tables
      BY <1>1, <1>4, <1>5, <1>13, OffType, CheckMemType
    <2> QED
      BY <1>2, <1>13, <2>3, <2>4 DEF GoesOn, m
  <1>14. CASE /\ print' = pd
              /\ Become(d, Mark(g, "bad")) /\ li' = CheckMem(yes, l)
    <2> HIDE DEF g, yes, pd
    <2> QED
      BY <1>2, <1>4, <1>5, <1>7, <1>8, <1>14, CheckMemType DEF GoesOn
  <1> QED
    BY <1>9, <1>10, <1>11, <1>12, <1>13, <1>14 DEF SettleContinuation

LEMMA SettleType ==
  ASSUME FlagsOK, NEW d \in Nat, NEW f, OnRule(f), NEW p \in Prints, NEW table \in Tables,
         NEW verdict \in Statuses \cup {"hit"}, Settle(d, f, p, table, verdict)
  PROVE  GoesOn(d, f)
  BY SettleGroupType, SettleContinuationType DEF Settle

LEMMA FailType ==
  ASSUME SharedOK, NEW d, NEW f, Good(f), Fail(d, f) \/ GiveUp(d, f)
  PROVE  GoesOn(d, f) /\ err' \in BOOLEAN
  <1>1. TRUE \in BOOLEAN /\ 0 \in {0, 1} /\ -1 \in Values /\ 0 \in Levels
    BY LevelsFacts DEF Values
  <1>2. Keeps(f, [f EXCEPT !.return = -1])
    BY <1>1, Updates, Zenon
  <1> QED
    BY <1>2 DEF Fail, GiveUp, GoesOn, SharedOK

-----------------------------------------------------------------------------
(* The examination of a rule: the activation goes on, or it calls another.  *)

DbOK ==
  /\ db.lists \in Seq(Seq(Rule)) /\ db.lists # << >>
  /\ \A n \in DOMAIN db.names : db.names[n] \in Seq(Rule)

CountOK == count \in [indir : 0..IndirMax, name : 0..NameMax]

Stays == GoesOn(Depth, Top) /\ err' \in BOOLEAN /\ UNCHANGED count

\* The activation Top, on one of its rules, calls match() for child.
Calls(child) ==
  /\ \E g : OnRule(g) /\ Keeps(Top, g) /\ stack' = Below \o <<g, child>>
  /\ Good(child) /\ child.list <= Len(db.lists)
  /\ li' \in Tables /\ print' \in Prints /\ err' \in BOOLEAN
CallsUse ==
  /\ \E child : Calls(child) /\ child.via = "use"
  /\ count.name < NameMax /\ count' = [count EXCEPT !.name = @ + 1]
CallsIndirect ==
  /\ \E child : Calls(child) /\ child.via = "indirect"
  /\ count.indir < IndirMax /\ count' = [count EXCEPT !.indir = @ + 1]

LEMMA GoesOnTop ==
  ASSUME NEW f, Keeps(Top, f), GoesOn(Depth, f)
  PROVE  GoesOn(Depth, Top)
  BY KeepsTrans DEF GoesOn

LEMMA FailStays ==
  ASSUME SharedOK, NEW f, Keeps(Top, f), Fail(Depth, f) \/ GiveUp(Depth, f),
         UNCHANGED count
  PROVE  Stays
  BY FailType, GoesOnTop DEF Stays, Keeps

LEMMA ConsultType ==
  ASSUME FlagsOK, SharedOK, Depth \in Nat, NEW f, OnRule(f), Keeps(Top, f), NEW p \in Prints,
         Consult(f, p, f.rules[f.magindex])
  PROVE  Stays
  <1> DEFINE e == f.rules[f.magindex]
  <1>1. UNCHANGED count
    BY DEF Consult
  <1>2. PICK verdict \in Verdicts(e) :
          IF verdict = "fail" THEN Fail(Depth, f) \/ GiveUp(Depth, f)
          ELSE /\ Settle(Depth, f, IF e.type = "name" /\ Describes(e) THEN Text(p) ELSE p,
                         li, verdict)
               /\ UNCHANGED err
    BY DEF Consult
  <1> DEFINE q == IF e.type = "name" /\ Describes(e) THEN Text(p) ELSE p
  <1>3. CASE verdict = "fail"
    BY <1>1, <1>2, <1>3, FailStays
  <1>4. CASE verdict # "fail"
    <2>1. verdict \in Statuses \cup {"hit"}
      <3>1. e.type \in Types
        BY RuleOf DEF Rule
      <3> HIDE DEF e
      <3> QED
        BY <1>2, <1>4, <3>1 DEF Verdicts, Statuses, Types
    <2>2. q \in Prints
      BY PrintTypes
    <2>3. Settle(Depth, f, q, li, verdict) /\ UNCHANGED err
      BY <1>2, <1>4
    <2> HIDE DEF q, e
    <2>4. GoesOn(Depth, f)
      BY <2>1, <2>2, <2>3, SettleType DEF SharedOK
    <2> QED
      BY <1>1, <2>3, <2>4, GoesOnTop DEF Stays, SharedOK
  <1> QED
    BY <1>3, <1>4

LEMMA CallUseType ==
  ASSUME DbOK, SharedOK, CountOK, NEW f, OnRule(f), Keeps(Top, f), NEW p \in Prints,
         NEW e, ~AtLimit, CallUse(f, p, e)
  PROVE  Stays \/ CallsUse
  <1>1. CASE Fail(Depth, f) /\ UNCHANGED count
    BY <1>1, FailStays
  <1>2. CASE e.name \in DOMAIN db.names
    <2>1. PICK nonzero \in {f.nonzero, TRUE} :
            stack' = Below \o <<f, [Frame("use", db.names[e.name], 0, nonzero) EXCEPT
                                      !.returnval = f.returnval, !.saved_li = li]>>
      BY <1>2 DEF CallUse
    <2>2. /\ li' = CheckMem(li, 0) /\ print' = p /\ UNCHANGED err
          /\ count' = [count EXCEPT !.name = @ + 1]
      BY <1>2 DEF CallUse
    <2> DEFINE new == Frame("use", db.names[e.name], 0, nonzero)
               child == [new EXCEPT !.returnval = f.returnval, !.saved_li = li]
    <2>3. f.nonzero \in BOOLEAN /\ f.returnval \in {0, 1}
      BY DEF OnRule, Good, Frames
    <2>4. /\ new \in Frames /\ new.magindex = 0 /\ new.via = "use" /\ new.list = 0
          /\ new.rules = db.names[e.name] /\ DOMAIN new.status = DOMAIN new.rules
      <3>1. db.names[e.name] \in Seq(Rule) /\ nonzero \in BOOLEAN /\ "use" \in Vias /\ 0 \in Nat
        BY <1>2, <2>1, <2>3 DEF DbOK, Vias
      <3> QED
        BY <3>1, FrameGood
    <2>5. stack' = Below \o <<f, child>>
      BY <2>1
    <2> HIDE DEF new
    <2>6. Good(child) /\ child.via = "use" /\ child.list = 0
      <3>1. child \in Frames
        BY <2>3, <2>4 DEF Frames, SharedOK
      <3>2. /\ child.via = "use" /\ child.list = 0 /\ child.magindex = 0
            /\ child.rules = new.rules /\ child.status = new.status /\ child.saved_li = li
        BY <2>4 DEF Frames
      <3> HIDE DEF child
      <3>3. new.rules \in Seq(Rule)
        BY <2>4 DEF Frames
      <3> QED
        BY <2>4, <3>1, <3>2, <3>3 DEF Good, SharedOK
    <2> HIDE DEF child
    <2>7. li' \in Tables /\ print' \in Prints /\ err' \in BOOLEAN
      BY <2>2, CheckMemType, LevelsFacts DEF SharedOK
    <2>8. 0 <= Len(db.lists)
      BY DEF DbOK
    <2>9. Calls(child)
      BY <2>5, <2>6, <2>7, <2>8 DEF Calls
    <2>10. count.name < NameMax
      BY ParamsAssumption DEF AtLimit, CountOK
    <2> QED
      BY <2>2, <2>6, <2>9, <2>10 DEF CallsUse
  <1> QED
    BY <1>1, <1>2 DEF CallUse

LEMMA CallIndirectType ==
  ASSUME DbOK, SharedOK, CountOK, NEW f, OnRule(f), Keeps(Top, f), NEW p \in Prints,
         ~AtLimit, CallIndirect(f, p)
  PROVE  Stays \/ CallsIndirect
  <1>1. CASE GiveUp(Depth, f) /\ UNCHANGED count
    BY <1>1, FailStays
  <1>2. CASE ~(GiveUp(Depth, f) /\ UNCHANGED count)
    <2> DEFINE new == OuterFrame("indirect", db.lists[1], 1)
               child == [new EXCEPT !.saved_out = p.out]
               g == [f EXCEPT !.clobbered = TRUE]
    <2>1. /\ stack' = Below \o <<g, child>>
          /\ li' = CheckMem(li, 0) /\ print' = [p EXCEPT !.out = << >>] /\ UNCHANGED err
          /\ count' = [count EXCEPT !.indir = @ + 1]
      BY <1>2, Zenon DEF CallIndirect, OuterFrame
    <2>2. Good(new) /\ new.via = "indirect" /\ new.list = 1
      <3>1. db.lists[1] \in Seq(Rule) /\ "indirect" \in {"top", "indirect"} /\ 1 \in Nat
        BY DEF DbOK
      <3> HIDE DEF child, g
      <3> QED
        BY <3>1, ListFrame DEF new
    <2>3. OnRule(g) /\ Keeps(Top, g)
      <3>1. Good(f) /\ TRUE \in BOOLEAN /\ 0 \in {0, 1} /\ 0 \in Values /\ 0 \in Levels
        BY LevelsFacts DEF OnRule, Values
      <3>2. OnRule(g) /\ Keeps(f, g)
        BY <3>1, Updates, Zenon
      <3> HIDE DEF g
      <3> QED
        BY <3>2, KeepsTrans
    <2> HIDE DEF new, g
    <2>4. Good(child) /\ child.via = "indirect" /\ child.list = 1
      BY <2>2 DEF Good, Frames, Prints
    <2>5. li' \in Tables /\ print' \in Prints /\ err' \in BOOLEAN
      <3>1. << >> \in Seq(Int)
        OBVIOUS
      <3> QED
        BY <2>1, <3>1, CheckMemType, PrintTypes, LevelsFacts DEF SharedOK
    <2>6. 1 <= Len(db.lists)
      BY DEF DbOK
    <2> HIDE DEF child
    <2>7. Calls(child)
      BY <2>1, <2>3, <2>4, <2>5, <2>6 DEF Calls
    <2>8. count.indir < IndirMax
      BY ParamsAssumption DEF AtLimit, CountOK
    <2> QED
      BY <2>1, <2>4, <2>7, <2>8 DEF CallsIndirect
  <1> QED
    BY <1>1, <1>2

LEMMA EvaluateType ==
  ASSUME DbOK, FlagsOK, SharedOK, CountOK, Depth \in Nat, NEW f, OnRule(f), Keeps(Top, f),
         NEW p \in Prints, Evaluate(f, p)
  PROVE  Stays \/ CallsUse \/ CallsIndirect
  <1> DEFINE e == f.rules[f.magindex]
  <1>1. Good(f) /\ f.found_match \in BOOLEAN
    BY DEF OnRule, Good, Frames
  <1>2. PICK where \in SetOffset(f, e) :
       \/ /\ where = "ok" /\ Barred(f, e)
          /\ Become(Depth, Mark(f, "barred"))
          /\ UNCHANGED <<li, print, count, err>>
       \/ /\ where = "ok" /\ ~Barred(f, e) /\ AtLimit
          /\ Fail(Depth, f)
          /\ UNCHANGED count
       \/ /\ where = "ok" /\ ~Barred(f, e) /\ ~AtLimit
          /\ \/ Consult(f, p, e)
             \/ e.type = "use" /\ CallUse(f, p, e)
             \/ e.type = "indirect" /\ CallIndirect(f, p)
       \/ /\ where = "badsize"
          /\ Become(Depth, f)
          /\ print' = p
          /\ UNCHANGED <<li, count, err>>
       \/ /\ where \in {"far", "error"}
          /\ Become(Depth, Flush(f))
          /\ err' = (err \/ where = "error")
          /\ print' = [p EXCEPT !.flushed = @ \/ f.found_match]
          /\ UNCHANGED <<li, count>>
    BY DEF Evaluate
  <1>3. CASE Become(Depth, Mark(f, "barred")) /\ UNCHANGED <<li, print, count, err>>
    <2>1. Keeps(f, Mark(f, "barred"))
      BY <1>1, MarkGood DEF Statuses
    <2>2. Keeps(Top, Mark(f, "barred"))
      BY <2>1, KeepsTrans
    <2> QED
      BY <1>3, <2>2 DEF Stays, GoesOn, SharedOK
  <1>4. CASE Fail(Depth, f) /\ UNCHANGED count
    BY <1>4, FailStays
  <1>5. CASE Consult(f, p, e)
    BY <1>5, ConsultType
  <1>6. CASE ~AtLimit /\ CallUse(f, p, e)
    BY <1>6, CallUseType
  <1>7. CASE ~AtLimit /\ CallIndirect(f, p)
    BY <1>7, CallIndirectType
  <1>8. CASE Become(Depth, f) /\ print' = p /\ UNCHANGED <<li, count, err>>
    BY <1>8 DEF Stays, GoesOn, SharedOK
  <1>9. CASE /\ Become(Depth, Flush(f))
             /\ err' = (err \/ where = "error")
             /\ print' = [p EXCEPT !.flushed = @ \/ f.found_match]
             /\ UNCHANGED <<li, count>>
    <2>1. Keeps(Top, Flush(f))
      BY <1>1, FlushGood, KeepsTrans
    <2>2. p.flushed \/ f.found_match \in BOOLEAN
      BY <1>1 DEF Prints
    <2>3. print' \in Prints
      <3>1. [p EXCEPT !.flushed = p.flushed \/ f.found_match] \in Prints
        BY <2>2, PrintTypes
      <3> QED
        BY <1>9, <3>1
    <2> QED
      BY <1>9, <2>1, <2>3 DEF Stays, GoesOn, SharedOK
  <1> QED
    BY <1>2, <1>3, <1>4, <1>5, <1>6, <1>7, <1>8, <1>9

-----------------------------------------------------------------------------
(* The stack of activations.  All but the last one stand on a rule that calls *)
(* the next; the first one was called by file_softmagic, the others by rules. *)

Called(s, via) == {d \in DOMAIN s : s[d].via = via}

StackOK(s, lists) ==
  /\ s \in Seq(Frames) /\ s # << >>
  /\ \A d \in 1..Len(s) : Good(s[d]) /\ s[d].list <= lists
  /\ \A d \in 1..(Len(s) - 1) : OnRule(s[d])
  /\ \A d \in 1..Len(s) : IF d = 1 THEN s[d].via = "top" ELSE s[d].via \in {"use", "indirect"}

LEMMA StackTop ==
  ASSUME NEW n, StackOK(stack, n)
  PROVE  /\ Depth \in Nat /\ Depth >= 1 /\ Good(Top) /\ Top.list <= n
         /\ (Top.via = "top") <=> (Depth = 1)
         /\ Top.via \in Vias
         /\ Depth > 1 => OnRule(Caller) /\ Depth - 1 \in 1..Depth
  <1>1. Depth \in Nat /\ Depth >= 1 /\ Depth = Len(stack)
    BY DEF StackOK, Depth
  <1>2. Depth \in 1..Len(stack)
    BY <1>1
  <1>3. Good(Top) /\ Top.list <= n
    BY <1>2 DEF StackOK, Top
  <1>4. IF Depth = 1 THEN Top.via = "top" ELSE Top.via \in {"use", "indirect"}
    BY <1>2 DEF StackOK, Top
  <1>5. ASSUME Depth > 1 PROVE OnRule(Caller) /\ Depth - 1 \in 1..Depth
    <2>1. Depth - 1 \in 1..(Len(stack) - 1) /\ Depth - 1 \in 1..Depth
      BY <1>1, <1>5
    <2> QED
      BY <2>1 DEF StackOK, Caller
  <1>6. (Top.via = "top") <=> (Depth = 1)
    BY <1>4
  <1>7. Top.via \in Vias
    BY <1>4 DEF Vias
  <1> QED
    BY <1>1, <1>3, <1>5, <1>6, <1>7

\* The activation at d becomes g, and those above it return.
Cut(s, d, g) == Append(SubSeq(s, 1, d - 1), g)

LEMMA BecomeStack ==
  ASSUME NEW n, NEW s, StackOK(s, n), NEW d \in 1..Len(s), NEW g,
         Good(g), g.via = s[d].via, g.list <= n
  PROVE  /\ StackOK(Cut(s, d, g), n)
         /\ \A via : Called(Cut(s, d, g), via) = Called(s, via) \cap (1..d)
  <1> DEFINE b == SubSeq(s, 1, d - 1)
             t == Append(b, g)
  <1>1. s \in Seq(Frames) /\ Len(s) \in Nat /\ g \in Frames /\ d \in Nat
    BY DEF StackOK, Good
  <1>2. b \in Seq(Frames) /\ Len(b) = d - 1 /\ \A i \in 1..(d - 1) : b[i] = s[i]
    BY <1>1
  <1> HIDE DEF b
  <1>3. /\ t \in Seq(Frames) /\ Len(t) = d /\ t # << >>
        /\ \A i \in 1..(d - 1) : t[i] = s[i]
        /\ t[d] = g
    BY <1>1, <1>2
  <1> HIDE DEF t
  <1>4. \A i \in 1..d : t[i].via = s[i].via /\ t[i].list <= n /\ Good(t[i])
    BY <1>1, <1>3 DEF StackOK
  <1>5. StackOK(t, n)
    <2>1. \A i \in 1..Len(t) : Good(t[i]) /\ t[i].list <= n
      BY <1>1, <1>3, <1>4 DEF StackOK
    <2>2. \A i \in 1..(Len(t) - 1) : OnRule(t[i])
      BY <1>1, <1>3 DEF StackOK
    <2>3. \A i \in 1..Len(t) : IF i = 1 THEN t[i].via = "top" ELSE t[i].via \in {"use", "indirect"}
      BY <1>1, <1>3, <1>4 DEF StackOK
    <2> QED
      BY <1>3, <2>1, <2>2, <2>3 DEF StackOK
  <1>6. ASSUME NEW via PROVE Called(t, via) = Called(s, via) \cap (1..d)
    <2>1. DOMAIN t = 1..d /\ DOMAIN s = 1..Len(s) /\ d <= Len(s)
      BY <1>1, <1>3
    <2> QED
      BY <1>1, <1>4, <2>1 DEF Called
  <1> QED
    BY <1>5, <1>6 DEF Cut, t, b

\* The last activation calls another.
Pushed(s, g, child) == SubSeq(s, 1, Len(s) - 1) \o <<g, child>>

LEMMA PushStack ==
  ASSUME NEW n, NEW s, StackOK(s, n), NEW g, OnRule(g), Keeps(s[Len(s)], g),
         NEW child, Good(child), child.list <= n, child.via \in {"use", "indirect"}
  PROVE  /\ StackOK(Pushed(s, g, child), n)
         /\ \A via : Called(Pushed(s, g, child), via) =
                        IF via = child.via THEN Called(s, via) \cup {Len(s) + 1}
                        ELSE Called(s, via)
  <1> DEFINE d == Len(s)
             b == SubSeq(s, 1, d - 1)
             t == b \o <<g, child>>
  <1>1. s \in Seq(Frames) /\ d \in Nat /\ d >= 1 /\ g \in Frames /\ child \in Frames
    BY DEF StackOK, Keeps, Good
  <1>2. b \in Seq(Frames) /\ Len(b) = d - 1 /\ \A i \in 1..(d - 1) : b[i] = s[i]
    <2>1. d - 1 \in 0..Len(s)
      BY <1>1
    <2>2. \A m \in 0..Len(s) : LET c == SubSeq(s, 1, m)
                               IN c \in Seq(Frames) /\ Len(c) = m /\ \A i \in 1..m : c[i] = s[i]
      BY <1>1
    <2> HIDE DEF d
    <2> QED
      BY <2>1, <2>2
  <1> HIDE DEF b
  <1>3. /\ t \in Seq(Frames) /\ Len(t) = d + 1
        /\ \A i \in 1..(d - 1) : t[i] = s[i]
        /\ t[d] = g /\ t[d + 1] = child
    <2> HIDE DEF d
    <2>1. <<g, child>> \in Seq(Frames) /\ Len(<<g, child>>) = 2
      BY <1>1
    <2>2. t \in Seq(Frames) /\ Len(t) = d + 1
      BY <1>1, <1>2, <2>1
    <2>3. \A i \in 1..(d + 1) : t[i] = IF i <= d - 1 THEN b[i] ELSE <<g, child>>[i - (d - 1)]
      BY <1>1, <1>2, <2>1
    <2> QED
      BY <1>1, <1>2, <2>2, <2>3
  <1> HIDE DEF t
  <1>4. \A i \in 1..d : t[i].via = s[i].via /\ t[i].list = s[i].list /\ Good(t[i])
    BY <1>1, <1>3 DEF StackOK, Keeps
  <1>5. StackOK(t, n)
    <2>1. \A i \in 1..Len(t) : Good(t[i]) /\ t[i].list <= n
      BY <1>1, <1>3, <1>4 DEF StackOK
    <2>2. \A i \in 1..(Len(t) - 1) : OnRule(t[i])
      BY <1>1, <1>3 DEF StackOK
    <2>3. \A i \in 1..Len(t) : IF i = 1 THEN t[i].via = "top" ELSE t[i].via \in {"use", "indirect"}
      BY <1>1, <1>3, <1>4 DEF StackOK
    <2>4. t # << >>
      BY <1>1, <1>3
    <2> QED
      BY <1>3, <2>1, <2>2, <2>3, <2>4 DEF StackOK
  <1>6. ASSUME NEW via
        PROVE  Called(t, via) = IF via = child.via THEN Called(s, via) \cup {d + 1}
                                ELSE Called(s, via)
    <2>1. DOMAIN t = 1..(d + 1) /\ DOMAIN s = 1..d
      BY <1>1, <1>3
    <2>2. \A i : i \in 1..(d + 1) <=> i \in 1..d \/ i = d + 1
      BY <1>1
    <2> HIDE DEF d
    <2> QED
      BY <1>3, <1>4, <2>1, <2>2 DEF Called
  <1> QED
    BY <1>5, <1>6 DEF Pushed, t, b

\* How many activations there are, and were.
LEMMA CalledCount ==
  ASSUME NEW n, NEW s, StackOK(s, n)
  PROVE  /\ \A via : /\ IsFiniteSet(Called(s, via)) /\ Cardinality(Called(s, via)) \in Nat
                     /\ Called(s, via) \subseteq 1..Len(s)
         /\ Len(s) = 1 + Cardinality(Called(s, "use")) + Cardinality(Called(s, "indirect"))
  <1>1. s \in Seq(Frames) /\ Len(s) \in Nat /\ Len(s) >= 1 /\ DOMAIN s = 1..Len(s)
    BY DEF StackOK
  <1>2. IsFiniteSet(1..Len(s))
    BY <1>1, FS_Interval
  <1>3. ASSUME NEW via
        PROVE  /\ IsFiniteSet(Called(s, via)) /\ Cardinality(Called(s, via)) \in Nat
               /\ Called(s, via) \subseteq 1..Len(s)
    <2>1. Called(s, via) \subseteq 1..Len(s)
      BY <1>1 DEF Called
    <2>2. IsFiniteSet(Called(s, via))
      BY <1>2, <2>1, FS_Subset
    <2> QED
      BY <2>1, <2>2, FS_CardinalityType
  <1> DEFINE U == Called(s, "use")
             I == Called(s, "indirect")
  <1>4. U \cup I = 2..Len(s) /\ U \cap I = {}
    <2>1. \A d \in 1..Len(s) : d \in 2..Len(s) <=> d # 1
      BY <1>1
    <2>2. \A d \in 1..Len(s) : d # 1 <=> s[d].via \in {"use", "indirect"}
      BY <1>1 DEF StackOK
    <2>3. 2..Len(s) \subseteq 1..Len(s)
      BY <1>1
    <2> QED
      BY <1>1, <2>1, <2>2, <2>3 DEF Called
  <1>5. Cardinality(2..Len(s)) = Len(s) - 1
    BY <1>1, FS_Interval
  <1>6. Cardinality(U \cup I) = Cardinality(U) + Cardinality(I) - Cardinality(U \cap I)
    BY <1>3, FS_Union
  <1>7. Cardinality(U \cap I) = 0
    BY <1>4, FS_EmptySet
  <1>8. Cardinality(U) \in Nat /\ Cardinality(I) \in Nat
    BY <1>3
  <1> HIDE DEF U, I
  <1>9. Len(s) = 1 + Cardinality(U) + Cardinality(I)
    <2>1. Cardinality(U \cup I) = Len(s) - 1
      BY <1>4, <1>5
    <2>2. Len(s) - 1 = Cardinality(U) + Cardinality(I) - 0
      BY <1>6, <1>7, <2>1
    <2> QED
      BY <1>1, <1>8, <2>2
  <1> QED
    BY <1>3, <1>9 DEF U, I

-----------------------------------------------------------------------------
(* The invariant: the types, the shape of the stack, and its counters. *)

Counted(s, c) ==
  /\ c.name = Cardinality(Called(s, "use"))
  /\ Cardinality(Called(s, "indirect")) <= c.indir

MatchInv ==
  /\ DbOK /\ FlagsOK /\ SharedOK /\ CountOK
  /\ StackOK(stack, Len(db.lists)) /\ Counted(stack, count)
  /\ rv \in {-1, 0, 1} /\ result \in Values

LEMMA InitInv == Init => MatchInv
  <1> SUFFICES ASSUME Init PROVE MatchInv
    OBVIOUS
  <1>1. PICK s \in Setups : db = s.db /\ flags = s.flags /\ buf = s.buf
    BY DEF Init
  <1>2. DbOK /\ FlagsOK
    BY <1>1, SetupsAssumption DEF DbOK, FlagsOK
  <1>3. SharedOK
    <2>1. li \in Tables
      <3>1. [off |-> <<0, 0>>, got_match |-> FALSE, last_match |-> FALSE] \in Rows
        BY DEF Rows
      <3> QED
        BY <3>1 DEF Init, Tables
    <2>2. print \in Prints
      BY DEF Init, Prints
    <2>3. err \in BOOLEAN
      BY DEF Init
    <2> QED
      BY <2>1, <2>2, <2>3 DEF SharedOK
  <1>4. CountOK /\ count.name = 0 /\ count.indir = 0
    BY ParamsAssumption DEF Init, CountOK
  <1>5. rv \in {-1, 0, 1} /\ result \in Values
    BY DEF Init, Values
  <1> DEFINE f == OuterFrame("top", db.lists[1], 1)
  <1>6. stack = <<f>>
    BY DEF Init, OuterFrame
  <1>7. Good(f) /\ f.via = "top" /\ f.list = 1
    <2>1. db.lists[1] \in Seq(Rule) /\ "top" \in {"top", "indirect"} /\ 1 \in Nat
      BY <1>2 DEF DbOK
    <2> QED
      BY <2>1, ListFrame
  <1> HIDE DEF f
  <1>8. StackOK(stack, Len(db.lists))
    <2>1. 1 <= Len(db.lists)
      BY <1>2 DEF DbOK
    <2>2. f \in Frames
      BY <1>7 DEF Good
    <2>3. stack \in Seq(Frames) /\ stack # << >> /\ Len(stack) = 1 /\ stack[1] = f
      BY <1>6, <2>2
    <2> QED
      BY <1>7, <2>1, <2>3 DEF StackOK
  <1>9. Called(stack, "use") = {} /\ Called(stack, "indirect") = {}
    BY <1>6, <1>7 DEF Called
  <1>10. Counted(stack, count)
    BY <1>4, <1>9, FS_EmptySet DEF Counted
  <1> QED
    BY <1>2, <1>3, <1>4, <1>5, <1>8, <1>10 DEF MatchInv

\* The activation at d goes on, those above it return.
LEMMA GoesOnStack ==
  ASSUME NEW n, StackOK(stack, n), NEW d \in 1..Depth, GoesOn(d, stack[d])
  PROVE  StackOK(stack', n) /\ \A via : Called(stack', via) = Called(stack, via) \cap (1..d)
  <1>1. PICK g : Keeps(stack[d], g) /\ stack' = Cut(stack, d, g)
    BY DEF GoesOn, Become, Cut
  <1>2. Good(g) /\ g.via = stack[d].via /\ g.list = stack[d].list /\ stack[d].list <= n
    BY <1>1 DEF Keeps, StackOK, Depth
  <1> QED
    BY <1>1, <1>2, BecomeStack DEF Depth

\* The last activation becomes g.
LEMMA TopInv ==
  ASSUME MatchInv, NEW g, Good(g), g.via = Top.via, g.list <= Len(db.lists),
         Become(Depth, g), SharedOK', UNCHANGED <<db, flags, count>>,
         rv' \in {-1, 0, 1}, result' \in Values
  PROVE  MatchInv'
  <1> DEFINE n == Len(db.lists)
  <1>1. Depth \in 1..Len(stack) /\ Depth = Len(stack) /\ Top = stack[Depth]
    BY StackTop DEF MatchInv, Depth, Top
  <1>2. StackOK(stack, n) /\ stack' = Cut(stack, Depth, g)
    BY DEF MatchInv, Become, Cut
  <1>3. StackOK(stack', n) /\ \A via : Called(stack', via) = Called(stack, via) \cap (1..Depth)
    <2>1. Good(g) /\ g.via = stack[Depth].via /\ g.list <= n
      BY <1>1
    <2> HIDE DEF n
    <2> QED
      BY <1>1, <1>2, <2>1, BecomeStack
  <1>4. \A via : Called(stack', via) = Called(stack, via)
    BY <1>1, <1>2, <1>3, CalledCount
  <1>5. Counted(stack', count')
    BY <1>4 DEF MatchInv, Counted
  <1> QED
    BY <1>3, <1>5 DEF MatchInv, DbOK, FlagsOK, CountOK

LEMMA StaysInv ==
  ASSUME MatchInv, Stays, Call
  PROVE  MatchInv'
  <1>1. PICK g : Keeps(Top, g) /\ Become(Depth, g)
    BY DEF Stays, GoesOn
  <1>2. Good(g) /\ g.via = Top.via /\ g.list <= Len(db.lists)
    BY <1>1, StackTop DEF Keeps, MatchInv
  <1>3. SharedOK' /\ UNCHANGED <<db, flags, count>>
    BY DEF Stays, GoesOn, SharedOK, Call
  <1>4. rv' \in {-1, 0, 1} /\ result' \in Values
    BY DEF MatchInv, Call
  <1> QED
    BY <1>1, <1>2, <1>3, <1>4, TopInv

\* The last activation returns to the one that called it, which goes on.
LEMMA PopInv ==
  ASSUME MatchInv, Depth > 1, GoesOn(Depth - 1, Caller), err' \in BOOLEAN, Call,
         count' = IF Top.via = "use" THEN [count EXCEPT !.name = @ - 1] ELSE count
  PROVE  MatchInv'
  <1> DEFINE n == Len(db.lists)
             U == Called(stack, "use")
             I == Called(stack, "indirect")
  <1>1. /\ StackOK(stack, n) /\ Depth \in Nat /\ Depth - 1 \in 1..Depth
        /\ Depth = Len(stack) /\ Caller = stack[Depth - 1]
    BY StackTop DEF MatchInv, Depth, Caller
  <1>2. /\ StackOK(stack', n)
        /\ \A via : Called(stack', via) = Called(stack, via) \cap (1..(Depth - 1))
    BY <1>1, GoesOnStack
  <1>3. /\ IsFiniteSet(U) /\ Cardinality(U) \in Nat
        /\ IsFiniteSet(I) /\ Cardinality(I) \in Nat
        /\ \A via : Called(stack, via) \subseteq 1..Depth
    BY <1>1, CalledCount
  <1>4. \A via : Called(stack', via) = Called(stack, via) \ {Depth}
    BY <1>1, <1>2, <1>3
  <1>5. \A via : Depth \in Called(stack, via) <=> Top.via = via
    <2>1. Depth \in DOMAIN stack
      BY <1>1 DEF StackOK
    <2> QED
      BY <2>1 DEF Called, Top
  <1>6. CountOK /\ Counted(stack, count)
    BY DEF MatchInv
  <1>7. Cardinality(Called(stack', "indirect")) <= Cardinality(I)
    <2>1. Called(stack', "indirect") \subseteq I
      BY <1>4
    <2> QED
      BY <1>3, <2>1, FS_Subset
  <1>8. CountOK' /\ Counted(stack', count')
    <2>1. CASE Top.via = "use"
      <3>1. Cardinality(Called(stack', "use")) = Cardinality(U) - 1 /\ Cardinality(U) # 0
        <4>1. Depth \in U /\ Called(stack', "use") = U \ {Depth}
          BY <1>4, <1>5, <2>1
        <4> HIDE DEF U
        <4> QED
          BY <1>3, <4>1, FS_RemoveElement, FS_EmptySet
      <3>2. count' = [count EXCEPT !.name = count.name - 1]
        BY <2>1
      <3>3. count.name \in 1..NameMax /\ count.indir \in 0..IndirMax
        BY <1>3, <1>6, <3>1, ParamsAssumption DEF CountOK, Counted
      <3>4. count'.name = count.name - 1 /\ count'.indir = count.indir
        BY <1>6, <3>2 DEF CountOK
      <3>5. CountOK'
        BY <1>6, <3>2, <3>3, ParamsAssumption DEF CountOK
      <3>6. Cardinality(Called(stack', "indirect")) \in Nat
        BY <1>2, CalledCount
      <3> QED
        BY <1>3, <1>6, <1>7, <3>1, <3>3, <3>4, <3>5, <3>6 DEF Counted
    <2>2. CASE Top.via # "use"
      <3>1. Called(stack', "use") = U /\ count' = count
        BY <1>4, <1>5, <2>2
      <3>2. Cardinality(Called(stack', "indirect")) \in Nat
        BY <1>2, CalledCount
      <3>3. count.indir \in Nat
        BY <1>6, ParamsAssumption DEF CountOK
      <3> QED
        BY <1>3, <1>6, <1>7, <3>1, <3>2, <3>3 DEF Counted, CountOK
    <2> QED
      BY <2>1, <2>2
  <1>9. SharedOK'
    BY DEF GoesOn, SharedOK
  <1> QED
    BY <1>2, <1>8, <1>9 DEF MatchInv, DbOK, FlagsOK, Call

LEMMA CallsStack ==
  ASSUME NEW n, StackOK(stack, n), n = Len(db.lists), NEW child, Calls(child),
         child.via \in {"use", "indirect"}
  PROVE  /\ StackOK(stack', n) /\ SharedOK'
         /\ \A via : Cardinality(Called(stack', via)) =
                       Cardinality(Called(stack, via)) + (IF via = child.via THEN 1 ELSE 0)
  <1> DEFINE d == Len(stack)
  <1>1. PICK g : OnRule(g) /\ Keeps(stack[d], g) /\ stack' = Pushed(stack, g, child)
    BY DEF Calls, Top, Below, Depth, Pushed
  <1>2. Good(child) /\ child.list <= n
    BY DEF Calls
  <1>3. /\ StackOK(stack', n)
        /\ \A via : Called(stack', via) = IF via = child.via THEN Called(stack, via) \cup {d + 1}
                                          ELSE Called(stack, via)
    BY <1>1, <1>2, PushStack
  <1>4. \A via : /\ IsFiniteSet(Called(stack, via)) /\ Cardinality(Called(stack, via)) \in Nat
                 /\ d + 1 \notin Called(stack, via)
    <2>1. d \in Nat /\ d + 1 \notin 1..d
      BY DEF StackOK
    <2> QED
      BY <2>1, CalledCount
  <1>5. ASSUME NEW via
        PROVE  Cardinality(Called(stack, via) \cup {d + 1}) = Cardinality(Called(stack, via)) + 1
    BY <1>4, FS_AddElement
  <1>6. SharedOK'
    BY DEF Calls, SharedOK
  <1> QED
    BY <1>3, <1>4, <1>5, <1>6

LEMMA CallsInv ==
  ASSUME MatchInv, CallsUse \/ CallsIndirect, Call
  PROVE  MatchInv'
  <1> DEFINE n == Len(db.lists)
  <1>1. StackOK(stack, n) /\ Counted(stack, count) /\ CountOK
    BY DEF MatchInv
  <1>2. count.name \in Nat /\ count.indir \in Nat
    BY <1>1, ParamsAssumption DEF CountOK
  <1>3. /\ Cardinality(Called(stack, "use")) \in Nat
        /\ Cardinality(Called(stack, "indirect")) \in Nat
    BY <1>1, CalledCount
  <1>4. ASSUME StackOK(stack', n), SharedOK', Counted(stack', count'), CountOK'
        PROVE  MatchInv'
    BY <1>4 DEF MatchInv, DbOK, FlagsOK, Call
  <1>5. CASE CallsUse
    <2>1. PICK child : Calls(child) /\ child.via = "use"
      BY <1>5 DEF CallsUse
    <2>2. count.name < NameMax /\ count' = [count EXCEPT !.name = count.name + 1]
      BY <1>5 DEF CallsUse
    <2>3. /\ StackOK(stack', n) /\ SharedOK'
          /\ \A via : Cardinality(Called(stack', via)) =
                        Cardinality(Called(stack, via)) + (IF via = child.via THEN 1 ELSE 0)
      BY <1>1, <2>1, CallsStack
    <2>4. /\ Cardinality(Called(stack', "use")) = Cardinality(Called(stack, "use")) + 1
          /\ Cardinality(Called(stack', "indirect")) = Cardinality(Called(stack, "indirect"))
      BY <1>3, <2>1, <2>3
    <2>5. CountOK' /\ count'.name = count.name + 1 /\ count'.indir = count.indir
      BY <1>1, <2>2, ParamsAssumption DEF CountOK
    <2>6. Counted(stack', count')
      BY <1>1, <2>4, <2>5 DEF Counted
    <2> QED
      BY <1>4, <2>3, <2>5, <2>6
  <1>6. CASE CallsIndirect
    <2>1. PICK child : Calls(child) /\ child.via = "indirect"
      BY <1>6 DEF CallsIndirect
    <2>2. count.indir < IndirMax /\ count' = [count EXCEPT !.indir = count.indir + 1]
      BY <1>6 DEF CallsIndirect
    <2>3. /\ StackOK(stack', n) /\ SharedOK'
          /\ \A via : Cardinality(Called(stack', via)) =
                        Cardinality(Called(stack, via)) + (IF via = child.via THEN 1 ELSE 0)
      BY <1>1, <2>1, CallsStack
    <2>4. /\ Cardinality(Called(stack', "use")) = Cardinality(Called(stack, "use"))
          /\ Cardinality(Called(stack', "indirect")) = Cardinality(Called(stack, "indirect")) + 1
      BY <1>3, <2>1, <2>3
    <2>5. CountOK' /\ count'.name = count.name /\ count'.indir = count.indir + 1
      BY <1>1, <2>2, ParamsAssumption DEF CountOK
    <2>6. Counted(stack', count')
      BY <1>1, <1>2, <1>3, <2>4, <2>5 DEF Counted
    <2> QED
      BY <1>4, <2>3, <2>5, <2>6
  <1> QED
    BY <1>5, <1>6

-----------------------------------------------------------------------------
(* The actions. *)

LEMMA EvaluateInv ==
  ASSUME MatchInv, NEW f, OnRule(f), Keeps(Top, f), NEW p \in Prints, Evaluate(f, p), Call
  PROVE  MatchInv'
  <1>1. DbOK /\ FlagsOK /\ SharedOK /\ CountOK /\ Depth \in Nat
    BY StackTop DEF MatchInv
  <1>2. Stays \/ CallsUse \/ CallsIndirect
    BY <1>1, EvaluateType
  <1> QED
    BY <1>2, StaysInv, CallsInv

\* The running activation and the one that it becomes when it looks at a rule.
LEMMA AdvanceGood ==
  ASSUME MatchInv, Top.magindex < Len(Top.rules)
  PROVE  /\ Good(Advance) /\ Keeps(Top, Advance)
         /\ Advance.magindex = Top.magindex + 1 /\ Advance.cont_level = Top.cont_level
         /\ Advance.rules = Top.rules /\ Advance.magindex \in 1..Len(Top.rules)
  <1> DEFINE n == Top.magindex + 1
  <1>1. Good(Top)
    BY StackTop DEF MatchInv
  <1>2. n \in Nat /\ n <= Len(Top.rules) /\ n \in 1..Len(Top.rules)
    BY <1>1 DEF Good, Frames
  <1>3. Advance = [Top EXCEPT !.magindex = n]
    BY DEF Advance
  <1> HIDE DEF n
  <1>4. /\ Good(Advance) /\ Advance.via = Top.via /\ Advance.list = Top.list
        /\ Advance.magindex = n /\ Advance.cont_level = Top.cont_level
        /\ Advance.rules = Top.rules
    BY <1>1, <1>2, <1>3 DEF Good, Frames
  <1> QED
    BY <1>2, <1>4 DEF Keeps, n

LEMMA BecomesInv ==
  ASSUME MatchInv, NEW g, Keeps(Top, g), Become(Depth, g), UNCHANGED <<li, print, count, err>>,
         Call
  PROVE  MatchInv'
  <1>1. Stays
    BY DEF Stays, GoesOn, MatchInv, SharedOK
  <1> QED
    BY <1>1, StaysInv

LEMMA NextGroupInv == MatchInv /\ NextGroup => MatchInv'
  <1> SUFFICES ASSUME MatchInv, NextGroup PROVE MatchInv'
    OBVIOUS
  <1> DEFINE f == Advance
             e == f.rules[f.magindex]
             p == IF Depth = 1 THEN [print EXCEPT !.group = @ + 1] ELSE print
  <1>1. Top.cont_level = 0 /\ Top.magindex < Len(Top.rules) /\ Call
    BY DEF NextGroup
  <1>2. /\ Good(f) /\ Keeps(Top, f) /\ f.magindex >= 1 /\ f.cont_level = 0
    BY <1>1, AdvanceGood
  <1>3. OnRule(f)
    BY <1>2, ParamsAssumption DEF OnRule
  <1>4. p \in Prints
    BY DEF MatchInv, SharedOK, Prints
  <1>5. CASE e.selected \/ e.type = "name"
    <2>1. Evaluate(f, p)
      BY <1>5 DEF NextGroup
    <2> HIDE DEF f, p
    <2> QED
      BY <1>1, <1>2, <1>3, <1>4, <2>1, EvaluateInv
  <1>6. CASE ~(e.selected \/ e.type = "name")
    <2>1. Become(Depth, Flush(f)) /\ UNCHANGED <<li, print, count, err>>
      BY <1>6 DEF NextGroup
    <2> HIDE DEF f
    <2>2. Keeps(Top, Flush(f))
      BY <1>2, FlushGood, KeepsTrans
    <2> QED
      BY <1>1, <2>1, <2>2, BecomesInv
  <1> QED
    BY <1>5, <1>6

LEMMA NextContinuationInv == MatchInv /\ NextContinuation => MatchInv'
  <1> SUFFICES ASSUME MatchInv, NextContinuation PROVE MatchInv'
    OBVIOUS
  <1> DEFINE f == Advance
             level == f.rules[f.magindex].level
             g == [f EXCEPT !.cont_level = level]
  <1>1. Top.magindex < Len(Top.rules) /\ Call
    BY DEF NextContinuation, HasContinuation
  <1>2. /\ Good(f) /\ Keeps(Top, f) /\ f.magindex >= 1 /\ f.rules = Top.rules
        /\ f.magindex \in 1..Len(Top.rules)
    BY <1>1, AdvanceGood
  <1>3. CASE Hidden(f, level)
    <2>1. Become(Depth, Mark(f, "skipped")) /\ UNCHANGED <<li, print, count, err>>
      BY <1>3 DEF NextContinuation
    <2> HIDE DEF f
    <2>2. Keeps(Top, Mark(f, "skipped"))
      BY <1>2, MarkGood, KeepsTrans DEF Statuses
    <2> QED
      BY <1>1, <2>1, <2>2, BecomesInv
  <1>4. CASE ~Hidden(f, level)
    <2>1. Evaluate(g, print)
      BY <1>4 DEF NextContinuation
    <2>2. print \in Prints
      BY DEF MatchInv, SharedOK
    <2> HIDE DEF f
    <2>3. level \in 0..MaxLevel /\ level \in Levels
      <3>1. f.rules \in Seq(Rule) /\ f.magindex \in 1..Len(f.rules)
        BY <1>2 DEF Good, Frames
      <3>2. f.rules[f.magindex] \in Rule
        BY <3>1
      <3>3. level \in 0..MaxLevel
        BY <3>2 DEF Rule
      <3> QED
        BY <3>3, LevelsFacts
    <2> HIDE DEF level
    <2>4. Good(g) /\ g.via = f.via /\ g.list = f.list /\ g.magindex = f.magindex
          /\ g.cont_level = level
      BY <1>2, <2>3 DEF Good, Frames
    <2> HIDE DEF g
    <2>5. OnRule(g) /\ Keeps(Top, g)
      BY <1>2, <2>3, <2>4, ParamsAssumption DEF OnRule, Keeps
    <2> QED
      BY <1>1, <2>1, <2>2, <2>5, EvaluateInv
  <1> QED
    BY <1>3, <1>4

LEMMA EndGroupInv == MatchInv /\ EndGroup => MatchInv'
  <1> SUFFICES ASSUME MatchInv, EndGroup PROVE MatchInv'
    OBVIOUS
  <1> DEFINE v == IF StopsHere(Top) THEN Top.returnval ELSE Running
             again == Top.found_match /\ flags.continue
             first == print.firstline /\ ~print.printed /\ ~again
             pr == print.printed /\ ~again
  <1>1. Good(Top)
    BY StackTop DEF MatchInv
  <1>2. Keeps(Top, CloseGroup(Top))
    <2>1. v \in Values /\ 0 \in Levels /\ 0 \in {0, 1} /\ TRUE \in BOOLEAN
      BY <1>1, LevelsFacts DEF Good, Frames, Values
    <2>2. CloseGroup(Top) = [Top EXCEPT !.cont_level = 0, !.return = v]
      BY DEF CloseGroup
    <2> HIDE DEF v, again, first, pr
    <2>3. Keeps(Top, [Top EXCEPT !.cont_level = 0, !.return = v])
      BY <1>1, <2>1, Updates, Zenon
    <2> QED
      BY <2>2, <2>3
  <1>3. print' \in Prints
    <2>1. print' = [print EXCEPT !.firstline = first, !.printed = pr]
      BY DEF EndGroup
    <2>2. first \in BOOLEAN /\ pr \in BOOLEAN /\ print \in Prints
      BY DEF MatchInv, SharedOK
    <2> HIDE DEF first, pr
    <2> QED
      BY <2>1, <2>2 DEF Prints
  <1>4. Stays
    BY <1>2, <1>3 DEF EndGroup, Stays, GoesOn, MatchInv, SharedOK
  <1> QED
    BY <1>4, StaysInv DEF EndGroup

LEMMA EndListInv == MatchInv /\ EndList => MatchInv'
  <1> SUFFICES ASSUME MatchInv, EndList PROVE MatchInv'
    OBVIOUS
  <1> DEFINE v == Top.returnval
  <1>1. Good(Top)
    BY StackTop DEF MatchInv
  <1>2. v \in Values /\ 0 \in Levels /\ 0 \in {0, 1} /\ TRUE \in BOOLEAN
    BY <1>1, LevelsFacts DEF Good, Frames, Values
  <1>3. Become(Depth, [Top EXCEPT !.return = v]) /\ UNCHANGED <<li, print, count, err>> /\ Call
    BY DEF EndList
  <1> HIDE DEF v
  <1>4. Keeps(Top, [Top EXCEPT !.return = v])
    BY <1>1, <1>2, Updates, Zenon
  <1> QED
    BY <1>3, <1>4, BecomesInv

\* The next list of the database.
LEMMA NextList ==
  ASSUME MatchInv, Top.list # Len(db.lists), NEW via \in {"top", "indirect"}
  PROVE  LET g == OuterFrame(via, db.lists[Top.list + 1], Top.list + 1)
         IN Good(g) /\ g.via = via /\ g.list <= Len(db.lists)
  <1> DEFINE k == Top.list + 1
             g == OuterFrame(via, db.lists[k], k)
  <1>1. Good(Top) /\ Top.list <= Len(db.lists) /\ DbOK
    BY StackTop DEF MatchInv
  <1>2. k \in 1..Len(db.lists) /\ k \in Nat
    BY <1>1 DEF Good, Frames, DbOK
  <1> HIDE DEF k
  <1>3. db.lists[k] \in Seq(Rule)
    BY <1>1, <1>2 DEF DbOK
  <1>4. Good(g) /\ g.via = via /\ g.list = k
    BY <1>2, <1>3, ListFrame
  <1> HIDE DEF g
  <1>5. Good(g) /\ g.via = via /\ g.list <= Len(db.lists)
    BY <1>2, <1>4
  <1> QED
    BY <1>5 DEF g, k

LEMMA ReturnToSoftmagicInv == MatchInv /\ ReturnToSoftmagic => MatchInv'
  <1> SUFFICES ASSUME MatchInv, ReturnToSoftmagic PROVE MatchInv'
    OBVIOUS
  <1>1. Good(Top) /\ Depth = 1
    BY StackTop DEF MatchInv, ReturnToSoftmagic
  <1>2. rv' \in {-1, 0, 1}
    <2>1. Top.return \in {-1, 0, 1}
      BY <1>1 DEF ReturnToSoftmagic, Returned, Good, Frames, Values
    <2> QED
      BY <2>1 DEF ReturnToSoftmagic, MatchInv
  <1>3. UNCHANGED <<db, flags, print, count, err>>
    BY DEF ReturnToSoftmagic
  <1>4. CASE result' = rv' /\ UNCHANGED <<stack, li>>
    <2>1. result' \in Values
      BY <1>2, <1>4 DEF Values
    <2> QED
      BY <1>2, <1>3, <1>4, <2>1 DEF MatchInv, DbOK, FlagsOK, SharedOK, CountOK
  <1>5. CASE /\ Top.list # Len(db.lists) /\ UNCHANGED result /\ li' = CheckMem(li, 0)
             /\ stack' = <<Frame("top", db.lists[Top.list + 1], Top.list + 1, FALSE)>>
    <2> DEFINE g == OuterFrame("top", db.lists[Top.list + 1], Top.list + 1)
    <2>1. Good(g) /\ g.via = "top" /\ g.list <= Len(db.lists)
      BY <1>5, NextList
    <2>2. stack' = <<g>>
      BY <1>5 DEF OuterFrame
    <2> HIDE DEF g
    <2>3. Become(Depth, g)
      <3>1. SubSeq(stack, 1, 0) = << >>
        BY SubSeqEmpty
      <3>2. Append(<< >>, g) = <<g>>
        OBVIOUS
      <3>3. Depth - 1 = 0
        BY <1>1
      <3> QED
        BY <2>2, <3>1, <3>2, <3>3 DEF Become
    <2>4. SharedOK' /\ result' \in Values
      BY <1>3, <1>5, CheckMemType, LevelsFacts DEF MatchInv, SharedOK
    <2>5. g.via = Top.via
      BY <2>1 DEF ReturnToSoftmagic
    <2> QED
      BY <1>2, <1>3, <2>1, <2>3, <2>4, <2>5, TopInv
  <1> QED
    BY <1>4, <1>5 DEF ReturnToSoftmagic

\* The calling activation with the values that the called one leaves it.
LEMMA CallerGood ==
  ASSUME MatchInv, Depth > 1, NEW b \in BOOLEAN, NEW r \in {0, 1}, NEW v \in Values
  PROVE  LET f == [Caller EXCEPT !.found_match = b, !.returnval = r]
         IN OnRule(f) /\ Keeps(Caller, f) /\ Keeps(Caller, [f EXCEPT !.return = v])
  <1> DEFINE f == [Caller EXCEPT !.found_match = b, !.returnval = r]
  <1>1. OnRule(Caller) /\ Good(Caller) /\ 0 \in Levels
    BY StackTop, LevelsFacts DEF MatchInv, OnRule
  <1>2. OnRule(f) /\ Keeps(Caller, f)
    BY <1>1, Updates, Zenon
  <1> HIDE DEF f
  <1>3. Good(f)
    BY <1>2 DEF OnRule
  <1>4. Keeps(f, [f EXCEPT !.return = v])
    BY <1>1, <1>3, Updates, Zenon
  <1>5. Keeps(Caller, [f EXCEPT !.return = v])
    BY <1>2, <1>4, KeepsTrans
  <1> QED
    BY <1>2, <1>5 DEF f

LEMMA SettleCaller ==
  ASSUME MatchInv, Depth > 1, NEW f, OnRule(f), Keeps(Caller, f), NEW p \in Prints,
         NEW table \in Tables, NEW verdict \in Statuses \cup {"hit"},
         Settle(Depth - 1, f, p, table, verdict)
  PROVE  GoesOn(Depth - 1, Caller)
  <1>1. FlagsOK /\ Depth - 1 \in Nat
    BY StackTop DEF MatchInv
  <1>2. GoesOn(Depth - 1, f)
    BY <1>1, SettleType
  <1> QED
    BY <1>2, KeepsTrans DEF GoesOn

LEMMA ReturnFromUseInv == MatchInv /\ ReturnFromUse => MatchInv'
  <1> SUFFICES ASSUME MatchInv, ReturnFromUse PROVE MatchInv'
    OBVIOUS
  <1> DEFINE b == Caller.found_match \/ Top.found_match
             r == Top.returnval
             f == [Caller EXCEPT !.found_match = b, !.returnval = r]
             verdict == IF Top.return = 0 /\ ~f.found_match THEN "oob"
                        ELSE IF Top.found_match THEN "hit" ELSE "miss"
  <1>1. Good(Top) /\ Depth > 1 /\ Top.via = "use" /\ Call
    BY StackTop DEF MatchInv, ReturnFromUse
  <1>2. SharedOK /\ err' \in BOOLEAN
    BY DEF MatchInv, SharedOK, ReturnFromUse
  <1>3. RestoreCont(Top) \in Tables
    BY <1>1 DEF RestoreCont, Good
  <1>4. OnRule(f) /\ Keeps(Caller, f) /\ Keeps(Caller, [f EXCEPT !.return = -1])
    <2>1. OnRule(Caller)
      BY <1>1, StackTop DEF MatchInv
    <2>2. b \in BOOLEAN /\ r \in {0, 1} /\ -1 \in Values
      BY <1>1, <2>1 DEF OnRule, Good, Frames, Values
    <2> HIDE DEF b, r
    <2> QED
      BY <1>1, <2>2, CallerGood, Zenon
  <1>5. verdict \in Statuses \cup {"hit"}
    BY DEF Statuses
  <1>6. \/ /\ Become(Depth - 1, [f EXCEPT !.return = -1])
           /\ li' = RestoreCont(Top) /\ UNCHANGED print
        \/ Settle(Depth - 1, f, print, RestoreCont(Top), verdict)
    BY DEF ReturnFromUse
  <1> HIDE DEF f, verdict
  <1>7. GoesOn(Depth - 1, Caller)
    <2>1. CASE /\ Become(Depth - 1, [f EXCEPT !.return = -1])
               /\ li' = RestoreCont(Top) /\ UNCHANGED print
      BY <1>2, <1>3, <1>4, <2>1 DEF GoesOn, SharedOK
    <2>2. CASE Settle(Depth - 1, f, print, RestoreCont(Top), verdict)
      BY <1>1, <1>2, <1>3, <1>4, <1>5, <2>2, SettleCaller DEF SharedOK
    <2> QED
      BY <1>6, <2>1, <2>2
  <1>8. count' = IF Top.via = "use" THEN [count EXCEPT !.name = @ - 1] ELSE count
    BY <1>1 DEF ReturnFromUse
  <1> QED
    BY <1>1, <1>2, <1>7, <1>8, PopInv

LEMMA ReturnFromIndirectInv == MatchInv /\ ReturnFromIndirect => MatchInv'
  <1> SUFFICES ASSUME MatchInv, ReturnFromIndirect PROVE MatchInv'
    OBVIOUS
  <1> DEFINE n == Len(db.lists)
             caller == [Caller EXCEPT !.found_match = TRUE, !.returnval = 1]
             restored == [print EXCEPT !.out = Top.saved_out]
             inner == IF print.out = << >> THEN <<Null>> ELSE print.out
             described == IF Describes(caller.rules[caller.magindex]) THEN Text(restored)
                          ELSE restored
             appended == [described EXCEPT !.out = @ \o inner]
  <1>1. Good(Top) /\ Depth > 1 /\ Top.via = "indirect" /\ Call /\ UNCHANGED count
    BY StackTop DEF MatchInv, ReturnFromIndirect
  <1>2. SharedOK /\ Top.list \in Nat /\ n \in Nat
    BY <1>1 DEF MatchInv, Good, Frames, DbOK
  <1>3. restored \in Prints
    BY <1>1, <1>2, PrintTypes DEF SharedOK, Good, Frames
  <1>4. ASSUME GoesOn(Depth - 1, Caller), err' \in BOOLEAN PROVE MatchInv'
    <2>1. count' = IF Top.via = "use" THEN [count EXCEPT !.name = @ - 1] ELSE count
      BY <1>1
    <2> QED
      BY <1>1, <1>4, <2>1, PopInv
  <1>5. OnRule(Caller) /\ Keeps(Caller, Caller)
    <2>1. OnRule(Caller)
      BY <1>1, StackTop DEF MatchInv
    <2> QED
      BY <2>1, GoodKeeps DEF OnRule
  <1>6. CASE /\ Top.list < n /\ li' = CheckMem(li, 0) /\ UNCHANGED <<print, err>>
             /\ Become(Depth, [Frame("indirect", db.lists[Top.list + 1], Top.list + 1, FALSE)
                                 EXCEPT !.saved_out = Top.saved_out])
    <2> DEFINE new == OuterFrame("indirect", db.lists[Top.list + 1], Top.list + 1)
               g == [new EXCEPT !.saved_out = Top.saved_out]
    <2>1. Become(Depth, g)
      BY <1>6 DEF OuterFrame
    <2>2. Good(new) /\ new.via = "indirect" /\ new.list <= n
      BY <1>2, <1>6, NextList
    <2> HIDE DEF new
    <2>3. Good(g) /\ g.via = "indirect" /\ g.list <= n
      BY <1>1, <2>2 DEF Good, Frames
    <2> HIDE DEF g
    <2>4. SharedOK'
      BY <1>2, <1>6, CheckMemType, LevelsFacts DEF SharedOK
    <2>5. rv' \in {-1, 0, 1} /\ result' \in Values
      BY <1>1 DEF MatchInv, Call
    <2>6. g.via = Top.via /\ UNCHANGED <<db, flags, count>>
      BY <1>1, <2>3 DEF Call
    <2> QED
      BY <2>1, <2>3, <2>4, <2>5, <2>6, TopInv
  <1>7. CASE Settle(Depth - 1, Caller, restored, li, "oob") /\ UNCHANGED err
    <2>1. "oob" \in Statuses \cup {"hit"}
      BY DEF Statuses
    <2> HIDE DEF restored
    <2>2. GoesOn(Depth - 1, Caller)
      BY <1>1, <1>2, <1>3, <1>5, <1>7, <2>1, SettleCaller DEF SharedOK
    <2> QED
      BY <1>2, <1>4, <1>7, <2>2 DEF SharedOK
  <1>8. CASE Settle(Depth - 1, caller, appended, li, "hit") /\ UNCHANGED err
    <2>1. OnRule(caller) /\ Keeps(Caller, caller)
      <3>1. TRUE \in BOOLEAN /\ 1 \in {0, 1} /\ 0 \in Values
        BY DEF Values
      <3> QED
        BY <1>1, <3>1, CallerGood, Zenon
    <2>2. appended \in Prints
      <3>1. described \in Prints
        BY <1>3, PrintTypes
      <3>2. inner \in Seq(Int)
        <4>1. print.out \in Seq(Int) /\ Null \in Int
          BY <1>2 DEF SharedOK, Prints, Null
        <4> QED
          BY <4>1
      <3> HIDE DEF described, inner
      <3>3. described.out \o inner \in Seq(Int)
        BY <3>1, <3>2 DEF Prints
      <3> QED
        BY <3>1, <3>3, PrintTypes
    <2> HIDE DEF caller, appended
    <2>3. GoesOn(Depth - 1, Caller)
      BY <1>1, <1>2, <1>8, <2>1, <2>2, SettleCaller DEF SharedOK
    <2> QED
      BY <1>2, <1>4, <1>8, <2>3 DEF SharedOK
  <1>9. CASE /\ Become(Depth - 1, [Caller EXCEPT !.return = -1]) /\ UNCHANGED <<li, err>>
             /\ print' = IF err THEN print ELSE restored
    <2>1. Keeps(Caller, [Caller EXCEPT !.return = -1])
      <3>1. TRUE \in BOOLEAN /\ 0 \in {0, 1} /\ -1 \in Values /\ 0 \in Levels
        BY LevelsFacts DEF Values
      <3> QED
        BY <1>5, <3>1, Updates, Zenon DEF OnRule
    <2>2. li' \in Tables /\ print' \in Prints /\ err' \in BOOLEAN
      BY <1>2, <1>3, <1>9 DEF SharedOK
    <2>3. GoesOn(Depth - 1, Caller)
      BY <1>9, <2>1, <2>2 DEF GoesOn
    <2> QED
      BY <1>4, <2>2, <2>3
  <1> QED
    BY <1>6, <1>7, <1>8, <1>9 DEF ReturnFromIndirect

LEMMA StepInv == MatchInv /\ [Next]_vars => MatchInv'
  <1>1. MatchInv /\ UNCHANGED vars => MatchInv'
    BY DEF MatchInv, DbOK, FlagsOK, SharedOK, CountOK, vars
  <1> QED
    BY <1>1, NextGroupInv, NextContinuationInv, EndGroupInv, EndListInv, ReturnToSoftmagicInv,
       ReturnFromUseInv, ReturnFromIndirectInv DEF Next, Done

LEMMA AlwaysInv == Spec => []MatchInv
  BY InitInv, StepInv, PTL DEF Spec

-----------------------------------------------------------------------------
LEMMA MatchInvTypes == MatchInv => TypeOK
  <1> SUFFICES ASSUME MatchInv PROVE TypeOK
    OBVIOUS
  <1>1. stack # << >> /\ DOMAIN stack = 1..Len(stack)
    BY DEF MatchInv, StackOK
  <1>2. ASSUME NEW d \in DOMAIN stack PROVE FrameOK(stack[d])
    <2> DEFINE f == stack[d]
    <2>1. Good(f)
      BY <1>1 DEF MatchInv, StackOK
    <2> HIDE DEF f
    <2>2. /\ f.via \in {"top", "use", "indirect"} /\ f.rules \in Seq(Rule)
          /\ f.cont_level \in Levels /\ f.return \in {-1, 0, 1, Running}
          /\ f.returnval \in {0, 1} /\ f.found_match \in BOOLEAN /\ f.clobbered \in BOOLEAN
          /\ f.magindex \in Nat /\ f.magindex <= Len(f.rules)
          /\ f.status \in Seq(Statuses) /\ DOMAIN f.status = DOMAIN f.rules
      BY <2>1 DEF Good, Frames, Vias, Values
    <2>3. f.magindex \in 0..Len(f.rules)
      BY <2>2
    <2>4. f.status \in [DOMAIN f.rules -> Statuses]
      BY <2>2
    <2>5. FrameOK(f)
      BY <2>2, <2>3, <2>4 DEF FrameOK
    <2> QED
      BY <2>5 DEF f
  <1>3. /\ DOMAIN li = Levels
        /\ \A l \in Levels : li[l].got_match \in BOOLEAN /\ li[l].last_match \in BOOLEAN
        /\ err \in BOOLEAN
    BY DEF MatchInv, SharedOK, Tables, Rows
  <1> QED
    BY <1>1, <1>2, <1>3 DEF TypeOK, MatchInv, CountOK, Values

\* Whatever the database says and whatever is read of the input, the state has its
\* types, and every activation stands inside of the list that it walks.
THEOREM TypeCorrect == Spec => []TypeOK
  BY AlwaysInv, MatchInvTypes, PTL

\* A database whose named lists and indirect rules form cycles cannot make match()
\* nest deeper than the two limits allow: the counter of use rules is that of the
\* activations they made, on every way out of them, and that of indirect rules is
\* never lower.
THEOREM RecursionStays == Spec => []RecursionBounded
  <1>1. MatchInv => RecursionBounded
    <2> SUFFICES ASSUME MatchInv PROVE RecursionBounded
      OBVIOUS
    <2>1. UseFrames = Called(stack, "use") /\ IndirectFrames = Called(stack, "indirect")
      BY DEF UseFrames, IndirectFrames, Called
    <2>2. Depth = 1 + Cardinality(UseFrames) + Cardinality(IndirectFrames)
      BY <2>1, CalledCount DEF MatchInv, Depth
    <2>3. Cardinality(UseFrames) \in Nat /\ Cardinality(IndirectFrames) \in Nat
      BY <2>1, CalledCount DEF MatchInv
    <2>4. count.name = Cardinality(UseFrames) /\ Cardinality(IndirectFrames) <= count.indir
      BY <2>1 DEF MatchInv, Counted
    <2>5. count.name \in 0..NameMax /\ count.indir \in 0..IndirMax
      BY DEF MatchInv, CountOK
    <2>6. Depth <= 1 + NameMax + IndirMax
      BY <2>2, <2>3, <2>4, <2>5, ParamsAssumption
    <2> QED
      BY <2>4, <2>6 DEF RecursionBounded
  <1> QED
    BY <1>1, AlwaysInv, PTL

-----------------------------------------------------------------------------
(* The tree of a list, as far as its n-th rule. *)

\* The rule j is the parent of a rule of level l that comes next.
Nearest(rules, n, l, j) ==
  /\ j \in 1..n /\ rules[j].level < l
  /\ \A m \in (j + 1)..n : rules[m].level >= l

\* The siblings of a rule of level l that comes next.
Row(rules, n, l) ==
  {j \in 1..n : rules[j].level = l /\ \A m \in j..n : rules[m].level >= l}

\* The level c admits the rules whose parent matched, and keeps out the others.
PathOK(rules, n, status, c) ==
  \A l \in 1..MaxLevel, j \in 1..n :
    Nearest(rules, n, l, j) =>
      IF l <= c THEN status[j] = "open"
      ELSE status[j] # "open" \/ l > rules[j].level + 1

\* What an entry of the level table knows of the siblings.
RowOK(rules, n, status, l, entry) ==
  /\ ~entry.got_match =>
       \A j \in Row(rules, n, l) :
         status[j] = "open" /\ rules[j].type # "clear" =>
           \E m \in Row(rules, n, l) :
             m > j /\ \/ status[m] = "bad"
                      \/ rules[m].type = "clear" /\ status[m] = "open"
  /\ \A j \in Row(rules, n, l) :
       status[j] \in {"open", "mute"}
         /\ (\A m \in Row(rules, n, l) : m > j => rules[m].cond \in {"elif", "else"}) =>
       entry.last_match
  /\ \A j \in Row(rules, n, l) :
       status[j] = "miss" /\ (\A m \in Row(rules, n, l) : m <= j) => ~entry.last_match

TableOK(d, rules, n, status, c, table) ==
  \A l \in 1..MaxLevel :
    l <= c => /\ \A j \in 1..n : Nearest(rules, n, l, j) => table[l - 1].off = <<d, j>>
              /\ RowOK(rules, n, status, l, table[l])

\* What became of the rule k is right, by its parent and its siblings.
FollowsParent(rules, status, k) ==
  \A j \in 1..(k - 1) :
    Nearest(rules, k - 1, rules[k].level, j) =>
      /\ status[k] \notin {"unseen", "skipped"} => status[j] = "open"
      /\ status[k] = "skipped" => status[j] # "open" \/ rules[k].level > rules[j].level + 1
LastResort(rules, status, k) ==
  rules[k].type = "default" /\ status[k] = "open" =>
    \A j \in Siblings(rules, k) :
      status[j] = "open" /\ rules[j].type # "clear" =>
        \E m \in Siblings(rules, k) :
          m > j /\ \/ status[m] = "bad"
                   \/ rules[m].type = "clear" /\ status[m] = "open"
OneBranch(rules, status, k) ==
  \A j \in Siblings(rules, k) :
    Chained(rules, j, k) =>
      /\ ~ /\ status[j] \in {"open", "mute"}
           /\ status[k] \in {"open", "mute", "bad"}
      /\ ~ /\ status[j] = "miss"
           /\ status[k] = "barred"
           /\ \A m \in Siblings(rules, k) : m <= j
RuleOK(rules, status, k, clobbered) ==
  rules[k].level > 0 =>
    /\ FollowsParent(rules, status, k)
    /\ ~clobbered => LastResort(rules, status, k) /\ OneBranch(rules, status, k)

\* An activation: its past, and that it may go on.
Walk(f) ==
  /\ Grouped(f.rules)
  /\ \A k \in 1..f.magindex : RuleOK(f.rules, f.status, k, f.clobbered)
  /\ \A k \in DOMAIN f.rules : k > f.magindex => f.status[k] = "unseen"
  /\ f.return = Running /\ f.cont_level > 0 =>
       PathOK(f.rules, f.magindex, f.status, f.cont_level)

\* The level table of the activation f at depth d.
Held(d, f, table) ==
  f.return = Running /\ f.cont_level > 0 /\ ~f.clobbered =>
    TableOK(d, f.rules, f.magindex, f.status, f.cont_level, table)

\* It examines the rule it stands on, whose condition let it through.
Unbarred(f, table) ==
  ~f.clobbered /\ f.cont_level > 0 /\ f.rules[f.magindex].cond \in {"elif", "else"} =>
    ~table[f.cont_level].last_match
Examines(f) ==
  /\ f.return = Running /\ f.magindex >= 1
  /\ f.rules[f.magindex].level = f.cont_level
  /\ f.status[f.magindex] = "unseen"

TableOf(s, d, table) == IF d = Len(s) THEN table ELSE s[d + 1].saved_li

TreeOK(s, table) ==
  /\ \A d \in 1..Len(s) : Walk(s[d]) /\ Held(d, s[d], TableOf(s, d, table))
  /\ \A d \in 1..(Len(s) - 1) :
       /\ Examines(s[d]) /\ Unbarred(s[d], TableOf(s, d, table))
       /\ s[d + 1].via = "indirect" => s[d].clobbered

TreeInv ==
  /\ \A n \in DOMAIN db.lists : Grouped(db.lists[n])
  /\ \A n \in DOMAIN db.names : Grouped(db.names[n])
  /\ TreeOK(stack, li)

\* Going one rule further: the rule k, of level at least l, changes nothing for the
\* rules of level l to come; it is the parent of the deeper ones.
Levelled(rules, k) == \A j \in 1..k : rules[j].level \in Nat

LEMMA NearestSame ==
  ASSUME NEW rules, NEW n \in Nat, Levelled(rules, n + 1), NEW l \in Nat,
         l <= rules[n + 1].level, NEW j \in 1..(n + 1)
  PROVE  Nearest(rules, n + 1, l, j) <=> j \in 1..n /\ Nearest(rules, n, l, j)
  <1>1. n + 1 \in 1..(n + 1) /\ rules[n + 1].level \in Nat
    BY DEF Levelled
  <1>2. ASSUME Nearest(rules, n + 1, l, j) PROVE j \in 1..n /\ Nearest(rules, n, l, j)
    <2>1. j # n + 1
      BY <1>1, <1>2 DEF Nearest
    <2>2. j \in 1..n /\ \A m \in (j + 1)..n : m \in (j + 1)..(n + 1)
      BY <2>1
    <2> QED
      BY <1>2, <2>2 DEF Nearest
  <1>3. ASSUME j \in 1..n, Nearest(rules, n, l, j) PROVE Nearest(rules, n + 1, l, j)
    <2>1. \A m \in (j + 1)..(n + 1) : m \in (j + 1)..n \/ m = n + 1
      OBVIOUS
    <2> QED
      BY <1>1, <1>3, <2>1 DEF Nearest
  <1> QED
    BY <1>2, <1>3

LEMMA NearestNew ==
  ASSUME NEW rules, NEW n \in Nat, Levelled(rules, n + 1), NEW l \in Nat,
         rules[n + 1].level < l, NEW j \in 1..(n + 1)
  PROVE  Nearest(rules, n + 1, l, j) <=> j = n + 1
  <1>1. n + 1 \in 1..(n + 1) /\ rules[n + 1].level \in Nat
    BY DEF Levelled
  <1>2. ASSUME Nearest(rules, n + 1, l, j), j # n + 1 PROVE FALSE
    <2>1. n + 1 \in (j + 1)..(n + 1)
      BY <1>2
    <2>2. rules[n + 1].level >= l
      BY <1>2, <2>1 DEF Nearest
    <2> QED
      BY <1>1, <2>2
  <1>3. ASSUME j = n + 1 PROVE Nearest(rules, n + 1, l, j)
    BY <1>1, <1>3 DEF Nearest
  <1> QED
    BY <1>2, <1>3

LEMMA RowSame ==
  ASSUME NEW rules, NEW n \in Nat, Levelled(rules, n + 1), NEW l \in Nat,
         l < rules[n + 1].level
  PROVE  Row(rules, n + 1, l) = Row(rules, n, l)
  <1>1. n + 1 \in 1..(n + 1) /\ rules[n + 1].level \in Nat
    BY DEF Levelled
  <1>2. ASSUME NEW j \in Row(rules, n + 1, l) PROVE j \in Row(rules, n, l)
    <2>1. j \in 1..(n + 1) /\ rules[j].level = l /\ \A m \in j..(n + 1) : rules[m].level >= l
      BY DEF Row
    <2>2. j # n + 1
      BY <1>1, <2>1
    <2>3. j \in 1..n /\ \A m \in j..n : m \in j..(n + 1)
      BY <2>1, <2>2
    <2> QED
      BY <2>1, <2>3 DEF Row
  <1>3. ASSUME NEW j \in Row(rules, n, l) PROVE j \in Row(rules, n + 1, l)
    <2>1. j \in 1..n /\ rules[j].level = l /\ \A m \in j..n : rules[m].level >= l
      BY DEF Row
    <2>2. j \in 1..(n + 1) /\ \A m \in j..(n + 1) : m \in j..n \/ m = n + 1
      BY <2>1
    <2> QED
      BY <1>1, <2>1, <2>2 DEF Row
  <1> QED
    BY <1>2, <1>3

LEMMA RowMore ==
  ASSUME NEW rules, NEW n \in Nat, Levelled(rules, n + 1)
  PROVE  LET l == rules[n + 1].level
         IN Row(rules, n + 1, l) = Row(rules, n, l) \cup {n + 1}
  <1> DEFINE l == rules[n + 1].level
  <1>1. n + 1 \in 1..(n + 1) /\ l \in Nat
    BY DEF Levelled
  <1> HIDE DEF l
  <1>2. ASSUME NEW j \in Row(rules, n + 1, l) PROVE j \in Row(rules, n, l) \cup {n + 1}
    <2>1. j \in 1..(n + 1) /\ rules[j].level = l /\ \A m \in j..(n + 1) : rules[m].level >= l
      BY DEF Row
    <2>2. CASE j # n + 1
      <3>1. j \in 1..n /\ \A m \in j..n : m \in j..(n + 1)
        BY <2>1, <2>2
      <3> QED
        BY <2>1, <3>1 DEF Row
    <2> QED
      BY <2>2
  <1>3. ASSUME NEW j \in Row(rules, n, l) PROVE j \in Row(rules, n + 1, l)
    <2>1. j \in 1..n /\ rules[j].level = l /\ \A m \in j..n : rules[m].level >= l
      BY DEF Row
    <2>2. j \in 1..(n + 1) /\ \A m \in j..(n + 1) : m \in j..n \/ m = n + 1
      BY <2>1
    <2> QED
      BY <1>1, <2>1, <2>2 DEF Row, l
  <1>4. n + 1 \in Row(rules, n + 1, l)
    <2>1. \A m \in (n + 1)..(n + 1) : m = n + 1
      OBVIOUS
    <2> QED
      BY <1>1, <2>1 DEF Row, l
  <1>5. Row(rules, n + 1, l) = Row(rules, n, l) \cup {n + 1}
    BY <1>2, <1>3, <1>4
  <1> QED
    BY <1>5 DEF l

LEMMA RowEmpty ==
  ASSUME NEW rules, NEW n \in Nat, Levelled(rules, n), n >= 1, NEW l \in Nat,
         rules[n].level < l
  PROVE  Row(rules, n, l) = {}
  <1>1. ASSUME NEW j \in Row(rules, n, l) PROVE FALSE
    <2>1. j \in 1..n /\ \A m \in j..n : rules[m].level >= l
      BY DEF Row
    <2>2. n \in j..n /\ n \in 1..n
      BY <2>1
    <2>3. rules[n].level >= l /\ rules[n].level \in Nat
      BY <2>1, <2>2 DEF Levelled
    <2> QED
      BY <2>3
  <1> QED
    BY <1>1

LEMMA RowRange ==
  ASSUME NEW rules, NEW n \in Nat, NEW l
  PROVE  \A j \in Row(rules, n, l) : j \in 1..n /\ j # n + 1
  <1>1. n + 1 \notin 1..n
    OBVIOUS
  <1> QED
    BY <1>1 DEF Row
-----------------------------------------------------------------------------
(* The path of open rules that the current level stands for. *)

\* The statuses t are those of status, except at k.
Changes(status, t, k, s) ==
  t[k] = s /\ \A j \in 1..(k - 1) : t[j] = status[j]

LEMMA AdvancePath ==
  ASSUME NEW rules, NEW n \in Nat, Levelled(rules, n + 1), NEW status, NEW c \in Nat,
         PathOK(rules, n, status, c), rules[n + 1].level <= c, status[n + 1] = "unseen"
  PROVE  PathOK(rules, n + 1, status, rules[n + 1].level)
  <1> DEFINE L == rules[n + 1].level
  <1>1. L \in Nat
    BY DEF Levelled
  <1> SUFFICES ASSUME NEW l \in 1..MaxLevel, NEW j \in 1..(n + 1), Nearest(rules, n + 1, l, j)
               PROVE  IF l <= L THEN status[j] = "open"
                      ELSE status[j] # "open" \/ l > rules[j].level + 1
    BY DEF PathOK
  <1>2. CASE l <= L
    <2>1. j \in 1..n /\ Nearest(rules, n, l, j) /\ l <= c
      BY <1>1, <1>2, NearestSame
    <2> QED
      BY <1>2, <2>1 DEF PathOK
  <1>3. CASE ~(l <= L)
    <2>1. l \in Nat /\ rules[n + 1].level < l
      BY <1>1, <1>3
    <2>2. j = n + 1
      BY <2>1, NearestNew
    <2> QED
      BY <1>3, <2>2
  <1> QED
    BY <1>2, <1>3

LEMMA SkipPath ==
  ASSUME NEW rules, NEW n \in Nat, Levelled(rules, n + 1), NEW status, NEW t, NEW c \in Nat,
         PathOK(rules, n, status, c), rules[n + 1].level > c,
         Changes(status, t, n + 1, "skipped")
  PROVE  PathOK(rules, n + 1, t, c)
  <1> DEFINE L == rules[n + 1].level
  <1>1. L \in Nat /\ t[n + 1] = "skipped" /\ \A j \in 1..n : t[j] = status[j]
    BY DEF Levelled, Changes
  <1> SUFFICES ASSUME NEW l \in 1..MaxLevel, NEW j \in 1..(n + 1), Nearest(rules, n + 1, l, j)
               PROVE  IF l <= c THEN t[j] = "open"
                      ELSE t[j] # "open" \/ l > rules[j].level + 1
    BY DEF PathOK
  <1>2. CASE l <= L
    <2>1. j \in 1..n /\ Nearest(rules, n, l, j)
      BY <1>1, <1>2, NearestSame
    <2>2. IF l <= c THEN status[j] = "open"
          ELSE status[j] # "open" \/ l > rules[j].level + 1
      BY <2>1 DEF PathOK
    <2> QED
      BY <1>1, <2>1, <2>2
  <1>3. CASE ~(l <= L)
    <2>1. j = n + 1 /\ ~(l <= c)
      BY <1>1, <1>3, NearestNew
    <2> QED
      BY <1>1, <2>1
  <1> QED
    BY <1>2, <1>3

\* The rule k was examined and did not let its continuations in.
LEMMA ShutPath ==
  ASSUME NEW rules, NEW k \in Nat \ {0}, Levelled(rules, k), NEW status, NEW t,
         PathOK(rules, k, status, rules[k].level), NEW s, s # "open", Changes(status, t, k, s)
  PROVE  PathOK(rules, k, t, rules[k].level)
  <1> DEFINE L == rules[k].level
  <1>1. L \in Nat /\ t[k] # "open" /\ \A j \in 1..(k - 1) : t[j] = status[j]
    BY DEF Levelled, Changes
  <1> SUFFICES ASSUME NEW l \in 1..MaxLevel, NEW j \in 1..k, Nearest(rules, k, l, j)
               PROVE  IF l <= L THEN t[j] = "open"
                      ELSE t[j] # "open" \/ l > rules[j].level + 1
    BY DEF PathOK
  <1>2. CASE j = k
    <2>1. L < l
      BY <1>2 DEF Nearest
    <2> QED
      BY <1>1, <1>2, <2>1
  <1>3. CASE j # k
    <2>1. j \in 1..(k - 1)
      BY <1>3
    <2>2. IF l <= L THEN status[j] = "open"
          ELSE status[j] # "open" \/ l > rules[j].level + 1
      BY DEF PathOK
    <2> QED
      BY <1>1, <2>1, <2>2
  <1> QED
    BY <1>2, <1>3

\* The rule k matched: the level after its own is that of its continuations.
LEMMA OpenPath ==
  ASSUME NEW rules, NEW k \in Nat \ {0}, Levelled(rules, k), NEW status, NEW t,
         rules[k].level > 0 => PathOK(rules, k, status, rules[k].level),
         Changes(status, t, k, "open")
  PROVE  PathOK(rules, k, t, rules[k].level + 1)
  <1> DEFINE L == rules[k].level
             n == k - 1
  <1>1. L \in Nat /\ t[k] = "open" /\ \A j \in 1..(k - 1) : t[j] = status[j]
    BY DEF Levelled, Changes
  <1>2. n \in Nat /\ n + 1 = k
    OBVIOUS
  <1> SUFFICES ASSUME NEW l \in 1..MaxLevel, NEW j \in 1..k, Nearest(rules, k, l, j)
               PROVE  IF l <= L + 1 THEN t[j] = "open"
                      ELSE t[j] # "open" \/ l > rules[j].level + 1
    BY DEF PathOK
  <1>3. CASE l <= L
    <2>1. j \in 1..n
      <3> HIDE DEF n
      <3>1. Levelled(rules, n + 1) /\ l <= rules[n + 1].level /\ j \in 1..(n + 1)
            /\ Nearest(rules, n + 1, l, j) /\ l \in Nat
        BY <1>2, <1>3
      <3> QED
        BY <1>2, <3>1, NearestSame
    <2>2. status[j] = "open"
      BY <1>1, <1>3 DEF PathOK
    <2> QED
      BY <1>1, <1>3, <2>1, <2>2
  <1>4. CASE ~(l <= L)
    <2>1. j = k
      <3> HIDE DEF n
      <3>1. Levelled(rules, n + 1) /\ rules[n + 1].level < l /\ j \in 1..(n + 1)
            /\ Nearest(rules, n + 1, l, j) /\ l \in Nat
        BY <1>1, <1>2, <1>4
      <3> QED
        BY <1>2, <3>1, NearestNew
    <2> QED
      BY <1>1, <1>4, <2>1
  <1> QED
    BY <1>3, <1>4

-----------------------------------------------------------------------------
(* What the level table knows of the siblings. *)

LEMMA RowHas ==
  ASSUME NEW rules, NEW k \in Nat \ {0}, Levelled(rules, k)
  PROVE  /\ k \in Row(rules, k, rules[k].level)
         /\ \A j \in Row(rules, k, rules[k].level) : j \in 1..k /\ (j # k => j \in 1..(k - 1))
         /\ Siblings(rules, k) = Row(rules, k, rules[k].level) \ {k}
         /\ Row(rules, k - 1, rules[k].level) = Siblings(rules, k)
  <1> DEFINE n == k - 1
             L == rules[k].level
  <1>1. n \in Nat /\ n + 1 = k
    OBVIOUS
  <1>2. Row(rules, k, L) = Row(rules, n, L) \cup {k}
    <2> HIDE DEF n
    <2> QED
      BY <1>1, RowMore
  <1>3. \A j \in Row(rules, n, L) : j \in 1..(k - 1) /\ j # k
    BY DEF Row
  <1>4. Siblings(rules, k) \subseteq Row(rules, n, L)
    <2> SUFFICES ASSUME NEW j \in Siblings(rules, k) PROVE j \in Row(rules, n, L)
      OBVIOUS
    <2>1. j \in 1..n /\ rules[j].level = L /\ \A m \in j..k : rules[m].level >= L
      BY DEF Siblings
    <2>2. \A m \in j..n : m \in j..k
      BY <2>1
    <2> QED
      BY <2>1, <2>2 DEF Row
  <1>5. Row(rules, n, L) \subseteq Siblings(rules, k)
    <2> SUFFICES ASSUME NEW j \in Row(rules, n, L) PROVE j \in Siblings(rules, k)
      OBVIOUS
    <2>1. j \in 1..n /\ rules[j].level = L /\ \A m \in j..n : rules[m].level >= L
      BY DEF Row
    <2>2. \A m \in j..k : m \in j..n \/ m = k
      BY <2>1
    <2>3. L >= L
      <3>1. L \in Nat
        BY DEF Levelled
      <3> QED
        BY <3>1
    <2> QED
      BY <2>1, <2>2, <2>3 DEF Siblings
  <1>6. \A j \in Row(rules, k, L) : j \in 1..k /\ (j # k => j \in 1..(k - 1))
    BY <1>2, <1>3
  <1> QED
    BY <1>2, <1>3, <1>4, <1>5, <1>6

\* The entry a knows as much as e.
LEMMA RowStays ==
  ASSUME NEW rules, NEW n \in Nat, NEW m \in Nat, NEW l, Row(rules, m, l) = Row(rules, n, l),
         NEW status, NEW t, \A j \in Row(rules, n, l) : t[j] = status[j],
         NEW e, NEW a, a.got_match = e.got_match, a.last_match = e.last_match,
         RowOK(rules, n, status, l, e)
  PROVE  RowOK(rules, m, t, l, a)
  <1>1. ASSUME ~a.got_match, NEW j \in Row(rules, m, l), t[j] = "open", rules[j].type # "clear"
        PROVE  \E i \in Row(rules, m, l) :
                 i > j /\ \/ t[i] = "bad"
                          \/ rules[i].type = "clear" /\ t[i] = "open"
    <2>1. j \in Row(rules, n, l) /\ ~e.got_match /\ status[j] = "open"
      BY <1>1
    <2>2. PICK i \in Row(rules, n, l) :
                 i > j /\ \/ status[i] = "bad"
                          \/ rules[i].type = "clear" /\ status[i] = "open"
      BY <1>1, <2>1 DEF RowOK
    <2> QED
      BY <2>2
  <1>2. ASSUME NEW j \in Row(rules, m, l), t[j] \in {"open", "mute"},
               \A i \in Row(rules, m, l) : i > j => rules[i].cond \in {"elif", "else"}
        PROVE  a.last_match
    <2>1. j \in Row(rules, n, l) /\ status[j] \in {"open", "mute"}
      BY <1>2
    <2>2. e.last_match
      BY <1>2, <2>1 DEF RowOK
    <2> QED
      BY <2>2
  <1>3. ASSUME NEW j \in Row(rules, m, l), t[j] = "miss", \A i \in Row(rules, m, l) : i <= j
        PROVE  ~a.last_match
    <2>1. j \in Row(rules, n, l) /\ status[j] = "miss"
      BY <1>3
    <2>2. ~e.last_match
      BY <1>3, <2>1 DEF RowOK
    <2> QED
      BY <2>2
  <1> QED
    BY <1>1, <1>2, <1>3 DEF RowOK

\* The next rule of the row comes, and is still to be examined.
LEMMA RowAdvances ==
  ASSUME NEW rules, NEW k \in Nat \ {0}, Levelled(rules, k), NEW status, NEW e,
         RowOK(rules, k - 1, status, rules[k].level, e), status[k] = "unseen"
  PROVE  RowOK(rules, k, status, rules[k].level, e)
  <1> DEFINE R == Row(rules, k, rules[k].level)
             S == Row(rules, k - 1, rules[k].level)
  <1>1. k \in R /\ S = R \ {k} /\ \A j \in R : j \in 1..k
    BY RowHas
  <1>2. ASSUME ~e.got_match, NEW j \in R, status[j] = "open", rules[j].type # "clear"
        PROVE  \E i \in R : i > j /\ \/ status[i] = "bad"
                                     \/ rules[i].type = "clear" /\ status[i] = "open"
    <2>1. j \in S
      BY <1>1, <1>2
    <2>2. PICK i \in S : i > j /\ \/ status[i] = "bad"
                                  \/ rules[i].type = "clear" /\ status[i] = "open"
      BY <1>2, <2>1 DEF RowOK
    <2> QED
      BY <1>1, <2>2
  <1>3. ASSUME NEW j \in R, status[j] \in {"open", "mute"},
               \A i \in R : i > j => rules[i].cond \in {"elif", "else"}
        PROVE  e.last_match
    <2>1. j \in S /\ \A i \in S : i > j => rules[i].cond \in {"elif", "else"}
      BY <1>1, <1>3
    <2> QED
      BY <1>3, <2>1 DEF RowOK
  <1>4. ASSUME NEW j \in R, status[j] = "miss", \A i \in R : i <= j
        PROVE  FALSE
    <2>1. k <= j /\ j \in 1..k
      BY <1>1, <1>4
    <2>2. j = k
      BY <2>1
    <2> QED
      BY <1>4, <2>2
  <1> QED
    BY <1>2, <1>3, <1>4 DEF RowOK

\* The rule was passed over: the entry is as before.
LEMMA RowPasses ==
  ASSUME NEW rules, NEW k \in Nat \ {0}, Levelled(rules, k), NEW status, NEW t, NEW e, NEW a,
         RowOK(rules, k, status, rules[k].level, e), status[k] = "unseen",
         NEW s \in {"barred", "oob"}, Changes(status, t, k, s),
         a.got_match = e.got_match, a.last_match = e.last_match
  PROVE  RowOK(rules, k, t, rules[k].level, a)
  <1> DEFINE R == Row(rules, k, rules[k].level)
  <1>1. k \in R /\ \A j \in R : j \in 1..k /\ (j # k => t[j] = status[j])
    BY RowHas DEF Changes
  <1>2. t[k] \in {"barred", "oob"}
    BY DEF Changes
  <1>3. ASSUME ~a.got_match, NEW j \in R, t[j] = "open", rules[j].type # "clear"
        PROVE  \E i \in R : i > j /\ \/ t[i] = "bad"
                                     \/ rules[i].type = "clear" /\ t[i] = "open"
    <2>1. status[j] = "open"
      BY <1>1, <1>2, <1>3
    <2>2. PICK i \in R : i > j /\ \/ status[i] = "bad"
                                  \/ rules[i].type = "clear" /\ status[i] = "open"
      BY <1>3, <2>1 DEF RowOK
    <2>3. i # k
      BY <2>2
    <2> QED
      BY <1>1, <2>2, <2>3
  <1>4. ASSUME NEW j \in R, t[j] \in {"open", "mute"},
               \A i \in R : i > j => rules[i].cond \in {"elif", "else"}
        PROVE  a.last_match
    <2>1. status[j] \in {"open", "mute"}
      BY <1>1, <1>2, <1>4
    <2>2. e.last_match
      BY <1>4, <2>1 DEF RowOK
    <2> QED
      BY <2>2
  <1>5. ASSUME NEW j \in R, t[j] = "miss", \A i \in R : i <= j
        PROVE  FALSE
    <2>1. k <= j /\ j \in 1..k
      BY <1>1, <1>5
    <2>2. j = k
      BY <2>1
    <2> QED
      BY <1>2, <1>5, <2>2
  <1> QED
    BY <1>3, <1>4, <1>5 DEF RowOK

\* The rule was examined; if its condition depends on the siblings, they had not matched.
LEMMA RowSettles ==
  ASSUME NEW rules, NEW k \in Nat \ {0}, Levelled(rules, k), NEW status, NEW t, NEW e, NEW a,
         RowOK(rules, k, status, rules[k].level, e), status[k] = "unseen",
         NEW s, Changes(status, t, k, s),
         rules[k].cond \in {"elif", "else"} => ~e.last_match,
         \/ s = "miss" /\ a.got_match = e.got_match /\ ~a.last_match
         \/ s = "mute" /\ a.got_match /\ a.last_match
         \/ s = "open" /\ a.last_match /\ (~a.got_match => rules[k].type = "clear")
         \/ s = "bad" /\ ~a.last_match
  PROVE  RowOK(rules, k, t, rules[k].level, a)
  <1> DEFINE R == Row(rules, k, rules[k].level)
  <1>1. k \in R /\ \A j \in R : j \in 1..k /\ (j # k => t[j] = status[j])
    BY RowHas DEF Changes
  <1>2. t[k] = s
    BY DEF Changes
  <1>3. ASSUME ~a.got_match, NEW j \in R, t[j] = "open", rules[j].type # "clear"
        PROVE  \E i \in R : i > j /\ \/ t[i] = "bad"
                                     \/ rules[i].type = "clear" /\ t[i] = "open"
    <2>1. j # k /\ k > j
      <3>1. j # k
        BY <1>2, <1>3
      <3> QED
        BY <1>1, <3>1
    <2>2. CASE s = "miss"
      <3>1. status[j] = "open" /\ ~e.got_match
        BY <1>1, <1>3, <2>1, <2>2
      <3>2. PICK i \in R : i > j /\ \/ status[i] = "bad"
                                    \/ rules[i].type = "clear" /\ status[i] = "open"
        BY <1>3, <3>1 DEF RowOK
      <3>3. i # k
        BY <3>2
      <3> QED
        BY <1>1, <3>2, <3>3
    <2>3. CASE s = "bad" \/ s = "open"
      <3>1. t[k] = "bad" \/ (rules[k].type = "clear" /\ t[k] = "open")
        BY <1>2, <1>3, <2>3
      <3> QED
        BY <1>1, <2>1, <3>1
    <2> QED
      BY <1>3, <2>2, <2>3
  <1>4. ASSUME NEW j \in R, t[j] \in {"open", "mute"},
               \A i \in R : i > j => rules[i].cond \in {"elif", "else"}
        PROVE  a.last_match
    <2>1. CASE s \in {"miss", "bad"}
      <3>1. j # k
        BY <1>2, <1>4, <2>1
      <3>2. status[j] \in {"open", "mute"} /\ k > j
        BY <1>1, <1>4, <3>1
      <3>3. e.last_match
        BY <1>4, <3>2 DEF RowOK
      <3>4. ~e.last_match
        BY <1>1, <1>4, <3>2
      <3> QED
        BY <3>3, <3>4
    <2> QED
      BY <2>1
  <1>5. ASSUME NEW j \in R, t[j] = "miss", \A i \in R : i <= j
        PROVE  ~a.last_match
    <2>1. k <= j /\ j \in 1..k
      BY <1>1, <1>5
    <2>2. j = k
      BY <2>1
    <2> QED
      BY <1>2, <1>5, <2>2
  <1> QED
    BY <1>3, <1>4, <1>5 DEF RowOK

LEMMA RowFresh ==
  ASSUME NEW rules, NEW k \in Nat \ {0}, Levelled(rules, k), NEW l \in Nat,
         rules[k].level < l, NEW t, NEW a
  PROVE  RowOK(rules, k, t, l, a)
  <1>1. Row(rules, k, l) = {}
    BY RowEmpty
  <1> QED
    BY <1>1 DEF RowOK

-----------------------------------------------------------------------------
(* The level table.  An entry b is a, its offset apart. *)

SameMatch(a, b) == a.got_match = b.got_match /\ a.last_match = b.last_match

LEMMA TableSkip ==
  ASSUME NEW d, NEW rules, NEW n \in Nat, Levelled(rules, n + 1), NEW status, NEW t,
         NEW c \in Nat, NEW table, TableOK(d, rules, n, status, c, table),
         rules[n + 1].level > c, Changes(status, t, n + 1, "skipped")
  PROVE  TableOK(d, rules, n + 1, t, c, table)
  <1>1. rules[n + 1].level \in Nat /\ \A j \in 1..n : t[j] = status[j]
    BY DEF Levelled, Changes
  <1> SUFFICES ASSUME NEW l \in 1..MaxLevel, l <= c
               PROVE  /\ \A j \in 1..(n + 1) : Nearest(rules, n + 1, l, j) =>
                           table[l - 1].off = <<d, j>>
                      /\ RowOK(rules, n + 1, t, l, table[l])
    BY DEF TableOK
  <1>2. l \in Nat /\ l <= rules[n + 1].level /\ l < rules[n + 1].level
    BY <1>1
  <1>3. /\ \A j \in 1..n : Nearest(rules, n, l, j) => table[l - 1].off = <<d, j>>
        /\ RowOK(rules, n, status, l, table[l])
    BY DEF TableOK
  <1>4. \A j \in 1..(n + 1) : Nearest(rules, n + 1, l, j) => table[l - 1].off = <<d, j>>
    BY <1>2, <1>3, NearestSame
  <1>5. Row(rules, n + 1, l) = Row(rules, n, l)
    BY <1>2, RowSame
  <1>6. \A j \in Row(rules, n, l) : t[j] = status[j]
    BY <1>1, RowRange
  <1>7. RowOK(rules, n + 1, t, l, table[l])
    BY <1>3, <1>5, <1>6, RowStays
  <1> QED
    BY <1>4, <1>7

LEMMA TableAdvance ==
  ASSUME NEW d, NEW rules, NEW n \in Nat, Levelled(rules, n + 1), NEW status,
         NEW c \in Nat, NEW table, TableOK(d, rules, n, status, c, table),
         rules[n + 1].level <= c, status[n + 1] = "unseen"
  PROVE  TableOK(d, rules, n + 1, status, rules[n + 1].level, table)
  <1> DEFINE L == rules[n + 1].level
  <1>1. L \in Nat
    BY DEF Levelled
  <1> SUFFICES ASSUME NEW l \in 1..MaxLevel, l <= L
               PROVE  /\ \A j \in 1..(n + 1) : Nearest(rules, n + 1, l, j) =>
                           table[l - 1].off = <<d, j>>
                      /\ RowOK(rules, n + 1, status, l, table[l])
    BY DEF TableOK
  <1>2. l \in Nat /\ l <= L /\ l <= c
    BY <1>1
  <1>3. /\ \A j \in 1..n : Nearest(rules, n, l, j) => table[l - 1].off = <<d, j>>
        /\ RowOK(rules, n, status, l, table[l])
    BY <1>2 DEF TableOK
  <1>4. \A j \in 1..(n + 1) : Nearest(rules, n + 1, l, j) => table[l - 1].off = <<d, j>>
    BY <1>2, <1>3, NearestSame
  <1>5. CASE l < L
    <2>1. Row(rules, n + 1, l) = Row(rules, n, l)
      BY <1>2, <1>5, RowSame
    <2>2. RowOK(rules, n + 1, status, l, table[l])
      BY <1>3, <2>1, RowStays
    <2> QED
      BY <1>4, <2>2
  <1>6. CASE l = L
    <2> DEFINE k == n + 1
    <2>1. k \in Nat \ {0} /\ k - 1 = n
      OBVIOUS
    <2>2. Levelled(rules, k) /\ RowOK(rules, k - 1, status, rules[k].level, table[l])
          /\ status[k] = "unseen"
      BY <1>3, <1>6, <2>1
    <2> HIDE DEF k
    <2>3. RowOK(rules, k, status, rules[k].level, table[l])
      BY <2>1, <2>2, RowAdvances
    <2> QED
      BY <1>4, <1>6, <2>3 DEF k
  <1> QED
    BY <1>1, <1>2, <1>5, <1>6

\* The rule k is settled, and the entry of its level after it.
LEMMA TableSettles ==
  ASSUME NEW d, NEW rules, NEW k \in Nat \ {0}, Levelled(rules, k), NEW status, NEW t,
         NEW table, TableOK(d, rules, k, status, rules[k].level, table),
         NEW s, Changes(status, t, k, s), NEW after,
         \A l \in Nat : l < rules[k].level =>
           after[l].off = table[l].off /\ SameMatch(after[l], table[l]),
         RowOK(rules, k, t, rules[k].level, after[rules[k].level])
  PROVE  TableOK(d, rules, k, t, rules[k].level, after)
  <1> DEFINE L == rules[k].level
             n == k - 1
  <1>1. L \in Nat /\ n \in Nat /\ n + 1 = k /\ \A j \in 1..n : t[j] = status[j]
    BY DEF Levelled, Changes
  <1> SUFFICES ASSUME NEW l \in 1..MaxLevel, l <= L
               PROVE  /\ \A j \in 1..k : Nearest(rules, k, l, j) => after[l - 1].off = <<d, j>>
                      /\ RowOK(rules, k, t, l, after[l])
    BY DEF TableOK
  <1>2. l \in Nat /\ l - 1 \in Nat /\ l - 1 < L
    BY <1>1
  <1>3. /\ \A j \in 1..k : Nearest(rules, k, l, j) => table[l - 1].off = <<d, j>>
        /\ RowOK(rules, k, status, l, table[l])
    BY <1>2 DEF TableOK
  <1>4. after[l - 1].off = table[l - 1].off
    BY <1>2
  <1>5. CASE l < L
    <2>1. Row(rules, k, l) = Row(rules, n, l)
      <3> HIDE DEF n
      <3> QED
        BY <1>1, <1>2, <1>5, RowSame
    <2>2. \A j \in Row(rules, k, l) : t[j] = status[j]
      BY <1>1, <2>1, RowRange
    <2>3. SameMatch(after[l], table[l])
      BY <1>2, <1>5
    <2>4. RowOK(rules, k, t, l, after[l])
      BY <1>3, <2>2, <2>3, RowStays DEF SameMatch
    <2> QED
      BY <1>3, <1>4, <2>4
  <1>6. CASE l = L
    BY <1>3, <1>4, <1>6
  <1> QED
    BY <1>1, <1>2, <1>5, <1>6

\* The rule k matched: its offset is kept, and the entry of the next level is fresh.
LEMMA TableOpens ==
  ASSUME NEW d, NEW rules, NEW k \in Nat \ {0}, Levelled(rules, k), NEW t, NEW after,
         rules[k].level > 0 => TableOK(d, rules, k, t, rules[k].level, after),
         after[rules[k].level].off = <<d, k>>
  PROVE  TableOK(d, rules, k, t, rules[k].level + 1, after)
  <1> DEFINE L == rules[k].level
             n == k - 1
  <1>1. L \in Nat /\ n \in Nat /\ n + 1 = k
    BY DEF Levelled
  <1> SUFFICES ASSUME NEW l \in 1..MaxLevel, l <= L + 1
               PROVE  /\ \A j \in 1..k : Nearest(rules, k, l, j) => after[l - 1].off = <<d, j>>
                      /\ RowOK(rules, k, t, l, after[l])
    BY DEF TableOK
  <1>2. CASE l <= L
    BY <1>1, <1>2 DEF TableOK
  <1>3. CASE ~(l <= L)
    <2>1. l = L + 1 /\ l \in Nat /\ L < l /\ l - 1 = L
      BY <1>1, <1>3
    <2>2. ASSUME NEW j \in 1..k, Nearest(rules, k, l, j) PROVE j = k
      <3> HIDE DEF n
      <3>1. Levelled(rules, n + 1) /\ rules[n + 1].level < l /\ j \in 1..(n + 1)
            /\ Nearest(rules, n + 1, l, j)
        BY <1>1, <2>1, <2>2
      <3> QED
        BY <1>1, <2>1, <3>1, NearestNew
    <2>3. RowOK(rules, k, t, l, after[l])
      BY <2>1, RowFresh
    <2> QED
      BY <2>1, <2>2, <2>3
  <1> QED
    BY <1>2, <1>3

-----------------------------------------------------------------------------
(* What became of the rules already passed. *)

LEMMA RuleStays ==
  ASSUME NEW rules, NEW k \in Nat, NEW status, NEW t, \A j \in 1..k : t[j] = status[j],
         NEW b, NEW c, b => c, RuleOK(rules, status, k, b)
  PROVE  RuleOK(rules, t, k, c)
  <1> SUFFICES ASSUME rules[k].level > 0
               PROVE  /\ FollowsParent(rules, t, k)
                      /\ ~c => LastResort(rules, t, k) /\ OneBranch(rules, t, k)
    BY DEF RuleOK
  <1>1. /\ FollowsParent(rules, status, k)
        /\ ~c => LastResort(rules, status, k) /\ OneBranch(rules, status, k)
    BY DEF RuleOK
  <1>2. CASE k = 0
    BY <1>2 DEF FollowsParent, LastResort, OneBranch, Siblings
  <1>3. CASE k # 0
    <2>1. t[k] = status[k] /\ \A j \in 1..(k - 1) : t[j] = status[j]
      BY <1>3
    <2>2. FollowsParent(rules, t, k)
      BY <1>1, <2>1 DEF FollowsParent
    <2>3. \A j \in Siblings(rules, k) : t[j] = status[j]
      BY <2>1 DEF Siblings
    <2>4. ASSUME ~c PROVE LastResort(rules, t, k)
      <3>1. LastResort(rules, status, k)
        BY <1>1, <2>4
      <3> QED
        BY <2>1, <2>3, <3>1 DEF LastResort
    <2>5. ASSUME ~c PROVE OneBranch(rules, t, k)
      <3>1. OneBranch(rules, status, k)
        BY <1>1, <2>5
      <3> QED
        BY <2>1, <2>3, <3>1 DEF OneBranch
    <2> QED
      BY <2>2, <2>4, <2>5
  <1> QED
    BY <1>2, <1>3

LEMMA RuleUnseen ==
  ASSUME NEW rules, NEW k, NEW t, t[k] = "unseen", NEW c
  PROVE  RuleOK(rules, t, k, c)
  BY DEF RuleOK, FollowsParent, LastResort, OneBranch

LEMMA RuleSkipped ==
  ASSUME NEW rules, NEW k \in Nat \ {0}, Levelled(rules, k), NEW status, NEW t, NEW c \in Nat,
         PathOK(rules, k - 1, status, c), rules[k].level > c, rules[k].level \in 1..MaxLevel,
         Changes(status, t, k, "skipped"), NEW b
  PROVE  RuleOK(rules, t, k, b)
  <1>1. t[k] = "skipped" /\ \A j \in 1..(k - 1) : t[j] = status[j]
    BY DEF Changes
  <1>2. \A j \in 1..(k - 1) : Nearest(rules, k - 1, rules[k].level, j) =>
          status[j] # "open" \/ rules[k].level > rules[j].level + 1
    <2>1. ~(rules[k].level <= c)
      OBVIOUS
    <2> QED
      BY <2>1 DEF PathOK
  <1>3. FollowsParent(rules, t, k)
    BY <1>1, <1>2 DEF FollowsParent
  <1>4. LastResort(rules, t, k) /\ OneBranch(rules, t, k)
    BY <1>1 DEF LastResort, OneBranch
  <1> QED
    BY <1>3, <1>4 DEF RuleOK

\* The rule k is examined at the level its parent opened.
LEMMA ParentOpen ==
  ASSUME NEW rules, NEW k \in Nat \ {0}, Levelled(rules, k), NEW status, NEW t,
         PathOK(rules, k, status, rules[k].level), rules[k].level \in 1..MaxLevel,
         NEW s, s # "skipped", Changes(status, t, k, s)
  PROVE  FollowsParent(rules, t, k)
  <1> DEFINE L == rules[k].level
             n == k - 1
  <1>1. /\ t[k] # "skipped" /\ \A j \in 1..(k - 1) : t[j] = status[j]
        /\ n \in Nat /\ n + 1 = k /\ L \in Nat /\ L <= L
    BY DEF Levelled, Changes
  <1>2. ASSUME NEW j \in 1..n, Nearest(rules, n, L, j) PROVE t[j] = "open"
    <2>1. Nearest(rules, k, L, j) /\ j \in 1..k
      <3>1. j \in 1..(n + 1)
        OBVIOUS
      <3> HIDE DEF n
      <3> QED
        BY <1>1, <1>2, <3>1, NearestSame
    <2>2. status[j] = "open"
      BY <1>1, <2>1 DEF PathOK
    <2> QED
      BY <1>1, <2>2
  <1> QED
    BY <1>1, <1>2 DEF FollowsParent

\* The entry of the level keeps a default out, and what a condition excludes.
LEMMA RuleSettles ==
  ASSUME NEW rules, NEW k \in Nat \ {0}, Levelled(rules, k), NEW status, NEW t, NEW b,
         PathOK(rules, k, status, rules[k].level), rules[k].level \in 1..MaxLevel,
         status[k] = "unseen", NEW s \in {"oob", "miss", "mute", "bad", "open"},
         Changes(status, t, k, s), NEW e,
         ~b => /\ RowOK(rules, k, status, rules[k].level, e)
               /\ rules[k].cond \in {"elif", "else"} => ~e.last_match
               /\ s = "open" /\ rules[k].type = "default" => ~e.got_match
  PROVE  RuleOK(rules, t, k, b)
  <1> DEFINE R == Row(rules, k, rules[k].level)
  <1>1. t[k] = s /\ \A j \in 1..(k - 1) : t[j] = status[j]
    BY DEF Changes
  <1>2. FollowsParent(rules, t, k)
    BY ParentOpen
  <1>3. /\ Siblings(rules, k) = R \ {k} /\ k \in R
        /\ \A j \in R : j \in 1..k /\ (j # k => j \in 1..(k - 1))
    BY RowHas
  <1>4. \A j \in Siblings(rules, k) : t[j] = status[j] /\ k > j
    BY <1>1, <1>3
  <1>5. ASSUME ~b PROVE LastResort(rules, t, k)
    <2> SUFFICES ASSUME rules[k].type = "default", t[k] = "open",
                        NEW j \in Siblings(rules, k), t[j] = "open", rules[j].type # "clear"
                 PROVE  \E m \in Siblings(rules, k) :
                          m > j /\ \/ t[m] = "bad"
                                   \/ rules[m].type = "clear" /\ t[m] = "open"
      BY DEF LastResort
    <2>1. ~e.got_match /\ j \in R /\ status[j] = "open"
      BY <1>1, <1>3, <1>4, <1>5
    <2>2. PICK m \in R : m > j /\ \/ status[m] = "bad"
                                  \/ rules[m].type = "clear" /\ status[m] = "open"
      BY <1>5, <2>1 DEF RowOK
    <2>3. m \in Siblings(rules, k)
      BY <1>3, <2>2
    <2> QED
      BY <1>4, <2>2, <2>3
  <1>6. ASSUME ~b PROVE OneBranch(rules, t, k)
    <2> SUFFICES ASSUME NEW j \in Siblings(rules, k), Chained(rules, j, k),
                        t[j] \in {"open", "mute"}
                 PROVE  FALSE
      BY <1>1 DEF OneBranch
    <2>1. \A m \in R : m > j => rules[m].cond \in {"elif", "else"}
      BY <1>3 DEF Chained
    <2>2. e.last_match
      BY <1>3, <1>4, <1>5, <1>6, <2>1 DEF RowOK
    <2>3. ~e.last_match
      BY <1>3, <1>4, <1>6, <2>1
    <2> QED
      BY <2>2, <2>3
  <1> QED
    BY <1>2, <1>5, <1>6 DEF RuleOK

LEMMA RuleBarred ==
  ASSUME NEW rules, NEW k \in Nat \ {0}, Levelled(rules, k), NEW status, NEW t, NEW b,
         PathOK(rules, k, status, rules[k].level), rules[k].level \in 1..MaxLevel,
         Changes(status, t, k, "barred"), NEW e,
         ~b => RowOK(rules, k - 1, status, rules[k].level, e) /\ e.last_match
  PROVE  RuleOK(rules, t, k, b)
  <1>1. t[k] = "barred" /\ \A j \in 1..(k - 1) : t[j] = status[j]
    BY DEF Changes
  <1>2. FollowsParent(rules, t, k)
    BY ParentOpen
  <1>3. LastResort(rules, t, k)
    BY <1>1 DEF LastResort
  <1>4. ASSUME ~b PROVE OneBranch(rules, t, k)
    <2> SUFFICES ASSUME NEW j \in Siblings(rules, k), t[j] = "miss",
                        \A m \in Siblings(rules, k) : m <= j
                 PROVE  FALSE
      BY <1>1 DEF OneBranch
    <2>1. Row(rules, k - 1, rules[k].level) = Siblings(rules, k) /\ j \in 1..(k - 1)
      BY RowHas DEF Siblings
    <2>2. ~e.last_match
      BY <1>1, <1>4, <2>1 DEF RowOK
    <2> QED
      BY <1>4, <2>2
  <1> QED
    BY <1>2, <1>3, <1>4 DEF RuleOK

\* What the operators on the table change.
LEMMA CheckMemAt ==
  ASSUME NEW table \in Tables, NEW l \in Levels
  PROVE  LET after == CheckMem(table, l)
         IN /\ \A m \in Levels : after[m].off = table[m].off
            /\ \A m \in Levels : m # l => SameMatch(after[m], table[m])
            /\ ~after[l].got_match /\ ~after[l].last_match
  <1> DEFINE t == [table EXCEPT ![l].got_match = FALSE]
  <1>1. t \in Tables
    BY DEF Tables, Rows
  <1>2. /\ \A m \in Levels : t[m].off = table[m].off
        /\ \A m \in Levels : m # l => SameMatch(t[m], table[m])
        /\ ~t[l].got_match
    BY DEF Tables, Rows, SameMatch
  <1>3. CheckMem(table, l) = [t EXCEPT ![l].last_match = FALSE]
    BY DEF CheckMem
  <1> HIDE DEF t
  <1> DEFINE a == [t EXCEPT ![l].last_match = FALSE]
  <1>4. /\ \A m \in Levels : a[m].off = t[m].off
        /\ \A m \in Levels : m # l => SameMatch(a[m], t[m])
        /\ a[l].got_match = t[l].got_match /\ ~a[l].last_match
    BY <1>1 DEF Tables, Rows, SameMatch
  <1> HIDE DEF a
  <1> QED
    BY <1>2, <1>3, <1>4 DEF SameMatch, a

LEMMA LastMatchAt ==
  ASSUME NEW table \in Tables, NEW l \in Levels, NEW b \in BOOLEAN
  PROVE  LET after == [table EXCEPT ![l].last_match = b]
         IN /\ \A m \in Levels : after[m].off = table[m].off
            /\ \A m \in Levels : m # l => SameMatch(after[m], table[m])
            /\ after[l].got_match = table[l].got_match /\ after[l].last_match = b
  BY DEF Tables, Rows, SameMatch

LEMMA OffAt ==
  ASSUME NEW table \in Tables, NEW l \in Levels, NEW o
  PROVE  LET after == [table EXCEPT ![l].off = o]
         IN /\ \A m \in Levels : m # l => after[m].off = table[m].off
            /\ \A m \in Levels : SameMatch(after[m], table[m])
            /\ after[l].off = o
  BY DEF Tables, Rows, SameMatch

LEMMA RecordMatchAt ==
  ASSUME NEW table \in Tables, NEW l \in Levels, NEW e
  PROVE  LET after == RecordMatch(table, l, e)
         IN /\ \A m \in Levels : after[m].off = table[m].off
            /\ \A m \in Levels : m # l => SameMatch(after[m], table[m])
            /\ after[l].last_match
            /\ after[l].got_match <=> e.type # "clear"
  <1> DEFINE yes == TRUE
             t == [table EXCEPT ![l].last_match = yes]
             b == e.type # "clear"
  <1>1. t \in Tables /\ b \in BOOLEAN /\ yes \in BOOLEAN
    BY LastMatchType
  <1>2. RecordMatch(table, l, e) = [t EXCEPT ![l].got_match = b]
    BY DEF RecordMatch
  <1> HIDE DEF yes
  <1>3. /\ \A m \in Levels : t[m].off = table[m].off
        /\ \A m \in Levels : m # l => SameMatch(t[m], table[m])
        /\ t[l].last_match = yes
    BY <1>1, LastMatchAt
  <1> HIDE DEF t, b
  <1> DEFINE a == [t EXCEPT ![l].got_match = b]
  <1>4. /\ \A m \in Levels : a[m].off = t[m].off
        /\ \A m \in Levels : m # l => SameMatch(a[m], t[m])
        /\ a[l].last_match = t[l].last_match /\ a[l].got_match = b
    BY <1>1 DEF Tables, Rows, SameMatch
  <1> HIDE DEF a
  <1>5. /\ \A m \in Levels : a[m].off = table[m].off
        /\ \A m \in Levels : m # l => SameMatch(a[m], table[m])
    BY <1>3, <1>4 DEF SameMatch
  <1>6. a[l].last_match /\ (a[l].got_match <=> e.type # "clear")
    BY <1>3, <1>4 DEF yes, b
  <1> QED
    BY <1>2, <1>5, <1>6 DEF a

-----------------------------------------------------------------------------
(* An activation that stands on a rule, and what it becomes. *)

Stand(f) == OnRule(f) /\ Walk(f) /\ Examines(f)

\* The activation g is f, elsewhere in its list.
Same(f, g) ==
  /\ g.via = f.via /\ g.rules = f.rules /\ g.clobbered = f.clobbered
  /\ g.saved_li = f.saved_li

\* It is f once the rule that f stands on has the status s.
Marked(f, g, s) ==
  /\ Same(f, g) /\ g.magindex = f.magindex
  /\ Changes(f.status, g.status, f.magindex, s)
  /\ \A j \in DOMAIN f.rules : j > f.magindex => g.status[j] = f.status[j]

LEMMA StandFacts ==
  ASSUME NEW f, Stand(f)
  PROVE  /\ f.magindex \in Nat \ {0} /\ f.magindex \in DOMAIN f.rules
         /\ Levelled(f.rules, f.magindex) /\ f.rules \in Seq(Rule)
         /\ f.rules[f.magindex].level = f.cont_level
         /\ f.cont_level \in 0..MaxLevel /\ f.cont_level \in Levels
         /\ f.status[f.magindex] = "unseen" /\ f.return = Running
         /\ f.cont_level > 0 => f.rules[f.magindex].level \in 1..MaxLevel
  <1>1. /\ f.rules \in Seq(Rule) /\ f.magindex \in 1..Len(f.rules)
        /\ f.cont_level \in 0..MaxLevel /\ f.cont_level \in Levels
    BY LevelsFacts DEF Stand, OnRule, Good, Frames, Levels
  <1>2. \A j \in 1..f.magindex : f.rules[j] \in Rule
    BY <1>1
  <1>3. Levelled(f.rules, f.magindex)
    BY <1>2, LevelsFacts DEF Levelled, Rule
  <1> QED
    BY <1>1, <1>3 DEF Stand, Examines

LEMMA MarkOf ==
  ASSUME NEW f, OnRule(f), NEW s
  PROVE  /\ Marked(f, Mark(f, s), s)
         /\ Mark(f, s).cont_level = f.cont_level /\ Mark(f, s).return = f.return
  <1> DEFINE t == [f.status EXCEPT ![f.magindex] = s]
             g == [f EXCEPT !.status = t]
  <1>1. /\ f \in Frames /\ f.magindex \in 1..Len(f.rules) /\ f.rules \in Seq(Rule)
        /\ DOMAIN f.status = DOMAIN f.rules /\ f.status \in Seq(Statuses)
    BY DEF OnRule, Good, Frames
  <1>2. Changes(f.status, t, f.magindex, s)
    BY <1>1 DEF Changes
  <1>3. \A j \in DOMAIN f.rules : j > f.magindex => t[j] = f.status[j]
    BY <1>1
  <1>4. Mark(f, s) = g
    BY DEF Mark
  <1> HIDE DEF t
  <1>5. Same(f, g) /\ g.magindex = f.magindex /\ g.status = t /\ g.cont_level = f.cont_level
        /\ g.return = f.return
    BY <1>1 DEF Frames, Same
  <1> HIDE DEF g
  <1> QED
    BY <1>2, <1>3, <1>4, <1>5 DEF Marked

LEMMA SameStand ==
  ASSUME NEW f, Stand(f), NEW g, OnRule(g), Same(f, g), g.magindex = f.magindex,
         g.status = f.status, g.cont_level = f.cont_level, g.return = f.return
  PROVE  /\ Stand(g)
         /\ \A d, table : Held(d, f, table) => Held(d, g, table)
         /\ \A table : Unbarred(f, table) => Unbarred(g, table)
         /\ \A h, s : Marked(g, h, s) => Marked(f, h, s)
  BY DEF Stand, Same, Walk, Examines, Held, Unbarred, Marked

LEMMA MarkedWalk ==
  ASSUME NEW f, Stand(f), NEW g, NEW s, Marked(f, g, s),
         RuleOK(g.rules, g.status, f.magindex, g.clobbered),
         g.return = Running /\ g.cont_level > 0 =>
           PathOK(g.rules, g.magindex, g.status, g.cont_level)
  PROVE  Walk(g)
  <1> DEFINE k == f.magindex
  <1>1. k \in Nat \ {0} /\ g.rules = f.rules /\ g.magindex = k /\ g.clobbered = f.clobbered
    BY StandFacts DEF Marked, Same
  <1>2. \A j \in 1..(k - 1) : g.status[j] = f.status[j]
    BY DEF Marked, Changes
  <1>3. ASSUME NEW i \in 1..k PROVE RuleOK(g.rules, g.status, i, g.clobbered)
    <2>1. CASE i = k
      BY <2>1
    <2>2. CASE i # k
      <3>1. i \in Nat /\ \A j \in 1..i : g.status[j] = f.status[j]
        BY <1>1, <1>2, <2>2
      <3>2. RuleOK(f.rules, f.status, i, f.clobbered)
        BY DEF Stand, Walk
      <3> HIDE DEF k
      <3> QED
        BY <1>1, <3>1, <3>2, RuleStays
    <2> QED
      BY <2>1, <2>2
  <1>4. \A j \in DOMAIN g.rules : j > k => g.status[j] = "unseen"
    BY <1>1 DEF Stand, Walk, Marked
  <1> QED
    BY <1>1, <1>3, <1>4 DEF Walk, Stand

\* A continuation is settled.
LEMMA SettledWalk ==
  ASSUME NEW f, Stand(f), f.cont_level > 0, NEW d, NEW table, Held(d, f, table),
         Unbarred(f, table), NEW g, NEW s \in {"oob", "miss", "mute", "bad", "open"},
         Marked(f, g, s),
         s = "open" /\ f.rules[f.magindex].type = "default" => ~table[f.cont_level].got_match,
         \/ g.return # Running
         \/ s # "open" /\ g.cont_level = f.cont_level
         \/ s = "open" /\ g.cont_level = f.cont_level + 1
  PROVE  Walk(g)
  <1> DEFINE k == f.magindex
             rules == f.rules
             e == table[f.cont_level]
  <1>1. /\ k \in Nat \ {0} /\ Levelled(rules, k) /\ rules[k].level = f.cont_level
        /\ rules[k].level \in 1..MaxLevel /\ f.status[k] = "unseen" /\ f.return = Running
    BY StandFacts
  <1>2. PathOK(rules, k, f.status, rules[k].level)
    BY <1>1 DEF Stand, Walk
  <1>3. Changes(f.status, g.status, k, s) /\ g.rules = rules /\ g.clobbered = f.clobbered
        /\ g.magindex = k
    BY DEF Marked, Same
  <1>4. ASSUME ~f.clobbered
        PROVE  /\ RowOK(rules, k, f.status, rules[k].level, e)
               /\ rules[k].cond \in {"elif", "else"} => ~e.last_match
    <2>1. TableOK(d, rules, k, f.status, rules[k].level, table)
      BY <1>1, <1>4 DEF Held
    <2>2. RowOK(rules, k, f.status, rules[k].level, table[rules[k].level])
      <3>1. rules[k].level <= rules[k].level
        BY <1>1
      <3> QED
        BY <1>1, <2>1, <3>1 DEF TableOK
    <2> QED
      BY <1>1, <1>4, <2>2 DEF Unbarred
  <1>5. RuleOK(rules, g.status, k, f.clobbered)
    <2> HIDE DEF k, rules, e
    <2>1. s = "open" /\ rules[k].type = "default" => ~e.got_match
      BY DEF k, rules, e
    <2> QED
      BY <1>1, <1>2, <1>3, <1>4, <2>1, RuleSettles
  <1>6. ASSUME g.return = Running PROVE PathOK(rules, k, g.status, g.cont_level)
    <2> HIDE DEF k, rules
    <2>1. CASE s # "open" /\ g.cont_level = f.cont_level
      BY <1>1, <1>2, <1>3, <2>1, ShutPath
    <2>2. CASE s = "open" /\ g.cont_level = f.cont_level + 1
      BY <1>1, <1>2, <1>3, <2>2, OpenPath
    <2> QED
      BY <1>6, <2>1, <2>2
  <1> QED
    BY <1>3, <1>5, <1>6, MarkedWalk

LEMMA SettledHeld ==
  ASSUME NEW f, Stand(f), f.cont_level > 0, NEW d, NEW table, Held(d, f, table),
         NEW g, NEW s, Marked(f, g, s), NEW after,
         \A l \in Levels : l < f.cont_level =>
           after[l].off = table[l].off /\ SameMatch(after[l], table[l]),
         ~f.clobbered /\ RowOK(f.rules, f.magindex, f.status, f.cont_level, table[f.cont_level]) =>
           RowOK(f.rules, f.magindex, g.status, f.cont_level, after[f.cont_level]),
         \/ g.return # Running
         \/ g.cont_level = f.cont_level
         \/ /\ g.cont_level = f.cont_level + 1
            /\ after[f.cont_level].off = <<d, f.magindex>>
  PROVE  Held(d, g, after)
  <1> DEFINE k == f.magindex
             rules == f.rules
             L == rules[k].level
  <1>1. /\ k \in Nat \ {0} /\ Levelled(rules, k) /\ L = f.cont_level
        /\ L \in 1..MaxLevel /\ f.return = Running
    BY StandFacts
  <1>2. Changes(f.status, g.status, k, s) /\ g.rules = rules /\ g.clobbered = f.clobbered
        /\ g.magindex = k
    BY DEF Marked, Same
  <1> SUFFICES ASSUME g.return = Running, ~f.clobbered
               PROVE  TableOK(d, rules, k, g.status, g.cont_level, after)
    BY <1>2 DEF Held
  <1>3. TableOK(d, rules, k, f.status, L, table)
    BY <1>1 DEF Held
  <1>4. RowOK(rules, k, f.status, L, table[L])
    <2>1. L <= L
      BY <1>1
    <2> QED
      BY <1>1, <1>3, <2>1 DEF TableOK
  <1>5. RowOK(rules, k, g.status, L, after[L])
    BY <1>1, <1>4
  <1>6. \A l \in Nat : l < L => after[l].off = table[l].off /\ SameMatch(after[l], table[l])
    <2>1. \A l \in Nat : l < L => l \in Levels
      BY <1>1, LevelsFacts DEF Levels
    <2> QED
      BY <1>1, <2>1
  <1>7. TableOK(d, rules, k, g.status, L, after)
    <2> HIDE DEF k, rules, L
    <2> USE DEF L
    <2> QED
      BY <1>1, <1>2, <1>3, <1>5, <1>6, TableSettles
  <1>8. CASE g.cont_level = f.cont_level
    BY <1>1, <1>7, <1>8
  <1>9. CASE g.cont_level = f.cont_level + 1 /\ after[f.cont_level].off = <<d, f.magindex>>
    <2>1. after[L].off = <<d, k>> /\ g.cont_level = L + 1
      BY <1>1, <1>9
    <2> HIDE DEF k, rules
    <2> QED
      BY <1>1, <1>7, <2>1, TableOpens
  <1> QED
    BY <1>8, <1>9

\* A rule of level 0 is settled.
LEMMA GroupWalk ==
  ASSUME NEW f, Stand(f), f.cont_level = 0, NEW g, NEW s, Marked(f, g, s),
         \/ g.return # Running
         \/ g.cont_level = 0
         \/ s = "open" /\ g.cont_level = 1
  PROVE  Walk(g)
  <1> DEFINE k == f.magindex
             rules == f.rules
  <1>1. /\ k \in Nat \ {0} /\ Levelled(rules, k) /\ rules[k].level = 0
    BY StandFacts
  <1>2. Changes(f.status, g.status, k, s) /\ g.rules = rules /\ g.magindex = k
    BY DEF Marked, Same
  <1>3. RuleOK(g.rules, g.status, k, g.clobbered)
    BY <1>1, <1>2 DEF RuleOK
  <1>4. ASSUME g.return = Running, g.cont_level > 0 PROVE PathOK(rules, k, g.status, g.cont_level)
    <2>1. s = "open" /\ g.cont_level = rules[k].level + 1
      BY <1>1, <1>4
    <2>2. Changes(f.status, g.status, k, "open") /\ ~(rules[k].level > 0)
      BY <1>1, <1>2, <2>1
    <2> HIDE DEF k, rules
    <2> QED
      BY <1>1, <2>1, <2>2, OpenPath
  <1> QED
    BY <1>2, <1>3, <1>4, MarkedWalk

LEMMA GroupHeld ==
  ASSUME NEW f, Stand(f), f.cont_level = 0, NEW g, NEW s, Marked(f, g, s), NEW d, NEW after,
         after[0].off = <<d, f.magindex>>, g.cont_level = 1
  PROVE  Held(d, g, after)
  <1> DEFINE k == f.magindex
             rules == f.rules
  <1>1. /\ k \in Nat \ {0} /\ Levelled(rules, k) /\ rules[k].level = 0
        /\ g.rules = rules /\ g.magindex = k
    BY StandFacts DEF Marked, Same
  <1>2. after[rules[k].level].off = <<d, k>> /\ ~(rules[k].level > 0) /\ 1 = rules[k].level + 1
    BY <1>1
  <1> HIDE DEF k, rules
  <1>3. TableOK(d, rules, k, g.status, 1, after)
    BY <1>1, <1>2, TableOpens
  <1> QED
    BY <1>1, <1>3 DEF Held

\* The rest of the group is passed over.
LEMMA FlushOf ==
  ASSUME NEW f, Good(f)
  PROVE  LET g == Flush(f)
         IN /\ Same(f, g) /\ g.status = f.status /\ g.cont_level = 0
            /\ g.magindex \in f.magindex..Len(f.rules)
  <1> DEFINE past == {k \in f.magindex..Len(f.rules) :
                        \A j \in (f.magindex + 1)..k : f.rules[j].level # 0}
             n == CHOOSE k \in past : \A j \in past : j <= k
  <1>1. /\ f.magindex \in Nat /\ Len(f.rules) \in Nat /\ f.magindex <= Len(f.rules)
        /\ f \in Frames
    BY DEF Good, Frames
  <1>2. past \in SUBSET (0..Len(f.rules)) /\ f.magindex \in past
    BY <1>1
  <1>3. n \in past
    <2> HIDE DEF past
    <2> QED
      BY <1>1, <1>2, Greatest
  <1>4. n \in f.magindex..Len(f.rules)
    BY <1>3
  <1>5. Flush(f) = [f EXCEPT !.magindex = n, !.cont_level = 0]
    BY DEF Flush
  <1> HIDE DEF n
  <1> QED
    BY <1>1, <1>4, <1>5 DEF Frames, Same

LEMMA FlushWalk ==
  ASSUME NEW f, Good(f), Walk(f), NEW d, NEW table
  PROVE  Same(f, Flush(f)) /\ Walk(Flush(f)) /\ Held(d, Flush(f), table)
  <1> DEFINE g == Flush(f)
  <1>1. /\ Same(f, g) /\ g.status = f.status /\ g.cont_level = 0
        /\ g.magindex \in f.magindex..Len(f.rules)
    BY FlushOf
  <1>2. f.magindex \in Nat /\ f.rules \in Seq(Rule)
    BY DEF Good, Frames
  <1> HIDE DEF g
  <1>3. ASSUME NEW i \in 1..g.magindex PROVE RuleOK(g.rules, g.status, i, g.clobbered)
    <2>1. CASE i <= f.magindex
      <3>1. i \in 1..f.magindex
        BY <1>1, <1>2, <2>1
      <3> QED
        BY <1>1, <3>1 DEF Walk, Same
    <2>2. CASE ~(i <= f.magindex)
      <3>1. i \in DOMAIN f.rules /\ i > f.magindex
        BY <1>1, <1>2, <2>2
      <3>2. g.status[i] = "unseen"
        BY <1>1, <3>1 DEF Walk
      <3> QED
        BY <3>2, RuleUnseen
    <2> QED
      BY <2>1, <2>2
  <1>4. \A k \in DOMAIN g.rules : k > g.magindex => g.status[k] = "unseen"
    BY <1>1, <1>2 DEF Walk, Same
  <1>5. Grouped(g.rules)
    BY <1>1 DEF Walk, Same
  <1>6. Walk(g)
    BY <1>1, <1>3, <1>4, <1>5 DEF Walk
  <1>7. Held(d, g, table)
    BY <1>1 DEF Held
  <1> QED
    BY <1>1, <1>6, <1>7 DEF g

\* It returns: what it was going to do does not matter any more.
LEMMA ReturnWalk ==
  ASSUME NEW f, Good(f), Walk(f), NEW v, v # Running, NEW d, NEW table
  PROVE  LET g == [f EXCEPT !.return = v]
         IN Same(f, g) /\ Walk(g) /\ Held(d, g, table)
  <1> DEFINE g == [f EXCEPT !.return = v]
  <1>1. /\ Same(f, g) /\ g.status = f.status /\ g.magindex = f.magindex /\ g.return # Running
    BY DEF Good, Frames, Same
  <1> HIDE DEF g
  <1>2. Walk(g) /\ Held(d, g, table)
    BY <1>1 DEF Walk, Same, Held
  <1> QED
    BY <1>1, <1>2 DEF g

-----------------------------------------------------------------------------
(* The steps of an activation. *)

\* The activation f, at depth d, goes on as it should; those above it are gone.
Resumes(d, f) ==
  \E g : Become(d, g) /\ Same(f, g) /\ Walk(g) /\ Held(d, g, li')

LEMMA AnnotateMarks ==
  ASSUME NEW d, NEW f, OnRule(f), NEW p, NEW table, Annotate(d, f, p, table)
  PROVE  \E g : Become(d, g) /\ Marked(f, g, "open") /\ g.return = 1
  <1> DEFINE m == Mark(f, "open")
             g == [m EXCEPT !.found_match = TRUE, !.returnval = 1, !.return = 1]
  <1>1. Become(d, g)
    BY DEF Annotate
  <1>2. Marked(f, m, "open") /\ OnRule(m)
    BY MarkOf, MarkGood DEF Statuses, OnRule
  <1> HIDE DEF m
  <1>3. Same(m, g) /\ g.magindex = m.magindex /\ g.status = m.status /\ g.return = 1
    BY <1>2 DEF OnRule, Good, Frames, Same
  <1> HIDE DEF g
  <1>4. Marked(f, g, "open")
    BY <1>2, <1>3 DEF Marked, Same
  <1> QED
    BY <1>1, <1>3, <1>4

\* The activation that f becomes when its rule matched: on the next level, or not.
LEMMA OpenedMarks ==
  ASSUME NEW f, OnRule(f), NEW l \in Levels
  PROVE  LET g == Describe(f, f.rules[f.magindex])
             h == [Mark(g, "open") EXCEPT !.cont_level = l]
         IN /\ Marked(f, h, "open") /\ h.cont_level = l /\ h.return = f.return
            /\ \A s : Marked(f, Mark(g, s), s) /\ Mark(g, s).cont_level = f.cont_level
            /\ OnRule(g)
  <1> DEFINE e == f.rules[f.magindex]
             g == Describe(f, e)
             m == Mark(g, "open")
             h == [m EXCEPT !.cont_level = l]
  <1>1. OnRule(g)
    <2>1. e.desc \in BOOLEAN
      BY RuleOf
    <2> HIDE DEF e
    <2> QED
      BY <2>1, DescribeKeeps
  <1>2. /\ Same(f, g) /\ g.magindex = f.magindex /\ g.status = f.status
        /\ g.cont_level = f.cont_level /\ g.return = f.return
    <2> DEFINE b == f.found_match \/ e.desc
               r == IF Describes(e) THEN 1 ELSE f.returnval
    <2>1. g = [f EXCEPT !.found_match = b, !.returnval = r]
      BY DEF Describe
    <2> DEFINE q == [f EXCEPT !.found_match = b, !.returnval = r]
    <2> HIDE DEF b, r, g, m, h, e
    <2>2. /\ Same(f, q) /\ q.magindex = f.magindex /\ q.status = f.status
          /\ q.cont_level = f.cont_level /\ q.return = f.return
      BY DEF OnRule, Good, Frames, Same
    <2> HIDE DEF q
    <2>3. g = q
      BY <2>1 DEF q
    <2> QED
      BY <2>2, <2>3
  <1> HIDE DEF g, e
  <1>3. ASSUME NEW s
        PROVE  /\ Marked(f, Mark(g, s), s) /\ Mark(g, s).cont_level = f.cont_level
               /\ Mark(g, s).return = f.return
    <2>1. /\ Marked(g, Mark(g, s), s) /\ Mark(g, s).cont_level = g.cont_level
          /\ Mark(g, s).return = g.return
      BY <1>1, MarkOf
    <2> QED
      BY <1>2, <2>1 DEF Marked, Same
  <1>4. m \in Frames
    BY <1>1, MarkGood DEF Statuses, OnRule, Keeps, Good
  <1>5. Marked(f, m, "open") /\ m.return = f.return
    BY <1>3
  <1> HIDE DEF m
  <1>6. Same(m, h) /\ h.magindex = m.magindex /\ h.status = m.status /\ h.cont_level = l
        /\ h.return = m.return
    BY <1>4 DEF Frames, Same
  <1> HIDE DEF h
  <1>7. Marked(f, h, "open") /\ h.cont_level = l /\ h.return = f.return
    BY <1>5, <1>6 DEF Marked, Same
  <1> QED
    BY <1>1, <1>3, <1>7 DEF h, m, g, e

LEMMA RowAfter ==
  ASSUME NEW f, Stand(f), f.cont_level > 0, NEW table,
         NEW g, NEW s, s # "barred" => Unbarred(f, table), Marked(f, g, s),
         NEW after, NEW a, a = after[f.cont_level],
         NEW e, e = table[f.cont_level],
         \/ s \in {"barred", "oob"} /\ SameMatch(a, e)
         \/ s = "miss" /\ a.got_match = e.got_match /\ ~a.last_match
         \/ s = "mute" /\ a.got_match /\ a.last_match
         \/ s = "open" /\ a.last_match
              /\ (~a.got_match => f.rules[f.magindex].type = "clear")
         \/ s = "bad" /\ ~a.last_match
  PROVE  ~f.clobbered /\ RowOK(f.rules, f.magindex, f.status, f.cont_level, table[f.cont_level]) =>
             RowOK(f.rules, f.magindex, g.status, f.cont_level, after[f.cont_level])
  <1> SUFFICES ASSUME ~f.clobbered, RowOK(f.rules, f.magindex, f.status, f.cont_level, e)
               PROVE  RowOK(f.rules, f.magindex, g.status, f.cont_level, a)
    OBVIOUS
  <1> DEFINE k == f.magindex
             rules == f.rules
  <1>1. /\ k \in Nat \ {0} /\ Levelled(rules, k) /\ rules[k].level = f.cont_level
        /\ f.status[k] = "unseen" /\ Changes(f.status, g.status, k, s)
        /\ RowOK(rules, k, f.status, rules[k].level, e)
    BY StandFacts DEF Marked
  <1>2. s # "barred" /\ rules[k].cond \in {"elif", "else"} => ~e.last_match
    BY DEF Unbarred
  <1>3. RowOK(rules, k, g.status, rules[k].level, a)
    <2>1. CASE s \in {"barred", "oob"} /\ SameMatch(a, e)
      <3> HIDE DEF k, rules
      <3> QED
        BY <1>1, <2>1, RowPasses DEF SameMatch
    <2>2. CASE \/ s = "miss" /\ a.got_match = e.got_match /\ ~a.last_match
               \/ s = "mute" /\ a.got_match /\ a.last_match
               \/ s = "open" /\ a.last_match
                    /\ (~a.got_match => rules[k].type = "clear")
               \/ s = "bad" /\ ~a.last_match
      <3> HIDE DEF k, rules
      <3> QED
        BY <1>1, <1>2, <2>2, RowSettles
    <2> QED
      BY <2>1, <2>2
  <1> QED
    BY <1>1, <1>3

LEMMA SettleContinuationTree ==
  ASSUME NEW f, Stand(f), f.cont_level > 0, NEW d \in Nat, NEW table \in Tables,
         Held(d, f, table), Unbarred(f, table), NEW p, NEW verdict,
         SettleContinuation(d, f, p, table, verdict)
  PROVE  Resumes(d, f)
  <1> DEFINE e == f.rules[f.magindex]
             l == f.cont_level
             yes == RecordMatch(table, l, e)
             off == [yes EXCEPT ![l].off = <<d, f.magindex>>]
             g == Describe(f, e)
             muted == e.type = "default" /\ table[l].got_match
  <1>1. OnRule(f) /\ l \in Levels /\ l + 1 \in Levels /\ f.return = Running /\ f.magindex \in Nat
    BY StandFacts, LevelsFacts DEF Stand
  <1>2. yes \in Tables /\ off \in Tables
    BY <1>1, RecordMatchType, OffType
  <1>3. /\ \A m \in Levels : yes[m].off = table[m].off
        /\ \A m \in Levels : m # l => SameMatch(yes[m], table[m])
        /\ yes[l].last_match
        /\ yes[l].got_match <=> e.type # "clear"
    <2> HIDE DEF e, l
    <2> QED
      BY <1>1, RecordMatchAt
  \* It is settled with the status s, and the table after it.
  <1>4. ASSUME NEW h, Become(d, h), NEW s \in {"oob", "miss", "mute", "bad", "open"},
               Marked(f, h, s), NEW after, li' = after,
               s = "open" => ~muted,
               \/ h.return # Running
               \/ s # "open" /\ h.cont_level = f.cont_level
               \/ s = "open" /\ h.cont_level = f.cont_level + 1
                    /\ after[f.cont_level].off = <<d, f.magindex>>,
               \A m \in Levels : m < l =>
                 after[m].off = table[m].off /\ SameMatch(after[m], table[m]),
               NEW a, a = after[l], NEW b, b = table[l],
               \/ s = "oob" /\ SameMatch(a, b)
               \/ s = "miss" /\ a.got_match = b.got_match /\ ~a.last_match
               \/ s = "mute" /\ a.got_match /\ a.last_match
               \/ s = "open" /\ a.last_match /\ (~a.got_match => e.type = "clear")
               \/ s = "bad" /\ ~a.last_match
        PROVE  Resumes(d, f)
    <2>1. Walk(h)
      BY <1>4, SettledWalk
    <2>2. ~f.clobbered /\ RowOK(f.rules, f.magindex, f.status, f.cont_level, table[f.cont_level]) =>
              RowOK(f.rules, f.magindex, h.status, f.cont_level, after[f.cont_level])
      BY <1>4, RowAfter
    <2>3. Held(d, h, after)
      BY <1>4, <2>2, SettledHeld
    <2> QED
      BY <1>4, <2>1, <2>3 DEF Resumes, Marked
  <1>5. CASE Become(d, Mark(f, "oob")) /\ li' = table
    <2>1. Marked(f, Mark(f, "oob"), "oob") /\ Mark(f, "oob").cont_level = f.cont_level
      BY <1>1, MarkOf
    <2> QED
      BY <1>4, <1>5, <2>1 DEF SameMatch
  <1>6. CASE Become(d, Mark(f, "miss")) /\ li' = [table EXCEPT ![l].last_match = FALSE]
    <2> DEFINE no == FALSE
               after == [table EXCEPT ![l].last_match = no]
    <2>1. Marked(f, Mark(f, "miss"), "miss") /\ Mark(f, "miss").cont_level = f.cont_level
      BY <1>1, MarkOf
    <2>2. no \in BOOLEAN /\ li' = after
      BY <1>6
    <2> HIDE DEF no, l
    <2>3. /\ \A m \in Levels : after[m].off = table[m].off
          /\ \A m \in Levels : m # l => SameMatch(after[m], table[m])
          /\ after[l].got_match = table[l].got_match /\ after[l].last_match = no
      BY <1>1, <2>2, LastMatchAt
    <2> HIDE DEF after
    <2>4. ~after[l].last_match
      BY <2>3 DEF no
    <2> USE DEF l
    <2>5. \A m \in Levels : m < l =>
            after[m].off = table[m].off /\ SameMatch(after[m], table[m])
      <3>1. \A m \in Levels : m < l => m # l
        BY <1>1, LevelsFacts DEF Levels
      <3> QED
        BY <2>3, <3>1
    <2> QED
      BY <1>4, <1>6, <2>1, <2>2, <2>3, <2>4, <2>5
  <1>7. \A m \in Levels : m < l => yes[m].off = table[m].off /\ SameMatch(yes[m], table[m])
    <2> HIDE DEF yes
    <2>1. \A m \in Levels : m < l => m # l
      BY <1>1, LevelsFacts DEF Levels
    <2> QED
      BY <1>3, <2>1
  <1>8. CASE Become(d, Mark(f, "mute")) /\ muted /\ li' = yes
    <2>1. Marked(f, Mark(f, "mute"), "mute") /\ Mark(f, "mute").cont_level = f.cont_level
      BY <1>1, MarkOf
    <2>2. yes[l].got_match
      BY <1>3, <1>8
    <2> HIDE DEF yes
    <2> QED
      BY <1>3, <1>4, <1>7, <1>8, <2>1, <2>2
  <1>9. CASE ~muted /\ Annotate(d, f, p, yes)
    <2>1. PICK h : Become(d, h) /\ Marked(f, h, "open") /\ h.return = 1
      <3> HIDE DEF yes
      <3> QED
        BY <1>1, <1>9, AnnotateMarks
    <2>2. li' = yes /\ h.return # Running
      BY <1>9, <2>1 DEF Annotate, Running
    <2>3. ~yes[l].got_match => e.type = "clear"
      BY <1>3
    <2> HIDE DEF yes
    <2> QED
      BY <1>3, <1>4, <1>7, <1>9, <2>1, <2>2, <2>3
  <1>10. CASE /\ ~muted
              /\ Become(d, [Mark(g, "open") EXCEPT !.cont_level = l + 1])
              /\ li' = CheckMem(off, l + 1)
    <2> DEFINE h == [Mark(g, "open") EXCEPT !.cont_level = l + 1]
               after == CheckMem(off, l + 1)
    <2>1. Marked(f, h, "open") /\ h.cont_level = l + 1 /\ Become(d, h) /\ li' = after
      BY <1>1, <1>10, OpenedMarks
    <2> HIDE DEF h
    <2>2. /\ \A m \in Levels : m # l => off[m].off = yes[m].off
          /\ \A m \in Levels : SameMatch(off[m], yes[m])
          /\ off[l].off = <<d, f.magindex>>
      <3> DEFINE o == <<d, f.magindex>>
                 t == [yes EXCEPT ![l].off = o]
      <3>1. off = t
        OBVIOUS
      <3> HIDE DEF o, l, yes, off
      <3>2. /\ \A m \in Levels : m # l => t[m].off = yes[m].off
            /\ \A m \in Levels : SameMatch(t[m], yes[m])
            /\ t[l].off = o
        BY <1>1, <1>2 DEF Tables, Rows, SameMatch
      <3> HIDE DEF t
      <3> QED
        BY <3>1, <3>2 DEF o
    <2> HIDE DEF off
    <2>3. /\ \A m \in Levels : after[m].off = off[m].off
          /\ \A m \in Levels : m # l + 1 => SameMatch(after[m], off[m])
      <3> HIDE DEF l
      <3> QED
        BY <1>1, <1>2, CheckMemAt
    <2> HIDE DEF after, yes
    <2>4. \A m \in Levels : m <= l => SameMatch(after[m], yes[m])
      <3>1. \A m \in Levels : m <= l => m # l + 1
        BY <1>1, LevelsFacts DEF Levels
      <3> QED
        BY <2>2, <2>3, <3>1 DEF SameMatch
    <2>5. \A m \in Levels : m < l => m # l /\ m <= l
      BY <1>1, LevelsFacts DEF Levels
    <2>6. l <= l
      BY <1>1, LevelsFacts DEF Levels
    <2>7. \A m \in Levels : m < l =>
            after[m].off = table[m].off /\ SameMatch(after[m], table[m])
      BY <1>7, <2>2, <2>3, <2>4, <2>5 DEF SameMatch
    <2>8. after[l].last_match /\ (~after[l].got_match => e.type = "clear")
      BY <1>1, <1>3, <2>4, <2>6 DEF SameMatch
    <2>9. after[l].off = <<d, f.magindex>>
      BY <1>1, <2>2, <2>3
    <2> QED
      BY <1>4, <1>10, <2>1, <2>7, <2>8, <2>9
  <1>11. CASE Become(d, Mark(g, "bad")) /\ li' = CheckMem(yes, l)
    <2> DEFINE after == CheckMem(yes, l)
    <2>1. Marked(f, Mark(g, "bad"), "bad") /\ Mark(g, "bad").cont_level = f.cont_level
      BY <1>1, OpenedMarks
    <2> HIDE DEF yes, g
    <2>2. /\ \A m \in Levels : after[m].off = yes[m].off
          /\ \A m \in Levels : m # l => SameMatch(after[m], yes[m])
          /\ ~after[l].got_match /\ ~after[l].last_match
      <3> HIDE DEF l
      <3> QED
        BY <1>1, <1>2, CheckMemAt
    <2>3. li' = after
      BY <1>11
    <2> HIDE DEF after
    <2>4. \A m \in Levels : m < l => m # l
      BY <1>1, LevelsFacts DEF Levels
    <2>5. \A m \in Levels : m < l =>
            after[m].off = table[m].off /\ SameMatch(after[m], table[m])
      BY <1>7, <2>2, <2>4 DEF SameMatch
    <2> QED
      BY <1>4, <1>11, <2>1, <2>2, <2>3, <2>5
  <1> QED
    BY <1>5, <1>6, <1>8, <1>9, <1>10, <1>11 DEF SettleContinuation

LEMMA SettleGroupTree ==
  ASSUME NEW f, Stand(f), f.cont_level = 0, NEW d \in Nat, NEW table \in Tables,
         NEW p, NEW verdict \in Statuses \cup {"hit"}, SettleGroup(d, f, p, table, verdict)
  PROVE  Resumes(d, f)
  <1> DEFINE e == f.rules[f.magindex]
             g == Describe(f, e)
             off == [table EXCEPT ![0].off = <<d, f.magindex>>]
  <1>1. OnRule(f) /\ Good(f) /\ 0 \in Levels /\ 1 \in Levels /\ f.magindex \in Nat
    BY StandFacts, LevelsFacts DEF Stand, OnRule
  <1>2. ASSUME NEW h, Good(h), NEW s, Marked(f, h, s), h.cont_level = 0, Become(d, Flush(h))
        PROVE  Resumes(d, f)
    <2>1. Walk(h)
      BY <1>2, GroupWalk
    <2>2. Same(h, Flush(h)) /\ Walk(Flush(h)) /\ Held(d, Flush(h), li')
      BY <1>2, <2>1, FlushWalk
    <2>3. Same(f, Flush(h))
      BY <1>2, <2>2 DEF Marked, Same
    <2> QED
      BY <1>2, <2>2, <2>3 DEF Resumes
  <1>3. CASE ~Matched(e, verdict) /\ Become(d, Flush(Mark(f, verdict)))
    <2>1. verdict \in Statuses
      BY <1>3 DEF Matched
    <2>2. /\ Good(Mark(f, verdict)) /\ Marked(f, Mark(f, verdict), verdict)
          /\ Mark(f, verdict).cont_level = f.cont_level
      BY <1>1, <2>1, MarkGood, MarkOf DEF Keeps
    <2> QED
      BY <1>2, <1>3, <2>2
  <1>4. CASE Annotate(d, f, p, table)
    <2>1. PICK h : Become(d, h) /\ Marked(f, h, "open") /\ h.return = 1
      BY <1>1, <1>4, AnnotateMarks
    <2>2. h.return # Running
      BY <2>1 DEF Running
    <2>3. Walk(h)
      BY <2>1, <2>2, GroupWalk
    <2> QED
      BY <2>1, <2>2, <2>3 DEF Resumes, Held, Marked
  <1>5. CASE /\ Become(d, [Mark(g, "open") EXCEPT !.cont_level = 1])
             /\ li' = CheckMem(off, 1)
    <2> DEFINE h == [Mark(g, "open") EXCEPT !.cont_level = 1]
               after == CheckMem(off, 1)
    <2>1. Marked(f, h, "open") /\ h.cont_level = 1 /\ Become(d, h) /\ li' = after
      BY <1>1, <1>5, OpenedMarks
    <2> HIDE DEF h
    <2>2. off \in Tables /\ off[0].off = <<d, f.magindex>>
      <3> DEFINE o == <<d, f.magindex>>
      <3>1. off \in Tables
        BY <1>1, OffType
      <3>2. [table EXCEPT ![0].off = o][0].off = o
        <4> HIDE DEF o
        <4> QED
          BY <1>1 DEF Tables, Rows
      <3> QED
        BY <3>1, <3>2
    <2> HIDE DEF off
    <2>3. after[0].off = off[0].off
      BY <1>1, <2>2, CheckMemAt
    <2> HIDE DEF after
    <2>4. Walk(h)
      BY <2>1, GroupWalk
    <2>5. Held(d, h, after)
      BY <2>1, <2>2, <2>3, GroupHeld
    <2> QED
      BY <2>1, <2>4, <2>5 DEF Resumes, Marked
  <1>6. CASE Become(d, Flush(Mark(g, "bad")))
    <2>1. Marked(f, Mark(g, "bad"), "bad") /\ Mark(g, "bad").cont_level = f.cont_level
          /\ OnRule(g)
      BY <1>1, OpenedMarks
    <2> HIDE DEF g
    <2>2. Good(Mark(g, "bad"))
      BY <2>1, MarkGood DEF Keeps, OnRule, Statuses
    <2> QED
      BY <1>2, <1>6, <2>1, <2>2
  <1> QED
    BY <1>3, <1>4, <1>5, <1>6 DEF SettleGroup

LEMMA SettleTree ==
  ASSUME NEW f, Stand(f), NEW d \in Nat, NEW table \in Tables,
         Held(d, f, table), Unbarred(f, table), NEW p, NEW verdict \in Statuses \cup {"hit"},
         Settle(d, f, p, table, verdict)
  PROVE  Resumes(d, f)
  BY SettleGroupTree, SettleContinuationTree DEF Settle

LEMMA FailTree ==
  ASSUME NEW d, NEW f, Good(f), Walk(f), Become(d, [f EXCEPT !.return = -1])
  PROVE  Resumes(d, f)
  <1>1. -1 # Running
    BY DEF Running
  <1>2. LET g == [f EXCEPT !.return = -1] IN Same(f, g) /\ Walk(g) /\ Held(d, g, li')
    BY <1>1, ReturnWalk
  <1> QED
    BY <1>2 DEF Resumes

LEMMA FlushTree ==
  ASSUME NEW d, NEW f, Good(f), Walk(f), Become(d, Flush(f))
  PROVE  Resumes(d, f)
  BY FlushWalk DEF Resumes

-----------------------------------------------------------------------------
(* The stack. *)

LEMMA CutTree ==
  ASSUME NEW n, NEW s, StackOK(s, n), NEW table, TreeOK(s, table), NEW d \in 1..Len(s),
         NEW g, NEW after, Walk(g), Held(d, g, after), g.via = s[d].via,
         g.via = "use" => g.saved_li = s[d].saved_li
  PROVE  TreeOK(Cut(s, d, g), after)
  <1> DEFINE b == SubSeq(s, 1, d - 1)
             t == Append(b, g)
  <1>1. s \in Seq(Frames) /\ Len(s) \in Nat /\ d \in Nat
    BY DEF StackOK
  <1>2. b \in Seq(Frames) /\ Len(b) = d - 1 /\ \A i \in 1..(d - 1) : b[i] = s[i]
    BY <1>1
  <1> HIDE DEF b
  <1>3. Len(t) = d /\ (\A i \in 1..(d - 1) : t[i] = s[i]) /\ t[d] = g
    BY <1>1, <1>2
  <1> HIDE DEF t
  <1>4. TableOf(t, d, after) = after
    BY <1>3 DEF TableOf
  <1>5. ASSUME NEW i \in 1..(d - 1)
        PROVE  /\ Walk(t[i]) /\ Held(i, t[i], TableOf(t, i, after))
               /\ Examines(t[i]) /\ Unbarred(t[i], TableOf(t, i, after))
               /\ t[i + 1].via = "indirect" => t[i].clobbered
    <2>1. /\ i \in 1..Len(s) /\ i \in 1..(Len(s) - 1) /\ i # Len(s) /\ i # d
          /\ i + 1 \in 1..d /\ t[i] = s[i]
      BY <1>1, <1>3
    <2>2. /\ Walk(s[i]) /\ Held(i, s[i], TableOf(s, i, table))
          /\ Examines(s[i]) /\ Unbarred(s[i], TableOf(s, i, table))
          /\ s[i + 1].via = "indirect" => s[i].clobbered
      BY <2>1 DEF TreeOK
    <2>3. t[i + 1].via = s[i + 1].via
      <3>1. i + 1 = d \/ i + 1 \in 1..(d - 1)
        BY <1>1
      <3> QED
        BY <1>3, <3>1
    <2>4. CASE t[i + 1].via = "indirect"
      <3>1. t[i].clobbered
        BY <2>1, <2>2, <2>3, <2>4
      <3> QED
        BY <2>1, <2>2, <3>1 DEF Held, Unbarred
    <2>5. CASE t[i + 1].via # "indirect"
      <3>1. t[i + 1].saved_li = s[i + 1].saved_li
        <4>1. CASE i + 1 = d
          <5>1. s[d].via \in {"use", "indirect"}
            <6>1. d # 1
              BY <1>1, <4>1
            <6> QED
              BY <6>1 DEF StackOK
          <5> QED
            BY <1>3, <2>5, <4>1, <5>1
        <4>2. CASE i + 1 # d
          <5>1. i + 1 \in 1..(d - 1)
            BY <1>1, <4>2
          <5> QED
            BY <1>3, <5>1
        <4> QED
          BY <4>1, <4>2
      <3>2. TableOf(t, i, after) = TableOf(s, i, table)
        BY <1>3, <2>1, <3>1 DEF TableOf
      <3> QED
        BY <2>1, <2>2, <2>5, <3>2
    <2> QED
      BY <2>4, <2>5
  <1>6. \A i \in 1..d : i = d \/ i \in 1..(d - 1)
    BY <1>1
  <1>7. \A i \in 1..Len(t) : Walk(t[i]) /\ Held(i, t[i], TableOf(t, i, after))
    BY <1>3, <1>4, <1>5, <1>6
  <1>8. TreeOK(t, after)
    BY <1>3, <1>5, <1>7 DEF TreeOK
  <1> QED
    BY <1>8 DEF Cut, t, b

LEMMA PushTree ==
  ASSUME NEW n, NEW s, StackOK(s, n), NEW table, TreeOK(s, table), NEW g,
         g.via = s[Len(s)].via, g.saved_li = s[Len(s)].saved_li,
         Walk(g), Examines(g), NEW child, Held(Len(s), g, child.saved_li),
         Unbarred(g, child.saved_li), child.via = "indirect" => g.clobbered,
         Walk(child), child.cont_level = 0, g \in Frames, child \in Frames, NEW after
  PROVE  TreeOK(Pushed(s, g, child), after)
  <1> DEFINE d == Len(s)
             b == SubSeq(s, 1, d - 1)
             t == b \o <<g, child>>
  <1>1. s \in Seq(Frames) /\ d \in Nat /\ d >= 1
    BY DEF StackOK
  <1>2. b \in Seq(Frames) /\ Len(b) = d - 1 /\ \A i \in 1..(d - 1) : b[i] = s[i]
    <2>1. d - 1 \in 0..Len(s)
      BY <1>1
    <2>2. \A m \in 0..Len(s) : LET c == SubSeq(s, 1, m)
                               IN c \in Seq(Frames) /\ Len(c) = m /\ \A i \in 1..m : c[i] = s[i]
      BY <1>1
    <2> HIDE DEF d
    <2> QED
      BY <2>1, <2>2
  <1> HIDE DEF b
  <1>3. /\ Len(t) = d + 1 /\ \A i \in 1..(d - 1) : t[i] = s[i]
        /\ t[d] = g /\ t[d + 1] = child
    <2> HIDE DEF d
    <2>1. <<g, child>> \in Seq(Frames) /\ Len(<<g, child>>) = 2
      OBVIOUS
    <2>2. t \in Seq(Frames) /\ Len(t) = d + 1
      BY <1>1, <1>2, <2>1
    <2>3. \A i \in 1..(d + 1) : t[i] = IF i <= d - 1 THEN b[i] ELSE <<g, child>>[i - (d - 1)]
      BY <1>1, <1>2, <2>1
    <2>4. \A i \in 1..(d - 1) : t[i] = s[i]
      BY <1>1, <1>2, <2>3
    <2>5. /\ d \in 1..(d + 1) /\ d + 1 \in 1..(d + 1) /\ ~(d <= d - 1) /\ ~(d + 1 <= d - 1)
          /\ d - (d - 1) = 1 /\ (d + 1) - (d - 1) = 2
      BY <1>1
    <2>6. t[d] = <<g, child>>[d - (d - 1)] /\ t[d + 1] = <<g, child>>[(d + 1) - (d - 1)]
      <3> HIDE DEF t
      <3> QED
        BY <2>3, <2>5
    <2>7. t[d] = g /\ t[d + 1] = child
      <3> DEFINE two == <<g, child>>
      <3>1. two[1] = g /\ two[2] = child
        OBVIOUS
      <3>2. t[d] = two[d - (d - 1)] /\ t[d + 1] = two[(d + 1) - (d - 1)]
        BY <2>6
      <3> HIDE DEF t, two
      <3> QED
        BY <2>5, <3>1, <3>2
    <2> QED
      BY <2>2, <2>4, <2>7
  <1> HIDE DEF t
  <1>4. /\ TableOf(t, d, after) = child.saved_li /\ TableOf(t, d + 1, after) = after
    <2>1. d # d + 1
      BY <1>1
    <2> QED
      BY <1>3, <2>1 DEF TableOf
  <1>5. Held(d + 1, child, after)
    BY DEF Held
  <1>6. g.via = s[d].via /\ g.saved_li = s[d].saved_li
    OBVIOUS
  <1>7. ASSUME NEW i \in 1..(d - 1)
        PROVE  /\ Walk(t[i]) /\ Held(i, t[i], TableOf(t, i, after))
               /\ Examines(t[i]) /\ Unbarred(t[i], TableOf(t, i, after))
               /\ t[i + 1].via = "indirect" => t[i].clobbered
    <2>1. /\ i \in 1..d /\ i # d /\ i # d + 1 /\ t[i] = s[i]
          /\ i + 1 = d \/ i + 1 \in 1..(d - 1)
      BY <1>1, <1>3
    <2>2. /\ Walk(s[i]) /\ Held(i, s[i], TableOf(s, i, table))
          /\ Examines(s[i]) /\ Unbarred(s[i], TableOf(s, i, table))
          /\ s[i + 1].via = "indirect" => s[i].clobbered
      BY <2>1 DEF TreeOK
    <2>3. t[i + 1].via = s[i + 1].via /\ t[i + 1].saved_li = s[i + 1].saved_li
      BY <1>3, <1>6, <2>1
    <2>4. TableOf(t, i, after) = TableOf(s, i, table)
      BY <1>3, <2>1, <2>3 DEF TableOf
    <2> QED
      BY <2>1, <2>2, <2>3, <2>4
  <1>8. \A i \in 1..(d + 1) : i = d \/ i = d + 1 \/ i \in 1..(d - 1)
    BY <1>1
  <1>9. \A i \in 1..d : i = d \/ i \in 1..(d - 1)
    BY <1>1
  <1>10. \A i \in 1..Len(t) : Walk(t[i]) /\ Held(i, t[i], TableOf(t, i, after))
    BY <1>3, <1>4, <1>5, <1>7, <1>8
  <1>11. \A i \in 1..(Len(t) - 1) :
           /\ Examines(t[i]) /\ Unbarred(t[i], TableOf(t, i, after))
           /\ t[i + 1].via = "indirect" => t[i].clobbered
    <2>1. Len(t) - 1 = d
      BY <1>1, <1>3
    <2> QED
      BY <1>3, <1>4, <1>7, <1>9, <2>1, Zenon
  <1>12. TreeOK(t, after)
    BY <1>10, <1>11 DEF TreeOK
  <1> QED
    BY <1>12 DEF Pushed, t, b

\* A call of match() has everything before it.
LEMMA FrameWalk ==
  ASSUME NEW via, NEW rules, NEW list, NEW nonzero
  PROVE  LET f == Frame(via, rules, list, nonzero)
         IN /\ f.cont_level = 0 /\ f.magindex = 0 /\ f.rules = rules
            /\ \A k \in DOMAIN rules : f.status[k] = "unseen"
  BY DEF Frame

LEMMA OuterWalk ==
  ASSUME NEW via, NEW rules, NEW list
  PROVE  LET f == OuterFrame(via, rules, list)
         IN /\ f.cont_level = 0 /\ f.magindex = 0 /\ f.rules = rules
            /\ \A k \in DOMAIN rules : f.status[k] = "unseen"
  BY DEF Frame, OuterFrame

LEMMA FreshWalk ==
  ASSUME NEW f, Grouped(f.rules), f.magindex = 0, f.cont_level = 0,
         \A k \in DOMAIN f.rules : f.status[k] = "unseen"
  PROVE  Walk(f)
  BY DEF Walk

-----------------------------------------------------------------------------
(* The steps: an activation goes on, or it calls another. *)

LEMMA ResumesTree ==
  ASSUME MatchInv, TreeInv, NEW d \in 1..Depth, Resumes(d, stack[d]), UNCHANGED db
  PROVE  TreeInv'
  <1>1. PICK g : stack' = Cut(stack, d, g) /\ Same(stack[d], g) /\ Walk(g) /\ Held(d, g, li')
    BY DEF Resumes, Become, Cut
  <1>2. StackOK(stack, Len(db.lists)) /\ TreeOK(stack, li) /\ d \in 1..Len(stack)
    BY DEF MatchInv, TreeInv, Depth
  <1>3. TreeOK(Cut(stack, d, g), li')
    BY <1>1, <1>2, CutTree DEF Same
  <1> QED
    BY <1>1, <1>3 DEF TreeInv

\* What the running activation keeps.
LEMMA TopTree ==
  ASSUME MatchInv, TreeInv
  PROVE  /\ Depth \in 1..Depth /\ Top = stack[Depth] /\ Good(Top) /\ Depth \in Nat
         /\ Walk(Top) /\ Held(Depth, Top, li)
  <1>1. Depth \in Nat /\ Depth >= 1 /\ Good(Top)
    BY StackTop DEF MatchInv
  <1>2. Depth \in 1..Len(stack)
    BY <1>1 DEF Depth
  <1>3. Walk(Top) /\ Held(Depth, Top, TableOf(stack, Depth, li))
    BY <1>2 DEF TreeInv, TreeOK, Top
  <1> QED
    BY <1>1, <1>2, <1>3 DEF TableOf, Top, Depth

\* The activation that called it.
LEMMA CallerTree ==
  ASSUME MatchInv, TreeInv, Depth > 1
  PROVE  /\ Depth - 1 \in 1..Depth /\ Caller = stack[Depth - 1] /\ Depth - 1 \in Nat
         /\ Stand(Caller) /\ Held(Depth - 1, Caller, Top.saved_li)
         /\ Unbarred(Caller, Top.saved_li)
         /\ Top.via = "indirect" => Caller.clobbered
  <1> DEFINE d == Depth - 1
  <1>1. OnRule(Caller) /\ d \in 1..Depth /\ Depth \in Nat
    BY StackTop DEF MatchInv
  <1>2. d \in 1..(Len(stack) - 1) /\ d \in 1..Len(stack) /\ d + 1 = Depth /\ d # Len(stack)
    BY <1>1 DEF Depth
  <1>3. TableOf(stack, d, li) = Top.saved_li
    BY <1>2 DEF TableOf, Top
  <1>4. /\ Walk(stack[d]) /\ Held(d, stack[d], TableOf(stack, d, li))
        /\ Examines(stack[d]) /\ Unbarred(stack[d], TableOf(stack, d, li))
        /\ stack[d + 1].via = "indirect" => stack[d].clobbered
    BY <1>2 DEF TreeInv, TreeOK
  <1> QED
    BY <1>1, <1>2, <1>3, <1>4 DEF Stand, Caller, Top

\* The running activation calls another.
LEMMA CallsTree ==
  ASSUME MatchInv, TreeInv, NEW g, Stand(g), g.via = Top.via, g.saved_li = Top.saved_li,
         NEW child, child \in Frames,
         stack' = Below \o <<g, child>>, Held(Depth, g, child.saved_li),
         Unbarred(g, child.saved_li), child.via = "indirect" => g.clobbered,
         Walk(child), child.cont_level = 0, UNCHANGED db
  PROVE  TreeInv'
  <1>1. stack' = Pushed(stack, g, child)
    BY DEF Below, Depth, Pushed
  <1>2. StackOK(stack, Len(db.lists)) /\ TreeOK(stack, li)
        /\ g.via = stack[Len(stack)].via /\ g.saved_li = stack[Len(stack)].saved_li
        /\ Held(Len(stack), g, child.saved_li)
    BY DEF MatchInv, TreeInv, Top, Depth
  <1>3. Walk(g) /\ Examines(g) /\ g \in Frames
    BY DEF Stand, OnRule, Good
  <1>4. TreeOK(Pushed(stack, g, child), li')
    BY <1>2, <1>3, PushTree
  <1> QED
    BY <1>1, <1>4 DEF TreeInv

LEMMA SameTrans ==
  ASSUME NEW f, NEW g, NEW h, Same(f, g), Same(g, h)
  PROVE  Same(f, h)
  BY DEF Same

LEMMA ResumesTop ==
  ASSUME MatchInv, TreeInv, NEW f, Same(Top, f), Resumes(Depth, f), UNCHANGED db
  PROVE  TreeInv'
  <1>1. Resumes(Depth, Top)
    BY SameTrans DEF Resumes
  <1> QED
    BY <1>1, ResumesTree, TopTree

LEMMA CallUseTree ==
  ASSUME MatchInv, TreeInv, NEW f, Stand(f), Same(Top, f), Held(Depth, f, li),
         Unbarred(f, li), NEW p, NEW e, CallUse(f, p, e), UNCHANGED db
  PROVE  TreeInv'
  <1>1. CASE Fail(Depth, f)
    <2>1. Good(f) /\ Walk(f)
      BY DEF Stand, OnRule
    <2> QED
      BY <1>1, <2>1, FailTree, ResumesTop DEF Fail
  <1>2. CASE e.name \in DOMAIN db.names
    <2>1. PICK nonzero \in {f.nonzero, TRUE} :
            stack' = Below \o <<f, [Frame("use", db.names[e.name], 0, nonzero) EXCEPT
                                      !.returnval = f.returnval, !.saved_li = li]>>
      BY <1>2 DEF CallUse
    <2> DEFINE new == Frame("use", db.names[e.name], 0, nonzero)
               child == [new EXCEPT !.returnval = f.returnval, !.saved_li = li]
    <2>2. stack' = Below \o <<f, child>>
      BY <2>1
    <2>3. f.nonzero \in BOOLEAN /\ f.returnval \in {0, 1} /\ li \in Tables
      BY DEF Stand, OnRule, Good, Frames, MatchInv, SharedOK
    <2>4. new \in Frames /\ new.via = "use"
      <3>1. db.names[e.name] \in Seq(Rule) /\ nonzero \in BOOLEAN /\ "use" \in Vias /\ 0 \in Nat
        BY <1>2, <2>1, <2>3 DEF MatchInv, DbOK, Vias
      <3> DEFINE rules == db.names[e.name]
      <3> HIDE DEF rules
      <3>2. rules \in Seq(Rule)
        BY <3>1 DEF rules
      <3>3. LET c == Frame("use", rules, 0, nonzero) IN c \in Frames /\ c.via = "use"
        BY <3>1, <3>2, FrameGood
      <3> QED
        BY <3>3 DEF rules
    <2>5. /\ new.cont_level = 0 /\ new.magindex = 0 /\ Grouped(new.rules)
          /\ \A k \in DOMAIN new.rules : new.status[k] = "unseen"
      BY <1>2, FrameWalk DEF TreeInv
    <2> HIDE DEF new
    <2>6. /\ child \in Frames /\ child.via = "use" /\ child.saved_li = li
          /\ child.cont_level = 0 /\ child.magindex = 0 /\ child.rules = new.rules
          /\ child.status = new.status
      BY <2>3, <2>4, <2>5 DEF Frames
    <2> HIDE DEF child
    <2>7. Walk(child)
      BY <2>5, <2>6, FreshWalk
    <2> QED
      BY <2>2, <2>6, <2>7, CallsTree DEF Same
  <1> QED
    BY <1>1, <1>2 DEF CallUse

LEMMA CallIndirectTree ==
  ASSUME MatchInv, TreeInv, NEW f, Stand(f), Same(Top, f), Held(Depth, f, li),
         NEW p \in Prints, CallIndirect(f, p), UNCHANGED db
  PROVE  TreeInv'
  <1>1. CASE GiveUp(Depth, f)
    <2>1. Good(f) /\ Walk(f)
      BY DEF Stand, OnRule
    <2> QED
      BY <1>1, <2>1, FailTree, ResumesTop DEF GiveUp
  <1>2. CASE ~GiveUp(Depth, f)
    <2> DEFINE new == OuterFrame("indirect", db.lists[1], 1)
               child == [new EXCEPT !.saved_out = p.out]
               g == [f EXCEPT !.clobbered = TRUE]
    <2>1. stack' = Below \o <<g, child>>
      BY <1>2, Zenon DEF CallIndirect, OuterFrame
    <2>2. /\ OnRule(g) /\ g.via = f.via /\ g.rules = f.rules /\ g.clobbered
          /\ g.saved_li = f.saved_li /\ g.magindex = f.magindex /\ g.status = f.status
          /\ g.cont_level = f.cont_level /\ g.return = f.return
      <3>1. OnRule(g)
        <4>1. Good(f) /\ TRUE \in BOOLEAN /\ 0 \in {0, 1} /\ 0 \in Values /\ 0 \in Levels
          BY LevelsFacts DEF Stand, OnRule, Values
        <4> QED
          BY <4>1, Updates, Zenon DEF Stand
      <3> QED
        BY <3>1 DEF Stand, OnRule, Good, Frames
    <2> HIDE DEF g
    <2>3. f.clobbered \in BOOLEAN /\ f.magindex \in Nat
      BY DEF Stand, OnRule, Good, Frames
    <2>4. Walk(g)
      <3>1. ASSUME NEW k \in 1..f.magindex PROVE RuleOK(g.rules, g.status, k, g.clobbered)
        <4>1. RuleOK(f.rules, f.status, k, f.clobbered)
          BY DEF Stand, Walk
        <4>2. k \in Nat /\ (f.clobbered => g.clobbered) /\ \A j \in 1..k : g.status[j] = f.status[j]
          BY <2>2, <2>3
        <4> QED
          BY <2>2, <4>1, <4>2, RuleStays
      <3> QED
        BY <2>2, <3>1 DEF Stand, Walk
    <2>5. Stand(g) /\ Held(Depth, g, child.saved_li) /\ Unbarred(g, child.saved_li)
      BY <2>2, <2>4 DEF Stand, Examines, Held, Unbarred
    <2>6. Good(new)
      <3>1. db.lists[1] \in Seq(Rule) /\ "indirect" \in {"top", "indirect"} /\ 1 \in Nat
        BY DEF MatchInv, DbOK
      <3> HIDE DEF child
      <3> QED
        BY <3>1, ListFrame DEF new
    <2>7. /\ new.cont_level = 0 /\ new.magindex = 0 /\ Grouped(new.rules)
          /\ \A k \in DOMAIN new.rules : new.status[k] = "unseen"
      <3>1. Grouped(db.lists[1])
        BY DEF TreeInv, MatchInv, DbOK
      <3> HIDE DEF child
      <3> QED
        BY <3>1, OuterWalk
    <2> HIDE DEF new
    <2>8. /\ child \in Frames /\ child.cont_level = 0 /\ child.magindex = 0
          /\ child.rules = new.rules /\ child.status = new.status
      BY <2>6, <2>7 DEF Good, Frames, Prints
    <2> HIDE DEF child
    <2>9. Walk(child)
      BY <2>7, <2>8, FreshWalk
    <2>10. g.via = Top.via /\ g.saved_li = Top.saved_li
      BY <2>2 DEF Same
    <2> QED
      BY <2>1, <2>2, <2>5, <2>8, <2>9, <2>10, CallsTree
  <1> QED
    BY <1>1, <1>2

LEMMA BarredTree ==
  ASSUME NEW f, Stand(f), f.cont_level > 0, NEW d, NEW table, Held(d, f, table),
         ~f.clobbered => /\ RowOK(f.rules, f.magindex - 1, f.status, f.cont_level,
                                  table[f.cont_level])
                         /\ table[f.cont_level].last_match,
         Become(d, Mark(f, "barred")), li' = table
  PROVE  Resumes(d, f)
  <1> DEFINE k == f.magindex
             rules == f.rules
             g == Mark(f, "barred")
             a == table[f.cont_level]
  <1>1. /\ k \in Nat \ {0} /\ Levelled(rules, k) /\ rules[k].level = f.cont_level
        /\ rules[k].level \in 1..MaxLevel /\ f.return = Running
    BY StandFacts
  <1>2. Marked(f, g, "barred") /\ g.cont_level = f.cont_level
    BY MarkOf DEF Stand
  <1> HIDE DEF g
  <1>3. Changes(f.status, g.status, k, "barred") /\ g.rules = rules
        /\ g.clobbered = f.clobbered /\ g.magindex = k
    BY <1>2 DEF Marked, Same
  <1>4. PathOK(rules, k, f.status, rules[k].level)
    BY <1>1 DEF Stand, Walk
  <1>5. ~f.clobbered => RowOK(rules, k - 1, f.status, rules[k].level, a) /\ a.last_match
    BY <1>1
  <1>6. RuleOK(rules, g.status, k, f.clobbered)
    <2> HIDE DEF k, rules, a
    <2> QED
      BY <1>1, <1>3, <1>4, <1>5, RuleBarred
  <1>7. PathOK(rules, k, g.status, rules[k].level)
    <2> HIDE DEF k, rules
    <2>1. "barred" # "open"
      OBVIOUS
    <2> QED
      BY <1>1, <1>3, <1>4, <2>1, ShutPath
  <1>8. Walk(g)
    BY <1>1, <1>2, <1>3, <1>6, <1>7, MarkedWalk
  <1>9. ~f.clobbered /\ RowOK(f.rules, f.magindex, f.status, f.cont_level, table[f.cont_level]) =>
            RowOK(f.rules, f.magindex, g.status, f.cont_level, table[f.cont_level])
    BY <1>2, RowAfter DEF SameMatch
  <1>10. Held(d, g, table)
    BY <1>2, <1>9, SettledHeld DEF SameMatch
  <1> QED
    BY <1>2, <1>8, <1>10 DEF Resumes, Marked, g

LEMMA ConsultTree ==
  ASSUME MatchInv, TreeInv, NEW f, Stand(f), Same(Top, f), Held(Depth, f, li),
         Unbarred(f, li), NEW p, Consult(f, p, f.rules[f.magindex]), UNCHANGED db
  PROVE  TreeInv'
  <1> DEFINE e == f.rules[f.magindex]
             q == IF e.type = "name" /\ Describes(e) THEN Text(p) ELSE p
  <1>1. PICK verdict \in Verdicts(e) :
          IF verdict = "fail" THEN Fail(Depth, f) \/ GiveUp(Depth, f)
          ELSE Settle(Depth, f, q, li, verdict) /\ UNCHANGED err
    BY DEF Consult
  <1>2. Good(f) /\ Walk(f) /\ Depth \in Nat /\ li \in Tables
    BY TopTree DEF Stand, OnRule, MatchInv, SharedOK
  <1>3. CASE verdict = "fail"
    BY <1>1, <1>2, <1>3, FailTree, ResumesTop DEF Fail, GiveUp
  <1>4. CASE verdict # "fail"
    <2>1. verdict \in Statuses \cup {"hit"}
      <3>1. e.type \in Types
        BY RuleOf DEF Rule, Stand
      <3> HIDE DEF e
      <3> QED
        BY <1>1, <1>4, <3>1 DEF Verdicts, Statuses, Types
    <2>2. Settle(Depth, f, q, li, verdict)
      BY <1>1, <1>4
    <2> HIDE DEF q, e
    <2>3. Resumes(Depth, f)
      BY <1>2, <2>1, <2>2, SettleTree
    <2> QED
      BY <2>3, ResumesTop
  <1> QED
    BY <1>3, <1>4

LEMMA EvaluateTree ==
  ASSUME MatchInv, TreeInv, NEW f, Stand(f), Same(Top, f), Held(Depth, f, li),
         f.cont_level > 0 /\ ~f.clobbered =>
           RowOK(f.rules, f.magindex - 1, f.status, f.cont_level, li[f.cont_level]),
         NEW p \in Prints, Evaluate(f, p), UNCHANGED db
  PROVE  TreeInv'
  <1> DEFINE e == f.rules[f.magindex]
  <1>1. Good(f) /\ Walk(f)
    BY DEF Stand, OnRule
  <1>2. PICK where \in SetOffset(f, e) :
       \/ /\ where = "ok" /\ Barred(f, e)
          /\ Become(Depth, Mark(f, "barred"))
          /\ UNCHANGED <<li, print, count, err>>
       \/ /\ where = "ok" /\ ~Barred(f, e) /\ AtLimit
          /\ Fail(Depth, f)
          /\ UNCHANGED count
       \/ /\ where = "ok" /\ ~Barred(f, e) /\ ~AtLimit
          /\ \/ Consult(f, p, e)
             \/ e.type = "use" /\ CallUse(f, p, e)
             \/ e.type = "indirect" /\ CallIndirect(f, p)
       \/ /\ where = "badsize"
          /\ Become(Depth, f)
          /\ print' = p
          /\ UNCHANGED <<li, count, err>>
       \/ /\ where \in {"far", "error"}
          /\ Become(Depth, Flush(f))
          /\ err' = (err \/ where = "error")
          /\ print' = [p EXCEPT !.flushed = @ \/ f.found_match]
          /\ UNCHANGED <<li, count>>
    BY DEF Evaluate
  <1>3. CASE Barred(f, e) /\ Become(Depth, Mark(f, "barred")) /\ UNCHANGED <<li, print, count, err>>
    <2>1. f.cont_level > 0 /\ li[f.cont_level].last_match
      BY <1>3 DEF Barred
    <2>2. Resumes(Depth, f)
      BY <1>3, <2>1, BarredTree
    <2> QED
      BY <2>2, ResumesTop
  <1>4. CASE Fail(Depth, f)
    BY <1>1, <1>4, FailTree, ResumesTop DEF Fail
  <1>5. ASSUME ~Barred(f, e) PROVE Unbarred(f, li)
    BY <1>5 DEF Barred, Unbarred
  <1>6. CASE ~Barred(f, e) /\ Consult(f, p, e)
    BY <1>5, <1>6, ConsultTree
  <1>7. CASE ~Barred(f, e) /\ CallUse(f, p, e)
    BY <1>5, <1>7, CallUseTree
  <1>8. CASE CallIndirect(f, p)
    BY <1>8, CallIndirectTree
  <1>9. CASE Become(Depth, f) /\ UNCHANGED <<li, count, err>>
    <2>1. Resumes(Depth, f)
      BY <1>1, <1>9 DEF Resumes, Same
    <2> QED
      BY <2>1, ResumesTop
  <1>10. CASE Become(Depth, Flush(f))
    BY <1>1, <1>10, FlushTree, ResumesTop
  <1> QED
    BY <1>2, <1>3, <1>4, <1>6, <1>7, <1>8, <1>9, <1>10

-----------------------------------------------------------------------------
(* The actions. *)

LEMMA AdvanceOf ==
  ASSUME MatchInv, TreeInv, Top.magindex < Len(Top.rules)
  PROVE  LET f == Advance
         IN /\ Good(f) /\ Same(Top, f) /\ f.status = Top.status /\ f.return = Top.return
            /\ f.cont_level = Top.cont_level /\ f.magindex = Top.magindex + 1
            /\ f.magindex \in DOMAIN f.rules /\ f.magindex \in Nat \ {0}
            /\ Levelled(f.rules, f.magindex) /\ Grouped(f.rules) /\ f.rules \in Seq(Rule)
            /\ f.rules[f.magindex].level \in 0..MaxLevel
            /\ f.status[f.magindex] = "unseen"
            /\ \A i \in 1..f.magindex : RuleOK(f.rules, f.status, i, f.clobbered)
            /\ \A j \in DOMAIN f.rules : j > f.magindex => f.status[j] = "unseen"
  <1> DEFINE n == Top.magindex + 1
             f == Advance
  <1>1. Good(Top) /\ Walk(Top)
    BY TopTree
  <1>2. n \in Nat /\ n \in 1..Len(Top.rules) /\ Top.rules \in Seq(Rule) /\ Top.magindex \in Nat
    BY <1>1 DEF Good, Frames
  <1>3. f = [Top EXCEPT !.magindex = n]
    BY DEF Advance
  <1>4. Good(f)
    BY AdvanceGood
  <1> HIDE DEF n
  <1>5. /\ Same(Top, f) /\ f.status = Top.status /\ f.return = Top.return
        /\ f.cont_level = Top.cont_level /\ f.magindex = n
    BY <1>1, <1>3 DEF Good, Frames, Same
  <1> HIDE DEF f
  <1>6. \A j \in 1..n : Top.rules[j] \in Rule
    BY <1>2
  <1>7. Levelled(Top.rules, n) /\ Top.rules[n].level \in 0..MaxLevel
    <2>1. \A e \in Rule : e.level \in 0..MaxLevel /\ e.level \in Nat
      BY LevelsFacts DEF Rule
    <2>2. n \in 1..n
      BY <1>2
    <2> QED
      BY <1>6, <2>1, <2>2, Zenon DEF Levelled
  <1>8. Top.status[n] = "unseen" /\ \A j \in DOMAIN Top.rules : j > n => Top.status[j] = "unseen"
    BY <1>1, <1>2 DEF Walk, n
  <1>9. ASSUME NEW i \in 1..n PROVE RuleOK(Top.rules, Top.status, i, Top.clobbered)
    <2>1. CASE i = n
      BY <1>8, <2>1, RuleUnseen
    <2>2. CASE i # n
      <3>1. i \in 1..Top.magindex
        BY <1>2, <2>2 DEF n
      <3> QED
        BY <1>1, <3>1 DEF Walk
    <2> QED
      BY <2>1, <2>2
  <1>10. n \in Nat \ {0} /\ n \in DOMAIN Top.rules
    BY <1>2
  <1>11. Grouped(Top.rules)
    BY <1>1 DEF Walk
  <1> QED
    BY <1>2, <1>4, <1>5, <1>7, <1>8, <1>9, <1>10, <1>11 DEF f, n, Same

LEMMA NextGroupTree == MatchInv /\ TreeInv /\ NextGroup => TreeInv'
  <1> SUFFICES ASSUME MatchInv, TreeInv, NextGroup PROVE TreeInv'
    OBVIOUS
  <1> DEFINE f == Advance
             e == f.rules[f.magindex]
             p == IF Depth = 1 THEN [print EXCEPT !.group = @ + 1] ELSE print
  <1>1. /\ Top.cont_level = 0 /\ Top.magindex < Len(Top.rules) /\ Top.return = Running
        /\ UNCHANGED db
    BY DEF NextGroup, Call, Active
  <1>2. /\ Good(f) /\ Same(Top, f) /\ f.return = Running /\ f.cont_level = 0
        /\ f.magindex \in DOMAIN f.rules /\ f.magindex \in Nat \ {0}
        /\ Grouped(f.rules) /\ f.status[f.magindex] = "unseen"
        /\ f.rules[f.magindex].level \in 0..MaxLevel
        /\ \A i \in 1..f.magindex : RuleOK(f.rules, f.status, i, f.clobbered)
        /\ \A j \in DOMAIN f.rules : j > f.magindex => f.status[j] = "unseen"
    BY <1>1, AdvanceOf
  <1>3. p \in Prints
    BY DEF MatchInv, SharedOK, Prints
  <1>4. e.selected \/ e.type = "name" => e.level = 0
    BY <1>2 DEF Grouped
  <1>5. \/ (e.selected \/ e.type = "name") /\ Evaluate(f, p)
        \/ Become(Depth, Flush(f))
    BY DEF NextGroup
  <1> HIDE DEF f, p
  <1>6. Walk(f) /\ Held(Depth, f, li)
    BY <1>2 DEF Walk, Held
  <1>7. CASE (e.selected \/ e.type = "name") /\ Evaluate(f, p)
    <2>1. Examines(f)
      BY <1>2, <1>4, <1>7 DEF Examines
    <2>2. OnRule(f)
      BY <1>2, ParamsAssumption DEF OnRule
    <2>3. Stand(f)
      BY <1>6, <2>1, <2>2 DEF Stand
    <2> QED
      BY <1>1, <1>2, <1>3, <1>6, <1>7, <2>3, EvaluateTree
  <1>8. CASE Become(Depth, Flush(f))
    <2>1. Resumes(Depth, f)
      BY <1>2, <1>6, <1>8, FlushTree
    <2> QED
      BY <1>1, <1>2, <2>1, ResumesTop
  <1> QED
    BY <1>5, <1>7, <1>8

LEMMA SkippedTree ==
  ASSUME MatchInv, TreeInv, Top.return = Running, Top.cont_level > 0,
         Top.magindex < Len(Top.rules), Hidden(Advance, Advance.rules[Advance.magindex].level),
         Become(Depth, Mark(Advance, "skipped")), li' = li
  PROVE  Resumes(Depth, Top)
  <1> DEFINE f == Advance
             k == f.magindex
             rules == f.rules
             n == Top.magindex
             c == Top.cont_level
             g == Mark(f, "skipped")
  <1>1. /\ Good(f) /\ Same(Top, f) /\ f.status = Top.status /\ f.return = Running
        /\ f.cont_level = c /\ k = n + 1 /\ k \in DOMAIN rules /\ k \in Nat \ {0}
        /\ Levelled(rules, k) /\ Grouped(rules) /\ rules[k].level \in 0..MaxLevel
        /\ \A i \in 1..k : RuleOK(rules, f.status, i, f.clobbered)
        /\ \A j \in DOMAIN rules : j > k => f.status[j] = "unseen"
    BY AdvanceOf
  <1>2. Walk(Top) /\ Held(Depth, Top, li) /\ n \in Nat /\ c \in Nat
    BY TopTree, LevelsFacts DEF Good, Frames, Levels
  <1>3. rules[k].level > c
    BY <1>1 DEF Hidden
  <1> HIDE DEF f
  <1>4. rules[k].level \in 1..MaxLevel /\ OnRule(f)
    BY <1>1, <1>2, <1>3, LevelsFacts DEF OnRule
  <1>5. /\ Marked(f, g, "skipped") /\ g.cont_level = c /\ g.return = Running
    BY <1>1, <1>4, MarkOf
  <1> HIDE DEF g
  <1>6. /\ Changes(f.status, g.status, k, "skipped") /\ g.rules = rules /\ g.magindex = k
        /\ g.clobbered = f.clobbered /\ Same(Top, g)
    BY <1>1, <1>5 DEF Marked, Same
  <1>7. PathOK(rules, n, f.status, c) /\ Top.rules = rules
    BY <1>1, <1>2 DEF Walk, Same
  <1>8. RuleOK(rules, g.status, k, f.clobbered)
    <2>1. PathOK(rules, k - 1, f.status, c)
      BY <1>1, <1>2, <1>7
    <2> HIDE DEF k, rules, c
    <2> QED
      BY <1>1, <1>2, <1>3, <1>4, <1>6, <2>1, RuleSkipped
  <1>9. PathOK(rules, k, g.status, c)
    <2> HIDE DEF rules, c, n
    <2> QED
      BY <1>1, <1>2, <1>3, <1>6, <1>7, SkipPath
  <1>10. ASSUME ~f.clobbered PROVE TableOK(Depth, rules, k, g.status, c, li)
    <2>1. TableOK(Depth, rules, n, f.status, c, li)
      BY <1>1, <1>2, <1>7, <1>10 DEF Held, Same
    <2> HIDE DEF rules, c, n
    <2> QED
      BY <1>1, <1>2, <1>3, <1>6, <2>1, TableSkip
  <1>11. ASSUME NEW i \in 1..k PROVE RuleOK(rules, g.status, i, f.clobbered)
    <2>1. CASE i = k
      BY <1>8, <2>1
    <2>2. CASE i # k
      <3>1. i \in Nat /\ \A j \in 1..i : g.status[j] = f.status[j]
        BY <1>1, <1>6, <2>2 DEF Changes
      <3>2. RuleOK(rules, f.status, i, f.clobbered)
        BY <1>1
      <3> HIDE DEF k, rules
      <3> QED
        BY <3>1, <3>2, RuleStays
    <2> QED
      BY <2>1, <2>2
  <1>12. \A j \in DOMAIN rules : j > k => g.status[j] = "unseen"
    BY <1>1, <1>5 DEF Marked
  <1>13. Walk(g)
    BY <1>1, <1>5, <1>6, <1>9, <1>11, <1>12 DEF Walk
  <1>14. Held(Depth, g, li)
    BY <1>5, <1>6, <1>10 DEF Held
  <1> QED
    BY <1>6, <1>13, <1>14 DEF Resumes, f, g

\* The running activation on its next continuation, at the level of that.
LEMMA ContinuesTree ==
  ASSUME MatchInv, TreeInv, Top.return = Running, Top.cont_level > 0,
         Top.magindex < Len(Top.rules),
         ~Hidden(Advance, Advance.rules[Advance.magindex].level),
         Advance.rules[Advance.magindex].level # 0
  PROVE  LET f == [Advance EXCEPT !.cont_level = Advance.rules[Advance.magindex].level]
         IN /\ Stand(f) /\ Same(Top, f) /\ Held(Depth, f, li)
            /\ ~f.clobbered =>
                 RowOK(f.rules, f.magindex - 1, f.status, f.cont_level, li[f.cont_level])
  <1> DEFINE a == Advance
             k == a.magindex
             rules == a.rules
             n == Top.magindex
             c == Top.cont_level
             L == rules[k].level
             f == [a EXCEPT !.cont_level = L]
  <1>1. /\ Good(a) /\ Same(Top, a) /\ a.status = Top.status /\ a.return = Running
        /\ a.cont_level = c /\ k = n + 1 /\ k \in DOMAIN rules /\ k \in Nat \ {0}
        /\ Levelled(rules, k) /\ Grouped(rules) /\ L \in 0..MaxLevel
        /\ a.status[k] = "unseen"
        /\ \A i \in 1..k : RuleOK(rules, a.status, i, a.clobbered)
        /\ \A j \in DOMAIN rules : j > k => a.status[j] = "unseen"
    BY AdvanceOf
  <1>2. Walk(Top) /\ Held(Depth, Top, li) /\ n \in Nat /\ c \in Nat
    BY TopTree, LevelsFacts DEF Good, Frames, Levels
  <1>3. L <= c /\ L \in 1..MaxLevel /\ L \in Levels
    BY <1>1, <1>2, LevelsFacts DEF Hidden
  <1> HIDE DEF a
  <1>4. PathOK(rules, n, a.status, c) /\ Top.rules = rules
    BY <1>1, <1>2 DEF Walk, Same
  <1>5. PathOK(rules, k, a.status, L)
    <2> HIDE DEF rules, c, n
    <2> QED
      BY <1>1, <1>2, <1>3, <1>4, AdvancePath
  <1>6. ASSUME ~a.clobbered
        PROVE  /\ TableOK(Depth, rules, k, a.status, L, li)
               /\ RowOK(rules, k - 1, a.status, L, li[L])
    <2>1. TableOK(Depth, rules, n, a.status, c, li)
      BY <1>1, <1>2, <1>4, <1>6 DEF Held, Same
    <2>2. TableOK(Depth, rules, k, a.status, L, li)
      <3> HIDE DEF rules, c, n
      <3> QED
        BY <1>1, <1>2, <1>3, <2>1, TableAdvance
    <2>3. RowOK(rules, n, a.status, L, li[L]) /\ k - 1 = n
      BY <1>1, <1>2, <1>3, <2>1 DEF TableOK
    <2> QED
      BY <2>2, <2>3
  <1>7. /\ Good(f) /\ Same(a, f) /\ f.magindex = k /\ f.rules = rules /\ f.status = a.status
        /\ f.return = a.return /\ f.cont_level = L /\ f.clobbered = a.clobbered
    <2> HIDE DEF L
    <2> QED
      BY <1>1, <1>3 DEF Good, Frames, Same
  <1> HIDE DEF f
  <1>8. Walk(f)
    BY <1>1, <1>5, <1>7 DEF Walk
  <1>9. Stand(f)
    BY <1>1, <1>3, <1>7, <1>8 DEF Stand, OnRule, Examines
  <1>10. Held(Depth, f, li)
    BY <1>6, <1>7 DEF Held
  <1>11. Same(Top, f)
    BY <1>1, <1>7, SameTrans
  <1> QED
    BY <1>6, <1>7, <1>9, <1>10, <1>11 DEF f, a

LEMMA NextContinuationTree == MatchInv /\ TreeInv /\ NextContinuation => TreeInv'
  <1> SUFFICES ASSUME MatchInv, TreeInv, NextContinuation PROVE TreeInv'
    OBVIOUS
  <1> DEFINE level == Advance.rules[Advance.magindex].level
             f == [Advance EXCEPT !.cont_level = level]
  <1>1. /\ Top.cont_level > 0 /\ Top.magindex < Len(Top.rules) /\ Top.return = Running
        /\ UNCHANGED db /\ print \in Prints
    BY DEF NextContinuation, Call, Active, HasContinuation, MatchInv, SharedOK
  <1>2. level # 0
    <2>1. Advance.rules = Top.rules /\ Advance.magindex = Top.magindex + 1
      BY <1>1, AdvanceOf DEF Same
    <2> QED
      BY <2>1 DEF NextContinuation, HasContinuation
  <1>3. CASE Hidden(Advance, level) /\ Become(Depth, Mark(Advance, "skipped")) /\ li' = li
    <2>1. Resumes(Depth, Top)
      BY <1>1, <1>3, SkippedTree
    <2> QED
      BY <1>1, <2>1, ResumesTree, TopTree
  <1>4. CASE ~Hidden(Advance, level) /\ Evaluate(f, print)
    <2>1. /\ Stand(f) /\ Same(Top, f) /\ Held(Depth, f, li)
          /\ ~f.clobbered =>
               RowOK(f.rules, f.magindex - 1, f.status, f.cont_level, li[f.cont_level])
      BY <1>1, <1>2, <1>4, ContinuesTree
    <2> HIDE DEF f
    <2> QED
      BY <1>1, <1>4, <2>1, EvaluateTree
  <1>5. \/ Hidden(Advance, level) /\ Become(Depth, Mark(Advance, "skipped")) /\ li' = li
        \/ ~Hidden(Advance, level) /\ Evaluate(f, print)
    BY DEF NextContinuation
  <1> QED
    BY <1>3, <1>4, <1>5

LEMMA EndGroupTree == MatchInv /\ TreeInv /\ EndGroup => TreeInv'
  <1> SUFFICES ASSUME MatchInv, TreeInv, EndGroup PROVE TreeInv'
    OBVIOUS
  <1> DEFINE v == IF StopsHere(Top) THEN Top.returnval ELSE Running
             g == [Top EXCEPT !.cont_level = 0, !.return = v]
  <1>1. Become(Depth, g) /\ UNCHANGED db
    BY DEF EndGroup, CloseGroup, Call
  <1>2. Good(Top) /\ Walk(Top)
    BY TopTree
  <1> HIDE DEF v
  <1>3. Same(Top, g) /\ g.status = Top.status /\ g.magindex = Top.magindex /\ g.cont_level = 0
    BY <1>2 DEF Good, Frames, Same
  <1> HIDE DEF g
  <1>4. Walk(g) /\ Held(Depth, g, li')
    BY <1>2, <1>3 DEF Walk, Same, Held
  <1>5. Resumes(Depth, Top)
    BY <1>1, <1>3, <1>4 DEF Resumes
  <1> QED
    BY <1>1, <1>5, ResumesTree, TopTree

LEMMA EndListTree == MatchInv /\ TreeInv /\ EndList => TreeInv'
  <1> SUFFICES ASSUME MatchInv, TreeInv, EndList PROVE TreeInv'
    OBVIOUS
  <1> DEFINE v == Top.returnval
  <1>1. Become(Depth, [Top EXCEPT !.return = v]) /\ UNCHANGED db
    BY DEF EndList, Call
  <1>2. Good(Top) /\ Walk(Top) /\ v # Running
    BY TopTree DEF Good, Frames, Running
  <1> HIDE DEF v
  <1>3. LET g == [Top EXCEPT !.return = v] IN Same(Top, g) /\ Walk(g) /\ Held(Depth, g, li')
    BY <1>2, ReturnWalk
  <1>4. Resumes(Depth, Top)
    BY <1>1, <1>3 DEF Resumes
  <1> QED
    BY <1>1, <1>4, ResumesTree, TopTree

\* Another list of the database.
LEMMA NextListTree ==
  ASSUME MatchInv, TreeInv, NEW k \in DOMAIN db.lists, NEW via,
         NEW o, NEW g, g = OuterFrame(via, db.lists[k], k)
                  \/ g = [OuterFrame(via, db.lists[k], k) EXCEPT !.saved_out = o],
         via = Top.via, via \in {"top", "indirect"}, k \in Nat,
         Become(Depth, g), UNCHANGED db
  PROVE  TreeInv'
  <1> DEFINE new == OuterFrame(via, db.lists[k], k)
             rules == db.lists[k]
  <1>1. Grouped(rules) /\ rules \in Seq(Rule)
    BY DEF TreeInv, MatchInv, DbOK
  <1>2. Good(new) /\ new.via = via
    <2> HIDE DEF rules
    <2>1. LET f == OuterFrame(via, rules, k) IN Good(f) /\ f.via = via /\ f.list = k
      BY <1>1, ListFrame
    <2> QED
      BY <2>1 DEF rules
  <1>3. /\ new.cont_level = 0 /\ new.magindex = 0 /\ Grouped(new.rules)
        /\ \A i \in DOMAIN new.rules : new.status[i] = "unseen"
    BY <1>1, OuterWalk
  <1> HIDE DEF new
  <1>4. /\ g.cont_level = 0 /\ g.magindex = 0 /\ g.rules = new.rules /\ g.status = new.status
        /\ g.via = via
    <2>1. CASE g = new
      BY <1>2, <1>3, <2>1
    <2>2. CASE g = [new EXCEPT !.saved_out = o]
      BY <1>2, <1>3, <2>2 DEF Good, Frames
    <2> QED
      BY <2>1, <2>2 DEF new
  <1>5. Walk(g) /\ Held(Depth, g, li')
    BY <1>3, <1>4, FreshWalk DEF Held
  <1>6. StackOK(stack, Len(db.lists)) /\ TreeOK(stack, li) /\ Depth \in 1..Len(stack)
        /\ stack' = Cut(stack, Depth, g) /\ g.via = stack[Depth].via /\ g.via # "use"
    BY <1>4, TopTree DEF MatchInv, TreeInv, Depth, Top, Become, Cut
  <1>7. TreeOK(Cut(stack, Depth, g), li')
    BY <1>5, <1>6, CutTree
  <1> QED
    BY <1>6, <1>7 DEF TreeInv

LEMMA ReturnToSoftmagicTree == MatchInv /\ TreeInv /\ ReturnToSoftmagic => TreeInv'
  <1> SUFFICES ASSUME MatchInv, TreeInv, ReturnToSoftmagic PROVE TreeInv'
    OBVIOUS
  <1>1. Good(Top) /\ Depth = 1 /\ UNCHANGED db /\ Top.via = "top" /\ Top.list <= Len(db.lists)
    BY StackTop DEF MatchInv, ReturnToSoftmagic
  <1>2. CASE UNCHANGED <<stack, li>>
    BY <1>1, <1>2 DEF TreeInv
  <1>3. CASE /\ Top.list # Len(db.lists)
             /\ stack' = <<Frame("top", db.lists[Top.list + 1], Top.list + 1, FALSE)>>
    <2> DEFINE k == Top.list + 1
               g == OuterFrame("top", db.lists[k], k)
    <2>1. k \in DOMAIN db.lists /\ k \in Nat
      BY <1>1, <1>3 DEF Good, Frames, MatchInv, DbOK
    <2>2. stack' = <<g>>
      BY <1>3 DEF OuterFrame
    <2>3. Become(Depth, g)
      <3> HIDE DEF g
      <3>1. SubSeq(stack, 1, 0) = << >>
        BY SubSeqEmpty
      <3>2. Append(<< >>, g) = <<g>>
        OBVIOUS
      <3>3. Depth - 1 = 0
        BY <1>1
      <3> QED
        BY <2>2, <3>1, <3>2, <3>3 DEF Become
    <2>4. "top" = Top.via /\ "top" \in {"top", "indirect"}
      BY <1>1
    <2> HIDE DEF k
    <2> QED
      BY <1>1, <2>1, <2>3, <2>4, NextListTree
  <1> QED
    BY <1>2, <1>3 DEF ReturnToSoftmagic

\* The caller, with the values that the activation it called leaves it.
LEMMA CallerStands ==
  ASSUME MatchInv, TreeInv, Depth > 1, NEW b \in BOOLEAN, NEW r \in {0, 1}
  PROVE  LET f == [Caller EXCEPT !.found_match = b, !.returnval = r]
         IN /\ Stand(f) /\ Same(Caller, f) /\ Held(Depth - 1, f, Top.saved_li)
            /\ Unbarred(f, Top.saved_li) /\ (Top.via = "indirect" => f.clobbered)
  <1> DEFINE f == [Caller EXCEPT !.found_match = b, !.returnval = r]
  <1>1. /\ Stand(Caller) /\ Held(Depth - 1, Caller, Top.saved_li)
        /\ Unbarred(Caller, Top.saved_li)
        /\ Top.via = "indirect" => Caller.clobbered
    BY CallerTree
  <1>2. OnRule(f)
    BY CallerGood, Zenon DEF Values
  <1>3. /\ Same(Caller, f) /\ f.magindex = Caller.magindex /\ f.status = Caller.status
        /\ f.cont_level = Caller.cont_level /\ f.return = Caller.return
    BY <1>1 DEF Stand, OnRule, Good, Frames, Same
  <1> HIDE DEF f
  <1>4. Stand(f) /\ Held(Depth - 1, f, Top.saved_li) /\ Unbarred(f, Top.saved_li)
    BY <1>1, <1>2, <1>3, SameStand
  <1> QED
    BY <1>1, <1>3, <1>4 DEF f, Same

LEMMA ResumesCaller ==
  ASSUME MatchInv, TreeInv, Depth > 1, NEW f, Same(Caller, f), Resumes(Depth - 1, f),
         UNCHANGED db
  PROVE  TreeInv'
  <1>1. Resumes(Depth - 1, Caller)
    BY SameTrans DEF Resumes
  <1> QED
    BY <1>1, ResumesTree, CallerTree

LEMMA ReturnFromUseTree == MatchInv /\ TreeInv /\ ReturnFromUse => TreeInv'
  <1> SUFFICES ASSUME MatchInv, TreeInv, ReturnFromUse PROVE TreeInv'
    OBVIOUS
  <1> DEFINE b == Caller.found_match \/ Top.found_match
             r == Top.returnval
             f == [Caller EXCEPT !.found_match = b, !.returnval = r]
             verdict == IF Top.return = 0 /\ ~f.found_match THEN "oob"
                        ELSE IF Top.found_match THEN "hit" ELSE "miss"
  <1>1. Good(Top) /\ Depth > 1 /\ Top.via = "use" /\ UNCHANGED db
    BY StackTop DEF MatchInv, ReturnFromUse, Call
  <1>2. RestoreCont(Top) = Top.saved_li /\ Top.saved_li \in Tables
    BY <1>1 DEF RestoreCont, Good
  <1>3. /\ Stand(f) /\ Same(Caller, f) /\ Held(Depth - 1, f, Top.saved_li)
        /\ Unbarred(f, Top.saved_li)
    <2>1. OnRule(Caller)
      BY <1>1, StackTop DEF MatchInv
    <2>2. b \in BOOLEAN /\ r \in {0, 1}
      BY <1>1, <2>1 DEF OnRule, Good, Frames
    <2> HIDE DEF b, r
    <2> QED
      BY <1>1, <2>2, CallerStands, Zenon
  <1>4. verdict \in Statuses \cup {"hit"}
    BY DEF Statuses
  <1>5. \/ Become(Depth - 1, [f EXCEPT !.return = -1])
        \/ Settle(Depth - 1, f, print, RestoreCont(Top), verdict)
    BY DEF ReturnFromUse
  <1> HIDE DEF f, verdict
  <1>6. Good(f) /\ Walk(f) /\ Depth - 1 \in Nat
    BY <1>1, <1>3, CallerTree DEF Stand, OnRule
  <1>7. Resumes(Depth - 1, f)
    <2>1. CASE Become(Depth - 1, [f EXCEPT !.return = -1])
      <3>1. -1 # Running
        BY DEF Running
      <3>2. LET g == [f EXCEPT !.return = -1]
            IN Same(f, g) /\ Walk(g) /\ Held(Depth - 1, g, li')
        BY <1>6, <3>1, ReturnWalk
      <3> QED
        BY <2>1, <3>2 DEF Resumes
    <2>2. CASE Settle(Depth - 1, f, print, Top.saved_li, verdict)
      BY <1>2, <1>3, <1>4, <1>6, <2>2, SettleTree
    <2> QED
      BY <1>2, <1>5, <2>1, <2>2
  <1> QED
    BY <1>1, <1>3, <1>7, ResumesCaller

LEMMA ReturnFromIndirectTree == MatchInv /\ TreeInv /\ ReturnFromIndirect => TreeInv'
  <1> SUFFICES ASSUME MatchInv, TreeInv, ReturnFromIndirect PROVE TreeInv'
    OBVIOUS
  <1> DEFINE n == Len(db.lists)
             caller == [Caller EXCEPT !.found_match = TRUE, !.returnval = 1]
             restored == [print EXCEPT !.out = Top.saved_out]
             inner == IF print.out = << >> THEN <<Null>> ELSE print.out
             described == IF Describes(caller.rules[caller.magindex]) THEN Text(restored)
                          ELSE restored
             appended == [described EXCEPT !.out = @ \o inner]
  <1>1. Good(Top) /\ Depth > 1 /\ Top.via = "indirect" /\ UNCHANGED db /\ li \in Tables
    BY StackTop DEF MatchInv, ReturnFromIndirect, Call, SharedOK
  <1>2. /\ Stand(Caller) /\ Caller.clobbered /\ Depth - 1 \in Nat
    BY <1>1, CallerTree
  <1>3. Good(Caller) /\ Walk(Caller) /\ Same(Caller, Caller)
    BY <1>2 DEF Stand, OnRule, Same
  <1>4. ASSUME NEW f, Stand(f), f.clobbered, Same(Caller, f), NEW q,
               NEW verdict \in Statuses \cup {"hit"}, Settle(Depth - 1, f, q, li, verdict)
        PROVE  TreeInv'
    <2>1. Held(Depth - 1, f, li) /\ Unbarred(f, li)
      BY <1>4 DEF Held, Unbarred
    <2>2. Resumes(Depth - 1, f)
      BY <1>1, <1>2, <1>4, <2>1, SettleTree
    <2> QED
      BY <1>1, <1>4, <2>2, ResumesCaller
  <1>5. CASE /\ Top.list < n
             /\ Become(Depth, [Frame("indirect", db.lists[Top.list + 1], Top.list + 1, FALSE)
                                 EXCEPT !.saved_out = Top.saved_out])
    <2> DEFINE k == Top.list + 1
               o == Top.saved_out
               g == [OuterFrame("indirect", db.lists[k], k) EXCEPT !.saved_out = o]
    <2>1. Become(Depth, g)
      BY <1>5 DEF OuterFrame
    <2>2. k \in DOMAIN db.lists /\ k \in Nat
      BY <1>1, <1>5 DEF Good, Frames, MatchInv, DbOK
    <2> HIDE DEF k, o
    <2>3. "indirect" = Top.via /\ "indirect" \in {"top", "indirect"}
      BY <1>1
    <2> QED
      BY <1>1, <2>1, <2>2, <2>3, NextListTree
  <1>6. CASE Settle(Depth - 1, Caller, restored, li, "oob")
    <2>1. "oob" \in Statuses \cup {"hit"}
      BY DEF Statuses
    <2> HIDE DEF restored
    <2> QED
      BY <1>2, <1>3, <1>4, <1>6, <2>1
  <1>7. CASE Settle(Depth - 1, caller, appended, li, "hit")
    <2>1. Stand(caller) /\ Same(Caller, caller) /\ caller.clobbered
      <3> DEFINE yes == TRUE
      <3>1. yes \in BOOLEAN /\ 1 \in {0, 1}
        OBVIOUS
      <3> HIDE DEF yes
      <3>2. LET f == [Caller EXCEPT !.found_match = yes, !.returnval = 1]
            IN Stand(f) /\ Same(Caller, f) /\ (Top.via = "indirect" => f.clobbered)
        BY <1>1, <3>1, CallerStands, Zenon
      <3> QED
        BY <1>1, <3>2, Zenon DEF yes
    <2>2. "hit" \in Statuses \cup {"hit"}
      OBVIOUS
    <2> HIDE DEF caller, appended
    <2> QED
      BY <1>4, <1>7, <2>1, <2>2
  <1>8. CASE Become(Depth - 1, [Caller EXCEPT !.return = -1])
    BY <1>1, <1>3, <1>8, FailTree, ResumesCaller
  <1> QED
    BY <1>5, <1>6, <1>7, <1>8 DEF ReturnFromIndirect

LEMMA StepTree == MatchInv /\ TreeInv /\ [Next]_vars => TreeInv'
  <1>1. TreeInv /\ UNCHANGED vars => TreeInv'
    BY DEF TreeInv, vars
  <1> QED
    BY <1>1, NextGroupTree, NextContinuationTree, EndGroupTree, EndListTree,
       ReturnToSoftmagicTree, ReturnFromUseTree, ReturnFromIndirectTree DEF Next, Done

LEMMA InitTree == Init => TreeInv
  <1> SUFFICES ASSUME Init PROVE TreeInv
    OBVIOUS
  <1> DEFINE f == OuterFrame("top", db.lists[1], 1)
  <1>1. /\ \A n \in DOMAIN db.lists : Grouped(db.lists[n])
        /\ \A n \in DOMAIN db.names : Grouped(db.names[n])
    BY GroupsAssumption DEF Init
  <1>2. db.lists # << >> /\ db.lists \in Seq(Seq(Rule))
    BY SetupsAssumption DEF Init
  <1>3. stack = <<f>>
    BY DEF Init, OuterFrame
  <1>4. /\ f.cont_level = 0 /\ f.magindex = 0 /\ f.rules = db.lists[1]
        /\ \A k \in DOMAIN f.rules : f.status[k] = "unseen"
    BY OuterWalk
  <1>5. Grouped(db.lists[1])
    BY <1>1, <1>2
  <1> HIDE DEF f
  <1>6. Walk(f) /\ Held(1, f, li)
    BY <1>4, <1>5, FreshWalk DEF Held
  <1>7. Len(stack) = 1 /\ stack[1] = f /\ TableOf(stack, 1, li) = li
    BY <1>3 DEF TableOf
  <1>8. TreeOK(stack, li)
    <2>1. \A d \in 1..Len(stack) : d = 1
      BY <1>7
    <2>2. \A d \in 1..(Len(stack) - 1) : FALSE
      BY <1>7
    <2> QED
      BY <1>6, <1>7, <2>1, <2>2 DEF TreeOK
  <1> QED
    BY <1>1, <1>8 DEF TreeInv

LEMMA AlwaysTree == Spec => [](MatchInv /\ TreeInv)
  <1>1. Init => MatchInv /\ TreeInv
    BY InitInv, InitTree
  <1>2. MatchInv /\ TreeInv /\ [Next]_vars => (MatchInv /\ TreeInv)'
    BY StepInv, StepTree
  <1> QED
    BY <1>1, <1>2, PTL DEF Spec

\* A continuation has a parent.
LEMMA ParentNearest ==
  ASSUME NEW rules \in Seq(Rule), Grouped(rules), NEW k \in DOMAIN rules,
         rules[k].level > 0
  PROVE  Nearest(rules, k - 1, rules[k].level, Parent(rules, k))
  <1> DEFINE l == rules[k].level
             S == {j \in 1..(k - 1) : rules[j].level < l}
  <1>1. /\ k \in Nat \ {0} /\ 1 \in DOMAIN rules
        /\ \A j \in 1..k : j \in DOMAIN rules
    OBVIOUS
  <1>2. \A e \in Rule : e.level \in Nat
    BY ParamsAssumption DEF Rule
  <1>3. \A j \in DOMAIN rules : rules[j] \in Rule
    OBVIOUS
  <1>4. k \in Nat \ {0} /\ 1 \in DOMAIN rules /\ l \in Nat
        /\ \A j \in 1..k : j \in DOMAIN rules /\ rules[j].level \in Nat
    BY <1>1, <1>2, <1>3
  <1>5. k # 1 /\ rules[1].level = 0
    BY <1>4 DEF Grouped
  <1>6. 1 \in S /\ k - 1 \in Nat /\ S \in SUBSET (0..(k - 1))
    BY <1>4, <1>5
  <1> HIDE DEF S
  <1>7. PICK i \in S : \A j \in S : j <= i
    BY <1>6, Greatest
  <1>8. i \in 1..(k - 1) /\ rules[i].level < l
    BY <1>7 DEF S
  <1>9. ASSUME NEW m \in (i + 1)..(k - 1) PROVE rules[m].level >= l
    <2>1. m \in 1..(k - 1) /\ m \in 1..k /\ ~(m <= i)
      BY <1>4, <1>8
    <2>2. m \notin S
      BY <1>7, <2>1
    <2>3. ~(rules[m].level < l)
      BY <2>1, <2>2 DEF S
    <2> QED
      BY <1>4, <2>1, <2>3
  <1>10. \E j \in 1..(k - 1) : /\ rules[j].level < rules[k].level
                              /\ \A m \in (j + 1)..(k - 1) : rules[m].level >= rules[k].level
    BY <1>8, <1>9
  <1>11. /\ Parent(rules, k) \in 1..(k - 1) /\ rules[Parent(rules, k)].level < rules[k].level
        /\ \A m \in (Parent(rules, k) + 1)..(k - 1) : rules[m].level >= rules[k].level
    BY <1>10, Zenon DEF Parent
  <1> QED
    BY <1>11 DEF Nearest

\* What the invariants say of the continuations that an activation has passed.
LEMMA PastOK ==
  ASSUME MatchInv, TreeInv, NEW d \in DOMAIN stack, NEW k \in Continuations(stack[d])
  PROVE  /\ k \in DOMAIN stack[d].rules /\ stack[d].rules[k].level > 0
         /\ stack[d].rules \in Seq(Rule) /\ Grouped(stack[d].rules)
         /\ FollowsParent(stack[d].rules, stack[d].status, k)
         /\ ~stack[d].clobbered => /\ LastResort(stack[d].rules, stack[d].status, k)
                                   /\ OneBranch(stack[d].rules, stack[d].status, k)
  <1>1. d \in 1..Len(stack) /\ Good(stack[d])
    BY DEF MatchInv, StackOK
  <1>2. Walk(stack[d])
    BY <1>1 DEF TreeInv, TreeOK
  <1>3. k \in 1..stack[d].magindex /\ stack[d].rules[k].level > 0
    BY DEF Continuations
  <1>4. RuleOK(stack[d].rules, stack[d].status, k, stack[d].clobbered)
    BY <1>2, <1>3 DEF Walk
  <1>5. k \in DOMAIN stack[d].rules /\ stack[d].rules \in Seq(Rule)
    BY <1>1, <1>3 DEF Good, Frames
  <1> QED
    BY <1>2, <1>3, <1>4, <1>5 DEF RuleOK, Walk

\* In every database, with every verdict on its rules, a continuation is examined when
\* the rule it belongs to matched and only then: the level up to which match() goes on
\* says the same as the tree of the levels.
THEOREM ParentsDecide == Spec => []ContinuationsFollowParents
  <1>1. MatchInv /\ TreeInv => ContinuationsFollowParents
    <2> SUFFICES ASSUME MatchInv, TreeInv, NEW d \in DOMAIN stack,
                        NEW k \in Continuations(stack[d])
                 PROVE  LET f == stack[d]
                            parent == Parent(f.rules, k)
                            examined == f.status[k] \notin {"unseen", "skipped"}
                        IN /\ examined => f.status[parent] = "open"
                           /\ f.status[k] = "skipped" =>
                                \/ f.status[parent] # "open"
                                \/ f.rules[k].level > f.rules[parent].level + 1
      BY DEF ContinuationsFollowParents
    <2> DEFINE rules == stack[d].rules
               status == stack[d].status
               parent == Parent(rules, k)
    <2>1. Nearest(rules, k - 1, rules[k].level, parent)
      BY PastOK, ParentNearest
    <2>2. parent \in 1..(k - 1) /\ FollowsParent(rules, status, k)
      BY <2>1, PastOK DEF Nearest
    <2> HIDE DEF rules, status, parent
    <2>3. /\ status[k] \notin {"unseen", "skipped"} => status[parent] = "open"
          /\ status[k] = "skipped" => \/ status[parent] # "open"
                                      \/ rules[k].level > rules[parent].level + 1
      BY <2>1, <2>2 DEF FollowsParent
    <2> QED
      BY <2>3 DEF rules, status, parent
  <1> QED
    BY <1>1, AlwaysTree, PTL

\* A default continuation applies after a sibling that matched only when a clear rule,
\* or a sibling whose match ends outside of the input, came between, whatever the rules
\* nested under them, or called by them, did to the level table.
THEOREM DefaultsComeLast == Spec => []DefaultIsLastResort
  <1>1. MatchInv /\ TreeInv => DefaultIsLastResort
    <2>1. ASSUME MatchInv, TreeInv, NEW d \in DOMAIN stack,
                 NEW k \in Continuations(stack[d]),
                 stack[d].rules[k].type = "default", stack[d].status[k] = "open",
                 ~stack[d].clobbered,
                 NEW j \in Siblings(stack[d].rules, k),
                 stack[d].status[j] = "open", stack[d].rules[j].type # "clear"
          PROVE  \E m \in Siblings(stack[d].rules, k) :
                   m > j /\ \/ stack[d].status[m] = "bad"
                            \/ /\ stack[d].rules[m].type = "clear"
                               /\ stack[d].status[m] = "open"
      <3>1. LastResort(stack[d].rules, stack[d].status, k)
        BY <2>1, PastOK
      <3> QED
        BY <2>1, <3>1, Zenon DEF LastResort
    <2> QED
      BY <2>1 DEF DefaultIsLastResort
  <1> QED
    BY <1>1, AlwaysTree, PTL

\* Of an if, its elifs and its else, at most one applies, and the next is examined when
\* the if does not match, in every database and whatever stands between them.
THEOREM BranchesExclude == Spec => []OneBranchApplies
  <1>1. MatchInv /\ TreeInv => OneBranchApplies
    <2> SUFFICES ASSUME MatchInv, TreeInv, NEW d \in DOMAIN stack,
                        NEW k \in Continuations(stack[d]),
                        NEW j \in Siblings(stack[d].rules, k),
                        Chained(stack[d].rules, j, k), ~stack[d].clobbered
                 PROVE  /\ ~ /\ stack[d].status[j] \in {"open", "mute"}
                             /\ stack[d].status[k] \in {"open", "mute", "bad"}
                        /\ ~ /\ stack[d].status[j] = "miss"
                             /\ stack[d].status[k] = "barred"
                             /\ \A m \in Siblings(stack[d].rules, k) : m <= j
      BY DEF OneBranchApplies
    <2>1. OneBranch(stack[d].rules, stack[d].status, k)
      BY PastOK
    <2> QED
      BY <2>1 DEF OneBranch
  <1> QED
    BY <1>1, AlwaysTree, PTL

\* An offset relative to the parent is taken from the parent's own match: neither an
\* earlier sibling, nor another group, nor a named list run by a use rule leaves its own
\* offset in the entry of the level table that the continuation reads.
THEOREM OffsetsFromParents == Spec => []RelativeToParent
  <1>1. MatchInv /\ TreeInv => RelativeToParent
    <2> DEFINE k == Top.magindex + 1
               l == Top.rules[k].level
    <2> SUFFICES ASSUME MatchInv, TreeInv, Active, Top.cont_level > 0,
                        HasContinuation(Top), ~Top.clobbered, l <= Top.cont_level
                 PROVE  li[l - 1].off = <<Depth, Parent(Top.rules, k)>>
      BY DEF RelativeToParent
    <2>1. Good(Top) /\ Walk(Top) /\ Held(Depth, Top, li) /\ Top.return = Running
      BY TopTree DEF Active
    <2>2. /\ Top.magindex \in Nat /\ Top.rules \in Seq(Rule)
          /\ Top.magindex < Len(Top.rules) /\ l # 0
      BY <2>1 DEF Good, Frames, HasContinuation
    <2>3. k \in DOMAIN Top.rules /\ k - 1 = Top.magindex
      BY <2>2
    <2>4. l \in 1..MaxLevel
      <3>1. Top.rules[k] \in Rule
        BY <2>2, <2>3
      <3>2. l \in 0..MaxLevel
        BY <3>1 DEF Rule
      <3> QED
        BY <2>2, <3>2, ParamsAssumption
    <2>5. TableOK(Depth, Top.rules, Top.magindex, Top.status, Top.cont_level, li)
      BY <2>1 DEF Held
    <2>6. Nearest(Top.rules, Top.magindex, l, Parent(Top.rules, k))
      <3>1. Grouped(Top.rules) /\ l > 0
        BY <2>1, <2>4 DEF Walk
      <3> QED
        BY <2>2, <2>3, <3>1, ParentNearest
    <2> HIDE DEF l
    <2>7. \A j \in 1..Top.magindex :
            Nearest(Top.rules, Top.magindex, l, j) => li[l - 1].off = <<Depth, j>>
      BY <2>4, <2>5 DEF TableOK
    <2> QED
      BY <2>6, <2>7 DEF Nearest
  <1> QED
    BY <1>1, AlwaysTree, PTL

-----------------------------------------------------------------------------
(* What the interpreter prints, and the value that goes with it. *)

\* The same activation.
Alike(f, g) == g.via = f.via /\ g.rules = f.rules /\ g.saved_out = f.saved_out

\* With the same answer so far.
Answers(f, g) ==
  g.found_match = f.found_match /\ g.returnval = f.returnval /\ g.return = f.return

\* The text c goes on from b with separators and texts of the group g.
Said(b, c, g) ==
  /\ Len(b) <= Len(c)
  /\ \A k \in 1..Len(b) : c[k] = b[k]
  /\ \A k \in (Len(b) + 1)..Len(c) : c[k] \in {Separator, g}

\* It goes on with at most one text, after a separator if that is needed.
InOrder(b, c, g, needed) ==
  \E a : /\ a = Append(b, Separator) \/ (a = b /\ ~needed)
         /\ c = a \/ c = Append(a, g)

\* What the rule that f stands on does to it, and to the output: it does not apply;
\* it applies in silence; it is described; or its annotation ends the activation.
Onward(g, q) == g.cont_level > 0 \/ (g.found_match => q.flushed)

Passes(f, p, g, q) == Answers(f, g) /\ g.cont_level = f.cont_level /\ q = p

Applies(f, p, g, q) ==
  /\ g.return = f.return /\ g.returnval = f.returnval
  /\ f.found_match => g.found_match
  /\ g.found_match => f.found_match \/ flags.nodesc
  /\ Onward(g, q)
  /\ q.out = p.out /\ q.printed = p.printed /\ q.firstline = p.firstline

Speaks(f, p, g, q) ==
  /\ ~flags.nodesc
  /\ g.found_match /\ g.returnval = 1 /\ g.return = f.return
  /\ Onward(g, q)
  /\ q.printed /\ q.firstline = p.firstline
  /\ Said(p.out, q.out, p.group)
  /\ SpeakingCalls => err \/ q.out # << >>
  /\ QuietCalls /\ ~err => InOrder(p.out, q.out, p.group, ~p.firstline /\ ~p.printed)

Stops(f, p, g, q) ==
  /\ flags.annotate
  /\ g.found_match /\ g.returnval = 1 /\ g.return = 1 /\ g.cont_level = f.cont_level
  /\ q.printed /\ ~q.firstline
  /\ Said(p.out, q.out, p.group)
  /\ p.firstline \/ flags.continue => err \/ q.out # << >>
  /\ ~err /\ flags.continue => InOrder(p.out, q.out, p.group, ~p.firstline)

Outcome(f, p, g, q) ==
  /\ Alike(f, g) /\ q \in Prints /\ q.group = p.group
  /\ p.flushed => q.flushed
  /\ err => q.out = p.out
  /\ \/ Passes(f, p, g, q) \/ Applies(f, p, g, q)
     \/ Speaks(f, p, g, q) \/ Stops(f, p, g, q)

\* A rule that calls a list and has a description comes after what the list printed.
SpokenFor(f, p, verdict) ==
  LET e == f.rules[f.magindex]
  IN SpeakingCalls /\ Describes(e) /\ Matched(e, verdict)
       /\ e.type \in {"use", "indirect", "name"} => err \/ p.out # << >>

LEMMA MarkAnswers ==
  ASSUME NEW f, Good(f), NEW s
  PROVE  LET g == Mark(f, s)
         IN Alike(f, g) /\ Answers(f, g) /\ g.cont_level = f.cont_level
  <1> DEFINE t == [f.status EXCEPT ![f.magindex] = s]
             g == [f EXCEPT !.status = t]
  <1>1. f \in Frames /\ Mark(f, s) = g
    BY DEF Good, Mark
  <1> HIDE DEF t
  <1> QED
    BY <1>1 DEF Frames, Alike, Answers

LEMMA FlushAnswers ==
  ASSUME NEW f, Good(f)
  PROVE  LET g == Flush(f)
         IN Alike(f, g) /\ Answers(f, g) /\ g.cont_level = 0
  <1> DEFINE past == {k \in f.magindex..Len(f.rules) :
                        \A j \in (f.magindex + 1)..k : f.rules[j].level # 0}
             n == CHOOSE k \in past : \A j \in past : j <= k
             g == [f EXCEPT !.magindex = n, !.cont_level = 0]
  <1>1. f \in Frames /\ Flush(f) = g
    BY DEF Good, Flush
  <1> HIDE DEF n
  <1> QED
    BY <1>1 DEF Frames, Alike, Answers

LEMMA DescribeAnswers ==
  ASSUME NEW f, OnRule(f)
  PROVE  LET e == f.rules[f.magindex]
             g == Describe(f, e)
         IN /\ Good(g) /\ Alike(f, g)
            /\ g.found_match = (f.found_match \/ e.desc)
            /\ g.returnval = IF Describes(e) THEN 1 ELSE f.returnval
            /\ g.return = f.return /\ g.cont_level = f.cont_level
  <1> DEFINE e == f.rules[f.magindex]
             b == f.found_match \/ e.desc
             r == IF Describes(e) THEN 1 ELSE f.returnval
             g == [f EXCEPT !.found_match = b, !.returnval = r]
  <1>1. f \in Frames /\ Describe(f, e) = g
    BY DEF OnRule, Good, Describe
  <1>2. Good(Describe(f, e))
    BY RuleOf, DescribeKeeps DEF Keeps
  <1> HIDE DEF b, r
  <1>3. /\ Alike(f, g) /\ g.found_match = b /\ g.returnval = r
        /\ g.return = f.return /\ g.cont_level = f.cont_level
    BY <1>1 DEF Frames, Alike
  <1> QED
    BY <1>1, <1>2, <1>3 DEF b, r

\* A rule that matched: its activation goes on, at the level l or where it was.
LEMMA MatchedAnswers ==
  ASSUME NEW f, OnRule(f), NEW l \in Levels
  PROVE  LET e == f.rules[f.magindex]
             h == [Mark(Describe(f, e), "open") EXCEPT !.cont_level = l]
             m == Mark(Describe(f, e), "bad")
         IN /\ h.cont_level = l /\ m.cont_level = f.cont_level
            /\ \A g \in {h, m, Flush(m)} :
                 /\ Alike(f, g) /\ g.return = f.return
                 /\ g.found_match = (f.found_match \/ e.desc)
                 /\ g.returnval = IF Describes(e) THEN 1 ELSE f.returnval
  <1> DEFINE e == f.rules[f.magindex]
             d == Describe(f, e)
             o == Mark(d, "open")
             h == [o EXCEPT !.cont_level = l]
             m == Mark(d, "bad")
             Fits(g) == /\ Alike(f, g) /\ g.return = f.return
                        /\ g.found_match = (f.found_match \/ e.desc)
                        /\ g.returnval = IF Describes(e) THEN 1 ELSE f.returnval
  <1>1. Good(d) /\ Fits(d) /\ d.cont_level = f.cont_level
    BY DescribeAnswers
  <1> HIDE DEF d
  <1>2. /\ Alike(d, o) /\ Answers(d, o) /\ Good(o)
        /\ Alike(d, m) /\ Answers(d, m) /\ Good(m) /\ m.cont_level = d.cont_level
    BY <1>1, MarkAnswers, MarkGood DEF Keeps, Statuses
  <1>3. Alike(m, Flush(m)) /\ Answers(m, Flush(m))
    BY <1>2, FlushAnswers
  <1> HIDE DEF o, m
  <1>4. Alike(o, h) /\ Answers(o, h) /\ h.cont_level = l
    BY <1>2 DEF Good, Frames, Alike, Answers
  <1> HIDE DEF h, e
  <1>5. Fits(h) /\ Fits(m) /\ Fits(Flush(m))
    BY <1>1, <1>2, <1>3, <1>4 DEF Alike, Answers
  <1>6. h.cont_level = l /\ m.cont_level = f.cont_level
    BY <1>1, <1>2, <1>4
  <1> QED
    BY <1>5, <1>6 DEF h, m, o, d, e

\* The print state but for the output.
SamePrint(p, q) ==
  /\ q.printed = p.printed /\ q.firstline = p.firstline
  /\ q.group = p.group /\ q.flushed = p.flushed

LEMMA EmitOf ==
  ASSUME NEW p \in Prints, NEW token \in Int
  PROVE  LET q == Emit(p, token)
         IN /\ q \in Prints /\ SamePrint(p, q)
            /\ q.out = IF err THEN p.out ELSE Append(p.out, token)
  <1>1. CASE err
    BY <1>1 DEF Emit, SamePrint
  <1>2. CASE ~err
    <2> DEFINE out == Append(p.out, token)
               q == [p EXCEPT !.out = out]
    <2>1. Emit(p, token) = q /\ out \in Seq(Int)
      BY <1>2 DEF Emit, Prints
    <2> HIDE DEF out
    <2>2. q \in Prints /\ SamePrint(p, q) /\ q.out = out
      BY <2>1 DEF Prints, SamePrint
    <2> QED
      BY <1>2, <2>1, <2>2 DEF out
  <1> QED
    BY <1>1, <1>2

LEMMA TextOf ==
  ASSUME NEW p \in Prints
  PROVE  LET q == Text(p)
         IN /\ q \in Prints /\ SamePrint(p, q)
            /\ q.out = IF err THEN p.out ELSE Append(p.out, p.group)
  <1>1. p.group \in Int
    BY DEF Prints
  <1> QED
    BY <1>1, EmitOf DEF Text

LEMMA SepOf ==
  ASSUME NEW p \in Prints
  PROVE  LET q == PrintSep(p)
         IN /\ q \in Prints /\ SamePrint(p, q)
            /\ q.out = IF err \/ p.firstline THEN p.out ELSE Append(p.out, Separator)
  <1>1. CASE p.firstline
    BY <1>1 DEF PrintSep, SamePrint
  <1>2. CASE ~p.firstline
    <2>1. Separator \in Int /\ PrintSep(p) = Emit(p, Separator)
      BY <1>2 DEF PrintSep, Separator
    <2> QED
      BY <1>2, <2>1, EmitOf
  <1> QED
    BY <1>1, <1>2

LEMMA AppendFilled ==
  ASSUME NEW b \in Seq(Int), NEW t \in Int
  PROVE  Append(b, t) # << >>
  <1> DEFINE c == Append(b, t)
  <1>1. Len(c) = Len(b) + 1 /\ Len(b) \in Nat
    OBVIOUS
  <1> HIDE DEF c
  <1>2. c # << >>
    BY <1>1
  <1> QED
    BY <1>2 DEF c

LEMMA OrderSaid ==
  ASSUME NEW b \in Seq(Int), NEW c \in Seq(Int), NEW g \in Int, NEW needed \in BOOLEAN,
         InOrder(b, c, g, needed)
  PROVE  Said(b, c, g)
  <1>1. PICK a : (a = b \/ a = Append(b, Separator)) /\ (c = a \/ c = Append(a, g))
    BY DEF InOrder
  <1>2. Separator \in Int
    BY DEF Separator
  <1>3. a \in Seq(Int) /\ Said(b, a, g)
    <2>1. CASE a = b
      BY <2>1 DEF Said
    <2>2. CASE a = Append(b, Separator)
      <3>1. /\ a \in Seq(Int) /\ Len(a) = Len(b) + 1 /\ Len(b) \in Nat
            /\ \A k \in 1..Len(b) : a[k] = b[k]
            /\ a[Len(b) + 1] = Separator
        BY <1>2, <2>2
      <3>2. \A k \in (Len(b) + 1)..Len(a) : k = Len(b) + 1
        BY <3>1
      <3> QED
        BY <3>1, <3>2 DEF Said
    <2> QED
      BY <1>1, <2>1, <2>2
  <1>4. CASE c = a
    BY <1>3, <1>4
  <1>5. CASE c = Append(a, g)
    <2>1. /\ Len(c) = Len(a) + 1 /\ \A k \in 1..Len(a) : c[k] = a[k]
          /\ c[Len(a) + 1] = g
      BY <1>3, <1>5
    <2>2. Len(b) \in Nat /\ Len(a) \in Nat /\ Len(b) <= Len(a)
      BY <1>3 DEF Said
    <2>3. \A k \in 1..Len(b) : c[k] = b[k]
      BY <1>3, <2>1, <2>2 DEF Said
    <2>4. ASSUME NEW k \in (Len(b) + 1)..Len(c) PROVE c[k] \in {Separator, g}
      <3>1. k = Len(a) + 1 \/ (k \in 1..Len(a) /\ k \in (Len(b) + 1)..Len(a))
        BY <2>1, <2>2
      <3> QED
        BY <1>3, <2>1, <3>1 DEF Said
    <2> QED
      BY <2>1, <2>2, <2>3, <2>4 DEF Said
  <1> QED
    BY <1>1, <1>4, <1>5

\* A separator where it is due, then a text or none.
LEMMA PrintOrder ==
  ASSUME NEW p \in Prints, NEW a \in Prints, NEW q \in Prints,
         SamePrint(p, a), SamePrint(a, q), NEW needed \in BOOLEAN,
         a.out = IF err \/ ~needed THEN p.out ELSE Append(p.out, Separator),
         q.out = a.out \/ q.out = IF err THEN a.out ELSE Append(a.out, a.group)
  PROVE  /\ err => q.out = p.out
         /\ Said(p.out, q.out, p.group)
         /\ ~err => InOrder(p.out, q.out, p.group, needed)
  <1>1. err => q.out = p.out
    OBVIOUS
  <1>2. p.out \in Seq(Int) /\ q.out \in Seq(Int) /\ p.group \in Int /\ a.group = p.group
    BY DEF Prints, SamePrint
  <1>3. ~err => InOrder(p.out, q.out, p.group, needed)
    BY <1>2 DEF InOrder
  <1>4. err => Said(p.out, q.out, p.group)
    BY <1>1, <1>2 DEF Said
  <1> QED
    BY <1>1, <1>2, <1>3, <1>4, OrderSaid

\* A description, with the separator that match() asks for.
LEMMA DescriptionOf ==
  ASSUME NEW p \in Prints, NEW e, NEW r,
         \/ r = PrintDesc(e, PrintSep([p EXCEPT !.printed = TRUE]))
         \/ p.printed /\ r = PrintDesc(e, p)
  PROVE  /\ r \in Prints /\ r.printed /\ r.firstline = p.firstline
         /\ r.group = p.group /\ r.flushed = p.flushed
         /\ err => r.out = p.out
         /\ Said(p.out, r.out, p.group)
         /\ ~err => InOrder(p.out, r.out, p.group, ~p.firstline /\ ~p.printed)
         /\ err \/ r.out # << >> \/ (e.type \in {"use", "indirect", "name"} /\ p.out = << >>)
  <1> DEFINE needed == ~p.firstline /\ ~p.printed
             d == [p EXCEPT !.printed = TRUE]
  <1>1. d \in Prints /\ d.printed /\ d.out = p.out /\ d.firstline = p.firstline
        /\ d.group = p.group /\ d.flushed = p.flushed
    BY DEF Prints
  <1>2. p.firstline \in BOOLEAN /\ p.printed \in BOOLEAN /\ p.out \in Seq(Int)
        /\ p.group \in Int
    BY DEF Prints
  <1> HIDE DEF d
  <1>3. ASSUME NEW x \in Prints, x.printed, x.out = p.out, x.firstline = p.firstline,
               x.group = p.group, x.flushed = p.flushed,
               NEW a \in Prints, SamePrint(x, a), NEW due \in BOOLEAN, needed => due,
               a.out = IF err \/ ~due THEN x.out ELSE Append(x.out, Separator),
               r = PrintDesc(e, a)
        PROVE  /\ r \in Prints /\ r.printed /\ r.firstline = p.firstline
               /\ r.group = p.group /\ r.flushed = p.flushed
               /\ err => r.out = p.out
               /\ Said(p.out, r.out, p.group)
               /\ ~err => InOrder(p.out, r.out, p.group, needed)
               /\ err \/ r.out # << >>
                  \/ (e.type \in {"use", "indirect", "name"} /\ p.out = << >>)
    <2>1. /\ r \in Prints /\ SamePrint(a, r)
          /\ r.out = a.out \/ r.out = IF err THEN a.out ELSE Append(a.out, a.group)
          /\ e.type \in {"use", "indirect", "name"} => r.out = a.out
          /\ e.type \notin {"use", "indirect", "name"} =>
               r.out = IF err THEN a.out ELSE Append(a.out, a.group)
      BY <1>3, TextOf DEF PrintDesc, SamePrint
    <2>2. /\ err => r.out = x.out
          /\ Said(x.out, r.out, x.group)
          /\ ~err => InOrder(x.out, r.out, x.group, due)
      BY <1>3, <2>1, PrintOrder
    <2>3. ~err => InOrder(p.out, r.out, p.group, needed)
      BY <1>3, <2>2 DEF InOrder
    <2>4. a.out \in Seq(Int) /\ a.group \in Int
      BY <1>3 DEF Prints
    <2>5. err \/ r.out # << >> \/ (e.type \in {"use", "indirect", "name"} /\ p.out = << >>)
      <3>1. a.out = p.out \/ a.out = Append(p.out, Separator)
        BY <1>3
      <3>2. p.out # << >> => a.out # << >>
        BY <1>2, <3>1
      <3>3. Append(a.out, a.group) # << >>
        BY <2>4, AppendFilled, Zenon
      <3> QED
        BY <2>1, <3>2, <3>3
    <2> QED
      BY <1>3, <2>1, <2>2, <2>3, <2>5 DEF SamePrint
  <1>4. CASE r = PrintDesc(e, PrintSep(d))
    <2> DEFINE a == PrintSep(d)
    <2>1. /\ a \in Prints /\ SamePrint(d, a)
          /\ a.out = IF err \/ d.firstline THEN d.out ELSE Append(d.out, Separator)
      BY <1>1, SepOf
    <2> HIDE DEF a
    <2> DEFINE due == ~p.firstline
    <2>2. due \in BOOLEAN /\ (needed => due)
      BY Zenon
    <2>3. due <=> ~d.firstline
      BY <1>1, Zenon
    <2>4. r = PrintDesc(e, a)
      BY <1>4 DEF a
    <2> HIDE DEF needed, due
    <2>5. a.out = IF err \/ ~due THEN d.out ELSE Append(d.out, Separator)
      BY <2>1, <2>3
    <2>6. /\ r \in Prints /\ r.printed /\ r.firstline = p.firstline
          /\ r.group = p.group /\ r.flushed = p.flushed
          /\ err => r.out = p.out
          /\ Said(p.out, r.out, p.group)
          /\ ~err => InOrder(p.out, r.out, p.group, needed)
          /\ err \/ r.out # << >>
             \/ (e.type \in {"use", "indirect", "name"} /\ p.out = << >>)
      BY <1>1, <1>3, <2>1, <2>2, <2>4, <2>5
    <2> QED
      BY <2>6 DEF needed
  <1>5. CASE p.printed /\ r = PrintDesc(e, p)
    <2> DEFINE no == FALSE
    <2>1. no \in BOOLEAN /\ (needed => no) /\ SamePrint(p, p)
          /\ p.out = IF err \/ ~no THEN p.out ELSE Append(p.out, Separator)
      BY <1>5 DEF SamePrint
    <2> HIDE DEF no, needed
    <2>2. /\ r \in Prints /\ r.printed /\ r.firstline = p.firstline
          /\ r.group = p.group /\ r.flushed = p.flushed
          /\ err => r.out = p.out
          /\ Said(p.out, r.out, p.group)
          /\ ~err => InOrder(p.out, r.out, p.group, needed)
          /\ err \/ r.out # << >>
             \/ (e.type \in {"use", "indirect", "name"} /\ p.out = << >>)
      BY <1>3, <1>5, <2>1
    <2> QED
      BY <2>2 DEF needed
  <1> QED
    BY <1>4, <1>5 DEF d

\* An annotation.
LEMMA AnnotationOf ==
  ASSUME NEW p \in Prints, FlagsOK
  PROVE  LET a == IF p.firstline \/ flags.continue THEN Text(PrintSep(p)) ELSE p
             q == [a EXCEPT !.printed = TRUE, !.firstline = FALSE]
         IN /\ q \in Prints /\ q.printed /\ ~q.firstline
            /\ q.group = p.group /\ q.flushed = p.flushed
            /\ err => q.out = p.out
            /\ Said(p.out, q.out, p.group)
            /\ p.firstline \/ flags.continue => err \/ q.out # << >>
            /\ ~err /\ flags.continue => InOrder(p.out, q.out, p.group, ~p.firstline)
  <1> DEFINE a == IF p.firstline \/ flags.continue THEN Text(PrintSep(p)) ELSE p
             q == [a EXCEPT !.printed = TRUE, !.firstline = FALSE]
             b == PrintSep(p)
             c == Text(b)
  <1>1. p.firstline \in BOOLEAN /\ p.out \in Seq(Int) /\ p.group \in Int
    BY DEF Prints
  <1>2. /\ b \in Prints /\ SamePrint(p, b)
        /\ b.out = IF err \/ p.firstline THEN p.out ELSE Append(p.out, Separator)
    BY SepOf
  <1>3. /\ c \in Prints /\ SamePrint(b, c)
        /\ c.out = IF err THEN b.out ELSE Append(b.out, b.group)
    BY <1>2, TextOf
  <1> HIDE DEF b, c
  <1>4. /\ err => c.out = p.out
        /\ Said(p.out, c.out, p.group)
        /\ ~err => InOrder(p.out, c.out, p.group, ~p.firstline)
    <2> DEFINE due == ~p.firstline
    <2>1. due \in BOOLEAN /\ (due <=> ~p.firstline)
      BY Zenon
    <2> HIDE DEF due
    <2>2. b.out = IF err \/ ~due THEN p.out ELSE Append(p.out, Separator)
      BY <1>2, <2>1
    <2>3. /\ err => c.out = p.out
          /\ Said(p.out, c.out, p.group)
          /\ ~err => InOrder(p.out, c.out, p.group, due)
      BY <1>2, <1>3, <2>1, <2>2, PrintOrder
    <2> QED
      BY <2>3 DEF due
  <1>5. err \/ c.out # << >>
    BY <1>2, <1>3 DEF Prints, SamePrint
  <1>6. a \in Prints /\ SamePrint(p, a)
    BY <1>2, <1>3 DEF a, b, c, SamePrint
  <1>7. a.out = IF p.firstline \/ flags.continue THEN c.out ELSE p.out
    BY DEF a, b, c
  <1> HIDE DEF a
  <1>8. /\ q \in Prints /\ q.printed /\ ~q.firstline /\ q.out = a.out
        /\ q.group = p.group /\ q.flushed = p.flushed
    BY <1>6 DEF Prints, SamePrint
  <1> HIDE DEF q
  <1>9. Said(p.out, p.out, p.group)
    BY <1>1 DEF Said
  <1>10. /\ err => q.out = p.out
         /\ Said(p.out, q.out, p.group)
         /\ p.firstline \/ flags.continue => err \/ q.out # << >>
         /\ ~err /\ flags.continue => InOrder(p.out, q.out, p.group, ~p.firstline)
    BY <1>4, <1>5, <1>7, <1>8, <1>9
  <1> QED
    BY <1>8, <1>10 DEF q, a

\* The rule matched, and is described if it has a description.
LEMMA MatchedOutcome ==
  ASSUME FlagsOK, NEW f, OnRule(f), NEW p \in Prints, NEW verdict, SpokenFor(f, p, verdict),
         Matched(f.rules[f.magindex], verdict),
         NEW g, Alike(f, g), g.return = f.return,
         g.found_match = (f.found_match \/ f.rules[f.magindex].desc),
         g.returnval = IF Describes(f.rules[f.magindex]) THEN 1 ELSE f.returnval,
         NEW r, IF Describes(f.rules[f.magindex])
                THEN \/ r = PrintDesc(f.rules[f.magindex], PrintSep([p EXCEPT !.printed = TRUE]))
                     \/ p.printed /\ r = PrintDesc(f.rules[f.magindex], p)
                ELSE r = p,
         NEW q \in Prints, q.out = r.out, q.printed = r.printed, q.firstline = r.firstline,
         q.group = r.group, r.flushed => q.flushed, Onward(g, q)
  PROVE  /\ Outcome(f, p, g, q)
         /\ Describes(f.rules[f.magindex]) => Speaks(f, p, g, q)
  <1> DEFINE e == f.rules[f.magindex]
  <1>1. e.desc \in BOOLEAN
    BY RuleOf
  <1>2. CASE ~Describes(e)
    <2>1. r = p /\ g.returnval = f.returnval
      BY <1>2
    <2>2. e.desc => flags.nodesc
      BY <1>2 DEF Describes
    <2>3. Applies(f, p, g, q)
      BY <2>1, <2>2 DEF Applies
    <2> QED
      BY <1>2, <2>1, <2>3 DEF Outcome
  <1>3. CASE Describes(e)
    <2>1. ~flags.nodesc /\ e.desc /\ g.found_match /\ g.returnval = 1
      BY <1>3 DEF Describes
    <2>2. \/ r = PrintDesc(e, PrintSep([p EXCEPT !.printed = TRUE]))
          \/ p.printed /\ r = PrintDesc(e, p)
      BY <1>3
    <2>3. SpeakingCalls /\ e.type \in {"use", "indirect", "name"} => err \/ p.out # << >>
      BY <1>3 DEF SpokenFor
    <2> HIDE DEF e
    <2>4. /\ r \in Prints /\ r.printed /\ r.firstline = p.firstline
          /\ r.group = p.group /\ r.flushed = p.flushed
          /\ err => r.out = p.out
          /\ Said(p.out, r.out, p.group)
          /\ ~err => InOrder(p.out, r.out, p.group, ~p.firstline /\ ~p.printed)
          /\ err \/ r.out # << >> \/ (e.type \in {"use", "indirect", "name"} /\ p.out = << >>)
      BY <2>2, DescriptionOf
    <2>5. Speaks(f, p, g, q)
      BY <2>1, <2>3, <2>4 DEF Speaks
    <2> QED
      BY <2>4, <2>5 DEF Outcome
  <1> QED
    BY <1>2, <1>3

LEMMA AnnotateOutcome ==
  ASSUME FlagsOK, NEW d, NEW f, OnRule(f), NEW p \in Prints, NEW table,
         Annotate(d, f, p, table), Annotates(f.rules[f.magindex])
  PROVE  \E g : Become(d, g) /\ Outcome(f, p, g, print') /\ g.return = 1
  <1> DEFINE m == Mark(f, "open")
             g == [m EXCEPT !.found_match = TRUE, !.returnval = 1, !.return = 1]
             a == IF p.firstline \/ flags.continue THEN Text(PrintSep(p)) ELSE p
             q == [a EXCEPT !.printed = TRUE, !.firstline = FALSE]
  <1>1. Become(d, g) /\ print' = q
    BY DEF Annotate
  <1>2. Good(f)
    BY DEF OnRule
  <1>3. Alike(f, m) /\ Answers(f, m) /\ m.cont_level = f.cont_level /\ Good(m)
    BY <1>2, MarkAnswers, MarkGood DEF Keeps, Statuses
  <1> HIDE DEF m
  <1>4. /\ Alike(m, g) /\ g.cont_level = m.cont_level
        /\ g.found_match /\ g.returnval = 1 /\ g.return = 1
    BY <1>3 DEF Good, Frames, Alike
  <1>5. /\ q \in Prints /\ q.printed /\ ~q.firstline
        /\ q.group = p.group /\ q.flushed = p.flushed
        /\ err => q.out = p.out
        /\ Said(p.out, q.out, p.group)
        /\ p.firstline \/ flags.continue => err \/ q.out # << >>
        /\ ~err /\ flags.continue => InOrder(p.out, q.out, p.group, ~p.firstline)
    BY AnnotationOf, Zenon
  <1> HIDE DEF g, q
  <1>6. Alike(f, g) /\ g.cont_level = f.cont_level
    BY <1>3, <1>4 DEF Alike
  <1>7. flags.annotate
    BY DEF Annotates
  <1>8. Stops(f, p, g, q)
    BY <1>4, <1>5, <1>6, <1>7 DEF Stops
  <1>9. Outcome(f, p, g, q)
    BY <1>5, <1>6, <1>8 DEF Outcome
  <1> QED
    BY <1>1, <1>4, <1>9

\* What the verdict does to the activation.
Settles(d, f, p, verdict) ==
  \E g : /\ Become(d, g) /\ Outcome(f, p, g, print')
         /\ \/ Onward(g, print') \/ g.return # Running
            \/ verdict # "hit" /\ Passes(f, p, g, print')
         /\ f.rules[f.magindex].type = "name" /\ Describes(f.rules[f.magindex])
              => Speaks(f, p, g, print')

LEMMA SettleGroupOutcome ==
  ASSUME FlagsOK, flags.annotate => flags.nodesc,
         NEW d, NEW f, OnRule(f), f.cont_level = 0, NEW p \in Prints, NEW table,
         NEW verdict \in Statuses \cup {"hit"}, SpokenFor(f, p, verdict),
         f.rules[f.magindex].type = "name" => verdict = "hit",
         SettleGroup(d, f, p, table, verdict)
  PROVE  Settles(d, f, p, verdict)
  <1> DEFINE e == f.rules[f.magindex]
             g == Describe(f, e)
             p1 == IF Describes(e)
                   THEN PrintDesc(e, PrintSep([p EXCEPT !.printed = TRUE])) ELSE p
  <1>1. Good(f) /\ 1 \in Levels
    BY LevelsFacts DEF OnRule
  <1>2. CASE ~Matched(e, verdict) /\ Become(d, Flush(Mark(f, verdict))) /\ print' = p
    <2> DEFINE m == Mark(f, verdict)
               h == Flush(m)
    <2>1. verdict # "hit" /\ verdict \in Statuses
      BY <1>2 DEF Matched
    <2>2. Alike(f, m) /\ Answers(f, m) /\ m.cont_level = f.cont_level /\ Good(m)
      BY <1>1, <2>1, MarkAnswers, MarkGood DEF Keeps
    <2> HIDE DEF m
    <2>3. Alike(m, h) /\ Answers(m, h) /\ h.cont_level = 0
      BY <2>2, FlushAnswers
    <2> HIDE DEF h
    <2>4. Alike(f, h) /\ Passes(f, p, h, p)
      BY <2>2, <2>3 DEF Alike, Answers, Passes
    <2>5. Outcome(f, p, h, p)
      BY <2>4 DEF Outcome
    <2> QED
      BY <1>2, <2>1, <2>4, <2>5 DEF Settles, h, m
  <1>3. CASE Annotates(e) /\ Annotate(d, f, p, table)
    <2>1. PICK h : Become(d, h) /\ Outcome(f, p, h, print') /\ h.return = 1
      BY <1>3, AnnotateOutcome
    <2>2. ~Describes(e)
      BY <1>3 DEF Annotates, Describes
    <2>3. h.return # Running
      BY <2>1 DEF Running
    <2> QED
      BY <2>1, <2>2, <2>3 DEF Settles
  <1>4. CASE /\ Matched(e, verdict) /\ print' = p1
             /\ Become(d, [Mark(g, "open") EXCEPT !.cont_level = 1])
    <2> DEFINE h == [Mark(g, "open") EXCEPT !.cont_level = 1]
    <2>1. /\ Alike(f, h) /\ h.return = f.return /\ h.cont_level = 1
          /\ h.found_match = (f.found_match \/ e.desc)
          /\ h.returnval = IF Describes(e) THEN 1 ELSE f.returnval
      BY <1>1, MatchedAnswers
    <2>2. Become(d, h)
      BY <1>4
    <2> HIDE DEF h, g
    <2>3. p1 \in Prints
      <3>1. [p EXCEPT !.printed = TRUE] \in Prints
        BY PrintTypes
      <3>2. PrintSep([p EXCEPT !.printed = TRUE]) \in Prints
        BY <3>1, PrintTypes
      <3> QED
        BY <3>2, PrintTypes
    <2>4. IF Describes(e)
          THEN \/ p1 = PrintDesc(e, PrintSep([p EXCEPT !.printed = TRUE]))
               \/ p.printed /\ p1 = PrintDesc(e, p)
          ELSE p1 = p
      OBVIOUS
    <2> HIDE DEF p1
    <2>5. Onward(h, p1)
      BY <2>1 DEF Onward
    <2>6. Outcome(f, p, h, p1) /\ (Describes(e) => Speaks(f, p, h, p1))
      BY <1>4, <2>1, <2>3, <2>4, <2>5, MatchedOutcome
    <2> QED
      BY <1>4, <2>2, <2>5, <2>6 DEF Settles
  <1>5. CASE /\ Matched(e, verdict) /\ Become(d, Flush(Mark(g, "bad")))
             /\ print' = [p1 EXCEPT !.flushed = @ \/ g.found_match]
    <2> DEFINE h == Flush(Mark(g, "bad"))
               b == p1.flushed \/ g.found_match
               q == [p1 EXCEPT !.flushed = b]
    <2>1. /\ Alike(f, h) /\ h.return = f.return
          /\ h.found_match = (f.found_match \/ e.desc)
          /\ h.returnval = IF Describes(e) THEN 1 ELSE f.returnval
      BY <1>1, MatchedAnswers
    <2>2. g.found_match = (f.found_match \/ e.desc)
      BY DescribeAnswers
    <2>3. Become(d, h) /\ print' = q
      BY <1>5
    <2> HIDE DEF h, g
    <2>4. p1 \in Prints
      <3>1. [p EXCEPT !.printed = TRUE] \in Prints
        BY PrintTypes
      <3>2. PrintSep([p EXCEPT !.printed = TRUE]) \in Prints
        BY <3>1, PrintTypes
      <3> QED
        BY <3>2, PrintTypes
    <2>5. IF Describes(e)
          THEN \/ p1 = PrintDesc(e, PrintSep([p EXCEPT !.printed = TRUE]))
               \/ p.printed /\ p1 = PrintDesc(e, p)
          ELSE p1 = p
      OBVIOUS
    <2>6. b \in BOOLEAN
      BY Zenon
    <2> HIDE DEF p1
    <2>7. /\ q \in Prints /\ q.out = p1.out /\ q.printed = p1.printed
          /\ q.firstline = p1.firstline /\ q.group = p1.group /\ q.flushed = b
      <3> HIDE DEF b
      <3> QED
        BY <2>4, <2>6 DEF Prints
    <2> HIDE DEF q
    <2>8. Onward(h, q) /\ (p1.flushed => q.flushed)
      <3>1. h.found_match => g.found_match
        BY <2>1, <2>2, Zenon
      <3>2. g.found_match => q.flushed
        BY <2>7, Zenon
      <3>3. p1.flushed => q.flushed
        BY <2>7, Zenon
      <3> QED
        BY <3>1, <3>2, <3>3 DEF Onward
    <2>9. Outcome(f, p, h, q) /\ (Describes(e) => Speaks(f, p, h, q))
      BY <1>5, <2>1, <2>4, <2>5, <2>7, <2>8, MatchedOutcome
    <2> QED
      BY <2>3, <2>8, <2>9 DEF Settles
  <1> QED
    BY <1>2, <1>3, <1>4, <1>5 DEF SettleGroup

LEMMA SettleContinuationOutcome ==
  ASSUME FlagsOK, flags.annotate => flags.nodesc,
         NEW d, NEW f, OnRule(f), f.cont_level > 0, NEW p \in Prints, NEW table,
         NEW verdict \in Statuses \cup {"hit"}, SpokenFor(f, p, verdict),
         f.rules[f.magindex].type = "name" => verdict = "hit",
         SettleContinuation(d, f, p, table, verdict)
  PROVE  Settles(d, f, p, verdict)
  <1> DEFINE e == f.rules[f.magindex]
             l == f.cont_level
             muted == e.type = "default" /\ table[l].got_match
             g == Describe(f, e)
             p1 == IF p.printed THEN p ELSE PrintSep([p EXCEPT !.printed = TRUE])
             q == IF Describes(e) THEN PrintDesc(e, p1) ELSE p
  <1>1. Good(f) /\ l + 1 \in Levels /\ l \in Nat
    <2>1. l \in Levels /\ l <= MaxLevel
      BY DEF OnRule, Good, Frames
    <2> QED
      BY <2>1, LevelsFacts DEF OnRule, Levels
  <1>2. ASSUME NEW s \in Statuses, Become(d, Mark(f, s)), print' = p, e.type # "name"
        PROVE  Settles(d, f, p, verdict)
    <2> DEFINE m == Mark(f, s)
    <2>1. Alike(f, m) /\ Answers(f, m) /\ m.cont_level = f.cont_level
      BY <1>1, MarkAnswers
    <2>2. Become(d, m)
      BY <1>2
    <2> HIDE DEF m, e, g, p1, q, muted, l
    <2>3. Passes(f, p, m, p)
      BY <2>1 DEF Passes
    <2>4. Outcome(f, p, m, p)
      BY <2>1, <2>3 DEF Outcome
    <2>5. Onward(m, p)
      BY <2>1 DEF Onward
    <2> QED
      BY <1>2, <2>2, <2>4, <2>5 DEF Settles, e
  <1>3. CASE verdict = "oob" /\ Become(d, Mark(f, "oob")) /\ print' = p
    <2>1. e.type # "name" /\ "oob" \in Statuses
      BY <1>3 DEF Statuses
    <2> QED
      BY <1>2, <1>3, <2>1
  <1>4. CASE verdict = "miss" /\ Become(d, Mark(f, "miss")) /\ print' = p
    <2>1. e.type # "name" /\ "miss" \in Statuses
      BY <1>4 DEF Statuses
    <2> QED
      BY <1>2, <1>4, <2>1
  <1>5. CASE muted /\ Become(d, Mark(f, "mute")) /\ print' = p
    <2>1. e.type # "name" /\ "mute" \in Statuses
      BY <1>5 DEF Statuses
    <2> QED
      BY <1>2, <1>5, <2>1
  <1>6. CASE Annotates(e) /\ Annotate(d, f, p, RecordMatch(table, l, e))
    <2>1. PICK h : Become(d, h) /\ Outcome(f, p, h, print') /\ h.return = 1
      BY <1>6, AnnotateOutcome
    <2>2. ~Describes(e)
      BY <1>6 DEF Annotates, Describes
    <2>3. h.return # Running
      BY <2>1 DEF Running
    <2> QED
      BY <2>1, <2>2, <2>3 DEF Settles
  <1>7. /\ q \in Prints
        /\ IF Describes(e)
           THEN \/ q = PrintDesc(e, PrintSep([p EXCEPT !.printed = TRUE]))
                \/ p.printed /\ q = PrintDesc(e, p)
           ELSE q = p
    <2>1. [p EXCEPT !.printed = TRUE] \in Prints
      BY PrintTypes
    <2>2. PrintSep([p EXCEPT !.printed = TRUE]) \in Prints
      BY <2>1, PrintTypes
    <2>3. q \in Prints
      BY <2>2, PrintTypes
    <2> QED
      BY <2>3
  <1>8. ASSUME NEW h \in {[Mark(g, "open") EXCEPT !.cont_level = l + 1], Mark(g, "bad")},
               Matched(e, verdict), Become(d, h), print' = q
        PROVE  Settles(d, f, p, verdict)
    <2> DEFINE up == [Mark(g, "open") EXCEPT !.cont_level = l + 1]
               m == Mark(g, "bad")
               next == l + 1
    <2>1. /\ up.cont_level = next /\ m.cont_level = l
          /\ \A x \in {up, m, Flush(m)} :
               /\ Alike(f, x) /\ x.return = f.return
               /\ x.found_match = (f.found_match \/ e.desc)
               /\ x.returnval = IF Describes(e) THEN 1 ELSE f.returnval
      <3>1. next \in Levels
        BY <1>1
      <3> HIDE DEF next
      <3>2. LET o == [Mark(g, "open") EXCEPT !.cont_level = next]
            IN /\ o.cont_level = next /\ m.cont_level = l
               /\ \A x \in {o, m, Flush(m)} :
                    /\ Alike(f, x) /\ x.return = f.return
                    /\ x.found_match = (f.found_match \/ e.desc)
                    /\ x.returnval = IF Describes(e) THEN 1 ELSE f.returnval
        BY <3>1, MatchedAnswers
      <3> QED
        BY <3>2 DEF next
    <2>2. h = up \/ h = m
      BY <1>8
    <2> HIDE DEF up, m
    <2>5. /\ Alike(f, h) /\ h.return = f.return
          /\ h.found_match = (f.found_match \/ e.desc)
          /\ h.returnval = IF Describes(e) THEN 1 ELSE f.returnval
      BY <2>1, <2>2, Zenon
    <2>6. h.cont_level = l + 1 \/ h.cont_level = l
      BY <2>1, <2>2
    <2> HIDE DEF q, g, p1
    <2>3. Onward(h, q)
      BY <1>1, <2>6 DEF Onward
    <2>4. Outcome(f, p, h, q) /\ (Describes(e) => Speaks(f, p, h, q))
      BY <1>7, <1>8, <2>5, <2>3, MatchedOutcome
    <2> QED
      BY <1>8, <2>3, <2>4 DEF Settles
  <1>9. CASE /\ Matched(e, verdict) /\ print' = q
             /\ \/ Become(d, [Mark(g, "open") EXCEPT !.cont_level = l + 1])
                \/ Become(d, Mark(g, "bad"))
    BY <1>8, <1>9
  <1> QED
    BY <1>3, <1>4, <1>5, <1>6, <1>9 DEF SettleContinuation

LEMMA SettleOutcome ==
  ASSUME FlagsOK, flags.annotate => flags.nodesc,
         NEW d, NEW f, OnRule(f), NEW p \in Prints, NEW table,
         NEW verdict \in Statuses \cup {"hit"}, SpokenFor(f, p, verdict),
         f.rules[f.magindex].type = "name" => verdict = "hit",
         Settle(d, f, p, table, verdict)
  PROVE  Settles(d, f, p, verdict)
  BY SettleGroupOutcome, SettleContinuationOutcome DEF Settle

-----------------------------------------------------------------------------
(* What the activations on the stack t have told, when the output is p, the error *)
(* flag e and the value of the lists before r.                                    *)

\* A rule of the database.
FromDb(rules) == \/ \E n \in DOMAIN db.lists : rules = db.lists[n]
                 \/ \E n \in DOMAIN db.names : rules = db.names[n]

\* The value of an activation tells whether it found something.
Answered(f, e) ==
  /\ f.return \in {0, 1} => f.returnval = f.return
  /\ f.return = -1 => e
  /\ f.found_match /\ ~flags.nodesc => f.returnval = 1
  /\ f.via # "use" /\ f.returnval = 1 => f.found_match
  /\ f.via # "indirect" => f.saved_out = << >>
  /\ FromDb(f.rules)

\* An activation stands on the rule that called the next one, which began with its
\* value if that was a use rule.
Linked(a, b) ==
  /\ a.return = Running /\ a.rules[a.magindex].type = b.via
  /\ b.via = "use" => /\ a.returnval = 1 => b.returnval = 1
                      /\ b.returnval = 1 => b.found_match \/ a.returnval = 1

\* Activations that use rules join print to one buffer: the last of them, what that
\* buffer has, and whether it is the one of the caller of file_softmagic.
Ends(t, i) == i = Len(t) \/ t[i + 1].via = "indirect"
Told(t, i, out) == IF i = Len(t) THEN out ELSE t[i + 1].saved_out
Outer(t, i) == \A k \in 1..i : t[k].via # "indirect"

\* The value and the output of such an activation agree.
Voiced(f, out, t, i, e, r) ==
  /\ f.returnval = 0 /\ (Outer(t, i) => r = 0) => out = << >>
  /\ f.returnval = 1 \/ (Outer(t, i) /\ r = 1) =>
       ((Outer(t, i) \/ ~flags.annotate) /\ SpeakingCalls => e \/ out # << >>)

AnsweredOK(t, e) ==
  /\ \A i \in 1..Len(t) : Answered(t[i], e)
  /\ \A i \in 1..(Len(t) - 1) : Linked(t[i], t[i + 1])
VoicedOK(t, p, e, r) ==
  \A i \in 1..Len(t) :
    Ends(t, i) /\ t[i].return # -1 => Voiced(t[i], Told(t, i, p.out), t, i, e, r)

\* Without MAGIC_CONTINUE nothing is printed before something is found.
HushedOK(t, p, e) ==
  ~flags.continue /\ (p.printed \/ ~p.firstline) =>
    e \/ \E i \in 1..Len(t) : Ends(t, i) /\ t[i].returnval = 1

\* Each text exists, and is about the group under examination.
NullFree(out) == \A k \in DOMAIN out : out[k] # Null
NullsOK(t, p) ==
  ~flags.annotate /\ SpeakingCalls =>
    NullFree(p.out) /\ \A i \in 1..Len(t) : NullFree(t[i].saved_out)

About(out, g) == \A k \in DOMAIN out : out[k] > 0 => out[k] = g
GroupOK(t, p) ==
  ~flags.continue /\ ~p.flushed =>
    About(p.out, p.group) /\ \A i \in 1..Len(t) : About(t[i].saved_out, p.group)

VoiceOK(t, p, e, r) ==
  /\ AnsweredOK(t, e) /\ VoicedOK(t, p, e, r) /\ HushedOK(t, p, e)
  /\ NullsOK(t, p) /\ GroupOK(t, p)

\* Another activation is the last of the stack, or the last one goes on.
Places(t, u) ==
  /\ t \in Seq(Frames) /\ u \in Seq(Frames) /\ t # << >> /\ Len(u) = Len(t)
  /\ \A i \in 1..(Len(t) - 1) : u[i] = t[i]
  /\ u[Len(t)].via = t[Len(t)].via /\ u[Len(t)].saved_out = t[Len(t)].saved_out
Replaces(t, u) == Places(t, u) /\ Alike(t[Len(t)], u[Len(t)])

LEMMA ReplacesPlaces ==
  ASSUME NEW t, NEW u, Places(t, u)
  PROVE  /\ Len(t) \in Nat /\ Len(t) >= 1 /\ Len(t) \in 1..Len(t) /\ Len(u) = Len(t)
         /\ Ends(t, Len(t)) /\ Ends(u, Len(t))
         /\ \A i \in 1..Len(t) :
              /\ t[i] \in Frames /\ u[i] \in Frames
              /\ i # Len(t) => u[i] = t[i] /\ i \in 1..(Len(t) - 1)
              /\ u[i].via = t[i].via /\ u[i].saved_out = t[i].saved_out
              /\ Ends(u, i) <=> Ends(t, i)
              /\ Outer(u, i) <=> Outer(t, i)
              /\ i # Len(t) => /\ \A o : Told(u, i, o) = t[i + 1].saved_out
                               /\ \A o : Told(t, i, o) = t[i + 1].saved_out
              /\ i = Len(t) => \A o : Told(u, i, o) = o /\ Told(t, i, o) = o
  <1> DEFINE n == Len(t)
  <1>1. n \in Nat /\ n >= 1 /\ n \in 1..n /\ Len(u) = n
    BY DEF Places
  <1>2. ASSUME NEW i \in 1..n
        PROVE  /\ t[i] \in Frames /\ u[i] \in Frames
               /\ i # n => u[i] = t[i] /\ i \in 1..(n - 1) /\ i + 1 \in 1..n
               /\ u[i].via = t[i].via /\ u[i].saved_out = t[i].saved_out
    <2>1. t[i] \in Frames /\ u[i] \in Frames
      BY <1>1 DEF Places
    <2>2. i # n => i \in 1..(n - 1) /\ i + 1 \in 1..n
      BY <1>1
    <2>3. i # n => u[i] = t[i]
      BY <2>2 DEF Places
    <2>4. i = n => u[i].via = t[i].via /\ u[i].saved_out = t[i].saved_out
      BY DEF Places
    <2> QED
      BY <2>1, <2>2, <2>3, <2>4
  <1>3. ASSUME NEW i \in 1..n
        PROVE  /\ (Ends(u, i) <=> Ends(t, i)) /\ (Outer(u, i) <=> Outer(t, i))
               /\ i # n => /\ \A o : Told(u, i, o) = t[i + 1].saved_out
                           /\ \A o : Told(t, i, o) = t[i + 1].saved_out
               /\ i = n => \A o : Told(u, i, o) = o /\ Told(t, i, o) = o
    <2> HIDE DEF n
    <2>1. i # n => u[i + 1].via = t[i + 1].via /\ u[i + 1].saved_out = t[i + 1].saved_out
      BY <1>2
    <2>2. (i = Len(t)) <=> (i = n)
      BY DEF n
    <2>3. (i = Len(u)) <=> (i = n)
      BY <1>1
    <2>4. Ends(u, i) <=> Ends(t, i)
      BY <2>1, <2>2, <2>3 DEF Ends
    <2>5. \A k \in 1..i : k \in 1..n
      BY <1>1
    <2>6. Outer(u, i) <=> Outer(t, i)
      BY <1>2, <2>5 DEF Outer
    <2> QED
      BY <2>1, <2>2, <2>3, <2>4, <2>6 DEF Told
  <1>4. Ends(t, n) /\ Ends(u, n)
    BY <1>1 DEF Ends
  <1> QED
    BY <1>1, <1>2, <1>3, <1>4

\* It does so with no other answer, and prints nothing.
Aside(t, p, e, u, q, e2) ==
  LET f == t[Len(t)]
      g == u[Len(t)]
  IN /\ g.found_match = f.found_match /\ g.returnval = f.returnval
     /\ \/ g.return = f.return
        \/ g.return = -1 /\ e2
        \/ g.return = g.returnval /\ f.return = Running
     /\ q.out = p.out /\ (p.flushed => q.flushed) /\ (e => e2)
     /\ ~flags.continue /\ (q.printed \/ ~q.firstline) => p.printed \/ ~p.firstline
     /\ ~flags.continue /\ ~q.flushed =>
          \/ q.group = p.group
          \/ p.out = << >> /\ \A i \in 1..Len(t) : t[i].saved_out = << >>

LEMMA AsideVoice ==
  ASSUME NEW t, NEW u, Replaces(t, u), NEW p, NEW q, NEW e, NEW e2, NEW r,
         VoiceOK(t, p, e, r), Aside(t, p, e, u, q, e2)
  PROVE  VoiceOK(u, q, e2, r)
  <1> DEFINE n == Len(t)
             f == t[n]
             g == u[n]
  <1>1. /\ n \in Nat /\ n >= 1 /\ n \in 1..n /\ Len(u) = n
        /\ \A i \in 1..n :
              /\ t[i] \in Frames /\ u[i] \in Frames
              /\ i # n => u[i] = t[i] /\ i \in 1..(n - 1)
              /\ u[i].via = t[i].via /\ u[i].saved_out = t[i].saved_out
              /\ Ends(u, i) <=> Ends(t, i)
              /\ Outer(u, i) <=> Outer(t, i)
              /\ i # n => /\ \A o : Told(u, i, o) = t[i + 1].saved_out
                          /\ \A o : Told(t, i, o) = t[i + 1].saved_out
              /\ i = n => \A o : Told(u, i, o) = o /\ Told(t, i, o) = o
    BY ReplacesPlaces DEF Replaces
  <1>2. /\ g.found_match = f.found_match /\ g.returnval = f.returnval
        /\ \/ g.return = f.return
           \/ g.return = -1 /\ e2
           \/ g.return = g.returnval /\ f.return = Running
        /\ q.out = p.out /\ (p.flushed => q.flushed) /\ (e => e2)
        /\ ~flags.continue /\ (q.printed \/ ~q.firstline) => p.printed \/ ~p.firstline
        /\ ~flags.continue /\ ~q.flushed =>
             \/ q.group = p.group
             \/ p.out = << >> /\ \A i \in 1..n : t[i].saved_out = << >>
    BY DEF Aside
  <1>3. g.rules = f.rules /\ g.via = f.via /\ g.saved_out = f.saved_out
    BY DEF Replaces, Alike
  <1> HIDE DEF n, f, g
  <1>4. /\ AnsweredOK(t, e) /\ VoicedOK(t, p, e, r) /\ HushedOK(t, p, e)
        /\ NullsOK(t, p) /\ GroupOK(t, p)
    BY DEF VoiceOK
  <1>5. AnsweredOK(u, e2)
    <2>1. ASSUME NEW i \in 1..n PROVE Answered(u[i], e2)
      <3>1. Answered(t[i], e)
        BY <1>4 DEF AnsweredOK, n
      <3>2. CASE i # n
        BY <1>1, <1>2, <3>1, <3>2 DEF Answered
      <3>3. CASE i = n
        <4>1. Answered(f, e) /\ u[i] = g
          BY <3>1, <3>3 DEF f, g
        <4>2. g.return \in {0, 1} => g.returnval = g.return
          BY <1>2, <4>1 DEF Answered
        <4>3. g.return = -1 => e2
          <5>1. g.returnval \in {0, 1}
            BY <1>1 DEF Frames, g
          <5> QED
            BY <1>2, <4>1, <5>1 DEF Answered
        <4>4. Answered(g, e2)
          BY <1>2, <1>3, <4>1, <4>2, <4>3 DEF Answered
        <4> QED
          BY <4>1, <4>4
      <3> QED
        BY <3>2, <3>3
    <2>2. ASSUME NEW i \in 1..(n - 1) PROVE Linked(u[i], u[i + 1])
      <3>1. Linked(t[i], t[i + 1]) /\ i \in 1..n /\ i # n /\ i + 1 \in 1..n
        BY <1>1, <1>4 DEF AnsweredOK, n
      <3>2. u[i] = t[i] /\ u[i + 1].via = t[i + 1].via
        BY <1>1, <3>1
      <3>3. u[i + 1].found_match = t[i + 1].found_match /\ u[i + 1].returnval = t[i + 1].returnval
        BY <1>1, <1>2, <3>1 DEF f, g
      <3> QED
        BY <3>1, <3>2, <3>3 DEF Linked
    <2> QED
      BY <1>1, <2>1, <2>2 DEF AnsweredOK
  <1>6. VoicedOK(u, q, e2, r)
    <2> SUFFICES ASSUME NEW i \in 1..n, Ends(u, i), u[i].return # -1
                 PROVE  Voiced(u[i], Told(u, i, q.out), u, i, e2, r)
      BY <1>1 DEF VoicedOK
    <2>1. Ends(t, i) /\ (Outer(u, i) <=> Outer(t, i)) /\ Told(u, i, q.out) = Told(t, i, p.out)
      <3>1. i # n => Told(u, i, q.out) = Told(t, i, p.out)
        BY <1>1
      <3>2. i = n => Told(u, i, q.out) = Told(t, i, p.out)
        BY <1>1, <1>2
      <3> QED
        BY <1>1, <3>1, <3>2
    <2>2. u[i].returnval = t[i].returnval /\ t[i].return # -1
      <3>1. i = n => u[i] = g /\ t[i] = f
        BY DEF f, g
      <3> QED
        BY <1>1, <1>2, <3>1 DEF Running
    <2>3. Voiced(t[i], Told(t, i, p.out), t, i, e, r)
      BY <1>4, <2>1, <2>2 DEF VoicedOK, n
    <2> HIDE DEF Outer, Told
    <2> QED
      BY <1>2, <2>1, <2>2, <2>3 DEF Voiced
  <1>7. HushedOK(u, q, e2)
    <2> SUFFICES ASSUME ~flags.continue, q.printed \/ ~q.firstline, ~e2
                 PROVE  \E i \in 1..n : Ends(u, i) /\ u[i].returnval = 1
      BY <1>1 DEF HushedOK
    <2>1. PICK i \in 1..n : Ends(t, i) /\ t[i].returnval = 1
      BY <1>2, <1>4 DEF HushedOK, n
    <2>2. u[i].returnval = t[i].returnval
      BY <1>1, <1>2 DEF f, g
    <2> QED
      BY <1>1, <2>1, <2>2
  <1>8. NullsOK(u, q)
    BY <1>1, <1>2, <1>4 DEF NullsOK, n
  <1>9. GroupOK(u, q)
    <2>1. CASE q.group = p.group
      BY <1>1, <1>2, <1>4, <2>1 DEF GroupOK, n
    <2>2. CASE p.out = << >> /\ \A i \in 1..n : t[i].saved_out = << >>
      <3>1. About(<< >>, q.group)
        BY DEF About
      <3> QED
        BY <1>1, <1>2, <2>2, <3>1 DEF GroupOK
    <2>3. CASE flags.continue \/ q.flushed
      BY <2>3 DEF GroupOK
    <2> QED
      BY <1>2, <2>1, <2>2, <2>3
  <1> QED
    BY <1>5, <1>6, <1>7, <1>8, <1>9 DEF VoiceOK

\* Texts of the group g and separators are numbers that are not Null.
LEMMA SaidTokens ==
  ASSUME NEW b \in Seq(Int), NEW c \in Seq(Int), NEW g \in Nat, Said(b, c, g)
  PROVE  /\ NullFree(b) => NullFree(c)
         /\ About(b, g) => About(c, g)
         /\ b # << >> => c # << >>
  <1>1. Len(b) \in Nat /\ Len(c) \in Nat /\ DOMAIN b = 1..Len(b) /\ DOMAIN c = 1..Len(c)
    OBVIOUS
  <1>2. \A k \in 1..Len(c) : (k \in 1..Len(b) /\ c[k] = b[k]) \/ c[k] \in {Separator, g}
    <2>1. \A k \in 1..Len(c) : k \in 1..Len(b) \/ k \in (Len(b) + 1)..Len(c)
      BY <1>1
    <2> QED
      BY <2>1 DEF Said
  <1>3. Separator # Null /\ g # Null /\ ~(Separator > 0)
    BY DEF Separator, Null
  <1>4. NullFree(b) => NullFree(c)
    BY <1>1, <1>2, <1>3 DEF NullFree
  <1>5. About(b, g) => About(c, g)
    BY <1>1, <1>2, <1>3 DEF About
  <1>6. b # << >> => c # << >>
    <2> SUFFICES ASSUME c = << >>, b # << >> PROVE FALSE
      OBVIOUS
    <2>1. Len(c) = 0
      OBVIOUS
    <2>2. Len(b) # 0
      OBVIOUS
    <2> QED
      BY <1>1, <2>1, <2>2 DEF Said
  <1> QED
    BY <1>4, <1>5, <1>6

LEMMA SaidSame ==
  ASSUME NEW b \in Seq(Int), NEW g
  PROVE  Said(b, b, g)
  BY DEF Said

\* What a rule does keeps value and output in step.
LEMMA OutcomeVoice ==
  ASSUME NEW t, NEW u, Replaces(t, u), NEW p \in Prints, NEW q, NEW r,
         VoiceOK(t, p, err, r), t[Len(t)].return = Running,
         Outcome(t[Len(t)], p, u[Len(t)], q)
  PROVE  VoiceOK(u, q, err, r)
  <1> DEFINE n == Len(t)
             f == t[n]
             g == u[n]
  <1>1. /\ n \in Nat /\ n >= 1 /\ n \in 1..n /\ Len(u) = n
        /\ \A i \in 1..n :
              /\ t[i] \in Frames /\ u[i] \in Frames
              /\ i # n => u[i] = t[i] /\ i \in 1..(n - 1)
              /\ u[i].via = t[i].via /\ u[i].saved_out = t[i].saved_out
              /\ Ends(u, i) <=> Ends(t, i)
              /\ Outer(u, i) <=> Outer(t, i)
              /\ i # n => /\ \A o : Told(u, i, o) = t[i + 1].saved_out
                          /\ \A o : Told(t, i, o) = t[i + 1].saved_out
              /\ i = n => \A o : Told(u, i, o) = o /\ Told(t, i, o) = o
    BY ReplacesPlaces DEF Replaces
  <1>2. Ends(t, n) /\ Ends(u, n)
    BY ReplacesPlaces DEF Replaces
  <1>3. g.rules = f.rules /\ g.via = f.via /\ g.saved_out = f.saved_out
    BY DEF Replaces, Alike
  <1>4. /\ AnsweredOK(t, err) /\ VoicedOK(t, p, err, r) /\ HushedOK(t, p, err)
        /\ NullsOK(t, p) /\ GroupOK(t, p)
    BY DEF VoiceOK
  <1>5. /\ q \in Prints /\ q.group = p.group /\ (p.flushed => q.flushed)
        /\ err => q.out = p.out
        /\ Passes(f, p, g, q) \/ Applies(f, p, g, q) \/ Speaks(f, p, g, q) \/ Stops(f, p, g, q)
    BY DEF Outcome
  <1>6. f.return = Running /\ f \in Frames /\ g \in Frames
    BY <1>1
  <1> HIDE DEF n, f, g
  <1>7. p.out \in Seq(Int) /\ q.out \in Seq(Int) /\ p.group \in Nat
    BY <1>5 DEF Prints
  <1>8. Said(p.out, q.out, p.group)
    BY <1>5, <1>7, SaidSame DEF Passes, Applies, Speaks, Stops
  <1>9. /\ f.returnval \in {0, 1} /\ g.returnval \in {0, 1}
        /\ f.found_match \in BOOLEAN /\ g.found_match \in BOOLEAN
    BY <1>6 DEF Frames
  <1>10. /\ f.returnval = 1 => g.returnval = 1
         /\ f.found_match => g.found_match
         /\ g.returnval # f.returnval => g.found_match
         /\ g.return = Running \/ (g.return = 1 /\ g.returnval = 1)
    BY <1>5, <1>6, <1>9 DEF Passes, Applies, Speaks, Stops, Answers
  <1>11. Answered(f, err)
    BY <1>1, <1>4 DEF AnsweredOK, f, n
  <1>12. Answered(g, err)
    <2>1. g.return \in {0, 1} => g.returnval = g.return
      BY <1>10 DEF Running
    <2>2. g.return # -1
      BY <1>10 DEF Running
    <2>3. g.found_match /\ ~flags.nodesc => g.returnval = 1
      <3>1. CASE Passes(f, p, g, q)
        BY <1>11, <3>1 DEF Passes, Answers, Answered
      <3>2. CASE Applies(f, p, g, q)
        BY <1>11, <3>2 DEF Applies, Answered
      <3> QED
        BY <1>5, <3>1, <3>2 DEF Speaks, Stops
    <2>4. g.via # "use" /\ g.returnval = 1 => g.found_match
      BY <1>3, <1>9, <1>10, <1>11 DEF Answered
    <2> QED
      BY <1>3, <1>11, <2>1, <2>2, <2>3, <2>4 DEF Answered
  <1>13. AnsweredOK(u, err)
    <2>1. ASSUME NEW i \in 1..n PROVE Answered(u[i], err)
      <3>1. CASE i = n
        BY <1>12, <3>1 DEF g
      <3>2. CASE i # n
        BY <1>1, <1>4, <3>2 DEF AnsweredOK, n
      <3> QED
        BY <3>1, <3>2
    <2>2. ASSUME NEW i \in 1..(n - 1) PROVE Linked(u[i], u[i + 1])
      <3>1. Linked(t[i], t[i + 1]) /\ i \in 1..n /\ i # n /\ i + 1 \in 1..n
        BY <1>1, <1>4 DEF AnsweredOK, n
      <3>2. u[i] = t[i]
        BY <1>1, <3>1
      <3>3. CASE i + 1 # n
        <4>1. u[i + 1] = t[i + 1]
          BY <1>1, <3>1, <3>3
        <4> QED
          BY <3>1, <3>2, <4>1
      <3>4. CASE i + 1 = n
        <4>1. u[i + 1] = g /\ t[i + 1] = f
          BY <3>4 DEF f, g
        <4>2. Linked(t[i], f)
          BY <3>1, <4>1
        <4>3. Linked(t[i], g)
          BY <1>3, <1>9, <1>10, <4>2 DEF Linked
        <4> QED
          BY <3>2, <4>1, <4>3
      <3> QED
        BY <3>3, <3>4
    <2> QED
      BY <1>1, <2>1, <2>2 DEF AnsweredOK
  <1>14. Voiced(f, p.out, t, n, err, r)
    <2>1. Told(t, n, p.out) = p.out /\ f.return # -1 /\ t[n] = f
      BY <1>1, <1>6 DEF Running, f
    <2>2. Ends(t, n) /\ t[n].return # -1 =>
            Voiced(t[n], Told(t, n, p.out), t, n, err, r)
      BY <1>1, <1>4 DEF VoicedOK, n
    <2> HIDE DEF Ends, Outer, Told
    <2> QED
      BY <1>2, <2>1, <2>2
  <1>15. ASSUME ~flags.continue, ~p.firstline, Outer(t, n) PROVE err \/ f.returnval = 1
    <2>1. err \/ \E i \in 1..n : Ends(t, i) /\ t[i].returnval = 1
      BY <1>4, <1>15 DEF HushedOK, n
    <2>2. ASSUME NEW i \in 1..n, Ends(t, i) PROVE i = n
      <3>1. i # n => i + 1 \in 1..n
        BY <1>1
      <3> QED
        BY <1>15, <2>2, <3>1 DEF Ends, Outer, n
    <2> QED
      BY <2>1, <2>2 DEF f
  <1>16. Voiced(g, q.out, t, n, err, r)
    <2>1. Voiced(f, p.out, t, n, err, r)
      BY <1>14
    <2>2. ~flags.continue /\ ~p.firstline /\ Outer(t, n) => err \/ f.returnval = 1
      BY <1>15
    <2>3. p.out # << >> => q.out # << >>
      BY <1>7, <1>8, SaidTokens
    <2> HIDE DEF Outer
    <2>4. CASE Passes(f, p, g, q)
      BY <2>1, <2>4 DEF Passes, Answers, Voiced
    <2>5. CASE Applies(f, p, g, q)
      BY <2>1, <2>5 DEF Applies, Voiced
    <2>6. CASE Speaks(f, p, g, q)
      BY <2>6 DEF Speaks, Voiced
    <2>7. CASE Stops(f, p, g, q)
      <3>1. g.returnval = 1 /\ flags.annotate
        BY <2>7 DEF Stops
      <3>2. ASSUME Outer(t, n), SpeakingCalls PROVE err \/ q.out # << >>
        <4>1. CASE p.firstline \/ flags.continue
          BY <2>7, <4>1 DEF Stops
        <4>2. CASE ~(p.firstline \/ flags.continue)
          <5>1. err \/ p.out # << >>
            BY <2>1, <2>2, <3>2, <4>2 DEF Voiced
          <5> QED
            BY <2>3, <5>1
        <4> QED
          BY <4>1, <4>2
      <3> QED
        BY <3>1, <3>2 DEF Voiced
    <2> QED
      BY <1>5, <2>4, <2>5, <2>6, <2>7
  <1>17. VoicedOK(u, q, err, r)
    <2> SUFFICES ASSUME NEW i \in 1..n, Ends(u, i), u[i].return # -1
                 PROVE  Voiced(u[i], Told(u, i, q.out), u, i, err, r)
      BY <1>1 DEF VoicedOK
    <2>1. (Outer(u, i) <=> Outer(t, i)) /\ Ends(t, i)
      BY <1>1
    <2>2. CASE i = n
      <3>1. Told(u, i, q.out) = q.out /\ u[i] = g
        BY <1>1, <2>2 DEF g
      <3> HIDE DEF Outer, Told
      <3> QED
        BY <1>16, <2>1, <2>2, <3>1 DEF Voiced
    <2>3. CASE i # n
      <3>1. /\ u[i] = t[i] /\ Told(u, i, q.out) = Told(t, i, p.out)
        BY <1>1, <2>3
      <3>2. Voiced(t[i], Told(t, i, p.out), t, i, err, r)
        BY <1>4, <2>1, <3>1 DEF VoicedOK, n
      <3> HIDE DEF Outer, Told
      <3> QED
        BY <2>1, <3>1, <3>2 DEF Voiced
    <2> QED
      BY <2>2, <2>3
  <1>18. HushedOK(u, q, err)
    <2> SUFFICES ASSUME ~flags.continue, q.printed \/ ~q.firstline, ~err
                 PROVE  \E i \in 1..n : Ends(u, i) /\ u[i].returnval = 1
      BY <1>1 DEF HushedOK
    <2>1. CASE g.returnval = 1
      BY <1>1, <1>2, <2>1 DEF g
    <2>2. CASE g.returnval # 1
      <3>1. p.printed \/ ~p.firstline
        BY <1>5, <2>2 DEF Passes, Applies, Speaks, Stops
      <3>2. PICK i \in 1..n : Ends(t, i) /\ t[i].returnval = 1
        BY <1>4, <3>1 DEF HushedOK, n
      <3>3. i # n
        BY <1>10, <2>2, <3>2 DEF f
      <3> QED
        BY <1>1, <3>2, <3>3
    <2> QED
      BY <2>1, <2>2
  <1>19. NullsOK(u, q)
    <2>1. NullFree(p.out) => NullFree(q.out)
      BY <1>7, <1>8, SaidTokens
    <2> QED
      BY <1>1, <1>4, <2>1 DEF NullsOK, n
  <1>20. GroupOK(u, q)
    <2>1. About(p.out, p.group) => About(q.out, p.group)
      BY <1>7, <1>8, SaidTokens
    <2> QED
      BY <1>1, <1>4, <1>5, <2>1 DEF GroupOK, n
  <1> QED
    BY <1>13, <1>17, <1>18, <1>19, <1>20 DEF VoiceOK

\* The last activation calls another.
Pushes(t, u) ==
  /\ t \in Seq(Frames) /\ u \in Seq(Frames) /\ t # << >> /\ Len(u) = Len(t) + 1
  /\ \A i \in 1..Len(t) : u[i] = t[i]

LEMMA PushVoice ==
  ASSUME NEW t, NEW u, Pushes(t, u), NEW p, NEW q, NEW e, NEW r, VoiceOK(t, p, e, r),
         NEW c, c = u[Len(u)], Answered(c, e), Linked(t[Len(t)], c), SamePrint(p, q),
         \/ /\ c.via = "use" /\ c.returnval = t[Len(t)].returnval /\ q.out = p.out
            /\ c.saved_out = << >>
         \/ /\ c.via = "indirect" /\ c.returnval = 0 /\ q.out = << >>
            /\ c.saved_out = p.out
  PROVE  VoiceOK(u, q, e, r)
  <1> DEFINE n == Len(t)
             m == n + 1
             f == t[n]
  <1>1. /\ n \in Nat /\ n >= 1 /\ n \in 1..n /\ m \in Nat /\ m # n /\ n \in 1..m /\ m \in 1..m
        /\ Len(u) = m /\ u[m] = c /\ u[n] = f
        /\ \A i \in 1..m : i = m \/ i \in 1..n
        /\ \A i \in 1..n : u[i] = t[i] /\ i # m /\ i \in 1..m
        /\ \A i \in 1..n : i = n \/ (i \in 1..(n - 1) /\ i + 1 \in 1..n)
        /\ \A i \in 1..(m - 1) : i \in 1..n
    BY DEF Pushes
  <1>2. /\ AnsweredOK(t, e) /\ VoicedOK(t, p, e, r) /\ HushedOK(t, p, e)
        /\ NullsOK(t, p) /\ GroupOK(t, p)
    BY DEF VoiceOK
  <1>3. \/ /\ c.via = "use" /\ c.returnval = f.returnval /\ q.out = p.out
           /\ c.saved_out = << >>
        \/ /\ c.via = "indirect" /\ c.returnval = 0 /\ q.out = << >>
           /\ c.saved_out = p.out
    OBVIOUS
  <1>4. Linked(f, c)
    OBVIOUS
  <1> HIDE DEF f
  <1>5. f.return = Running /\ f = t[n]
    BY <1>4 DEF Linked, f
  <1> HIDE DEF n, m
  <1>6. ASSUME NEW i \in 1..n, i # n
        PROVE  /\ i # Len(t) /\ i # Len(u) /\ u[i + 1] = t[i + 1]
               /\ (Ends(u, i) <=> Ends(t, i))
               /\ \A o : Told(u, i, o) = t[i + 1].saved_out /\ Told(t, i, o) = t[i + 1].saved_out
    <2>1. i # Len(t) /\ i # Len(u) /\ i + 1 \in 1..n
      BY <1>1, <1>6 DEF n
    <2>2. u[i + 1] = t[i + 1]
      BY <1>1, <2>1
    <2> QED
      BY <2>1, <2>2 DEF Ends, Told
  <1>7. /\ Ends(t, n) /\ Ends(u, m) /\ (Ends(u, n) <=> c.via = "indirect")
        /\ \A o : Told(u, m, o) = o /\ Told(u, n, o) = c.saved_out /\ Told(t, n, o) = o
    <2>1. n = Len(t) /\ m = Len(u) /\ n # Len(u) /\ u[n + 1] = c
      BY <1>1 DEF n, m
    <2> QED
      BY <2>1 DEF Ends, Told
  <1>8. /\ \A i \in 1..n : Outer(u, i) <=> Outer(t, i)
        /\ Outer(u, m) <=> Outer(t, n) /\ c.via # "indirect"
    <2>1. ASSUME NEW i \in 1..n PROVE Outer(u, i) <=> Outer(t, i)
      <3>1. \A k \in 1..i : k \in 1..n
        BY <1>1
      <3> QED
        BY <1>1, <3>1 DEF Outer
    <2>2. Outer(u, m) <=> Outer(u, n) /\ c.via # "indirect"
      <3>1. \A k : k \in 1..m <=> k \in 1..n \/ k = m
        BY <1>1
      <3> QED
        BY <1>1, <3>1 DEF Outer
    <2> QED
      BY <1>1, <2>1, <2>2
  <1>9. AnsweredOK(u, e)
    <2>1. \A i \in 1..m : Answered(u[i], e)
      BY <1>1, <1>2 DEF AnsweredOK, n
    <2>2. ASSUME NEW i \in 1..(m - 1) PROVE Linked(u[i], u[i + 1])
      <3>1. i \in 1..n
        BY <1>1
      <3>2. CASE i = n
        <4>1. u[i] = f /\ u[i + 1] = c
          BY <1>1, <3>2 DEF m
        <4> QED
          BY <1>4, <4>1
      <3>3. CASE i # n
        <4>1. u[i] = t[i] /\ u[i + 1] = t[i + 1] /\ i \in 1..(n - 1)
          BY <1>1, <1>6, <3>1, <3>3
        <4> QED
          BY <1>2, <4>1 DEF AnsweredOK, n
      <3> QED
        BY <3>2, <3>3
    <2> QED
      BY <1>1, <2>1, <2>2 DEF AnsweredOK
  <1>10. Voiced(f, p.out, t, n, e, r)
    <2>1. Told(t, n, p.out) = p.out /\ f.return # -1
      BY <1>5, <1>7 DEF Running
    <2>2. Ends(t, n) /\ t[n].return # -1 =>
            Voiced(t[n], Told(t, n, p.out), t, n, e, r)
      BY <1>1, <1>2 DEF VoicedOK, n
    <2> HIDE DEF Ends, Told
    <2> QED
      BY <1>5, <1>7, <2>1, <2>2
  <1>11. VoicedOK(u, q, e, r)
    <2> SUFFICES ASSUME NEW i \in 1..m, Ends(u, i), u[i].return # -1
                 PROVE  Voiced(u[i], Told(u, i, q.out), u, i, e, r)
      BY <1>1 DEF VoicedOK
    <2>1. CASE i = m
      <3>1. Told(u, i, q.out) = q.out /\ u[i] = c
        BY <1>1, <1>7, <2>1
      <3>2. Voiced(c, q.out, u, m, e, r)
        <4> HIDE DEF Outer
        <4> QED
          BY <1>3, <1>8, <1>10 DEF Voiced
      <3> QED
        BY <2>1, <3>1, <3>2
    <2>2. CASE i = n
      <3>1. c.via = "indirect"
        BY <1>7, <2>2
      <3>2. Told(u, i, q.out) = p.out /\ u[i] = f
        BY <1>1, <1>3, <1>7, <2>2, <3>1
      <3>3. Voiced(f, p.out, u, n, e, r)
        <4> HIDE DEF Outer
        <4> QED
          BY <1>1, <1>8, <1>10 DEF Voiced
      <3> QED
        BY <2>2, <3>2, <3>3
    <2>3. CASE i \in 1..n /\ i # n
      <3>1. Told(u, i, q.out) = Told(t, i, p.out) /\ u[i] = t[i] /\ Ends(t, i)
        BY <1>1, <1>6, <2>3
      <3>2. Voiced(t[i], Told(t, i, p.out), t, i, e, r)
        BY <1>2, <2>3, <3>1 DEF VoicedOK, n
      <3> HIDE DEF Outer, Told
      <3> QED
        BY <1>8, <2>3, <3>1, <3>2 DEF Voiced
    <2> QED
      BY <1>1, <2>1, <2>2, <2>3
  <1>12. HushedOK(u, q, e)
    <2> SUFFICES ASSUME ~flags.continue, q.printed \/ ~q.firstline, ~e
                 PROVE  \E i \in 1..m : Ends(u, i) /\ u[i].returnval = 1
      BY <1>1 DEF HushedOK
    <2>1. PICK i \in 1..n : Ends(t, i) /\ t[i].returnval = 1
      BY <1>2 DEF HushedOK, SamePrint, n
    <2>2. CASE i # n
      BY <1>1, <1>6, <2>1, <2>2
    <2>3. CASE i = n
      <3>1. f.returnval = 1
        BY <2>1, <2>3 DEF f
      <3> QED
        BY <1>1, <1>3, <1>7, <3>1
    <2> QED
      BY <2>2, <2>3
  <1>13. NullsOK(u, q)
    <2>1. NullFree(<< >>)
      BY DEF NullFree
    <2> SUFFICES ASSUME ~flags.annotate, SpeakingCalls
                 PROVE  NullFree(q.out) /\ \A i \in 1..m : NullFree(u[i].saved_out)
      BY <1>1 DEF NullsOK
    <2>2. NullFree(p.out) /\ \A i \in 1..n : NullFree(t[i].saved_out)
      BY <1>2 DEF NullsOK, n
    <2>3. NullFree(c.saved_out) /\ NullFree(q.out)
      BY <1>3, <2>1, <2>2
    <2> QED
      BY <1>1, <2>2, <2>3
  <1>14. GroupOK(u, q)
    <2>1. About(<< >>, p.group)
      BY DEF About
    <2> SUFFICES ASSUME ~flags.continue, ~q.flushed
                 PROVE  /\ About(q.out, q.group)
                        /\ \A i \in 1..m : About(u[i].saved_out, q.group)
      BY <1>1 DEF GroupOK
    <2>2. /\ About(p.out, p.group) /\ \A i \in 1..n : About(t[i].saved_out, p.group)
          /\ q.group = p.group
      BY <1>2 DEF GroupOK, SamePrint, n
    <2>3. About(c.saved_out, q.group) /\ About(q.out, q.group)
      BY <1>3, <2>1, <2>2
    <2> QED
      BY <1>1, <2>2, <2>3
  <1> QED
    BY <1>9, <1>11, <1>12, <1>13, <1>14 DEF VoiceOK

\* The last activation has returned to the one that called it.
Pops(t, u) ==
  /\ t \in Seq(Frames) /\ u \in Seq(Frames) /\ u # << >> /\ Len(t) = Len(u) + 1
  /\ \A i \in 1..(Len(u) - 1) : u[i] = t[i]
  /\ Alike(t[Len(u)], u[Len(u)])

LEMMA PopPositions ==
  ASSUME NEW t, NEW u, Pops(t, u)
  PROVE  LET m == Len(u)
             n == m + 1
         IN /\ m \in Nat /\ m >= 1 /\ m \in 1..m /\ n \in Nat /\ m # n /\ m \in 1..n /\ n \in 1..n
            /\ Len(t) = n
            /\ \A i \in 1..n : i = n \/ i \in 1..m
            /\ \A i \in 1..m : i # n /\ i \in 1..n
            /\ \A i \in 1..m : i = m \/ (i \in 1..(m - 1) /\ i + 1 \in 1..m /\ u[i] = t[i])
            /\ \A i \in 1..(m - 1) : i \in 1..m /\ i # m /\ i \in 1..(n - 1) /\ u[i] = t[i]
  <1> DEFINE m == Len(u)
             n == m + 1
  <1>1. /\ m \in Nat /\ m >= 1 /\ Len(t) = n
        /\ \A i \in 1..(m - 1) : u[i] = t[i]
    BY DEF Pops
  <1> HIDE DEF m
  <1>2. /\ m \in 1..m /\ n \in Nat /\ m # n /\ m \in 1..n /\ n \in 1..n
        /\ \A i \in 1..n : i = n \/ i \in 1..m
        /\ \A i \in 1..m : i # n /\ i \in 1..n
    BY <1>1
  <1>3. \A i \in 1..(m - 1) : i \in 1..m /\ i # m /\ i \in 1..(n - 1) /\ i + 1 \in 1..m
    BY <1>1
  <1>4. \A i \in 1..m : i = m \/ i \in 1..(m - 1)
    BY <1>1
  <1> HIDE DEF n
  <1>5. \A i \in 1..m : i = m \/ (i \in 1..(m - 1) /\ i + 1 \in 1..m /\ u[i] = t[i])
    BY <1>1, <1>3, <1>4
  <1>6. \A i \in 1..(m - 1) : i \in 1..m /\ i # m /\ i \in 1..(n - 1) /\ u[i] = t[i]
    BY <1>1, <1>3
  <1> QED
    BY <1>1, <1>2, <1>5, <1>6, Zenon DEF m, n

LEMMA PopVoice ==
  ASSUME NEW t, NEW u, Pops(t, u), NEW p, NEW q, NEW e, NEW e2, NEW r,
         VoiceOK(t, p, e, r), e => e2,
         NEW a, a = t[Len(u)], NEW b, b = t[Len(t)], NEW f, f = u[Len(u)],
         Answered(f, e2), a.found_match => f.found_match,
         a.returnval = 1 => f.returnval = 1,
         f.returnval = 1 => f.found_match \/ a.returnval = 1,
         b.returnval = 1 => e2 \/ f.returnval = 1,
         f.return # -1 => Voiced(f, q.out, u, Len(u), e2, r),
         q.printed = p.printed, q.firstline = p.firstline, q.group = p.group,
         p.flushed => q.flushed,
         ~flags.annotate /\ SpeakingCalls /\ NullFree(p.out) /\ NullFree(b.saved_out) =>
           NullFree(q.out),
         About(p.out, p.group) /\ About(b.saved_out, p.group) => About(q.out, p.group)
  PROVE  VoiceOK(u, q, e2, r)
  <1> DEFINE m == Len(u)
             n == m + 1
  <1>1. /\ m \in Nat /\ m >= 1 /\ m \in 1..m /\ n \in Nat /\ m # n /\ m \in 1..n /\ n \in 1..n
        /\ Len(t) = n /\ t[n] = b /\ t[m] = a /\ u[m] = f
        /\ \A i \in 1..n : i = n \/ i \in 1..m
        /\ \A i \in 1..m : i # n /\ i \in 1..n
        /\ \A i \in 1..m : i = m \/ (i \in 1..(m - 1) /\ i + 1 \in 1..m /\ u[i] = t[i])
        /\ \A i \in 1..(m - 1) : i \in 1..m /\ i # m /\ i \in 1..(n - 1) /\ u[i] = t[i]
    BY PopPositions, Zenon
  <1>2. /\ AnsweredOK(t, e) /\ VoicedOK(t, p, e, r) /\ HushedOK(t, p, e)
        /\ NullsOK(t, p) /\ GroupOK(t, p)
    BY DEF VoiceOK
  <1>3. f.via = a.via /\ f.saved_out = a.saved_out
    BY DEF Pops, Alike
  <1>4. /\ a.returnval \in {0, 1} /\ f.returnval \in {0, 1}
        /\ a \in Frames /\ f \in Frames
    <2>1. a \in Frames /\ f \in Frames
      BY <1>1 DEF Pops
    <2> QED
      BY <2>1 DEF Frames
  <1> HIDE DEF m, n
  <1>5. ASSUME NEW i \in 1..m, i # m
        PROVE  /\ u[i] = t[i] /\ i # Len(t) /\ i # Len(u)
               /\ u[i + 1].via = t[i + 1].via /\ u[i + 1].saved_out = t[i + 1].saved_out
               /\ (Ends(u, i) <=> Ends(t, i))
               /\ \A o : Told(u, i, o) = t[i + 1].saved_out /\ Told(t, i, o) = t[i + 1].saved_out
    <2>1. i # Len(t) /\ i # Len(u) /\ i + 1 \in 1..m /\ u[i] = t[i]
      BY <1>1, <1>5 DEF m
    <2>2. u[i + 1].via = t[i + 1].via /\ u[i + 1].saved_out = t[i + 1].saved_out
      BY <1>1, <1>3, <2>1
    <2> QED
      BY <2>1, <2>2 DEF Ends, Told
  <1>6. Ends(u, m) /\ \A o : Told(u, m, o) = o
    BY DEF Ends, Told, m
  <1>7. \A i \in 1..m : Outer(u, i) <=> Outer(t, i)
    <2> SUFFICES ASSUME NEW i \in 1..m PROVE Outer(u, i) <=> Outer(t, i)
      OBVIOUS
    <2>1. \A k \in 1..i : k \in 1..m
      BY <1>1
    <2>2. \A k \in 1..m : u[k].via = t[k].via
      BY <1>1, <1>3
    <2> QED
      BY <2>1, <2>2 DEF Outer
  <1>8. AnsweredOK(u, e2)
    <2>1. ASSUME NEW i \in 1..m PROVE Answered(u[i], e2)
      <3>1. CASE i = m
        BY <1>1, <3>1
      <3>2. CASE i # m
        <4>1. Answered(t[i], e) /\ u[i] = t[i]
          BY <1>1, <1>2, <1>5, <3>2 DEF AnsweredOK
        <4> QED
          BY <4>1 DEF Answered
      <3> QED
        BY <3>1, <3>2
    <2>2. ASSUME NEW i \in 1..(m - 1) PROVE Linked(u[i], u[i + 1])
      <3>1. i \in 1..m /\ i # m /\ u[i] = t[i] /\ i + 1 \in 1..m /\ i \in 1..(n - 1)
        BY <1>1
      <3>2. Linked(t[i], t[i + 1])
        BY <1>1, <1>2, <3>1 DEF AnsweredOK
      <3>3. CASE i + 1 # m
        <4>1. u[i + 1] = t[i + 1]
          BY <1>1, <3>1, <3>3
        <4> QED
          BY <3>1, <3>2, <4>1
      <3>4. CASE i + 1 = m
        <4>1. Linked(t[i], a)
          BY <1>1, <3>2, <3>4
        <4>2. Linked(t[i], f)
          BY <1>3, <1>4, <4>1 DEF Linked
        <4> QED
          BY <1>1, <3>1, <3>4, <4>2
      <3> QED
        BY <3>3, <3>4
    <2> QED
      BY <2>1, <2>2 DEF AnsweredOK, m
  <1>9. VoicedOK(u, q, e2, r)
    <2> SUFFICES ASSUME NEW i \in 1..m, Ends(u, i), u[i].return # -1
                 PROVE  Voiced(u[i], Told(u, i, q.out), u, i, e2, r)
      BY DEF VoicedOK, m
    <2>1. CASE i = m
      <3>1. Told(u, i, q.out) = q.out /\ u[i] = f
        BY <1>1, <1>6, <2>1
      <3> QED
        BY <2>1, <3>1 DEF m
    <2>2. CASE i # m
      <3>1. Told(u, i, q.out) = Told(t, i, p.out) /\ u[i] = t[i] /\ Ends(t, i) /\ i \in 1..n
        BY <1>1, <1>5, <2>2
      <3>2. Voiced(t[i], Told(t, i, p.out), t, i, e, r)
        BY <1>1, <1>2, <2>2, <3>1 DEF VoicedOK
      <3> HIDE DEF Outer, Told
      <3> QED
        BY <1>7, <2>2, <3>1, <3>2 DEF Voiced
    <2> QED
      BY <2>1, <2>2
  <1>10. HushedOK(u, q, e2)
    <2> SUFFICES ASSUME ~flags.continue, q.printed \/ ~q.firstline, ~e2
                 PROVE  \E i \in 1..m : Ends(u, i) /\ u[i].returnval = 1
      BY DEF HushedOK, m
    <2>1. PICK i \in 1..n : Ends(t, i) /\ t[i].returnval = 1
      BY <1>1, <1>2 DEF HushedOK
    <2>2. CASE i = n
      BY <1>1, <1>6, <2>1, <2>2
    <2>3. CASE i = m
      BY <1>1, <1>6, <2>1, <2>3
    <2>4. CASE i \in 1..m /\ i # m
      BY <1>5, <2>1, <2>4
    <2> QED
      BY <1>1, <2>2, <2>3, <2>4
  <1>11. NullsOK(u, q)
    <2> SUFFICES ASSUME ~flags.annotate, SpeakingCalls
                 PROVE  NullFree(q.out) /\ \A i \in 1..m : NullFree(u[i].saved_out)
      BY DEF NullsOK, m
    <2>1. NullFree(p.out) /\ \A i \in 1..n : NullFree(t[i].saved_out)
      BY <1>1, <1>2 DEF NullsOK
    <2>2. NullFree(q.out)
      BY <1>1, <2>1
    <2> QED
      BY <1>1, <1>3, <2>1, <2>2
  <1>12. GroupOK(u, q)
    <2> SUFFICES ASSUME ~flags.continue, ~q.flushed
                 PROVE  /\ About(q.out, q.group)
                        /\ \A i \in 1..m : About(u[i].saved_out, q.group)
      BY DEF GroupOK, m
    <2>1. About(p.out, p.group) /\ \A i \in 1..n : About(t[i].saved_out, p.group)
      BY <1>1, <1>2 DEF GroupOK
    <2>2. About(q.out, p.group)
      BY <1>1, <2>1
    <2> QED
      BY <1>1, <1>3, <2>1, <2>2
  <1> QED
    BY <1>8, <1>9, <1>10, <1>11, <1>12 DEF VoiceOK

-----------------------------------------------------------------------------
(* With MAGIC_CONTINUE.  What the activations have printed, put together, is a text *)
(* full; the buffers that indirect rules put aside, and the present one, are its    *)
(* pieces, that of the activation i + 1 beginning behind cut[i].                    *)

Parted(s) ==
  \A k \in DOMAIN s : \A j \in 1..(k - 1) :
    s[j] > 0 /\ s[k] > s[j] => \E m \in j..k : s[m] = Separator
Bounded(s, g) == \A k \in DOMAIN s : s[k] <= g
Ready(s, g) ==
  \A j \in DOMAIN s : s[j] > 0 /\ s[j] < g => \E m \in j..Len(s) : s[m] = Separator
HasText(s) == \E k \in DOMAIN s : s[k] > 0

\* A text of the group under examination may follow without a separator of its own; and
\* something may have been printed.
Asks(p) == p.firstline \/ (p.printed /\ ~flags.nodesc)
Started(p) == ~p.firstline \/ (p.printed /\ ~flags.nodesc)

FullOK(s, p) ==
  /\ Parted(s) /\ Bounded(s, p.group)
  /\ HasText(s) => Started(p)
  /\ Asks(p) => Ready(s, p.group)

Piece(b, full, x, y) ==
  Len(b) = y - x /\ \A k \in 1..Len(b) : b[k] = full[x + k]

Whole(t, out, full, cut) ==
  /\ full \in Seq(Int) /\ out \in Seq(Int) /\ Len(t) \in Nat \ {0}
  /\ \A i \in 1..Len(t) : cut[i] \in 0..Len(full) /\ t[i].saved_out \in Seq(Int)
  /\ \A i \in 1..(Len(t) - 1) : Piece(t[i + 1].saved_out, full, cut[i], cut[i + 1])
  /\ Piece(out, full, cut[Len(t)], Len(full))

SepOK(t, p, e) ==
  flags.continue /\ ~p.flushed /\ QuietCalls =>
    /\ Parted(p.out)
    /\ ~e => \E full, cut : Whole(t, p.out, full, cut) /\ FullOK(full, p)

\* A group that has printed something is not over.
SpokeOK(t, p, e) ==
  flags.continue /\ ~e /\ ~flags.nodesc =>
    /\ t[Len(t)].return # Running => t[Len(t)].cont_level = 0
    /\ ~p.flushed /\ p.printed =>
         \E i \in 1..Len(t) : t[i].found_match /\ t[i].cont_level > 0

LEMMA SepAppends ==
  ASSUME NEW s \in Seq(Int), NEW g \in Nat, Parted(s), Bounded(s, g)
  PROVE  LET c == Append(s, Separator)
         IN /\ c \in Seq(Int) /\ Parted(c) /\ Bounded(c, g) /\ Ready(c, g)
            /\ HasText(c) => HasText(s)
  <1> DEFINE c == Append(s, Separator)
             n == Len(s)
  <1>1. /\ n \in Nat /\ Separator \in Int /\ c \in Seq(Int) /\ Len(c) = n + 1
        /\ c[n + 1] = Separator /\ \A k \in 1..n : c[k] = s[k]
        /\ DOMAIN s = 1..n /\ DOMAIN c = 1..(n + 1)
    BY DEF Separator
  <1>2. \A k \in 1..(n + 1) : k = n + 1 \/ k \in 1..n
    BY <1>1
  <1> HIDE DEF c, n
  <1>3. Parted(c)
    <2> SUFFICES ASSUME NEW k \in 1..(n + 1), NEW j \in 1..(k - 1), c[j] > 0, c[k] > c[j]
                 PROVE  \E m \in j..k : c[m] = Separator
      BY <1>1 DEF Parted
    <2>1. j \in 1..n /\ c[j] = s[j]
      BY <1>1
    <2>2. k # n + 1
      BY <1>1, <2>1 DEF Separator
    <2>3. k \in 1..n /\ s[j] > 0 /\ s[k] > s[j]
      BY <1>1, <1>2, <2>1, <2>2
    <2>4. PICK m \in j..k : s[m] = Separator
      BY <1>1, <2>3 DEF Parted
    <2>5. m \in 1..n
      BY <1>1, <2>3, <2>4
    <2> QED
      BY <1>1, <2>4, <2>5
  <1>4. Bounded(c, g)
    BY <1>1, <1>2 DEF Bounded, Separator
  <1>5. Ready(c, g)
    <2> SUFFICES ASSUME NEW j \in 1..(n + 1) PROVE \E m \in j..(n + 1) : c[m] = Separator
      BY <1>1 DEF Ready
    <2>1. n + 1 \in j..(n + 1)
      BY <1>1
    <2> QED
      BY <1>1, <2>1
  <1>6. HasText(c) => HasText(s)
    BY <1>1, <1>2 DEF HasText, Separator
  <1> QED
    BY <1>1, <1>3, <1>4, <1>5, <1>6 DEF c

\* A text of the group, behind one that is ready for it, and one that is no text.
LEMMA TextAppends ==
  ASSUME NEW s \in Seq(Int), NEW g \in Nat, Parted(s), Bounded(s, g), NEW x \in Int,
         (x = g /\ Ready(s, g)) \/ x = Null
  PROVE  LET c == Append(s, x)
         IN /\ c \in Seq(Int) /\ Parted(c) /\ Bounded(c, g)
            /\ Ready(s, g) => Ready(c, g)
            /\ x = Null /\ HasText(c) => HasText(s)
  <1> DEFINE c == Append(s, x)
             n == Len(s)
  <1>1. /\ n \in Nat /\ c \in Seq(Int) /\ Len(c) = n + 1
        /\ c[n + 1] = x /\ \A k \in 1..n : c[k] = s[k]
        /\ DOMAIN s = 1..n /\ DOMAIN c = 1..(n + 1) /\ Len(s) = n
        /\ \A k \in 1..n : s[k] \in Int
    OBVIOUS
  <1>2. \A k \in 1..(n + 1) : k = n + 1 \/ k \in 1..n
    BY <1>1
  <1> HIDE DEF c, n
  <1>3. Parted(c)
    <2> SUFFICES ASSUME NEW k \in 1..(n + 1), NEW j \in 1..(k - 1), c[j] > 0, c[k] > c[j]
                 PROVE  \E m \in j..k : c[m] = Separator
      BY <1>1 DEF Parted
    <2>1. j \in 1..n /\ c[j] = s[j]
      BY <1>1
    <2>2. CASE k = n + 1
      <3>1. x # Null /\ s[j] > 0 /\ s[j] < x
        BY <1>1, <2>1, <2>2 DEF Null
      <3>2. PICK m \in j..n : s[m] = Separator
        BY <1>1, <2>1, <3>1 DEF Ready
      <3>3. m \in 1..n /\ m \in j..k
        BY <1>1, <2>1, <2>2
      <3> QED
        BY <1>1, <3>2, <3>3
    <2>3. CASE k \in 1..n
      <3>1. s[j] > 0 /\ s[k] > s[j]
        BY <1>1, <2>1, <2>3
      <3>2. PICK m \in j..k : s[m] = Separator
        BY <1>1, <2>3, <3>1 DEF Parted
      <3>3. m \in 1..n
        BY <1>1, <2>3, <3>2
      <3> QED
        BY <1>1, <3>2, <3>3
    <2> QED
      BY <1>2, <2>2, <2>3
  <1>4. Bounded(c, g)
    BY <1>1, <1>2 DEF Bounded, Null
  <1>5. Ready(s, g) => Ready(c, g)
    <2> SUFFICES ASSUME Ready(s, g), NEW j \in 1..(n + 1), c[j] > 0, c[j] < g
                 PROVE  \E m \in j..(n + 1) : c[m] = Separator
      BY <1>1 DEF Ready
    <2>1. j \in 1..n /\ s[j] > 0 /\ s[j] < g
      <3>1. j # n + 1
        BY <1>1 DEF Null
      <3> QED
        BY <1>1, <1>2, <3>1
    <2>2. PICK m \in j..n : s[m] = Separator
      BY <1>1, <2>1 DEF Ready
    <2>3. m \in 1..n /\ m \in j..(n + 1)
      BY <1>1, <2>1
    <2> QED
      BY <1>1, <2>2, <2>3
  <1>6. x = Null /\ HasText(c) => HasText(s)
    BY <1>1, <1>2 DEF HasText, Null
  <1> QED
    BY <1>1, <1>3, <1>4, <1>5, <1>6 DEF c

\* The last piece is as well parted as the whole.
LEMMA PieceParted ==
  ASSUME NEW t, NEW out, NEW full, NEW cut, Whole(t, out, full, cut), Parted(full)
  PROVE  Parted(out)
  <1> DEFINE x == cut[Len(t)]
             n == Len(out)
  <1>1. /\ x \in 0..Len(full) /\ n = Len(full) - x /\ \A k \in 1..n : out[k] = full[x + k]
        /\ full \in Seq(Int) /\ out \in Seq(Int) /\ n \in Nat /\ Len(full) \in Nat
        /\ DOMAIN out = 1..n /\ DOMAIN full = 1..Len(full)
    <2>1. Len(t) \in 1..Len(t) /\ full \in Seq(Int) /\ out \in Seq(Int)
      BY DEF Whole
    <2> QED
      BY <2>1 DEF Whole, Piece
  <1> HIDE DEF x, n
  <1> SUFFICES ASSUME NEW k \in 1..n, NEW j \in 1..(k - 1), out[j] > 0, out[k] > out[j]
               PROVE  \E m \in j..k : out[m] = Separator
    BY <1>1 DEF Parted
  <1>2. /\ j \in 1..n /\ x + k \in 1..Len(full) /\ x + j \in 1..((x + k) - 1)
        /\ full[x + k] > full[x + j] /\ full[x + j] > 0
    <2>1. /\ k \in Nat /\ j \in Nat /\ x \in Nat /\ j >= 1 /\ j < k /\ x + k <= Len(full)
      BY <1>1
    <2>2. j \in 1..n /\ x + k \in 1..Len(full) /\ x + j \in 1..((x + k) - 1)
      BY <1>1, <2>1
    <2>3. out[k] = full[x + k] /\ out[j] = full[x + j]
      BY <1>1, <2>2
    <2> QED
      BY <2>2, <2>3
  <1>3. PICK m \in (x + j)..(x + k) : full[m] = Separator
    <2>1. \A v \in DOMAIN full : \A w \in 1..(v - 1) :
            full[w] > 0 /\ full[v] > full[w] => \E m \in w..v : full[m] = Separator
      BY DEF Parted
    <2>2. x + k \in DOMAIN full
      BY <1>1, <1>2
    <2> QED
      BY <1>2, <2>1, <2>2
  <1>4. m - x \in j..k /\ m - x \in 1..n /\ x + (m - x) = m
    BY <1>1, <1>2
  <1>5. out[m - x] = Separator
    BY <1>1, <1>3, <1>4
  <1> QED
    BY <1>4, <1>5

LEMMA WholeAppends ==
  ASSUME NEW t, NEW u, NEW out, NEW full, NEW cut, Whole(t, out, full, cut), NEW x \in Int,
         Len(u) = Len(t), \A i \in 1..Len(t) : u[i].saved_out = t[i].saved_out
  PROVE  /\ Whole(u, out, full, cut)
         /\ Whole(u, Append(out, x), Append(full, x), cut)
  <1> DEFINE n == Len(full)
             c == Append(full, x)
             o == Append(out, x)
             m == Len(t)
  <1>1. /\ full \in Seq(Int) /\ out \in Seq(Int) /\ m \in Nat \ {0} /\ m \in 1..m
        /\ \A i \in 1..m : cut[i] \in 0..n /\ t[i].saved_out \in Seq(Int)
        /\ \A i \in 1..(m - 1) : Piece(t[i + 1].saved_out, full, cut[i], cut[i + 1])
        /\ Piece(out, full, cut[m], n)
    BY DEF Whole
  <1>2. \A i \in 1..(m - 1) : i \in 1..m /\ i + 1 \in 1..m
    BY <1>1
  <1>3. Whole(u, out, full, cut)
    BY <1>1, <1>2 DEF Whole
  <1>4. /\ n \in Nat /\ Len(out) \in Nat /\ c \in Seq(Int) /\ o \in Seq(Int)
        /\ Len(c) = n + 1 /\ Len(o) = Len(out) + 1
        /\ c[n + 1] = x /\ \A k \in 1..n : c[k] = full[k]
        /\ o[Len(out) + 1] = x /\ \A k \in 1..Len(out) : o[k] = out[k]
    BY <1>1
  <1> HIDE DEF n, c, o, m
  <1>5. ASSUME NEW b \in Seq(Int), NEW y \in 0..n, NEW z \in 0..n, Piece(b, full, y, z)
        PROVE  Piece(b, c, y, z)
    <2>1. /\ Len(b) \in Nat /\ Len(b) = z - y /\ y \in Nat /\ z \in Nat /\ z <= n
          /\ \A k \in 1..Len(b) : b[k] = full[y + k]
      BY <1>4, <1>5 DEF Piece
    <2>2. \A k \in 1..Len(b) : y + k \in 1..n
      BY <1>4, <2>1
    <2> QED
      BY <1>4, <2>1, <2>2 DEF Piece
  <1>6. ASSUME NEW y \in 0..n, Piece(out, full, y, n)
        PROVE  Piece(o, c, y, n + 1)
    <2>1. /\ Len(out) \in Nat /\ Len(out) = n - y /\ y \in Nat
          /\ \A k \in 1..Len(out) : out[k] = full[y + k]
      BY <1>4, <1>6 DEF Piece
    <2>2. ASSUME NEW k \in 1..Len(o) PROVE o[k] = c[y + k]
      <3>1. CASE k \in 1..Len(out)
        <4>1. y + k \in 1..n
          BY <1>4, <2>1, <3>1
        <4> QED
          BY <1>4, <2>1, <3>1, <4>1
      <3>2. CASE k = Len(out) + 1
        <4>1. y + k = n + 1
          BY <1>4, <2>1, <3>2
        <4> QED
          BY <1>4, <3>2, <4>1
      <3> QED
        BY <1>4, <3>1, <3>2
    <2>3. Len(o) = (n + 1) - y
      BY <1>4, <2>1
    <2> QED
      BY <2>2, <2>3 DEF Piece
  <1>10. /\ \A i \in 1..(m - 1) : Piece(t[i + 1].saved_out, c, cut[i], cut[i + 1])
         /\ Piece(o, c, cut[m], n + 1)
    BY <1>1, <1>2, <1>5, <1>6
  <1>7. Len(u) = m /\ Len(t) = m /\ \A i \in 1..m : u[i].saved_out = t[i].saved_out
    BY DEF m
  <1>8. \A i \in 1..m : cut[i] \in 0..(n + 1)
    BY <1>1, <1>4
  <1>9. Whole(u, o, c, cut)
    BY <1>1, <1>2, <1>4, <1>7, <1>8, <1>10 DEF Whole
  <1> QED
    BY <1>3, <1>9 DEF c, o

\* What is printed in order lengthens the whole.
LEMMA OrderWhole ==
  ASSUME NEW t, NEW u, NEW out, NEW full, NEW cut, Whole(t, out, full, cut),
         Len(u) = Len(t), \A i \in 1..Len(t) : u[i].saved_out = t[i].saved_out,
         NEW g \in Nat, Parted(full), Bounded(full, g), NEW c, NEW needed,
         InOrder(out, c, g, needed), needed \/ Ready(full, g)
  PROVE  \E s : Whole(u, c, s, cut) /\ Parted(s) /\ Bounded(s, g) /\ Ready(s, g)
  <1>1. PICK a : /\ a = Append(out, Separator) \/ (a = out /\ ~needed)
                 /\ c = a \/ c = Append(a, g)
    BY DEF InOrder
  <1>2. PICK s : /\ s \in Seq(Int) /\ Whole(u, a, s, cut) /\ Parted(s) /\ Bounded(s, g)
                 /\ Ready(s, g)
    <2>1. CASE a = Append(out, Separator)
      <3>1. Whole(u, a, Append(full, Separator), cut)
        BY <2>1, WholeAppends DEF Separator
      <3>2. full \in Seq(Int)
        BY DEF Whole
      <3> QED
        BY <3>1, <3>2, SepAppends
    <2>2. CASE a = out /\ ~needed
      <3>1. Whole(u, out, full, cut)
        BY WholeAppends, 0 \in Int
      <3>2. full \in Seq(Int)
        BY DEF Whole
      <3> QED
        BY <2>2, <3>1, <3>2
    <2> QED
      BY <1>1, <2>1, <2>2
  <1>3. CASE c = a
    BY <1>2, <1>3
  <1>4. CASE c = Append(a, g)
    <2>1. g \in Int
      OBVIOUS
    <2>2. Whole(u, Append(a, g), Append(s, g), cut)
      BY <1>2, <2>1, WholeAppends
    <2>3. Parted(Append(s, g)) /\ Bounded(Append(s, g), g) /\ Ready(Append(s, g), g)
      BY <1>2, <2>1, TextAppends
    <2> QED
      BY <1>4, <2>2, <2>3
  <1> QED
    BY <1>1, <1>3, <1>4

\* What a rule does keeps the matches apart.
LEMMA OutcomeSep ==
  ASSUME NEW t, NEW u, Replaces(t, u), NEW p \in Prints, NEW q,
         SepOK(t, p, err), SpokeOK(t, p, err), t[Len(t)].return = Running,
         Outcome(t[Len(t)], p, u[Len(t)], q), flags.annotate => flags.nodesc
  PROVE  SepOK(u, q, err) /\ SpokeOK(u, q, err)
  <1> DEFINE n == Len(t)
             f == t[n]
             g == u[n]
  <1>1. /\ n \in Nat /\ n >= 1 /\ n \in 1..n /\ Len(u) = n
        /\ \A i \in 1..n :
             /\ i # n => u[i] = t[i]
             /\ u[i].saved_out = t[i].saved_out
    BY ReplacesPlaces DEF Replaces
  <1>2. /\ q \in Prints /\ q.group = p.group /\ (p.flushed => q.flushed)
        /\ err => q.out = p.out
        /\ Passes(f, p, g, q) \/ Applies(f, p, g, q) \/ Speaks(f, p, g, q) \/ Stops(f, p, g, q)
    BY DEF Outcome
  <1>3. f = t[n] /\ g = u[n] /\ f.return = Running
    OBVIOUS
  <1>4. n = Len(t)
    OBVIOUS
  <1> HIDE DEF n, f, g
  <1>5. p.group \in Nat /\ p.group \in Int /\ p.out \in Seq(Int)
    BY DEF Prints
  <1>6. SepOK(u, q, err)
    <2> SUFFICES ASSUME flags.continue, ~q.flushed, QuietCalls
                 PROVE  /\ Parted(q.out)
                        /\ ~err => \E full, cut : Whole(u, q.out, full, cut) /\ FullOK(full, q)
      BY DEF SepOK
    <2>1. Parted(p.out) /\ (~err => \E full, cut : Whole(t, p.out, full, cut) /\ FullOK(full, p))
      BY <1>2 DEF SepOK
    <2>2. CASE err
      BY <1>2, <2>1, <2>2
    <2>3. CASE ~err
      <3>1. PICK full, cut : Whole(t, p.out, full, cut) /\ FullOK(full, p)
        BY <2>1, <2>3
      <3>2. Parted(full) /\ Bounded(full, p.group)
        BY <3>1 DEF FullOK
      <3>3. Len(u) = Len(t) /\ \A i \in 1..Len(t) : u[i].saved_out = t[i].saved_out
        BY <1>1, <1>4
      <3>4. CASE Passes(f, p, g, q) \/ Applies(f, p, g, q)
        <4>1. q.out = p.out /\ q.printed = p.printed /\ q.firstline = p.firstline
          BY <3>4 DEF Passes, Applies
        <4>2. Whole(u, q.out, full, cut)
          BY <3>1, <3>3, <4>1, WholeAppends, 0 \in Int
        <4>3. FullOK(full, q)
          BY <1>2, <3>1, <4>1 DEF FullOK, Asks, Started
        <4> QED
          BY <4>2, <4>3, <3>1, PieceParted, <3>2, <4>1, <2>1
      <3>5. CASE Speaks(f, p, g, q) \/ Stops(f, p, g, q)
        <4> DEFINE needed == IF flags.annotate THEN ~p.firstline ELSE ~p.firstline /\ ~p.printed
        <4>1. InOrder(p.out, q.out, p.group, needed) /\ Started(q)
          <5>1. CASE Speaks(f, p, g, q)
            <6>1. ~flags.annotate
              BY <5>1 DEF Speaks
            <6> QED
              BY <2>3, <5>1, <6>1 DEF Speaks, Started
          <5>2. CASE Stops(f, p, g, q)
            BY <2>3, <5>2 DEF Stops, Started
          <5> QED
            BY <3>5, <5>1, <5>2
        <4>2. needed \/ Asks(p)
          <5>1. CASE Speaks(f, p, g, q)
            BY <5>1 DEF Speaks, Asks
          <5>2. CASE Stops(f, p, g, q)
            BY <5>2 DEF Stops, Asks
          <5> QED
            BY <3>5, <5>1, <5>2
        <4>3. needed \/ Ready(full, p.group)
          BY <3>1, <4>2 DEF FullOK
        <4> HIDE DEF needed
        <4>4. PICK s : /\ Whole(u, q.out, s, cut) /\ Parted(s) /\ Bounded(s, p.group)
                       /\ Ready(s, p.group)
          BY <1>5, <3>1, <3>2, <3>3, <4>1, <4>3, OrderWhole
        <4>5. FullOK(s, q)
          BY <1>2, <4>1, <4>4 DEF FullOK
        <4>6. Parted(q.out)
          BY <4>4, PieceParted
        <4> QED
          BY <4>4, <4>5, <4>6
      <3> QED
        BY <1>2, <3>4, <3>5
    <2> QED
      BY <2>2, <2>3
  <1>7. SpokeOK(u, q, err)
    <2> SUFFICES ASSUME flags.continue, ~err, ~flags.nodesc
                 PROVE  /\ g.return # Running => g.cont_level = 0
                        /\ ~q.flushed /\ q.printed =>
                             \E i \in 1..n : u[i].found_match /\ u[i].cont_level > 0
      BY <1>1, <1>3, <1>4 DEF SpokeOK
    <2>1. ~Stops(f, p, g, q)
      BY DEF Stops
    <2>2. g.return = Running
      BY <1>2, <1>3, <2>1 DEF Passes, Applies, Speaks, Answers
    <2>3. ASSUME ~q.flushed, q.printed
          PROVE  \E i \in 1..n : u[i].found_match /\ u[i].cont_level > 0
      <3>1. CASE Speaks(f, p, g, q)
        BY <1>1, <1>3, <2>3, <3>1 DEF Speaks, Onward
      <3>2. CASE Passes(f, p, g, q) \/ Applies(f, p, g, q)
        <4>1. p.printed /\ ~p.flushed
          BY <1>2, <2>3, <3>2 DEF Passes, Applies
        <4>2. PICK i \in 1..n : t[i].found_match /\ t[i].cont_level > 0
          BY <1>4, <4>1 DEF SpokeOK
        <4>3. CASE i # n
          BY <1>1, <4>2, <4>3
        <4>4. CASE i = n
          <5>1. f.found_match /\ f.cont_level > 0
            BY <1>3, <4>2, <4>4
          <5>2. g.found_match /\ g.cont_level > 0
            BY <2>3, <3>2, <5>1 DEF Passes, Applies, Answers, Onward
          <5> QED
            BY <1>1, <1>3, <5>2
        <4> QED
          BY <4>3, <4>4
      <3> QED
        BY <1>2, <2>1, <3>1, <3>2
    <2> QED
      BY <2>2, <2>3
  <1> QED
    BY <1>6, <1>7

\* It goes on in silence, and so does the group; or another group is next.
Waits(t, p, e, u, q, e2) ==
  LET f == t[Len(t)]
      g == u[Len(t)]
  IN /\ q.out = p.out /\ (p.flushed => q.flushed) /\ (e => e2)
     /\ flags.continue /\ ~e2 /\ ~q.flushed =>
          /\ Started(p) => Started(q)
          /\ \/ q.group = p.group /\ (Asks(q) => Asks(p))
             \/ q.group = p.group + 1 /\ (Asks(q) => ~Started(p))
     /\ flags.continue /\ ~e2 /\ ~flags.nodesc =>
          /\ g.return # Running => g.cont_level = 0
          /\ ~q.flushed /\ q.printed =>
               /\ p.printed
               /\ f.found_match /\ f.cont_level > 0 => g.found_match /\ g.cont_level > 0

LEMMA WaitsSep ==
  ASSUME NEW t, NEW u, Places(t, u), NEW p \in Prints, NEW q, NEW e, NEW e2,
         SepOK(t, p, e), SpokeOK(t, p, e), Waits(t, p, e, u, q, e2)
  PROVE  SepOK(u, q, e2) /\ SpokeOK(u, q, e2)
  <1> DEFINE n == Len(t)
             f == t[n]
             g == u[n]
  <1>1. /\ n \in Nat /\ n >= 1 /\ n \in 1..n /\ Len(u) = n
        /\ \A i \in 1..n :
             /\ i # n => u[i] = t[i]
             /\ u[i].saved_out = t[i].saved_out
    BY ReplacesPlaces
  <1>2. /\ q.out = p.out /\ (p.flushed => q.flushed) /\ (e => e2)
        /\ flags.continue /\ ~e2 /\ ~q.flushed =>
             /\ Started(p) => Started(q)
             /\ \/ q.group = p.group /\ (Asks(q) => Asks(p))
                \/ q.group = p.group + 1 /\ (Asks(q) => ~Started(p))
        /\ flags.continue /\ ~e2 /\ ~flags.nodesc =>
             /\ g.return # Running => g.cont_level = 0
             /\ ~q.flushed /\ q.printed =>
                  /\ p.printed
                  /\ f.found_match /\ f.cont_level > 0 => g.found_match /\ g.cont_level > 0
    BY DEF Waits
  <1>3. f = t[n] /\ g = u[n]
    OBVIOUS
  <1>4. n = Len(t)
    OBVIOUS
  <1> HIDE DEF n, f, g
  <1>5. p.group \in Nat
    BY DEF Prints
  <1>6. SepOK(u, q, e2)
    <2> SUFFICES ASSUME flags.continue, ~q.flushed, QuietCalls
                 PROVE  /\ Parted(q.out)
                        /\ ~e2 => \E full, cut : Whole(u, q.out, full, cut) /\ FullOK(full, q)
      BY DEF SepOK
    <2>1. Parted(p.out) /\ (~e => \E full, cut : Whole(t, p.out, full, cut) /\ FullOK(full, p))
      BY <1>2 DEF SepOK
    <2>2. ASSUME ~e2 PROVE \E full, cut : Whole(u, q.out, full, cut) /\ FullOK(full, q)
      <3>1. PICK full, cut : Whole(t, p.out, full, cut) /\ FullOK(full, p)
        BY <1>2, <2>1, <2>2
      <3>2. Len(u) = Len(t) /\ \A i \in 1..Len(t) : u[i].saved_out = t[i].saved_out
        BY <1>1, <1>4
      <3>3. Whole(u, q.out, full, cut)
        BY <1>2, <3>1, <3>2, WholeAppends, 0 \in Int
      <3>4. /\ Parted(full) /\ Bounded(full, p.group)
            /\ HasText(full) => Started(p)
            /\ Asks(p) => Ready(full, p.group)
        BY <3>1 DEF FullOK
      <3>5. full \in Seq(Int)
        BY <3>1 DEF Whole
      <3>6. HasText(full) => Started(q)
        BY <1>2, <2>2, <3>4
      <3>7. CASE q.group = p.group /\ (Asks(q) => Asks(p))
        BY <3>3, <3>4, <3>6, <3>7 DEF FullOK
      <3>8. CASE q.group = p.group + 1 /\ (Asks(q) => ~Started(p))
        <4>1. Bounded(full, q.group)
          BY <1>5, <3>4, <3>5, <3>8 DEF Bounded
        <4>2. Asks(q) => Ready(full, q.group)
          <5>1. Asks(q) => ~HasText(full)
            BY <3>4, <3>8
          <5> QED
            BY <5>1 DEF HasText, Ready
        <4> QED
          BY <3>3, <3>4, <3>6, <4>1, <4>2 DEF FullOK
      <3> QED
        BY <1>2, <2>2, <3>7, <3>8
    <2> QED
      BY <1>2, <2>1, <2>2
  <1>7. SpokeOK(u, q, e2)
    <2> SUFFICES ASSUME flags.continue, ~e2, ~flags.nodesc
                 PROVE  /\ g.return # Running => g.cont_level = 0
                        /\ ~q.flushed /\ q.printed =>
                             \E i \in 1..n : u[i].found_match /\ u[i].cont_level > 0
      BY <1>1, <1>3, <1>4 DEF SpokeOK
    <2>1. ASSUME ~q.flushed, q.printed
          PROVE  \E i \in 1..n : u[i].found_match /\ u[i].cont_level > 0
      <3>1. p.printed /\ ~p.flushed /\ ~e
        BY <1>2, <2>1
      <3>2. PICK i \in 1..n : t[i].found_match /\ t[i].cont_level > 0
        BY <1>4, <3>1 DEF SpokeOK
      <3>3. CASE i # n
        BY <1>1, <3>2, <3>3
      <3>4. CASE i = n
        BY <1>1, <1>2, <1>3, <2>1, <3>2, <3>4
      <3> QED
        BY <3>3, <3>4
    <2> QED
      BY <1>2, <2>1
  <1> QED
    BY <1>6, <1>7

\* A call: the piece that the caller has printed ends where that of the called one begins.
LEMMA PushSep ==
  ASSUME NEW t, NEW u, Pushes(t, u), NEW p \in Prints, NEW q, NEW e,
         SepOK(t, p, e), SpokeOK(t, p, e), t[Len(t)].return = Running,
         SamePrint(p, q), u[Len(u)].return = Running,
         \/ q.out = p.out /\ u[Len(u)].saved_out = << >>
         \/ q.out = << >> /\ u[Len(u)].saved_out = p.out
  PROVE  SepOK(u, q, e) /\ SpokeOK(u, q, e)
  <1> DEFINE n == Len(t)
             m == n + 1
             c == u[m]
  <1>1. /\ n \in Nat \ {0} /\ m \in Nat \ {0} /\ n \in 1..n /\ Len(u) = m /\ m \in 1..m
        /\ \A i \in 1..n : u[i] = t[i] /\ i # m /\ i \in 1..m
        /\ \A i \in 1..m : i = m \/ i \in 1..n
        /\ \A i \in 1..(m - 1) : i \in 1..n
        /\ \A i \in 1..n : i = n \/ (i \in 1..(n - 1) /\ i + 1 \in 1..n)
        /\ u \in Seq(Frames) /\ m = n + 1
    BY DEF Pushes
  <1>2. /\ q.printed = p.printed /\ q.firstline = p.firstline
        /\ q.group = p.group /\ q.flushed = p.flushed
    BY DEF SamePrint
  <1>3. \/ q.out = p.out /\ c.saved_out = << >>
        \/ q.out = << >> /\ c.saved_out = p.out
    BY <1>1
  <1>4. c.return = Running
    BY <1>1
  <1>5. n = Len(t) /\ c = u[m]
    OBVIOUS
  <1> HIDE DEF n, m, c
  <1>6. SepOK(u, q, e)
    <2> SUFFICES ASSUME flags.continue, ~q.flushed, QuietCalls
                 PROVE  /\ Parted(q.out)
                        /\ ~e => \E full, cut : Whole(u, q.out, full, cut) /\ FullOK(full, q)
      BY DEF SepOK
    <2>1. Parted(p.out) /\ (~e => \E full, cut : Whole(t, p.out, full, cut) /\ FullOK(full, p))
      BY <1>2 DEF SepOK
    <2>2. Parted(q.out)
      <3>1. Parted(<< >>)
        BY DEF Parted
      <3> QED
        BY <1>3, <2>1, <3>1
    <2>3. ASSUME ~e PROVE \E full, cut : Whole(u, q.out, full, cut) /\ FullOK(full, q)
      <3>1. PICK full, cut : Whole(t, p.out, full, cut) /\ FullOK(full, p)
        BY <2>1, <2>3
      <3> DEFINE k == Len(full)
                 x == IF q.out = p.out THEN cut[n] ELSE k
                 cut2 == [i \in 1..m |-> IF i = m THEN x ELSE cut[i]]
      <3>2. /\ full \in Seq(Int) /\ p.out \in Seq(Int) /\ k \in Nat
            /\ \A i \in 1..n : cut[i] \in 0..k /\ t[i].saved_out \in Seq(Int)
            /\ \A i \in 1..(n - 1) : Piece(t[i + 1].saved_out, full, cut[i], cut[i + 1])
            /\ Piece(p.out, full, cut[n], k)
        BY <1>5, <3>1 DEF Whole
      <3>3. k = Len(full)
        OBVIOUS
      <3> HIDE DEF k
      <3>4. \A y \in 0..k : Piece(<< >>, full, y, y)
        BY DEF Piece
      <3>5. x \in 0..k
        BY <1>1, <3>2
      <3>6. q.out = p.out => x = cut[n]
        OBVIOUS
      <3>7. q.out # p.out => x = k
        OBVIOUS
      <3> HIDE DEF x
      <3>8. /\ \A i \in 1..n : cut2[i] = cut[i]
            /\ cut2[m] = x
        BY <1>1
      <3> HIDE DEF cut2
      <3>9. Piece(c.saved_out, full, cut[n], x) /\ Piece(q.out, full, x, k)
        <4>1. CASE q.out = p.out /\ c.saved_out = << >>
          BY <1>1, <3>2, <3>4, <3>6, <4>1
        <4>2. CASE q.out = << >> /\ c.saved_out = p.out
          <5>1. CASE q.out = p.out
            BY <1>1, <3>2, <3>4, <3>6, <4>2, <5>1
          <5>2. CASE q.out # p.out
            BY <1>1, <3>2, <3>4, <3>7, <4>2, <5>2, 0 \in Nat
          <5> QED
            BY <5>1, <5>2
        <4> QED
          BY <1>3, <4>1, <4>2
      <3>10. ASSUME NEW i \in 1..(m - 1)
             PROVE  Piece(u[i + 1].saved_out, full, cut2[i], cut2[i + 1])
        <4>1. CASE i = n
          BY <1>1, <1>5, <3>8, <3>9, <4>1
        <4>2. CASE i # n
          BY <1>1, <3>2, <3>8, <4>2
        <4> QED
          BY <4>1, <4>2
      <3>11. ASSUME NEW i \in 1..m PROVE cut2[i] \in 0..k /\ u[i].saved_out \in Seq(Int)
        <4>1. u[i] \in Frames
          BY <1>1
        <4>2. cut2[i] \in 0..k
          BY <1>1, <3>2, <3>5, <3>8
        <4> QED
          BY <4>1, <4>2 DEF Frames
      <3>12. q.out \in Seq(Int)
        <4>1. << >> \in Seq(Int)
          OBVIOUS
        <4>2. q.out = p.out \/ q.out = << >>
          BY <1>3
        <4> QED
          BY <3>2, <4>1, <4>2, Zenon
      <3>13. Whole(u, q.out, full, cut2)
        BY <1>1, <3>2, <3>3, <3>8, <3>9, <3>10, <3>11, <3>12 DEF Whole
      <3>14. FullOK(full, q)
        BY <1>2, <3>1 DEF FullOK, Asks, Started
      <3> QED
        BY <3>13, <3>14
    <2> QED
      BY <2>2, <2>3
  <1>7. SpokeOK(u, q, e)
    <2> SUFFICES ASSUME flags.continue, ~e, ~flags.nodesc, ~q.flushed, q.printed
                 PROVE  \E i \in 1..m : u[i].found_match /\ u[i].cont_level > 0
      BY <1>1, <1>4, <1>5 DEF SpokeOK
    <2>1. PICK i \in 1..n : t[i].found_match /\ t[i].cont_level > 0
      BY <1>2, <1>5 DEF SpokeOK
    <2> QED
      BY <1>1, <2>1
  <1> QED
    BY <1>6, <1>7

\* The pieces of the called one and of its caller are one piece.
LEMMA WholeJoins ==
  ASSUME NEW t, NEW u, Pops(t, u), NEW out, NEW full, NEW cut, Whole(t, out, full, cut)
  PROVE  LET b == t[Len(t)]
         IN b.saved_out \in Seq(Int) /\ Whole(u, b.saved_out \o out, full, cut)
  <1> DEFINE m == Len(u)
             n == m + 1
             b == t[n]
             s == b.saved_out
             k == Len(full)
             o == s \o out
  <1>1. /\ m \in Nat \ {0} /\ n \in Nat \ {0} /\ Len(t) = n /\ m \in 1..m /\ n \in 1..n
        /\ m \in 1..n /\ m \in 1..(n - 1)
        /\ \A i \in 1..m : i \in 1..n
        /\ \A i \in 1..(m - 1) : i \in 1..(n - 1) /\ i \in 1..m /\ i + 1 \in 1..m
        /\ \A i \in 1..m : i = m \/ i \in 1..(m - 1)
        /\ \A i \in 1..m : u[i].saved_out = t[i].saved_out
    <2>1. /\ m \in Nat \ {0} /\ n \in Nat \ {0} /\ Len(t) = n /\ m \in 1..m /\ n \in 1..n
          /\ m \in 1..n /\ m \in 1..(n - 1)
          /\ \A i \in 1..m : i \in 1..n
          /\ \A i \in 1..(m - 1) : i \in 1..(n - 1) /\ i \in 1..m /\ i + 1 \in 1..m
          /\ \A i \in 1..m : i = m \/ i \in 1..(m - 1)
      BY DEF Pops
    <2>2. \A i \in 1..(m - 1) : u[i] = t[i]
      BY DEF Pops
    <2>3. u[m].saved_out = t[m].saved_out
      BY DEF Pops, Alike
    <2>4. \A i \in 1..m : u[i].saved_out = t[i].saved_out
      BY <2>1, <2>2, <2>3
    <2> QED
      BY <2>1, <2>4
  <1>2. m = Len(u) /\ n = m + 1 /\ k = Len(full)
    OBVIOUS
  <1> HIDE DEF m, n, k
  <1>3. /\ full \in Seq(Int) /\ out \in Seq(Int) /\ k \in Nat
        /\ \A i \in 1..n : cut[i] \in 0..k /\ t[i].saved_out \in Seq(Int)
        /\ \A i \in 1..(n - 1) : Piece(t[i + 1].saved_out, full, cut[i], cut[i + 1])
        /\ Piece(out, full, cut[n], k)
    BY <1>1, <1>2 DEF Whole
  <1>4. s \in Seq(Int) /\ Piece(s, full, cut[m], cut[n])
    BY <1>1, <1>2, <1>3
  <1>5. /\ o \in Seq(Int) /\ Len(o) = Len(s) + Len(out) /\ Len(s) \in Nat /\ Len(out) \in Nat
        /\ \A i \in 1..Len(s) : o[i] = s[i]
        /\ \A i \in (Len(s) + 1)..Len(o) : o[i] = out[i - Len(s)]
    BY <1>3, <1>4
  <1> HIDE DEF o, s
  <1>6. ASSUME NEW x \in 0..k, NEW y \in 0..k, Piece(s, full, x, y), Piece(out, full, y, k)
        PROVE  Piece(o, full, x, k)
    <2>1. /\ x \in Nat /\ y \in Nat /\ Len(s) = y - x /\ Len(out) = k - y
          /\ \A i \in 1..Len(s) : s[i] = full[x + i]
          /\ \A i \in 1..Len(out) : out[i] = full[y + i]
      BY <1>6 DEF Piece
    <2>2. ASSUME NEW i \in 1..Len(o) PROVE o[i] = full[x + i]
      <3>1. CASE i \in 1..Len(s)
        BY <1>5, <2>1, <3>1
      <3>2. CASE i \notin 1..Len(s)
        <4>1. i \in (Len(s) + 1)..Len(o) /\ i - Len(s) \in 1..Len(out)
          BY <1>5, <3>2
        <4>2. y + (i - Len(s)) = x + i
          BY <2>1, <4>1
        <4> QED
          BY <1>5, <2>1, <4>1, <4>2
      <3> QED
        BY <3>1, <3>2
    <2>3. Len(o) = k - x
      BY <1>3, <1>5, <2>1
    <2> QED
      BY <2>2, <2>3 DEF Piece
  <1>7. Piece(o, full, cut[m], k)
    BY <1>1, <1>3, <1>4, <1>6
  <1>8. ASSUME NEW i \in 1..(m - 1) PROVE Piece(u[i + 1].saved_out, full, cut[i], cut[i + 1])
    <2>1. u[i + 1].saved_out = t[i + 1].saved_out
      BY <1>1
    <2> QED
      BY <1>1, <1>3, <2>1
  <1>9. Whole(u, o, full, cut)
    BY <1>1, <1>2, <1>3, <1>5, <1>7, <1>8 DEF Whole
  <1> QED
    BY <1>1, <1>4, <1>9 DEF o, s

\* The caller's output is what it had put aside and what the called one printed, or the
\* text that printf makes of none.
Joined(b, p, q) == \/ q.out = b.saved_out \o p.out
                   \/ q.out = Append(b.saved_out, Null) /\ p.out = << >>

\* A return: what the called one printed is that of its caller now.
Resumed(t, u, p, q, e, e2) ==
  LET a == t[Len(u)]
      b == t[Len(t)]
      f == u[Len(u)]
  IN /\ e => e2
     /\ b.return # Running /\ (a.found_match => f.found_match)
     /\ f.cont_level = a.cont_level /\ (f.return = Running \/ e2)
     /\ q.printed = p.printed /\ q.firstline = p.firstline /\ q.group = p.group
     /\ p.flushed => q.flushed
     /\ e2 => q.out = p.out
     /\ ~e2 /\ QuietCalls => Joined(b, p, q)

LEMMA PopSep ==
  ASSUME NEW t, NEW u, Pops(t, u), NEW p \in Prints, NEW q, NEW e, NEW e2,
         SepOK(t, p, e), SpokeOK(t, p, e), Resumed(t, u, p, q, e, e2)
  PROVE  SepOK(u, q, e2) /\ SpokeOK(u, q, e2)
  <1> DEFINE m == Len(u)
             n == m + 1
             a == t[Len(u)]
             b == t[Len(t)]
             f == u[Len(u)]
  <1>0. /\ e => e2
        /\ b.return # Running /\ (a.found_match => f.found_match)
        /\ f.cont_level = a.cont_level /\ (f.return = Running \/ e2)
        /\ q.printed = p.printed /\ q.firstline = p.firstline /\ q.group = p.group
        /\ p.flushed => q.flushed
        /\ e2 => q.out = p.out
        /\ ~e2 /\ QuietCalls => Joined(b, p, q)
    BY DEF Resumed
  <1>1. /\ m \in Nat \ {0} /\ n \in Nat /\ Len(t) = n /\ m \in 1..m /\ m # n
        /\ t[n] = b /\ t[m] = a /\ u[m] = f /\ b = t[Len(t)]
        /\ \A i \in 1..n : i = n \/ i \in 1..m
        /\ \A i \in 1..m : i # m => u[i] = t[i]
    BY DEF Pops
  <1>2. m = Len(u) /\ n = m + 1
    OBVIOUS
  <1> HIDE DEF m, n, a, b, f
  <1>3. SepOK(u, q, e2)
    <2> SUFFICES ASSUME flags.continue, ~q.flushed, QuietCalls
                 PROVE  /\ Parted(q.out)
                        /\ ~e2 => \E full, cut : Whole(u, q.out, full, cut) /\ FullOK(full, q)
      BY DEF SepOK
    <2>1. Parted(p.out) /\ (~e => \E full, cut : Whole(t, p.out, full, cut) /\ FullOK(full, p))
      BY <1>0 DEF SepOK
    <2>2. ASSUME ~e2 PROVE \E full, cut : Whole(u, q.out, full, cut) /\ FullOK(full, q)
      <3>1. PICK full, cut : Whole(t, p.out, full, cut) /\ FullOK(full, p)
        BY <1>0, <2>1, <2>2
      <3>2. b.saved_out \in Seq(Int) /\ Whole(u, b.saved_out \o p.out, full, cut)
        BY <1>1, <3>1, WholeJoins
      <3>3. /\ Parted(full) /\ Bounded(full, p.group)
            /\ HasText(full) => Started(p)
            /\ Asks(p) => Ready(full, p.group)
            /\ (Started(q) <=> Started(p)) /\ (Asks(q) <=> Asks(p))
        BY <1>0, <3>1 DEF FullOK, Asks, Started
      <3>4. CASE q.out = b.saved_out \o p.out
        <4>1. FullOK(full, q)
          BY <1>0, <3>3 DEF FullOK
        <4> QED
          BY <3>2, <3>4, <4>1
      <3>5. CASE q.out = Append(b.saved_out, Null) /\ p.out = << >>
        <4>1. b.saved_out \o p.out = b.saved_out
          BY <3>2, <3>5
        <4>2. Null \in Int /\ full \in Seq(Int) /\ p.group \in Nat
          BY <3>1 DEF Whole, Null, Prints
        <4>3. Whole(u, q.out, Append(full, Null), cut)
          BY <3>2, <3>5, <4>1, <4>2, WholeAppends
        <4>4. /\ Parted(Append(full, Null)) /\ Bounded(Append(full, Null), p.group)
              /\ Ready(full, p.group) => Ready(Append(full, Null), p.group)
              /\ HasText(Append(full, Null)) => HasText(full)
          BY <3>3, <4>2, TextAppends
        <4>5. FullOK(Append(full, Null), q)
          BY <1>0, <3>3, <4>4 DEF FullOK
        <4> QED
          BY <4>3, <4>5
      <3> QED
        BY <1>0, <2>2, <3>4, <3>5 DEF Joined
    <2>3. Parted(q.out)
      <3>1. CASE e2
        BY <1>0, <2>1, <3>1
      <3>2. CASE ~e2
        <4>1. PICK full, cut : Whole(u, q.out, full, cut) /\ FullOK(full, q)
          BY <2>2, <3>2
        <4> QED
          BY <4>1, PieceParted DEF FullOK
      <3> QED
        BY <3>1, <3>2
    <2> QED
      BY <2>2, <2>3
  <1>4. SpokeOK(u, q, e2)
    <2> SUFFICES ASSUME flags.continue, ~e2, ~flags.nodesc
                 PROVE  /\ f.return # Running => f.cont_level = 0
                        /\ ~q.flushed /\ q.printed =>
                             \E i \in 1..m : u[i].found_match /\ u[i].cont_level > 0
      BY <1>0, <1>1, <1>2 DEF SpokeOK
    <2>1. ASSUME ~q.flushed, q.printed
          PROVE  \E i \in 1..m : u[i].found_match /\ u[i].cont_level > 0
      <3>1. ~e /\ p.printed /\ ~p.flushed
        BY <1>0, <2>1
      <3>2. PICK i \in 1..n : t[i].found_match /\ t[i].cont_level > 0
        BY <1>0, <1>1, <3>1 DEF SpokeOK
      <3>3. i # n
        BY <1>0, <1>1, <3>1, <3>2 DEF SpokeOK
      <3>4. i \in 1..m
        BY <1>1, <3>3
      <3>5. CASE i # m
        BY <1>1, <3>2, <3>4, <3>5
      <3>6. CASE i = m
        BY <1>0, <1>1, <3>2, <3>6
      <3> QED
        BY <3>5, <3>6
    <2>2. f.return # Running => f.cont_level = 0
      BY <1>0
    <2> QED
      BY <2>1, <2>2
  <1> QED
    BY <1>3, <1>4

-----------------------------------------------------------------------------
(* All of it, for the stack t. *)

\* Without MAGIC_CONTINUE, an activation of file_softmagic that has found something in a
\* group does not begin another.
Fresh(f, p) ==
  ~flags.continue /\ ~p.flushed /\ f.return = Running /\ f.cont_level = 0 => ~f.found_match

PrintOK(t, p, e, r) ==
  VoiceOK(t, p, e, r) /\ SepOK(t, p, e) /\ SpokeOK(t, p, e) /\ Fresh(t[1], p)

\* The same, but that the only activation may have found something just now.
SaysOK(t, p, e, r) ==
  /\ VoiceOK(t, p, e, r) /\ SepOK(t, p, e) /\ SpokeOK(t, p, e)
  /\ Len(t) # 1 => Fresh(t[1], p)

LEMMA PrintSays ==
  ASSUME NEW t, NEW p, NEW e, NEW r
  PROVE  PrintOK(t, p, e, r) <=> SaysOK(t, p, e, r) /\ (Len(t) = 1 => Fresh(t[1], p))
  BY DEF PrintOK, SaysOK

LEMMA CutFacts ==
  ASSUME NEW s \in Seq(Frames), NEW d \in 1..Len(s), NEW g \in Frames
  PROVE  LET u == Cut(s, d, g)
         IN /\ u \in Seq(Frames) /\ Len(u) = d /\ u # << >> /\ u[d] = g
            /\ \A i \in 1..(d - 1) : u[i] = s[i]
  <1> DEFINE b == SubSeq(s, 1, d - 1)
             u == Append(b, g)
  <1>1. d \in Nat /\ d >= 1 /\ d <= Len(s) /\ Len(s) \in Nat /\ g \in Frames
    OBVIOUS
  <1>2. b \in Seq(Frames) /\ Len(b) = d - 1 /\ \A i \in 1..(d - 1) : b[i] = s[i]
    BY <1>1
  <1> HIDE DEF b
  <1>3. /\ u \in Seq(Frames) /\ Len(u) = d /\ u[d] = g
        /\ \A i \in 1..(d - 1) : u[i] = b[i]
    BY <1>1, <1>2
  <1>4. u # << >>
    BY <1>1, <1>3
  <1> QED
    BY <1>2, <1>3, <1>4 DEF Cut, b

LEMMA CutPlaces ==
  ASSUME NEW s \in Seq(Frames), NEW d \in 1..Len(s), NEW f \in Frames, NEW g \in Frames,
         Alike(f, g)
  PROVE  LET t == Cut(s, d, f)
             u == Cut(s, d, g)
         IN Replaces(t, u) /\ Len(t) = d /\ t[d] = f /\ u[d] = g
  <1> DEFINE t == Cut(s, d, f)
             u == Cut(s, d, g)
  <1>1. /\ t \in Seq(Frames) /\ Len(t) = d /\ t # << >> /\ t[d] = f
        /\ \A i \in 1..(d - 1) : t[i] = s[i]
    BY CutFacts
  <1>2. /\ u \in Seq(Frames) /\ Len(u) = d /\ u # << >> /\ u[d] = g
        /\ \A i \in 1..(d - 1) : u[i] = s[i]
    BY CutFacts
  <1> HIDE DEF t, u
  <1>3. Replaces(t, u)
    BY <1>1, <1>2 DEF Replaces, Places, Alike
  <1>4. Replaces(t, u) /\ Len(t) = d /\ t[d] = f /\ u[d] = g
    BY <1>1, <1>2, <1>3
  <1> QED
    BY <1>4, Zenon DEF t, u

LEMMA TopPlaces ==
  ASSUME NEW s \in Seq(Frames), s # << >>, NEW g \in Frames, Alike(s[Len(s)], g)
  PROVE  LET u == Cut(s, Len(s), g)
         IN /\ Replaces(s, u) /\ Len(s) \in 1..Len(s) /\ u[Len(s)] = g
  <1> DEFINE d == Len(s)
             u == Cut(s, d, g)
  <1>1. d \in 1..Len(s)
    OBVIOUS
  <1>2. d = Len(s) /\ d \in 1..d /\ Alike(s[d], g)
    OBVIOUS
  <1> HIDE DEF d
  <1>3. /\ u \in Seq(Frames) /\ Len(u) = d /\ u # << >> /\ u[d] = g
        /\ \A i \in 1..(d - 1) : u[i] = s[i]
    BY <1>1, CutFacts
  <1> HIDE DEF u
  <1>4. Replaces(s, u)
    BY <1>2, <1>3 DEF Replaces, Places, Alike
  <1>5. Replaces(s, u) /\ d \in 1..d /\ u[d] = g
    BY <1>2, <1>3, <1>4
  <1> QED
    BY <1>5, Zenon DEF u, d

LEMMA AnotherPlaces ==
  ASSUME NEW s \in Seq(Frames), s # << >>, NEW g \in Frames,
         g.via = s[Len(s)].via, g.saved_out = s[Len(s)].saved_out
  PROVE  LET u == Cut(s, Len(s), g)
         IN Places(s, u) /\ u[Len(s)] = g
  <1> DEFINE d == Len(s)
             u == Cut(s, d, g)
  <1>1. d \in 1..Len(s)
    OBVIOUS
  <1>2. d = Len(s) /\ g.via = s[d].via /\ g.saved_out = s[d].saved_out
    OBVIOUS
  <1> HIDE DEF d
  <1>3. /\ u \in Seq(Frames) /\ Len(u) = d /\ u # << >> /\ u[d] = g
        /\ \A i \in 1..(d - 1) : u[i] = s[i]
    BY <1>1, CutFacts
  <1> HIDE DEF u
  <1>4. Places(s, u)
    BY <1>2, <1>3 DEF Places
  <1>5. Places(s, u) /\ u[d] = g
    BY <1>3, <1>4
  <1> QED
    BY <1>5, Zenon DEF u, d

LEMMA PopPlaces ==
  ASSUME NEW s \in Seq(Frames), Len(s) > 1, NEW f \in Frames, Alike(s[Len(s) - 1], f)
  PROVE  LET u == Cut(s, Len(s) - 1, f)
         IN Pops(s, u) /\ Len(u) = Len(s) - 1 /\ u[Len(u)] = f /\ Len(s) - 1 \in 1..Len(s)
  <1> DEFINE d == Len(s) - 1
             u == Cut(s, d, f)
  <1>1. d \in 1..Len(s) /\ Len(s) = d + 1 /\ d \in Nat
    OBVIOUS
  <1>2. Alike(s[d], f)
    OBVIOUS
  <1> HIDE DEF d
  <1>3. /\ u \in Seq(Frames) /\ Len(u) = d /\ u[d] = f /\ u # << >>
        /\ \A i \in 1..(d - 1) : u[i] = s[i]
    BY <1>1, CutFacts
  <1> HIDE DEF u
  <1>4. Pops(s, u)
    BY <1>1, <1>2, <1>3 DEF Pops
  <1>5. Pops(s, u) /\ Len(u) = d /\ u[Len(u)] = f /\ d \in 1..Len(s)
    BY <1>1, <1>3, <1>4
  <1> QED
    BY <1>5, Zenon DEF u, d

LEMMA PushPlaces ==
  ASSUME NEW s \in Seq(Frames), s # << >>, NEW g \in Frames, NEW child \in Frames
  PROVE  LET t == Cut(s, Len(s), g)
             u == Pushed(s, g, child)
         IN Pushes(t, u) /\ t[Len(t)] = g /\ u[Len(u)] = child
  <1> DEFINE d == Len(s)
             b == SubSeq(s, 1, d - 1)
             t == Cut(s, d, g)
             u == b \o <<g, child>>
  <1>1. d \in Nat /\ d >= 1 /\ d \in 1..Len(s)
    OBVIOUS
  <1>2. b \in Seq(Frames) /\ Len(b) = d - 1 /\ \A i \in 1..(d - 1) : b[i] = s[i]
    <2>1. d - 1 \in 0..Len(s)
      BY <1>1
    <2>2. \A m \in 0..Len(s) : LET c == SubSeq(s, 1, m)
                               IN c \in Seq(Frames) /\ Len(c) = m /\ \A i \in 1..m : c[i] = s[i]
      BY <1>1
    <2> HIDE DEF d
    <2> QED
      BY <2>1, <2>2
  <1>3. /\ t \in Seq(Frames) /\ Len(t) = d /\ t # << >> /\ t[d] = g
        /\ \A i \in 1..(d - 1) : t[i] = s[i]
    <2> HIDE DEF d
    <2> QED
      BY <1>1, CutFacts
  <1> HIDE DEF b, t
  <1>4. /\ u \in Seq(Frames) /\ Len(u) = d + 1
        /\ \A i \in 1..(d - 1) : u[i] = s[i]
        /\ u[d] = g /\ u[d + 1] = child
    <2> HIDE DEF d
    <2>1. <<g, child>> \in Seq(Frames) /\ Len(<<g, child>>) = 2
      OBVIOUS
    <2>2. u \in Seq(Frames) /\ Len(u) = d + 1
      BY <1>1, <1>2, <2>1
    <2>3. \A i \in 1..(d + 1) : u[i] = IF i <= d - 1 THEN b[i] ELSE <<g, child>>[i - (d - 1)]
      BY <1>1, <1>2, <2>1
    <2> HIDE DEF u
    <2>4. \A i \in 1..(d - 1) : i \in 1..(d + 1) /\ i <= d - 1
      BY <1>1
    <2>5. /\ d \in 1..(d + 1) /\ ~(d <= d - 1) /\ d - (d - 1) = 1
          /\ d + 1 \in 1..(d + 1) /\ ~(d + 1 <= d - 1) /\ (d + 1) - (d - 1) = 2
      BY <1>1
    <2>6. u[d] = g /\ u[d + 1] = child
      BY <2>3, <2>5
    <2> QED
      BY <1>2, <2>2, <2>3, <2>4, <2>6
  <1> HIDE DEF d, t, u
  <1>5. \A i \in 1..d : i = d \/ i \in 1..(d - 1)
    BY <1>1
  <1>6. Pushes(t, u)
    BY <1>1, <1>3, <1>4, <1>5 DEF Pushes
  <1> QED
    BY <1>3, <1>4, <1>6 DEF Pushed, u, b, t, d

\* What a rule does.
LEMMA OutcomePrint ==
  ASSUME NEW t, NEW u, Replaces(t, u), NEW p \in Prints, NEW q, NEW r,
         SaysOK(t, p, err, r), t[Len(t)].return = Running, flags.annotate => flags.nodesc,
         Outcome(t[Len(t)], p, u[Len(t)], q), Len(t) = 1 => Fresh(u[Len(t)], q)
  PROVE  PrintOK(u, q, err, r)
  <1>1. /\ VoiceOK(t, p, err, r) /\ SepOK(t, p, err) /\ SpokeOK(t, p, err)
        /\ Len(t) # 1 => Fresh(t[1], p)
    BY DEF SaysOK
  <1>2. VoiceOK(u, q, err, r)
    BY <1>1, OutcomeVoice
  <1>3. SepOK(u, q, err) /\ SpokeOK(u, q, err)
    BY <1>1, OutcomeSep
  <1>4. Fresh(u[1], q)
    <2>1. CASE Len(t) = 1
      BY <2>1
    <2>2. CASE Len(t) # 1
      <3>1. u[1] = t[1] /\ (p.flushed => q.flushed)
        <4>1. 1 \in 1..Len(t)
          BY ReplacesPlaces DEF Replaces
        <4>2. \A i \in 1..Len(t) : i # Len(t) => u[i] = t[i]
          BY ReplacesPlaces DEF Replaces
        <4>3. p.flushed => q.flushed
          BY DEF Outcome
        <4> QED
          BY <2>2, <4>1, <4>2, <4>3
      <3> QED
        BY <1>1, <2>2, <3>1 DEF Fresh
    <2> QED
      BY <2>1, <2>2
  <1> QED
    BY <1>2, <1>3, <1>4 DEF PrintOK

LEMMA AsidePrint ==
  ASSUME NEW t, NEW u, Replaces(t, u), NEW p \in Prints, NEW q, NEW e, NEW e2, NEW r,
         PrintOK(t, p, e, r), Aside(t, p, e, u, q, e2), Waits(t, p, e, u, q, e2),
         Len(t) = 1 => Fresh(u[Len(t)], q)
  PROVE  PrintOK(u, q, e2, r)
  <1>1. VoiceOK(t, p, e, r) /\ SepOK(t, p, e) /\ SpokeOK(t, p, e) /\ Fresh(t[1], p)
    BY DEF PrintOK
  <1>2. VoiceOK(u, q, e2, r)
    BY <1>1, AsideVoice
  <1>3. SepOK(u, q, e2) /\ SpokeOK(u, q, e2)
    BY <1>1, WaitsSep DEF Replaces
  <1>4. Fresh(u[1], q)
    <2>1. CASE Len(t) = 1
      BY <2>1
    <2>2. CASE Len(t) # 1
      <3>1. u[1] = t[1] /\ (p.flushed => q.flushed)
        <4>1. 1 \in 1..Len(t)
          BY ReplacesPlaces DEF Replaces
        <4>2. \A i \in 1..Len(t) : i # Len(t) => u[i] = t[i]
          BY ReplacesPlaces DEF Replaces
        <4>3. p.flushed => q.flushed
          BY DEF Waits
        <4> QED
          BY <2>2, <4>1, <4>2, <4>3
      <3> QED
        BY <1>1, <3>1 DEF Fresh
    <2> QED
      BY <2>1, <2>2
  <1> QED
    BY <1>2, <1>3, <1>4 DEF PrintOK

LEMMA PushPrint ==
  ASSUME NEW t, NEW u, Pushes(t, u), NEW p \in Prints, NEW q, NEW e, NEW r,
         PrintOK(t, p, e, r), t[Len(t)].return = Running,
         NEW c, c = u[Len(u)], c.return = Running, Answered(c, e), Linked(t[Len(t)], c),
         SamePrint(p, q),
         \/ /\ c.via = "use" /\ c.returnval = t[Len(t)].returnval /\ q.out = p.out
            /\ c.saved_out = << >>
         \/ /\ c.via = "indirect" /\ c.returnval = 0 /\ q.out = << >>
            /\ c.saved_out = p.out
  PROVE  PrintOK(u, q, e, r)
  <1>1. VoiceOK(t, p, e, r) /\ SepOK(t, p, e) /\ SpokeOK(t, p, e) /\ Fresh(t[1], p)
    BY DEF PrintOK
  <1>2. VoiceOK(u, q, e, r)
    BY <1>1, PushVoice
  <1>3. SepOK(u, q, e) /\ SpokeOK(u, q, e)
    BY <1>1, PushSep
  <1>4. Fresh(u[1], q)
    <2>1. u[1] = t[1]
      <3>1. 1 \in 1..Len(t)
        BY DEF Pushes
      <3> QED
        BY <3>1 DEF Pushes
    <2> QED
      BY <1>1, <2>1 DEF Fresh, SamePrint
  <1> QED
    BY <1>2, <1>3, <1>4 DEF PrintOK

LEMMA PopPrint ==
  ASSUME NEW t, NEW u, Pops(t, u), NEW p \in Prints, NEW q, NEW e, NEW e2, NEW r,
         PrintOK(t, p, e, r), e => e2,
         NEW a, a = t[Len(u)], NEW b, b = t[Len(t)], NEW f, f = u[Len(u)],
         b.return # Running, Answered(f, e2), a.found_match => f.found_match,
         a.returnval = 1 => f.returnval = 1,
         f.returnval = 1 => f.found_match \/ a.returnval = 1,
         b.returnval = 1 => e2 \/ f.returnval = 1,
         f.cont_level = a.cont_level, f.return = Running \/ e2,
         f.return # -1 => Voiced(f, q.out, u, Len(u), e2, r),
         q.printed = p.printed, q.firstline = p.firstline, q.group = p.group,
         p.flushed => q.flushed,
         ~flags.annotate /\ SpeakingCalls /\ NullFree(p.out) /\ NullFree(b.saved_out) =>
           NullFree(q.out),
         About(p.out, p.group) /\ About(b.saved_out, p.group) => About(q.out, p.group),
         e2 => q.out = p.out,
         ~e2 /\ QuietCalls => Joined(b, p, q)
  PROVE  SaysOK(u, q, e2, r)
  <1>1. VoiceOK(t, p, e, r) /\ SepOK(t, p, e) /\ SpokeOK(t, p, e) /\ Fresh(t[1], p)
    BY DEF PrintOK
  <1>2. VoiceOK(u, q, e2, r)
    BY <1>1, PopVoice
  <1>3. SepOK(u, q, e2) /\ SpokeOK(u, q, e2)
    <2>1. Resumed(t, u, p, q, e, e2)
      BY DEF Resumed
    <2> QED
      BY <1>1, <2>1, PopSep
  <1>4. ASSUME Len(u) # 1 PROVE Fresh(u[1], q)
    <2>1. u[1] = t[1]
      <3> DEFINE n == Len(u)
      <3>1. n \in Nat /\ n # 0 /\ n # 1
        BY <1>4 DEF Pops
      <3> HIDE DEF n
      <3>2. 1 \in 1..(n - 1)
        BY <3>1
      <3> QED
        BY <3>2 DEF Pops, n
    <2> QED
      BY <1>1, <2>1 DEF Fresh
  <1> QED
    BY <1>2, <1>3, <1>4 DEF SaysOK

\* The activation at d goes on from f to g.
LEMMA OutcomeCut ==
  ASSUME StackOK(stack, Len(db.lists)), flags.annotate => flags.nodesc, NEW d \in 1..Len(stack),
         NEW f, OnRule(f), f.return = Running, NEW p \in Prints, NEW r,
         SaysOK(Cut(stack, d, f), p, err, r),
         GoesOn(d, f), NEW g, Become(d, g), Outcome(f, p, g, print'),
         d = 1 => Fresh(g, print')
  PROVE  PrintOK(stack', print', err, r)
  <1>1. PICK h : Keeps(f, h) /\ Become(d, h)
    BY DEF GoesOn
  <1>2. stack \in Seq(Frames) /\ f \in Frames /\ h \in Frames
    BY <1>1 DEF StackOK, OnRule, Keeps, Good
  <1>3. h = g
    <2> DEFINE S == Frames \cup {g}
               b == SubSeq(stack, 1, d - 1)
    <2>1. b \in Seq(Frames) /\ Len(b) \in Nat
      BY <1>2
    <2>2. \A i \in 1..Len(b) : b[i] \in S
      BY <2>1
    <2>3. b \in Seq(S) /\ g \in S /\ h \in S
      BY <1>2, <2>1, <2>2
    <2> HIDE DEF b, S
    <2>4. Append(b, g)[Len(b) + 1] = g /\ Append(b, h)[Len(b) + 1] = h
      BY <2>1, <2>3
    <2> QED
      BY <1>1, <2>4 DEF Become, b
  <1>4. stack' = Cut(stack, d, g)
    BY DEF Become, Cut
  <1>5. Alike(f, g)
    BY DEF Outcome
  <1> DEFINE t == Cut(stack, d, f)
             u == Cut(stack, d, g)
  <1>6. Replaces(t, u) /\ Len(t) = d /\ t[Len(t)] = f /\ u[Len(t)] = g
    BY <1>2, <1>3, <1>5, CutPlaces
  <1>7. SaysOK(t, p, err, r)
    OBVIOUS
  <1> HIDE DEF t, u
  <1>8. PrintOK(u, print', err, r)
    BY <1>6, <1>7, OutcomePrint
  <1> QED
    BY <1>4, <1>8 DEF u

\* What the verdict on a rule, if it is no described "name", does to the output.
LEMMA SettledPrint ==
  ASSUME StackOK(stack, Len(db.lists)), FlagsOK, flags.annotate => flags.nodesc,
         NEW d \in 1..Len(stack), NEW f, OnRule(f), f.return = Running, NEW p \in Prints,
         NEW table \in Tables, NEW verdict \in Statuses \cup {"hit"}, SpokenFor(f, p, verdict),
         f.rules[f.magindex].type = "name" => verdict = "hit",
         Settle(d, f, p, table, verdict), NEW r, SaysOK(Cut(stack, d, f), p, err, r),
         d = 1 /\ verdict # "hit" => Fresh(f, p)
  PROVE  PrintOK(stack', print', err, r)
  <1>1. GoesOn(d, f)
    <2>1. d \in Nat
      OBVIOUS
    <2> QED
      BY <2>1, SettleType
  <1>2. Settles(d, f, p, verdict)
    BY SettleOutcome
  <1>3. PICK g : /\ Become(d, g) /\ Outcome(f, p, g, print')
                 /\ \/ Onward(g, print') \/ g.return # Running
                    \/ verdict # "hit" /\ Passes(f, p, g, print')
    BY <1>2 DEF Settles
  <1>4. ASSUME d = 1 PROVE Fresh(g, print')
    <2>1. CASE Onward(g, print') \/ g.return # Running
      <3>1. g.cont_level = 0 => ~(g.cont_level > 0)
        OBVIOUS
      <3> QED
        BY <2>1, <3>1 DEF Fresh, Onward
    <2>2. CASE verdict # "hit" /\ Passes(f, p, g, print')
      BY <1>4, <2>2 DEF Fresh, Passes, Answers
    <2> QED
      BY <1>3, <2>1, <2>2
  <1> QED
    BY <1>1, <1>3, <1>4, OutcomeCut

LEMMA SaidAfter ==
  ASSUME NEW a \in Seq(Int), NEW g \in Int, NEW b, b = a \/ b = Append(a, g),
         NEW c \in Seq(Int), Said(b, c, g)
  PROVE  Said(a, c, g)
  <1>1. CASE b = Append(a, g)
    <2>1. /\ Len(b) = Len(a) + 1 /\ Len(a) \in Nat /\ b[Len(a) + 1] = g
          /\ \A k \in 1..Len(a) : b[k] = a[k]
      BY <1>1
    <2>2. Len(c) \in Nat /\ Len(a) + 1 <= Len(c)
      BY <2>1 DEF Said
    <2>3. \A k \in 1..Len(a) : c[k] = a[k]
      BY <2>1 DEF Said
    <2>4. ASSUME NEW k \in (Len(a) + 1)..Len(c) PROVE c[k] \in {Separator, g}
      <3>1. CASE k = Len(a) + 1
        <4>1. k \in 1..Len(b) /\ b[k] = g
          BY <2>1, <3>1
        <4> QED
          BY <4>1 DEF Said
      <3>2. CASE k # Len(a) + 1
        <4>1. k \in (Len(b) + 1)..Len(c)
          BY <2>1, <3>2
        <4> QED
          BY <4>1 DEF Said
      <3> QED
        BY <3>1, <3>2
    <2> QED
      BY <2>1, <2>2, <2>3, <2>4 DEF Said
  <1> QED
    BY <1>1

\* A described "name" prints its description before that.
LEMMA NamedPrint ==
  ASSUME StackOK(stack, Len(db.lists)), FlagsOK, flags.annotate => flags.nodesc,
         NEW d \in 1..Len(stack), NEW f, OnRule(f), f.return = Running, NEW p \in Prints,
         NEW table \in Tables, f.rules[f.magindex].type = "name",
         Describes(f.rules[f.magindex]), ~QuietCalls,
         Settle(d, f, Text(p), table, "hit"), NEW r, PrintOK(Cut(stack, d, f), p, err, r)
  PROVE  PrintOK(stack', print', err, r)
  <1> DEFINE q == Text(p)
  <1>1. q \in Prints /\ SamePrint(p, q) /\ q.out = IF err THEN p.out ELSE Append(p.out, p.group)
    BY TextOf
  <1>2. p.out \in Seq(Int) /\ p.group \in Nat /\ p.group \in Int
    BY DEF Prints
  <1>3. err \/ q.out # << >>
    BY <1>1, <1>2, AppendFilled, Zenon
  <1>4. "hit" \in Statuses \cup {"hit"} /\ d \in Nat
    OBVIOUS
  <1> HIDE DEF q
  <1>5. Settle(d, f, q, table, "hit")
    BY DEF q
  <1>6. GoesOn(d, f)
    BY <1>1, <1>4, <1>5, SettleType
  <1>7. SpokenFor(f, q, "hit")
    BY <1>3 DEF SpokenFor
  <1>8. Settles(d, f, q, "hit")
    BY <1>1, <1>4, <1>5, <1>7, SettleOutcome
  <1>9. PICK g : Become(d, g) /\ Outcome(f, q, g, print') /\ Speaks(f, q, g, print')
    BY <1>8 DEF Settles
  <1>10. Said(p.out, print'.out, p.group)
    <2>1. Said(q.out, print'.out, p.group)
      BY <1>1, <1>9 DEF Speaks, SamePrint
    <2>2. print'.out \in Seq(Int)
      BY <1>9 DEF Outcome, Prints
    <2>3. q.out = p.out \/ q.out = Append(p.out, p.group)
      BY <1>1
    <2> QED
      BY <1>2, <2>1, <2>2, <2>3, SaidAfter
  <1>11. Speaks(f, p, g, print')
    BY <1>1, <1>9, <1>10 DEF Speaks, SamePrint
  <1>12. Outcome(f, p, g, print')
    <2>1. /\ Alike(f, g) /\ print' \in Prints /\ print'.group = p.group
          /\ p.flushed => print'.flushed
          /\ err => print'.out = p.out
      BY <1>1, <1>9 DEF Outcome, SamePrint
    <2> QED
      BY <1>11, <2>1 DEF Outcome
  <1>13. Fresh(g, print')
    <2>1. g.cont_level = 0 => ~(g.cont_level > 0)
      OBVIOUS
    <2> QED
      BY <1>11, <2>1 DEF Fresh, Speaks, Onward
  <1> QED
    BY <1>6, <1>9, <1>12, <1>13, PrintSays, OutcomeCut

\* The next list of the database, for file_softmagic or for an indirect rule.
LEMMA NextPrint ==
  ASSUME NEW t, NEW u, Places(t, u), NEW p \in Prints, NEW e, NEW r, NEW r2 \in Int,
         PrintOK(t, p, e, r), NEW h, h = t[Len(t)], NEW g, g = u[Len(t)],
         ~g.found_match, g.returnval = 0, g.return = Running, g.cont_level = 0,
         FromDb(g.rules), h.return \in {0, 1},
         \/ g.via = "indirect" /\ h.return = 0 /\ r2 = r
         \/ /\ g.via = "top" /\ Len(t) = 1 /\ r2 = (IF h.return = 0 THEN r ELSE 1)
            /\ ~flags.continue => h.return = 0
  PROVE  PrintOK(u, p, e, r2)
  <1> DEFINE n == Len(t)
  <1>1. /\ n \in Nat /\ n >= 1 /\ n \in 1..n /\ Len(u) = n
        /\ Ends(t, n) /\ Ends(u, n)
        /\ \A i \in 1..n :
             /\ i # n => u[i] = t[i] /\ i \in 1..(n - 1)
             /\ u[i].via = t[i].via /\ u[i].saved_out = t[i].saved_out
             /\ Ends(u, i) <=> Ends(t, i)
             /\ Outer(u, i) <=> Outer(t, i)
             /\ i # n => /\ \A o : Told(u, i, o) = t[i + 1].saved_out
                         /\ \A o : Told(t, i, o) = t[i + 1].saved_out
             /\ i = n => \A o : Told(u, i, o) = o /\ Told(t, i, o) = o
    BY ReplacesPlaces
  <1>2. /\ AnsweredOK(t, e) /\ VoicedOK(t, p, e, r) /\ HushedOK(t, p, e)
        /\ NullsOK(t, p) /\ GroupOK(t, p)
        /\ SepOK(t, p, e) /\ SpokeOK(t, p, e) /\ Fresh(t[1], p)
    BY DEF PrintOK, VoiceOK
  <1>3. t[n] = h /\ u[n] = g /\ n = Len(t)
    OBVIOUS
  <1> HIDE DEF n
  <1>4. Answered(h, e) /\ h.returnval = h.return
    <2>1. Answered(h, e)
      BY <1>1, <1>2, <1>3 DEF AnsweredOK
    <2> QED
      BY <2>1 DEF Answered
  <1>5. AnsweredOK(u, e)
    <2>1. ASSUME NEW i \in 1..n PROVE Answered(u[i], e)
      <3>1. CASE i # n
        <4>1. u[i] = t[i]
          BY <1>1, <3>1
        <4> QED
          BY <1>2, <1>3, <4>1 DEF AnsweredOK
      <3>2. CASE i = n
        <4>1. g.saved_out = h.saved_out /\ g.via = h.via
          BY <1>1, <1>3
        <4>2. Running \notin {0, 1} /\ Running # -1
          BY DEF Running
        <4>3. Answered(g, e)
          BY <1>4, <4>1, <4>2 DEF Answered
        <4> QED
          BY <1>3, <3>2, <4>3
      <3> QED
        BY <3>1, <3>2
    <2>2. ASSUME NEW i \in 1..(n - 1) PROVE Linked(u[i], u[i + 1])
      <3>1. i \in 1..n /\ i # n /\ i + 1 \in 1..n
        BY <1>1
      <3>2. Linked(t[i], t[i + 1]) /\ u[i] = t[i]
        BY <1>1, <1>2, <1>3, <3>1 DEF AnsweredOK
      <3>3. CASE i + 1 # n
        BY <1>1, <3>1, <3>2, <3>3
      <3>4. CASE i + 1 = n
        <4>1. u[i + 1] = g /\ t[i + 1] = h /\ g.via = h.via /\ g.via # "use"
          BY <1>1, <1>3, <3>4
        <4> QED
          BY <3>2, <4>1 DEF Linked
      <3> QED
        BY <3>3, <3>4
    <2> QED
      BY <1>1, <2>1, <2>2 DEF AnsweredOK
  <1>6. Outer(u, n) => g.via # "indirect"
    BY <1>1, <1>3 DEF Outer
  <1>7. VoicedOK(u, p, e, r2)
    <2> SUFFICES ASSUME NEW i \in 1..n, Ends(u, i), u[i].return # -1
                 PROVE  Voiced(u[i], Told(u, i, p.out), u, i, e, r2)
      BY <1>1 DEF VoicedOK
    <2>1. CASE i # n
      <3>1. r2 = r
        BY <1>1, <1>3, <2>1
      <3>2. /\ u[i] = t[i] /\ Ends(t, i) /\ (Outer(u, i) <=> Outer(t, i))
            /\ Told(u, i, p.out) = Told(t, i, p.out)
        BY <1>1, <2>1
      <3>3. Voiced(t[i], Told(t, i, p.out), t, i, e, r)
        BY <1>2, <1>3, <3>2 DEF VoicedOK
      <3> HIDE DEF Outer, Told
      <3> QED
        BY <3>1, <3>2, <3>3 DEF Voiced
    <2>2. CASE i = n
      <3>1. Told(u, n, p.out) = p.out /\ Told(t, n, p.out) = p.out
            /\ (Outer(u, n) <=> Outer(t, n))
        BY <1>1
      <3>2. Voiced(h, p.out, t, n, e, r)
        <4>1. h.return # -1
          OBVIOUS
        <4>2. Voiced(t[n], Told(t, n, p.out), t, n, e, r)
          BY <1>1, <1>2, <1>3, <4>1 DEF VoicedOK
        <4> QED
          BY <1>3, <3>1, <4>2
      <3>3. Voiced(g, p.out, u, n, e, r2)
        <4>1. CASE g.via = "indirect" /\ h.return = 0 /\ r2 = r
          BY <1>4, <1>6, <3>1, <3>2, <4>1 DEF Voiced
        <4>2. CASE g.via = "top" /\ r2 = (IF h.return = 0 THEN r ELSE 1)
          <5>1. CASE h.return = 0
            BY <1>4, <3>1, <3>2, <4>2, <5>1 DEF Voiced
          <5>2. CASE h.return = 1
            <6>1. r2 = 1 /\ h.returnval = 1
              BY <1>4, <4>2, <5>2
            <6>2. Outer(u, n)
              <7>1. n = 1 /\ u[1].via = "top"
                BY <1>3, <4>2
              <7> QED
                BY <7>1 DEF Outer
            <6> QED
              BY <3>1, <3>2, <6>1, <6>2 DEF Voiced
          <5> QED
            BY <5>1, <5>2
        <4> QED
          BY <4>1, <4>2
      <3> QED
        BY <1>3, <2>2, <3>1, <3>3
    <2> QED
      BY <2>1, <2>2
  <1>8. HushedOK(u, p, e)
    <2> SUFFICES ASSUME ~flags.continue, p.printed \/ ~p.firstline, ~e
                 PROVE  \E i \in 1..n : Ends(u, i) /\ u[i].returnval = 1
      BY <1>1 DEF HushedOK
    <2>1. PICK i \in 1..n : Ends(t, i) /\ t[i].returnval = 1
      BY <1>2, <1>3 DEF HushedOK
    <2>2. i # n
      BY <1>3, <1>4, <2>1
    <2> QED
      BY <1>1, <2>1, <2>2
  <1>9. NullsOK(u, p)
    BY <1>1, <1>2, <1>3 DEF NullsOK
  <1>10. GroupOK(u, p)
    BY <1>1, <1>2, <1>3 DEF GroupOK
  <1>11. SepOK(u, p, e) /\ SpokeOK(u, p, e)
    <2>1. flags.continue /\ ~e /\ ~flags.nodesc => h.cont_level = 0
      <3>1. h.return # Running
        BY DEF Running
      <3> QED
        BY <1>2, <1>3, <3>1 DEF SpokeOK
    <2>2. Waits(t, p, e, u, p, e)
      BY <1>1, <1>3, <2>1 DEF Waits
    <2> QED
      BY <1>2, <2>2, WaitsSep
  <1>12. Fresh(u[1], p)
    <2>1. CASE n = 1
      BY <1>3, <2>1 DEF Fresh
    <2>2. CASE n # 1
      <3>1. 1 \in 1..n
        BY <1>1
      <3>2. u[1] = t[1]
        BY <1>1, <2>2, <3>1
      <3> QED
        BY <1>2, <3>2
    <2> QED
      BY <2>1, <2>2
  <1> QED
    BY <1>5, <1>7, <1>8, <1>9, <1>10, <1>11, <1>12 DEF PrintOK, VoiceOK

-----------------------------------------------------------------------------
(* The steps of the activation that runs. *)

Printing == /\ MatchInv /\ (flags.annotate => flags.nodesc)
            /\ rv \in {0, 1} /\ (~flags.continue => rv = 0)
            /\ PrintOK(stack, print, err, rv)

LEMMA PrintingFacts ==
  ASSUME Printing
  PROVE  /\ stack \in Seq(Frames) /\ stack # << >> /\ Depth = Len(stack)
         /\ Depth \in Nat /\ Depth >= 1 /\ Depth \in 1..Depth /\ stack[Depth] = Top
         /\ Good(Top) /\ Top \in Frames /\ print \in Prints
         /\ FlagsOK /\ err \in BOOLEAN /\ li \in Tables
         /\ StackOK(stack, Len(db.lists))
         /\ Answered(Top, err) /\ Ends(stack, Depth)
         /\ Top.return # -1 => Voiced(Top, print.out, stack, Depth, err, rv)
  <1>1. /\ StackOK(stack, Len(db.lists)) /\ FlagsOK /\ SharedOK /\ PrintOK(stack, print, err, rv)
    BY DEF Printing, MatchInv
  <1>2. /\ stack \in Seq(Frames) /\ stack # << >> /\ Depth = Len(stack) /\ Depth \in Nat
        /\ Depth >= 1 /\ Good(Top) /\ stack[Depth] = Top
    BY <1>1, StackTop DEF StackOK, Depth, Top
  <1>3. Depth \in 1..Depth /\ Depth \in 1..Len(stack)
    BY <1>2
  <1>4. Answered(Top, err) /\ Ends(stack, Depth) /\ Told(stack, Depth, print.out) = print.out
    <2>1. Answered(stack[Depth], err)
      BY <1>1, <1>3 DEF PrintOK, VoiceOK, AnsweredOK
    <2> QED
      BY <1>2, <2>1 DEF Ends, Told
  <1>5. Top.return # -1 => Voiced(Top, print.out, stack, Depth, err, rv)
    <2> SUFFICES ASSUME Top.return # -1 PROVE Voiced(Top, print.out, stack, Depth, err, rv)
      OBVIOUS
    <2>1. Voiced(stack[Depth], Told(stack, Depth, print.out), stack, Depth, err, rv)
      BY <1>1, <1>2, <1>3, <1>4 DEF PrintOK, VoiceOK, VoicedOK
    <2> QED
      BY <1>2, <1>4, <2>1
  <1>6. Top \in Frames /\ print \in Prints /\ err \in BOOLEAN /\ li \in Tables
    BY <1>1, <1>2 DEF Good, SharedOK
  <1> QED
    BY <1>1, <1>2, <1>3, <1>4, <1>5, <1>6

\* Before an activation of file_softmagic begins another group.
LEMMA NewGroup ==
  ASSUME Printing, Top.return = Running, Top.cont_level = 0, Depth = 1
  PROVE  /\ ~flags.continue /\ ~print.flushed =>
              print.out = << >> /\ \A i \in 1..Len(stack) : stack[i].saved_out = << >>
         /\ flags.continue /\ ~print.flushed /\ ~err => (Asks(print) => ~Started(print))
  <1>1. /\ stack \in Seq(Frames) /\ Depth = Len(stack) /\ stack[Depth] = Top
        /\ StackOK(stack, Len(db.lists)) /\ Top \in Frames /\ print \in Prints
        /\ Answered(Top, err)
        /\ Top.return # -1 => Voiced(Top, print.out, stack, Depth, err, rv)
    BY PrintingFacts
  <1>2. Top.via = "top"
    BY <1>1, StackTop DEF StackOK
  <1>3. SpokeOK(stack, print, err) /\ Fresh(Top, print)
    BY <1>1 DEF Printing, PrintOK
  <1> DEFINE n == Len(stack)
  <1>6. n = 1
    BY <1>1
  <1> HIDE DEF n
  <1>7. \A i \in 1..n : i = 1
    BY <1>6
  <1>8. \A i \in 1..Len(stack) : stack[i] = Top
    BY <1>1, <1>7 DEF n
  <1>4. ASSUME ~flags.continue, ~print.flushed
        PROVE  print.out = << >> /\ \A i \in 1..Len(stack) : stack[i].saved_out = << >>
    <2>1. ~Top.found_match
      BY <1>3, <1>4 DEF Fresh
    <2>2. Top.returnval = 0
      <3>1. Top.returnval \in {0, 1}
        BY <1>1 DEF Frames
      <3> QED
        BY <1>1, <1>2, <2>1, <3>1 DEF Answered
    <2>3. rv = 0
      BY <1>4 DEF Printing
    <2>4. print.out = << >>
      <3>1. Top.return # -1
        BY DEF Running
      <3> QED
        BY <1>1, <2>2, <2>3, <3>1 DEF Voiced
    <2>5. ASSUME NEW i \in 1..Len(stack) PROVE stack[i].saved_out = << >>
      <3>1. Top.saved_out = << >>
        BY <1>1, <1>2 DEF Answered
      <3> QED
        BY <1>8, <3>1
    <2> QED
      BY <2>4, <2>5
  <1>5. ASSUME flags.continue, ~print.flushed, ~err, Asks(print) PROVE ~Started(print)
    <2>1. ~(print.printed /\ ~flags.nodesc)
      <3> SUFFICES ASSUME print.printed, ~flags.nodesc PROVE FALSE
        OBVIOUS
      <3>1. PICK i \in 1..Len(stack) : stack[i].found_match /\ stack[i].cont_level > 0
        BY <1>3, <1>5 DEF SpokeOK
      <3>2. Top.cont_level > 0
        BY <1>8, <3>1
      <3> QED
        BY <3>2
    <2> QED
      BY <1>5, <2>1 DEF Asks, Started
  <1> QED
    BY <1>4, <1>5

\* It goes on, to another group of the outermost list for instance.
LEMMA ForwardPrint ==
  ASSUME Printing, Top.return = Running, NEW f \in Frames, Alike(Top, f), Answers(Top, f),
         NEW p,
         \/ p = print /\ (f.cont_level > 0 \/ f.cont_level = Top.cont_level)
         \/ /\ Depth = 1 /\ f.cont_level = 0 /\ Top.cont_level = 0
            /\ p = [print EXCEPT !.group = @ + 1]
  PROVE  p \in Prints /\ PrintOK(Cut(stack, Depth, f), p, err, rv)
  <1> DEFINE u == Cut(stack, Depth, f)
  <1>1. /\ stack \in Seq(Frames) /\ stack # << >> /\ Depth = Len(stack) /\ stack[Depth] = Top
        /\ Depth \in Nat /\ Depth >= 1
        /\ Top \in Frames /\ print \in Prints
    BY PrintingFacts
  <1>2. PrintOK(stack, print, err, rv)
    BY DEF Printing
  <1>3. Replaces(stack, u) /\ u[Depth] = f
    BY <1>1, TopPlaces
  <1> HIDE DEF u
  <1>4. /\ f.found_match = Top.found_match /\ f.returnval = Top.returnval
        /\ f.return = Top.return
    BY DEF Answers
  <1>5. /\ p \in Prints /\ p.out = print.out /\ p.printed = print.printed
        /\ p.firstline = print.firstline /\ p.flushed = print.flushed
        /\ p = print \/ p.group = print.group + 1
    <2>1. CASE p = print
      BY <1>1, <2>1
    <2>2. CASE p = [print EXCEPT !.group = @ + 1]
      BY <1>1, <2>2 DEF Prints
    <2> QED
      BY <2>1, <2>2
  <1>6. (Started(p) <=> Started(print)) /\ (Asks(p) <=> Asks(print))
    BY <1>5 DEF Started, Asks
  <1>7. Aside(stack, print, err, u, p, err)
    <2>1. ~flags.continue /\ ~p.flushed =>
            \/ p.group = print.group
            \/ print.out = << >> /\ \A i \in 1..Len(stack) : stack[i].saved_out = << >>
      BY <1>5, NewGroup
    <2> QED
      BY <1>1, <1>3, <1>4, <1>5, <2>1 DEF Aside
  <1>8. Waits(stack, print, err, u, p, err)
    <2>1. flags.continue /\ ~err /\ ~p.flushed =>
            \/ p.group = print.group /\ (Asks(p) => Asks(print))
            \/ p.group = print.group + 1 /\ (Asks(p) => ~Started(print))
      BY <1>5, <1>6, NewGroup
    <2>2. Top.found_match /\ Top.cont_level > 0 => f.found_match /\ f.cont_level > 0
      <3>1. Top.cont_level = 0 => ~(Top.cont_level > 0)
        OBVIOUS
      <3> QED
        BY <1>4, <3>1
    <2> QED
      BY <1>1, <1>3, <1>4, <1>5, <1>6, <2>1, <2>2 DEF Waits
  <1>9. Depth = 1 => Fresh(f, p)
    <2>1. Depth = 1 => Fresh(Top, print)
      BY <1>1, <1>2 DEF PrintOK
    <2>2. f.cont_level = 0 => ~(f.cont_level > 0)
      OBVIOUS
    <2> QED
      BY <1>4, <1>5, <2>1, <2>2 DEF Fresh
  <1>10. PrintOK(u, p, err, rv)
    BY <1>1, <1>2, <1>3, <1>7, <1>8, <1>9, AsidePrint
  <1> QED
    BY <1>5, <1>10 DEF u

\* It gives up.
LEMMA FailPrint ==
  ASSUME Printing, NEW f \in Frames, Alike(Top, f), f.found_match = Top.found_match,
         f.returnval = Top.returnval, f.return = -1
  PROVE  PrintOK(Cut(stack, Depth, f), print, TRUE, rv)
  <1> DEFINE u == Cut(stack, Depth, f)
             yes == TRUE
  <1>1. /\ stack \in Seq(Frames) /\ stack # << >> /\ Depth = Len(stack) /\ stack[Depth] = Top
        /\ Top \in Frames /\ print \in Prints
    BY PrintingFacts
  <1>2. PrintOK(stack, print, err, rv) /\ yes
    BY DEF Printing
  <1>3. Replaces(stack, u) /\ u[Depth] = f
    BY <1>1, TopPlaces
  <1> HIDE DEF u, yes
  <1>4. Aside(stack, print, err, u, print, yes)
    BY <1>1, <1>2, <1>3 DEF Aside
  <1>5. Waits(stack, print, err, u, print, yes)
    BY <1>2 DEF Waits
  <1>6. Fresh(f, print)
    BY DEF Fresh, Running
  <1>7. PrintOK(u, print, yes, rv)
    BY <1>1, <1>2, <1>3, <1>4, <1>5, <1>6, AsidePrint
  <1> QED
    BY <1>7 DEF u, yes

\* It does so without an error.  The activations below it return as well, so that the output
\* is then that of the first of them, of which less is known.
LostOK(t, p) ==
  /\ NullsOK(t, p) /\ GroupOK(t, p)
  /\ flags.continue /\ ~p.flushed /\ QuietCalls =>
       Parted(p.out) /\ \A i \in 1..(Len(t) - 1) : Parted(t[i + 1].saved_out)
Lost(t, p, e) == ~e /\ t[Len(t)].return = -1 /\ LostOK(t, p)

LEMMA SubPieceParted ==
  ASSUME NEW full \in Seq(Int), Parted(full), NEW b \in Seq(Int),
         NEW x \in 0..Len(full), NEW y \in 0..Len(full), Piece(b, full, x, y)
  PROVE  Parted(b)
  <1> DEFINE n == Len(b)
             z == Len(full)
  <1>1. /\ n \in Nat /\ z \in Nat /\ x \in Nat /\ y \in Nat /\ y <= z
        /\ DOMAIN b = 1..n /\ DOMAIN full = 1..z
    OBVIOUS
  <1>2. n = y - x /\ \A m \in 1..n : b[m] = full[x + m]
    BY DEF Piece
  <1> HIDE DEF n, z
  <1>3. \A k \in 1..z : \A j \in 1..(k - 1) :
          full[j] > 0 /\ full[k] > full[j] => \E m \in j..k : full[m] = Separator
    BY <1>1 DEF Parted
  <1>4. ASSUME NEW k \in 1..n, NEW j \in 1..(k - 1), b[j] > 0, b[k] > b[j]
        PROVE  \E m \in j..k : b[m] = Separator
    <2>1. k \in Nat /\ j \in Nat /\ j < k /\ k <= n /\ j >= 1 /\ j \in 1..n
      BY <1>1
    <2>2. x + k \in 1..z /\ x + j \in 1..((x + k) - 1)
      BY <1>1, <1>2, <2>1
    <2>3. full[x + j] = b[j] /\ full[x + k] = b[k]
      BY <1>2, <2>1
    <2>4. PICK m \in (x + j)..(x + k) : full[m] = Separator
      BY <1>3, <1>4, <2>2, <2>3
    <2>5. m - x \in j..k /\ m - x \in 1..n /\ x + (m - x) = m
      BY <1>1, <2>1
    <2>6. b[m - x] = Separator
      BY <1>2, <2>4, <2>5
    <2> QED
      BY <2>5, <2>6
  <1> QED
    BY <1>1, <1>4 DEF Parted

LEMMA PrintLost ==
  ASSUME NEW t \in Seq(Frames), NEW p, NEW e, NEW r, PrintOK(t, p, e, r), ~e
  PROVE  LostOK(t, p)
  <1>1. NullsOK(t, p) /\ GroupOK(t, p) /\ SepOK(t, p, e)
    BY DEF PrintOK, VoiceOK
  <1>2. ASSUME flags.continue, ~p.flushed, QuietCalls
        PROVE  Parted(p.out) /\ \A i \in 1..(Len(t) - 1) : Parted(t[i + 1].saved_out)
    <2>1. PICK full, cut : Whole(t, p.out, full, cut) /\ FullOK(full, p)
      BY <1>1, <1>2 DEF SepOK
    <2>2. /\ full \in Seq(Int) /\ Parted(full)
          /\ \A i \in 1..Len(t) : cut[i] \in 0..Len(full) /\ t[i].saved_out \in Seq(Int)
          /\ \A i \in 1..(Len(t) - 1) : Piece(t[i + 1].saved_out, full, cut[i], cut[i + 1])
      BY <2>1 DEF Whole, FullOK
    <2>3. ASSUME NEW i \in 1..(Len(t) - 1) PROVE Parted(t[i + 1].saved_out)
      <3>1. i \in 1..Len(t) /\ i + 1 \in 1..Len(t)
        OBVIOUS
      <3> DEFINE b == t[i + 1].saved_out
                 x == cut[i]
                 y == cut[i + 1]
      <3>2. /\ b \in Seq(Int) /\ x \in 0..Len(full) /\ y \in 0..Len(full)
            /\ Piece(b, full, x, y) /\ full \in Seq(Int) /\ Parted(full)
        BY <2>2, <3>1
      <3> HIDE DEF b, x, y
      <3>3. Parted(b)
        BY <3>2, SubPieceParted
      <3> QED
        BY <3>3 DEF b
    <2> QED
      BY <1>1, <1>2, <2>3 DEF SepOK
  <1> QED
    BY <1>1, <1>2 DEF LostOK

\* An activation returns, and the buffer of its caller comes back or not.
LEMMA CutLost ==
  ASSUME NEW t \in Seq(Frames), NEW p, NEW e, LostOK(t, p), ~e, NEW d \in 1..Len(t),
         NEW g \in Frames, g.saved_out = t[d].saved_out, g.return = -1, NEW q,
         q.out = p.out \/ (Len(t) > 1 /\ q.out = t[Len(t)].saved_out),
         q.group = p.group, q.flushed = p.flushed
  PROVE  Lost(Cut(t, d, g), q, e)
  <1> DEFINE u == Cut(t, d, g)
             n == Len(t)
  <1>1. /\ u \in Seq(Frames) /\ Len(u) = d /\ u[d] = g
        /\ \A i \in 1..(d - 1) : u[i] = t[i]
    BY CutFacts
  <1>2. n \in Nat /\ d \in Nat /\ d <= n /\ d >= 1
    OBVIOUS
  <1> HIDE DEF u
  <1>3. \A i \in 1..d : i \in 1..n /\ u[i].saved_out = t[i].saved_out
    <2> SUFFICES ASSUME NEW i \in 1..d PROVE i \in 1..n /\ u[i].saved_out = t[i].saved_out
      OBVIOUS
    <2>1. i \in 1..n /\ (i = d \/ i \in 1..(d - 1))
      BY <1>2
    <2> QED
      BY <1>1, <2>1
  <1>4. q.out = p.out \/ (n \in 1..n /\ n - 1 \in 1..(n - 1) /\ q.out = t[n].saved_out)
    BY <1>2
  <1>5. NullsOK(u, q)
    BY <1>1, <1>3, <1>4 DEF LostOK, NullsOK
  <1>6. GroupOK(u, q)
    BY <1>1, <1>3, <1>4 DEF LostOK, GroupOK
  <1>7. ASSUME flags.continue, ~q.flushed, QuietCalls
        PROVE  Parted(q.out) /\ \A i \in 1..(d - 1) : Parted(u[i + 1].saved_out)
    <2>1. Parted(p.out) /\ \A i \in 1..(n - 1) : Parted(t[i + 1].saved_out)
      BY <1>7 DEF LostOK
    <2>2. Parted(q.out)
      <3>1. CASE q.out = p.out
        BY <2>1, <3>1
      <3>2. CASE n - 1 \in 1..(n - 1) /\ q.out = t[n].saved_out
        <4>1. (n - 1) + 1 = n
          BY <1>2
        <4> HIDE DEF n
        <4>2. Parted(t[n].saved_out)
          BY <2>1, <3>2, <4>1
        <4> QED
          BY <3>2, <4>2
      <3> QED
        BY <1>4, <3>1, <3>2
    <2>3. ASSUME NEW i \in 1..(d - 1) PROVE Parted(u[i + 1].saved_out)
      <3>1. i \in 1..(n - 1) /\ i + 1 \in 1..d
        BY <1>2
      <3> QED
        BY <1>3, <2>1, <3>1
    <2> QED
      BY <2>2, <2>3
  <1> QED
    BY <1>1, <1>5, <1>6, <1>7 DEF Lost, LostOK, u

\* The rule f stands on is examined, p being the output.
Begins(f, p) ==
  /\ OnRule(f) /\ Keeps(Top, f) /\ Alike(Top, f) /\ Answers(Top, f) /\ f.return = Running
  /\ p \in Prints /\ (f.cont_level > 0 => p = print)
  /\ PrintOK(Cut(stack, Depth, f), p, err, rv)

LEMMA BeginsFacts ==
  ASSUME Printing, NEW f, NEW p, Begins(f, p)
  PROVE  /\ OnRule(f) /\ Good(f) /\ f \in Frames /\ f.return = Running /\ p \in Prints
         /\ f.rules[f.magindex] \in Rule /\ f.magindex \in DOMAIN f.rules /\ FromDb(f.rules)
         /\ Len(Cut(stack, Depth, f)) = Depth /\ Cut(stack, Depth, f)[Depth] = f
         /\ Depth = 1 => Fresh(f, p)
         /\ PrintOK(Cut(stack, Depth, f), p, err, rv)
  <1>1. OnRule(f) /\ Good(f) /\ f \in Frames /\ f.return = Running /\ p \in Prints
        /\ PrintOK(Cut(stack, Depth, f), p, err, rv) /\ Alike(Top, f)
    BY DEF Begins, OnRule, Good
  <1>2. /\ stack \in Seq(Frames) /\ stack # << >> /\ Depth = Len(stack) /\ stack[Depth] = Top
        /\ Answered(Top, err)
    BY PrintingFacts
  <1>3. FromDb(f.rules)
    BY <1>1, <1>2 DEF Answered, Alike
  <1>4. f.rules[f.magindex] \in Rule
    BY <1>1, RuleOf
  <1>5. f.magindex \in DOMAIN f.rules
    BY <1>1 DEF OnRule, Good, Frames
  <1>6. Len(Cut(stack, Depth, f)) = Depth /\ Cut(stack, Depth, f)[Depth] = f
    <2>1. Depth \in 1..Len(stack)
      BY <1>2
    <2> QED
      BY <1>1, <1>2, <2>1, CutFacts
  <1>7. Depth = 1 => Fresh(f, p)
    BY <1>1, <1>6 DEF PrintOK
  <1> QED
    BY <1>1, <1>3, <1>4, <1>5, <1>6, <1>7

\* A rule of the database that has a description.
LEMMA DescribedCalls ==
  ASSUME NEW rules, FromDb(rules), NEW k \in DOMAIN rules, Describes(rules[k])
  PROVE  /\ QuietCalls => rules[k].type \notin {"indirect", "name"}
         /\ SpeakingCalls /\ rules[k].inverted => rules[k].type \notin {"use", "indirect"}
  <1>1. QuietCalls => CallsQuiet(rules)
    BY DEF QuietCalls, FromDb, Describes
  <1>2. SpeakingCalls => CallsSpeak(rules)
    BY DEF SpeakingCalls, FromDb, Describes
  <1> QED
    BY <1>1, <1>2 DEF CallsQuiet, CallsSpeak, Describes

LEMMA BarredPrint ==
  ASSUME Printing, NEW f, NEW p, Begins(f, p), Barred(f, f.rules[f.magindex]),
         Become(Depth, Mark(f, "barred")), UNCHANGED <<print, err, rv>>
  PROVE  PrintOK(stack', print', err', rv')
  <1> DEFINE g == Mark(f, "barred")
  <1>1. /\ Good(f) /\ Alike(Top, f) /\ Answers(Top, f) /\ f.return = Running
        /\ f.cont_level > 0
    BY BeginsFacts DEF Begins, Barred
  <1>2. Alike(f, g) /\ Answers(f, g) /\ g.cont_level = f.cont_level /\ g \in Frames
    BY <1>1, MarkAnswers, MarkGood DEF Keeps, Good, Statuses
  <1>3. stack' = Cut(stack, Depth, g)
    BY DEF Become, Cut
  <1> HIDE DEF g
  <1>4. Alike(Top, g) /\ Answers(Top, g) /\ g.cont_level > 0 /\ Top.return = Running
    BY <1>1, <1>2 DEF Alike, Answers
  <1>5. PrintOK(Cut(stack, Depth, g), print, err, rv)
    BY <1>2, <1>4, ForwardPrint
  <1> QED
    BY <1>3, <1>5

LEMMA FailedPrint ==
  ASSUME Printing, NEW f, NEW p, Begins(f, p), Fail(Depth, f), UNCHANGED rv
  PROVE  PrintOK(stack', print', err', rv')
  <1> DEFINE g == [f EXCEPT !.return = -1]
  <1>1. f \in Frames /\ Alike(Top, f) /\ Answers(Top, f)
    BY BeginsFacts DEF Begins
  <1>2. /\ g \in Frames /\ Alike(f, g) /\ g.found_match = f.found_match
        /\ g.returnval = f.returnval /\ g.return = -1
    BY <1>1 DEF Frames, Alike, Values
  <1>3. stack' = Cut(stack, Depth, g) /\ err' = TRUE /\ print' = print
    BY DEF Fail, Become, Cut
  <1> HIDE DEF g
  <1>4. Alike(Top, g) /\ g.found_match = Top.found_match /\ g.returnval = Top.returnval
    BY <1>1, <1>2 DEF Alike, Answers
  <1>5. PrintOK(Cut(stack, Depth, g), print, TRUE, rv)
    BY <1>2, <1>4, FailPrint
  <1> QED
    BY <1>3, <1>5, Zenon

LEMMA GivenUpPrint ==
  ASSUME Printing, NEW f, NEW p, Begins(f, p), GiveUp(Depth, f), UNCHANGED rv
  PROVE  PrintOK(stack', print', err', rv') \/ Lost(stack', print', err')
  <1> DEFINE g == [f EXCEPT !.return = -1]
  <1>1. f \in Frames /\ Alike(Top, f) /\ Answers(Top, f)
    BY BeginsFacts DEF Begins
  <1>2. /\ g \in Frames /\ Alike(f, g) /\ g.found_match = f.found_match
        /\ g.returnval = f.returnval /\ g.return = -1
    BY <1>1 DEF Frames, Alike, Values
  <1>3. stack' = Cut(stack, Depth, g) /\ UNCHANGED <<print, err>>
    BY DEF GiveUp, Become, Cut
  <1> HIDE DEF g
  <1>4. Alike(Top, g) /\ g.found_match = Top.found_match /\ g.returnval = Top.returnval
    BY <1>1, <1>2 DEF Alike, Answers
  <1>5. CASE err
    <2> DEFINE yes == TRUE
    <2>1. PrintOK(Cut(stack, Depth, g), print, yes, rv)
      BY <1>2, <1>4, FailPrint
    <2>2. err = yes
      BY <1>5, PrintingFacts
    <2> HIDE DEF yes
    <2> QED
      BY <1>3, <2>1, <2>2
  <1>6. CASE ~err
    <2>1. /\ stack \in Seq(Frames) /\ Depth \in 1..Len(stack) /\ stack[Depth] = Top
          /\ PrintOK(stack, print, err, rv)
      BY PrintingFacts DEF Printing
    <2>2. LostOK(stack, print)
      BY <1>6, <2>1, PrintLost
    <2>3. Lost(Cut(stack, Depth, g), print, err)
      BY <1>2, <1>4, <1>6, <2>1, <2>2, CutLost DEF Alike
    <2> QED
      BY <1>3, <2>3
  <1> QED
    BY <1>5, <1>6

LEMMA ConsultPrint ==
  ASSUME Printing, NEW f, NEW p, Begins(f, p), Consult(f, p, f.rules[f.magindex]),
         UNCHANGED rv
  PROVE  PrintOK(stack', print', err', rv') \/ Lost(stack', print', err')
  <1> DEFINE e == f.rules[f.magindex]
             q == IF e.type = "name" /\ Describes(e) THEN Text(p) ELSE p
  <1>1. PICK verdict \in Verdicts(e) :
          IF verdict = "fail" THEN Fail(Depth, f) \/ GiveUp(Depth, f)
          ELSE Settle(Depth, f, q, li, verdict) /\ UNCHANGED err
    BY DEF Consult
  <1>2. /\ OnRule(f) /\ f.return = Running /\ p \in Prints /\ FromDb(f.rules)
        /\ f.magindex \in DOMAIN f.rules /\ e.type \in Types /\ e.inverted \in BOOLEAN
        /\ Depth = 1 => Fresh(f, p)
        /\ PrintOK(Cut(stack, Depth, f), p, err, rv)
    BY BeginsFacts DEF Rule
  <1>3. /\ StackOK(stack, Len(db.lists)) /\ FlagsOK /\ (flags.annotate => flags.nodesc)
        /\ li \in Tables /\ Depth \in 1..Len(stack)
    BY PrintingFacts DEF Printing
  <1>4. Describes(e) => /\ QuietCalls => e.type \notin {"indirect", "name"}
                        /\ SpeakingCalls /\ e.inverted => e.type \notin {"use", "indirect"}
    BY <1>2, DescribedCalls
  <1>5. CASE verdict = "fail"
    BY <1>1, <1>5, FailedPrint, GivenUpPrint
  <1>6. CASE verdict # "fail"
    <2>1. Settle(Depth, f, q, li, verdict) /\ UNCHANGED err
      BY <1>1, <1>6
    <2>2. /\ verdict \in Statuses \cup {"hit"} /\ (e.type = "name" => verdict = "hit")
          /\ e.type \in {"use", "indirect"} => verdict = "oob"
      <3> HIDE DEF e
      <3> QED
        BY <1>1, <1>2, <1>6 DEF Verdicts, Statuses, Types
    <2>3. CASE e.type = "name" /\ Describes(e)
      <3>1. Settle(Depth, f, Text(p), li, "hit") /\ ~QuietCalls
        BY <1>4, <2>1, <2>2, <2>3
      <3>2. PrintOK(stack', print', err, rv)
        BY <1>2, <1>3, <2>3, <3>1, NamedPrint
      <3> QED
        BY <2>1, <3>2
    <2>4. CASE ~(e.type = "name" /\ Describes(e))
      <3>1. Settle(Depth, f, p, li, verdict)
        BY <2>1, <2>4
      <3>2. SpokenFor(f, p, verdict)
        <4>1. ~(SpeakingCalls /\ Describes(e) /\ Matched(e, verdict)
                  /\ e.type \in {"use", "indirect", "name"})
          <5> HIDE DEF e
          <5> QED
            BY <1>4, <2>2, <2>4 DEF Matched
        <4> QED
          BY <4>1 DEF SpokenFor
      <3>3. PrintOK(stack', print', err, rv)
        BY <1>2, <1>3, <2>2, <3>1, <3>2, PrintSays, SettledPrint
      <3> QED
        BY <2>1, <3>3
    <2> QED
      BY <2>3, <2>4
  <1> QED
    BY <1>5, <1>6

LEMMA FrameBegins ==
  ASSUME NEW via, NEW rules, NEW list, NEW nonzero, NEW f, f = Frame(via, rules, list, nonzero)
  PROVE  /\ ~f.found_match /\ f.returnval = 0 /\ f.return = Running
         /\ f.cont_level = 0 /\ f.saved_out = << >> /\ f.via = via /\ f.rules = rules
  <1> DEFINE t == [k \in DOMAIN rules |-> "unseen"]
             no == FALSE
             none == << >>
             r == Running
             g == [via |-> via, rules |-> rules, list |-> list, nonzero |-> nonzero,
                   magindex |-> 0, cont_level |-> 0, found_match |-> no, returnval |-> 0,
                   return |-> r, status |-> t,
                   clobbered |-> no, saved_li |-> none, saved_out |-> none]
  <1>1. f = g
    BY Zenon DEF Frame
  <1> HIDE DEF t, none, no, r
  <1>2. /\ f.found_match = no /\ f.returnval = 0 /\ f.return = r
        /\ f.cont_level = 0 /\ f.saved_out = none /\ f.via = via /\ f.rules = rules
    BY <1>1
  <1> QED
    BY <1>1, <1>2, Zenon DEF none, no, r

\* A use rule runs its list.
LEMMA CallUsePrint ==
  ASSUME Printing, NEW f, NEW p, Begins(f, p), f.rules[f.magindex].type = "use",
         CallUse(f, p, f.rules[f.magindex]), UNCHANGED rv
  PROVE  PrintOK(stack', print', err', rv')
  <1> DEFINE e == f.rules[f.magindex]
  <1>1. CASE Fail(Depth, f)
    BY <1>1, FailedPrint
  <1>2. CASE e.name \in DOMAIN db.names
    <2>1. PICK nonzero \in {f.nonzero, TRUE} :
            stack' = Below \o <<f, [Frame("use", db.names[e.name], 0, nonzero) EXCEPT
                                      !.returnval = f.returnval, !.saved_li = li]>>
      BY <1>2, Zenon DEF CallUse
    <2>2. print' = p /\ UNCHANGED err
      BY <1>2, Zenon DEF CallUse
    <2>3. /\ f \in Frames /\ f.return = Running /\ p \in Prints /\ f.nonzero \in BOOLEAN
          /\ f.returnval \in {0, 1} /\ Len(Cut(stack, Depth, f)) = Depth
          /\ PrintOK(Cut(stack, Depth, f), p, err, rv)
      BY BeginsFacts DEF Frames
    <2>4. /\ stack \in Seq(Frames) /\ stack # << >> /\ Depth = Len(stack) /\ li \in Tables
          /\ err \in BOOLEAN
      BY PrintingFacts
    <2> DEFINE list == db.names[e.name]
               new == Frame("use", list, 0, nonzero)
               r == f.returnval
               child == [new EXCEPT !.returnval = r, !.saved_li = li]
    <2>5. list \in Seq(Rule) /\ FromDb(list) /\ nonzero \in BOOLEAN
      <3>1. DbOK
        BY DEF Printing, MatchInv
      <3> QED
        BY <1>2, <2>1, <2>3, <3>1 DEF DbOK, FromDb
    <2>6. /\ new \in Frames /\ ~new.found_match /\ new.return = Running
          /\ new.saved_out = << >> /\ new.via = "use" /\ new.rules = list
      <3>1. "use" \in Vias /\ 0 \in Nat
        BY DEF Vias
      <3> HIDE DEF list
      <3>2. new \in Frames
        BY <2>5, <3>1, FrameGood
      <3>3. new = Frame("use", list, 0, nonzero)
        OBVIOUS
      <3> HIDE DEF new
      <3>4. /\ ~new.found_match /\ new.return = Running
            /\ new.saved_out = << >> /\ new.via = "use" /\ new.rules = list
        BY <3>3, FrameBegins
      <3> QED
        BY <3>2, <3>4
    <2>7. stack' = Pushed(stack, f, child)
      BY <2>1, <2>4 DEF Pushed, Below
    <2> HIDE DEF list, new, e, r
    <2>8. /\ child \in Frames /\ ~child.found_match /\ child.return = Running
          /\ child.saved_out = << >> /\ child.via = "use" /\ child.rules = list
          /\ child.returnval = r
      <3>1. r \in {0, 1}
        BY <2>3 DEF r
      <3> QED
        BY <2>4, <2>6, <3>1 DEF Frames
    <2> HIDE DEF child
    <2>9. Answered(child, err)
      BY <2>5, <2>8 DEF Answered, Running
    <2>10. f.rules[f.magindex].type = "use" /\ r = f.returnval
      BY DEF r
    <2>11. Linked(f, child)
      BY <2>3, <2>8, <2>10 DEF Linked
    <2> DEFINE t == Cut(stack, Len(stack), f)
               u == Pushed(stack, f, child)
    <2>12. Pushes(t, u) /\ t[Len(t)] = f /\ u[Len(u)] = child
      BY <2>3, <2>4, <2>8, PushPlaces
    <2>13. PrintOK(t, p, err, rv)
      BY <2>3, <2>4
    <2>14. SamePrint(p, p)
      BY DEF SamePrint
    <2> HIDE DEF t, u
    <2>15. PrintOK(u, p, err, rv)
      BY <2>3, <2>8, <2>9, <2>10, <2>11, <2>12, <2>13, <2>14, PushPrint
    <2> QED
      BY <2>2, <2>7, <2>15 DEF u
  <1> QED
    BY <1>1, <1>2 DEF CallUse

\* An indirect rule runs the first list of the database.
LEMMA CallIndirectPrint ==
  ASSUME Printing, NEW f, NEW p, Begins(f, p), f.rules[f.magindex].type = "indirect",
         CallIndirect(f, p), UNCHANGED rv
  PROVE  PrintOK(stack', print', err', rv') \/ Lost(stack', print', err')
  <1>1. CASE GiveUp(Depth, f)
    BY <1>1, GivenUpPrint
  <1>2. CASE ~GiveUp(Depth, f)
    <2> DEFINE list == db.lists[1]
               new == OuterFrame("indirect", list, 1)
               o == p.out
               child == [new EXCEPT !.saved_out = o]
               g == [f EXCEPT !.clobbered = TRUE]
               q == [p EXCEPT !.out = << >>]
    <2>1. stack' = Below \o <<g, child>> /\ print' = q /\ UNCHANGED err
      BY <1>2 DEF CallIndirect, OuterFrame
    <2>2. /\ f \in Frames /\ f.return = Running /\ p \in Prints
          /\ PrintOK(Cut(stack, Depth, f), p, err, rv)
          /\ Depth = 1 => Fresh(f, p)
      BY BeginsFacts
    <2>3. /\ stack \in Seq(Frames) /\ stack # << >> /\ Depth = Len(stack)
          /\ Depth \in 1..Len(stack)
      BY PrintingFacts
    <2>4. list \in Seq(Rule) /\ FromDb(list)
      <3>1. DbOK
        BY DEF Printing, MatchInv
      <3>2. 1 \in DOMAIN db.lists
        BY <3>1 DEF DbOK
      <3> QED
        BY <3>1, <3>2 DEF DbOK, FromDb
    <2>5. /\ new \in Frames /\ ~new.found_match /\ new.returnval = 0
          /\ new.return = Running /\ new.via = "indirect" /\ new.rules = list
      <3>1. "indirect" \in {"top", "indirect"} /\ 1 \in Nat
        OBVIOUS
      <3> HIDE DEF list
      <3>2. new \in Frames
        BY <2>4, <3>1, ListFrame DEF Good
      <3> DEFINE no == FALSE
      <3>3. new = Frame("indirect", list, 1, no)
        BY Zenon DEF OuterFrame
      <3> HIDE DEF new, no
      <3>4. /\ ~new.found_match /\ new.returnval = 0
            /\ new.return = Running /\ new.via = "indirect" /\ new.rules = list
        BY <3>3, FrameBegins
      <3> QED
        BY <3>2, <3>4
    <2>6. stack' = Pushed(stack, g, child)
      BY <2>1, <2>3 DEF Pushed, Below
    <2>7. o \in Seq(Int)
      BY <2>2 DEF Prints
    <2>8. q.out = << >> /\ SamePrint(p, q) /\ q \in Prints
      <3>1. << >> \in Seq(Int)
        OBVIOUS
      <3> QED
        BY <2>2, <3>1 DEF Prints, SamePrint
    <2> HIDE DEF list, new, o, q
    <2>9. /\ child \in Frames /\ ~child.found_match /\ child.returnval = 0
          /\ child.return = Running /\ child.via = "indirect" /\ child.rules = list
          /\ child.saved_out = o
      BY <2>5, <2>7 DEF Frames
    <2>10. /\ g \in Frames /\ Alike(f, g) /\ Answers(f, g) /\ g.cont_level = f.cont_level
           /\ g.magindex = f.magindex
      BY <2>2 DEF Frames, Alike, Answers
    <2> HIDE DEF child, g
    <2>11. Answered(child, err)
      BY <2>4, <2>9 DEF Answered, Running
    <2>12. Linked(g, child)
      BY <2>2, <2>9, <2>10 DEF Linked, Alike, Answers
    <2> DEFINE s == Cut(stack, Depth, f)
               t == Cut(stack, Depth, g)
               u == Pushed(stack, g, child)
    <2>13. Replaces(s, t) /\ Len(s) = Depth /\ s[Depth] = f /\ t[Depth] = g
      BY <2>2, <2>3, <2>10, CutPlaces
    <2>14. Pushes(t, u) /\ t[Len(t)] = g /\ u[Len(u)] = child
      BY <2>3, <2>9, <2>10, PushPlaces
    <2>15. PrintOK(s, p, err, rv)
      BY <2>2
    <2> HIDE DEF s, t, u
    <2>16. Aside(s, p, err, t, p, err) /\ Waits(s, p, err, t, p, err)
      BY <2>2, <2>10, <2>13 DEF Aside, Waits, Answers
    <2>17. Depth = 1 => Fresh(g, p)
      BY <2>2, <2>10 DEF Fresh, Answers
    <2>18. PrintOK(t, p, err, rv)
      BY <2>2, <2>13, <2>15, <2>16, <2>17, AsidePrint
    <2>19. g.return = Running
      BY <2>2, <2>10 DEF Answers
    <2>20. PrintOK(u, q, err, rv)
      BY <2>2, <2>8, <2>9, <2>11, <2>12, <2>14, <2>18, <2>19, PushPrint DEF o
    <2> QED
      BY <2>1, <2>6, <2>20 DEF u
  <1> QED
    BY <1>1, <1>2

\* The rest of the group is passed over.
LEMMA FlushedPrint ==
  ASSUME Printing, NEW f, NEW p, Begins(f, p), Become(Depth, Flush(f)),
         err => err', print' = [p EXCEPT !.flushed = @ \/ f.found_match], UNCHANGED rv
  PROVE  PrintOK(stack', print', err', rv')
  <1> DEFINE g == Flush(f)
             b == p.flushed \/ f.found_match
             q == [p EXCEPT !.flushed = b]
             s == Cut(stack, Depth, f)
             u == Cut(stack, Depth, g)
             e2 == err'
  <1>1. /\ Good(f) /\ f \in Frames /\ f.return = Running /\ p \in Prints
        /\ PrintOK(s, p, err, rv)
    BY BeginsFacts
  <1>2. stack \in Seq(Frames) /\ Depth \in 1..Len(stack)
    BY PrintingFacts
  <1>3. Alike(f, g) /\ Answers(f, g) /\ g.cont_level = 0 /\ g \in Frames
    BY <1>1, FlushAnswers, FlushGood DEF Keeps, Good
  <1>4. stack' = u /\ print' = q
    BY DEF Become, Cut
  <1>5. /\ q.out = p.out /\ q.printed = p.printed /\ q.firstline = p.firstline
        /\ q.group = p.group /\ (p.flushed => q.flushed)
        /\ f.found_match => q.flushed
    BY <1>1 DEF Prints
  <1>6. err => e2
    OBVIOUS
  <1> HIDE DEF g, b, q
  <1>7. Replaces(s, u) /\ Len(s) = Depth /\ s[Depth] = f /\ u[Depth] = g
    BY <1>1, <1>2, <1>3, CutPlaces
  <1> HIDE DEF s, u, e2
  <1>8. Aside(s, p, err, u, q, e2)
    BY <1>3, <1>5, <1>6, <1>7 DEF Aside, Answers
  <1>9. Waits(s, p, err, u, q, e2)
    BY <1>1, <1>3, <1>5, <1>6, <1>7 DEF Waits, Answers, Started, Asks
  <1>10. Fresh(g, q)
    BY <1>3, <1>5 DEF Fresh, Answers
  <1>11. PrintOK(u, q, e2, rv)
    BY <1>1, <1>7, <1>8, <1>9, <1>10, AsidePrint
  <1> QED
    BY <1>4, <1>11 DEF e2

LEMMA EvaluatePrint ==
  ASSUME Printing, NEW f, NEW p, Begins(f, p), Evaluate(f, p), UNCHANGED rv
  PROVE  PrintOK(stack', print', err', rv') \/ Lost(stack', print', err')
  <1> DEFINE e == f.rules[f.magindex]
  <1>1. PICK where \in SetOffset(f, e) :
          \/ /\ Barred(f, e) /\ Become(Depth, Mark(f, "barred")) /\ UNCHANGED <<print, err>>
          \/ Fail(Depth, f)
          \/ Consult(f, p, e)
          \/ e.type = "use" /\ CallUse(f, p, e)
          \/ e.type = "indirect" /\ CallIndirect(f, p)
          \/ Become(Depth, f) /\ print' = p /\ UNCHANGED err
          \/ /\ Become(Depth, Flush(f)) /\ err' = (err \/ where = "error")
             /\ print' = [p EXCEPT !.flushed = @ \/ f.found_match]
    BY DEF Evaluate
  <1>2. CASE Become(Depth, f) /\ print' = p /\ UNCHANGED err
    <2>1. stack' = Cut(stack, Depth, f)
      BY <1>2 DEF Become, Cut
    <2> QED
      BY <1>2, <2>1, BeginsFacts
  <1>3. CASE /\ Become(Depth, Flush(f)) /\ err' = (err \/ where = "error")
             /\ print' = [p EXCEPT !.flushed = @ \/ f.found_match]
    BY <1>3, FlushedPrint
  <1>4. CASE Barred(f, e) /\ Become(Depth, Mark(f, "barred")) /\ UNCHANGED <<print, err>>
    BY <1>4, BarredPrint
  <1>5. CASE Fail(Depth, f)
    BY <1>5, FailedPrint
  <1>6. CASE Consult(f, p, e)
    BY <1>6, ConsultPrint
  <1>7. CASE e.type = "use" /\ CallUse(f, p, e)
    BY <1>7, CallUsePrint
  <1>8. CASE e.type = "indirect" /\ CallIndirect(f, p)
    BY <1>8, CallIndirectPrint
  <1> HIDE DEF e
  <1> QED
    BY <1>1, <1>2, <1>3, <1>4, <1>5, <1>6, <1>7, <1>8

\* The activation as it goes on to its next rule.
LEMMA AdvanceAlike ==
  ASSUME Printing, Top.magindex < Len(Top.rules)
  PROVE  /\ Good(Advance) /\ Keeps(Top, Advance) /\ Advance \in Frames
         /\ Alike(Top, Advance) /\ Answers(Top, Advance)
         /\ Advance.cont_level = Top.cont_level /\ Advance.magindex >= 1
         /\ Advance.rules[Advance.magindex].level \in 0..MaxLevel
  <1> DEFINE n == Top.magindex + 1
  <1>1. /\ Good(Advance) /\ Keeps(Top, Advance) /\ Advance.cont_level = Top.cont_level
        /\ Advance.magindex = n /\ Advance.rules = Top.rules /\ n \in 1..Len(Top.rules)
    BY AdvanceGood DEF Printing
  <1>2. Advance \in Frames /\ Top \in Frames
    BY <1>1, PrintingFacts DEF Good
  <1>3. Advance.rules[Advance.magindex].level \in 0..MaxLevel
    <2>1. Top.rules \in Seq(Rule)
      BY <1>2 DEF Frames
    <2> HIDE DEF n
    <2>2. Top.rules[n] \in Rule
      BY <1>1, <2>1
    <2> QED
      BY <1>1, <2>2 DEF Rule
  <1>4. Advance.magindex >= 1
    BY <1>1
  <1>5. Advance = [Top EXCEPT !.magindex = n]
    BY DEF Advance
  <1> HIDE DEF n
  <1>6. Alike(Top, Advance) /\ Answers(Top, Advance)
    BY <1>2, <1>5 DEF Frames, Alike, Answers
  <1> QED
    BY <1>1, <1>2, <1>3, <1>4, <1>6

LEMMA NextGroupPrint ==
  ASSUME Printing, NextGroup
  PROVE  PrintOK(stack', print', err', rv') \/ Lost(stack', print', err')
  <1> DEFINE f == Advance
             e == f.rules[f.magindex]
             p == IF Depth = 1 THEN [print EXCEPT !.group = @ + 1] ELSE print
  <1>1. /\ Top.cont_level = 0 /\ Top.magindex < Len(Top.rules) /\ Top.return = Running
        /\ UNCHANGED rv
    BY DEF NextGroup, Active, Call
  <1>2. /\ Good(f) /\ Keeps(Top, f) /\ f \in Frames /\ Alike(Top, f) /\ Answers(Top, f)
        /\ f.cont_level = 0 /\ f.magindex >= 1
    BY <1>1, AdvanceAlike
  <1>3. OnRule(f)
    BY <1>2, ParamsAssumption DEF OnRule
  <1>4. CASE e.selected \/ e.type = "name"
    <2>1. Evaluate(f, p)
      BY <1>4 DEF NextGroup
    <2>2. \/ p = print
          \/ Depth = 1 /\ p = [print EXCEPT !.group = @ + 1]
      OBVIOUS
    <2> HIDE DEF f, p
    <2>3. p \in Prints /\ PrintOK(Cut(stack, Depth, f), p, err, rv)
      BY <1>1, <1>2, <2>2, ForwardPrint
    <2>4. ~(f.cont_level > 0) /\ f.return = Running
      BY <1>1, <1>2 DEF Answers
    <2>5. Begins(f, p)
      BY <1>2, <1>3, <2>3, <2>4 DEF Begins
    <2> QED
      BY <1>1, <2>1, <2>5, EvaluatePrint
  <1>5. CASE ~(e.selected \/ e.type = "name")
    <2>1. Become(Depth, Flush(f)) /\ UNCHANGED <<print, err>>
      BY <1>5 DEF NextGroup
    <2> HIDE DEF f, p
    <2> DEFINE g == Flush(f)
    <2>2. Alike(f, g) /\ Answers(f, g) /\ g.cont_level = 0 /\ g \in Frames
      BY <1>2, FlushAnswers, FlushGood DEF Keeps, Good
    <2>3. stack' = Cut(stack, Depth, g)
      BY <2>1 DEF Become, Cut
    <2> HIDE DEF g
    <2>4. Alike(Top, g) /\ Answers(Top, g)
      BY <1>2, <2>2 DEF Alike, Answers
    <2>5. PrintOK(Cut(stack, Depth, g), print, err, rv)
      BY <1>1, <2>2, <2>4, ForwardPrint
    <2> QED
      BY <1>1, <2>1, <2>3, <2>5
  <1> QED
    BY <1>4, <1>5

LEMMA NextContinuationPrint ==
  ASSUME Printing, NextContinuation
  PROVE  PrintOK(stack', print', err', rv') \/ Lost(stack', print', err')
  <1> DEFINE f == Advance
             level == f.rules[f.magindex].level
             g == [f EXCEPT !.cont_level = level]
  <1>1. /\ Top.magindex < Len(Top.rules) /\ Top.return = Running /\ UNCHANGED rv
        /\ Top.rules[Top.magindex + 1].level # 0
    BY DEF NextContinuation, HasContinuation, Active, Call
  <1>2. /\ Good(f) /\ Keeps(Top, f) /\ f \in Frames /\ Alike(Top, f) /\ Answers(Top, f)
        /\ f.cont_level = Top.cont_level /\ f.magindex >= 1 /\ level \in 0..MaxLevel
    BY <1>1, AdvanceAlike
  <1>3. level # 0
    BY <1>1, AdvanceGood DEF Printing
  <1>4. CASE Hidden(f, level)
    <2>1. Become(Depth, Mark(f, "skipped")) /\ UNCHANGED <<print, err>>
      BY <1>4 DEF NextContinuation
    <2> HIDE DEF f
    <2> DEFINE h == Mark(f, "skipped")
    <2>2. Alike(f, h) /\ Answers(f, h) /\ h.cont_level = f.cont_level /\ h \in Frames
      BY <1>2, MarkAnswers, MarkGood DEF Keeps, Good, Statuses
    <2>3. stack' = Cut(stack, Depth, h)
      BY <2>1 DEF Become, Cut
    <2> HIDE DEF h
    <2>4. Alike(Top, h) /\ Answers(Top, h) /\ h.cont_level = Top.cont_level
      BY <1>2, <2>2 DEF Alike, Answers
    <2>5. PrintOK(Cut(stack, Depth, h), print, err, rv)
      BY <1>1, <2>2, <2>4, ForwardPrint
    <2> QED
      BY <1>1, <2>1, <2>3, <2>5
  <1>5. CASE ~Hidden(f, level)
    <2>1. Evaluate(g, print)
      BY <1>5 DEF NextContinuation
    <2> HIDE DEF f
    <2>2. level \in Levels /\ level > 0 /\ level <= MaxLevel
      BY <1>2, <1>3, LevelsFacts, ParamsAssumption
    <2> HIDE DEF level
    <2>3. Good(g) /\ g.via = f.via /\ g.list = f.list /\ g.magindex = f.magindex
          /\ g.cont_level = level /\ g \in Frames
      BY <1>2, <2>2 DEF Good, Frames
    <2>4. Alike(f, g) /\ Answers(f, g)
      BY <1>2 DEF Frames, Alike, Answers
    <2> HIDE DEF g
    <2>5. OnRule(g) /\ Keeps(Top, g)
      BY <1>2, <2>2, <2>3 DEF OnRule, Keeps
    <2>6. Alike(Top, g) /\ Answers(Top, g) /\ g.return = Running
      BY <1>1, <1>2, <2>4 DEF Alike, Answers
    <2>7. print \in Prints /\ PrintOK(Cut(stack, Depth, g), print, err, rv)
      BY <1>1, <2>2, <2>3, <2>6, ForwardPrint
    <2>8. Begins(g, print)
      BY <2>5, <2>6, <2>7 DEF Begins
    <2> QED
      BY <1>1, <2>1, <2>8, EvaluatePrint
  <1> QED
    BY <1>4, <1>5

LEMMA EndGroupPrint ==
  ASSUME Printing, EndGroup
  PROVE  PrintOK(stack', print', err', rv')
  <1> DEFINE v == IF StopsHere(Top) THEN Top.returnval ELSE Running
             g == [Top EXCEPT !.cont_level = 0, !.return = v]
             again == Top.found_match /\ flags.continue
             first == print.firstline /\ ~print.printed /\ ~again
             pr == print.printed /\ ~again
             q == [print EXCEPT !.firstline = first, !.printed = pr]
             u == Cut(stack, Depth, g)
  <1>1. /\ stack \in Seq(Frames) /\ stack # << >> /\ Depth = Len(stack) /\ stack[Depth] = Top
        /\ Top \in Frames /\ print \in Prints /\ Top.returnval \in {0, 1} /\ FlagsOK
    BY PrintingFacts DEF Frames
  <1>2. /\ stack' = u /\ print' = q /\ UNCHANGED <<err, rv>>
        /\ Top.return = Running
    BY DEF EndGroup, CloseGroup, Become, Cut, Call, Active
  <1>3. PrintOK(stack, print, err, rv)
    BY DEF Printing
  <1>4. /\ q.out = print.out /\ q.group = print.group /\ q.flushed = print.flushed
        /\ q.firstline <=> first
        /\ q.printed <=> pr
    BY <1>1 DEF Prints
  <1>5. v \in Values
    BY <1>1 DEF Values
  <1>6. v # Running <=> StopsHere(Top)
    BY <1>1 DEF Running
  <1>7. v = Running \/ v = Top.returnval
    OBVIOUS
  <1> HIDE DEF v
  <1>8. /\ g \in Frames /\ Alike(Top, g) /\ g.found_match = Top.found_match
        /\ g.returnval = Top.returnval /\ g.return = v /\ g.cont_level = 0
    BY <1>1, <1>5, LevelsFacts DEF Frames, Alike
  <1> HIDE DEF g
  <1>9. Replaces(stack, u) /\ u[Depth] = g
    BY <1>1, <1>8, TopPlaces
  <1> HIDE DEF u, q
  <1>10. Aside(stack, print, err, u, q, err)
    BY <1>1, <1>2, <1>4, <1>7, <1>8, <1>9 DEF Aside
  <1>11. Waits(stack, print, err, u, q, err)
    BY <1>1, <1>2, <1>4, <1>8, <1>9 DEF Waits, Started, Asks
  <1>12. Fresh(g, q)
    BY <1>6, <1>8 DEF Fresh, StopsHere
  <1>13. PrintOK(u, q, err, rv)
    BY <1>1, <1>3, <1>9, <1>10, <1>11, <1>12, AsidePrint
  <1> QED
    BY <1>2, <1>13

LEMMA EndListPrint ==
  ASSUME Printing, EndList
  PROVE  PrintOK(stack', print', err', rv')
  <1> DEFINE v == Top.returnval
             g == [Top EXCEPT !.return = v]
             u == Cut(stack, Depth, g)
  <1>1. /\ stack \in Seq(Frames) /\ stack # << >> /\ Depth = Len(stack) /\ stack[Depth] = Top
        /\ Top \in Frames /\ print \in Prints /\ v \in {0, 1}
    BY PrintingFacts DEF Frames
  <1>2. /\ stack' = u /\ UNCHANGED <<print, err, rv>>
        /\ Top.return = Running /\ Top.cont_level = 0
    BY DEF EndList, Become, Cut, Call, Active
  <1>3. PrintOK(stack, print, err, rv)
    BY DEF Printing
  <1>4. v \in Values /\ v # Running
    BY <1>1 DEF Values, Running
  <1>5. v = Top.returnval
    OBVIOUS
  <1> HIDE DEF v
  <1>6. /\ g \in Frames /\ Alike(Top, g) /\ g.found_match = Top.found_match
        /\ g.returnval = Top.returnval /\ g.return = v /\ g.cont_level = 0
    BY <1>1, <1>2, <1>4 DEF Frames, Alike
  <1> HIDE DEF g
  <1>7. Replaces(stack, u) /\ u[Depth] = g
    BY <1>1, <1>6, TopPlaces
  <1> HIDE DEF u
  <1>8. Aside(stack, print, err, u, print, err)
    BY <1>1, <1>2, <1>5, <1>6, <1>7 DEF Aside
  <1>9. ~(Top.cont_level > 0)
    BY <1>2
  <1>10. Waits(stack, print, err, u, print, err)
    BY <1>1, <1>6, <1>7, <1>9 DEF Waits
  <1>11. Fresh(g, print)
    BY <1>4, <1>6 DEF Fresh
  <1>12. PrintOK(u, print, err, rv)
    BY <1>1, <1>3, <1>7, <1>8, <1>10, <1>11, AsidePrint
  <1> QED
    BY <1>2, <1>12

-----------------------------------------------------------------------------
(* The steps of the callers. *)

\* The properties of the output alone.
OutputOK == OneGroupDescribes /\ MatchesSeparated /\ NoNullText

LEMMA TextOutput ==
  ASSUME print \in Prints, NullsOK(stack, print), GroupOK(stack, print),
         flags.continue /\ ~print.flushed /\ QuietCalls => Parted(print.out)
  PROVE  OutputOK
  <1>1. OneGroupDescribes
    <2> SUFFICES ASSUME ~flags.continue, ~print.flushed PROVE Cardinality(Texts) <= 1
      BY DEF OneGroupDescribes
    <2>1. \A k \in DOMAIN print.out : print.out[k] > 0 => print.out[k] = print.group
      BY DEF GroupOK, About
    <2>2. print.group \in Nat
      BY DEF Prints
    <2>3. Texts \subseteq {print.group}
      <3> SUFFICES ASSUME NEW n \in Texts PROVE n = print.group
        OBVIOUS
      <3>1. n \in 1..print.group /\ \E k \in DOMAIN print.out : print.out[k] = n
        BY DEF Texts
      <3> QED
        BY <2>1, <2>2, <3>1
    <2>4. IsFiniteSet({print.group}) /\ Cardinality({print.group}) = 1
      BY FS_Singleton
    <2>5. Cardinality(Texts) \in Nat /\ Cardinality(Texts) <= Cardinality({print.group})
      BY <2>3, <2>4, FS_Subset, FS_CardinalityType
    <2> QED
      BY <2>4, <2>5
  <1>2. MatchesSeparated
    BY DEF Parted, MatchesSeparated
  <1>3. NoNullText
    BY DEF NullsOK, NullFree, NoNullText
  <1> QED
    BY <1>1, <1>2, <1>3 DEF OutputOK

LEMMA PrintOutput ==
  ASSUME print \in Prints, PrintOK(stack, print, err, rv)
  PROVE  OutputOK
  BY TextOutput DEF PrintOK, VoiceOK, SepOK

LEMMA LostOutput ==
  ASSUME print \in Prints, LostOK(stack, print)
  PROVE  OutputOK
  BY TextOutput DEF LostOK

\* file_softmagic goes on with the next list, or returns.
LEMMA ReturnToSoftmagicPrint ==
  ASSUME Printing, ReturnToSoftmagic, result = Running
  PROVE  \/ /\ result' = Running /\ rv' \in {0, 1} /\ (~flags.continue => rv' = 0)
            /\ PrintOK(stack', print', err', rv')
         \/ /\ result' # Running
            /\ result' = 0 => print'.out = << >>
            /\ result' = 1 /\ ~err' /\ SpeakingCalls => print'.out # << >>
  <1>1. /\ stack \in Seq(Frames) /\ stack # << >> /\ Depth = Len(stack) /\ stack[Depth] = Top
        /\ Top \in Frames /\ print \in Prints /\ Answered(Top, err)
        /\ StackOK(stack, Len(db.lists))
        /\ Top.return # -1 => Voiced(Top, print.out, stack, Depth, err, rv)
    BY PrintingFacts
  <1>2. Top.via = "top" /\ Depth = 1 /\ Top.return \in {-1, 0, 1}
    BY <1>1, StackTop DEF ReturnToSoftmagic, Returned, Frames, Values
  <1>3. /\ UNCHANGED <<print, err>> /\ rv' = IF Top.return = 0 THEN rv ELSE Top.return
        /\ rv \in {0, 1} /\ (~flags.continue => rv = 0)
        /\ PrintOK(stack, print, err, rv)
    BY DEF ReturnToSoftmagic, Printing
  <1>4. CASE result' = rv'
    <2>1. Outer(stack, Depth)
      <3>1. \A k \in 1..Depth : stack[k].via = "top"
        BY <1>1, <1>2
      <3> QED
        BY <3>1 DEF Outer
    <2>2. Top.return \in {0, 1} => Top.returnval = Top.return
      BY <1>1 DEF Answered
    <2>3. result' = 0 => Top.return = 0 /\ rv = 0
      BY <1>2, <1>3, <1>4
    <2>4. result' = 1 => Top.return = 1 \/ (Top.return = 0 /\ rv = 1)
      BY <1>2, <1>3, <1>4
    <2>5. result' = 0 => print.out = << >>
      BY <1>1, <2>2, <2>3 DEF Voiced
    <2>6. result' = 1 /\ ~err /\ SpeakingCalls => print.out # << >>
      BY <1>1, <2>1, <2>2, <2>4 DEF Voiced
    <2>7. result' # Running
      BY <1>2, <1>3, <1>4 DEF Running
    <2> QED
      BY <1>3, <2>5, <2>6, <2>7
  <1>5. CASE result' # rv'
    <2> DEFINE list == db.lists[Top.list + 1]
               g == OuterFrame("top", list, Top.list + 1)
    <2>1. /\ Top.list # Len(db.lists) /\ result' = result /\ stack' = <<g>>
          /\ Top.return # -1 /\ (~flags.continue => Top.return # 1)
      BY <1>5 DEF ReturnToSoftmagic, OuterFrame
    <2>2. Good(g)
      BY <2>1, NextList DEF Printing
    <2>3. /\ ~g.found_match /\ g.returnval = 0 /\ g.return = Running
          /\ g.cont_level = 0 /\ g.saved_out = << >> /\ g.via = "top" /\ g.rules = list
      <3> DEFINE no == FALSE
                 m == Top.list + 1
      <3>1. g = Frame("top", list, m, no)
        BY Zenon DEF OuterFrame
      <3> HIDE DEF g, no, m, list
      <3> QED
        BY <3>1, FrameBegins
    <2>4. FromDb(g.rules)
      <3>1. DbOK /\ Top.list \in Nat /\ Top.list <= Len(db.lists)
        BY <1>1, StackTop DEF Printing, MatchInv, Frames
      <3>2. Top.list + 1 \in DOMAIN db.lists
        BY <2>1, <3>1 DEF DbOK
      <3> QED
        BY <2>3, <3>2 DEF FromDb
    <2> HIDE DEF g
    <2> DEFINE u == <<g>>
               x == rv'
    <2>5. Top.saved_out = << >>
      BY <1>1, <1>2 DEF Answered
    <2>6. u \in Seq(Frames) /\ Len(u) = 1 /\ u[1] = g
      BY <2>2 DEF Good
    <2> HIDE DEF u
    <2>7. Places(stack, u) /\ u[Len(stack)] = g /\ Len(stack) = 1
      BY <1>1, <1>2, <2>3, <2>5, <2>6 DEF Places
    <2>8. Top.return \in {0, 1}
      BY <1>2, <2>1
    <2>9. x \in {0, 1} /\ (~flags.continue => x = 0) /\ x = IF Top.return = 0 THEN rv ELSE 1
      BY <1>3, <2>1, <2>8
    <2>10. (~flags.continue => Top.return = 0) /\ x \in Int
      BY <2>1, <2>8, <2>9
    <2> HIDE DEF x
    <2>11. PrintOK(u, print, err, x)
      BY <1>1, <1>3, <2>3, <2>4, <2>7, <2>8, <2>9, <2>10, NextPrint
    <2>12. stack' = u /\ x = rv'
      BY <2>1 DEF u, x
    <2> QED
      BY <1>3, <2>1, <2>9, <2>11, <2>12
  <1> QED
    BY <1>4, <1>5

\* The activation that called the last one.
LEMMA CallerFacts ==
  ASSUME Printing, Depth > 1
  PROVE  /\ Caller = stack[Depth - 1] /\ Depth - 1 \in 1..Len(stack) /\ Len(stack) > 1
         /\ OnRule(Caller) /\ Caller \in Frames /\ Caller.return = Running
         /\ Caller.rules[Caller.magindex].type = Top.via /\ FromDb(Caller.rules)
         /\ Caller.magindex \in DOMAIN Caller.rules
         /\ Answered(Caller, err) /\ Linked(Caller, Top)
         /\ Depth - 1 = 1 => Fresh(Caller, print)
  <1> DEFINE d == Depth - 1
  <1>1. /\ stack \in Seq(Frames) /\ Depth = Len(stack) /\ stack[Depth] = Top /\ Depth \in Nat
        /\ StackOK(stack, Len(db.lists)) /\ PrintOK(stack, print, err, rv)
    BY PrintingFacts DEF Printing
  <1>2. /\ d \in 1..Len(stack) /\ d \in 1..(Len(stack) - 1) /\ d + 1 = Depth /\ Len(stack) > 1
        /\ Caller = stack[d]
    BY <1>1 DEF Caller
  <1>3. OnRule(Caller)
    BY <1>1, <1>2 DEF StackOK
  <1>4. Caller \in Frames /\ Caller.magindex \in DOMAIN Caller.rules
    BY <1>3 DEF OnRule, Good, Frames
  <1> HIDE DEF d
  <1>5. Answered(Caller, err) /\ Linked(Caller, Top)
    <2>1. Answered(stack[d], err)
      BY <1>1, <1>2 DEF PrintOK, VoiceOK, AnsweredOK
    <2>2. Linked(stack[d], stack[d + 1])
      BY <1>1, <1>2 DEF PrintOK, VoiceOK, AnsweredOK
    <2> QED
      BY <1>1, <1>2, <2>1, <2>2
  <1>6. d = 1 => Fresh(Caller, print)
    BY <1>1, <1>2 DEF PrintOK
  <1>7. /\ Caller.return = Running /\ Caller.rules[Caller.magindex].type = Top.via
        /\ FromDb(Caller.rules)
    BY <1>5 DEF Linked, Answered
  <1> QED
    BY <1>2, <1>3, <1>4, <1>5, <1>6, <1>7 DEF d

\* It goes on with what a use rule's list found and printed.
LEMMA UsePops ==
  ASSUME Printing, Depth > 1, Top.via = "use", Top.return # Running, NEW f \in Frames,
         Alike(Caller, f), f.found_match = (Caller.found_match \/ Top.found_match),
         f.returnval = Top.returnval, f.cont_level = Caller.cont_level,
         \/ f.return = Running /\ Top.return # -1
         \/ f.return = -1 /\ Top.return = -1
  PROVE  SaysOK(Cut(stack, Depth - 1, f), print, err, rv)
  <1> DEFINE d == Depth - 1
             u == Cut(stack, d, f)
  <1>1. /\ stack \in Seq(Frames) /\ Depth = Len(stack) /\ stack[Depth] = Top /\ Depth \in Nat
        /\ print \in Prints /\ Answered(Top, err) /\ Top \in Frames
        /\ Top.return # -1 => Voiced(Top, print.out, stack, Depth, err, rv)
        /\ flags.annotate => flags.nodesc
        /\ PrintOK(stack, print, err, rv)
    BY PrintingFacts DEF Printing
  <1>2. /\ Caller = stack[d] /\ d \in 1..Len(stack) /\ Len(stack) > 1 /\ Caller.return = Running
        /\ Answered(Caller, err) /\ Linked(Caller, Top) /\ Caller \in Frames
    BY CallerFacts
  <1>3. Pops(stack, u) /\ Len(u) = d /\ u[Len(u)] = f
    BY <1>1, <1>2, PopPlaces
  <1>4. Caller = stack[Len(u)] /\ Top = stack[Len(stack)]
    BY <1>1, <1>2, <1>3
  <1>5. Answered(f, err)
    <2>1. f.return \notin {0, 1} /\ (f.return = -1 => err)
      BY <1>1 DEF Answered, Running
    <2>2. f.found_match => Caller.found_match \/ Top.found_match
      OBVIOUS
    <2>3. f.found_match /\ ~flags.nodesc => f.returnval = 1
      BY <1>1, <1>2, <2>2 DEF Answered, Linked
    <2>4. f.via # "use" /\ f.returnval = 1 => f.found_match
      BY <1>1, <1>2 DEF Answered, Linked, Alike
    <2>5. (f.via # "indirect" => f.saved_out = << >>) /\ FromDb(f.rules)
      BY <1>2 DEF Answered, Alike
    <2> QED
      BY <2>1, <2>3, <2>4, <2>5 DEF Answered
  <1>6. /\ Caller.returnval = 1 => f.returnval = 1
        /\ f.returnval = 1 => f.found_match \/ Caller.returnval = 1
    BY <1>2 DEF Linked
  <1>7. f.return # -1 => Voiced(f, print.out, u, Len(u), err, rv)
    <2> SUFFICES ASSUME f.return # -1 PROVE Voiced(f, print.out, u, d, err, rv)
      BY <1>3
    <2>1. Voiced(Top, print.out, stack, Depth, err, rv)
      BY <1>1
    <2>2. Outer(u, d) <=> Outer(stack, Depth)
      <3>1. d \in Nat /\ Depth = d + 1 /\ \A i \in 1..d : i = d \/ i \in 1..(d - 1)
        BY <1>1, <1>2
      <3> HIDE DEF d, u
      <3>2. \A i \in 1..d : u[i].via = stack[i].via
        BY <1>3, <3>1 DEF Pops, Alike
      <3>3. stack[Depth].via # "indirect"
        BY <1>1
      <3>4. \A i \in 1..Depth : i = Depth \/ i \in 1..d
        BY <3>1
      <3>5. \A i \in 1..d : i \in 1..Depth
        BY <3>1
      <3> QED
        BY <3>2, <3>3, <3>4, <3>5 DEF Outer
    <2> HIDE DEF d, u
    <2> QED
      BY <2>1, <2>2 DEF Voiced
  <1>8. QuietCalls => Joined(Top, print, print)
    <2>1. Top.saved_out = << >> /\ print.out \in Seq(Int)
      BY <1>1 DEF Answered, Prints
    <2>2. << >> \o print.out = print.out
      BY <2>1
    <2> QED
      BY <2>1, <2>2 DEF Joined
  <1>9. Top.returnval = 1 => f.returnval = 1
    OBVIOUS
  <1>10. f.return = Running \/ err
    BY <1>1 DEF Answered
  <1> HIDE DEF u, d
  <1>11. Caller.found_match => f.found_match
    OBVIOUS
  <1>12. SaysOK(u, print, err, rv)
    BY <1>1, <1>3, <1>4, <1>5, <1>6, <1>7, <1>8, <1>9, <1>10, <1>11, PopPrint
  <1> QED
    BY <1>12 DEF u, d

LEMMA ReturnFromUsePrint ==
  ASSUME Printing, ReturnFromUse
  PROVE  PrintOK(stack', print', err', rv')
  <1> DEFINE b == Caller.found_match \/ Top.found_match
             r == Top.returnval
             f == [Caller EXCEPT !.found_match = b, !.returnval = r]
             g == [f EXCEPT !.return = -1]
             d == Depth - 1
             verdict == IF Top.return = 0 /\ ~f.found_match THEN "oob"
                        ELSE IF Top.found_match THEN "hit" ELSE "miss"
  <1>1. /\ Top.via = "use" /\ Top.return # Running /\ UNCHANGED <<err, rv>>
    BY DEF ReturnFromUse, Returned, Call
  <1>2. /\ IF Top.return = -1 THEN Become(d, g) /\ UNCHANGED print
           ELSE Settle(d, f, print, RestoreCont(Top), verdict)
    BY DEF ReturnFromUse
  <1>3. /\ Good(Top) /\ Top \in Frames /\ print \in Prints /\ Answered(Top, err)
        /\ StackOK(stack, Len(db.lists)) /\ FlagsOK
        /\ Top.return # -1 => Voiced(Top, print.out, stack, Depth, err, rv)
        /\ flags.annotate => flags.nodesc
        /\ MatchInv
    BY PrintingFacts DEF Printing
  <1>4. Depth > 1
    BY <1>1, <1>3, StackTop
  <1>5. /\ d \in 1..Len(stack) /\ Caller.return = Running /\ OnRule(Caller) /\ Caller \in Frames
        /\ Caller.rules[Caller.magindex].type = "use" /\ FromDb(Caller.rules)
        /\ Caller.magindex \in DOMAIN Caller.rules
        /\ d = 1 => Fresh(Caller, print)
    BY <1>1, <1>4, CallerFacts
  <1>6. b \in BOOLEAN /\ r \in {0, 1} /\ -1 \in Values
    BY <1>3, <1>5 DEF Frames, Values
  <1>7. OnRule(f)
    <2> HIDE DEF b, r
    <2> QED
      BY <1>3, <1>4, <1>6, CallerGood, Zenon
  <1>8. /\ Alike(Caller, f) /\ f.found_match = b /\ f.returnval = r /\ f \in Frames
        /\ f.cont_level = Caller.cont_level /\ f.return = Running
        /\ f.magindex = Caller.magindex
    <2> HIDE DEF b, r
    <2> QED
      BY <1>5, <1>6 DEF Frames, Alike
  <1>9. verdict \in Statuses \cup {"hit"}
    BY DEF Statuses
  <1> HIDE DEF f
  <1>10. CASE Top.return = -1
    <2>1. /\ Alike(Caller, g) /\ g.found_match = b /\ g.returnval = r /\ g \in Frames
          /\ g.cont_level = Caller.cont_level /\ g.return = -1
      BY <1>6, <1>8 DEF Frames, Alike
    <2>2. stack' = Cut(stack, d, g) /\ print' = print
      BY <1>2, <1>10 DEF Become, Cut
    <2> HIDE DEF g
    <2>3. SaysOK(Cut(stack, Depth - 1, g), print, err, rv)
      BY <1>1, <1>4, <1>10, <2>1, UsePops
    <2>4. Fresh(g, print)
      BY <2>1 DEF Fresh, Running
    <2>5. Len(Cut(stack, d, g)) = d /\ Cut(stack, d, g)[d] = g
      <3>1. stack \in Seq(Frames)
        BY <1>3 DEF StackOK
      <3> HIDE DEF d
      <3> QED
        BY <1>5, <2>1, <3>1, CutFacts
    <2>6. PrintOK(Cut(stack, d, g), print, err, rv)
      BY <2>3, <2>4, <2>5, PrintSays
    <2> QED
      BY <1>1, <2>2, <2>6
  <1>11. CASE Top.return # -1
    <2>1. SaysOK(Cut(stack, d, f), print, err, rv)
      BY <1>1, <1>4, <1>8, <1>11, UsePops
    <2>2. f.rules[f.magindex].type = "use" /\ FromDb(f.rules) /\ f.magindex \in DOMAIN f.rules
      BY <1>5, <1>8 DEF Alike
    <2>3. verdict = "hit" => Top.found_match
      OBVIOUS
    <2>4. verdict # "hit" => (d = 1 => Fresh(f, print))
      <3> SUFFICES ASSUME verdict # "hit", d = 1 PROVE Fresh(f, print)
        OBVIOUS
      <3>1. ~f.found_match \/ ~Top.found_match
        OBVIOUS
      <3>2. Fresh(Caller, print)
        BY <1>5
      <3> HIDE DEF d, verdict
      <3> QED
        BY <1>5, <1>8, <3>1, <3>2 DEF Fresh
    <2> HIDE DEF verdict
    <2>5. SpokenFor(f, print, verdict)
      <3> DEFINE e == f.rules[f.magindex]
      <3> SUFFICES ASSUME SpeakingCalls, Describes(e), Matched(e, verdict)
                   PROVE  err \/ print.out # << >>
        BY DEF SpokenFor
      <3>1. ~e.inverted
        BY <2>2, DescribedCalls
      <3>2. verdict = "hit"
        BY <3>1 DEF Matched
      <3>3. ~flags.nodesc
        BY DEF Describes
      <3>4. Top.returnval = 1
        BY <1>3, <2>3, <3>2, <3>3 DEF Answered
      <3> QED
        BY <1>3, <1>11, <3>3, <3>4 DEF Voiced
    <2>6. RestoreCont(Top) \in Tables
      BY <1>1, <1>3 DEF RestoreCont, Good
    <2>7. Settle(d, f, print, RestoreCont(Top), verdict)
      BY <1>2, <1>11
    <2>8. f.rules[f.magindex].type # "name"
      BY <2>2
    <2> HIDE DEF d
    <2>9. PrintOK(stack', print', err, rv)
      BY <1>3, <1>5, <1>7, <1>8, <1>9, <2>1, <2>4, <2>5, <2>6, <2>7, <2>8, SettledPrint
    <2> QED
      BY <1>1, <2>9
  <1> QED
    BY <1>10, <1>11

\* The caller of the last activation goes on as f, and the output is q.
LEMMA CallerPops ==
  ASSUME Printing, Depth > 1, Top.return # Running, NEW f \in Frames, Alike(Caller, f),
         f.cont_level = Caller.cont_level, Caller.found_match => f.found_match,
         Caller.returnval = 1 => f.returnval = 1,
         f.returnval = 1 => f.found_match \/ Caller.returnval = 1,
         f.found_match /\ ~flags.nodesc => f.returnval = 1,
         NEW e2, err => e2, Top.returnval = 1 => e2 \/ f.returnval = 1,
         f.return = Running \/ (f.return = -1 /\ e2),
         NEW q, SamePrint(print, q),
         f.return # -1 => Voiced(f, q.out, stack, Depth - 1, e2, rv),
         ~flags.annotate /\ SpeakingCalls /\ NullFree(print.out) /\ NullFree(Top.saved_out) =>
           NullFree(q.out),
         About(print.out, print.group) /\ About(Top.saved_out, print.group) =>
           About(q.out, print.group),
         e2 => q.out = print.out,
         ~e2 /\ QuietCalls => Joined(Top, print, q)
  PROVE  /\ SaysOK(Cut(stack, Depth - 1, f), q, e2, rv)
         /\ f.return = -1 => PrintOK(Cut(stack, Depth - 1, f), q, e2, rv)
  <1> DEFINE d == Depth - 1
             u == Cut(stack, d, f)
  <1>1. /\ stack \in Seq(Frames) /\ Depth = Len(stack) /\ stack[Depth] = Top /\ Depth \in Nat
        /\ print \in Prints /\ PrintOK(stack, print, err, rv)
    BY PrintingFacts DEF Printing
  <1>2. /\ Caller = stack[d] /\ d \in 1..Len(stack) /\ Len(stack) > 1 /\ Caller.return = Running
        /\ Answered(Caller, err)
    BY CallerFacts
  <1>3. Pops(stack, u) /\ Len(u) = d /\ u[Len(u)] = f
    BY <1>1, <1>2, PopPlaces
  <1>4. Caller = stack[Len(u)] /\ Top = stack[Len(stack)]
    BY <1>1, <1>2, <1>3
  <1>5. Answered(f, e2)
    <2>1. f.return \notin {0, 1} /\ (f.return = -1 => e2)
      BY DEF Running
    <2>2. f.via # "use" /\ f.returnval = 1 => f.found_match
      BY <1>2 DEF Answered, Alike
    <2>3. (f.via # "indirect" => f.saved_out = << >>) /\ FromDb(f.rules)
      BY <1>2 DEF Answered, Alike
    <2> QED
      BY <2>1, <2>2, <2>3 DEF Answered
  <1>6. ASSUME f.return # -1 PROVE Voiced(f, q.out, u, Len(u), e2, rv)
    <2>1. Voiced(f, q.out, stack, d, e2, rv)
      BY <1>6
    <2>2. Outer(u, d) <=> Outer(stack, d)
      <3>1. d \in Nat /\ \A i \in 1..d : i = d \/ i \in 1..(d - 1)
        BY <1>1, <1>2
      <3> HIDE DEF d, u
      <3>2. \A i \in 1..d : u[i].via = stack[i].via
        BY <1>3, <3>1 DEF Pops, Alike
      <3> QED
        BY <3>2 DEF Outer
    <2> HIDE DEF d, u
    <2> QED
      BY <1>3, <2>1, <2>2 DEF Voiced
  <1>7. /\ q.printed = print.printed /\ q.firstline = print.firstline
        /\ q.group = print.group /\ (print.flushed => q.flushed)
    BY DEF SamePrint
  <1>8. f.return = Running \/ e2
    OBVIOUS
  <1> HIDE DEF u, d
  <1>9. SaysOK(u, q, e2, rv)
    BY <1>1, <1>3, <1>4, <1>5, <1>6, <1>7, <1>8, PopPrint
  <1>10. ASSUME f.return = -1 PROVE PrintOK(u, q, e2, rv)
    <2>1. Fresh(f, q)
      BY <1>10 DEF Fresh, Running
    <2>2. Len(u) = 1 => Fresh(u[1], q)
      BY <1>3, <2>1
    <2> QED
      BY <1>9, <2>2, PrintSays
  <1> QED
    BY <1>9, <1>10 DEF u, d

\* A rule that runs the database has the lists' text to append, and no text that fails.
LEMMA IndirectFacts ==
  ASSUME Printing, Depth > 1, Top.via = "indirect", Top.return \in {0, 1}, ~err
  PROVE  /\ Top.saved_out \in Seq(Int) /\ print.out \in Seq(Int)
         /\ Top.returnval = Top.return
         /\ Top.return = 0 => print.out = << >>
         /\ Top.return = 1 /\ ~flags.annotate /\ SpeakingCalls => print.out # << >>
         /\ Voiced(Caller, Top.saved_out, stack, Depth - 1, err, rv)
  <1> DEFINE d == Depth - 1
  <1>1. /\ Depth = Len(stack) /\ stack[Depth] = Top /\ Depth \in Nat /\ Depth \in 1..Depth
        /\ print \in Prints /\ Top \in Frames /\ Answered(Top, err)
        /\ Top.return # -1 => Voiced(Top, print.out, stack, Depth, err, rv)
        /\ PrintOK(stack, print, err, rv)
    BY PrintingFacts DEF Printing
  <1>2. Caller = stack[d] /\ d \in 1..Len(stack) /\ Caller.return = Running
    BY CallerFacts
  <1>3. Top.saved_out \in Seq(Int) /\ print.out \in Seq(Int)
    BY <1>1 DEF Frames, Prints
  <1>4. Top.returnval = Top.return
    BY <1>1 DEF Answered
  <1>5. Voiced(Top, print.out, stack, Depth, err, rv)
    BY <1>1
  <1>6. ~Outer(stack, Depth)
    BY <1>1 DEF Outer
  <1>7. Top.return = 0 => print.out = << >>
    BY <1>4, <1>5, <1>6 DEF Voiced
  <1>8. Top.return = 1 /\ ~flags.annotate /\ SpeakingCalls => print.out # << >>
    BY <1>4, <1>5 DEF Voiced
  <1>9. d # Len(stack) /\ d + 1 = Depth
    BY <1>1
  <1>10. Ends(stack, d) /\ Told(stack, d, print.out) = Top.saved_out
    BY <1>1, <1>9 DEF Ends, Told
  <1>11. Voiced(stack[d], Told(stack, d, print.out), stack, d, err, rv)
    <2>1. stack[d].return # -1
      BY <1>2 DEF Running
    <2> HIDE DEF d
    <2> QED
      BY <1>1, <1>2, <1>10, <2>1 DEF PrintOK, VoiceOK, VoicedOK
  <1>12. Voiced(Caller, Top.saved_out, stack, d, err, rv)
    BY <1>2, <1>10, <1>11
  <1> QED
    BY <1>3, <1>4, <1>7, <1>8, <1>12

\* The next list of the database.
LEMMA IndirectNextPrint ==
  ASSUME Printing, Top.via = "indirect", Top.return = 0, Top.list < Len(db.lists),
         Become(Depth, [OuterFrame("indirect", db.lists[Top.list + 1], Top.list + 1) EXCEPT
                          !.saved_out = Top.saved_out])
  PROVE  PrintOK(stack', print, err, rv)
  <1> DEFINE m == Top.list + 1
             list == db.lists[m]
             new == OuterFrame("indirect", list, m)
             o == Top.saved_out
             g == [new EXCEPT !.saved_out = o]
             u == Cut(stack, Depth, g)
  <1>1. /\ stack \in Seq(Frames) /\ Depth = Len(stack) /\ stack[Depth] = Top /\ stack # << >>
        /\ Depth \in 1..Len(stack) /\ print \in Prints /\ Top \in Frames
        /\ StackOK(stack, Len(db.lists)) /\ PrintOK(stack, print, err, rv)
        /\ rv \in {0, 1}
    BY PrintingFacts DEF Printing
  <1>2. stack' = u
    BY DEF Become, Cut
  <1>3. DbOK /\ Top.list \in Nat /\ m \in DOMAIN db.lists
    <2>1. DbOK
      BY DEF Printing, MatchInv
    <2>2. Top.list \in Nat
      BY <1>1 DEF Frames
    <2>3. Len(db.lists) \in Nat /\ DOMAIN db.lists = 1..Len(db.lists)
      BY <2>1 DEF DbOK
    <2>4. m \in DOMAIN db.lists
      BY <2>2, <2>3
    <2> QED
      BY <2>1, <2>2, <2>4, Zenon
  <1>4. FromDb(list) /\ o \in Seq(Int)
    BY <1>1, <1>3 DEF FromDb, Frames
  <1>5. new \in Frames
    <2>1. Top.list # Len(db.lists) /\ "indirect" \in {"top", "indirect"}
      BY <1>3
    <2> QED
      BY <2>1, NextList DEF Printing, Good
  <1> HIDE DEF list
  <1>6. /\ ~new.found_match /\ new.returnval = 0 /\ new.return = Running
        /\ new.cont_level = 0 /\ new.via = "indirect" /\ new.rules = list
    <2> DEFINE no == FALSE
    <2>1. new = Frame("indirect", list, m, no)
      BY Zenon DEF OuterFrame
    <2> HIDE DEF new, no, m
    <2> QED
      BY <2>1, FrameBegins
  <1> HIDE DEF new, o
  <1>7. /\ g \in Frames /\ ~g.found_match /\ g.returnval = 0 /\ g.return = Running
        /\ g.cont_level = 0 /\ g.via = "indirect" /\ g.rules = list /\ g.saved_out = o
    BY <1>4, <1>5, <1>6 DEF Frames
  <1> HIDE DEF g
  <1>8. Top = stack[Len(stack)] /\ u = Cut(stack, Len(stack), g)
    BY <1>1
  <1> HIDE DEF u
  <1>9. Places(stack, u) /\ u[Len(stack)] = g
    BY <1>1, <1>7, <1>8, AnotherPlaces DEF o
  <1>10. Top.return \in {0, 1} /\ rv \in Int
    BY <1>1
  <1>11. PrintOK(u, print, err, rv)
    BY <1>1, <1>4, <1>7, <1>8, <1>9, <1>10, NextPrint
  <1> QED
    BY <1>2, <1>11

LEMMA JoinTokens ==
  ASSUME NEW s \in Seq(Int), NEW x \in Seq(Int)
  PROVE  /\ s \o x \in Seq(Int)
         /\ NullFree(s) /\ NullFree(x) => NullFree(s \o x)
         /\ \A g : About(s, g) /\ About(x, g) => About(s \o x, g)
         /\ x # << >> => s \o x # << >>
  <1> DEFINE c == s \o x
  <1>1. /\ c \in Seq(Int) /\ Len(c) = Len(s) + Len(x) /\ Len(s) \in Nat /\ Len(x) \in Nat
        /\ \A k \in 1..Len(s) : c[k] = s[k]
        /\ \A k \in (Len(s) + 1)..Len(c) : c[k] = x[k - Len(s)]
    OBVIOUS
  <1> HIDE DEF c
  <1>2. ASSUME NEW k \in DOMAIN c
        PROVE  \/ k \in DOMAIN s /\ c[k] = s[k]
               \/ k - Len(s) \in DOMAIN x /\ c[k] = x[k - Len(s)]
    <2>1. k \in 1..Len(c)
      BY <1>1
    <2>2. CASE k <= Len(s)
      <3>1. k \in 1..Len(s)
        BY <1>1, <2>1, <2>2
      <3> QED
        BY <1>1, <3>1
    <2>3. CASE ~(k <= Len(s))
      <3>1. k \in (Len(s) + 1)..Len(c) /\ k - Len(s) \in 1..Len(x)
        BY <1>1, <2>1, <2>3
      <3> QED
        BY <1>1, <3>1
    <2> QED
      BY <2>2, <2>3
  <1>3. NullFree(s) /\ NullFree(x) => NullFree(c)
    BY <1>2 DEF NullFree
  <1>4. ASSUME NEW g, About(s, g), About(x, g) PROVE About(c, g)
    <2> SUFFICES ASSUME NEW k \in DOMAIN c, c[k] > 0 PROVE c[k] = g
      BY DEF About
    <2>1. CASE k \in DOMAIN s /\ c[k] = s[k]
      BY <1>4, <2>1 DEF About
    <2>2. CASE k - Len(s) \in DOMAIN x /\ c[k] = x[k - Len(s)]
      BY <1>4, <2>2 DEF About
    <2> QED
      BY <1>2, <2>1, <2>2
  <1>5. x # << >> => c # << >>
    BY <1>1
  <1> QED
    BY <1>1, <1>3, <1>4, <1>5 DEF c

\* None of the lists matched.
LEMMA IndirectMissPrint ==
  ASSUME Printing, Depth > 1, Top.via = "indirect", Top.return = 0, ~err,
         Settle(Depth - 1, Caller, [print EXCEPT !.out = Top.saved_out], li, "oob")
  PROVE  PrintOK(stack', print', err, rv)
  <1> DEFINE o == Top.saved_out
             q == [print EXCEPT !.out = o]
             d == Depth - 1
  <1>1. /\ print \in Prints /\ li \in Tables /\ StackOK(stack, Len(db.lists)) /\ FlagsOK
        /\ flags.annotate => flags.nodesc
        /\ Top.return \in {0, 1}
    BY PrintingFacts DEF Printing
  <1>2. /\ d \in 1..Len(stack) /\ OnRule(Caller) /\ Caller \in Frames
        /\ Caller.return = Running /\ Caller.magindex \in DOMAIN Caller.rules
        /\ Caller.rules[Caller.magindex].type = "indirect" /\ FromDb(Caller.rules)
        /\ Answered(Caller, err)
        /\ d = 1 => Fresh(Caller, print)
    BY CallerFacts
  <1>3. /\ o \in Seq(Int) /\ Top.returnval = 0 /\ print.out = << >>
        /\ Voiced(Caller, o, stack, d, err, rv)
    BY <1>1, IndirectFacts
  <1>4. o \o << >> = o
    BY <1>3
  <1>5. o = Top.saved_out
    OBVIOUS
  <1> HIDE DEF o
  <1>6. q \in Prints /\ SamePrint(print, q) /\ q.out = o
    BY <1>1, <1>3 DEF Prints, SamePrint
  <1>7. Settle(d, Caller, q, li, "oob")
    BY DEF o
  <1> HIDE DEF q
  <1>8. Joined(Top, print, q)
    BY <1>3, <1>4, <1>5, <1>6 DEF Joined
  <1>9. Alike(Caller, Caller)
    BY DEF Alike
  <1>10. /\ Caller.returnval = 1 => Caller.found_match \/ Caller.returnval = 1
         /\ Caller.found_match /\ ~flags.nodesc => Caller.returnval = 1
         /\ Top.returnval = 1 => err \/ Caller.returnval = 1
         /\ Top.return # Running
         /\ Voiced(Caller, q.out, stack, d, err, rv)
    BY <1>1, <1>2, <1>3, <1>6 DEF Answered, Running
  <1>11. SaysOK(Cut(stack, d, Caller), q, err, rv)
    BY <1>2, <1>5, <1>6, <1>8, <1>9, <1>10, CallerPops
  <1>12. d = 1 => Fresh(Caller, q)
    BY <1>2, <1>6 DEF Fresh, SamePrint
  <1>13. SpokenFor(Caller, q, "oob")
    <2> SUFFICES ASSUME SpeakingCalls, Describes(Caller.rules[Caller.magindex]),
                        Matched(Caller.rules[Caller.magindex], "oob")
                 PROVE  FALSE
      BY DEF SpokenFor
    <2> QED
      BY <1>2, DescribedCalls DEF Matched
  <1>14. "oob" \in Statuses \cup {"hit"} /\ Caller.rules[Caller.magindex].type # "name"
    <2>1. "oob" \in Statuses \cup {"hit"}
      BY Zenon DEF Statuses
    <2>2. Caller.rules[Caller.magindex].type # "name"
      BY <1>2
    <2> QED
      BY <2>1, <2>2
  <1> HIDE DEF d
  <1> QED
    BY <1>1, <1>2, <1>6, <1>7, <1>11, <1>12, <1>13, <1>14, SettledPrint

\* What is put together when the rules of an indirect rule b were: the description of the
\* rule, if it has one, and what they printed, or a text that is Null.
Hit(a, b, speaks) ==
  LET p == [a EXCEPT !.out = b.saved_out]
      inner == IF a.out = << >> THEN <<Null>> ELSE a.out
  IN [(IF speaks THEN Text(p) ELSE p) EXCEPT !.out = @ \o inner]

LEMMA HitText ==
  ASSUME NEW a \in Prints, NEW b, b.saved_out \in Seq(Int), NEW speaks,
         NEW q, q = Hit(a, b, speaks)
  PROVE  /\ q \in Prints /\ SamePrint(a, q) /\ q.out # << >>
         /\ NullFree(b.saved_out) /\ NullFree(a.out) /\ a.out # << >> => NullFree(q.out)
         /\ About(a.out, a.group) /\ About(b.saved_out, a.group) => About(q.out, a.group)
         /\ ~speaks => Joined(b, a, q)
  <1> DEFINE o == b.saved_out
             p == [a EXCEPT !.out = o]
             inner == IF a.out = << >> THEN <<Null>> ELSE a.out
             tx == IF speaks THEN Text(p) ELSE p
             j == tx.out \o inner
  <1>1. a.out \in Seq(Int) /\ a.group \in Nat /\ o \in Seq(Int)
    BY DEF Prints
  <1>2. q = [tx EXCEPT !.out = j]
    BY DEF Hit
  <1> HIDE DEF o
  <1>3. p \in Prints /\ SamePrint(a, p) /\ p.out = o
    BY <1>1 DEF Prints, SamePrint
  <1> HIDE DEF p
  <1>4. /\ tx \in Prints /\ SamePrint(p, tx)
        /\ tx.out = o \/ tx.out = Append(o, a.group)
        /\ ~speaks => tx.out = o
    <2>1. CASE speaks
      <3>1. tx = Text(p)
        BY <2>1
      <3> HIDE DEF tx
      <3>2. tx \in Prints /\ SamePrint(p, tx) /\ tx.out \in {p.out, Append(p.out, p.group)}
        BY <1>3, <3>1, TextOf
      <3>3. p.out = o /\ p.group = a.group
        BY <1>3 DEF SamePrint
      <3> QED
        BY <2>1, <3>2, <3>3
    <2>2. CASE ~speaks
      <3>1. tx = p
        BY <2>2
      <3> QED
        BY <1>3, <3>1 DEF SamePrint
    <2> QED
      BY <2>1, <2>2
  <1>5. /\ inner \in Seq(Int) /\ inner # << >>
        /\ a.out # << >> => inner = a.out
        /\ a.out = << >> => inner = <<Null>>
    BY <1>1 DEF Null
  <1> HIDE DEF tx, inner
  <1>6. tx.out \in Seq(Int)
    BY <1>4 DEF Prints
  <1>7. /\ j \in Seq(Int) /\ j # << >>
        /\ NullFree(tx.out) /\ NullFree(inner) => NullFree(j)
        /\ \A g : About(tx.out, g) /\ About(inner, g) => About(j, g)
    BY <1>5, <1>6, JoinTokens, Zenon
  <1>8. j = tx.out \o inner
    OBVIOUS
  <1> HIDE DEF j
  <1>9. q \in Prints /\ SamePrint(tx, q) /\ q.out = j
    BY <1>4, <1>7, <1>2 DEF Prints, SamePrint
  <1>10. SamePrint(a, q)
    BY <1>3, <1>4, <1>9 DEF SamePrint
  <1>11. /\ NullFree(o) => NullFree(tx.out)
         /\ About(o, a.group) => About(tx.out, a.group)
    <2>1. Append(o, a.group) \in Seq(Int) /\ a.group \in Int
      BY <1>1
    <2>2. Said(tx.out, tx.out, a.group)
      BY <1>6, SaidSame
    <2>3. tx.out = o \/ tx.out = Append(o, a.group)
      BY <1>4
    <2>4. Said(o, tx.out, a.group)
      BY <1>1, <1>6, <2>1, <2>2, <2>3, SaidAfter
    <2> QED
      BY <1>1, <1>6, <2>4, SaidTokens
  <1>12. About(a.out, a.group) => About(inner, a.group)
    <2>1. CASE a.out # << >>
      BY <1>5, <2>1
    <2>2. CASE a.out = << >>
      <3>1. inner = << -1 >>
        BY <1>5, <2>2 DEF Null
      <3>2. \A k \in DOMAIN inner : inner[k] = -1
        BY <3>1
      <3> QED
        BY <3>2 DEF About
    <2> QED
      BY <2>1, <2>2
  <1>13. ~speaks => Joined(b, a, q)
    <2> SUFFICES ASSUME ~speaks PROVE Joined(b, a, q)
      OBVIOUS
    <2>1. q.out = o \o inner
      BY <1>4, <1>8, <1>9
    <2>2. o \o <<Null>> = Append(o, Null)
      BY <1>1 DEF Null
    <2> QED
      BY <1>5, <2>1, <2>2 DEF Joined, o
  <1> QED
    BY <1>5, <1>7, <1>9, <1>10, <1>11, <1>12, <1>13, Zenon DEF o

\* One of them did: its output follows the caller's.
LEMMA IndirectHitPrint ==
  ASSUME Printing, Depth > 1, Top.via = "indirect", Top.return = 1, ~err,
         NEW f, f = [Caller EXCEPT !.found_match = TRUE, !.returnval = 1],
         NEW q, q = Hit(print, Top, Describes(f.rules[f.magindex])),
         Settle(Depth - 1, f, q, li, "hit")
  PROVE  PrintOK(stack', print', err, rv)
  <1> DEFINE d == Depth - 1
             y == Describes(f.rules[f.magindex])
  <1>1. /\ print \in Prints /\ li \in Tables /\ StackOK(stack, Len(db.lists)) /\ FlagsOK
        /\ flags.annotate => flags.nodesc
        /\ MatchInv /\ Top.return \in {0, 1}
    BY PrintingFacts DEF Printing
  <1>2. /\ d \in 1..Len(stack) /\ OnRule(Caller) /\ Caller \in Frames
        /\ Caller.return = Running /\ Caller.magindex \in DOMAIN Caller.rules
        /\ Caller.rules[Caller.magindex].type = "indirect" /\ FromDb(Caller.rules)
    BY CallerFacts
  <1>3. /\ Top.saved_out \in Seq(Int) /\ print.out \in Seq(Int) /\ Top.returnval = 1
        /\ ~flags.annotate /\ SpeakingCalls => print.out # << >>
    BY <1>1, IndirectFacts
  <1>4. OnRule(f)
    <2>1. TRUE \in BOOLEAN /\ 1 \in {0, 1} /\ 0 \in Values
      BY DEF Values
    <2> QED
      BY <1>1, <2>1, CallerGood, Zenon
  <1>5. /\ f \in Frames /\ Alike(Caller, f) /\ f.found_match /\ f.returnval = 1
        /\ f.cont_level = Caller.cont_level /\ f.return = Running
        /\ f.magindex = Caller.magindex
    BY <1>2 DEF Frames, Alike
  <1>6. /\ f.rules[f.magindex].type = "indirect" /\ FromDb(f.rules)
        /\ f.magindex \in DOMAIN f.rules
    BY <1>2, <1>5 DEF Alike
  <1>7. /\ q \in Prints /\ SamePrint(print, q) /\ q.out # << >>
        /\ NullFree(Top.saved_out) /\ NullFree(print.out) /\ print.out # << >> =>
             NullFree(q.out)
        /\ About(print.out, print.group) /\ About(Top.saved_out, print.group) =>
             About(q.out, print.group)
        /\ ~y => Joined(Top, print, q)
    <2>1. q = Hit(print, Top, y)
      OBVIOUS
    <2> HIDE DEF y
    <2> QED
      BY <1>1, <1>3, <2>1, HitText
  <1>8. /\ ~flags.annotate /\ SpeakingCalls /\ NullFree(print.out) /\ NullFree(Top.saved_out) =>
             NullFree(q.out)
        /\ About(print.out, print.group) /\ About(Top.saved_out, print.group) => About(q.out, print.group)
    BY <1>3, <1>7, Zenon
  <1>9. ~err /\ QuietCalls => Joined(Top, print, q)
    BY <1>6, <1>7, DescribedCalls
  <1>10. Voiced(f, q.out, stack, d, err, rv)
    <2>1. f.returnval # 0
      BY <1>5
    <2> QED
      BY <1>5, <1>7, <2>1, Zenon DEF Voiced
  <1>11. Top.return # Running
    BY DEF Running
  <1>12. SaysOK(Cut(stack, d, f), q, err, rv)
    BY <1>5, <1>7, <1>8, <1>9, <1>10, <1>11, CallerPops
  <1>13. SpokenFor(f, q, "hit")
    BY <1>7 DEF SpokenFor
  <1>14. "hit" \in Statuses \cup {"hit"} /\ f.rules[f.magindex].type # "name"
    BY <1>6
  <1>15. Settle(d, f, q, li, "hit")
    OBVIOUS
  <1> HIDE DEF d
  <1> QED
    BY <1>1, <1>2, <1>4, <1>5, <1>7, <1>12, <1>13, <1>14, <1>15, SettledPrint, Zenon

LEMMA ReturnFromIndirectPrint ==
  ASSUME Printing, ReturnFromIndirect
  PROVE  PrintOK(stack', print', err', rv')
  <1> DEFINE n == Len(db.lists)
             f == [Caller EXCEPT !.found_match = TRUE, !.returnval = 1]
             q == Hit(print, Top, Describes(f.rules[f.magindex]))
  <1>1. Top.via = "indirect" /\ Top.return # Running /\ UNCHANGED rv
    BY DEF ReturnFromIndirect, Returned, Call
  <1>2. /\ StackOK(stack, n) /\ Depth \in Nat /\ Top \in Frames /\ print \in Prints
        /\ Answered(Top, err)
    BY PrintingFacts
  <1>3. Depth > 1
    BY <1>1, <1>2, StackTop
  <1>4. \/ /\ Top.return = 0 /\ Top.list < n /\ UNCHANGED <<print, err>>
           /\ Become(Depth, [OuterFrame("indirect", db.lists[Top.list + 1], Top.list + 1)
                               EXCEPT !.saved_out = Top.saved_out])
        \/ /\ Top.return = 0 /\ ~err /\ UNCHANGED err
           /\ Settle(Depth - 1, Caller, [print EXCEPT !.out = Top.saved_out], li, "oob")
        \/ Top.return = 1 /\ ~err /\ UNCHANGED err /\ Settle(Depth - 1, f, q, li, "hit")
        \/ /\ Become(Depth - 1, [Caller EXCEPT !.return = -1]) /\ UNCHANGED err
           /\ Top.return = -1 \/ err
           /\ err => print' = print
    BY DEF ReturnFromIndirect, OuterFrame, Hit
  <1>5. CASE /\ Top.return = 0 /\ Top.list < n /\ UNCHANGED <<print, err>>
             /\ Become(Depth, [OuterFrame("indirect", db.lists[Top.list + 1], Top.list + 1)
                                 EXCEPT !.saved_out = Top.saved_out])
    BY <1>1, <1>5, IndirectNextPrint
  <1>6. CASE /\ Top.return = 0 /\ ~err /\ UNCHANGED err
             /\ Settle(Depth - 1, Caller, [print EXCEPT !.out = Top.saved_out], li, "oob")
    BY <1>1, <1>3, <1>6, IndirectMissPrint
  <1>7. CASE Top.return = 1 /\ ~err /\ UNCHANGED err /\ Settle(Depth - 1, f, q, li, "hit")
    <2>1. /\ f = [Caller EXCEPT !.found_match = TRUE, !.returnval = 1]
          /\ q = Hit(print, Top, Describes(f.rules[f.magindex]))
      OBVIOUS
    <2> HIDE DEF f, q
    <2>2. PrintOK(stack', print', err, rv)
      BY <1>1, <1>3, <1>7, <2>1, IndirectHitPrint
    <2> QED
      BY <1>1, <1>7, <2>2
  <1>8. CASE /\ Become(Depth - 1, [Caller EXCEPT !.return = -1]) /\ UNCHANGED err
             /\ Top.return = -1 \/ err
             /\ err => print' = print
    <2> DEFINE g == [Caller EXCEPT !.return = -1]
               yes == TRUE
    <2>1. Caller \in Frames /\ Answered(Caller, err) /\ Caller.returnval \in {0, 1}
      BY <1>3, CallerFacts DEF Frames
    <2>2. stack' = Cut(stack, Depth - 1, g) /\ err' = yes /\ print' = print
      <3>1. err /\ err \in BOOLEAN
        BY <1>2, <1>8, PrintingFacts DEF Answered
      <3> QED
        BY <1>8, <3>1 DEF Become, Cut
    <2>3. yes /\ (err => yes)
      OBVIOUS
    <2>4. /\ g \in Frames /\ Alike(Caller, g) /\ g.found_match = Caller.found_match
          /\ g.returnval = Caller.returnval /\ g.return = -1 /\ g.cont_level = Caller.cont_level
      BY <2>1 DEF Frames, Values, Alike
    <2> HIDE DEF g, yes
    <2>5. SamePrint(print, print)
      BY DEF SamePrint
    <2>6. g.found_match /\ ~flags.nodesc => g.returnval = 1
      BY <2>1, <2>4 DEF Answered
    <2>7. PrintOK(Cut(stack, Depth - 1, g), print, yes, rv)
      BY <1>1, <1>3, <2>3, <2>4, <2>5, <2>6, CallerPops
    <2> QED
      BY <1>1, <2>2, <2>7, Zenon
  <1> HIDE DEF f, q, n
  <1> QED
    BY <1>4, <1>5, <1>6, <1>7, <1>8

\* An activation that gave up without an error makes its caller give up.
Losing == /\ MatchInv /\ (flags.annotate => flags.nodesc)
          /\ Lost(stack, print, err)

LEMMA LosingFacts ==
  ASSUME Losing
  PROVE  /\ stack \in Seq(Frames) /\ stack # << >> /\ Depth = Len(stack)
         /\ Depth \in Nat /\ Depth >= 1 /\ Depth \in 1..Depth /\ stack[Depth] = Top
         /\ Top \in Frames /\ print \in Prints /\ Top.return = -1 /\ ~err
         /\ LostOK(stack, print) /\ StackOK(stack, Len(db.lists))
  <1>1. /\ StackOK(stack, Len(db.lists)) /\ SharedOK /\ Lost(stack, print, err)
    BY DEF Losing, MatchInv
  <1>2. /\ stack \in Seq(Frames) /\ stack # << >> /\ Depth = Len(stack) /\ Depth \in Nat
        /\ Depth >= 1 /\ Good(Top) /\ stack[Depth] = Top
    BY <1>1, StackTop DEF StackOK, Depth, Top
  <1> QED
    BY <1>1, <1>2 DEF Lost, SharedOK, Good

LEMMA LosingCaller ==
  ASSUME Losing, Top.via \in {"use", "indirect"}, NEW g, NEW b \in BOOLEAN, NEW r \in {0, 1},
         g = [Caller EXCEPT !.found_match = b, !.returnval = r, !.return = -1],
         Become(Depth - 1, g), UNCHANGED err,
         print' = print \/ print' = [print EXCEPT !.out = Top.saved_out]
  PROVE  Lost(stack', print', err')
  <1> DEFINE d == Depth - 1
  <1>1. /\ stack \in Seq(Frames) /\ Depth = Len(stack) /\ Depth \in Nat /\ stack[Depth] = Top
        /\ LostOK(stack, print) /\ ~err /\ print \in Prints /\ StackOK(stack, Len(db.lists))
    BY LosingFacts
  <1>2. Depth > 1
    BY <1>1, StackTop
  <1>3. d \in 1..Len(stack) /\ Len(stack) > 1 /\ Caller = stack[d]
    BY <1>1, <1>2 DEF Caller
  <1>4. Caller \in Frames
    BY <1>1, <1>3
  <1>5. g \in Frames /\ g.saved_out = Caller.saved_out /\ g.return = -1
    BY <1>4 DEF Frames, Values
  <1>6. /\ print'.out = print.out \/ print'.out = stack[Len(stack)].saved_out
        /\ print'.group = print.group /\ print'.flushed = print.flushed
    BY <1>1 DEF Prints
  <1>7. stack' = Cut(stack, d, g)
    BY DEF Become, Cut
  <1> DEFINE q == print'
  <1> HIDE DEF d, q
  <1>8. /\ q.out = print.out \/ (Len(stack) > 1 /\ q.out = stack[Len(stack)].saved_out)
        /\ q.group = print.group /\ q.flushed = print.flushed
    BY <1>3, <1>6 DEF q
  <1>9. Lost(Cut(stack, d, g), q, err)
    BY <1>1, <1>3, <1>5, <1>8, CutLost
  <1> QED
    BY <1>7, <1>9 DEF q

LEMMA LosingStep ==
  ASSUME Losing, Next, result = Running
  PROVE  \/ UNCHANGED <<rv, result>> /\ Lost(stack', print', err')
         \/ result' = -1 /\ UNCHANGED print
  <1>1. /\ Top.return = -1 /\ ~err /\ Top \in Frames /\ -1 # Running
    BY LosingFacts DEF Running
  <1>2. ReturnToSoftmagic \/ ReturnFromUse \/ ReturnFromIndirect
    BY <1>1 DEF Next, NextGroup, NextContinuation, EndGroup, EndList, Active, Done
  <1>3. CASE ReturnToSoftmagic
    BY <1>1, <1>3 DEF ReturnToSoftmagic
  <1>4. CASE ReturnFromUse
    <2> DEFINE b == Caller.found_match \/ Top.found_match
               r == Top.returnval
               g == [Caller EXCEPT !.found_match = b, !.returnval = r, !.return = -1]
    <2>1. Top.via = "use" /\ UNCHANGED <<err, rv, result>>
      BY <1>4 DEF ReturnFromUse, Call
    <2>2. Become(Depth - 1, g) /\ print' = print
      BY <1>1, <1>4 DEF ReturnFromUse
    <2>3. b \in BOOLEAN /\ r \in {0, 1}
      BY <1>1 DEF Frames
    <2>4. g = [Caller EXCEPT !.found_match = b, !.returnval = r, !.return = -1]
      OBVIOUS
    <2> HIDE DEF g, b, r
    <2> QED
      BY <2>1, <2>2, <2>3, <2>4, LosingCaller
  <1>5. CASE ReturnFromIndirect
    <2> DEFINE b == Caller.found_match
               r == Caller.returnval
               g == [Caller EXCEPT !.found_match = b, !.returnval = r, !.return = -1]
    <2>1. Top.via = "indirect" /\ UNCHANGED <<err, rv, result>>
      BY <1>1, <1>5 DEF ReturnFromIndirect, Call
    <2>2. /\ Become(Depth - 1, [Caller EXCEPT !.return = -1])
          /\ print' = [print EXCEPT !.out = Top.saved_out]
      BY <1>1, <1>5 DEF ReturnFromIndirect
    <2>3. Caller \in Frames
      <3>1. Depth > 1 /\ stack \in Seq(Frames) /\ Depth = Len(stack) /\ Depth \in Nat
        BY <2>1, LosingFacts, StackTop
      <3> QED
        BY <3>1 DEF Caller
    <2>4. b \in BOOLEAN /\ r \in {0, 1} /\ g = [Caller EXCEPT !.return = -1]
      BY <2>3 DEF Frames
    <2>5. g = [Caller EXCEPT !.found_match = b, !.returnval = r, !.return = -1]
      OBVIOUS
    <2> HIDE DEF g, b, r
    <2>6. Become(Depth - 1, g)
      BY <2>2, <2>4
    <2> QED
      BY <2>1, <2>2, <2>4, <2>5, <2>6, LosingCaller
  <1> QED
    BY <1>2, <1>3, <1>4, <1>5

-----------------------------------------------------------------------------
(* The invariant of what is printed. *)

PrintInv ==
  /\ flags.annotate => flags.nodesc
  /\ result = Running => /\ rv \in {0, 1} /\ (~flags.continue => rv = 0)
                         /\ PrintOK(stack, print, err, rv) \/ Lost(stack, print, err)
  /\ result # Running => OutputOK /\ ValueReflectsOutput

LEMMA BeginPrint ==
  ASSUME NEW t, t \in Seq(Frames), Len(t) = 1, NEW f, f = t[1], ~f.found_match,
         f.returnval = 0, f.return = Running, f.cont_level = 0, f.saved_out = << >>,
         f.via = "top", FromDb(f.rules), NEW p \in Prints, p.out = << >>, ~p.printed,
         p.firstline, NEW e
  PROVE  PrintOK(t, p, e, 0)
  <1> DEFINE n == Len(t)
  <1>1. n = 1 /\ \A i \in 1..n : i = 1 /\ t[i] = f
    OBVIOUS
  <1>2. n = Len(t) /\ 1 \in 1..n /\ \A i \in 1..(n - 1) : FALSE
    OBVIOUS
  <1> HIDE DEF n
  <1>3. AnsweredOK(t, e)
    <2>1. Answered(f, e)
      BY DEF Answered, Running
    <2> QED
      BY <1>1, <1>2, <2>1 DEF AnsweredOK
  <1>4. VoicedOK(t, p, e, 0)
    <2>1. Told(t, 1, p.out) = << >>
      BY <1>1, <1>2 DEF Told
    <2>2. Voiced(f, << >>, t, 1, e, 0)
      BY DEF Voiced
    <2> SUFFICES ASSUME NEW i \in 1..n PROVE Voiced(t[i], Told(t, i, p.out), t, i, e, 0)
      BY <1>2 DEF VoicedOK
    <2>3. i = 1 /\ t[i] = f
      BY <1>1
    <2>4. Told(t, i, p.out) = << >>
      BY <2>1, <2>3
    <2> QED
      BY <2>2, <2>3, <2>4
  <1>5. HushedOK(t, p, e)
    BY DEF HushedOK
  <1>6. \A k \in DOMAIN << >> : FALSE
    OBVIOUS
  <1>7. \A i \in 1..Len(t) : t[i].saved_out = << >>
    BY <1>1, <1>2
  <1>8. NullFree(<< >>) /\ \A g : About(<< >>, g)
    BY <1>6 DEF NullFree, About
  <1>9. NullsOK(t, p) /\ GroupOK(t, p)
    BY <1>7, <1>8 DEF NullsOK, GroupOK
  <1>10. SepOK(t, p, e)
    <2> DEFINE full == << >>
               cut == [i \in 1..1 |-> 0]
    <2>1. Parted(full) /\ FullOK(full, p)
      BY <1>6 DEF Parted, FullOK, Bounded, HasText, Ready
    <2>2. full \in Seq(Int) /\ Len(full) = 0
      OBVIOUS
    <2>3. cut[1] = 0
      OBVIOUS
    <2> HIDE DEF full, cut
    <2>4. Piece(full, full, 0, 0)
      BY <2>2 DEF Piece
    <2>5. \A i \in 1..Len(t) : cut[i] \in 0..Len(full) /\ t[i].saved_out \in Seq(Int)
      <3> SUFFICES ASSUME NEW i \in 1..Len(t)
                   PROVE  cut[i] \in 0..Len(full) /\ t[i].saved_out \in Seq(Int)
        OBVIOUS
      <3>1. cut[i] = 0 /\ t[i].saved_out = full
        BY <1>1, <1>2, <2>3 DEF full
      <3> QED
        BY <2>2, <3>1
    <2>6. Whole(t, full, full, cut)
      BY <1>1, <1>2, <2>2, <2>3, <2>4, <2>5 DEF Whole
    <2>7. p.out = full
      BY DEF full
    <2> QED
      BY <2>1, <2>6, <2>7 DEF SepOK
  <1>11. SpokeOK(t, p, e)
    BY <1>1, <1>2 DEF SpokeOK
  <1>12. Fresh(t[1], p)
    BY DEF Fresh
  <1> QED
    BY <1>3, <1>4, <1>5, <1>9, <1>10, <1>11, <1>12 DEF PrintOK, VoiceOK

LEMMA InitPrint == Init => PrintInv
  <1> SUFFICES ASSUME Init PROVE PrintInv
    OBVIOUS
  <1>1. MatchInv
    BY InitInv
  <1>2. /\ rv = 0 /\ result = Running /\ (flags.annotate => flags.nodesc)
        /\ print.out = << >> /\ ~print.printed /\ print.firstline
    BY SetupsAssumption DEF Init
  <1> DEFINE list == db.lists[1]
             no == FALSE
             f == Frame("top", list, 1, no)
  <1>3. stack = <<f>>
    BY DEF Init
  <1>4. FromDb(list)
    <2>1. 1 \in DOMAIN db.lists
      BY <1>1 DEF MatchInv, DbOK
    <2> QED
      BY <2>1 DEF FromDb
  <1>5. f = Frame("top", list, 1, no)
    OBVIOUS
  <1> HIDE DEF list, f, no
  <1>6. /\ ~f.found_match /\ f.returnval = 0 /\ f.return = Running
        /\ f.cont_level = 0 /\ f.saved_out = << >> /\ f.via = "top" /\ f.rules = list
    BY <1>5, FrameBegins
  <1>7. stack \in Seq(Frames) /\ print \in Prints
    BY <1>1 DEF MatchInv, StackOK, SharedOK
  <1>8. Len(stack) = 1 /\ f = stack[1]
    BY <1>3
  <1>9. PrintOK(stack, print, err, 0)
    BY <1>2, <1>4, <1>6, <1>7, <1>8, BeginPrint
  <1> QED
    BY <1>2, <1>9 DEF PrintInv

\* The rules and the settings stay.
LEMMA PrimedPrint ==
  ASSUME UNCHANGED <<db, flags>>, PrintOK(stack', print', err', rv')
  PROVE  PrintOK(stack, print, err, rv)'
  <1>1. /\ VoiceOK(stack', print', err', rv') /\ SepOK(stack', print', err')
        /\ SpokeOK(stack', print', err') /\ Fresh(stack'[1], print')
    BY DEF PrintOK
  <1>2. (SpeakingCalls' <=> SpeakingCalls) /\ (QuietCalls' <=> QuietCalls)
    BY DEF SpeakingCalls, CallsSpeak, QuietCalls, CallsQuiet
  <1>3. \A rules : FromDb(rules)' <=> FromDb(rules)
    BY DEF FromDb
  <1>4. VoiceOK(stack, print, err, rv)'
    <2>1. AnsweredOK(stack, err)'
      BY <1>1, <1>3 DEF VoiceOK, AnsweredOK, Answered, Linked, FromDb
    <2>2. VoicedOK(stack, print, err, rv)'
      BY <1>1, <1>2 DEF VoiceOK, VoicedOK, Voiced, Ends, Told, Outer
    <2>3. HushedOK(stack, print, err)'
      BY <1>1 DEF VoiceOK, HushedOK, Ends
    <2>4. NullsOK(stack, print)'
      BY <1>1, <1>2 DEF VoiceOK, NullsOK, NullFree
    <2>5. GroupOK(stack, print)'
      BY <1>1 DEF VoiceOK, GroupOK, About
    <2> QED
      BY <2>1, <2>2, <2>3, <2>4, <2>5 DEF VoiceOK
  <1>5. SepOK(stack, print, err)'
    BY <1>1, <1>2, Zenon DEF SepOK, Parted, Whole, FullOK, Bounded, HasText, Started, Asks, Ready,
       Piece
  <1>6. SpokeOK(stack, print, err)'
    BY <1>1 DEF SpokeOK
  <1>7. Fresh(stack[1], print)'
    BY <1>1 DEF Fresh
  <1> QED
    BY <1>4, <1>5, <1>6, <1>7 DEF PrintOK

LEMMA PrimedLost ==
  ASSUME UNCHANGED <<db, flags>>, Lost(stack', print', err')
  PROVE  Lost(stack, print, err)'
  <1>1. (SpeakingCalls' <=> SpeakingCalls) /\ (QuietCalls' <=> QuietCalls)
    BY DEF SpeakingCalls, CallsSpeak, QuietCalls, CallsQuiet
  <1>2. NullsOK(stack, print)'
    BY <1>1 DEF Lost, LostOK, NullsOK, NullFree
  <1>3. GroupOK(stack, print)'
    BY DEF Lost, LostOK, GroupOK, About
  <1> QED
    BY <1>1, <1>2, <1>3 DEF Lost, LostOK, Parted

LEMMA StepPrint == MatchInv /\ PrintInv /\ [Next]_vars => PrintInv'
  <1> SUFFICES ASSUME MatchInv, PrintInv, [Next]_vars PROVE PrintInv'
    OBVIOUS
  <1>1. UNCHANGED <<db, flags>>
    BY DEF Next, NextGroup, NextContinuation, EndGroup, EndList, ReturnToSoftmagic, ReturnFromUse,
       ReturnFromIndirect, Done, Call, vars
  <1>2. MatchInv'
    BY StepInv
  <1>3. (flags.annotate => flags.nodesc)'
    BY <1>1 DEF PrintInv
  <1>4. CASE UNCHANGED vars
    <2>1. UNCHANGED <<db, flags, print, err, result, rv, stack>>
      BY <1>4 DEF vars
    <2>2. CASE result = Running
      <3>1. PrintOK(stack', print', err', rv') \/ Lost(stack', print', err')
        BY <2>1, <2>2 DEF PrintInv
      <3>2. PrintOK(stack, print, err, rv)' \/ Lost(stack, print, err)'
        BY <2>1, <3>1, PrimedPrint, PrimedLost
      <3> QED
        BY <1>3, <2>1, <2>2, <3>2 DEF PrintInv
    <2>3. CASE result # Running
      <3>1. OutputOK /\ ValueReflectsOutput
        BY <2>3 DEF PrintInv
      <3>2. OutputOK'
        BY <2>1, <3>1 DEF OutputOK, OneGroupDescribes, MatchesSeparated, NoNullText, Texts,
           SpeakingCalls, CallsSpeak, QuietCalls, CallsQuiet
      <3>3. ValueReflectsOutput'
        BY <2>1, <3>1 DEF ValueReflectsOutput, SpeakingCalls, CallsSpeak
      <3> QED
        BY <1>3, <2>1, <2>3, <3>2, <3>3 DEF PrintInv
    <2> QED
      BY <2>2, <2>3
  <1>5. CASE Next /\ result = Running /\ PrintOK(stack, print, err, rv)
    <2>1. Printing
      BY <1>5 DEF PrintInv, Printing
    <2>2. CASE ReturnToSoftmagic
      <3>1. CASE /\ result' = Running /\ rv' \in {0, 1} /\ (~flags.continue => rv' = 0)
                 /\ PrintOK(stack', print', err', rv')
        <4>1. PrintOK(stack, print, err, rv)'
          BY <1>1, <3>1, PrimedPrint
        <4> QED
          BY <1>1, <1>3, <3>1, <4>1 DEF PrintInv
      <3>2. CASE /\ result' # Running
                 /\ result' = 0 => print'.out = << >>
                 /\ result' = 1 /\ ~err' /\ SpeakingCalls => print'.out # << >>
        <4>1. UNCHANGED print
          BY <2>2 DEF ReturnToSoftmagic
        <4>2. OutputOK
          BY <2>1, PrintingFacts, PrintOutput DEF Printing
        <4>3. OutputOK'
          BY <1>1, <4>1, <4>2 DEF OutputOK, OneGroupDescribes, MatchesSeparated, NoNullText, Texts,
             SpeakingCalls, CallsSpeak, QuietCalls, CallsQuiet
        <4>4. ValueReflectsOutput'
          BY <1>1, <3>2 DEF ValueReflectsOutput, SpeakingCalls, CallsSpeak
        <4> QED
          BY <1>3, <3>2, <4>3, <4>4 DEF PrintInv
      <3> QED
        BY <1>5, <2>1, <2>2, <3>1, <3>2, ReturnToSoftmagicPrint
    <2>3. CASE ~ReturnToSoftmagic
      <3>1. PrintOK(stack', print', err', rv') \/ Lost(stack', print', err')
        BY <1>5, <2>1, <2>3, NextGroupPrint, NextContinuationPrint, EndGroupPrint, EndListPrint,
           ReturnFromUsePrint, ReturnFromIndirectPrint DEF Next, Done
      <3>2. UNCHANGED <<rv, result>>
        BY <1>5, <2>3 DEF Next, Done, NextGroup, NextContinuation, EndGroup, EndList,
           ReturnFromUse, ReturnFromIndirect, Call
      <3>3. PrintOK(stack, print, err, rv)' \/ Lost(stack, print, err)'
        BY <1>1, <3>1, PrimedPrint, PrimedLost
      <3> QED
        <4>1. rv \in {0, 1} /\ (~flags.continue => rv = 0)
          BY <2>1 DEF Printing
        <4>2. (result = Running)' /\ (rv \in {0, 1})' /\ (~flags.continue => rv = 0)'
          BY <1>1, <1>5, <3>2, <4>1
        <4> QED
          BY <1>3, <3>3, <4>2 DEF PrintInv
    <2> QED
      BY <2>2, <2>3
  <1>6. CASE Next /\ result = Running /\ Lost(stack, print, err)
    <2>1. Losing
      BY <1>6 DEF PrintInv, Losing
    <2>2. CASE UNCHANGED <<rv, result>> /\ Lost(stack', print', err')
      <3>1. Lost(stack, print, err)'
        BY <1>1, <2>2, PrimedLost
      <3>2. rv \in {0, 1} /\ (~flags.continue => rv = 0)
        BY <1>6 DEF PrintInv
      <3>3. (result = Running)' /\ (rv \in {0, 1})' /\ (~flags.continue => rv = 0)'
        BY <1>1, <1>6, <2>2, <3>2
      <3> QED
        BY <1>3, <3>1, <3>3 DEF PrintInv
    <2>3. CASE result' = -1 /\ UNCHANGED print
      <3>1. OutputOK
        BY <2>1, LosingFacts, LostOutput
      <3>2. OutputOK'
        BY <1>1, <2>3, <3>1 DEF OutputOK, OneGroupDescribes, MatchesSeparated, NoNullText, Texts,
           SpeakingCalls, CallsSpeak, QuietCalls, CallsQuiet
      <3>3. ValueReflectsOutput' /\ (result # Running)'
        BY <2>3 DEF ValueReflectsOutput, Running
      <3> QED
        BY <1>3, <3>2, <3>3 DEF PrintInv
    <2> QED
      BY <1>6, <2>1, <2>2, <2>3, LosingStep
  <1>7. CASE Next /\ result # Running
    <2>1. UNCHANGED vars
      BY <1>7 DEF Next, Done, NextGroup, NextContinuation, EndGroup, EndList, ReturnToSoftmagic,
         ReturnFromUse, ReturnFromIndirect, Active, Returned
    <2> QED
      BY <1>4, <2>1, Zenon
  <1> QED
    BY <1>4, <1>5, <1>6, <1>7 DEF PrintInv

LEMMA AlwaysPrint == Spec => [](MatchInv /\ PrintInv)
  <1>1. Init => MatchInv /\ PrintInv
    BY InitInv, InitPrint
  <1>2. (MatchInv /\ PrintInv) /\ [Next]_vars => (MatchInv /\ PrintInv)'
    BY StepInv, StepPrint
  <1> QED
    BY <1>1, <1>2, PTL DEF Spec

LEMMA PrintInvOutput == MatchInv /\ PrintInv => OutputOK /\ ValueReflectsOutput
  <1> SUFFICES ASSUME MatchInv, PrintInv, result = Running
               PROVE  OutputOK /\ ValueReflectsOutput
    BY DEF PrintInv
  <1>1. print \in Prints /\ (PrintOK(stack, print, err, rv) \/ LostOK(stack, print))
    BY DEF PrintInv, MatchInv, SharedOK, Lost
  <1>2. result # 0 /\ result # 1
    BY DEF Running
  <1> QED
    BY <1>1, <1>2, PrintOutput, LostOutput DEF ValueReflectsOutput

\* Without MAGIC_CONTINUE the output is about one group of rules, whatever lists the rules
\* of that group called and however deep, unless a rule that lay outside of the input sent
\* match() to flush after the group had found something.
THEOREM OneGroupIsDescribed == Spec => []OneGroupDescribes
  BY AlwaysPrint, PrintInvOutput, PTL DEF OutputOK

\* With MAGIC_CONTINUE the texts of two groups never run together, through the buffers that
\* indirect rules put aside and join again, if no rule that calls a list prints before it.
THEOREM MatchesAreSeparated == Spec => []MatchesSeparated
  BY AlwaysPrint, PrintInvOutput, PTL DEF OutputOK

\* file_softmagic returns 0 only if it has printed nothing, and 1 without an error only if
\* it has printed something: file_buffer, which goes by the value, prints one answer.
THEOREM ValueTellsOutput == Spec => []ValueReflectsOutput
  BY AlwaysPrint, PrintInvOutput, PTL

\* An indirect rule that matched never appends the text of a buffer that has none.
THEOREM TextsExist == Spec => []NoNullText
  BY AlwaysPrint, PrintInvOutput, PTL DEF OutputOK
=============================================================================
