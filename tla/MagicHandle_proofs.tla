------------------------- MODULE MagicHandle_proofs -------------------------
(***************************************************************************)
(* For every set of files and path lists, and whatever allocations and      *)
(* writes fail: the state is well typed; the two lists of the database are   *)
(* whole whenever softmagic may walk them; a load leaves what was asked for  *)
(* or an error; and what a failed load left is not used.                    *)
(***************************************************************************)
EXTENDS MagicHandle, TLAPS

LEMMA ConstantFacts ==
  /\ WarnMax \in Nat /\ MaxLoads \in Nat
  /\ "none" \notin Actions /\ "crash" \notin Actions
  /\ EmptyName \notin Paths
  BY HandleAssumption

LEMMA ActiveCall ==
  ASSUME TypeOK, Active
  PROVE  /\ call \in Calls /\ loads \in 1..MaxLoads
         /\ mlist[1] # NULL /\ mlist[1] # << >> => call.errs = 0
  <1>1. call \notin {Idle, Crashed}
    BY ConstantFacts DEF Active, Idle, Crashed
  <1>2. loads \in 1..MaxLoads
    BY <1>1, ConstantFacts DEF TypeOK
  <1> QED
    BY <1>1, <1>2 DEF TypeOK

LEMMA HeadTail ==
  ASSUME NEW S, NEW s \in Seq(S), s # << >>
  PROVE  Head(s) \in S /\ Tail(s) \in Seq(S)
  OBVIOUS

LEMMA PathType ==
  ASSUME TypeOK, AtPath
  PROVE  /\ Head(call.rest) \in Paths
         /\ Tail(call.rest) \in Names
         /\ Len(call.rest) \in Nat
  <1>1. call.rest \in Names /\ call.rest # << >> /\ Head(call.rest) # EmptyName
    BY ActiveCall DEF AtPath, Calls
  <1>2. Head(call.rest) \in Paths \cup {EmptyName} /\ Tail(call.rest) \in Names
    BY <1>1, HeadTail DEF Names
  <1> QED
    BY <1>1, <1>2 DEF Names

\* Going on to the next path keeps a success.
LEMMA AdvanceType ==
  ASSUME TypeOK, AtPath, NEW errs \in {-1, 0}, NEW fault \in BOOLEAN, Advance(errs, fault)
  PROVE  /\ call' \in Calls
         /\ call.errs = 0 \/ errs = 0 => call'.errs = 0
  <1>1. call \in Calls /\ Tail(call.rest) \in Names
    BY ActiveCall, PathType DEF AtPath
  <1>2. PICK e \in {-1, 0} : /\ e = IF call.errs > errs THEN call.errs ELSE errs
                             /\ call.errs = 0 \/ errs = 0 => e = 0
    BY <1>1 DEF Calls
  <1>3. PICK f \in BOOLEAN : f = (call.fault \/ fault)
    BY <1>1 DEF Calls
  <1>4. call' = [call EXCEPT !.rest = Tail(@), !.errs = e, !.fault = f]
    BY <1>2, <1>3 DEF Advance
  <1> QED
    BY <1>1, <1>2, <1>4 DEF Calls

LEMMA ParsedType ==
  ASSUME NEW p, NEW w
  PROVE  Parsed(p, w) \subseteq {"all", "some", "none", "fail"}
  BY DEF Parsed

LEMMA WarnedType ==
  ASSUME NEW w \in Nat
  PROVE  Warned(w) \in 0..WarnMax
  BY ConstantFacts DEF Warned

LEMMA ErrorType ==
  ASSUME TypeOK, Raise \/ UNCHANGED error
  PROVE  had' \in BOOLEAN /\ buf' \in {"null", "text", "error"}
  BY DEF TypeOK, Raise, error

\* The database after a step: of the right types, and whole.
Whole(lists, maps) ==
  IF lists[1] = NULL THEN maps = {}
  ELSE lists[1] = lists[2] /\ {lists[1][i].id : i \in DOMAIN lists[1]} = maps
DatabaseOK(lists, maps) ==
  /\ lists \in [{1, 2} -> Seq(Entries) \cup {NULL}]
  /\ maps \subseteq (1..MaxLoads) \X Nat

LEMMA NewDatabase ==
  ASSUME NewLists
  PROVE  DatabaseOK(mlist', live') /\ Whole(mlist', live') /\ mlist'[1] = << >>
  <1>1. << >> \in Seq(Entries)
    OBVIOUS
  <1>2. mlist' \in [{1, 2} -> Seq(Entries) \cup {NULL}] /\ mlist'[1] = << >> /\ mlist'[2] = << >>
    BY <1>1 DEF NewLists
  <1> QED
    BY <1>2 DEF NewLists, DatabaseOK, Whole

\* A map that is added goes to both lists, and only the first owns it.
LEMMA AppendDatabase ==
  ASSUME TypeOK, Whole(mlist, live), mlist[1] # NULL, NEW entry \in Entries,
         mlist' = [i \in {1, 2} |-> Append(mlist[i], entry)],
         live' = live \cup {entry.id}
  PROVE  DatabaseOK(mlist', live') /\ Whole(mlist', live')
  <1> DEFINE list == mlist[1]
             new == Append(list, entry)
  <1>1. list \in Seq(Entries) /\ mlist[2] = list
    BY DEF TypeOK, Whole
  <1>2. /\ new \in Seq(Entries) /\ DOMAIN new = DOMAIN list \cup {Len(list) + 1}
        /\ new[Len(list) + 1] = entry /\ \A i \in DOMAIN list : new[i] = list[i]
    BY <1>1
  <1>3. mlist' \in [{1, 2} -> Seq(Entries)] /\ mlist'[1] = new /\ mlist'[2] = new
    BY <1>1, <1>2
  <1>4. {new[i].id : i \in DOMAIN new} = live'
    <2>1. {list[i].id : i \in DOMAIN list} = live
      BY DEF Whole
    <2> HIDE DEF new, list
    <2> QED
      BY <1>2, <2>1
  <1>5. entry.id \in (1..MaxLoads) \X Nat
    BY DEF Entries
  <1>6. DatabaseOK(mlist', live')
    BY <1>3, <1>5 DEF DatabaseOK, TypeOK
  <1> QED
    BY <1>3, <1>4, <1>6, NullAssumption DEF Whole

LEMMA FreedDatabase ==
  ASSUME TypeOK, FreeFirst \/ FreeAll
  PROVE  DatabaseOK(mlist', live') /\ Whole(mlist', live') /\ mlist'[1] = NULL
  <1>1. mlist' \in [{1, 2} -> Seq(Entries) \cup {NULL}] /\ mlist'[1] = NULL /\ live' = {}
    BY DEF TypeOK, FreeFirst, FreeAll
  <1> QED
    BY <1>1 DEF DatabaseOK, Whole

-----------------------------------------------------------------------------
\* The invariant: the types, and whole lists as long as the process lives.
Inv == TypeOK /\ (call # Crashed => Whole(mlist, live))

\* What a step must establish of the database and the call.
StepOK ==
  /\ DatabaseOK(mlist', live')
  /\ \/ call' \in {Idle, Crashed}
     \/ /\ call' \in Calls
        /\ mlist'[1] # NULL /\ mlist'[1] # << >> => call'.errs = 0
  /\ call' # Crashed => Whole(mlist', live')

LEMMA ActiveWhole ==
  ASSUME Inv, Active
  PROVE  Whole(mlist, live) /\ call # Idle /\ call # Crashed
  <1>1. call # Idle /\ call # Crashed
    BY ConstantFacts DEF Active, Idle, Crashed
  <1> QED
    BY <1>1 DEF Inv

LEMMA KeepDatabase ==
  ASSUME Inv, UNCHANGED database
  PROVE  /\ DatabaseOK(mlist', live') /\ mlist' = mlist
         /\ call # Crashed => Whole(mlist', live')
  BY DEF Inv, TypeOK, DatabaseOK, database

\* Going on without a new map.
LEMMA SkipStep ==
  ASSUME Inv, AtPath, UNCHANGED database, NEW errs \in {-1, 0}, NEW fault \in BOOLEAN,
         Advance(errs, fault)
  PROVE  StepOK
  <1>1. call \in Calls /\ (mlist[1] # NULL /\ mlist[1] # << >> => call.errs = 0)
    BY ActiveCall DEF Inv, AtPath
  <1>2. call' \in Calls /\ (call.errs = 0 => call'.errs = 0)
    BY AdvanceType DEF Inv
  <1> QED
    BY <1>1, <1>2, KeepDatabase, ActiveWhole DEF StepOK, AtPath

LEMMA AddMapStep ==
  ASSUME Inv, AtPath, NEW p \in Paths, NEW rules \in {"all", "some", "none"},
         NEW e \in BOOLEAN, AddMap(p, rules, e)
  PROVE  StepOK /\ (Raise \/ UNCHANGED error)
  <1> DEFINE entry == [id |-> <<loads, Len(call.rest)>>, path |-> p, rules |-> rules]
  <1>1. entry \in Entries
    BY ActiveCall, PathType DEF Inv, AtPath, Entries
  <1>2. entry.id = <<loads, Len(call.rest)>>
    OBVIOUS
  <1>3. TypeOK /\ Whole(mlist, live)
    BY ActiveWhole DEF Inv, AtPath
  <1>4. CASE mlist[1] = NULL /\ call' = Crashed /\ UNCHANGED <<database, error>>
    BY <1>4, KeepDatabase DEF StepOK
  <1>5. CASE /\ mlist[1] # NULL
             /\ mlist' = [i \in {1, 2} |-> Append(mlist[i], entry)]
             /\ live' = live \cup {entry.id}
             /\ Advance(0, FALSE) /\ RaiseIf(e)
    <2>1. DatabaseOK(mlist', live') /\ Whole(mlist', live')
      <3> HIDE DEF entry
      <3> QED
        BY <1>1, <1>3, <1>5, AppendDatabase
    <2>2. call' \in Calls /\ call'.errs = 0
      BY <1>3, <1>5, AdvanceType
    <2> QED
      BY <1>5, <2>1, <2>2 DEF StepOK, RaiseIf
  <1>6. CASE UNCHANGED database /\ Advance(-1, TRUE) /\ Raise
    BY <1>6, SkipStep
  <1>7. CASE FreeAll /\ Advance(-1, TRUE) /\ Raise
    <2>1. DatabaseOK(mlist', live') /\ Whole(mlist', live') /\ mlist'[1] = NULL
      BY <1>3, <1>7, FreedDatabase
    <2>2. call' \in Calls
      BY <1>3, <1>7, AdvanceType
    <2> QED
      BY <1>7, <2>1, <2>2 DEF StepOK
  <1> QED
    BY <1>4, <1>5, <1>6, <1>7 DEF AddMap, Abandon

\* The rest of the types.
OthersOK ==
  /\ had' \in BOOLEAN /\ buf' \in {"null", "text", "error"}
  /\ check' \in BOOLEAN /\ magwarn' \in 0..WarnMax
  /\ loads' \in 0..MaxLoads /\ (call' \in Calls => loads' # 0)
  /\ ret' \in {"none", "text", "failed"}
  /\ mgc' \in [Paths -> {"absent", "bad", "all", "some"}]

LEMMA Together ==
  ASSUME StepOK, OthersOK
  PROVE  Inv'
  BY DEF StepOK, OthersOK, Inv, TypeOK, DatabaseOK, Whole

LEMMA NoCall == Idle \notin Calls /\ Crashed \notin Calls
  <1>1. \A c \in Calls : c.action \in Actions
    BY DEF Calls
  <1>2. Idle.action = "none" /\ Crashed.action = "crash"
    BY DEF Idle, Crashed
  <1> QED
    BY <1>1, <1>2, ConstantFacts

LEMMA InitInv == ASSUME Init PROVE Inv
  <1>1. mlist \in [{1, 2} -> Seq(Entries) \cup {NULL}] /\ mlist[1] = NULL /\ live = {}
    BY DEF Init
  <1>2. mgc \in [Paths -> {"absent", "bad", "all", "some"}]
    BY HandleAssumption DEF Init
  <1>3. /\ had \in BOOLEAN /\ buf \in {"null", "text", "error"} /\ check \in BOOLEAN
        /\ ret \in {"none", "text", "failed"}
    BY Zenon DEF Init
  <1>4. magwarn \in 0..WarnMax /\ loads \in 0..MaxLoads /\ call = Idle
    BY ConstantFacts DEF Init
  <1>5. TypeOK
    <2> HIDE DEF Idle, Crashed
    <2> QED
      BY <1>1, <1>2, <1>3, <1>4 DEF TypeOK
  <1> QED
    BY <1>1, <1>5 DEF Inv, Whole

LEMMA StartInv ==
  ASSUME Inv, NEW action \in Actions, NEW asked \in Names, Start(action, asked)
  PROVE  Inv'
  <1>1. call = Idle /\ loads' = loads + 1 /\ loads < MaxLoads
    BY DEF Start
  <1>2. OthersOK
    <2>1. /\ had' \in BOOLEAN /\ buf' \in {"null", "text", "error"}
          /\ UNCHANGED <<check, magwarn, mgc>> /\ ret' = "none"
      BY Zenon DEF Start
    <2>2. loads' \in 0..MaxLoads /\ loads' # 0
      BY <1>1, ConstantFacts DEF Inv, TypeOK
    <2> QED
      BY <2>1, <2>2 DEF OthersOK, Inv, TypeOK
  <1>3. TypeOK /\ Whole(mlist, live)
    BY <1>1 DEF Inv, Idle, Crashed
  <1>4. CASE call' = [action |-> action, asked |-> asked, rest |-> asked, errs |-> -1,
                      fault |-> FALSE] /\ NewLists
    <2>1. call' \in Calls
      BY <1>4 DEF Calls
    <2> QED
      BY <1>2, <1>4, <2>1, NewDatabase, Together DEF StepOK
  <1>5. CASE call' = Idle /\ UNCHANGED database
    BY <1>1, <1>2, <1>3, <1>5, KeepDatabase, Together DEF StepOK, Idle, Crashed
  <1>6. CASE call' = Idle /\ (FreeFirst \/ FreeAll)
    BY <1>2, <1>3, <1>6, FreedDatabase, Together DEF StepOK
  <1> QED
    BY <1>4, <1>5, <1>6 DEF Start, Return

LEMMA LoadCompiledInv ==
  ASSUME Inv, LoadCompiled
  PROVE  Inv'
  <1> DEFINE p == Head(call.rest)
  <1>1. AtPath /\ p \in Paths
    BY PathType DEF LoadCompiled, Inv
  <1>2. mgc[p] \in {"all", "some"} /\ AddMap(p, mgc[p], FALSE)
    BY <1>1 DEF LoadCompiled, Inv, TypeOK
  <1>3. StepOK /\ (Raise \/ UNCHANGED error)
    BY <1>1, <1>2, AddMapStep
  <1>4. OthersOK
    BY <1>1, <1>3, ActiveCall, ErrorType DEF LoadCompiled, OthersOK, Inv, TypeOK, AtPath
  <1> QED
    BY <1>3, <1>4, Together

LEMMA LoadTextInv ==
  ASSUME Inv, LoadText
  PROVE  Inv'
  <1> DEFINE p == Head(call.rest)
             fromFile == call.action # "buffer"
             w == IF check /\ fromFile THEN magwarn + 1 ELSE magwarn
             opened == fromFile /\ mgc[p] \notin {"absent", "bad"}
  <1>1. AtPath /\ p \in Paths
    BY PathType DEF LoadText, Inv
  <1>2. w \in Nat /\ Warns[p] \in Nat
    BY <1>1, HandleAssumption, ConstantFacts DEF Inv, TypeOK
  <1>3. magwarn' \in 0..WarnMax
    <2>1. w + (IF Text[p] = "absent" THEN 0 ELSE Warns[p]) \in Nat
      BY <1>2
    <2>2. magwarn' = Warned(w + IF Text[p] = "absent" THEN 0 ELSE Warns[p])
      BY DEF LoadText
    <2> QED
      BY <2>1, <2>2, WarnedType
  <1>4. StepOK /\ (Raise \/ UNCHANGED error)
    <2>1. PICK rules \in Parsed(p, w), e \in MapErrors(p) :
            \/ rules # "fail" /\ AddMap(p, rules, e)
            \/ /\ rules = "fail"
               /\ \E f \in {e, Text[p] = "bad"} : RaiseIf(e \/ f)
               /\ Advance(-1, opened) /\ UNCHANGED database
            \/ TRUE \in Faults /\ Raise /\ Advance(-1, TRUE) /\ UNCHANGED database
      BY DEF LoadText
    <2> HIDE DEF p, opened, w
    <2>2. CASE rules # "fail" /\ AddMap(p, rules, e)
      <3>1. rules \in {"all", "some", "none"} /\ e \in BOOLEAN
        BY <2>2, ParsedType DEF MapErrors
      <3> QED
        BY <1>1, <2>2, <3>1, AddMapStep
    <2>3. CASE /\ \E f \in {e, Text[p] = "bad"} : RaiseIf(e \/ f)
               /\ Advance(-1, opened) /\ UNCHANGED database
      <3>1. opened \in BOOLEAN
        BY DEF opened
      <3> QED
        BY <1>1, <2>3, <3>1, SkipStep DEF RaiseIf
    <2>4. CASE Raise /\ Advance(-1, TRUE) /\ UNCHANGED database
      BY <1>1, <2>4, SkipStep
    <2> QED
      BY <2>1, <2>2, <2>3, <2>4
  <1>5. OthersOK
    BY <1>1, <1>3, <1>4, ActiveCall, ErrorType DEF LoadText, OthersOK, Inv, TypeOK, AtPath
  <1> QED
    BY <1>4, <1>5, Together

LEMMA CompilePathInv ==
  ASSUME Inv, CompilePath
  PROVE  Inv'
  <1> DEFINE p == Head(call.rest)
  <1>1. AtPath /\ p \in Paths /\ UNCHANGED database
    BY PathType DEF CompilePath, Inv
  <1>2. magwarn' \in 0..WarnMax
    <2>1. magwarn + (IF Text[p] = "absent" THEN 0 ELSE Warns[p]) \in Nat
      BY <1>1, HandleAssumption, ConstantFacts DEF Inv, TypeOK
    <2>2. magwarn' = Warned(magwarn + IF Text[p] = "absent" THEN 0 ELSE Warns[p])
      BY DEF CompilePath
    <2> QED
      BY <2>1, <2>2, WarnedType
  <1>3. PICK rules \in Parsed(p, magwarn) :
          \/ /\ rules # "fail"
             /\ mgc' = [mgc EXCEPT ![p] = Written(rules)]
             /\ Advance(0, FALSE) /\ UNCHANGED error
          \/ /\ rules # "fail" /\ TRUE \in Faults
             /\ mgc' \in {mgc, [mgc EXCEPT ![p] = "bad"]}
             /\ Advance(-1, TRUE) /\ Raise
          \/ /\ rules = "fail"
             /\ \E f \in {FALSE, Text[p] = "bad"} : RaiseIf(f)
             /\ Advance(-1, FALSE) /\ UNCHANGED mgc
    BY DEF CompilePath
  <1>4. StepOK
    BY <1>1, <1>3, SkipStep
  <1>5. (Raise \/ UNCHANGED error)
    BY <1>3 DEF RaiseIf
  <1>6. mgc' \in [Paths -> {"absent", "bad", "all", "some"}]
    <2> HIDE DEF p
    <2>1. mgc \in [Paths -> {"absent", "bad", "all", "some"}]
      BY DEF Inv, TypeOK
    <2>2. rules # "fail" => Written(rules) \in {"all", "some", "bad"}
      BY ParsedType DEF Written
    <2> QED
      BY <1>1, <1>3, <2>1, <2>2
  <1>7. OthersOK
    BY <1>1, <1>2, <1>5, <1>6, ActiveCall, ErrorType
       DEF CompilePath, OthersOK, Inv, TypeOK, AtPath
  <1> QED
    BY <1>4, <1>7, Together

LEMMA FinishInv ==
  ASSUME Inv, Finish
  PROVE  Inv'
  <1>1. call' = Idle /\ Active
    BY DEF Finish, Return
  <1>2. CASE FreeAll /\ Raise
    <2>1. OthersOK
      BY <1>1, <1>2, NoCall, ErrorType DEF Finish, OthersOK, Inv, TypeOK
    <2> QED
      BY <1>1, <1>2, <2>1, FreedDatabase, Together DEF StepOK, Inv
  <1>3. CASE UNCHANGED <<database, error>>
    <2>1. OthersOK
      BY <1>1, <1>3, NoCall, ErrorType DEF Finish, OthersOK, Inv, TypeOK
    <2> QED
      BY <1>1, <1>3, <2>1, KeepDatabase, ActiveWhole, Together DEF StepOK
  <1> QED
    BY <1>2, <1>3 DEF Finish

\* Calls that leave the database alone.
LEMMA IdentifyInv ==
  ASSUME Inv, Identify \/ GetError \/ SetFlags
  PROVE  Inv'
  <1>1. call = Idle /\ call' = call /\ UNCHANGED database /\ UNCHANGED <<magwarn, loads, mgc>>
    BY DEF Identify, GetError, SetFlags
  <1>2. OthersOK
    <2>1. /\ had' \in BOOLEAN /\ buf' \in {"null", "text", "error"}
          /\ check' \in BOOLEAN /\ ret' \in {"none", "text", "failed"}
      <3>0. TypeOK
        BY DEF Inv
      <3>1. CASE Identify
        BY <3>0, <3>1, Zenon DEF Identify, Raise, TypeOK
      <3>2. CASE GetError
        BY <3>0, <3>2, Zenon DEF GetError, TypeOK
      <3>3. CASE SetFlags
        BY <3>0, <3>3, Zenon DEF SetFlags, TypeOK, error
      <3> QED
        BY <3>1, <3>2, <3>3
    <2> QED
      BY <1>1, <2>1, NoCall DEF OthersOK, Inv, TypeOK
  <1> QED
    BY <1>1, <1>2, KeepDatabase, Together DEF StepOK, Idle, Crashed

LEMMA StutterInv ==
  ASSUME Inv, UNCHANGED vars
  PROVE  Inv'
  BY DEF vars, database, error, Inv, TypeOK, Whole

LEMMA NextInv ==
  ASSUME Inv, [Next]_vars
  PROVE  Inv'
  <1>1. CASE Load
    <2>1. /\ PathLists \subseteq Names
          /\ \A p \in Paths : <<p>> \in Names
      BY HandleAssumption DEF Names
    <2> QED
      BY <1>1, <2>1, StartInv DEF Load
  <1>2. CASE Gone
    BY <1>2, StutterInv DEF Gone
  <1> QED
    BY <1>1, <1>2, LoadCompiledInv, LoadTextInv, CompilePathInv, FinishInv, IdentifyInv,
       StutterInv DEF Next

LEMMA Invariance == Spec => []Inv
  BY InitInv, NextInv, PTL DEF Spec

-----------------------------------------------------------------------------
\* What a load has put into the database, path by path.

\* A call under way: where it is in its list, and what it has loaded so far when
\* nothing went wrong.
Place(c) == Len(c.asked) - Len(c.rest)
RestOfAsked(c) ==
  /\ Len(c.rest) <= Len(c.asked)
  /\ \A i \in DOMAIN c.rest : c.rest[i] = c.asked[Place(c) + i]
  /\ \A i \in 1..Place(c) : c.asked[i] # EmptyName
Faultless(c, w) == c.action \in {"load", "check"} /\ ~c.fault /\ w < WarnMax
LoadedSoFar(c, list, files) == list # NULL /\ LoadedInOrder(list, c.asked, Place(c), files)
UnderWay == Active =>
  /\ RestOfAsked(call) /\ ret = "none"
  /\ Faultless(call, magwarn) => LoadedSoFar(call, mlist[1], mgc)

\* As long as not all warnings were given, compiled files hold all their rules.
WholeFiles == magwarn < WarnMax => \A p \in Paths : mgc[p] \in {"absent", "bad", "all"}

\* The database of an idle handle is that of a call which reported success, or of
\* one before it that a call without memory could not replace.
Reported == call = Idle /\ mlist[1] # NULL => last.rv = 0 \/ last.kept

LoadInv ==
  /\ UnderWay /\ WholeFiles /\ Reported
  /\ LoadedAsAsked /\ UsesReportedDatabase /\ FailureExplained

LEMMA InOrderAppend ==
  ASSUME NEW list \in Seq(Entries), NEW asked, NEW n \in Nat, NEW files, NEW entry \in Entries,
         LoadedInOrder(list, asked, n, files), Readable(asked[n + 1], files),
         entry.path = asked[n + 1], entry.rules = "all"
  PROVE  LoadedInOrder(Append(list, entry), asked, n + 1, files)
  <1> DEFINE new == Append(list, entry)
             l == Len(list)
  <1>1. l \in Nat /\ DOMAIN list = 1..l
    OBVIOUS
  <1>2. /\ DOMAIN new = 1..(l + 1) /\ new[l + 1] = entry
        /\ \A i \in 1..l : new[i] = list[i]
    OBVIOUS
  <1>3. PICK at \in [DOMAIN list -> 1..n] :
          /\ \A i, j \in DOMAIN list : i < j => at[i] < at[j]
          /\ \A i \in DOMAIN list : list[i].path = asked[at[i]] /\ list[i].rules = "all"
          /\ {at[i] : i \in DOMAIN list} = {k \in 1..n : Readable(asked[k], files)}
    BY DEF LoadedInOrder
  <1> DEFINE more == [i \in 1..(l + 1) |-> IF i = l + 1 THEN n + 1 ELSE at[i]]
  <1> HIDE DEF l, new
  <1>4. more[l + 1] = n + 1 /\ \A i \in 1..l : more[i] = at[i] /\ at[i] \in 1..n
    BY <1>1, <1>3
  <1>5. more \in [1..(l + 1) -> 1..(n + 1)]
    BY <1>1, <1>3
  <1> HIDE DEF more
  <1>6. \A i \in 1..(l + 1) : i \in 1..l \/ i = l + 1
    BY <1>1
  <1>7. \A i, j \in 1..(l + 1) : i < j => more[i] < more[j]
    <2> SUFFICES ASSUME NEW i \in 1..(l + 1), NEW j \in 1..(l + 1), i < j
                 PROVE  more[i] < more[j]
      OBVIOUS
    <2>1. i \in 1..l
      BY <1>1, <1>6
    <2>2. more[i] = at[i] /\ at[i] \in 1..n
      BY <1>4, <2>1
    <2>3. CASE j = l + 1
      BY <1>4, <2>2, <2>3
    <2>4. CASE j \in 1..l
      BY <1>1, <1>3, <1>4, <2>1, <2>4
    <2> QED
      BY <1>6, <2>3, <2>4
  <1>8. \A i \in 1..(l + 1) : new[i].path = asked[more[i]] /\ new[i].rules = "all"
    BY <1>1, <1>2, <1>3, <1>4, <1>6
  <1>9. {more[i] : i \in 1..(l + 1)} = {k \in 1..(n + 1) : Readable(asked[k], files)}
    <2>1. {more[i] : i \in 1..(l + 1)} = {at[i] : i \in DOMAIN list} \cup {n + 1}
      <3>1. l + 1 \in 1..(l + 1) /\ \A i \in 1..l : i \in 1..(l + 1)
        BY <1>1
      <3> QED
        BY <1>1, <1>4, <1>6, <3>1
    <2>2. 1..(n + 1) = 1..n \cup {n + 1}
      OBVIOUS
    <2> QED
      BY <1>3, <2>1, <2>2
  <1>10. /\ more \in [DOMAIN new -> 1..(n + 1)]
         /\ \A i, j \in DOMAIN new : i < j => more[i] < more[j]
         /\ \A i \in DOMAIN new : new[i].path = asked[more[i]] /\ new[i].rules = "all"
         /\ {more[i] : i \in DOMAIN new} = {k \in 1..(n + 1) : Readable(asked[k], files)}
    BY <1>2, <1>5, <1>7, <1>8, <1>9
  <1>11. LoadedInOrder(new, asked, n + 1, files)
    BY <1>10, Zenon DEF LoadedInOrder
  <1> QED
    BY <1>11 DEF new

LEMMA InOrderSkip ==
  ASSUME NEW list \in Seq(Entries), NEW asked, NEW n \in Nat, NEW files,
         LoadedInOrder(list, asked, n, files), ~Readable(asked[n + 1], files)
  PROVE  LoadedInOrder(list, asked, n + 1, files)
  <1>1. PICK at \in [DOMAIN list -> 1..n] :
          /\ \A i, j \in DOMAIN list : i < j => at[i] < at[j]
          /\ \A i \in DOMAIN list : list[i].path = asked[at[i]] /\ list[i].rules = "all"
          /\ {at[i] : i \in DOMAIN list} = {k \in 1..n : Readable(asked[k], files)}
    BY DEF LoadedInOrder
  <1>2. 1..(n + 1) = 1..n \cup {n + 1}
    OBVIOUS
  <1>3. at \in [DOMAIN list -> 1..(n + 1)]
    BY <1>1, <1>2
  <1>4. {at[i] : i \in DOMAIN list} = {k \in 1..(n + 1) : Readable(asked[k], files)}
    BY <1>1, <1>2
  <1> QED
    BY <1>1, <1>3, <1>4 DEF LoadedInOrder

\* Going on to the next path.
LEMMA AdvanceFields ==
  ASSUME TypeOK, AtPath, NEW errs, NEW fault \in BOOLEAN, Advance(errs, fault)
  PROVE  /\ call'.action = call.action /\ call'.asked = call.asked
         /\ call'.rest = Tail(call.rest) /\ call'.fault = (call.fault \/ fault)
  <1>1. call \in Calls
    BY ActiveCall DEF AtPath
  <1>2. PICK e : e = IF call.errs > errs THEN call.errs ELSE errs
    OBVIOUS
  <1>3. PICK f \in BOOLEAN : f = (call.fault \/ fault)
    BY <1>1 DEF Calls
  <1>4. call' = [call EXCEPT !.rest = Tail(@), !.errs = e, !.fault = f]
    BY <1>2, <1>3 DEF Advance
  <1> QED
    BY <1>1, <1>3, <1>4 DEF Calls

LEMMA NextPlace ==
  ASSUME NEW c \in Calls, NEW d, d.asked = c.asked, d.rest = Tail(c.rest), c.rest # << >>,
         Head(c.rest) # EmptyName, RestOfAsked(c)
  PROVE  /\ RestOfAsked(d) /\ Place(c) \in Nat /\ Place(d) = Place(c) + 1
         /\ c.asked[Place(c) + 1] = Head(c.rest)
  <1> DEFINE asked == c.asked
             rest == c.rest
             l == Len(rest)
             m == Len(asked)
  <1>1. asked \in Names /\ rest \in Names
    BY DEF Calls
  <1>2. /\ l \in Nat /\ m \in Nat /\ l # 0 /\ DOMAIN rest = 1..l
        /\ Head(rest) = rest[1] /\ Len(Tail(rest)) = l - 1 /\ DOMAIN Tail(rest) = 1..(l - 1)
        /\ \A i \in 1..(l - 1) : Tail(rest)[i] = rest[i + 1]
    BY <1>1 DEF Names
  <1>3. l <= m /\ \A i \in 1..l : rest[i] = asked[m - l + i]
    BY <1>2 DEF RestOfAsked, Place
  <1>4. \A i \in 1..(m - l) : asked[i] # EmptyName
    BY DEF RestOfAsked, Place
  <1>5. Place(c) = m - l /\ Place(d) = m - (l - 1)
    BY <1>2 DEF Place
  <1> HIDE DEF l, m
  <1>6. asked[m - l + 1] = Head(rest)
    BY <1>2, <1>3
  <1>7. RestOfAsked(d)
    <2>1. \A i \in 1..(l - 1) : Tail(rest)[i] = asked[(m - (l - 1)) + i]
      <3> SUFFICES ASSUME NEW i \in 1..(l - 1)
                   PROVE  Tail(rest)[i] = asked[(m - (l - 1)) + i]
        OBVIOUS
      <3>1. i + 1 \in 1..l /\ m - l + (i + 1) = (m - (l - 1)) + i
        BY <1>2
      <3> QED
        BY <1>2, <1>3, <3>1
    <2>2. \A i \in 1..(m - (l - 1)) : asked[i] # EmptyName
      <3> SUFFICES ASSUME NEW i \in 1..(m - (l - 1))
                   PROVE  asked[i] # EmptyName
        OBVIOUS
      <3>1. i \in 1..(m - l) \/ i = m - l + 1
        BY <1>2, <1>3
      <3> QED
        BY <1>4, <1>6, <3>1
    <2>3. l - 1 <= m
      BY <1>2, <1>3
    <2> QED
      BY <1>2, <1>5, <2>1, <2>2, <2>3 DEF RestOfAsked, m
  <1> QED
    BY <1>2, <1>3, <1>5, <1>6, <1>7

\* What one path does to a faultless load: if the path can be read a map with all its
\* rules is appended, otherwise the database stays as it is.
PathRead(p) ==
  \E errs \in {-1, 0}, fault \in BOOLEAN :
    /\ Advance(errs, fault)
    /\ ~fault /\ magwarn' < WarnMax /\ call.action \in {"load", "check"} =>
         IF Readable(p, mgc)
         THEN \E entry \in Entries : /\ entry.path = p /\ entry.rules = "all"
                                     /\ mlist'[1] = Append(mlist[1], entry)
         ELSE mlist' = mlist

MapAdded(p, rules) ==
  \E errs \in {-1, 0}, fault \in BOOLEAN :
    /\ Advance(errs, fault)
    /\ ~fault => \E entry \in Entries : /\ entry.path = p /\ entry.rules = rules
                                        /\ mlist'[1] = Append(mlist[1], entry)

LEMMA AddMapEffect ==
  ASSUME TypeOK, AtPath, NEW p \in Paths, NEW rules \in {"all", "some", "none"},
         NEW e \in BOOLEAN, AddMap(p, rules, e), call' # Crashed
  PROVE  MapAdded(p, rules)
  <1> DEFINE entry == [id |-> <<loads, Len(call.rest)>>, path |-> p, rules |-> rules]
  <1>1. entry \in Entries /\ entry.path = p /\ entry.rules = rules
    BY ActiveCall, PathType DEF AtPath, Entries
  <1> HIDE DEF entry
  <1>2. CASE Advance(-1, TRUE)
    BY <1>2 DEF MapAdded
  <1>3. CASE mlist' = [i \in {1, 2} |-> Append(mlist[i], entry)] /\ Advance(0, FALSE)
    <2>1. mlist'[1] = Append(mlist[1], entry)
      BY <1>3
    <2> QED
      BY <1>1, <1>3, <2>1 DEF MapAdded
  <1> QED
    BY <1>2, <1>3 DEF AddMap, entry

LEMMA CompiledRead ==
  ASSUME Inv, WholeFiles, LoadCompiled, call' # Crashed
  PROVE  PathRead(Head(call.rest))
  <1> DEFINE p == Head(call.rest)
  <1>1. AtPath /\ p \in Paths
    BY PathType DEF LoadCompiled, Inv
  <1>2. mgc[p] \in {"all", "some"} /\ AddMap(p, mgc[p], FALSE) /\ magwarn' = magwarn
    BY <1>1 DEF LoadCompiled, Inv, TypeOK
  <1> HIDE DEF p
  <1>3. MapAdded(p, mgc[p])
    BY <1>1, <1>2, AddMapEffect DEF Inv
  <1>4. magwarn < WarnMax => mgc[p] = "all"
    BY <1>1, <1>2 DEF WholeFiles
  <1>5. Readable(p, mgc)
    BY <1>2 DEF Readable
  <1>6. PathRead(p)
    BY <1>2, <1>3, <1>4, <1>5 DEF MapAdded, PathRead
  <1> QED
    BY <1>6 DEF p

\* A text that is parsed before all warnings are given is parsed as a whole.
LEMMA ParsedWhole ==
  ASSUME NEW p \in Paths, NEW w \in Nat, NEW rules \in Parsed(p, w),
         Warned(w + IF Text[p] = "absent" THEN 0 ELSE Warns[p]) < WarnMax
  PROVE  rules = IF Text[p] = "good" THEN "all" ELSE "fail"
  <1> DEFINE more == IF Text[p] = "absent" THEN 0 ELSE Warns[p]
  <1>1. Warns[p] \in Nat /\ WarnMax \in Nat /\ more \in Nat
    BY HandleAssumption, ConstantFacts
  <1> HIDE DEF more
  <1>2. w + more < WarnMax
    BY <1>1 DEF Warned, more
  <1>3. ~(w >= WarnMax)
    BY <1>1, <1>2
  <1>4. Text[p] # "absent" => ~(w + Warns[p] >= WarnMax)
    BY <1>1, <1>2 DEF more
  <1> QED
    BY <1>3, <1>4, HandleAssumption DEF Parsed

LEMMA WarnedGrows ==
  ASSUME TypeOK, LoadText
  PROVE  magwarn <= magwarn' /\ magwarn' \in Nat
  <1> DEFINE p == Head(call.rest)
             w == IF check /\ call.action # "buffer" THEN magwarn + 1 ELSE magwarn
             more == IF Text[p] = "absent" THEN 0 ELSE Warns[p]
  <1>1. p \in Paths /\ magwarn' = Warned(w + more)
    BY PathType DEF LoadText
  <1>2. magwarn \in 0..WarnMax /\ WarnMax \in Nat /\ w \in Nat /\ magwarn <= w /\ more \in Nat
    BY <1>1, HandleAssumption, ConstantFacts DEF TypeOK
  <1> HIDE DEF w, more
  <1> QED
    BY <1>1, <1>2 DEF Warned

LEMMA TextRead ==
  ASSUME Inv, LoadText, call' # Crashed
  PROVE  PathRead(Head(call.rest))
  <1> DEFINE p == Head(call.rest)
             fromFile == call.action # "buffer"
             w == IF check /\ fromFile THEN magwarn + 1 ELSE magwarn
             opened == fromFile /\ mgc[p] \notin {"absent", "bad"}
             more == IF Text[p] = "absent" THEN 0 ELSE Warns[p]
  <1>1. AtPath /\ p \in Paths
    BY PathType DEF LoadText, Inv
  <1>2. w \in Nat /\ magwarn <= w /\ Warns[p] \in Nat /\ WarnMax \in Nat /\ more \in Nat
    BY <1>1, HandleAssumption, ConstantFacts DEF Inv, TypeOK
  <1>3. magwarn' = Warned(w + more)
    BY DEF LoadText
  <1>4. PICK rules \in Parsed(p, w), e \in MapErrors(p) :
          \/ rules # "fail" /\ AddMap(p, rules, e)
          \/ /\ rules = "fail"
             /\ \E f \in {e, Text[p] = "bad"} : RaiseIf(e \/ f)
             /\ Advance(-1, opened) /\ UNCHANGED database
          \/ TRUE \in Faults /\ Raise /\ Advance(-1, TRUE) /\ UNCHANGED database
    BY DEF LoadText
  <1>5. opened \in BOOLEAN /\ e \in BOOLEAN
    BY DEF MapErrors
  <1>6. opened \in BOOLEAN /\ (~opened => (call.action = "buffer" \/ mgc[p] \in {"absent", "bad"}))
    OBVIOUS
  <1> HIDE DEF p, opened, w, more
  <1>8. magwarn' < WarnMax => rules = IF Text[p] = "good" THEN "all" ELSE "fail"
    BY <1>1, <1>2, <1>3, ParsedWhole DEF more
  <1>9. CASE rules # "fail" /\ AddMap(p, rules, e)
    <2>1. rules \in {"all", "some", "none"}
      BY <1>9, ParsedType
    <2>2. MapAdded(p, rules)
      BY <1>1, <1>5, <1>9, <2>1, AddMapEffect DEF Inv
    <2>3. magwarn' < WarnMax => rules = "all" /\ Readable(p, mgc)
      BY <1>8, <1>9 DEF Readable
    <2> QED
      BY <2>2, <2>3 DEF MapAdded, PathRead, p
  <1>10. CASE rules = "fail" /\ Advance(-1, opened) /\ UNCHANGED database
    <2>1. magwarn' < WarnMax => Text[p] # "good"
      BY <1>8, <1>10
    <2>2. ~opened /\ magwarn' < WarnMax /\ call.action \in {"load", "check"} => ~Readable(p, mgc)
      BY <1>6, <2>1 DEF Readable
    <2> QED
      BY <1>5, <1>10, <2>2 DEF PathRead, p, database
  <1>11. CASE Advance(-1, TRUE)
    BY <1>11 DEF PathRead, p
  <1> QED
    BY <1>4, <1>9, <1>10, <1>11

\* A path that is read keeps the account of what is loaded.
LEMMA ReadKeeps ==
  ASSUME Inv, AtPath, UnderWay, PathRead(Head(call.rest)), magwarn <= magwarn', mgc' = mgc,
         magwarn' \in Nat, ret' = ret
  PROVE  UnderWay'
  <1> DEFINE p == Head(call.rest)
  <1>1. PICK errs \in {-1, 0}, fault \in BOOLEAN :
          /\ Advance(errs, fault)
          /\ ~fault /\ magwarn' < WarnMax /\ call.action \in {"load", "check"} =>
               IF Readable(p, mgc)
               THEN \E entry \in Entries : /\ entry.path = p /\ entry.rules = "all"
                                           /\ mlist'[1] = Append(mlist[1], entry)
               ELSE mlist' = mlist
    BY DEF PathRead
  <1> HIDE DEF p
  <1>2. /\ call'.action = call.action /\ call'.asked = call.asked
        /\ call'.rest = Tail(call.rest) /\ call'.fault = (call.fault \/ fault)
    BY <1>1, AdvanceFields DEF Inv
  <1>3. /\ call \in Calls /\ call.rest # << >> /\ p # EmptyName
        /\ RestOfAsked(call) /\ ret = "none"
    BY ActiveCall DEF Inv, AtPath, UnderWay, p
  <1>4. /\ RestOfAsked(call') /\ Place(call) \in Nat /\ Place(call') = Place(call) + 1
        /\ call.asked[Place(call) + 1] = p
    BY <1>2, <1>3, NextPlace DEF p
  <1>5. ASSUME Faultless(call', magwarn')
        PROVE  LoadedSoFar(call', mlist'[1], mgc')
    <2>1. ~fault /\ Faultless(call, magwarn) /\ magwarn' < WarnMax
      <3>1. ~call'.fault /\ call'.action \in {"load", "check"} /\ magwarn' < WarnMax
        BY <1>5 DEF Faultless
      <3>2. ~call.fault /\ ~fault
        BY <1>2, <3>1, Zenon
      <3>3. magwarn < WarnMax
        BY <3>1, ConstantFacts DEF Inv, TypeOK
      <3> QED
        BY <1>2, <3>1, <3>2, <3>3 DEF Faultless
    <2>2. mlist[1] # NULL /\ LoadedInOrder(mlist[1], call.asked, Place(call), mgc)
      BY <2>1 DEF UnderWay, LoadedSoFar, AtPath
    <2>3. mlist[1] \in Seq(Entries)
      BY <2>2 DEF Inv, TypeOK
    <2>4. CASE Readable(p, mgc)
      <3>1. PICK entry \in Entries : /\ entry.path = p /\ entry.rules = "all"
                                     /\ mlist'[1] = Append(mlist[1], entry)
        BY <1>1, <2>1, <2>4 DEF Faultless
      <3>2. LoadedInOrder(Append(mlist[1], entry), call.asked, Place(call) + 1, mgc)
        BY <1>4, <2>2, <2>3, <2>4, <3>1, InOrderAppend
      <3>3. mlist'[1] # NULL
        <4>1. Append(mlist[1], entry) \in Seq(Entries)
          BY <2>3
        <4> QED
          BY <3>1, <4>1, NullAssumption
      <3> QED
        BY <1>2, <1>4, <3>1, <3>2, <3>3 DEF LoadedSoFar
    <2>5. CASE ~Readable(p, mgc)
      <3>1. mlist' = mlist
        BY <1>1, <2>1, <2>5 DEF Faultless
      <3>2. LoadedInOrder(mlist[1], call.asked, Place(call) + 1, mgc)
        BY <1>4, <2>2, <2>3, <2>5, InOrderSkip
      <3> QED
        BY <1>2, <1>4, <2>2, <3>1, <3>2 DEF LoadedSoFar
    <2> QED
      BY <2>4, <2>5
  <1> QED
    BY <1>3, <1>4, <1>5 DEF UnderWay

LEMMA CallStays ==
  ASSUME Inv, AtPath, PathRead(Head(call.rest)) \/ call' = Crashed
  PROVE  call' # Idle
  <1>1. CASE PathRead(Head(call.rest))
    <2>1. call' \in Calls
      BY <1>1, AdvanceType DEF PathRead, Inv
    <2> QED
      BY <2>1, NoCall
  <1>2. CASE call' = Crashed
    BY <1>2 DEF Crashed, Idle
  <1> QED
    BY <1>1, <1>2

\* While a call goes on nothing is reported of it.
LEMMA NoReport ==
  ASSUME call' # Idle, UNCHANGED <<last, ret>>, UsesReportedDatabase
  PROVE  Reported' /\ LoadedAsAsked' /\ UsesReportedDatabase' /\ FailureExplained'
  BY DEF Reported, LoadedAsAsked, UsesReportedDatabase, FailureExplained, Ended

LEMMA ReadLoadInv ==
  ASSUME Inv, LoadInv, LoadCompiled \/ LoadText
  PROVE  LoadInv'
  <1>1. AtPath /\ UNCHANGED <<last, ret, mgc>>
    BY DEF LoadCompiled, LoadText
  <1>2. magwarn <= magwarn' /\ magwarn' \in Nat
    <2>1. magwarn \in 0..WarnMax /\ WarnMax \in Nat
      BY ConstantFacts DEF Inv, TypeOK
    <2>2. CASE LoadCompiled
      BY <2>1, <2>2 DEF LoadCompiled
    <2>3. CASE LoadText
      BY <2>1, <2>3, WarnedGrows DEF Inv
    <2> QED
      BY <2>2, <2>3
  <1>3. call' = Crashed \/ PathRead(Head(call.rest))
    BY CompiledRead, TextRead DEF LoadInv
  <1>4. call' # Idle
    BY <1>1, <1>3, CallStays
  <1>5. UnderWay'
    <2>1. CASE call' = Crashed
      BY <2>1, ConstantFacts DEF UnderWay, Active, Crashed
    <2>2. CASE PathRead(Head(call.rest))
      BY <1>1, <1>2, <2>2, ReadKeeps DEF LoadInv
    <2> QED
      BY <1>3, <2>1, <2>2
  <1>6. WholeFiles'
    <2>1. magwarn' < WarnMax => magwarn < WarnMax
      BY <1>2, ConstantFacts DEF Inv, TypeOK
    <2> QED
      BY <1>1, <2>1 DEF WholeFiles, LoadInv
  <1> QED
    BY <1>1, <1>4, <1>5, <1>6, NoReport DEF LoadInv

LEMMA CompileLoadInv ==
  ASSUME Inv, LoadInv, CompilePath
  PROVE  LoadInv'
  <1> DEFINE p == Head(call.rest)
             more == IF Text[p] = "absent" THEN 0 ELSE Warns[p]
  <1>1. AtPath /\ p \in Paths /\ call.action = "compile" /\ UNCHANGED <<last, ret>>
    BY PathType DEF CompilePath, Inv
  <1>2. magwarn' = Warned(magwarn + more)
    BY DEF CompilePath
  <1>3. PICK rules \in Parsed(p, magwarn) :
          \/ /\ rules # "fail"
             /\ mgc' = [mgc EXCEPT ![p] = Written(rules)]
             /\ Advance(0, FALSE) /\ UNCHANGED error
          \/ /\ rules # "fail" /\ TRUE \in Faults
             /\ mgc' \in {mgc, [mgc EXCEPT ![p] = "bad"]}
             /\ Advance(-1, TRUE) /\ Raise
          \/ /\ rules = "fail"
             /\ \E f \in {FALSE, Text[p] = "bad"} : RaiseIf(f)
             /\ Advance(-1, FALSE) /\ UNCHANGED mgc
    BY DEF CompilePath
  <1>4. magwarn \in 0..WarnMax /\ WarnMax \in Nat /\ Warns[p] \in Nat
    BY <1>1, HandleAssumption, ConstantFacts DEF Inv, TypeOK
  <1>5. magwarn' < WarnMax => magwarn < WarnMax
    BY <1>2, <1>4 DEF Warned
  <1> HIDE DEF more
  <1>6. magwarn' < WarnMax => rules \in {"all", "fail"}
    BY <1>1, <1>2, <1>4, ParsedWhole DEF more
  <1>7. WholeFiles'
    <2>1. magwarn' < WarnMax => \A q \in Paths : mgc[q] \in {"absent", "bad", "all"}
      BY <1>5 DEF LoadInv, WholeFiles
    <2>2. mgc' = mgc \/ mgc' = [mgc EXCEPT ![p] = "bad"]
            \/ (rules # "fail" /\ mgc' = [mgc EXCEPT ![p] = Written(rules)])
      BY <1>3
    <2>3. DOMAIN mgc = Paths
      BY DEF Inv, TypeOK
    <2> HIDE DEF p
    <2> QED
      BY <1>6, <2>1, <2>2, <2>3 DEF WholeFiles, Written
  <1>8. /\ call' \in Calls /\ call'.action = call.action /\ call'.asked = call.asked
        /\ call'.rest = Tail(call.rest)
    <2>1. Advance(0, FALSE) \/ Advance(-1, TRUE) \/ Advance(-1, FALSE)
      BY <1>3
    <2> QED
      BY <1>1, <2>1, AdvanceFields, AdvanceType DEF Inv
  <1>9. UnderWay'
    <2>1. call \in Calls /\ call.rest # << >> /\ p # EmptyName /\ RestOfAsked(call) /\ ret = "none"
      BY <1>1, ActiveCall DEF Inv, AtPath, LoadInv, UnderWay
    <2>2. RestOfAsked(call')
      BY <1>8, <2>1, NextPlace
    <2>3. ~Faultless(call', magwarn')
      BY <1>1, <1>8 DEF Faultless
    <2> QED
      BY <1>1, <2>1, <2>2, <2>3 DEF UnderWay
  <1>10. call' # Idle
    BY <1>8, NoCall
  <1> QED
    BY <1>1, <1>7, <1>9, <1>10, NoReport DEF LoadInv

\* A list that is at its end has been read as far as the first empty name.
LEMMA AtTheEnd ==
  ASSUME NEW c \in Calls, RestOfAsked(c), c.rest = << >> \/ Head(c.rest) = EmptyName
  PROVE  BeforeEmpty(c.asked) = Place(c)
  <1> DEFINE asked == c.asked
             rest == c.rest
             l == Len(rest)
             m == Len(asked)
             empty == {i \in DOMAIN asked : asked[i] = EmptyName}
  <1>1. asked \in Names /\ rest \in Names
    BY DEF Calls
  <1>2. l \in Nat /\ m \in Nat /\ DOMAIN rest = 1..l /\ DOMAIN asked = 1..m
    BY <1>1 DEF Names
  <1>3. /\ l <= m /\ \A i \in 1..l : rest[i] = asked[m - l + i]
        /\ \A i \in 1..(m - l) : asked[i] # EmptyName
    BY <1>2 DEF RestOfAsked, Place
  <1>4. Place(c) = m - l
    BY DEF Place
  <1>5. CASE rest = << >>
    <2>1. l = 0
      BY <1>5
    <2> HIDE DEF m
    <2>2. empty = {}
      BY <1>2, <1>3, <2>1
    <2>3. BeforeEmpty(asked) = m
      BY <2>2 DEF BeforeEmpty, m
    <2> QED
      BY <1>2, <1>4, <2>1, <2>3 DEF asked
  <1>6. CASE rest # << >> /\ Head(rest) = EmptyName
    <2>1. l # 0 /\ rest[1] = EmptyName
      BY <1>1, <1>6 DEF Names
    <2> DEFINE first == m - l + 1
    <2> HIDE DEF m, l
    <2>2. first \in 1..m /\ asked[first] = EmptyName
      BY <1>2, <1>3, <2>1
    <2>3. \A i \in empty : first <= i
      BY <1>2, <1>3
    <2>4. first \in empty
      BY <1>2, <2>2
    <2>5. \A i \in empty : (\A k \in empty : i <= k) => i = first
      BY <1>2, <2>3, <2>4
    <2>6. (CHOOSE i \in empty : \A k \in empty : i <= k) = first
      BY <2>3, <2>4, <2>5
    <2>7. BeforeEmpty(asked) = first - 1
      BY <2>4, <2>6 DEF BeforeEmpty
    <2> QED
      BY <1>2, <1>4, <2>7 DEF asked
  <1> QED
    BY <1>5, <1>6

LEMMA FinishLoadInv ==
  ASSUME Inv, LoadInv, Finish
  PROVE  LoadInv'
  <1>1. /\ Active /\ ~AtPath /\ call' = Idle /\ UNCHANGED <<magwarn, ret, mgc>>
        /\ last' = [action |-> call.action, asked |-> call.asked, rv |-> call.errs,
                    kept |-> FALSE, fault |-> call.fault]
    BY DEF Finish, Return
  <1>2. call \in Calls
    BY <1>1, ActiveCall DEF Inv
  <1>3. /\ last'.action = call.action /\ last'.asked = call.asked /\ last'.rv = call.errs
        /\ last'.fault = call.fault
    BY <1>1
  <1>4. call.errs = -1 => FreeAll /\ Raise
    BY DEF Finish
  <1>5. call.errs = 0 => mlist' = mlist
    BY DEF Finish, database
  <1>6. call.errs \in {-1, 0}
    BY <1>2 DEF Calls
  <1>7. RestOfAsked(call) /\ ret = "none" /\ (Faultless(call, magwarn) => LoadedSoFar(call, mlist[1], mgc))
    BY <1>1 DEF LoadInv, UnderWay
  <1>8. UnderWay'
    BY <1>1, ConstantFacts DEF UnderWay, Active, Idle
  <1>9. WholeFiles'
    BY <1>1 DEF WholeFiles, LoadInv
  <1>10. Reported'
    <2>1. call.errs = -1 => mlist'[1] = NULL
      BY <1>4 DEF FreeAll
    <2> QED
      BY <1>3, <1>6, <2>1 DEF Reported
  <1>11. UsesReportedDatabase'
    BY <1>1, <1>7 DEF UsesReportedDatabase
  <1>12. FailureExplained'
    BY <1>3, <1>4, <1>6 DEF FailureExplained, Raise
  <1>13. LoadedAsAsked'
    <2> SUFFICES ASSUME call.errs = 0, ~call.fault, call.action \in {"load", "check"},
                        magwarn < WarnMax
                 PROVE  LoadedInOrder(mlist'[1], last'.asked, BeforeEmpty(last'.asked), mgc')
      BY <1>1, <1>3 DEF LoadedAsAsked
    <2>1. LoadedInOrder(mlist[1], call.asked, Place(call), mgc)
      BY <1>7 DEF Faultless, LoadedSoFar
    <2>2. BeforeEmpty(call.asked) = Place(call)
      BY <1>1, <1>2, <1>7, AtTheEnd DEF AtPath
    <2> QED
      BY <1>1, <1>3, <1>5, <2>1, <2>2
  <1> QED
    BY <1>8, <1>9, <1>10, <1>11, <1>12, <1>13 DEF LoadInv

LEMMA StartLoadInv ==
  ASSUME Inv, LoadInv, NEW action \in Actions, NEW asked \in Names, Start(action, asked)
  PROVE  LoadInv'
  <1> DEFINE c == [action |-> action, asked |-> asked, rest |-> asked, errs |-> -1,
                   fault |-> FALSE]
  <1>1. call = Idle /\ ret' = "none" /\ UNCHANGED <<magwarn, mgc>>
    BY DEF Start
  <1>2. WholeFiles' /\ UsesReportedDatabase'
    BY <1>1 DEF WholeFiles, UsesReportedDatabase, LoadInv
  <1>3. CASE NewLists /\ call' = c
    <2>1. c \in Calls /\ call'.asked = asked /\ call'.rest = asked
      BY <1>3 DEF Calls
    <2>2. RestOfAsked(call') /\ Place(call') = 0
      BY <2>1 DEF RestOfAsked, Place, Names
    <2>3. mlist'[1] = << >>
      BY <1>3, NewDatabase
    <2>4. LoadedInOrder(<< >>, asked, 0, mgc)
      <3> DEFINE at == [i \in {} |-> i]
      <3>1. DOMAIN << >> = {} /\ 1..0 = {}
        OBVIOUS
      <3>2. at \in [DOMAIN << >> -> 1..0] /\ {at[i] : i \in DOMAIN << >>} = {}
        BY <3>1
      <3>3. {k \in 1..0 : Readable(asked[k], mgc)} = {}
        BY <3>1
      <3> QED
        BY <3>1, <3>2, <3>3 DEF LoadedInOrder
    <2>5. << >> # NULL
      <3>1. << >> \in Seq(Entries)
        OBVIOUS
      <3> QED
        BY <3>1, NullAssumption
    <2>6. UnderWay'
      BY <1>1, <2>1, <2>2, <2>3, <2>4, <2>5 DEF UnderWay, LoadedSoFar
    <2>7. call' # Idle
      BY <1>3, <2>1, NoCall
    <2>8. Reported' /\ LoadedAsAsked' /\ FailureExplained'
      BY <2>7 DEF Reported, LoadedAsAsked, FailureExplained, Ended
    <2> QED
      BY <1>2, <2>6, <2>8 DEF LoadInv
  <1>4. ASSUME NEW kept \in BOOLEAN, kept \/ mlist'[1] = NULL, had' = TRUE,
               Return([c EXCEPT !.fault = TRUE], -1, kept)
        PROVE  LoadInv'
    <2>1. call' = Idle /\ last'.rv = -1 /\ last'.kept = kept
      BY <1>4 DEF Return
    <2>2. UnderWay'
      BY <2>1, ConstantFacts DEF UnderWay, Active, Idle
    <2>3. Reported' /\ LoadedAsAsked' /\ FailureExplained'
      BY <1>4, <2>1 DEF Reported, LoadedAsAsked, FailureExplained
    <2> QED
      BY <1>2, <2>2, <2>3 DEF LoadInv
  <1>5. FreeFirst \/ FreeAll => mlist'[1] = NULL
    BY FreedDatabase DEF Inv
  <1> QED
    BY <1>3, <1>4, <1>5 DEF Start

LEMMA IdleLoadInv ==
  ASSUME Inv, LoadInv, Identify \/ GetError \/ SetFlags
  PROVE  LoadInv'
  <1>1. call = Idle /\ UNCHANGED <<database, magwarn, call, last, mgc>>
    BY DEF Identify, GetError, SetFlags
  <1>2. mlist' = mlist /\ call' = call /\ last' = last /\ magwarn' = magwarn /\ mgc' = mgc
    BY <1>1 DEF database
  <1>3. UnderWay'
    BY <1>1, <1>2, ConstantFacts DEF UnderWay, Active, Idle
  <1>4. WholeFiles' /\ Reported' /\ LoadedAsAsked'
    BY <1>2 DEF LoadInv, WholeFiles, Reported, LoadedAsAsked, Ended
  <1>5. UsesReportedDatabase'
    BY <1>1, <1>2 DEF LoadInv, UsesReportedDatabase, Reported, Identify, GetError, SetFlags
  <1>6. FailureExplained'
    BY <1>1, <1>2 DEF LoadInv, FailureExplained, Identify, GetError, SetFlags, Ended, error, Raise
  <1> QED
    BY <1>3, <1>4, <1>5, <1>6 DEF LoadInv

LEMMA StutterLoadInv ==
  ASSUME LoadInv, UNCHANGED vars
  PROVE  LoadInv'
  BY DEF vars, database, error, LoadInv, UnderWay, WholeFiles, Reported, LoadedAsAsked,
         UsesReportedDatabase, FailureExplained, Ended, Active

LEMMA NextLoadInv ==
  ASSUME Inv, LoadInv, [Next]_vars
  PROVE  LoadInv'
  <1>1. CASE Load
    <2>1. /\ PathLists \subseteq Names
          /\ \A p \in Paths : <<p>> \in Names
      BY HandleAssumption DEF Names
    <2> QED
      BY <1>1, <2>1, StartLoadInv DEF Load
  <1>2. CASE Gone
    BY <1>2, StutterLoadInv DEF Gone
  <1> QED
    BY <1>1, <1>2, ReadLoadInv, CompileLoadInv, FinishLoadInv, IdleLoadInv, StutterLoadInv DEF Next

LEMMA InitLoadInv == ASSUME Init PROVE LoadInv
  <1>1. call = Idle /\ mlist[1] = NULL /\ last.action = "none" /\ ret = "none" /\ mgc = Compiled
    BY DEF Init
  <1>2. UnderWay
    BY <1>1, ConstantFacts DEF UnderWay, Active, Idle
  <1>3. WholeFiles
    BY <1>1, HandleAssumption DEF WholeFiles
  <1> QED
    BY <1>1, <1>2, <1>3 DEF LoadInv, Reported, LoadedAsAsked, UsesReportedDatabase,
                            FailureExplained, Ended

LEMMA LoadInvariance == Spec => []LoadInv
  <1>1. Init => Inv /\ LoadInv
    BY InitInv, InitLoadInv
  <1>2. Inv /\ LoadInv /\ [Next]_vars => (Inv /\ LoadInv)'
    BY NextInv, NextLoadInv
  <1> QED
    BY <1>1, <1>2, PTL DEF Spec

-----------------------------------------------------------------------------
\* Every state is well typed, whatever paths are loaded and whatever fails; in
\* particular a call that has added a map to the database will report success.
THEOREM TypeCorrect == Spec => []TypeOK
  <1>1. Inv => TypeOK
    BY DEF Inv
  <1> QED
    BY <1>1, Invariance, PTL

\* Between any two allocations of file_apprentice, and after every failure, the two
\* lists hold the same maps, none of them freed and none lost.
THEOREM DatabaseWhole == Spec => []ListsWhole
  <1>1. Inv => ListsWhole
    BY DEF Inv, Whole, ListsWhole
  <1> QED
    BY <1>1, Invariance, PTL
\* A load or a check that meets no failure, and reports success, leaves the rules of
\* exactly the files that can be read, in the order of the list as far as its first
\* empty name, whatever the handle had loaded before.
THEOREM LoadsWhatIsAsked == Spec => []LoadedAsAsked
  <1>1. LoadInv => LoadedAsAsked
    BY DEF LoadInv
  <1> QED
    BY <1>1, LoadInvariance, PTL

\* magic_file and magic_buffer give a text only from a database whose load reported
\* success, or from one that a call without memory had to leave in place.
THEOREM ReportedUsed == Spec => []UsesReportedDatabase
  <1>1. LoadInv => UsesReportedDatabase
    BY DEF LoadInv
  <1> QED
    BY <1>1, LoadInvariance, PTL

\* After every failed load, check or compile there is an error to fetch.
THEOREM FailuresHaveErrors == Spec => []FailureExplained
  <1>1. LoadInv => FailureExplained
    BY DEF LoadInv
  <1> QED
    BY <1>1, LoadInvariance, PTL
=============================================================================
