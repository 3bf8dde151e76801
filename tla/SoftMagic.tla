------------------------------ MODULE SoftMagic ------------------------------
(***************************************************************************)
(* The rule interpreter of libmagic (magic/softmagic.c): file_softmagic    *)
(* walks the lists of a loaded database and match() walks one list of      *)
(* rules.  A rule of level 0 opens a group; the rules of higher levels that *)
(* follow it are its continuations, arranged as a tree by their levels.    *)
(* FILE_USE and FILE_INDIRECT rules call match() again, so its activations *)
(* form a stack that shares the level table ms->c.li, the output buffer,   *)
(* the counters and the print flags.                                       *)
(*                                                                         *)
(* What a rule reads from the file is abstracted to the verdicts that the  *)
(* interpreter tells apart; every combination of verdicts is explored.     *)
(***************************************************************************)
EXTENDS Integers, Sequences, FiniteSets

CONSTANTS
  Setups,      \* calls of file_softmagic, [db, flags, buf]: the loaded database
               \* [lists: Seq of lists of rules, names: named lists], the settings
               \* [continue, nodesc, annotate: BOOLEAN] and what is examined
  MaxLevel,    \* no rule of a database has a greater level
  IndirMax,    \* MAGIC_PARAM_INDIR_MAX: indirect rules that one call may follow
  NameMax      \* MAGIC_PARAM_NAME_MAX: depth of nested use rules

Types == {"test", "default", "clear", "use", "indirect", "name"}

\* struct magic, as far as the interpreter tells rules apart: cont_level, type,
\* whether the mode and text filters select it (only rules of level 0 carry the
\* mode flags), OFFNEGATIVE, OFFADD, reln = '!', cond, a non-empty description,
\* a MIME type or other annotation and, for a use rule, the name it calls.
Rule == [level : 0..MaxLevel, type : Types, selected : BOOLEAN, negative : BOOLEAN,
         add : BOOLEAN, inverted : BOOLEAN, cond : {"none", "if", "elif", "else"},
         desc : BOOLEAN, annotated : BOOLEAN, name : STRING]

ASSUME ParamsAssumption == /\ MaxLevel \in Nat \ {0}
                           /\ IndirMax \in Nat
                           /\ NameMax \in Nat

ASSUME SetupsAssumption ==
  \A s \in Setups :
    /\ s.db.lists # << >> /\ s.db.lists \in Seq(Seq(Rule))
    /\ \A n \in DOMAIN s.db.names : s.db.names[n] \in Seq(Rule)
    /\ s.flags \in [continue : BOOLEAN, nodesc : BOOLEAN, annotate : BOOLEAN]
    /\ s.flags.annotate => s.flags.nodesc          \* MAGIC_NODESC in magic.h
    /\ s.buf \in {"mem", "file", "device"}

\* What the parser lets through: a list begins with a group, only the rule that opens
\* a group has the mode flags of set_test_type, and only such a rule is a "name".
Grouped(rules) ==
  \A k \in DOMAIN rules :
    rules[k].level > 0 => k # 1 /\ ~rules[k].selected /\ rules[k].type # "name"

ASSUME GroupsAssumption ==
  \A s \in Setups : /\ \A n \in DOMAIN s.db.lists : Grouped(s.db.lists[n])
                    /\ \A n \in DOMAIN s.db.names : Grouped(s.db.names[n])

VARIABLES
  db, flags, buf,   \* chosen at the start of the call, then constant
  stack,            \* the activations of match(), the running one last
  li,               \* ms->c.li, the per-level state they share
  print,            \* the output buffer and the print state they share
  count,            \* *indir_count and *name_count
  err,              \* EVENT_HAD_ERR
  rv,               \* file_softmagic's rv: did a list match already?
  result            \* the value file_softmagic returns, Running before that

vars == <<db, flags, buf, stack, li, print, count, err, rv, result>>

Running == 2
Levels == 0..(MaxLevel + 1)

-----------------------------------------------------------------------------
\* One activation of match().  status is what became of each rule of its list.
Frame(via, rules, list, nonzero) ==
  [via |-> via, rules |-> rules, list |-> list, nonzero |-> nonzero,
   magindex |-> 0, cont_level |-> 0, found_match |-> FALSE, returnval |-> 0,
   return |-> Running, status |-> [k \in DOMAIN rules |-> "unseen"],
   clobbered |-> FALSE, saved_li |-> << >>, saved_out |-> << >>]

\* file_check_mem: level l of the table starts afresh, its offset apart.
CheckMem(table, l) == [table EXCEPT ![l].got_match = FALSE, ![l].last_match = FALSE]

Depth == Len(stack)
Top == stack[Depth]
Below == SubSeq(stack, 1, Depth - 1)

HasContinuation(f) == /\ f.magindex < Len(f.rules)
                      /\ f.rules[f.magindex + 1].level # 0

\* A continuation of a level above the current one is passed over.
HiddenOffByOne(f, level) == level > f.cont_level + 1
Hidden(f, level) == level > f.cont_level

\* flush: skip the continuations that follow and go on with the next group.
Flush(f) ==
  LET past == {k \in f.magindex..Len(f.rules) :
                 \A j \in (f.magindex + 1)..k : f.rules[j].level # 0}
  IN [f EXCEPT !.magindex = CHOOSE k \in past : \A j \in past : j <= k,
               !.cont_level = 0]

Mark(f, s) == [f EXCEPT !.status[f.magindex] = s]

\* file_printf prints nothing once an error is recorded.  Separator stands for
\* the mark between matches, n > 0 for a text printed while the n-th group of
\* the outermost activation was examined, Null for printf's text of a NULL.
Separator == 0
Null == -1
Emit(p, token) == IF err THEN p ELSE [p EXCEPT !.out = Append(@, token)]
Text(p) == Emit(p, p.group)
PrintSepFirst(p) == IF p.firstline THEN Emit(p, Separator) ELSE p
PrintSep(p) == IF p.firstline THEN p ELSE Emit(p, Separator)

\* msetoffset: where the rule looks.  "badsize" when the end of the input is
\* asked for and the input has none, "error" inside a use with an offset, "far"
\* when the file is shorter than the distance from its end.
SetOffset(f, e) ==
  IF ~e.negative \/ (f.cont_level > 0 /\ e.add) THEN {"ok"}
  ELSE IF buf = "device" THEN {"badsize"}
  ELSE IF f.nonzero THEN {"error"}
  ELSE IF buf = "mem" THEN {"ok"} ELSE {"ok", "far"}

\* mget and magiccheck for a rule that calls nobody: it may lie outside of the
\* input, not match, match, or fail.
Verdicts(e) == CASE e.type = "test" -> {"oob", "miss", "hit", "fail"}
                 [] e.type \in {"default", "clear"} -> {"oob", "hit"}
                 [] e.type \in {"use", "indirect"} -> {"oob"}
                 [] e.type = "name" -> {"hit"}

\* moffset: can the end of what a rule of the d-th activation matched lie inside of the
\* input, and outside of it?  Where a list was called, and in a name rule, it lies inside.
Moves(e, d) == IF e.type = "name" \/ d < Depth THEN {TRUE} ELSE {TRUE, FALSE}

-----------------------------------------------------------------------------
Init ==
  /\ \E s \in Setups : db = s.db /\ flags = s.flags /\ buf = s.buf
  /\ stack = <<Frame("top", db.lists[1], 1, FALSE)>>
  /\ li = [l \in Levels |-> [off |-> <<0, 0>>, got_match |-> FALSE, last_match |-> FALSE]]
  /\ print = [out |-> << >>, printed |-> FALSE, firstline |-> TRUE, group |-> 0,
              flushed |-> FALSE]
  /\ count = [indir |-> 0, name |-> 0]
  /\ err = FALSE
  /\ rv = 0
  /\ result = Running

\* The activation at depth d becomes f; those above it have returned.
Become(d, f) == stack' = Append(SubSeq(stack, 1, d - 1), f)

Matched(e, verdict) == verdict = "hit" \/ (verdict = "oob" /\ e.inverted)
Annotates(e) == flags.annotate /\ e.annotated
Describes(e) == e.desc /\ ~flags.nodesc

\* handle_annotation: print the annotation instead of the description, and
\* return from match() at once.
Annotate(d, f, p, table) ==
  /\ Become(d, [Mark(f, "open") EXCEPT !.found_match = TRUE, !.returnval = 1,
                                       !.return = 1])
  /\ print' = [IF p.firstline \/ flags.continue THEN Text(PrintSep(p)) ELSE p
               EXCEPT !.printed = TRUE, !.firstline = FALSE]
  /\ li' = table

\* mprint: use, indirect and name rules print nothing here.
PrintDesc(e, p) == IF e.type \in {"use", "indirect", "name"} THEN p ELSE Text(p)

DescribeTests(f, e) == [f EXCEPT !.found_match = @ \/ e.desc,
                                 !.returnval = IF Describes(e) /\ e.type = "test" THEN 1 ELSE @]
DescribeAlways(f, e) == [f EXCEPT !.found_match = @ \/ e.desc,
                                  !.returnval = IF e.desc THEN 1 ELSE @]
Describe(f, e) == [f EXCEPT !.found_match = @ \/ e.desc,
                            !.returnval = IF Describes(e) THEN 1 ELSE @]

\* What match() does with the verdict on a rule of level 0.
SettleGroup(d, f, p, table, verdict) ==
  LET e == f.rules[f.magindex]
      g == Describe(f, e)
      p1 == IF Describes(e)
            THEN PrintDesc(e, PrintSep([p EXCEPT !.printed = TRUE])) ELSE p
  IN \/ /\ ~Matched(e, verdict)
        /\ Become(d, Flush(Mark(f, verdict)))
        /\ print' = p /\ li' = table
     \/ /\ Matched(e, verdict) /\ Annotates(e)
        /\ Annotate(d, f, p, table)
     \/ /\ Matched(e, verdict) /\ ~Annotates(e)
        /\ \E moves \in Moves(e, d) :
             IF moves
             THEN /\ Become(d, [Mark(g, "open") EXCEPT !.cont_level = 1])
                  /\ li' = CheckMem([table EXCEPT ![0].off = <<d, f.magindex>>], 1)
                  /\ print' = p1
             ELSE /\ Become(d, Flush(Mark(g, "bad")))
                  /\ li' = table
                  /\ print' = [p1 EXCEPT !.flushed = @ \/ g.found_match]

\* The level table once the continuation e of level l matched: a clear rule lets
\* the defaults after it apply again.
RecordMatchOnly(table, l, e) == [table EXCEPT ![l].last_match = TRUE]
RecordMatch(table, l, e) ==
  [table EXCEPT ![l].last_match = TRUE, ![l].got_match = e.type # "clear"]

\* What it does with the verdict on a continuation.
SettleContinuation(d, f, p, table, verdict) ==
  LET e == f.rules[f.magindex]
      l == f.cont_level
      muted == e.type = "default" /\ table[l].got_match
      yes == RecordMatch(table, l, e)
      g == Describe(f, e)
      p1 == IF p.printed THEN p ELSE PrintSep([p EXCEPT !.printed = TRUE])
  IN \/ /\ verdict = "oob" /\ ~e.inverted
        /\ Become(d, Mark(f, "oob"))
        /\ print' = p /\ li' = table
     \/ /\ verdict = "miss"
        /\ Become(d, Mark(f, "miss"))
        /\ print' = p /\ li' = [table EXCEPT ![l].last_match = FALSE]
     \/ /\ Matched(e, verdict) /\ muted
        /\ Become(d, Mark(f, "mute"))
        /\ print' = p /\ li' = yes
     \/ /\ Matched(e, verdict) /\ ~muted /\ Annotates(e)
        /\ Annotate(d, f, p, yes)
     \/ /\ Matched(e, verdict) /\ ~muted /\ ~Annotates(e)
        /\ print' = IF Describes(e) THEN PrintDesc(e, p1) ELSE p
        /\ \E moves \in Moves(e, d) :
             IF moves
             THEN /\ Become(d, [Mark(g, "open") EXCEPT !.cont_level = l + 1])
                  /\ li' = CheckMem([yes EXCEPT ![l].off = <<d, f.magindex>>], l + 1)
             ELSE /\ Become(d, Mark(g, "bad"))
                  /\ li' = CheckMem(yes, l)

Settle(d, f, p, table, verdict) ==
  \/ f.cont_level = 0 /\ SettleGroup(d, f, p, table, verdict)
  \/ f.cont_level > 0 /\ SettleContinuation(d, f, p, table, verdict)

-----------------------------------------------------------------------------
\* The `return -1' of mget, magiccheck and the printing functions: with an error, or
\* without one where a regular expression fails or there is no memory for a buffer.
Fail(d, f) == /\ Become(d, [f EXCEPT !.return = -1])
              /\ err' = TRUE
              /\ UNCHANGED <<li, print>>
GiveUp(d, f) == /\ Become(d, [f EXCEPT !.return = -1])
                /\ UNCHANGED <<li, print, err>>

\* mget refuses to go on at the limits, whatever the type of the rule is.
AtLimitLate == count.indir >= IndirMax \/ count.name > NameMax
AtLimitIndirOnly == count.indir >= IndirMax
AtLimit == count.indir >= IndirMax \/ count.name >= NameMax

\* COND_ELSE and COND_ELIF are passed over when the last test at their level matched.
BarredElseOnly(f, e) == f.cont_level > 0 /\ e.cond = "else" /\ li[f.cont_level].last_match
Barred(f, e) == f.cont_level > 0 /\ e.cond \in {"elif", "else"} /\ li[f.cont_level].last_match

Consult(f, p, e) ==
  /\ \E verdict \in Verdicts(e) :
       IF verdict = "fail" THEN Fail(Depth, f) \/ GiveUp(Depth, f)
       ELSE /\ Settle(Depth, f, IF e.type = "name" /\ Describes(e) THEN Text(p) ELSE p,
                      li, verdict)
            /\ UNCHANGED err
  /\ UNCHANGED count

\* FILE_USE: run the named list; the caller's level table is put aside.
CallUse(f, p, e) ==
  IF e.name \notin DOMAIN db.names THEN Fail(Depth, f) /\ UNCHANGED count
  ELSE /\ \E nonzero \in {f.nonzero, TRUE} :
            LET child == [Frame("use", db.names[e.name], 0, nonzero) EXCEPT
                            !.returnval = f.returnval, !.saved_li = li]
            IN stack' = Below \o <<f, child>>
       /\ li' = CheckMem(li, 0)
       /\ print' = p
       /\ count' = [count EXCEPT !.name = @ + 1]
       /\ UNCHANGED err

\* FILE_INDIRECT: run the whole database on the rest of the input, printing to
\* a buffer of its own, which there may be no memory for and which an error denies.
\* The level table is shared, not put aside.
CallIndirect(f, p) ==
  \/ GiveUp(Depth, f) /\ UNCHANGED count
  \/ /\ ~err
     /\ stack' = Below \o <<[f EXCEPT !.clobbered = TRUE],
                            [Frame("indirect", db.lists[1], 1, FALSE) EXCEPT
                               !.saved_out = p.out]>>
     /\ li' = CheckMem(li, 0)
     /\ print' = [p EXCEPT !.out = << >>]
     /\ count' = [count EXCEPT !.indir = @ + 1]
     /\ UNCHANGED err

\* msetoffset, then the condition, then mget, on the rule f stands on.
Evaluate(f, p) ==
  LET e == f.rules[f.magindex]
  IN \E where \in SetOffset(f, e) :
       \/ /\ where = "ok" /\ Barred(f, e)
          /\ Become(Depth, Mark(f, "barred"))
          /\ UNCHANGED <<li, print, count, err>>
       \/ /\ where = "ok" /\ ~Barred(f, e) /\ AtLimit
          /\ Fail(Depth, f)
          /\ UNCHANGED count
       \/ /\ where = "ok" /\ ~Barred(f, e) /\ ~AtLimit
          /\ \/ Consult(f, p, e)
             \/ e.type = "use" /\ CallUse(f, p, e)
             \/ e.type = "indirect" /\ CallIndirect(f, p)
       \/ /\ where = "badsize"
          /\ Become(Depth, f)
          /\ print' = p
          /\ UNCHANGED <<li, count, err>>
       \/ /\ where \in {"far", "error"}
          /\ Become(Depth, Flush(f))
          /\ err' = (err \/ where = "error")
          /\ print' = [p EXCEPT !.flushed = @ \/ f.found_match]
          /\ UNCHANGED <<li, count>>

-----------------------------------------------------------------------------
\* The steps of the running activation.
Active == result = Running /\ Top.return = Running
Advance == [Top EXCEPT !.magindex = @ + 1]
Call == UNCHANGED <<db, flags, buf, rv, result>>

\* The for loop of match(): the next rule of level 0, if its filters select it.
NextGroup ==
  /\ Active /\ Top.cont_level = 0 /\ Top.magindex < Len(Top.rules)
  /\ LET f == Advance
         e == f.rules[f.magindex]
     IN IF e.selected \/ e.type = "name"
        THEN Evaluate(f, IF Depth = 1 THEN [print EXCEPT !.group = @ + 1] ELSE print)
        ELSE Become(Depth, Flush(f)) /\ UNCHANGED <<li, print, count, err>>
  /\ Call

\* The while loop: the next continuation, unless it lies below one that failed.
NextContinuation ==
  /\ Active /\ Top.cont_level > 0 /\ HasContinuation(Top)
  /\ LET f == Advance
         level == f.rules[f.magindex].level
     IN IF Hidden(f, level)
        THEN Become(Depth, Mark(f, "skipped")) /\ UNCHANGED <<li, print, count, err>>
        ELSE Evaluate([f EXCEPT !.cont_level = level], print)
  /\ Call

\* The end of a group: return if something was found, unless MAGIC_CONTINUE.
StopsHereNever(f) == FALSE
StopsHere(f) == f.found_match /\ ~flags.continue
CloseGroupOpen(f) == [f EXCEPT !.return = IF StopsHere(f) THEN f.returnval ELSE Running]
CloseGroup(f) == [f EXCEPT !.cont_level = 0,
                           !.return = IF StopsHere(f) THEN f.returnval ELSE Running]
EndGroup ==
  /\ Active /\ Top.cont_level > 0 /\ ~HasContinuation(Top)
  /\ Become(Depth, CloseGroup(Top))
  /\ LET again == Top.found_match /\ flags.continue
     IN print' = [print EXCEPT !.firstline = @ /\ ~print.printed /\ ~again,
                               !.printed = @ /\ ~again]
  /\ UNCHANGED <<li, count, err>> /\ Call

EndList ==
  /\ Active /\ Top.cont_level = 0 /\ Top.magindex = Len(Top.rules)
  /\ Become(Depth, [Top EXCEPT !.return = Top.returnval])
  /\ UNCHANGED <<li, print, count, err>> /\ Call

Returned == result = Running /\ Top.return # Running
Caller == stack[Depth - 1]

\* restore_cont: the level table save_cont put aside when the use began.
RestoreContNot(f) == li
RestoreCont(f) == f.saved_li

\* file_softmagic takes the value of match(): the first list that matches ends
\* the call, unless MAGIC_CONTINUE.
ReturnToSoftmagic ==
  /\ Returned /\ Top.via = "top"
  /\ rv' = IF Top.return = 0 THEN rv ELSE Top.return
  /\ IF Top.return = -1 \/ (Top.return = 1 /\ ~flags.continue) \/ Top.list = Len(db.lists)
     THEN result' = rv' /\ UNCHANGED <<stack, li>>
     ELSE /\ stack' = <<Frame("top", db.lists[Top.list + 1], Top.list + 1, FALSE)>>
          /\ li' = CheckMem(li, 0)
          /\ UNCHANGED result
  /\ UNCHANGED <<db, flags, buf, print, count, err>>

\* The rest of FILE_USE in mget: the caller's level table comes back, and the
\* rule matched if the named list found something.
ReturnFromUse ==
  /\ Returned /\ Top.via = "use"
  /\ count' = [count EXCEPT !.name = @ - 1]
  /\ LET f == [Caller EXCEPT !.found_match = @ \/ Top.found_match,
                             !.returnval = Top.returnval]
     IN IF Top.return = -1
        THEN /\ Become(Depth - 1, [f EXCEPT !.return = -1])
             /\ li' = RestoreCont(Top)
             /\ UNCHANGED print
        ELSE Settle(Depth - 1, f, print, RestoreCont(Top),
                    IF Top.return = 0 /\ ~f.found_match THEN "oob"
                    ELSE IF Top.found_match THEN "hit" ELSE "miss")
  /\ UNCHANGED err /\ Call

\* The rest of FILE_INDIRECT: the next list until one matches, then the text the
\* lists printed is appended to the caller's buffer, which comes back unless there
\* was an error.
ReturnFromIndirect ==
  /\ Returned /\ Top.via = "indirect"
  /\ \/ /\ Top.return = 0 /\ Top.list < Len(db.lists)
        /\ Become(Depth, [Frame("indirect", db.lists[Top.list + 1], Top.list + 1, FALSE)
                            EXCEPT !.saved_out = Top.saved_out])
        /\ li' = CheckMem(li, 0)
        /\ UNCHANGED <<print, err>>
     \/ /\ Top.return = 0 /\ Top.list = Len(db.lists) /\ ~err
        /\ Settle(Depth - 1, Caller, [print EXCEPT !.out = Top.saved_out], li, "oob")
        /\ UNCHANGED err
     \/ /\ Top.return = 1 /\ ~err
        /\ LET f == [Caller EXCEPT !.found_match = TRUE, !.returnval = 1]
               p == [print EXCEPT !.out = Top.saved_out]
               inner == IF print.out = << >> THEN <<Null>> ELSE print.out
           IN Settle(Depth - 1, f,
                     [(IF Describes(f.rules[f.magindex]) THEN Text(p) ELSE p)
                        EXCEPT !.out = @ \o inner],
                     li, "hit")
        /\ UNCHANGED err
     \/ /\ Top.return = -1 \/ (err /\ (Top.return = 1 \/ Top.list = Len(db.lists)))
        /\ Become(Depth - 1, [Caller EXCEPT !.return = -1])
        /\ print' = IF err THEN print ELSE [print EXCEPT !.out = Top.saved_out]
        /\ UNCHANGED <<li, err>>
  /\ UNCHANGED count /\ Call

Done == result # Running /\ UNCHANGED vars

Next == \/ NextGroup \/ NextContinuation \/ EndGroup \/ EndList
        \/ ReturnToSoftmagic \/ ReturnFromUse \/ ReturnFromIndirect
        \/ Done

\* match() is a plain loop in one thread: it never stops half-way.
Spec == Init /\ [][Next]_vars /\ WF_vars(Next)

-----------------------------------------------------------------------------
\* Properties.

Statuses == {"unseen", "skipped", "barred", "oob", "miss", "mute", "bad", "open"}

FrameOK(f) ==
  /\ f.via \in {"top", "use", "indirect"}
  /\ f.rules \in Seq(Rule)
  /\ f.magindex \in 0..Len(f.rules)
  /\ f.cont_level \in Levels
  /\ f.return \in {-1, 0, 1, Running}
  /\ f.returnval \in {0, 1}
  /\ f.found_match \in BOOLEAN /\ f.clobbered \in BOOLEAN
  /\ f.status \in [DOMAIN f.rules -> Statuses]

\* The types of the state; every activation stands inside of its list.
TypeOK ==
  /\ stack # << >>
  /\ \A d \in DOMAIN stack : FrameOK(stack[d])
  /\ DOMAIN li = Levels
  /\ \A l \in Levels : li[l].got_match \in BOOLEAN /\ li[l].last_match \in BOOLEAN
  /\ count \in [indir : 0..IndirMax, name : 0..NameMax]
  /\ err \in BOOLEAN
  /\ rv \in {-1, 0, 1}
  /\ result \in {-1, 0, 1, Running}

\* *name_count is the number of use rules being followed (the decrement of each
\* return matches its increment), *indir_count covers the indirect ones, and the
\* nesting of match() is bounded whatever the database says, cycles included.
UseFrames == {d \in DOMAIN stack : stack[d].via = "use"}
IndirectFrames == {d \in DOMAIN stack : stack[d].via = "indirect"}
RecursionBounded ==
  /\ count.name = Cardinality(UseFrames)
  /\ Cardinality(IndirectFrames) <= count.indir
  /\ Depth <= 1 + NameMax + IndirMax

\* The tree of a list: the parent of a continuation is the nearest rule before
\* it of a lower level.
Parent(rules, k) ==
  CHOOSE j \in 1..(k - 1) :
    /\ rules[j].level < rules[k].level
    /\ \A m \in (j + 1)..(k - 1) : rules[m].level >= rules[k].level

Siblings(rules, k) ==
  {j \in 1..(k - 1) : /\ rules[j].level = rules[k].level
                      /\ \A m \in j..k : rules[m].level >= rules[k].level}

Continuations(f) == {k \in 1..f.magindex : f.rules[k].level > 0}

\* The per-level bookkeeping realises the tree: a continuation is examined when
\* its parent matched and only then.  (One whose level exceeds its parent's by
\* more than one, which the parser only warns of, is never examined.)
ContinuationsFollowParents ==
  \A d \in DOMAIN stack :
    LET f == stack[d] IN
    \A k \in Continuations(f) :
      LET parent == Parent(f.rules, k)
          examined == f.status[k] \notin {"unseen", "skipped"}
      IN /\ examined => f.status[parent] = "open"
         /\ f.status[k] = "skipped" => \/ f.status[parent] # "open"
                                       \/ f.rules[k].level > f.rules[parent].level + 1

\* A continuation about to be examined with an offset relative to its parent
\* (OFFADD) finds the offset its own parent left in the level table, not one of
\* an earlier sibling, of another group or of a list called by use.
RelativeToParent ==
  Active /\ Top.cont_level > 0 /\ HasContinuation(Top) /\ ~Top.clobbered =>
    LET k == Top.magindex + 1
        l == Top.rules[k].level
    IN l <= Top.cont_level =>
         li[l - 1].off = <<Depth, Parent(Top.rules, k)>>

\* A default continuation applies only when no sibling before it matched, unless
\* a clear rule, or a sibling whose match ends outside of the input, came between.
DefaultIsLastResort ==
  \A d \in DOMAIN stack :
    LET f == stack[d] IN
    \A k \in Continuations(f) :
      f.rules[k].type = "default" /\ f.status[k] = "open" /\ ~f.clobbered =>
        \A j \in Siblings(f.rules, k) :
          f.status[j] = "open" /\ f.rules[j].type # "clear" =>
            \E m \in Siblings(f.rules, k) :
              m > j /\ \/ f.status[m] = "bad"
                       \/ f.rules[m].type = "clear" /\ f.status[m] = "open"

\* Of an if and the elif and else that follow it at its level, at most one
\* applies; and when the if is examined and does not match, the next is
\* examined.
Chained(rules, j, k) ==
  /\ j \in Siblings(rules, k)
  /\ rules[j].cond \in {"if", "elif"}
  /\ \A m \in Siblings(rules, k) \cup {k} : m > j => rules[m].cond \in {"elif", "else"}

OneBranchApplies ==
  \A d \in DOMAIN stack :
    LET f == stack[d] IN
    \A k \in Continuations(f) : \A j \in Siblings(f.rules, k) :
      Chained(f.rules, j, k) /\ ~f.clobbered =>
        /\ ~ /\ f.status[j] \in {"open", "mute"}
             /\ f.status[k] \in {"open", "mute", "bad"}
        /\ ~ /\ f.status[j] = "miss"
             /\ f.status[k] = "barred"
             /\ \A m \in Siblings(f.rules, k) : m <= j

Texts == {n \in 1..print.group : \E k \in DOMAIN print.out : print.out[k] = n}

\* Without MAGIC_CONTINUE only one group describes the input, unless the
\* interpreter went to flush after that group had found something.
OneGroupDescribes ==
  ~flags.continue /\ ~print.flushed => Cardinality(Texts) <= 1

\* What the comment of match() promises: it stops at the first match, always.
StopsAtFirstMatch == ~flags.continue => Cardinality(Texts) <= 1

\* mget prints the description of an indirect and of a name rule by itself, before
\* match() has asked for the separator.
CallsQuiet(rules) ==
  \A k \in DOMAIN rules : rules[k].desc => rules[k].type \notin {"indirect", "name"}

\* mprint prints nothing for a rule that calls a list, as the list has printed; it has
\* not when the rule is inverted.
CallsSpeak(rules) ==
  \A k \in DOMAIN rules :
    rules[k].desc /\ rules[k].inverted => rules[k].type \notin {"use", "indirect"}

QuietCalls == \/ flags.nodesc
              \/ /\ \A n \in DOMAIN db.lists : CallsQuiet(db.lists[n])
                 /\ \A n \in DOMAIN db.names : CallsQuiet(db.names[n])
SpeakingCalls == \/ flags.nodesc
                 \/ /\ \A n \in DOMAIN db.lists : CallsSpeak(db.lists[n])
                    /\ \A n \in DOMAIN db.names : CallsSpeak(db.names[n])

\* With MAGIC_CONTINUE a separator stands between what two groups print, if no
\* rule that calls another list has a description.
MatchesSeparated ==
  flags.continue /\ ~print.flushed /\ QuietCalls =>
    \A k \in DOMAIN print.out : \A j \in 1..(k - 1) :
      print.out[j] > 0 /\ print.out[k] > print.out[j] =>
        \E m \in j..k : print.out[m] = Separator

\* The value and the output agree, with every setting of the flags: file_buffer
\* goes on to other tests, and prints their answer too, only when the rules
\* printed nothing, and stops only when they printed something (which takes that no
\* inverted rule that calls a list has a description).
ValueReflectsOutput ==
  /\ result = 0 => print.out = << >>
  /\ result = 1 /\ ~err /\ SpeakingCalls => print.out # << >>

\* Without annotations an indirect rule that matched has a text to append, so
\* printf never prints a text that does not exist.
NoNullText ==
  ~flags.annotate /\ SpeakingCalls => \A k \in DOMAIN print.out : print.out[k] # Null

\* Whatever the database, the call returns.
Terminates == <>(result # Running)
=============================================================================
