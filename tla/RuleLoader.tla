----------------------------- MODULE RuleLoader -----------------------------
(***************************************************************************)
(* Loading a text of rules: load_1 (from a file) and load_from_buffer read  *)
(* lines, parse() turns a line into a rule of the pending group, addentry() *)
(* files a finished group in one of two sets, and apprentice_load orders    *)
(* the groups of each set and stores them as one array of rules             *)
(* (magic/apprentice.c).  Several handles may load at the same time: each    *)
(* has its own level table ms->c.li, but the level of the last line parsed   *)
(* is a static variable of parse(), shared by the whole process, and parse() *)
(* enlarges the level table only where that variable tells it to.            *)
(***************************************************************************)
EXTENDS RuleOrder

CONSTANTS
  Handles,       \* the handles of the process
  Texts,         \* the rule texts that may be loaded: sequences of lines
  Sources,       \* how: a subset of {"file", "buffer"}
  Levels,        \* the continuation levels that occur in the texts
  InitialLen,    \* entries of a new handle's level table (10 in the code)
  Slack,         \* entries added beyond the level asked for (20)
  LevelModulus,  \* cont_level of struct magic is 8 bits wide: 256
  WarnMax,       \* MAGIC_PARAM_MAGWARN_MAX
  Oom,           \* {FALSE}, or BOOLEAN: may an allocation fail, that of the level table aside?
  MaxLoads       \* bound: loads per handle

Conds == {"none", "if", "elif", "else"}

\* A line: a rule (with its level, its condition, what it tests, whether the rest
\* of it parses), the annotation "!:strength" or another one (with its operand,
\* valid or not), one that is unknown, or nothing to parse.  A line that does not
\* parse may give a warning.
Line == [kind : {"rule", "strength", "bang", "unknown", "blank"}, level : Levels,
         cond : Conds, test : Tests, factor : Factors, valid : BOOLEAN, warns : {0, 1}]

ASSUME LoaderAssumption ==
  /\ Levels \subseteq Nat
  /\ Texts \subseteq Seq(Line)
  /\ InitialLen \in Nat \ {0} /\ Slack \in Nat \ {0} /\ LevelModulus \in Nat \ {0}
  /\ WarnMax \in Nat /\ MaxLoads \in Nat
  /\ Oom \subseteq BOOLEAN

VARIABLES
  last_cont_level,  \* static in parse(): the level of the last line, of any handle
  len,              \* ms->c.len of each handle
  last_cond,        \* ms->c.li[level].last_cond of each handle
  magwarn,          \* ms->magwarn of each handle, never reset
  load,             \* the load in progress, or Idle
  loaded            \* what each load that ended left, latest last

vars == <<last_cont_level, len, last_cond, magwarn, load, loaded>>

Idle == [phase |-> "idle"]
NoSets == [s \in {1, 2} |-> << >>]
Loading(h) == load[h].phase # "idle"

Init ==
  /\ last_cont_level = 0
  /\ len = [h \in Handles |-> InitialLen]
  /\ last_cond = [h \in Handles |-> [l \in Levels |-> "none"]]
  /\ magwarn = [h \in Handles |-> 0]
  /\ load = [h \in Handles |-> Idle]
  /\ loaded = [h \in Handles |-> << >>]

-----------------------------------------------------------------------------
\* The lines that are looked at: load_from_buffer leaves the loop as soon as
\* what it has read reaches the end of the buffer, before it parses the line.
Count(d) == IF d.source = "buffer" THEN Len(d.text) - 1 ELSE Len(d.text)

\* load_1 stops reading once the handle has given too many warnings.
AtEnd(h) == \/ load[h].next > Count(load[h])
            \/ load[h].source = "file" /\ magwarn[h] >= WarnMax

Put(h, d) == load' = [load EXCEPT ![h] = d]

Begin(h) ==
  /\ ~Loading(h) /\ Len(loaded[h]) < MaxLoads
  /\ \E text \in Texts, source \in Sources :
       Put(h, [phase |-> "line", text |-> text, source |-> source, next |-> 1,
               me |-> << >>, sets |-> NoSets, errs |-> 0, lost |-> FALSE])
  /\ UNCHANGED <<last_cont_level, len, last_cond, magwarn, loaded>>

\* file_check_mem on behalf of parse(): entry l exists and starts afresh.
CheckMem(h, l) ==
  /\ len' = [len EXCEPT ![h] = IF l >= @ THEN Slack + l ELSE @]
  /\ last_cond' = [last_cond EXCEPT ![h][l] = "none"]

\* parse() trusts the static variable: a level no deeper than the last needs no check.
NeedsCheckNever(l) == l = 0
NeedsCheck(l) == l = 0 \/ l > last_cont_level

Warn(h, n) == magwarn' = [magwarn EXCEPT ![h] = @ + n]

\* Lines that are not rules.  An annotation belongs to the pending group.
SkipLine(h) ==
  LET d == load[h]
      line == d.text[d.next]
      bad == \/ line.kind = "unknown"
             \/ line.kind \in {"bang", "strength"} /\ d.me = << >>
             \/ line.kind = "bang" /\ ~line.valid
  IN /\ line.kind \in {"unknown", "blank", "bang"} \/ (line.kind = "strength" /\ d.me = << >>)
     /\ Put(h, [d EXCEPT !.next = @ + 1, !.errs = IF bad THEN 1 ELSE @])
     /\ Warn(h, IF line.kind = "bang" /\ d.me # << >> THEN line.warns ELSE 0)

\* parse_strength: the first rule of the group takes the factor, once; a named
\* rule has none.
Strengthened(group, factor) == [group EXCEPT ![1].factor = factor]
TakesFactor(head, line) == head.factor.op = "none" /\ head.test.type # "name" /\ line.valid
ReadStrength(h) ==
  LET d == load[h]
      line == d.text[d.next]
  IN /\ line.kind = "strength" /\ d.me # << >>
     /\ \/ /\ TakesFactor(d.me[1], line)
           /\ Put(h, [d EXCEPT !.next = @ + 1, !.me = Strengthened(@, line.factor)])
           /\ UNCHANGED magwarn
        \/ /\ ~TakesFactor(d.me[1], line)
           /\ Put(h, [d EXCEPT !.next = @ + 1, !.errs = 1])
           /\ Warn(h, 1)

\* A rule: parse() looks at the static variable.
MeetRule(h) ==
  LET line == load[h].text[load[h].next]
  IN /\ line.kind = "rule"
     /\ Put(h, [load[h] EXCEPT !.phase = "parse"])
     /\ IF NeedsCheck(line.level) THEN CheckMem(h, line.level)
                                  ELSE UNCHANGED <<len, last_cond>>

ReadLine(h) ==
  /\ load[h].phase = "line" /\ ~AtEnd(h)
  /\ \/ (SkipLine(h) \/ ReadStrength(h)) /\ UNCHANGED <<len, last_cond>>
     \/ MeetRule(h) /\ UNCHANGED magwarn
  /\ UNCHANGED <<last_cont_level, loaded>>

\* check_cond: which condition may follow the last one of the level.
CondFollowsLoose(last, cond) == cond = "if" => last \in {"none", "elif"}
CondFollows(last, cond) ==
  /\ cond = "if" => last \in {"none", "elif"}
  /\ cond \in {"elif", "else"} => last \in {"if", "elif"}
NextCond(cond) == IF cond = "else" THEN "none" ELSE cond

\* addentry: named rules go to the second set.
SetOfAll(group) == 1
SetOf(group) == IF group[1].test.type = "name" THEN 2 ELSE 1
AddEntryNot(d) == d
AddTo(sets, group) == [sets EXCEPT ![SetOf(group)] = Append(@, group)]
AddEntry(d) == [d EXCEPT !.sets = AddTo(@, d.me), !.me = << >>]

\* The current line as a rule of the group; a level beyond 8 bits wraps.
RuleOfNarrow(d) == LET line == d.text[d.next]
                   IN [line |-> d.next, level |-> line.level % 2,
                       cond |-> line.cond, test |-> line.test, factor |-> NoFactor]
RuleOf(d) == LET line == d.text[d.next]
             IN [line |-> d.next, level |-> line.level % LevelModulus,
                 cond |-> line.cond, test |-> line.test, factor |-> NoFactor]

Jump(d) == d.text[d.next].level - d.me[Len(d.me)].level > 1

\* The rest of parse() once the line has an entry of its own in the group: the
\* condition is checked against the level table; what is malformed may come
\* before it or after.  The entry stays in the group even when this fails.
FinishRule(h, d) ==
  LET line == d.text[d.next]
      jumps == d.me # << >> /\ Jump(d)
  IN \E reached \in {TRUE, line.valid} :
       LET follows == reached /\ CondFollows(last_cond[h][line.level], line.cond)
           warns == IF reached /\ ~follows THEN 1 ELSE line.warns
       IN /\ Put(h, [d EXCEPT !.phase = "line", !.next = @ + 1, !.me = Append(@, RuleOf(d)),
                             !.errs = IF follows /\ line.valid THEN @ ELSE 1])
          /\ last_cond' = IF follows
                            THEN [last_cond EXCEPT ![h][line.level] = NextCond(line.cond)]
                            ELSE last_cond
          /\ Warn(h, IF jumps THEN warns + 1 ELSE warns)

\* return -1 before the line has an entry.
RejectLineInPlace(h) ==
  /\ Put(h, [load[h] EXCEPT !.next = @ + 1, !.errs = 1])
  /\ UNCHANGED last_cond
RejectLine(h) ==
  /\ Put(h, [load[h] EXCEPT !.phase = "line", !.next = @ + 1, !.errs = 1])
  /\ UNCHANGED last_cond

\* A rule of level 0 starts a group.  If one is pending, addentry files it and
\* the line is parsed again; if addentry has no memory, so it is too.
ParseGroup(h) ==
  LET d == load[h] IN
  \/ /\ d.me # << >>
     /\ \E oom \in Oom : Put(h, [(IF oom THEN d ELSE AddEntry(d)) EXCEPT !.phase = "line"])
     /\ UNCHANGED <<last_cond, magwarn>>
  \/ d.me = << >> /\ FinishRule(h, d)
  \/ d.me = << >> /\ TRUE \in Oom /\ RejectLine(h) /\ UNCHANGED magwarn

\* A continuation joins the pending group.
ParseContinuation(h) ==
  LET d == load[h] IN
  \/ /\ d.me # << >>
     /\ \/ FinishRule(h, d)
        \/ TRUE \in Oom /\ RejectLine(h) /\ Warn(h, IF Jump(d) THEN 1 ELSE 0)
  \/ d.me = << >> /\ RejectLine(h) /\ UNCHANGED magwarn

Parse(h) ==
  /\ load[h].phase = "parse"
  /\ LET level == load[h].text[load[h].next].level
     IN /\ last_cont_level' = level
        /\ \/ level = 0 /\ ParseGroup(h)
           \/ level > 0 /\ ParseContinuation(h)
  /\ UNCHANGED <<len, loaded>>

\* apprentice_load: the sets are ordered and stored one after the other, and
\* nothing is kept when the memory for one of them is missing.
NoArrays == << << >>, << >> >>
Ends(h, d, errs, arrays) ==
  loaded' = [loaded EXCEPT ![h] = Append(@, [text |-> d.text, source |-> d.source,
                read |-> d.next - 1, errs |-> errs, lost |-> d.lost, arrays |-> arrays])]
Arrange(h, d) ==
  \E first \in Sorted(d.sets[1]), second \in Sorted(d.sets[2]) :
    \/ /\ Ends(h, d, 0, <<Coalesced(first), Coalesced(second)>>)
       /\ Warn(h, Late(first) + Late(second))
    \/ /\ TRUE \in Oom /\ Ends(h, d, 1, NoArrays)
       /\ \/ first # << >> /\ Warn(h, Late(first))
          \/ second # << >> /\ Warn(h, Late(first) + Late(second))

\* The end of the text: the pending group is filed, or lost without an error
\* when addentry has no memory.  With any error apprentice_load keeps nothing.
Finish(h) ==
  /\ load[h].phase = "line" /\ AtEnd(h)
  /\ \E oom \in Oom :
       LET d == load[h]
           e == IF d.me = << >> THEN d
                ELSE IF oom THEN [d EXCEPT !.lost = TRUE] ELSE AddEntry(d)
       IN \/ d.errs = 0 /\ Arrange(h, e)
          \/ d.errs # 0 /\ Ends(h, e, d.errs, NoArrays) /\ UNCHANGED magwarn
  /\ Put(h, Idle)
  /\ UNCHANGED <<last_cont_level, len, last_cond>>

Step(h) == ReadLine(h) \/ Parse(h) \/ Finish(h)
Done == (\A h \in Handles : ~Loading(h) /\ Len(loaded[h]) = MaxLoads) /\ UNCHANGED vars

\* What the Go layer does: a mutex for each handle, none for the process.
Next == (\E h \in Handles : Begin(h) \/ Step(h)) \/ Done

\* What it would take: one load at a time.
SerialNext ==
  \/ \E h \in Handles : (\A g \in Handles \ {h} : ~Loading(g)) /\ (Begin(h) \/ Step(h))
  \/ Done

Spec == Init /\ [][Next]_vars
SerialSpec == Init /\ [][SerialNext]_vars

\* A load is a loop in one thread, and memory does not stay short for ever.
Files(h) == Parse(h) /\ load[h].me # << >> /\ load'[h].me = << >>
FairSpec == Spec /\ \A h \in Handles : WF_vars(Step(h)) /\ SF_vars(Files(h))

-----------------------------------------------------------------------------
\* Properties.

Rules == [line : Nat \ {0}, level : 0..(LevelModulus - 1), cond : Conds, test : Tests,
          factor : Factors]
Groups == Seq(Seq(Rules))

LoadState == [phase : {"line", "parse"}, text : Texts, source : Sources, next : Nat \ {0},
              me : Seq(Rules), sets : [{1, 2} -> Groups], errs : {0, 1}, lost : BOOLEAN]

\* A load under way stands on a line of its text, a rule while it is parsed.
LoadOK(d) ==
  d # Idle => /\ d.next <= Len(d.text) + 1
              /\ d.phase = "parse" => d.next <= Len(d.text) /\ d.text[d.next].kind = "rule"

\* The types of the state.
TypeOK ==
  /\ last_cont_level \in Levels \cup {0}
  /\ len \in [Handles -> Nat \ {0}]
  /\ last_cond \in [Handles -> [Levels -> Conds]]
  /\ magwarn \in [Handles -> Nat]
  /\ load \in [Handles -> LoadState \cup {Idle}]
  /\ \A h \in Handles : LoadOK(load[h])

\* check_cond indexes the level table with the level of the line: it is inside
\* of the table, although parse() decides from a static variable whether to
\* enlarge it.
LevelInBounds ==
  \A h \in Handles :
    load[h].phase = "parse" =>
      LET level == load[h].text[load[h].next].level
      IN level = 0 \/ load[h].me # << >> => level < len[h]

\* The groups that the interpreter sees in a stored array: it takes each rule of
\* level 0 for the beginning of one.
Starts(array) == {i \in DOMAIN array : array[i].level = 0}
GroupAt(array, i) ==
  LET after == {k \in Starts(array) : k > i} \cup {Len(array) + 1}
  IN SubSeq(array, i, (CHOOSE k \in after : \A m \in after : k <= m) - 1)
StoredGroups(array) == {GroupAt(array, i) : i \in Starts(array)}

\* The groups of a text, as sets of its lines: a rule of level 0 and the rules up
\* to the next one, as far as the text was read.
RuleLines(d) == {n \in 1..d.read : d.text[n].kind = "rule"}
FirstLine(d, n) ==
  CHOOSE k \in RuleLines(d) :
    /\ k <= n /\ d.text[k].level = 0
    /\ \A m \in RuleLines(d) : k < m /\ m <= n => d.text[m].level > 0
LinesFrom(d, k) == {n \in RuleLines(d) : n >= k /\ FirstLine(d, n) = k}
LinesOf(group) == {group[r].line : r \in DOMAIN group}

\* Sorting and storing keeps the groups together: what the interpreter takes for a
\* group has the rules of one group of the text, all of them, in their order, and
\* nothing is stored before the first.
GroupsStayTogether ==
  \A h \in Handles : \A k \in DOMAIN loaded[h] : \A s \in {1, 2} :
    LET d == loaded[h][k]
        array == d.arrays[s]
    IN /\ array # << >> => 1 \in Starts(array)
       /\ \A group \in StoredGroups(array) :
            /\ LinesOf(group) = LinesFrom(d, group[1].line)
            /\ \A r \in 2..Len(group) : group[r - 1].line < group[r].line

\* The matching that the conditions of a loaded group promise the interpreter:
\* the rule before an elif or else at its level, under the same parent, is an if
\* or elif.  (Groups that jump a level, which parse() only warns of, aside.)
Before(group, r) ==
  {q \in 1..(r - 1) : /\ group[q].level = group[r].level
                      /\ \A m \in q..r : group[m].level >= group[r].level}
Jumps(group) == \E r \in 2..Len(group) : group[r].level > group[r - 1].level + 1

ConditionsPaired ==
  \A h \in Handles : \A k \in DOMAIN loaded[h] : \A s \in {1, 2} :
    \A group \in StoredGroups(loaded[h][k].arrays[s]) :
      ~Jumps(group) =>
        \A r \in DOMAIN group :
          group[r].cond \in {"elif", "else"} =>
            \E q \in Before(group, r) :
              /\ \A m \in Before(group, r) : m <= q
              /\ group[q].cond \in {"if", "elif"}

\* A load that reports no error stores every rule of the text once, the named
\* groups in the second set, and every "!:strength" of the text is that of the
\* first rule of its own group.
HasEveryRule(d) ==
  /\ LinesOf(d.arrays[1]) \cup LinesOf(d.arrays[2]) = RuleLines(d)
  /\ Len(d.arrays[1]) + Len(d.arrays[2]) = Cardinality(RuleLines(d))
  /\ \A group \in StoredGroups(d.arrays[1]) : group[1].test.type # "name"
  /\ \A group \in StoredGroups(d.arrays[2]) : group[1].test.type = "name"
  /\ \A n \in 1..d.read :
       d.text[n].kind = "strength" /\ d.text[n].factor.op # "none" =>
         \E s \in {1, 2} : \E r \in DOMAIN d.arrays[s] :
           /\ d.arrays[s][r].line = FirstLine(d, n)
           /\ d.arrays[s][r].factor = d.text[n].factor

\* ... from a file, unless the last addentry had no memory or the warnings the
\* handle gave since it was opened stopped the reading.
FileLoadsEveryRule ==
  \A h \in Handles : \A k \in DOMAIN loaded[h] :
    LET d == loaded[h][k]
    IN d.source = "file" /\ d.errs = 0 /\ ~d.lost /\ d.read = Len(d.text) => HasEveryRule(d)

\* Nothing makes a default rule the weakest of its set: a rule of any relation, or
\* one whose strength an annotation takes away, may be as weak or weaker.  But
\* when another group comes after it, in either set, the handle was warned.
DefaultLastOrWarned ==
  \A h \in Handles : \A k \in DOMAIN loaded[h] : \A s \in {1, 2} :
    LET array == loaded[h][k].arrays[s]
    IN magwarn[h] = 0 =>
         \A i, j \in Starts(array) : array[i].test.type = "default" => j <= i

\* What the comment of load_from_buffer promises: a buffer loads as a file does.
BufferLoadsEveryRule ==
  \A h \in Handles : \A k \in DOMAIN loaded[h] :
    LET d == loaded[h][k]
    IN d.source = "buffer" /\ d.errs = 0 /\ ~d.lost =>
         HasEveryRule([d EXCEPT !.read = Len(d.text)])

\* Every load ends, even when addentry is at times out of memory and the line is
\* parsed again.
LoadsEnd == \A h \in Handles : Loading(h) ~> ~Loading(h)
=============================================================================
