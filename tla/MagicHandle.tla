---------------------------- MODULE MagicHandle ----------------------------
(***************************************************************************)
(* The life of a magic_set as the Go wrapper drives it: magic_load,         *)
(* magic_load_from_buffer, magic_check and magic_compile go through         *)
(* file_apprentice, which frees the database and builds a new one path by   *)
(* path; magic_file and magic_buffer use whatever it left (magic/magic.c,   *)
(* magic/apprentice.c).  The mutex of the handle runs the calls one at a    *)
(* time, so one handle is modelled, with the database files it finds.       *)
(***************************************************************************)
EXTENDS Integers, Sequences, FiniteSets

CONSTANTS
  Paths,      \* the names of magic files, of the working directory (compile strips the rest)
  PathLists,  \* the arguments of load, check and compile, EmptyName where a path is empty
  Text,       \* what each path has as text: "absent", "bad" (an error) or "good"
  Compiled,   \* what it has as compiled file at first: "absent", "bad" or "all"
  Warns,      \* how many warnings its text gives
  WarnMax,    \* MAGIC_PARAM_MAGWARN_MAX
  Faults,     \* {FALSE}, or BOOLEAN: may an allocation or a write fail?
  Actions,    \* a subset of {"load", "buffer", "check", "compile"}
  MaxLoads,   \* bound: calls of file_apprentice
  NULL        \* no list

EmptyName == "empty"

ASSUME HandleAssumption ==
  /\ EmptyName \notin Paths /\ PathLists \subseteq Seq(Paths \cup {EmptyName})
  /\ Text \in [Paths -> {"absent", "bad", "good"}]
  /\ Compiled \in [Paths -> {"absent", "bad", "all"}]
  /\ Warns \in [Paths -> Nat]
  /\ WarnMax \in Nat /\ MaxLoads \in Nat /\ Faults \subseteq BOOLEAN
  /\ Actions \subseteq {"load", "buffer", "check", "compile"}

VARIABLES
  mlist,    \* the two lists of the database: NULL, or the sequence of their entries
  live,     \* the maps that are allocated; an entry of either list points into one
  had,      \* EVENT_HAD_ERR
  buf,      \* ms->o.buf: NULL, an output or an error
  check,    \* MAGIC_CHECK in ms->flags
  magwarn,  \* ms->magwarn, capped at WarnMax
  call,     \* the call of file_apprentice under way, or Idle
  last,     \* how the latest one ended
  loads,    \* how many there were
  ret,      \* what magic_file or magic_buffer returned last since that one
  mgc       \* the compiled file of each path

database == <<mlist, live>>
error == <<had, buf>>
vars == <<database, error, check, magwarn, call, last, loads, ret, mgc>>

Idle == [action |-> "none"]
Crashed == [action |-> "crash"]
Active == call.action \in Actions

Init ==
  /\ mlist = [i \in {1, 2} |-> NULL] /\ live = {}
  /\ had = FALSE /\ buf = "null"
  /\ check \in BOOLEAN /\ magwarn = 0
  /\ call = Idle /\ last = [action |-> "none", rv |-> -1] /\ loads = 0
  /\ ret = "none"
  /\ mgc = Compiled

-----------------------------------------------------------------------------
\* file_error: only the first error is kept.
Raise == had' = TRUE /\ buf' = IF had THEN buf ELSE "error"
RaiseIf(e) == IF e THEN Raise ELSE UNCHANGED error

\* mlist_free_all: the first list owns the maps.
FreeFirst == mlist' = [mlist EXCEPT ![1] = NULL] /\ live' = {}
FreeAll == mlist' = [i \in {1, 2} |-> NULL] /\ live' = {}

\* The lists of the call: new ones, the old are freed.
NewListsOnce == IF mlist[1] = NULL THEN mlist' = [i \in {1, 2} |-> << >>] /\ live' = {}
                ELSE UNCHANGED database
NewLists == mlist' = [i \in {1, 2} |-> << >>] /\ live' = {}

Return(c, rv, kept) ==
  /\ last' = [action |-> c.action, asked |-> c.asked, rv |-> rv, kept |-> kept,
              fault |-> c.fault]
  /\ call' = Idle

\* file_apprentice up to the loop: file_reset, then two new, empty lists.  The
\* name is copied before the old lists are freed; the first list is freed and
\* allocated before the second is.
Start(action, asked) ==
  LET c == [action |-> action, asked |-> asked, rest |-> asked, errs |-> -1, fault |-> FALSE]
      failed == [c EXCEPT !.fault = TRUE]
  IN /\ call = Idle /\ loads < MaxLoads
     /\ loads' = loads + 1 /\ ret' = "none"
     /\ \/ /\ NewLists
           /\ had' = FALSE /\ buf' = "null"
           /\ call' = c /\ UNCHANGED last
        \/ /\ TRUE \in Faults
           /\ had' = TRUE /\ buf' = "error"
           /\ \/ UNCHANGED database /\ Return(failed, -1, TRUE)
              \/ /\ FreeFirst \/ FreeAll
                 /\ Return(failed, -1, FALSE)
     /\ UNCHANGED <<check, magwarn, mgc>>

\* apprentice_load of a text when the handle has given w warnings: load_1 stops
\* reading once they are WarnMax, load_from_buffer does not.
Parsed(p, w) ==
  LET whole == IF Text[p] = "good" THEN "all" ELSE "fail"
      limited == call.action # "buffer"
  IN CASE Text[p] = "absent"                       -> {"fail"}
       [] Text[p] # "absent" /\ limited /\ w >= WarnMax -> {"none"}
       [] OTHER -> {whole} \cup IF limited /\ w + Warns[p] >= WarnMax THEN {"some"} ELSE {}

Warned(w) == IF w < WarnMax THEN w ELSE WarnMax

\* The next path of the list; an empty one ends the loop, whatever follows.
AtPath == Active /\ call.rest # << >> /\ Head(call.rest) # EmptyName
AdvanceOverwrites(errs, fault) ==
  call' = [call EXCEPT !.rest = Tail(@), !.errs = errs, !.fault = @ \/ fault]
Advance(errs, fault) ==
  call' = [call EXCEPT !.rest = Tail(@), !.errs = IF @ > errs THEN @ ELSE errs,
                       !.fault = @ \/ fault]

\* The second add_mlist failed, after the first list took the map: everything is
\* freed, also what earlier paths loaded.
AbandonHalf(entry) == /\ mlist' = [mlist EXCEPT ![1] = Append(@, entry)]
                      /\ live' = live \cup {entry.id}
Abandon(entry) == FreeAll

\* add_mlist for both lists; e: an error was raised on the way.  A map that is
\* added after the lists were abandoned goes through a NULL list.
AddMap(p, rules, e) ==
  LET entry == [id |-> <<loads, Len(call.rest)>>, path |-> p, rules |-> rules]
  IN \/ /\ mlist[1] = NULL
        /\ call' = Crashed
        /\ UNCHANGED <<database, error>>
     \/ /\ mlist[1] # NULL
        /\ mlist' = [i \in {1, 2} |-> Append(mlist[i], entry)]
        /\ live' = live \cup {entry.id}
        /\ Advance(0, FALSE) /\ RaiseIf(e)
     \/ /\ mlist[1] # NULL /\ TRUE \in Faults
        /\ UNCHANGED database \/ Abandon(entry)
        /\ Advance(-1, TRUE) /\ Raise

\* apprentice_1 on a path that has a compiled file, and on a buffer whose text happens to
\* be the name of one: apprentice_map takes it for a path.
LoadCompiled ==
  /\ AtPath /\ call.action # "compile"
  /\ LET p == Head(call.rest)
     IN mgc[p] \notin {"absent", "bad"} /\ AddMap(p, mgc[p], FALSE)
  /\ UNCHANGED <<check, magwarn, last, loads, ret, mgc>>

\* Does apprentice_map, when it fails, raise an error?  It does of a file it refuses, and
\* of an allocation unless it is for the name.
MapErrors(p) == {call.action # "buffer" /\ mgc[p] = "bad"}
                \cup IF TRUE \in Faults THEN BOOLEAN ELSE {}

\* apprentice_1 on a path that has none, or a bad one, or no memory for it: the
\* text is parsed, with MAGIC_CHECK from now on.
LoadText ==
  /\ AtPath /\ call.action # "compile"
  /\ LET p == Head(call.rest)
         fromFile == call.action # "buffer"
         w == IF check /\ fromFile THEN magwarn + 1 ELSE magwarn
         opened == fromFile /\ mgc[p] \notin {"absent", "bad"}
     IN /\ opened => TRUE \in Faults
        /\ magwarn' = Warned(w + IF Text[p] = "absent" THEN 0 ELSE Warns[p])
        /\ \E rules \in Parsed(p, w), e \in MapErrors(p) :
             \/ rules # "fail" /\ AddMap(p, rules, e)
             \/ /\ rules = "fail"
                /\ \E f \in {e, Text[p] = "bad"} : RaiseIf(e \/ f)
                /\ Advance(-1, opened) /\ UNCHANGED database
             \/ TRUE \in Faults /\ Raise /\ Advance(-1, TRUE) /\ UNCHANGED database
  /\ check' = TRUE
  /\ UNCHANGED <<last, loads, ret, mgc>>

\* check_buffer refuses a file of less than MAGIC_SETS entries, its header among them.
Written(rules) == IF rules = "none" THEN "bad" ELSE rules

\* apprentice_1 for FILE_COMPILE: parse the text and write the compiled file.
\* If a write fails the file is left as far as it got.
CompilePath ==
  /\ AtPath /\ call.action = "compile"
  /\ LET p == Head(call.rest)
     IN /\ magwarn' = Warned(magwarn + IF Text[p] = "absent" THEN 0 ELSE Warns[p])
        /\ \E rules \in Parsed(p, magwarn) :
             \/ /\ rules # "fail"
                /\ mgc' = [mgc EXCEPT ![p] = Written(rules)]
                /\ Advance(0, FALSE) /\ UNCHANGED error
             \/ /\ rules # "fail" /\ TRUE \in Faults
                /\ mgc' \in {mgc, [mgc EXCEPT ![p] = "bad"]}
                /\ Advance(-1, TRUE) /\ Raise
             \/ /\ rules = "fail"
                /\ \E f \in {FALSE, Text[p] = "bad"} : RaiseIf(f)
                /\ Advance(-1, FALSE) /\ UNCHANGED mgc
  /\ check' = TRUE
  /\ UNCHANGED <<database, last, loads, ret>>

\* The end of the loop: without a single success the lists are freed.
FinishKeeps ==
  /\ Active /\ ~AtPath
  /\ IF call.errs = -1 THEN Raise ELSE UNCHANGED error
  /\ Return(call, call.errs, FALSE)
  /\ UNCHANGED <<database, check, magwarn, loads, ret, mgc>>
FinishSilently ==
  /\ Active /\ ~AtPath
  /\ IF call.errs = -1 THEN FreeAll ELSE UNCHANGED database
  /\ Return(call, call.errs, FALSE)
  /\ UNCHANGED <<error, check, magwarn, loads, ret, mgc>>
Finish ==
  /\ Active /\ ~AtPath
  /\ IF call.errs = -1 THEN FreeAll /\ Raise ELSE UNCHANGED <<database, error>>
  /\ Return(call, call.errs, FALSE)
  /\ UNCHANGED <<check, magwarn, loads, ret, mgc>>

\* magic_file and magic_buffer: without a database, file_reset fails before it
\* clears anything; with one, the result is a text, an error, or nothing at all
\* (no memory for the input, a file that vanished).
Identify ==
  /\ call = Idle
  /\ \/ /\ mlist[1] = NULL
        /\ ret' = "failed" /\ Raise
     \/ /\ mlist[1] # NULL
        /\ \/ ret' = "text" /\ had' = FALSE /\ buf' = "text"
           \/ ret' = "failed" /\ had' = TRUE /\ buf' = "error"
           \/ ret' = "failed" /\ had' = FALSE /\ buf' = "null"
  /\ UNCHANGED <<database, check, magwarn, call, last, loads, mgc>>

\* GetError: the text is fetched and freed, EVENT_HAD_ERR stays.
GetError ==
  /\ call = Idle
  /\ buf' = "null"
  /\ UNCHANGED <<database, had, check, magwarn, call, last, loads, ret, mgc>>

SetFlags ==
  /\ call = Idle
  /\ check' \in BOOLEAN
  /\ UNCHANGED <<database, error, magwarn, call, last, loads, ret, mgc>>

Load ==
  \/ \E action \in Actions \ {"buffer"}, asked \in PathLists : Start(action, asked)
  \/ "buffer" \in Actions /\ \E p \in Paths : Start("buffer", <<p>>)

\* The process is gone.
Gone == call = Crashed /\ UNCHANGED vars

Next == \/ Load \/ LoadCompiled \/ LoadText \/ CompilePath \/ Finish
        \/ Identify \/ GetError \/ SetFlags \/ Gone

Spec == Init /\ [][Next]_vars

-----------------------------------------------------------------------------
\* Properties.

Entries == [id : (1..MaxLoads) \X Nat, path : Paths, rules : {"all", "some", "none"}]
Names == Seq(Paths \cup {EmptyName})
Calls == [action : Actions, asked : Names, rest : Names, errs : {-1, 0}, fault : BOOLEAN]

\* NULL is not a list.
ASSUME NullAssumption == NULL \notin Seq(Entries)

Ended == call = Idle /\ last.action # "none"

\* The types of the state; a call that has added a map will report success.
TypeOK ==
  /\ mlist \in [{1, 2} -> Seq(Entries) \cup {NULL}]
  /\ live \subseteq (1..MaxLoads) \X Nat
  /\ had \in BOOLEAN /\ buf \in {"null", "text", "error"}
  /\ check \in BOOLEAN /\ magwarn \in 0..WarnMax
  /\ loads \in 0..MaxLoads
  /\ \/ call \in {Idle, Crashed}
     \/ /\ call \in Calls /\ loads # 0
        /\ mlist[1] # NULL /\ mlist[1] # << >> => call.errs = 0
  /\ ret \in {"none", "text", "failed"}
  /\ mgc \in [Paths -> {"absent", "bad", "all", "some"}]

\* Whatever allocation failed, the lists that softmagic walks hold the entries of
\* the same maps, every one still allocated, and no map is lost: file_reset lets
\* softmagic run when the first list is there and looks at nothing else.
ListsWhole ==
  call # Crashed =>
    IF mlist[1] = NULL THEN live = {}
    ELSE /\ mlist[1] = mlist[2]
         /\ {mlist[1][i].id : i \in DOMAIN mlist[1]} = live

\* What is loaded after a load that reports success is a function of the list
\* of paths and the files alone, not of what the handle loaded before: the paths
\* that can be read, in order, as far as the first empty name.
BeforeEmpty(asked) ==
  LET empty == {i \in DOMAIN asked : asked[i] = EmptyName}
  IN IF empty = {} THEN Len(asked) ELSE (CHOOSE i \in empty : \A k \in empty : i <= k) - 1
Readable(p, files) == files[p] \notin {"absent", "bad"} \/ Text[p] = "good"
LoadedInOrder(list, asked, n, files) ==
  \E at \in [DOMAIN list -> 1..n] :
    /\ \A i, j \in DOMAIN list : i < j => at[i] < at[j]
    /\ \A i \in DOMAIN list : list[i].path = asked[at[i]] /\ list[i].rules = "all"
    /\ {at[i] : i \in DOMAIN list} = {k \in 1..n : Readable(asked[k], files)}
LoadedAsAsked ==
  Ended /\ last.rv = 0 /\ ~last.fault /\ last.action \in {"load", "check"} /\ magwarn < WarnMax =>
    LoadedInOrder(mlist[1], last.asked, BeforeEmpty(last.asked), mgc)

\* A file is never classified with what a failed load left behind.
UsesReportedDatabase == ret = "text" => last.rv = 0 \/ last.kept

\* A load that fails leaves an error to fetch, whichever path or allocation failed.
FailureExplained == Ended /\ last.rv = -1 /\ ret = "none" => had

\* file_magwarn, at the maximum: "Additional warnings are suppressed".  The rules
\* are not: a load that succeeds has all those of the files it loaded.
OnlyWarningsSuppressed ==
  Ended /\ last.rv = 0 /\ mlist[1] # NULL =>
    \A i \in DOMAIN mlist[1] : mlist[1][i].rules = "all"
=============================================================================
