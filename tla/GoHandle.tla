------------------------------ MODULE GoHandle ------------------------------
(***************************************************************************)
(* The Go package (magic/magic.go): goroutines that share handles.  Every   *)
(* method takes the mutex of its handle, converts its argument to a C       *)
(* string, calls libmagic, copies the string that libmagic points to, and   *)
(* unlocks.  LoadDefaultMagic (module DefaultRules) ends in such a call.    *)
(* What the functions of libmagic do to a handle is what module MagicHandle *)
(* shows of them, reduced to the database, the error event and the two      *)
(* buffers that their results point into.                                   *)
(***************************************************************************)
EXTENDS DefaultRules, HandleAnswers

Unlocked == << >>

CONSTANTS
  Handles,   \* the variables of type *Magic
  Programs   \* what a program may call: the methods that each goroutine uses

ASSUME GoAssumption ==
  Programs \subseteq [Goroutines -> SUBSET Operations] /\ Unlocked \notin Goroutines

VARIABLES
  uses,         \* the program that runs
  ms,           \* the struct magic_set behind the cookie of each handle
  mutex,        \* Magic.mu: a goroutine, or Unlocked
  at,           \* where in its method each goroutine is
  call,         \* the method and the handle
  out,          \* the char * that libmagic returned to it
  ret,          \* the answer, once it is copied
  defaultMagic, \* the static variable of get_default_magic: a path or NULL
  fn,           \* the path that a load of the default database is about to copy
  dead          \* freed memory was used

handleVars == <<uses, ms, mutex, at, call, out, ret, defaultMagic, fn, dead>>
goVars == <<vars, handleVars>>

Opened(open) == [open |-> open, db |-> NoDatabase, event |-> "none", buf |-> None,
                 pbuf |-> None, raw |-> FALSE]

\* Nothing was called yet; the rules that are bundled and the program are given.
Fresh ==
  /\ data = << >>
  /\ pc = [g \in Goroutines |-> "done"]
  /\ wpos = [g \in Goroutines |-> 0]
  /\ text = [g \in Goroutines |-> << >>]
  /\ ms = [h \in Handles |-> Opened("none")]
  /\ mutex = [h \in Handles |-> Unlocked]
  /\ at = [g \in Goroutines |-> "idle"]
  /\ call = [g \in Goroutines |-> Idle]
  /\ out = [g \in Goroutines |-> "null"]
  /\ ret = [g \in Goroutines |-> Pending]
  /\ defaultMagic = "null"
  /\ fn = [g \in Goroutines |-> "none"]
  /\ dead = FALSE
GoInit == bundle \in Bundles /\ uses \in Programs /\ Fresh

-----------------------------------------------------------------------------
(* libmagic. *)

\* file_reset, when nothing keeps it from clearing the handle.
Reset(s) == [s EXCEPT !.event = "none", !.buf = None, !.pbuf = None]

\* file_error: only the first error is kept.
RaiseLast(s, n, t) == [s EXCEPT !.event = n, !.buf = t]
Raise(s, n, t) == IF s.event # "none" THEN s ELSE [s EXCEPT !.event = n, !.buf = t]

\* magic_file and magic_buffer: the handle afterwards and the pointer returned.
Identified(g, s) ==
  LET found == [Reset(s) EXCEPT !.buf = DescriptionFor(g),
                                !.pbuf = IF s.raw THEN None ELSE DescriptionFor(g)]
  IN IF s.open = "null" THEN {<<s, "null">>}
     ELSE IF s.db = NoDatabase THEN {<<Raise(s, "0", NoRules), "null">>}
     ELSE {<<found, IF s.raw THEN "buf" ELSE "pbuf">>,
           <<Raise(Reset(s), "code", ErrorFor(g, "file")), "null">>, <<Reset(s), "null">>}

\* magic_error: the pointer, which is NULL once the text is taken.
Magic_error(s) ==
  IF s.open = "null" THEN "static" ELSE IF s.event # "none" THEN "buf" ELSE "null"
ErrorText(s) ==
  IF s.open = "null" THEN NotOpen ELSE IF s.event # "none" THEN s.buf ELSE None

\* C.GoString of a pointer into the handle.
Deref(s, p) ==
  CASE p = "static" -> NotOpen [] p = "buf" -> s.buf [] p = "pbuf" -> s.pbuf [] OTHER -> None

Magic_errno(s) ==
  IF s.open = "null" THEN "EINVAL" ELSE IF s.event # "none" THEN s.event ELSE "0"

\* file_apprentice for load, check, compile and a buffer: the handle afterwards
\* and the value returned.  A load of several paths may succeed with an error event.
Apprentice(g, s, db) ==
  LET r == Reset(s)
  IN IF s.open = "null" THEN {<<s, "-1">>}
     ELSE {<<[r EXCEPT !.db = db], "0">>,
           <<Raise([r EXCEPT !.db = db], "code", ErrorFor(g, "load")), "0">>}
          \cup {<<Raise([r EXCEPT !.db = d], n, ErrorFor(g, "load")), "-1">> :
                  d \in {r.db, NoDatabase}, n \in {"0", "code"}}

\* magic_setflags: MAGIC_PRESERVE_ATIME is refused, as the build has no utimes.
Magic_setflags(s) ==
  {<<s, "-1">>} \cup IF s.open = "null" THEN {} ELSE {<<[s EXCEPT !.raw = b], "0">> : b \in BOOLEAN}

-----------------------------------------------------------------------------
(* The methods. *)

Mine(g) == ms[call[g].h]
Goes(g, from, to) == at[g] = from /\ at' = [at EXCEPT ![g] = to]
InC(g, ops) == ~dead /\ at[g] = "c" /\ call[g].op \in ops
SetMine(g, s) == ms' = [ms EXCEPT ![call[g].h] = s]

\* magic_open may fail, for want of memory or because of its flags; the Go handle
\* is returned all the same.
NewMagicHandle(g, h) ==
  /\ ~dead /\ at[g] = "idle" /\ ms[h].open = "none"
  /\ \/ ms' = [ms EXCEPT ![h] = Opened("null")]
     \/ \E raw \in BOOLEAN : ms' = [ms EXCEPT ![h] = [Opened("open") EXCEPT !.raw = raw]]
  /\ UNCHANGED <<vars, uses, mutex, at, call, out, ret, defaultMagic, fn, dead>>

Call(g, op, h) ==
  /\ ~dead /\ op # "LoadDefaultMagic" /\ ms[h].open \in {"null", "open"}
  /\ Goes(g, "idle", "lock")
  /\ call' = [call EXCEPT ![g] = [op |-> op, h |-> h]]
  /\ UNCHANGED <<vars, uses, ms, mutex, out, ret, defaultMagic, fn, dead>>

\* LoadDefaultMagic: unpack the bundled rules and read them back, before the
\* handle is touched.
CallDefault(g, h) ==
  /\ ~dead /\ ms[h].open \in {"null", "open"}
  /\ Goes(g, "idle", "bundle")
  /\ call' = [call EXCEPT ![g] = [op |-> "LoadDefaultMagic", h |-> h]]
  /\ Again(g)
  /\ UNCHANGED <<uses, ms, mutex, out, ret, defaultMagic, fn, dead>>
Unpack(g) ==
  /\ ~dead /\ at[g] = "bundle"
  /\ \/ Open(g) \/ Write(g) \/ Reopen(g) \/ Read(g)
  /\ UNCHANGED handleVars
ToLoadBuffer(g) ==
  /\ ~dead /\ Goes(g, "bundle", "lock") /\ LoadBuffer(g)
  /\ UNCHANGED <<uses, ms, mutex, call, out, ret, defaultMagic, fn, dead>>

\* self.mu.Lock(), and C.CString of the argument.
LockIgnored(g) ==
  /\ ~dead /\ Goes(g, "lock", "c")
  /\ mutex' = [mutex EXCEPT ![call[g].h] = g]
  /\ UNCHANGED <<vars, uses, ms, call, out, ret, defaultMagic, fn, dead>>
Lock(g) ==
  /\ ~dead /\ Goes(g, "lock", "c")
  /\ mutex[call[g].h] = Unlocked
  /\ mutex' = [mutex EXCEPT ![call[g].h] = g]
  /\ UNCHANGED <<vars, uses, ms, call, out, ret, defaultMagic, fn, dead>>

\* The handle was closed while the call waited.
UseAfterClose(g) ==
  /\ InC(g, Operations \ {"EmptyBuffer"}) /\ Mine(g).open = "closed"
  /\ dead' = TRUE
  /\ UNCHANGED <<vars, uses, ms, mutex, at, call, out, ret, defaultMagic, fn>>
Live(g, ops) == InC(g, ops) /\ Mine(g).open # "closed"

\* File fetches the error in a second call when it is given NULL; Buffer does not.
FileOrBuffer(g) ==
  /\ Live(g, {"File", "Buffer"})
  /\ \E r \in Identified(g, Mine(g)) :
       /\ SetMine(g, r[1])
       /\ out' = [out EXCEPT ![g] = r[2]]
       /\ Goes(g, "c", IF call[g].op = "File" /\ r[2] = "null" THEN "error" ELSE "copy")
  /\ UNCHANGED <<vars, uses, mutex, call, ret, defaultMagic, fn, dead>>
FileError(g) ==
  /\ ~dead /\ Goes(g, "error", "copy")
  /\ out' = [out EXCEPT ![g] = Magic_error(Mine(g))]
  /\ UNCHANGED <<vars, uses, ms, mutex, call, ret, defaultMagic, fn, dead>>

GetError(g) ==
  /\ Live(g, {"GetError"}) /\ Goes(g, "c", "copy")
  /\ out' = [out EXCEPT ![g] = Magic_error(Mine(g))]
  /\ UNCHANGED <<vars, uses, ms, mutex, call, ret, defaultMagic, fn, dead>>

\* C.GoString.
Copy(g) ==
  /\ ~dead /\ Goes(g, "copy", IF call[g].op = "GetError" THEN "clear" ELSE "unlock")
  /\ ret' = [ret EXCEPT ![g] = Deref(Mine(g), out[g])]
  /\ out' = [out EXCEPT ![g] = "null"]
  /\ UNCHANGED <<vars, uses, ms, mutex, call, defaultMagic, fn, dead>>

\* magic_error_clear: the text is freed, the event stays.
Clear(g) ==
  /\ ~dead /\ Goes(g, "clear", "unlock")
  /\ SetMine(g, IF Mine(g).open = "null" THEN Mine(g) ELSE [Mine(g) EXCEPT !.buf = None])
  /\ UNCHANGED <<vars, uses, mutex, call, out, ret, defaultMagic, fn, dead>>

\* The methods that return a number, or nothing.
Answers(g, s, answer) ==
  /\ SetMine(g, s)
  /\ ret' = [ret EXCEPT ![g] = answer]
  /\ Goes(g, "c", "unlock")
  /\ UNCHANGED <<vars, uses, mutex, call, out, defaultMagic, fn, dead>>

Errno(g) == Live(g, {"Errno"}) /\ Answers(g, Mine(g), Number(Magic_errno(Mine(g))))
SetFlags(g) ==
  Live(g, {"SetFlags"}) /\ \E r \in Magic_setflags(Mine(g)) : Answers(g, r[1], Number(r[2]))
Load(g) ==
  /\ \/ Live(g, {"Load"})
     \/ Live(g, {"LoadDefaultPath"}) /\ Mine(g).open = "null"
  /\ \E r \in Apprentice(g, Mine(g), FromFiles) : Answers(g, r[1], Number(r[2]))

\* C.CString: the text ends at the first zero for those who read it in C.
CStrings(t) == {SubSeq(t, 1, k) : k \in {n \in 0..Len(t) : Visible(t) = 1..n}}

\* What LoadBuffer answers is dropped: LoadDefaultMagic returns nil, and the text
\* is not needed any more.
LoadBundled(g) ==
  /\ Live(g, {"LoadDefaultMagic"}) /\ Goes(g, "c", "unlock")
  /\ \E given \in CStrings(text[g]) :
       \E r \in Apprentice(g, Mine(g), Database("bundle", given)) : SetMine(g, r[1])
  /\ ret' = [ret EXCEPT ![g] = None]
  /\ text' = [text EXCEPT ![g] = << >>]
  /\ UNCHANGED <<bundle, data, pc, wpos, uses, mutex, call, out, defaultMagic, fn, dead>>

Close(g) ==
  /\ Live(g, {"Close"})
  /\ Answers(g, IF Mine(g).open = "null" THEN Mine(g) ELSE Opened("closed"), None)

\* &b[0] of an empty slice panics before the call; the deferred Unlock runs.
EmptyBuffer(g) == InC(g, {"EmptyBuffer"}) /\ Answers(g, Mine(g), Panic)

-----------------------------------------------------------------------------
(* Load("") asks get_default_magic for the path. *)

\* $MAGIC, no home, or nothing of its own in it: the path compiled in; a path found
\* earlier is forgotten but not freed in the last case.
FixedPath(g) ==
  /\ fn' = [k \in Goroutines |-> IF k = g \/ fn[k] = "owned" THEN "fixed" ELSE fn[k]]
  /\ defaultMagic' = "null"
KeptPath(g) ==
  /\ fn' = [fn EXCEPT ![g] = "fixed"]
  /\ UNCHANGED defaultMagic

\* A path in the home directory: the one that the last call returned is freed.
HomePath(g) ==
  /\ fn' = [k \in Goroutines |->
              IF k = g THEN "owned" ELSE IF fn[k] = "owned" THEN "freed" ELSE fn[k]]
  /\ defaultMagic' = "set"

AskPath(g) ==
  /\ Live(g, {"LoadDefaultPath"}) /\ Mine(g).open = "open"
  /\ Goes(g, "c", "path")
  /\ FixedPath(g) \/ KeptPath(g) \/ HomePath(g)
  /\ UNCHANGED <<vars, uses, ms, mutex, call, out, ret, dead>>

\* strdup of the path, and the rest of the load.
LoadDefaultPath(g) ==
  /\ ~dead /\ Goes(g, "path", "unlock")
  /\ fn' = [fn EXCEPT ![g] = "none"]
  /\ \E r \in Apprentice(g, Mine(g), FromFiles) :
       SetMine(g, r[1]) /\ ret' = [ret EXCEPT ![g] = Number(r[2])]
  /\ UNCHANGED <<vars, uses, mutex, call, out, defaultMagic, dead>>

-----------------------------------------------------------------------------
\* The deferred calls: free the C string, unlock; the method returns.
Unlock(g) ==
  /\ ~dead /\ Goes(g, "unlock", "idle")
  /\ mutex' = [mutex EXCEPT ![call[g].h] = Unlocked]
  /\ call' = [call EXCEPT ![g] = Idle]
  /\ ret' = [ret EXCEPT ![g] = Pending]
  /\ UNCHANGED <<vars, uses, ms, out, defaultMagic, fn, dead>>

\* One goroutine goes on with the method it is in.
Within(g) ==
  \/ Unpack(g) \/ ToLoadBuffer(g) \/ Lock(g) \/ UseAfterClose(g)
  \/ FileOrBuffer(g) \/ FileError(g) \/ GetError(g) \/ Copy(g) \/ Clear(g)
  \/ Errno(g) \/ SetFlags(g) \/ Load(g) \/ LoadBundled(g) \/ Close(g) \/ EmptyBuffer(g)
  \/ AskPath(g) \/ LoadDefaultPath(g)
Proceed(g) == Within(g) \/ Unlock(g)

\* The goroutine begins one of the calls that the program has for it.
Begin(g) ==
  /\ uses[g] # {}
  /\ \E h \in Handles : \/ NewMagicHandle(g, h)
                        \/ "LoadDefaultMagic" \in uses[g] /\ CallDefault(g, h)
                        \/ \E op \in uses[g] : Call(g, op, h)

\* No call is running, and no more need come; or the process is gone.
Over == dead \/ \A g \in Goroutines : at[g] = "idle"
Stop == Over /\ UNCHANGED goVars

GoNext == (\E g \in Goroutines : Begin(g) \/ Proceed(g)) \/ Stop

GoSpec == GoInit /\ [][GoNext]_goVars

\* Goroutines are scheduled, the functions of libmagic return, and a goroutine that
\* waits for a mutex is handed it in the end (sync.Mutex: starvation mode).
GoFairness == \A g \in Goroutines : WF_goVars(Proceed(g)) /\ SF_goVars(Lock(g))
GoFairSpec == GoSpec /\ GoFairness

-----------------------------------------------------------------------------
\* Properties.

Texts == {None, Panic, NoRules, NotOpen}
         \cup {Number(n) : n \in {"0", "-1", "code", "EINVAL"}}
         \cup {DescriptionFor(g) : g \in Goroutines}
         \cup {ErrorFor(g, what) : g \in Goroutines, what \in {"file", "load"}}
Databases == [from : {"none", "files", "bundle"}, rules : Seq(Nat \ {0})]
Sets == [open : {"none", "null", "open", "closed"}, db : Databases,
         event : {"none", "0", "code"}, buf : Texts, pbuf : Texts, raw : BOOLEAN]
Calls == [op : Operations, h : Handles]
Waiting == {"bundle", "lock"}
Inside == {"c", "path", "error", "copy", "clear", "unlock"}

\* The types of the state; a goroutine between Lock and Unlock is the one that the
\* mutex of its handle names, so that no two are inside of libmagic with one handle.
GoTypeOK ==
  /\ ms \in [Handles -> Sets]
  /\ mutex \in [Handles -> Goroutines \cup {Unlocked}]
  /\ at \in [Goroutines -> {"idle"} \cup Waiting \cup Inside]
  /\ call \in [Goroutines -> Calls \cup {Idle}]
  /\ out \in [Goroutines -> {"null", "buf", "pbuf", "static"}]
  /\ ret \in [Goroutines -> Texts \cup {Pending}]
  /\ defaultMagic \in {"null", "set"}
  /\ fn \in [Goroutines -> {"none", "fixed", "owned", "freed"}]
  /\ dead \in BOOLEAN
  /\ \A g \in Goroutines :
       /\ at[g] = "idle" <=> call[g] = Idle
       /\ at[g] \in Inside => mutex[call[g].h] = g

(* The handle as its callers see it, and the answers as soon as they are     *)
(* determined: while a pointer into the handle is not copied yet, what it    *)
(* points to.                                                               *)
SetOf(s) == [open |-> s.open, db |-> s.db, failure |-> s.event,
             text |-> IF s.event = "none" THEN None ELSE s.buf]
Told(g) ==
  CASE at[g] = "unlock" -> ret[g]
    [] at[g] = "error" -> ErrorText(Mine(g))
    [] at[g] = "copy" /\ call[g].op # "GetError" -> Deref(Mine(g), out[g])
    [] OTHER -> Pending
RequestOf(g) ==
  IF at[g] = "idle" THEN Idle ELSE [op |-> call[g].op, h |-> call[g].h, ans |-> Told(g)]

SetsOf == [h \in Handles |-> SetOf(ms[h])]
Requests == [g \in Goroutines |-> RequestOf(g)]

Serial == INSTANCE SerialHandle WITH set <- SetsOf, req <- Requests

\* Goroutines that share a handle can take its methods for atomic: every answer is
\* the one of the goroutine's own call, on the state that the calls before it left
\* (magic.go: "Libmagic is not thread safe so we need to serialize access to it").
\* A call that began before Close and is served after it is the only one that
\* touches freed memory.
SerialCalls == Serial!Spec

\* Every method returns, whatever the other goroutines do, or the process is gone.
MethodsReturn == \A g \in Goroutines : at[g] # "idle" ~> at[g] = "idle" \/ dead
=============================================================================
