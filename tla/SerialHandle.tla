---------------------------- MODULE SerialHandle ----------------------------
(***************************************************************************)
(* What a handle of the Go package promises to goroutines that share it:    *)
(* every call takes effect in one step, between its beginning and its       *)
(* return, on the database and the recorded failure of its own handle, and  *)
(* its answer is the one of that step.  There are no buffers, pointers or   *)
(* locks here.                                                              *)
(***************************************************************************)
EXTENDS Integers, Sequences, HandleAnswers

CONSTANTS
  Goroutines,  \* the callers
  Handles      \* the variables of type *Magic

VARIABLES
  set,     \* what each handle is
  req,     \* the call that each goroutine is in
  dead,    \* the process used freed memory: nothing is promised any more
  bundle   \* the rules that the package bundles

serialVars == <<set, req, dead>>

BundledDatabases == {Database("bundle", SubSeq(bundle, 1, k)) : k \in 0..Len(bundle)}

(* A handle: its database, and the first failure since the last call that  *)
(* cleared it: "none", or the number of the error; and its text, until     *)
(* GetError takes it.                                                      *)
New(open) == [open |-> open, db |-> NoDatabase, failure |-> "none", text |-> None]
Cleared(s) == [s EXCEPT !.failure = "none", !.text = None]
Failed(s, n, t) == IF s.failure # "none" THEN s ELSE [s EXCEPT !.failure = n, !.text = t]

Init ==
  /\ set = [h \in Handles |-> New("none")]
  /\ req = [g \in Goroutines |-> Idle]
  /\ dead = FALSE

-----------------------------------------------------------------------------
\* A handle that nobody else knows yet; it may not be open, and nothing says so.
NewMagicHandle(g, h) ==
  /\ ~dead /\ req[g] = Idle /\ set[h].open = "none"
  /\ \E open \in {"null", "open"} : set' = [set EXCEPT ![h] = New(open)]
  /\ UNCHANGED <<req, dead>>

\* A goroutine calls; no call begins after a Close took effect.
Call(g, op, h) ==
  /\ ~dead /\ req[g] = Idle /\ set[h].open \in {"null", "open"}
  /\ req' = [req EXCEPT ![g] = [op |-> op, h |-> h, ans |-> Pending]]
  /\ UNCHANGED <<set, dead>>

Serving(g, ops) == ~dead /\ req[g] # Idle /\ req[g].op \in ops /\ req[g].ans = Pending
Mine(g) == set[req[g].h]
Answer(g, s, answer) ==
  /\ set' = [set EXCEPT ![req[g].h] = s]
  /\ req' = [req EXCEPT ![g].ans = answer]
  /\ UNCHANGED dead

\* A handle without rules says so, unless it has an older failure to tell.
Unloaded(g) == Mine(g).open = "open" /\ Mine(g).db = NoDatabase
Loaded(g) == Mine(g).open = "open" /\ Mine(g).db # NoDatabase
WithoutRules(g) == Failed(Mine(g), "0", NoRules)
NotFound(g) == Failed(Cleared(Mine(g)), "code", ErrorFor(g, "file"))

File(g) ==
  /\ Serving(g, {"File"})
  /\ \/ Mine(g).open = "null" /\ Answer(g, Mine(g), NotOpen)
     \/ Unloaded(g) /\ Answer(g, WithoutRules(g), WithoutRules(g).text)
     \/ /\ Loaded(g)
        /\ \/ Answer(g, Cleared(Mine(g)), DescriptionFor(g))
           \/ Answer(g, NotFound(g), NotFound(g).text)
           \/ Answer(g, Cleared(Mine(g)), None)

Buffer(g) ==
  /\ Serving(g, {"Buffer"})
  /\ \/ Mine(g).open = "null" /\ Answer(g, Mine(g), None)
     \/ Unloaded(g) /\ Answer(g, WithoutRules(g), None)
     \/ /\ Loaded(g)
        /\ \/ Answer(g, Cleared(Mine(g)), DescriptionFor(g))
           \/ Answer(g, NotFound(g), None)
           \/ Answer(g, Cleared(Mine(g)), None)

\* An empty slice makes the caller panic; the handle stays usable.
EmptyBuffer(g) ==
  Serving(g, {"EmptyBuffer"}) /\ Mine(g).open \in {"null", "open"} /\ Answer(g, Mine(g), Panic)

\* The text of the failure is told once.
GetError(g) ==
  /\ Serving(g, {"GetError"})
  /\ \/ Mine(g).open = "null" /\ Answer(g, Mine(g), NotOpen)
     \/ Mine(g).open = "open" /\ Answer(g, [Mine(g) EXCEPT !.text = None], Mine(g).text)

\* The number of the failure, also after GetError told the text.
Errno(g) ==
  /\ Serving(g, {"Errno"})
  /\ \/ Mine(g).open = "null" /\ Answer(g, Mine(g), Number("EINVAL"))
     \/ /\ Mine(g).open = "open"
        /\ Answer(g, Mine(g), IF Mine(g).failure = "none" THEN Number("0") ELSE Number(Mine(g).failure))

SetFlags(g) ==
  /\ Serving(g, {"SetFlags"})
  /\ \/ Mine(g).open \in {"null", "open"} /\ Answer(g, Mine(g), Number("-1"))
     \/ Mine(g).open = "open" /\ Answer(g, Mine(g), Number("0"))

\* A load that succeeds replaces the database; it may have a failure to tell, of
\* one of several paths.  One that fails leaves the old database or none, and a
\* failure.
LoadAny(g, databases, done, failed) ==
  \/ Mine(g).open = "null" /\ Answer(g, Mine(g), failed)
  \/ /\ Mine(g).open = "open"
     /\ LET s == Cleared(Mine(g))
            err(t, n) == Failed(t, n, ErrorFor(g, "load"))
        IN \/ \E db \in databases : \/ Answer(g, [s EXCEPT !.db = db], done)
                                    \/ Answer(g, err([s EXCEPT !.db = db], "code"), done)
           \/ \E db \in {s.db, NoDatabase}, n \in {"0", "code"} :
                Answer(g, err([s EXCEPT !.db = db], n), failed)
Load(g) ==
  Serving(g, {"Load", "LoadDefaultPath"}) /\ LoadAny(g, {FromFiles}, Number("0"), Number("-1"))

\* LoadDefaultMagic loads a beginning of the bundled rules, and always answers nil.
LoadDefaultMagic(g) ==
  Serving(g, {"LoadDefaultMagic"}) /\ LoadAny(g, BundledDatabases, None, None)

Close(g) ==
  /\ Serving(g, {"Close"})
  /\ \/ Mine(g).open = "null" /\ Answer(g, Mine(g), None)
     \/ Mine(g).open = "open" /\ Answer(g, New("closed"), None)

\* A call that began before a Close and is served after it uses freed memory.
UseAfterClose(g) ==
  /\ Serving(g, Operations \ {"EmptyBuffer"}) /\ Mine(g).open = "closed"
  /\ dead' = TRUE
  /\ UNCHANGED <<set, req>>
EmptyAfterClose(g) ==
  Serving(g, {"EmptyBuffer"}) /\ Mine(g).open = "closed" /\ Answer(g, Mine(g), Panic)

Return(g) ==
  /\ ~dead /\ req[g] # Idle /\ req[g].ans # Pending
  /\ req' = [req EXCEPT ![g] = Idle]
  /\ UNCHANGED <<set, dead>>

Serve(g) ==
  \/ File(g) \/ Buffer(g) \/ EmptyBuffer(g) \/ GetError(g) \/ Errno(g)
  \/ SetFlags(g) \/ Load(g) \/ LoadDefaultMagic(g) \/ Close(g)
  \/ UseAfterClose(g) \/ EmptyAfterClose(g)

Next ==
  \E g \in Goroutines :
    \/ \E h \in Handles : NewMagicHandle(g, h) \/ \E op \in Operations : Call(g, op, h)
    \/ Serve(g) \/ Return(g)

\* The bundled text is the environment's: the package never changes it.
Spec == Init /\ [][Next]_serialVars
=============================================================================
