-------------------------- MODULE GoHandle_proofs --------------------------
(***************************************************************************)
(* For any number of goroutines and handles and any bundled text: the mutex *)
(* keeps the goroutines of a handle apart, and what they see of the handle  *)
(* is what SerialHandle promises.                                           *)
(***************************************************************************)
EXTENDS GoHandle, DefaultRules_proofs

-----------------------------------------------------------------------------
(* The functions of libmagic. *)

LEMMA PendingIsNoText == Pending \notin Texts
  BY DEF Pending, Texts, None, Panic, NoRules, NotOpen, Number, DescriptionFor, ErrorFor

LEMMA ConstantTexts ==
  /\ None \in Texts /\ Panic \in Texts /\ NoRules \in Texts /\ NotOpen \in Texts
  /\ \A n \in {"0", "-1", "code", "EINVAL"} : Number(n) \in Texts
  BY DEF Texts

LEMMA TextsOf ==
  ASSUME NEW g \in Goroutines
  PROVE  /\ DescriptionFor(g) \in Texts
         /\ ErrorFor(g, "file") \in Texts /\ ErrorFor(g, "load") \in Texts
  BY DEF Texts

LEMMA ResetType ==
  ASSUME NEW s \in Sets
  PROVE  /\ Reset(s) \in Sets
         /\ Reset(s).open = s.open /\ Reset(s).db = s.db /\ Reset(s).event = "none"
         /\ Reset(s).buf = None /\ Reset(s).raw = s.raw
  BY ConstantTexts DEF Reset, Sets

LEMMA RaiseType ==
  ASSUME NEW s \in Sets, NEW n \in {"0", "code"}, NEW t \in Texts
  PROVE  /\ Raise(s, n, t) \in Sets
         /\ Raise(s, n, t).open = s.open /\ Raise(s, n, t).db = s.db
         /\ s.event # "none" => Raise(s, n, t) = s
         /\ s.event = "none" => /\ Raise(s, n, t).event = n
                                /\ Raise(s, n, t).buf = t
  BY DEF Raise, Sets

LEMMA DerefType ==
  ASSUME NEW s \in Sets, NEW p \in {"null", "buf", "pbuf", "static"}
  PROVE  Deref(s, p) \in Texts /\ ErrorText(s) \in Texts
  BY DEF Deref, ErrorText, Sets, Texts

\* What magic_error points to, when its pointer is followed.
LEMMA ErrorDeref ==
  ASSUME NEW s
  PROVE  Deref(s, Magic_error(s)) = ErrorText(s)
         /\ Magic_error(s) \in {"null", "buf", "pbuf", "static"}
  BY DEF Deref, Magic_error, ErrorText

LEMMA IdentifiedType ==
  ASSUME NEW g \in Goroutines, NEW s \in Sets, NEW r \in Identified(g, s)
  PROVE  /\ r[1] \in Sets /\ r[1].open = s.open
         /\ r[2] \in {"null", "buf", "pbuf", "static"}
  <1> DEFINE found == [Reset(s) EXCEPT !.buf = DescriptionFor(g),
                                       !.pbuf = IF s.raw THEN None ELSE DescriptionFor(g)]
  <1>1. found \in Sets /\ found.open = s.open
    BY TextsOf, ConstantTexts, ResetType DEF Sets
  <1>2. /\ Raise(s, "0", NoRules) \in Sets /\ Raise(s, "0", NoRules).open = s.open
        /\ Raise(Reset(s), "code", ErrorFor(g, "file")) \in Sets
        /\ Raise(Reset(s), "code", ErrorFor(g, "file")).open = s.open
    <2>1. NoRules \in Texts /\ ErrorFor(g, "file") \in Texts
      BY TextsOf, ConstantTexts
    <2>2. Reset(s) \in Sets /\ Reset(s).open = s.open
      BY ResetType
    <2>3. Raise(s, "0", NoRules) \in Sets /\ Raise(s, "0", NoRules).open = s.open
      BY <2>1, RaiseType
    <2> DEFINE q == Reset(s)
               t == ErrorFor(g, "file")
    <2> HIDE DEF q, t
    <2>4. Raise(q, "code", t) \in Sets /\ Raise(q, "code", t).open = q.open
      BY <2>1, <2>2, RaiseType DEF q, t
    <2> QED
      BY <2>2, <2>3, <2>4 DEF q, t
  <1> HIDE DEF found
  <1>3. r \in {<<s, "null">>, <<Raise(s, "0", NoRules), "null">>,
               <<found, IF s.raw THEN "buf" ELSE "pbuf">>,
               <<Raise(Reset(s), "code", ErrorFor(g, "file")), "null">>,
               <<Reset(s), "null">>}
    BY DEF Identified, found
  <1> QED
    BY <1>1, <1>2, <1>3, ResetType

LEMMA ApprenticeType ==
  ASSUME NEW g \in Goroutines, NEW s \in Sets, NEW db \in Databases,
         NEW r \in Apprentice(g, s, db)
  PROVE  r[1] \in Sets /\ r[1].open = s.open /\ r[2] \in {"0", "-1"}
  <1> DEFINE q(d) == [Reset(s) EXCEPT !.db = d]
             t == ErrorFor(g, "load")
  <1>1. t \in Texts
    BY TextsOf
  <1>2. ASSUME NEW d \in Databases PROVE q(d) \in Sets /\ q(d).open = s.open
    BY ResetType DEF Sets
  <1> HIDE DEF q, t
  <1>3. ASSUME NEW d \in Databases, NEW n \in {"0", "code"}
        PROVE  Raise(q(d), n, t) \in Sets /\ Raise(q(d), n, t).open = s.open
    BY <1>1, <1>2, RaiseType
  <1>4. Reset(s).db \in Databases /\ NoDatabase \in Databases
    BY ResetType DEF Sets, NoDatabase, Database, Databases
  <1>5. r \in {<<s, "-1">>, <<q(db), "0">>, <<Raise(q(db), "code", t), "0">>}
             \cup {<<Raise(q(d), n, t), "-1">> :
                     d \in {Reset(s).db, NoDatabase}, n \in {"0", "code"}}
    BY DEF Apprentice, q, t
  <1> QED
    BY <1>2, <1>3, <1>4, <1>5

-----------------------------------------------------------------------------
(* The inductive invariant: besides the types and the mutex, what a method   *)
(* that is at a place of its code knows of its handle, of the pointer that   *)
(* it was given and of the answer that it has copied.                        *)

Pointers == {"null", "buf", "pbuf", "static"}

\* A goroutine that calls op is at place, with the handle s, the pointer p and the
\* answer x.
Fits(op, s, place, p, x) ==
  /\ s.open # "none"
  /\ place = "bundle" => op = "LoadDefaultMagic"
  /\ place \in {"path", "error", "copy", "clear"} => s.open \in {"null", "open"}
  /\ place = "path" => op = "LoadDefaultPath" /\ s.open = "open"
  /\ place = "error" => op = "File"
  /\ place = "copy" => op \in {"File", "Buffer", "GetError"}
  /\ place = "copy" /\ op = "GetError" => Deref(s, p) = ErrorText(s)
  /\ place = "clear" => op = "GetError" /\ x = ErrorText(s)
  /\ place = "unlock" => x \in Texts

HandlesOK ==
  /\ ms \in [Handles -> Sets]
  /\ mutex \in [Handles -> Goroutines \cup {Unlocked}]
  /\ at \in [Goroutines -> {"idle"} \cup Waiting \cup Inside]
  /\ call \in [Goroutines -> Calls \cup {Idle}]
  /\ out \in [Goroutines -> Pointers]
  /\ ret \in [Goroutines -> Texts \cup {Pending}]
  /\ dead \in BOOLEAN
  /\ \A g \in Goroutines :
       /\ at[g] = "idle" <=> call[g] = Idle
       /\ at[g] \in Inside => mutex[call[g].h] = g
PathsOK ==
  /\ defaultMagic \in {"null", "set"}
  /\ fn \in [Goroutines -> {"none", "fixed", "owned", "freed"}]
CallsOK ==
  \A g \in Goroutines : at[g] # "idle" => Fits(call[g].op, Mine(g), at[g], out[g], ret[g])

HInv == HandlesOK /\ CallsOK

LEMMA GoTypeParts == GoTypeOK <=> HandlesOK /\ PathsOK
  BY DEF GoTypeOK, HandlesOK, PathsOK, Pointers

LEMMA CallOf ==
  ASSUME HandlesOK, NEW g \in Goroutines, at[g] # "idle"
  PROVE  /\ call[g] \in Calls /\ call[g].h \in Handles /\ call[g].op \in Operations
         /\ Mine(g) \in Sets
  BY DEF HandlesOK, Calls, Mine

(* A goroutine that holds the mutex moves on: its handle becomes s, the       *)
(* pointer and the answer that it has become p and x.                         *)
Effect(g, s, place, p, x) ==
  /\ at' = [at EXCEPT ![g] = place]
  /\ ms' = [ms EXCEPT ![call[g].h] = s]
  /\ out' = [out EXCEPT ![g] = p]
  /\ ret' = [ret EXCEPT ![g] = x]
  /\ UNCHANGED <<mutex, call, dead>>

\* No two goroutines are inside with the same handle.
LEMMA Apart ==
  ASSUME HandlesOK, NEW g \in Goroutines, NEW k \in Goroutines, k # g,
         at[g] \in Inside, at[k] \in Inside
  PROVE  call[k].h # call[g].h
  BY DEF HandlesOK

LEMMA EffectKeeps ==
  ASSUME HInv, NEW g \in Goroutines, at[g] \in Inside,
         NEW s \in Sets, NEW place \in Inside, NEW p \in Pointers,
         NEW x \in Texts \cup {Pending},
         Fits(call[g].op, s, place, p, x), Effect(g, s, place, p, x)
  PROVE  HInv'
  <1>1. at[g] # "idle" /\ place # "idle"
    BY DEF Inside
  <1>2. call[g].h \in Handles
    BY <1>1, CallOf DEF HInv
  <1>3. HandlesOK'
    <2>1. ms' \in [Handles -> Sets] /\ mutex' \in [Handles -> Goroutines \cup {Unlocked}]
      BY <1>2 DEF HInv, HandlesOK, Effect
    <2>2. at' \in [Goroutines -> {"idle"} \cup Waiting \cup Inside]
          /\ call' \in [Goroutines -> Calls \cup {Idle}]
      BY DEF HInv, HandlesOK, Effect
    <2>3. out' \in [Goroutines -> Pointers] /\ ret' \in [Goroutines -> Texts \cup {Pending}]
      BY DEF HInv, HandlesOK, Effect
    <2>4. ASSUME NEW k \in Goroutines
          PROVE  /\ at'[k] = "idle" <=> call'[k] = Idle
                 /\ at'[k] \in Inside => mutex'[call'[k].h] = k
      BY <1>1 DEF HInv, HandlesOK, Effect
    <2> QED
      BY <2>1, <2>2, <2>3, <2>4 DEF HInv, HandlesOK, Effect
  <1>4. ASSUME NEW k \in Goroutines, at'[k] # "idle"
        PROVE  Fits(call'[k].op, ms'[call'[k].h], at'[k], out'[k], ret'[k])
    <2>1. CASE k = g
      BY <2>1, <1>2 DEF HInv, HandlesOK, Effect
    <2>2. CASE k # g
      <3>1. at'[k] = at[k] /\ out'[k] = out[k] /\ ret'[k] = ret[k] /\ call'[k] = call[k]
        BY <2>2 DEF HInv, HandlesOK, Effect
      <3>2. Fits(call[k].op, ms[call[k].h], at[k], out[k], ret[k])
        BY <1>4, <3>1 DEF HInv, CallsOK, Mine
      <3>3. call[k].h \in Handles
        BY <1>4, <3>1, CallOf DEF HInv
      <3>4. CASE call[k].h # call[g].h
        <4>1. ms'[call[k].h] = ms[call[k].h]
          BY <3>3, <3>4 DEF HInv, HandlesOK, Effect
        <4> QED
          BY <3>1, <3>2, <4>1
      <3>5. CASE call[k].h = call[g].h
        <4>1. at[k] \notin Inside
          BY <2>2, <3>5, Apart DEF HInv
        <4>2. ms'[call[k].h] = s /\ s.open # "none"
          BY <1>2, <3>5 DEF HInv, HandlesOK, Effect, Fits
        <4> QED
          BY <3>1, <3>2, <4>1, <4>2 DEF Fits, Inside
      <3> QED
        BY <3>4, <3>5
    <2> QED
      BY <2>1, <2>2
  <1> QED
    BY <1>3, <1>4 DEF HInv, CallsOK, Mine

-----------------------------------------------------------------------------
(* What the callers see of a step. *)

ToldOf(op, s, place, p, x) ==
  CASE place = "unlock" -> x
    [] place = "error" -> ErrorText(s)
    [] place = "copy" /\ op # "GetError" -> Deref(s, p)
    [] OTHER -> Pending

LEMMA ToldIs ==
  ASSUME NEW g
  PROVE  Told(g) = ToldOf(call[g].op, Mine(g), at[g], out[g], ret[g])
  BY DEF Told, ToldOf

Request(g, answer) == [op |-> call[g].op, h |-> call[g].h, ans |-> answer]

LEMMA RequestIs ==
  ASSUME HInv, NEW g \in Goroutines
  PROVE  /\ Requests[g] = IF at[g] = "idle" THEN Idle ELSE Request(g, Told(g))
         /\ at[g] # "idle" => Requests[g] # Idle
  <1>1. Requests[g] = IF at[g] = "idle" THEN Idle ELSE Request(g, Told(g))
    BY DEF Requests, RequestOf, Request
  <1>2. ASSUME at[g] # "idle" PROVE Request(g, Told(g)) # Idle
    <2>1. Request(g, Told(g)).op # Idle.op
      BY <1>2, CallOf DEF HInv, Request, Idle, Operations
    <2> QED
      BY <2>1
  <1> QED
    BY <1>1, <1>2

LEMMA EffectSeen ==
  ASSUME HInv, NEW g \in Goroutines, at[g] \in Inside,
         NEW s \in Sets, NEW place \in Inside, NEW p \in Pointers,
         NEW x \in Texts \cup {Pending},
         Effect(g, s, place, p, x)
  PROVE  /\ SetsOf' = [SetsOf EXCEPT ![call[g].h] = SetOf(s)]
         /\ Requests' = [Requests EXCEPT ![g] =
                           Request(g, ToldOf(call[g].op, s, place, p, x))]
  <1>1. at[g] # "idle" /\ place # "idle"
    BY DEF Inside
  <1>2. call[g].h \in Handles
    BY <1>1, CallOf DEF HInv
  <1>3. SetsOf' = [SetsOf EXCEPT ![call[g].h] = SetOf(s)]
    <2>1. \A h \in Handles : ms'[h] = IF h = call[g].h THEN s ELSE ms[h]
      BY <1>2 DEF HInv, HandlesOK, Effect
    <2>2. SetsOf' = [h \in Handles |-> SetOf(ms'[h])]
      BY DEF SetsOf, SetOf
    <2> HIDE DEF SetOf
    <2> QED
      BY <1>2, <2>1, <2>2 DEF SetsOf
  <1>4. ASSUME NEW k \in Goroutines, k # g
        PROVE  Requests'[k] = Requests[k]
    <2>1. at'[k] = at[k] /\ out'[k] = out[k] /\ ret'[k] = ret[k] /\ call'[k] = call[k]
      BY <1>4 DEF HInv, HandlesOK, Effect
    <2>2. Requests[k] = RequestOf(k) /\ Requests'[k] = RequestOf(k)'
      BY DEF Requests
    <2>3. CASE at[k] \notin {"copy", "error"}
      BY <2>1, <2>2, <2>3 DEF RequestOf, Told
    <2>4. CASE at[k] \in {"copy", "error"}
      <3>1. call[k].h # call[g].h
        BY <1>4, <2>4, Apart DEF Inside, HInv
      <3>2. call[k].h \in Handles
        BY <2>4, CallOf DEF HInv
      <3>3. ms'[call[k].h] = ms[call[k].h]
        BY <3>1, <3>2 DEF HInv, HandlesOK, Effect
      <3>4. Mine(k)' = Mine(k)
        BY <2>1, <3>3 DEF Mine
      <3>5. Deref(Mine(k), out[k])' = Deref(Mine(k), out[k])
        BY <2>1, <3>4 DEF Deref
      <3>6. ErrorText(Mine(k))' = ErrorText(Mine(k))
        BY <3>4 DEF ErrorText
      <3>7. Told(k)' = Told(k)
        BY <2>1, <3>5, <3>6 DEF Told
      <3> QED
        BY <2>1, <2>2, <3>7 DEF RequestOf
    <2> QED
      BY <2>3, <2>4
  <1>5. Requests'[g] = Request(g, ToldOf(call[g].op, s, place, p, x))
    <2>1. at'[g] = place /\ out'[g] = p /\ ret'[g] = x /\ call' = call /\ ms'[call[g].h] = s
      BY <1>2 DEF HInv, HandlesOK, Effect
    <2>2. Mine(g)' = s
      BY <2>1 DEF Mine
    <2>3. Told(g)' = ToldOf(call[g].op, s, place, p, x)
      BY <2>1, <2>2 DEF Told, ToldOf, Deref, ErrorText
    <2>4. Requests'[g] = RequestOf(g)'
      BY DEF Requests
    <2> QED
      BY <1>1, <2>1, <2>3, <2>4 DEF RequestOf, Request
  <1>6. Requests \in [Goroutines -> {Requests[k] : k \in Goroutines}]
        /\ DOMAIN Requests' = Goroutines /\ Requests' = [k \in Goroutines |-> Requests'[k]]
    BY DEF Requests
  <1> QED
    BY <1>3, <1>4, <1>5, <1>6

\* A call that was not answered yet is: one step of the promise.
LEMMA EffectAnswers ==
  ASSUME HInv, NEW g \in Goroutines, at[g] = "c" \/ at[g] = "path" \/ at[g] = "clear",
         NEW s \in Sets, NEW place \in Inside, NEW p \in Pointers,
         NEW x \in Texts \cup {Pending},
         Effect(g, s, place, p, x)
  PROVE  /\ Serial!Answer(g, SetOf(s), ToldOf(call[g].op, s, place, p, x))
         /\ Serial!Mine(g) = SetOf(Mine(g))
         /\ Requests[g] # Idle /\ Requests[g].op = call[g].op
         /\ Requests[g].ans = Pending
  <1>1. at[g] \in Inside /\ at[g] # "idle" /\ Told(g) = Pending
    BY DEF Inside, Told
  <1>2. Requests[g] = Request(g, Pending) /\ Requests[g] # Idle
    BY <1>1, RequestIs
  <1>3. Requests[g].op = call[g].op /\ Requests[g].h = call[g].h /\ Requests[g].ans = Pending
    BY <1>2 DEF Request
  <1>4. Serial!Mine(g) = SetOf(Mine(g))
    BY <1>1, <1>3, CallOf DEF Serial!Mine, SetsOf, Mine, HInv
  <1> DEFINE a == ToldOf(call[g].op, s, place, p, x)
  <1>5. SetsOf' = [SetsOf EXCEPT ![call[g].h] = SetOf(s)]
        /\ Requests' = [Requests EXCEPT ![g] = Request(g, a)]
    BY <1>1, EffectSeen
  <1>6. dead' = dead
    BY DEF Effect
  <1> HIDE DEF a
  <1>7. [Requests[g] EXCEPT !.ans = a] = Request(g, a)
    BY <1>2 DEF Request
  <1>8. Serial!Answer(g, SetOf(s), a)
    BY <1>3, <1>5, <1>6, <1>7 DEF Serial!Answer
  <1> QED
    BY <1>2, <1>3, <1>4, <1>8 DEF a

\* A step that shows nothing to the callers.
LEMMA EffectHidden ==
  ASSUME HInv, NEW g \in Goroutines, at[g] \in Inside,
         NEW s \in Sets, NEW place \in Inside, NEW p \in Pointers,
         NEW x \in Texts \cup {Pending},
         Effect(g, s, place, p, x),
         SetOf(s) = SetOf(Mine(g)), ToldOf(call[g].op, s, place, p, x) = Told(g)
  PROVE  UNCHANGED Serial!serialVars
  <1>1. at[g] # "idle"
    BY DEF Inside
  <1>2. call[g].h \in Handles /\ SetsOf[call[g].h] = SetOf(s)
    BY <1>1, CallOf DEF HInv, SetsOf, Mine
  <1>3. Requests[g] = Request(g, Told(g))
    BY <1>1, RequestIs
  <1>4. SetsOf' = [SetsOf EXCEPT ![call[g].h] = SetOf(s)]
        /\ Requests' = [Requests EXCEPT ![g] = Request(g, Told(g))]
    BY EffectSeen
  <1>5. [SetsOf EXCEPT ![call[g].h] = SetsOf[call[g].h]] = SetsOf
    BY DEF SetsOf
  <1>6. [Requests EXCEPT ![g] = Requests[g]] = Requests
    BY DEF Requests
  <1> QED
    BY <1>2, <1>3, <1>4, <1>5, <1>6 DEF Serial!serialVars, Effect

-----------------------------------------------------------------------------
(* The handle as its callers see it, after what libmagic does to it. *)

\* Both modules use the vocabulary of HandleAnswers.
LEMMA SameWords ==
  /\ Serial!None = None /\ Serial!Pending = Pending /\ Serial!Panic = Panic
  /\ Serial!NoRules = NoRules /\ Serial!NotOpen = NotOpen /\ Serial!Idle = Idle
  /\ \A n : Serial!Number(n) = Number(n)
  /\ \A g : Serial!DescriptionFor(g) = DescriptionFor(g)
  /\ \A g, what : Serial!ErrorFor(g, what) = ErrorFor(g, what)
  /\ \A from, rules : Serial!Database(from, rules) = Database(from, rules)
  /\ Serial!NoDatabase = NoDatabase /\ Serial!FromFiles = FromFiles
  /\ Serial!Operations = Operations
  BY DEF Serial!None, None, Serial!Pending, Pending, Serial!Panic, Panic,
         Serial!NoRules, NoRules, Serial!NotOpen, NotOpen, Serial!Idle, Idle,
         Serial!Number, Number, Serial!DescriptionFor, DescriptionFor,
         Serial!ErrorFor, ErrorFor, Serial!Database, Database,
         Serial!NoDatabase, NoDatabase, Serial!FromFiles, FromFiles,
         Serial!Operations, Operations

LEMMA SetOfFields ==
  ASSUME NEW s \in Sets
  PROVE  /\ SetOf(s).open = s.open /\ SetOf(s).db = s.db /\ SetOf(s).failure = s.event
         /\ s.open \in {"null", "open", "closed", "none"}
         /\ s.event = "none" => SetOf(s).text = None
         /\ s.event # "none" => SetOf(s).text = s.buf
  BY DEF SetOf, Sets

LEMMA SetOfReset ==
  ASSUME NEW s \in Sets
  PROVE  SetOf(Reset(s)) = Serial!Cleared(SetOf(s))
  <1> DEFINE q == Reset(s)
  <1>1. q.open = s.open /\ q.db = s.db /\ q.event = "none"
    BY ResetType
  <1> HIDE DEF q
  <1>2. SetOf(q) = [open |-> s.open, db |-> s.db, failure |-> "none", text |-> None]
    BY <1>1 DEF SetOf
  <1>3. Serial!Cleared(SetOf(s)) =
          [open |-> s.open, db |-> s.db, failure |-> "none", text |-> None]
    <2>1. Serial!None = None
      BY SameWords
    <2> DEFINE x == IF s.event = "none" THEN None ELSE s.buf
               z == SetOf(s)
               o == s.open
               d == s.db
               e == s.event
               n == "none"
               t == None
               y == [z EXCEPT !.failure = n]
    <2>2. z = [open |-> o, db |-> d, failure |-> e, text |-> x]
      BY DEF SetOf
    <2>3. Serial!Cleared(z) = [z EXCEPT !.failure = n, !.text = t]
      BY <2>1 DEF Serial!Cleared
    <2> HIDE DEF x, z, o, d, e, n, t
    <2>4. y = [open |-> o, db |-> d, failure |-> n, text |-> x]
      BY <2>2
    <2>5. [z EXCEPT !.failure = n, !.text = t] = [y EXCEPT !.text = t]
      OBVIOUS
    <2> HIDE DEF y
    <2>6. [y EXCEPT !.text = t] = [open |-> o, db |-> d, failure |-> n, text |-> t]
      BY <2>4
    <2> QED
      BY <2>3, <2>5, <2>6 DEF o, d, z, n, t
  <1> QED
    BY <1>2, <1>3 DEF q

LEMMA SetOfRaise ==
  ASSUME NEW s \in Sets, NEW n \in {"0", "code"}, NEW t \in Texts
  PROVE  SetOf(Raise(s, n, t)) = Serial!Failed(SetOf(s), n, t)
  <1>1. CASE s.event # "none"
    <2>1. Raise(s, n, t) = s /\ SetOf(s).failure # "none"
      BY <1>1, RaiseType, SetOfFields
    <2> QED
      BY <2>1 DEF Serial!Failed
  <1>2. CASE s.event = "none"
    <2> DEFINE q == Raise(s, n, t)
    <2>1. q.open = s.open /\ q.db = s.db /\ q.event = n /\ q.buf = t /\ n # "none"
      BY <1>2, RaiseType
    <2> HIDE DEF q
    <2>2. SetOf(q) = [open |-> s.open, db |-> s.db, failure |-> n, text |-> t]
      BY <2>1 DEF SetOf
    <2>3. Serial!Failed(SetOf(s), n, t) =
            [open |-> s.open, db |-> s.db, failure |-> n, text |-> t]
      BY <1>2 DEF SetOf, Serial!Failed
    <2> QED
      BY <2>2, <2>3 DEF q
  <1> QED
    BY <1>1, <1>2

\* The text of the failure is what magic_error points to.
LEMMA ErrorTextOf ==
  ASSUME NEW s \in Sets
  PROVE  /\ s.open = "null" => ErrorText(s) = NotOpen
         /\ s.open # "null" => ErrorText(s) = SetOf(s).text
  BY DEF ErrorText, SetOf

\* The results of magic_file and magic_buffer, for their callers.
Outcome(g, s, after, p, error) ==
  \/ s.open = "null" /\ after = s /\ p = "null" /\ error = NotOpen
  \/ /\ s.open # "null" /\ s.db = NoDatabase
     /\ SetOf(after) = Serial!Failed(SetOf(s), "0", NoRules) /\ p = "null"
     /\ error = SetOf(after).text
  \/ /\ s.open # "null" /\ s.db # NoDatabase
     /\ \/ /\ SetOf(after) = Serial!Cleared(SetOf(s)) /\ p # "null"
           /\ Deref(after, p) = DescriptionFor(g)
        \/ /\ SetOf(after) =
                Serial!Failed(Serial!Cleared(SetOf(s)), "code", ErrorFor(g, "file"))
           /\ p = "null" /\ error = SetOf(after).text
        \/ SetOf(after) = Serial!Cleared(SetOf(s)) /\ p = "null" /\ error = None

LEMMA IdentifiedOutcome ==
  ASSUME NEW g \in Goroutines, NEW s \in Sets, NEW r \in Identified(g, s)
  PROVE  Outcome(g, s, r[1], r[2], ErrorText(r[1]))
  <1> DEFINE f == [Reset(s) EXCEPT !.buf = DescriptionFor(g),
                                   !.pbuf = IF s.raw THEN None ELSE DescriptionFor(g)]
             q == Reset(s)
             t == ErrorFor(g, "file")
  <1>0. q \in Sets /\ q.open = s.open /\ SetOf(q) = Serial!Cleared(SetOf(s)) /\ t \in Texts
        /\ NoRules \in Texts /\ q.event = "none"
    BY ResetType, SetOfReset, TextsOf, ConstantTexts
  <1>1. CASE s.open = "null"
    <2>1. r = <<s, "null">>
      BY <1>1 DEF Identified
    <2> QED
      BY <1>1, <2>1, ErrorTextOf DEF Outcome
  <1>2. CASE s.open # "null" /\ s.db = NoDatabase
    <2>1. r = <<Raise(s, "0", NoRules), "null">>
      BY <1>2 DEF Identified
    <2>2. Raise(s, "0", NoRules) \in Sets /\ Raise(s, "0", NoRules).open = s.open
          /\ SetOf(Raise(s, "0", NoRules)) = Serial!Failed(SetOf(s), "0", NoRules)
      BY <1>0, RaiseType, SetOfRaise
    <2>3. ErrorText(r[1]) = SetOf(r[1]).text
      BY <1>2, <2>1, <2>2, ErrorTextOf
    <2> QED
      BY <1>2, <2>1, <2>2, <2>3 DEF Outcome
  <1>3. CASE s.open # "null" /\ s.db # NoDatabase
    <2>1. r \in {<<f, IF s.raw THEN "buf" ELSE "pbuf">>, <<Raise(q, "code", t), "null">>,
                 <<q, "null">>}
      BY <1>3 DEF Identified
    <2>2. CASE r = <<f, IF s.raw THEN "buf" ELSE "pbuf">>
      <3>1. /\ f.open = s.open /\ f.db = q.db /\ f.event = "none"
            /\ f.buf = DescriptionFor(g)
            /\ f.pbuf = IF s.raw THEN None ELSE DescriptionFor(g)
        BY ResetType DEF Sets
      <3>2. SetOf(f) = SetOf(q)
        <4> HIDE DEF f, q
        <4> QED
          BY <1>0, <3>1 DEF SetOf
      <3>3. Deref(f, IF s.raw THEN "buf" ELSE "pbuf") = DescriptionFor(g)
        <4> HIDE DEF f
        <4> QED
          BY <3>1 DEF Deref
      <3> HIDE DEF f, q
      <3> QED
        BY <1>0, <1>3, <2>2, <3>2, <3>3 DEF Outcome
    <2>3. CASE r = <<Raise(q, "code", t), "null">>
      <3> HIDE DEF f, q, t
      <3>1. Raise(q, "code", t) \in Sets /\ Raise(q, "code", t).open = q.open
            /\ SetOf(Raise(q, "code", t)) = Serial!Failed(SetOf(q), "code", t)
        BY <1>0, RaiseType, SetOfRaise
      <3>2. ErrorText(r[1]) = SetOf(r[1]).text
        BY <1>0, <1>3, <2>3, <3>1, ErrorTextOf
      <3> QED
        BY <1>0, <1>3, <2>3, <3>1, <3>2 DEF Outcome, t
    <2>4. CASE r = <<q, "null">>
      <3> HIDE DEF q
      <3>1. ErrorText(q) = None
        BY <1>0, <1>3, ErrorTextOf, SetOfFields
      <3> QED
        BY <1>0, <1>3, <2>4, <3>1 DEF Outcome
    <2> QED
      BY <2>1, <2>2, <2>3, <2>4
  <1> QED
    BY <1>1, <1>2, <1>3

-----------------------------------------------------------------------------
(* Every step inside of a method keeps the invariant and is a step of the    *)
(* promise, or shows nothing.                                               *)

\* A goroutine that is in libmagic, before its answer is determined.
LEMMA InC_Facts ==
  ASSUME HInv, NEW g \in Goroutines, NEW ops, InC(g, ops)
  PROVE  /\ ~dead /\ at[g] = "c" /\ at[g] \in Inside /\ call[g].op \in ops
         /\ Mine(g) \in Sets /\ Mine(g).open # "none"
         /\ call[g] \in Calls /\ call[g].h \in Handles /\ call[g].op \in Operations
         /\ ret[g] \in Texts \cup {Pending} /\ out[g] \in Pointers
  <1>1. at[g] = "c" /\ ~dead /\ call[g].op \in ops
    BY DEF InC
  <1>2. at[g] \in Inside /\ at[g] # "idle"
    BY <1>1 DEF Inside
  <1>3. Mine(g).open # "none"
    BY <1>2 DEF HInv, CallsOK, Fits
  <1>4. ret[g] \in Texts \cup {Pending} /\ out[g] \in Pointers
    BY DEF HInv, HandlesOK
  <1> QED
    BY <1>1, <1>2, <1>3, <1>4, CallOf DEF HInv

LEMMA FileKeeps ==
  ASSUME HInv, NEW g \in Goroutines, FileOrBuffer(g)
  PROVE  HInv' /\ Serial!Serve(g)
  <1> DEFINE m == Mine(g)
             op == call[g].op
  <1>1. /\ ~dead /\ at[g] = "c" /\ at[g] \in Inside /\ op \in {"File", "Buffer"}
        /\ m \in Sets /\ m.open \in {"null", "open"} /\ ret[g] \in Texts \cup {Pending}
    <2>1. InC(g, {"File", "Buffer"}) /\ m.open # "closed"
      BY DEF FileOrBuffer, Live
    <2>2. m \in Sets /\ m.open # "none"
      BY <2>1, InC_Facts
    <2>3. m.open \in {"null", "open"}
      BY <2>1, <2>2 DEF Sets
    <2> QED
      BY <2>1, <2>2, <2>3, InC_Facts
  <1>2. PICK r \in Identified(g, m) :
          /\ SetMine(g, r[1])
          /\ out' = [out EXCEPT ![g] = r[2]]
          /\ Goes(g, "c", IF op = "File" /\ r[2] = "null" THEN "error" ELSE "copy")
    BY DEF FileOrBuffer
  <1> DEFINE place == IF op = "File" /\ r[2] = "null" THEN "error" ELSE "copy"
             s == r[1]
             p == r[2]
  <1>3. s \in Sets /\ s.open = m.open /\ p \in Pointers /\ place \in Inside
        /\ Outcome(g, m, s, p, ErrorText(s))
    BY <1>1, IdentifiedType, IdentifiedOutcome DEF Pointers, Inside
  <1>4. Effect(g, s, place, p, ret[g])
    <2>1. ret' = [ret EXCEPT ![g] = ret[g]]
      BY DEF FileOrBuffer, HInv, HandlesOK
    <2> QED
      BY <1>2, <2>1 DEF FileOrBuffer, SetMine, Goes, Effect
  <1>5. Fits(op, s, place, p, ret[g])
    BY <1>1, <1>3 DEF Fits
  <1> DEFINE a == ToldOf(op, s, place, p, ret[g])
  <1>6. /\ Serial!Answer(g, SetOf(s), a) /\ Serial!Mine(g) = SetOf(m)
        /\ Requests[g] # Idle /\ Requests[g].op = op /\ Requests[g].ans = Pending
    BY <1>1, <1>3, <1>4, EffectAnswers
  <1>7. a = IF op = "File" /\ p = "null" THEN ErrorText(s) ELSE Deref(s, p)
    BY <1>1 DEF ToldOf
  <1>8. SetOf(m).open = m.open /\ SetOf(m).db = m.db
    BY <1>1, SetOfFields
  <1>9. /\ Serial!None = None /\ Serial!NoRules = NoRules /\ Serial!NotOpen = NotOpen
        /\ Serial!NoDatabase = NoDatabase /\ Serial!Idle = Idle /\ Serial!Pending = Pending
        /\ Serial!DescriptionFor(g) = DescriptionFor(g)
        /\ Serial!ErrorFor(g, "file") = ErrorFor(g, "file")
    BY SameWords
  <1>10. Serial!Serving(g, {op})
    BY <1>1, <1>6, <1>9 DEF Serial!Serving
  <1>11. Serial!WithoutRules(g) = Serial!Failed(SetOf(m), "0", NoRules)
         /\ Serial!NotFound(g) =
              Serial!Failed(Serial!Cleared(SetOf(m)), "code", ErrorFor(g, "file"))
    BY <1>6, <1>9 DEF Serial!WithoutRules, Serial!NotFound
  <1>12. Deref(s, "null") = None
    BY DEF Deref
  <1> HIDE DEF m, op, s, p, a, place
  <1>13. ASSUME op = "File" PROVE Serial!Serve(g)
    <2>1. CASE m.open = "null"
      <3>1. s = m /\ p = "null" /\ ErrorText(s) = NotOpen
        BY <1>3, <2>1 DEF Outcome
      <3> QED
        BY <1>6, <1>7, <1>8, <1>9, <1>10, <1>13, <2>1, <3>1 DEF Serial!Serve, Serial!File
    <2>2. CASE m.open = "open" /\ m.db = NoDatabase
      <3>1. SetOf(s) = Serial!WithoutRules(g) /\ p = "null" /\ ErrorText(s) = SetOf(s).text
        BY <1>3, <1>11, <2>2 DEF Outcome
      <3>2. Serial!Unloaded(g)
        BY <1>6, <1>8, <1>9, <2>2 DEF Serial!Unloaded
      <3> QED
        BY <1>6, <1>7, <1>10, <1>13, <3>1, <3>2 DEF Serial!Serve, Serial!File
    <2>3. CASE m.open = "open" /\ m.db # NoDatabase
      <3>1. Serial!Loaded(g)
        BY <1>6, <1>8, <1>9, <2>3 DEF Serial!Loaded
      <3>2. \/ /\ SetOf(s) = Serial!Cleared(SetOf(m)) /\ p # "null"
               /\ Deref(s, p) = DescriptionFor(g)
            \/ SetOf(s) = Serial!NotFound(g) /\ p = "null" /\ ErrorText(s) = SetOf(s).text
            \/ SetOf(s) = Serial!Cleared(SetOf(m)) /\ p = "null" /\ ErrorText(s) = None
        BY <1>3, <1>11, <2>3 DEF Outcome
      <3> QED
        BY <1>6, <1>7, <1>9, <1>10, <1>13, <3>1, <3>2 DEF Serial!Serve, Serial!File
    <2> QED
      BY <1>1, <2>1, <2>2, <2>3
  <1>14. ASSUME op = "Buffer" PROVE Serial!Serve(g)
    <2>1. CASE m.open = "null"
      <3>1. s = m /\ p = "null"
        BY <1>3, <2>1 DEF Outcome
      <3> QED
        BY <1>6, <1>7, <1>8, <1>9, <1>10, <1>12, <1>14, <2>1, <3>1
           DEF Serial!Serve, Serial!Buffer
    <2>2. CASE m.open = "open" /\ m.db = NoDatabase
      <3>1. SetOf(s) = Serial!WithoutRules(g) /\ p = "null"
        BY <1>3, <1>11, <2>2 DEF Outcome
      <3>2. Serial!Unloaded(g)
        BY <1>6, <1>8, <1>9, <2>2 DEF Serial!Unloaded
      <3> QED
        BY <1>6, <1>7, <1>9, <1>10, <1>12, <1>14, <3>1, <3>2 DEF Serial!Serve, Serial!Buffer
    <2>3. CASE m.open = "open" /\ m.db # NoDatabase
      <3>1. Serial!Loaded(g)
        BY <1>6, <1>8, <1>9, <2>3 DEF Serial!Loaded
      <3>2. \/ /\ SetOf(s) = Serial!Cleared(SetOf(m)) /\ p # "null"
               /\ Deref(s, p) = DescriptionFor(g)
            \/ SetOf(s) = Serial!NotFound(g) /\ p = "null"
            \/ SetOf(s) = Serial!Cleared(SetOf(m)) /\ p = "null"
        BY <1>3, <1>11, <2>3 DEF Outcome
      <3> QED
        BY <1>6, <1>7, <1>9, <1>10, <1>12, <1>14, <3>1, <3>2 DEF Serial!Serve, Serial!Buffer
    <2> QED
      BY <1>1, <2>1, <2>2, <2>3
  <1>15. HInv'
    BY <1>1, <1>3, <1>4, <1>5, EffectKeeps DEF op
  <1> QED
    BY <1>1, <1>13, <1>14, <1>15

LEMMA LiveFacts ==
  ASSUME HInv, NEW g \in Goroutines, NEW ops, Live(g, ops)
  PROVE  /\ ~dead /\ at[g] = "c" /\ at[g] \in Inside /\ call[g].op \in ops
         /\ Mine(g) \in Sets /\ Mine(g).open \in {"null", "open"}
         /\ call[g].h \in Handles
         /\ ret[g] \in Texts \cup {Pending} /\ out[g] \in Pointers
  <1>1. InC(g, ops) /\ Mine(g).open # "closed"
    BY DEF Live
  <1>2. Mine(g) \in Sets /\ Mine(g).open # "none"
    BY <1>1, InC_Facts
  <1>3. Mine(g).open \in {"null", "open"}
    BY <1>1, <1>2 DEF Sets
  <1> QED
    BY <1>1, <1>2, <1>3, InC_Facts

LEMMA Served ==
  ASSUME NEW g, NEW ops, ~dead, call[g].op \in ops,
         Requests[g] # Idle, Requests[g].op = call[g].op, Requests[g].ans = Pending
  PROVE  Serial!Serving(g, ops)
  BY SameWords DEF Serial!Serving

\* A method that returns a number, or nothing.
LEMMA AnswersKeeps ==
  ASSUME HInv, NEW g \in Goroutines, at[g] = "c", ~dead, NEW s \in Sets, s.open # "none",
         NEW x \in Texts, Answers(g, s, x)
  PROVE  /\ HInv' /\ Serial!Answer(g, SetOf(s), x) /\ Serial!Mine(g) = SetOf(Mine(g))
         /\ \A ops : call[g].op \in ops => Serial!Serving(g, ops)
  <1>1. at[g] \in Inside /\ out[g] \in Pointers /\ "unlock" \in Inside
    BY DEF Inside, HInv, HandlesOK
  <1>2. Effect(g, s, "unlock", out[g], x)
    BY DEF Answers, SetMine, Goes, Effect, HInv, HandlesOK
  <1>3. Fits(call[g].op, s, "unlock", out[g], x)
    BY DEF Fits
  <1>4. HInv'
    BY <1>1, <1>2, <1>3, EffectKeeps
  <1>5. ToldOf(call[g].op, s, "unlock", out[g], x) = x
    BY DEF ToldOf
  <1>6. /\ Serial!Answer(g, SetOf(s), x) /\ Serial!Mine(g) = SetOf(Mine(g))
        /\ Requests[g] # Idle /\ Requests[g].op = call[g].op /\ Requests[g].ans = Pending
    BY <1>1, <1>2, <1>5, EffectAnswers
  <1> QED
    BY <1>4, <1>6, Served

LEMMA ErrnoKeeps ==
  ASSUME HInv, NEW g \in Goroutines, Errno(g)
  PROVE  HInv' /\ Serial!Serve(g)
  <1> DEFINE m == Mine(g)
             x == Number(Magic_errno(m))
  <1>1. /\ ~dead /\ at[g] = "c" /\ call[g].op = "Errno" /\ m \in Sets
        /\ m.open \in {"null", "open"} /\ Answers(g, m, x)
    BY LiveFacts DEF Errno
  <1>2. m.event \in {"none", "0", "code"}
    BY <1>1 DEF Sets
  <1>3. x \in Texts
    BY <1>2, ConstantTexts DEF Magic_errno
  <1>4. /\ HInv' /\ Serial!Answer(g, SetOf(m), x) /\ Serial!Mine(g) = SetOf(m)
        /\ Serial!Serving(g, {"Errno"})
    BY <1>1, <1>3, AnswersKeeps
  <1>5. SetOf(m).open = m.open /\ SetOf(m).failure = m.event
    BY <1>1, SetOfFields
  <1>6. x = IF m.open = "null" THEN Number("EINVAL")
            ELSE IF m.event = "none" THEN Number("0") ELSE Number(m.event)
    BY DEF Magic_errno
  <1>7. \A n : Serial!Number(n) = Number(n)
    BY SameWords
  <1> HIDE DEF m, x
  <1>8. Serial!Errno(g)
    BY <1>1, <1>4, <1>5, <1>6, <1>7 DEF Serial!Errno
  <1> QED
    BY <1>4, <1>8 DEF Serial!Serve

LEMMA SetFlagsKeeps ==
  ASSUME HInv, NEW g \in Goroutines, SetFlags(g)
  PROVE  HInv' /\ Serial!Serve(g)
  <1> DEFINE m == Mine(g)
  <1>1. /\ ~dead /\ at[g] = "c" /\ call[g].op = "SetFlags" /\ m \in Sets
        /\ m.open \in {"null", "open"}
    BY LiveFacts DEF SetFlags
  <1>2. PICK r \in Magic_setflags(m) : Answers(g, r[1], Number(r[2]))
    BY DEF SetFlags
  <1>3. /\ r[1] \in Sets /\ r[1].open = m.open /\ SetOf(r[1]) = SetOf(m)
        /\ \/ r[2] = "-1"
           \/ r[2] = "0" /\ m.open = "open"
    <2>1. CASE r = <<m, "-1">>
      BY <1>1, <2>1
    <2>2. CASE r # <<m, "-1">>
      <3>1. m.open = "open" /\ \E b \in BOOLEAN : r = <<[m EXCEPT !.raw = b], "0">>
        BY <1>1, <1>2, <2>2 DEF Magic_setflags
      <3>2. PICK b \in BOOLEAN : r = <<[m EXCEPT !.raw = b], "0">>
        BY <3>1
      <3> DEFINE f == [m EXCEPT !.raw = b]
      <3>3. /\ f \in Sets /\ f.open = m.open /\ f.db = m.db /\ f.event = m.event
            /\ f.buf = m.buf
        BY <1>1 DEF Sets
      <3> HIDE DEF f, m
      <3>4. SetOf(f) = SetOf(m)
        BY <3>3 DEF SetOf
      <3> QED
        BY <3>1, <3>2, <3>3, <3>4 DEF f
    <2> QED
      BY <2>1, <2>2
  <1>4. Number(r[2]) \in Texts
    BY <1>3, ConstantTexts
  <1>5. /\ HInv' /\ Serial!Answer(g, SetOf(m), Number(r[2])) /\ Serial!Mine(g) = SetOf(m)
        /\ Serial!Serving(g, {"SetFlags"})
    BY <1>1, <1>2, <1>3, <1>4, AnswersKeeps
  <1>6. SetOf(m).open = m.open
    BY <1>1, SetOfFields
  <1>7. \A n : Serial!Number(n) = Number(n)
    BY SameWords
  <1> HIDE DEF m
  <1>8. Serial!SetFlags(g)
    BY <1>1, <1>3, <1>5, <1>6, <1>7 DEF Serial!SetFlags
  <1> QED
    BY <1>5, <1>8 DEF Serial!Serve

LEMMA CloseKeeps ==
  ASSUME HInv, NEW g \in Goroutines, Close(g)
  PROVE  HInv' /\ Serial!Serve(g)
  <1> DEFINE m == Mine(g)
             s == IF m.open = "null" THEN m ELSE Opened("closed")
  <1>1. /\ ~dead /\ at[g] = "c" /\ call[g].op = "Close" /\ m \in Sets
        /\ m.open \in {"null", "open"} /\ Answers(g, s, None)
    BY LiveFacts DEF Close
  <1>2. Opened("closed") \in Sets /\ Opened("closed").open = "closed"
    BY ConstantTexts DEF Opened, Sets, NoDatabase, Database, Databases
  <1>3. s \in Sets /\ s.open # "none"
    BY <1>1, <1>2
  <1>4. /\ HInv' /\ Serial!Answer(g, SetOf(s), None) /\ Serial!Mine(g) = SetOf(m)
        /\ Serial!Serving(g, {"Close"})
    BY <1>1, <1>3, ConstantTexts, AnswersKeeps
  <1>5. SetOf(m).open = m.open
    BY <1>1, SetOfFields
  <1>6. SetOf(Opened("closed")) = Serial!New("closed") /\ Serial!None = None
    BY SameWords DEF SetOf, Opened, Serial!New
  <1>7. \/ m.open = "null" /\ s = m
        \/ m.open = "open" /\ s = Opened("closed")
    BY <1>1
  <1> HIDE DEF m, s
  <1>8. Serial!Close(g)
    BY <1>4, <1>5, <1>6, <1>7 DEF Serial!Close
  <1> QED
    BY <1>4, <1>8 DEF Serial!Serve

LEMMA EmptyBufferKeeps ==
  ASSUME HInv, NEW g \in Goroutines, EmptyBuffer(g)
  PROVE  HInv' /\ Serial!Serve(g)
  <1> DEFINE m == Mine(g)
  <1>1. /\ ~dead /\ at[g] = "c" /\ call[g].op = "EmptyBuffer" /\ m \in Sets
        /\ m.open # "none" /\ Answers(g, m, Panic)
    BY InC_Facts DEF EmptyBuffer
  <1>2. /\ HInv' /\ Serial!Answer(g, SetOf(m), Panic) /\ Serial!Mine(g) = SetOf(m)
        /\ Serial!Serving(g, {"EmptyBuffer"})
    BY <1>1, ConstantTexts, AnswersKeeps
  <1>3. SetOf(m).open = m.open /\ m.open \in {"null", "open", "closed", "none"}
    BY <1>1, SetOfFields
  <1>4. Serial!Panic = Panic
    BY SameWords
  <1> HIDE DEF m
  <1>5. Serial!EmptyBuffer(g) \/ Serial!EmptyAfterClose(g)
    BY <1>1, <1>2, <1>3, <1>4 DEF Serial!EmptyBuffer, Serial!EmptyAfterClose
  <1> QED
    BY <1>2, <1>5 DEF Serial!Serve

\* The results of file_apprentice, for its callers.
ApprenticeOutcome(g, s, db, after, n) ==
  \/ s.open = "null" /\ after = s /\ n = "-1"
  \/ /\ s.open # "null" /\ n = "0"
     /\ SetOf(after) = [Serial!Cleared(SetOf(s)) EXCEPT !.db = db]
  \/ /\ s.open # "null" /\ n = "0"
     /\ SetOf(after) = Serial!Failed([Serial!Cleared(SetOf(s)) EXCEPT !.db = db], "code",
                                     ErrorFor(g, "load"))
  \/ /\ s.open # "null" /\ n = "-1"
     /\ \E d \in {s.db, NoDatabase}, e \in {"0", "code"} :
          SetOf(after) = Serial!Failed([Serial!Cleared(SetOf(s)) EXCEPT !.db = d], e,
                                       ErrorFor(g, "load"))

\* A handle with another database.
LEMMA SetOfDatabase ==
  ASSUME NEW s \in Sets, NEW d \in Databases
  PROVE  /\ [s EXCEPT !.db = d] \in Sets /\ [s EXCEPT !.db = d].open = s.open
         /\ SetOf([s EXCEPT !.db = d]) = [SetOf(s) EXCEPT !.db = d]
  <1> DEFINE f == [s EXCEPT !.db = d]
  <1>1. /\ f \in Sets /\ f.open = s.open /\ f.db = d /\ f.event = s.event /\ f.buf = s.buf
    BY DEF Sets
  <1> HIDE DEF f
  <1>2. SetOf(f) = [SetOf(s) EXCEPT !.db = d]
    BY <1>1 DEF SetOf
  <1> QED
    BY <1>1, <1>2 DEF f

LEMMA ApprenticeResult ==
  ASSUME NEW g \in Goroutines, NEW s \in Sets, NEW db \in Databases,
         NEW r \in Apprentice(g, s, db)
  PROVE  ApprenticeOutcome(g, s, db, r[1], r[2])
  <1> DEFINE q == Reset(s)
             with(d) == [q EXCEPT !.db = d]
             c == Serial!Cleared(SetOf(s))
             cwith(d) == [c EXCEPT !.db = d]
             t == ErrorFor(g, "load")
  <1>1. t \in Texts /\ q \in Sets /\ SetOf(q) = c /\ q.db = s.db
        /\ s.db \in Databases /\ NoDatabase \in Databases
    BY TextsOf, ResetType, SetOfReset DEF Sets, NoDatabase, Database, Databases
  <1>2. ASSUME NEW d \in Databases PROVE with(d) \in Sets /\ SetOf(with(d)) = cwith(d)
    <2> HIDE DEF q, c
    <2> QED
      BY <1>1, SetOfDatabase
  <1>3. CASE s.open = "null"
    <2>1. r = <<s, "-1">>
      BY <1>3 DEF Apprentice
    <2> QED
      BY <1>3, <2>1 DEF ApprenticeOutcome
  <1>4. CASE s.open # "null"
    <2>1. r \in {<<with(db), "0">>, <<Raise(with(db), "code", t), "0">>}
                \cup {<<Raise(with(d), n, t), "-1">> :
                        d \in {q.db, NoDatabase}, n \in {"0", "code"}}
      BY <1>4 DEF Apprentice
    <2> HIDE DEF q, c, with, cwith, t
    <2>2. ASSUME NEW d \in Databases, NEW e \in {"0", "code"}
          PROVE  SetOf(Raise(with(d), e, t)) = Serial!Failed(cwith(d), e, t)
      BY <1>1, <1>2, SetOfRaise
    <2>3. CASE r = <<with(db), "0">>
      <3>1. SetOf(r[1]) = cwith(db) /\ r[2] = "0"
        BY <1>2, <2>3
      <3> QED
        BY <1>4, <3>1 DEF ApprenticeOutcome, cwith, c
    <2>4. CASE r = <<Raise(with(db), "code", t), "0">>
      <3>1. SetOf(r[1]) = Serial!Failed(cwith(db), "code", t) /\ r[2] = "0"
        BY <2>2, <2>4
      <3> QED
        BY <1>4, <3>1 DEF ApprenticeOutcome, cwith, c, t
    <2>5. CASE r \in {<<Raise(with(d), n, t), "-1">> :
                        d \in {q.db, NoDatabase}, n \in {"0", "code"}}
      <3>1. PICK d \in {s.db, NoDatabase}, e \in {"0", "code"} :
              r = <<Raise(with(d), e, t), "-1">>
        BY <1>1, <2>5
      <3>2. SetOf(r[1]) = Serial!Failed(cwith(d), e, t) /\ r[2] = "-1"
        BY <1>1, <2>2, <3>1
      <3> QED
        BY <1>4, <3>2 DEF ApprenticeOutcome, cwith, c, t
    <2> QED
      BY <2>1, <2>3, <2>4, <2>5
  <1> QED
    BY <1>3, <1>4

\* A load is one of the loads that SerialHandle allows.
LEMMA LoadSeen ==
  ASSUME NEW g \in Goroutines, NEW s \in Sets, NEW db \in Databases,
         s.open \in {"null", "open"}, NEW after, NEW n,
         ApprenticeOutcome(g, s, db, after, n),
         Serial!Mine(g) = SetOf(s), NEW databases, db \in databases,
         NEW done, NEW failed, NEW x, x = IF n = "0" THEN done ELSE failed,
         Serial!Answer(g, SetOf(after), x)
  PROVE  Serial!LoadAny(g, databases, done, failed)
  <1> DEFINE c == Serial!Cleared(SetOf(s))
             y == SetOf(after)
  <1>1. SetOf(s).open = s.open /\ SetOf(s).db = s.db
    BY SetOfFields
  <1>2. c.db = s.db
    <2>1. SetOf(Reset(s)) = c /\ Reset(s) \in Sets /\ Reset(s).db = s.db
      BY SetOfReset, ResetType
    <2> QED
      BY <2>1, SetOfFields
  <1>3. Serial!ErrorFor(g, "load") = ErrorFor(g, "load") /\ Serial!NoDatabase = NoDatabase
    BY SameWords
  <1> HIDE DEF c, y
  <1>4. CASE s.open = "null"
    <2>1. after = s /\ n = "-1"
      BY <1>4 DEF ApprenticeOutcome
    <2> QED
      BY <1>1, <1>4, <2>1 DEF Serial!LoadAny
  <1>5. CASE s.open = "open" /\ n = "0"
    <2>1. y = [c EXCEPT !.db = db]
          \/ y = Serial!Failed([c EXCEPT !.db = db], "code", ErrorFor(g, "load"))
      BY <1>5 DEF ApprenticeOutcome, c, y
    <2>2. Serial!Answer(g, y, done)
      BY <1>5 DEF y
    <2> QED
      BY <1>1, <1>3, <1>5, <2>1, <2>2 DEF Serial!LoadAny, c
  <1>6. CASE s.open = "open" /\ n # "0"
    <2>1. PICK d \in {c.db, NoDatabase}, e \in {"0", "code"} :
            y = Serial!Failed([c EXCEPT !.db = d], e, ErrorFor(g, "load"))
      BY <1>2, <1>6 DEF ApprenticeOutcome, c, y
    <2>2. Serial!Answer(g, y, failed)
      BY <1>6 DEF y
    <2>3. Serial!Answer(g, Serial!Failed([c EXCEPT !.db = d], e, ErrorFor(g, "load")), failed)
      BY <2>1, <2>2
    <2> QED
      BY <1>1, <1>3, <1>6, <2>3 DEF Serial!LoadAny, c
  <1> QED
    BY <1>4, <1>5, <1>6

LEMMA FilesDatabase == FromFiles \in Databases
  BY DEF FromFiles, Database, Databases

LEMMA LoadKeeps ==
  ASSUME HInv, NEW g \in Goroutines, Load(g)
  PROVE  HInv' /\ Serial!Serve(g)
  <1> DEFINE m == Mine(g)
  <1>1. /\ ~dead /\ at[g] = "c" /\ call[g].op \in {"Load", "LoadDefaultPath"}
        /\ m \in Sets /\ m.open \in {"null", "open"}
    BY LiveFacts DEF Load
  <1>2. PICK r \in Apprentice(g, m, FromFiles) : Answers(g, r[1], Number(r[2]))
    BY DEF Load
  <1> DEFINE s == r[1]
             n == r[2]
  <1>3. /\ s \in Sets /\ s.open = m.open /\ n \in {"0", "-1"}
        /\ ApprenticeOutcome(g, m, FromFiles, s, n)
    BY <1>1, FilesDatabase, ApprenticeType, ApprenticeResult
  <1>4. Number(n) \in Texts /\ Number(n) = IF n = "0" THEN Number("0") ELSE Number("-1")
    BY <1>3, ConstantTexts
  <1>5. /\ HInv' /\ Serial!Answer(g, SetOf(s), Number(n)) /\ Serial!Mine(g) = SetOf(m)
        /\ Serial!Serving(g, {"Load", "LoadDefaultPath"})
    BY <1>1, <1>2, <1>3, <1>4, AnswersKeeps
  <1> HIDE DEF m, s, n
  <1>6. Serial!LoadAny(g, {FromFiles}, Number("0"), Number("-1"))
    BY <1>1, <1>3, <1>4, <1>5, FilesDatabase, LoadSeen
  <1>7. Serial!FromFiles = FromFiles /\ \A i : Serial!Number(i) = Number(i)
    BY SameWords
  <1>8. Serial!Load(g)
    BY <1>5, <1>6, <1>7 DEF Serial!Load
  <1> QED
    BY <1>5, <1>8 DEF Serial!Serve

\* The path was found: the load answers.
LEMMA LoadDefaultPathKeeps ==
  ASSUME HInv, NEW g \in Goroutines, LoadDefaultPath(g)
  PROVE  HInv' /\ Serial!Serve(g)
  <1> DEFINE m == Mine(g)
  <1>1. /\ ~dead /\ at[g] = "path" /\ at[g] \in Inside /\ "unlock" \in Inside
        /\ at[g] # "idle" /\ out[g] \in Pointers
    BY DEF LoadDefaultPath, Goes, Inside, HInv, HandlesOK
  <1>2. call[g].op = "LoadDefaultPath" /\ m.open = "open" /\ m \in Sets
    BY <1>1, CallOf DEF HInv, CallsOK, Fits
  <1>3. PICK r \in Apprentice(g, m, FromFiles) :
          SetMine(g, r[1]) /\ ret' = [ret EXCEPT ![g] = Number(r[2])]
    BY DEF LoadDefaultPath
  <1> DEFINE s == r[1]
             n == r[2]
  <1>4. /\ s \in Sets /\ s.open = m.open /\ n \in {"0", "-1"}
        /\ ApprenticeOutcome(g, m, FromFiles, s, n)
    BY <1>2, FilesDatabase, ApprenticeType, ApprenticeResult
  <1>5. Number(n) \in Texts /\ Number(n) = IF n = "0" THEN Number("0") ELSE Number("-1")
    BY <1>4, ConstantTexts
  <1>6. Effect(g, s, "unlock", out[g], Number(n))
    BY <1>3 DEF LoadDefaultPath, SetMine, Goes, Effect, HInv, HandlesOK
  <1>7. Fits(call[g].op, s, "unlock", out[g], Number(n))
    BY <1>2, <1>4, <1>5 DEF Fits
  <1>8. HInv'
    BY <1>1, <1>4, <1>5, <1>6, <1>7, EffectKeeps
  <1>9. ToldOf(call[g].op, s, "unlock", out[g], Number(n)) = Number(n)
    BY DEF ToldOf
  <1>10. /\ Serial!Answer(g, SetOf(s), Number(n)) /\ Serial!Mine(g) = SetOf(m)
         /\ Requests[g] # Idle /\ Requests[g].op = call[g].op /\ Requests[g].ans = Pending
    BY <1>1, <1>4, <1>5, <1>6, <1>9, EffectAnswers
  <1>11. Serial!Serving(g, {"Load", "LoadDefaultPath"})
    BY <1>1, <1>2, <1>10, Served
  <1> HIDE DEF m, s, n
  <1>12. Serial!LoadAny(g, {FromFiles}, Number("0"), Number("-1"))
    BY <1>2, <1>4, <1>5, <1>10, FilesDatabase, LoadSeen
  <1>13. Serial!FromFiles = FromFiles /\ \A i : Serial!Number(i) = Number(i)
    BY SameWords
  <1>14. Serial!Load(g)
    BY <1>11, <1>12, <1>13 DEF Serial!Load
  <1> QED
    BY <1>8, <1>14 DEF Serial!Serve

\* C reads a beginning of the text that the goroutine has unpacked and read back.
LEMMA GivenIsBundled ==
  ASSUME TypeOK, NEW g \in Goroutines, NEW given \in CStrings(text[g])
  PROVE  /\ Database("bundle", given) \in Serial!BundledDatabases
         /\ Database("bundle", given) \in Databases
  <1> DEFINE t == text[g]
  <1>1. /\ bundle \in Seq(Nat \ {0}) /\ Placed(t) /\ Blocks \in Nat /\ Blocks = Len(bundle)
        /\ t \in Seq(Nat) /\ Len(t) \in Nat /\ Len(t) <= Blocks
    BY DEF TypeOK, Placed, Blocks
  <1>2. PICK k \in 0..Len(t) : Visible(t) = 1..k /\ given = SubSeq(t, 1, k)
    BY DEF CStrings
  <1>3. \A i \in 1..k : i \in 1..Blocks /\ t[i] = bundle[i]
    BY <1>1, <1>2, PlacedPrefix
  <1>4. k \in 0..Len(bundle) /\ k \in Nat
    BY <1>1, <1>2
  <1> HIDE DEF t
  <1>5. given = [i \in 1..k |-> t[i]]
    BY <1>1, <1>2, <1>4
  <1>6. SubSeq(bundle, 1, k) = [i \in 1..k |-> bundle[i]]
    BY <1>1, <1>4
  <1>7. given = SubSeq(bundle, 1, k)
    BY <1>3, <1>5, <1>6
  <1>8. given \in Seq(Nat \ {0})
    BY <1>1, <1>4, <1>7
  <1>9. Serial!Database("bundle", given) = Database("bundle", given)
    BY SameWords
  <1>10. Database("bundle", given) \in Serial!BundledDatabases
    BY <1>4, <1>7, <1>9 DEF Serial!BundledDatabases
  <1> QED
    BY <1>8, <1>10 DEF Database, Databases

LEMMA LoadBundledKeeps ==
  ASSUME HInv, TypeOK, NEW g \in Goroutines, LoadBundled(g)
  PROVE  HInv' /\ Serial!Serve(g)
  <1> DEFINE m == Mine(g)
  <1>1. /\ ~dead /\ at[g] = "c" /\ call[g].op = "LoadDefaultMagic"
        /\ m \in Sets /\ m.open \in {"null", "open"} /\ at[g] \in Inside
        /\ "unlock" \in Inside /\ out[g] \in Pointers
    BY LiveFacts DEF LoadBundled, Inside
  <1>2. PICK given \in CStrings(text[g]) :
          \E r \in Apprentice(g, m, Database("bundle", given)) : SetMine(g, r[1])
    BY DEF LoadBundled
  <1> DEFINE db == Database("bundle", given)
  <1>3. db \in Serial!BundledDatabases /\ db \in Databases
    BY GivenIsBundled
  <1>4. PICK r \in Apprentice(g, m, db) : SetMine(g, r[1])
    BY <1>2
  <1> DEFINE s == r[1]
             n == r[2]
  <1>5. /\ s \in Sets /\ s.open = m.open
        /\ ApprenticeOutcome(g, m, db, s, n)
    BY <1>1, <1>3, ApprenticeType, ApprenticeResult
  <1>6. Effect(g, s, "unlock", out[g], None)
    BY <1>4 DEF LoadBundled, SetMine, Goes, Effect, HInv, HandlesOK
  <1>7. Fits(call[g].op, s, "unlock", out[g], None) /\ None \in Texts
    BY <1>1, <1>5, ConstantTexts DEF Fits
  <1>8. HInv'
    BY <1>1, <1>5, <1>6, <1>7, EffectKeeps
  <1>9. ToldOf(call[g].op, s, "unlock", out[g], None) = None
    BY DEF ToldOf
  <1>10. /\ Serial!Answer(g, SetOf(s), None) /\ Serial!Mine(g) = SetOf(m)
         /\ Requests[g] # Idle /\ Requests[g].op = call[g].op /\ Requests[g].ans = Pending
    BY <1>1, <1>5, <1>6, <1>7, <1>9, EffectAnswers
  <1>11. Serial!Serving(g, {"LoadDefaultMagic"})
    BY <1>1, <1>10, Served
  <1> HIDE DEF m, s, n, db
  <1>12. Serial!LoadAny(g, Serial!BundledDatabases, None, None)
    BY <1>1, <1>3, <1>5, <1>10, LoadSeen
  <1>13. Serial!None = None
    BY SameWords
  <1>14. Serial!LoadDefaultMagic(g)
    BY <1>11, <1>12, <1>13 DEF Serial!LoadDefaultMagic
  <1> QED
    BY <1>8, <1>14 DEF Serial!Serve

-----------------------------------------------------------------------------
\* The steps that the callers do not see.

\* Nothing of the handle changes.
LEMMA SameHandle ==
  ASSUME HInv, NEW g \in Goroutines, at[g] # "idle"
  PROVE  [ms EXCEPT ![call[g].h] = Mine(g)] = ms
  BY CallOf DEF HInv, HandlesOK, Mine

LEMMA FileErrorKeeps ==
  ASSUME HInv, NEW g \in Goroutines, FileError(g)
  PROVE  HInv' /\ UNCHANGED Serial!serialVars
  <1> DEFINE m == Mine(g)
             p == Magic_error(m)
             x == ret[g]
  <1>1. /\ at[g] = "error" /\ at[g] \in Inside /\ at[g] # "idle" /\ "copy" \in Inside
        /\ x \in Texts \cup {Pending}
    BY DEF FileError, Goes, Inside, HInv, HandlesOK
  <1>2. call[g].op = "File" /\ m.open \in {"null", "open"} /\ m \in Sets
    BY <1>1, CallOf DEF HInv, CallsOK, Fits
  <1>3. Deref(m, p) = ErrorText(m) /\ p \in Pointers
    BY ErrorDeref DEF Pointers
  <1>4. Effect(g, m, "copy", p, x)
    <2>1. ret' = [ret EXCEPT ![g] = x]
      BY DEF FileError, HInv, HandlesOK
    <2> QED
      BY <1>1, <2>1, SameHandle DEF FileError, Goes, Effect
  <1>5. Fits(call[g].op, m, "copy", p, x)
    BY <1>2 DEF Fits
  <1>6. HInv'
    BY <1>1, <1>2, <1>3, <1>4, <1>5, EffectKeeps
  <1>7. ToldOf(call[g].op, m, "copy", p, x) = Told(g)
    BY <1>1, <1>2, <1>3 DEF ToldOf, Told
  <1>8. UNCHANGED Serial!serialVars
    BY <1>1, <1>2, <1>3, <1>4, <1>7, EffectHidden
  <1> QED
    BY <1>6, <1>8

LEMMA GetErrorKeeps ==
  ASSUME HInv, NEW g \in Goroutines, GetError(g)
  PROVE  HInv' /\ UNCHANGED Serial!serialVars
  <1> DEFINE m == Mine(g)
             p == Magic_error(m)
             x == ret[g]
  <1>1. /\ at[g] = "c" /\ at[g] \in Inside /\ at[g] # "idle" /\ "copy" \in Inside
        /\ x \in Texts \cup {Pending} /\ call[g].op = "GetError"
        /\ m.open \in {"null", "open"} /\ m \in Sets
    BY LiveFacts DEF GetError, Inside
  <1>2. Deref(m, p) = ErrorText(m) /\ p \in Pointers
    BY ErrorDeref DEF Pointers
  <1>3. Effect(g, m, "copy", p, x)
    <2>1. ret' = [ret EXCEPT ![g] = x]
      BY DEF GetError, HInv, HandlesOK
    <2> QED
      BY <1>1, <2>1, SameHandle DEF GetError, Goes, Effect
  <1>4. Fits(call[g].op, m, "copy", p, x)
    BY <1>1, <1>2 DEF Fits
  <1>5. HInv'
    BY <1>1, <1>2, <1>3, <1>4, EffectKeeps
  <1>6. ToldOf(call[g].op, m, "copy", p, x) = Told(g)
    BY <1>1 DEF ToldOf, Told
  <1>7. UNCHANGED Serial!serialVars
    BY <1>1, <1>2, <1>3, <1>6, EffectHidden
  <1> QED
    BY <1>5, <1>7

LEMMA CopyKeeps ==
  ASSUME HInv, NEW g \in Goroutines, Copy(g)
  PROVE  HInv' /\ UNCHANGED Serial!serialVars
  <1> DEFINE m == Mine(g)
             place == IF call[g].op = "GetError" THEN "clear" ELSE "unlock"
             x == Deref(m, out[g])
  <1>1. /\ at[g] = "copy" /\ at[g] \in Inside /\ at[g] # "idle" /\ place \in Inside
        /\ out[g] \in Pointers /\ "null" \in Pointers
    BY DEF Copy, Goes, Inside, HInv, HandlesOK, Pointers
  <1>2. m \in Sets /\ Fits(call[g].op, m, "copy", out[g], ret[g])
    BY <1>1, CallOf DEF HInv, CallsOK
  <1>3. x \in Texts
    BY <1>1, <1>2, DerefType DEF Pointers
  <1>4. Effect(g, m, place, "null", x)
    BY <1>1, SameHandle DEF Copy, Goes, Effect
  <1>5. Fits(call[g].op, m, place, "null", x)
    BY <1>2, <1>3 DEF Fits
  <1>6. HInv'
    BY <1>1, <1>2, <1>3, <1>4, <1>5, EffectKeeps
  <1>7. ToldOf(call[g].op, m, place, "null", x) = Told(g)
    BY <1>1 DEF ToldOf, Told
  <1>8. UNCHANGED Serial!serialVars
    BY <1>1, <1>2, <1>3, <1>4, <1>7, EffectHidden
  <1> QED
    BY <1>6, <1>8

LEMMA AskPathKeeps ==
  ASSUME HInv, NEW g \in Goroutines, AskPath(g)
  PROVE  HInv' /\ UNCHANGED Serial!serialVars
  <1> DEFINE m == Mine(g)
             x == ret[g]
             p == out[g]
  <1>1. /\ at[g] = "c" /\ at[g] \in Inside /\ at[g] # "idle" /\ "path" \in Inside
        /\ x \in Texts \cup {Pending} /\ call[g].op = "LoadDefaultPath"
        /\ m.open = "open" /\ m \in Sets /\ p \in Pointers
    BY LiveFacts DEF AskPath, Inside
  <1>2. Effect(g, m, "path", p, x)
    <2>1. ret' = [ret EXCEPT ![g] = x] /\ out' = [out EXCEPT ![g] = p]
      BY DEF AskPath, HInv, HandlesOK
    <2> QED
      BY <1>1, <2>1, SameHandle DEF AskPath, Goes, Effect
  <1>3. Fits(call[g].op, m, "path", p, x)
    BY <1>1 DEF Fits
  <1>4. HInv'
    BY <1>1, <1>2, <1>3, EffectKeeps
  <1>5. ToldOf(call[g].op, m, "path", p, x) = Told(g)
    BY <1>1 DEF ToldOf, Told
  <1>6. UNCHANGED Serial!serialVars
    BY <1>1, <1>2, <1>5, EffectHidden
  <1> QED
    BY <1>4, <1>6

\* GetError answers when it frees the text that it has copied.
LEMMA ClearKeeps ==
  ASSUME HInv, NEW g \in Goroutines, Clear(g)
  PROVE  HInv' /\ Serial!Serve(g)
  <1> DEFINE m == Mine(g)
             s == IF m.open = "null" THEN m ELSE [m EXCEPT !.buf = None]
             x == ret[g]
             p == out[g]
  <1>1. /\ ~dead /\ at[g] = "clear" /\ at[g] \in Inside /\ at[g] # "idle"
        /\ "unlock" \in Inside /\ x \in Texts \cup {Pending} /\ p \in Pointers
    BY DEF Clear, Goes, Inside, HInv, HandlesOK
  <1>2. /\ call[g].op = "GetError" /\ m.open \in {"null", "open"} /\ m \in Sets
        /\ x = ErrorText(m)
    BY <1>1, CallOf DEF HInv, CallsOK, Fits
  <1>3. /\ s \in Sets /\ s.open = m.open /\ s.db = m.db /\ s.event = m.event
        /\ m.open # "null" => s.buf = None
    BY <1>2, ConstantTexts DEF Sets
  <1>4. x \in Texts
    BY <1>2, DerefType
  <1>5. Effect(g, s, "unlock", p, x)
    <2>1. ret' = [ret EXCEPT ![g] = x] /\ out' = [out EXCEPT ![g] = p]
      BY DEF Clear, HInv, HandlesOK
    <2> QED
      BY <1>1, <2>1 DEF Clear, SetMine, Goes, Effect
  <1>6. Fits(call[g].op, s, "unlock", p, x)
    BY <1>2, <1>3, <1>4 DEF Fits
  <1>7. HInv'
    BY <1>1, <1>3, <1>4, <1>5, <1>6, EffectKeeps
  <1>8. ToldOf(call[g].op, s, "unlock", p, x) = x
    BY DEF ToldOf
  <1>9. /\ Serial!Answer(g, SetOf(s), x) /\ Serial!Mine(g) = SetOf(m)
        /\ Requests[g] # Idle /\ Requests[g].op = call[g].op /\ Requests[g].ans = Pending
    BY <1>1, <1>3, <1>4, <1>5, <1>8, EffectAnswers
  <1>10. Serial!Serving(g, {"GetError"})
    BY <1>1, <1>2, <1>9, Served
  <1>11. Serial!NotOpen = NotOpen /\ Serial!None = None /\ SetOf(m).open = m.open
    BY <1>2, SameWords, SetOfFields
  <1>12. CASE m.open = "null"
    <2>1. s = m /\ x = NotOpen
      BY <1>2, <1>12, ErrorTextOf
    <2>2. Serial!GetError(g)
      BY <1>9, <1>10, <1>11, <1>12, <2>1 DEF Serial!GetError
    <2> QED
      BY <1>7, <2>2 DEF Serial!Serve
  <1>13. CASE m.open = "open"
    <2>1. x = SetOf(m).text
      BY <1>2, <1>13, ErrorTextOf
    <2>2. SetOf(s) = [SetOf(m) EXCEPT !.text = None]
      <3> HIDE DEF s, m
      <3> QED
        BY <1>3, <1>13 DEF SetOf
    <2> HIDE DEF m, s, x
    <2>3. Serial!GetError(g)
      BY <1>9, <1>10, <1>11, <1>13, <2>1, <2>2 DEF Serial!GetError
    <2> QED
      BY <1>7, <2>3 DEF Serial!Serve
  <1> QED
    BY <1>2, <1>12, <1>13

-----------------------------------------------------------------------------
(* The steps between the methods and the mutex. *)

\* A goroutine g moves to place, with the call c; the handles stay as they are.
Moves(g, place, c) ==
  /\ at' = [at EXCEPT ![g] = place]
  /\ call' = [call EXCEPT ![g] = c]
  /\ UNCHANGED <<ms, out, dead>>

\* The promise to the others does not see it.
LEMMA MovesSeen ==
  ASSUME HInv, NEW g \in Goroutines, NEW place, NEW c, Moves(g, place, c),
         \A k \in Goroutines \ {g} : ret'[k] = ret[k]
  PROVE  /\ SetsOf' = SetsOf
         /\ \A k \in Goroutines \ {g} : Requests'[k] = Requests[k]
         /\ Requests'[g] = IF place = "idle" THEN Idle
                           ELSE [op |-> c.op, h |-> c.h,
                                 ans |-> ToldOf(c.op, ms[c.h], place, out[g], ret'[g])]
  <1>1. SetsOf' = SetsOf
    BY DEF SetsOf, SetOf, Moves
  <1>2. ASSUME NEW k \in Goroutines \ {g} PROVE Requests'[k] = Requests[k]
    <2>1. at'[k] = at[k] /\ call'[k] = call[k] /\ ret'[k] = ret[k] /\ out' = out /\ ms' = ms
      BY DEF Moves, HInv, HandlesOK
    <2>2. Told(k)' = Told(k)
      BY <2>1 DEF Told, Mine, Deref, ErrorText
    <2> QED
      BY <2>1, <2>2 DEF Requests, RequestOf
  <1>3. Requests'[g] = IF place = "idle" THEN Idle
                       ELSE [op |-> c.op, h |-> c.h,
                             ans |-> ToldOf(c.op, ms[c.h], place, out[g], ret'[g])]
    <2>1. at'[g] = place /\ call'[g] = c /\ out' = out /\ ms' = ms
      BY DEF Moves, HInv, HandlesOK
    <2>2. Told(g)' = ToldOf(c.op, ms[c.h], place, out[g], ret'[g])
      BY <2>1 DEF Told, ToldOf, Mine, Deref, ErrorText
    <2> QED
      BY <2>1, <2>2 DEF Requests, RequestOf
  <1> QED
    BY <1>1, <1>2, <1>3

\* A step of g that is not seen at all.
LEMMA MovesHidden ==
  ASSUME HInv, NEW g \in Goroutines, at[g] # "idle", Told(g) = Pending,
         NEW place \in {"bundle", "lock", "c"}, Moves(g, place, call[g]), UNCHANGED ret
  PROVE  UNCHANGED Serial!serialVars
  <1>1. ToldOf(call[g].op, Mine(g), place, out[g], ret[g]) = Pending
    BY DEF ToldOf
  <1>2. Requests[g] = Request(g, Pending)
    BY RequestIs
  <1>3. SetsOf' = SetsOf /\ \A k \in Goroutines : Requests'[k] = Requests[k]
    BY <1>1, <1>2, MovesSeen DEF Request, Mine
  <1>4. /\ Requests = [k \in Goroutines |-> Requests[k]]
        /\ Requests' = [k \in Goroutines |-> Requests'[k]]
    BY DEF Requests
  <1>5. Requests' = Requests
    BY <1>3, <1>4
  <1> QED
    BY <1>3, <1>5 DEF Serial!serialVars, Moves

LEMMA LockKeeps ==
  ASSUME HInv, NEW g \in Goroutines, Lock(g)
  PROVE  HInv' /\ UNCHANGED Serial!serialVars
  <1>1. /\ at[g] = "lock" /\ at[g] # "idle" /\ mutex[call[g].h] = Unlocked
        /\ call[g].h \in Handles /\ "c" \in Inside
    BY CallOf DEF Lock, Goes, HInv, Inside
  <1>2. HandlesOK'
    <2>1. /\ ms' \in [Handles -> Sets]
          /\ mutex' \in [Handles -> Goroutines \cup {Unlocked}]
          /\ at' \in [Goroutines -> {"idle"} \cup Waiting \cup Inside]
          /\ call' \in [Goroutines -> Calls \cup {Idle}]
          /\ out' \in [Goroutines -> Pointers]
          /\ ret' \in [Goroutines -> Texts \cup {Pending}]
          /\ dead' \in BOOLEAN
      BY <1>1 DEF Lock, Goes, HInv, HandlesOK
    <2>2. ASSUME NEW k \in Goroutines
          PROVE  /\ at'[k] = "idle" <=> call'[k] = Idle
                 /\ at'[k] \in Inside => mutex'[call'[k].h] = k
      <3>1. CASE k = g
        BY <1>1, <3>1 DEF Lock, Goes, HInv, HandlesOK
      <3>2. CASE k # g
        <4>1. at'[k] = at[k] /\ call'[k] = call[k]
          BY <3>2 DEF Lock, Goes, HInv, HandlesOK
        <4>2. at[k] \in Inside => mutex[call[k].h] = k /\ k # Unlocked
          BY GoAssumption DEF HInv, HandlesOK
        <4>3. at[k] \in Inside => call[k].h # call[g].h /\ call[k].h \in Handles
          BY <1>1, <4>2, CallOf DEF HInv, Inside
        <4> QED
          BY <4>1, <4>2, <4>3 DEF Lock, HInv, HandlesOK
      <3> QED
        BY <3>1, <3>2
    <2> QED
      BY <2>1, <2>2 DEF HandlesOK
  <1>3. CallsOK'
    <2> SUFFICES ASSUME NEW k \in Goroutines, at'[k] # "idle"
                 PROVE  Fits(call'[k].op, ms'[call'[k].h], at'[k], out'[k], ret'[k])
      BY DEF CallsOK, Mine
    <2>1. call' = call /\ ms' = ms /\ out' = out /\ ret' = ret
          /\ at'[k] = IF k = g THEN "c" ELSE at[k]
      BY DEF Lock, Goes, HInv, HandlesOK
    <2>2. Fits(call[k].op, ms[call[k].h], at[k], out[k], ret[k])
      BY <1>1, <2>1 DEF HInv, CallsOK, Mine
    <2> QED
      BY <2>1, <2>2 DEF Fits
  <1>4. Moves(g, "c", call[g]) /\ UNCHANGED ret /\ Told(g) = Pending
    BY <1>1 DEF Lock, Goes, Moves, HInv, HandlesOK, Told
  <1> QED
    BY <1>1, <1>2, <1>3, <1>4, MovesHidden DEF HInv

\* The method returns its answer.
LEMMA UnlockKeeps ==
  ASSUME HInv, NEW g \in Goroutines, Unlock(g)
  PROVE  HInv' /\ Serial!Return(g)
  <1>1. /\ ~dead /\ at[g] = "unlock" /\ at[g] # "idle" /\ at[g] \in Inside
        /\ call[g].h \in Handles /\ ret[g] \in Texts
    BY CallOf DEF Unlock, Goes, HInv, Inside, CallsOK, Fits
  <1>2. HandlesOK'
    <2>1. /\ ms' \in [Handles -> Sets]
          /\ mutex' \in [Handles -> Goroutines \cup {Unlocked}]
          /\ at' \in [Goroutines -> {"idle"} \cup Waiting \cup Inside]
          /\ call' \in [Goroutines -> Calls \cup {Idle}]
          /\ out' \in [Goroutines -> Pointers]
          /\ ret' \in [Goroutines -> Texts \cup {Pending}]
          /\ dead' \in BOOLEAN
      BY <1>1 DEF Unlock, Goes, HInv, HandlesOK
    <2>2. ASSUME NEW k \in Goroutines
          PROVE  /\ at'[k] = "idle" <=> call'[k] = Idle
                 /\ at'[k] \in Inside => mutex'[call'[k].h] = k
      <3>1. CASE k = g
        BY <3>1 DEF Unlock, Goes, HInv, HandlesOK, Inside
      <3>2. CASE k # g
        <4>1. at'[k] = at[k] /\ call'[k] = call[k]
          BY <3>2 DEF Unlock, Goes, HInv, HandlesOK
        <4>2. at[k] \in Inside => call[k].h # call[g].h /\ call[k].h \in Handles
          BY <1>1, <3>2, Apart, CallOf DEF HInv, Inside
        <4> QED
          BY <4>1, <4>2 DEF Unlock, HInv, HandlesOK
      <3> QED
        BY <3>1, <3>2
    <2> QED
      BY <2>1, <2>2 DEF HandlesOK
  <1>3. CallsOK'
    <2> SUFFICES ASSUME NEW k \in Goroutines, at'[k] # "idle"
                 PROVE  Fits(call'[k].op, ms'[call'[k].h], at'[k], out'[k], ret'[k])
      BY DEF CallsOK, Mine
    <2>1. k # g
      BY DEF Unlock, Goes, HInv, HandlesOK
    <2>2. call'[k] = call[k] /\ ms' = ms /\ out' = out /\ ret'[k] = ret[k] /\ at'[k] = at[k]
      BY <2>1 DEF Unlock, Goes, HInv, HandlesOK
    <2>3. Fits(call[k].op, ms[call[k].h], at[k], out[k], ret[k])
      BY <2>2 DEF HInv, CallsOK, Mine
    <2> QED
      BY <2>2, <2>3
  <1>4. Told(g) = ret[g] /\ ret[g] # Pending
    BY <1>1, PendingIsNoText DEF Told
  <1>5. Requests[g] = Request(g, ret[g]) /\ Requests[g] # Idle
    BY <1>1, <1>4, RequestIs
  <1>6. Moves(g, "idle", Idle) /\ \A k \in Goroutines \ {g} : ret'[k] = ret[k]
    BY DEF Unlock, Goes, Moves, HInv, HandlesOK
  <1>7. /\ SetsOf' = SetsOf /\ \A k \in Goroutines \ {g} : Requests'[k] = Requests[k]
        /\ Requests'[g] = Idle
    BY <1>6, MovesSeen
  <1>8. Requests' = [Requests EXCEPT ![g] = Idle]
    BY <1>7 DEF Requests
  <1>9. Requests[g].ans # Pending
    BY <1>4, <1>5 DEF Request
  <1>10. Serial!Return(g)
    BY <1>1, <1>5, <1>6, <1>7, <1>8, <1>9, SameWords DEF Serial!Return, Moves
  <1> QED
    BY <1>2, <1>3, <1>10 DEF HInv

LEMMA UseAfterCloseKeeps ==
  ASSUME HInv, NEW g \in Goroutines, UseAfterClose(g)
  PROVE  HInv' /\ Serial!UseAfterClose(g)
  <1> DEFINE ops == Operations \ {"EmptyBuffer"}
  <1>1. /\ ~dead /\ at[g] = "c" /\ at[g] # "idle" /\ call[g].op \in ops
        /\ Mine(g) \in Sets /\ Mine(g).open = "closed" /\ call[g].h \in Handles
    <2>1. InC(g, ops) /\ Mine(g).open = "closed"
      BY DEF UseAfterClose
    <2> QED
      BY <2>1, InC_Facts
  <1>2. dead' = TRUE /\ UNCHANGED <<ms, mutex, at, call, out, ret>>
    BY DEF UseAfterClose
  <1>3. HInv'
    BY <1>2 DEF HInv, HandlesOK, CallsOK, Mine
  <1>4. UNCHANGED <<SetsOf, Requests>>
    BY <1>2 DEF SetsOf, SetOf, Requests, RequestOf, Told, Mine, Deref, ErrorText
  <1>5. Requests[g] = Request(g, Pending) /\ Requests[g] # Idle
    BY <1>1, RequestIs DEF Told
  <1>6. Requests[g].op = call[g].op /\ Requests[g].h = call[g].h /\ Requests[g].ans = Pending
    BY <1>5 DEF Request
  <1>7. Serial!Serving(g, ops) /\ Serial!Operations = Operations
    BY <1>1, <1>5, <1>6, Served, SameWords
  <1>8. Serial!Mine(g).open = "closed"
    <2>1. Serial!Mine(g) = SetOf(Mine(g))
      BY <1>1, <1>6 DEF Serial!Mine, SetsOf, Mine
    <2> QED
      BY <1>1, <2>1, SetOfFields
  <1> QED
    BY <1>2, <1>3, <1>4, <1>7, <1>8 DEF Serial!UseAfterClose

\* The unpacking of the bundled rules touches no handle.
LEMMA UnpackKeeps ==
  ASSUME HInv, NEW g \in Goroutines, Unpack(g)
  PROVE  HInv' /\ UNCHANGED Serial!serialVars
  <1>1. UNCHANGED <<ms, mutex, at, call, out, ret, dead>>
    BY DEF Unpack, handleVars
  <1>2. HInv'
    BY <1>1 DEF HInv, HandlesOK, CallsOK, Mine
  <1>3. UNCHANGED <<SetsOf, Requests>>
    BY <1>1 DEF SetsOf, SetOf, Requests, RequestOf, Told, Mine, Deref, ErrorText
  <1> QED
    BY <1>1, <1>2, <1>3 DEF Serial!serialVars

LEMMA ToLoadBufferKeeps ==
  ASSUME HInv, NEW g \in Goroutines, ToLoadBuffer(g)
  PROVE  HInv' /\ UNCHANGED Serial!serialVars
  <1>1. /\ at[g] = "bundle" /\ at[g] # "idle" /\ Told(g) = Pending
        /\ "lock" \in Waiting /\ "lock" \notin Inside
    BY DEF ToLoadBuffer, Goes, Told, Waiting, Inside
  <1>2. /\ at' = [at EXCEPT ![g] = "lock"]
        /\ UNCHANGED <<ms, mutex, call, out, ret, dead>>
    BY DEF ToLoadBuffer, Goes
  <1>3. HandlesOK'
    BY <1>1, <1>2 DEF HInv, HandlesOK
  <1>4. CallsOK'
    BY <1>1, <1>2 DEF HInv, HandlesOK, CallsOK, Fits, Mine
  <1>5. Moves(g, "lock", call[g])
    BY <1>2 DEF Moves, HInv, HandlesOK
  <1>6. UNCHANGED Serial!serialVars
    BY <1>1, <1>2, <1>5, MovesHidden
  <1> QED
    BY <1>3, <1>4, <1>6 DEF HInv

\* A goroutine begins a method of a handle that is there.
LEMMA BeginsKeeps ==
  ASSUME HInv, NEW g \in Goroutines, NEW op \in Operations, NEW h \in Handles,
         ~dead, at[g] = "idle", ms[h].open \in {"null", "open"},
         NEW place \in Waiting, place = "bundle" => op = "LoadDefaultMagic",
         at' = [at EXCEPT ![g] = place],
         call' = [call EXCEPT ![g] = [op |-> op, h |-> h]],
         UNCHANGED <<ms, mutex, out, ret, dead>>
  PROVE  HInv' /\ Serial!Call(g, op, h)
  <1> DEFINE c == [op |-> op, h |-> h]
  <1>1. c \in Calls /\ c # Idle /\ place \notin Inside /\ place # "idle"
    <2>1. c.op # Idle.op
      BY DEF Idle, Operations
    <2> QED
      BY <2>1 DEF Calls, Waiting, Inside
  <1>2. HandlesOK'
    <2>1. /\ ms' \in [Handles -> Sets]
          /\ mutex' \in [Handles -> Goroutines \cup {Unlocked}]
          /\ at' \in [Goroutines -> {"idle"} \cup Waiting \cup Inside]
          /\ call' \in [Goroutines -> Calls \cup {Idle}]
          /\ out' \in [Goroutines -> Pointers]
          /\ ret' \in [Goroutines -> Texts \cup {Pending}]
          /\ dead' \in BOOLEAN
      BY <1>1 DEF HInv, HandlesOK
    <2>2. ASSUME NEW k \in Goroutines
          PROVE  /\ at'[k] = "idle" <=> call'[k] = Idle
                 /\ at'[k] \in Inside => mutex'[call'[k].h] = k
      BY <1>1 DEF HInv, HandlesOK
    <2> QED
      BY <2>1, <2>2 DEF HandlesOK
  <1>3. CallsOK'
    <2> SUFFICES ASSUME NEW k \in Goroutines, at'[k] # "idle"
                 PROVE  Fits(call'[k].op, ms'[call'[k].h], at'[k], out'[k], ret'[k])
      BY DEF CallsOK, Mine
    <2>1. CASE k = g
      <3>1. call'[k].op = op /\ call'[k].h = h /\ at'[k] = place /\ ms' = ms
        BY <2>1 DEF HInv, HandlesOK
      <3> QED
        BY <3>1 DEF Fits, Waiting
    <2>2. CASE k # g
      <3>1. call'[k] = call[k] /\ ms' = ms /\ out' = out /\ ret' = ret /\ at'[k] = at[k]
        BY <2>2 DEF HInv, HandlesOK
      <3> QED
        BY <3>1 DEF HInv, CallsOK, Mine
    <2> QED
      BY <2>1, <2>2
  <1>4. Moves(g, place, c)
    BY DEF Moves
  <1>5. /\ SetsOf' = SetsOf /\ \A k \in Goroutines \ {g} : Requests'[k] = Requests[k]
        /\ Requests'[g] = [op |-> op, h |-> h,
                           ans |-> ToldOf(op, ms[h], place, out[g], ret[g])]
    BY <1>1, <1>4, MovesSeen
  <1>6. ToldOf(op, ms[h], place, out[g], ret[g]) = Pending
    BY DEF ToldOf, Waiting
  <1>7. Requests' = [Requests EXCEPT ![g] = [op |-> op, h |-> h, ans |-> Pending]]
    BY <1>5, <1>6 DEF Requests
  <1>8. Requests[g] = Idle
    BY RequestIs
  <1>9. SetsOf[h].open \in {"null", "open"}
    BY DEF SetsOf, SetOf
  <1>10. Serial!Idle = Idle /\ Serial!Pending = Pending
    BY SameWords
  <1>11. Serial!Call(g, op, h)
    BY <1>5, <1>7, <1>8, <1>9, <1>10 DEF Serial!Call
  <1> QED
    BY <1>2, <1>3, <1>11 DEF HInv

LEMMA OpenedType ==
  ASSUME NEW open \in {"null", "open", "none", "closed"}
  PROVE  /\ Opened(open) \in Sets /\ Opened(open).open = open
         /\ Opened(open).db = NoDatabase /\ Opened(open).event = "none"
  BY ConstantTexts DEF Opened, Sets, NoDatabase, Database, Databases

\* A handle is opened: nobody calls it yet.
LEMMA OpenKeeps ==
  ASSUME HInv, NEW g \in Goroutines, NEW h \in Handles, NewMagicHandle(g, h)
  PROVE  HInv' /\ Serial!NewMagicHandle(g, h)
  <1>1. \E s \in Sets, open \in {"null", "open"} :
          /\ ms' = [ms EXCEPT ![h] = s]
          /\ s.open = open /\ s.db = NoDatabase /\ s.event = "none"
    <2>1. CASE ms' = [ms EXCEPT ![h] = Opened("null")]
      BY <2>1, OpenedType
    <2>2. CASE \E raw \in BOOLEAN : ms' = [ms EXCEPT ![h] = [Opened("open") EXCEPT !.raw = raw]]
      <3> DEFINE o == Opened("open")
      <3>1. PICK raw \in BOOLEAN : ms' = [ms EXCEPT ![h] = [o EXCEPT !.raw = raw]]
        BY <2>2
      <3>2. o \in Sets /\ o.open = "open" /\ o.db = NoDatabase /\ o.event = "none"
        BY OpenedType
      <3> HIDE DEF o
      <3> DEFINE s == [o EXCEPT !.raw = raw]
      <3>3. s \in Sets /\ s.open = "open" /\ s.db = NoDatabase /\ s.event = "none"
        BY <3>2 DEF Sets
      <3> QED
        BY <3>1, <3>3
    <2> QED
      BY <2>1, <2>2 DEF NewMagicHandle
  <1>2. PICK s \in Sets, open \in {"null", "open"} :
          /\ ms' = [ms EXCEPT ![h] = s]
          /\ s.open = open /\ s.db = NoDatabase /\ s.event = "none"
    BY <1>1
  <1>4. /\ ~dead /\ at[g] = "idle" /\ ms[h].open = "none"
        /\ UNCHANGED <<mutex, at, call, out, ret, dead>>
    BY DEF NewMagicHandle
  <1>5. ASSUME NEW k \in Goroutines, at[k] # "idle"
        PROVE  call[k].h # h /\ Mine(k)' = Mine(k)
    <2>1. call[k].h \in Handles /\ Mine(k).open # "none"
      BY <1>5, CallOf DEF HInv, CallsOK, Fits
    <2> QED
      BY <1>2, <1>4, <2>1 DEF Mine, HInv, HandlesOK
  <1>6. HandlesOK'
    BY <1>2, <1>4 DEF HInv, HandlesOK
  <1>7. CallsOK'
    BY <1>4, <1>5 DEF HInv, CallsOK
  <1>8. ASSUME NEW k \in Goroutines PROVE Requests'[k] = Requests[k]
    <2>1. CASE at[k] = "idle"
      BY <1>4, <2>1 DEF Requests, RequestOf
    <2>2. CASE at[k] # "idle"
      <3>1. Told(k)' = Told(k)
        BY <1>4, <1>5, <2>2 DEF Told, Deref, ErrorText
      <3> QED
        BY <1>4, <3>1 DEF Requests, RequestOf
    <2> QED
      BY <2>1, <2>2
  <1>9. Requests' = Requests
    BY <1>8 DEF Requests
  <1>10. SetOf(s) = Serial!New(open)
    <2>1. Serial!None = None /\ Serial!NoDatabase = NoDatabase
      BY SameWords
    <2> QED
      BY <1>2, <2>1 DEF SetOf, Serial!New
  <1>11. SetsOf' = [SetsOf EXCEPT ![h] = Serial!New(open)]
    <2>1. \A k \in Handles : ms'[k] = IF k = h THEN s ELSE ms[k]
      BY <1>2 DEF HInv, HandlesOK
    <2>2. SetsOf' = [k \in Handles |-> SetOf(ms'[k])]
      BY DEF SetsOf, SetOf
    <2> HIDE DEF SetOf
    <2> QED
      BY <1>10, <2>1, <2>2 DEF SetsOf
  <1>12. SetsOf[h].open = "none" /\ Requests[g] = Idle /\ Serial!Idle = Idle
    BY <1>4, RequestIs, SameWords DEF SetsOf, SetOf
  <1>13. Serial!NewMagicHandle(g, h)
    BY <1>2, <1>4, <1>9, <1>11, <1>12 DEF Serial!NewMagicHandle
  <1> QED
    BY <1>6, <1>7, <1>13 DEF HInv

-----------------------------------------------------------------------------
(* The specification. *)

ProgramsOK == uses \in Programs

\* The inductive invariant: with the goroutines' file of bundled rules.
GInv == HInv /\ TypeOK /\ PathsOK /\ ProgramsOK

\* Before the first call, whatever is bundled.
LEMMA FreshKeeps ==
  ASSUME Fresh, bundle \in Seq(Nat \ {0})
  PROVE  HInv /\ TypeOK /\ PathsOK /\ Serial!Init
  <1>1. \A h \in Handles : ms[h] = Opened("none") /\ Opened("none") \in Sets
    BY OpenedType DEF Fresh
  <1>2. HInv
    BY <1>1 DEF Fresh, HInv, HandlesOK, CallsOK, Pointers, Inside, Idle
  <1>4. TypeOK
    BY EmptyPlaced DEF Fresh, TypeOK, Blocks
  <1>5. PathsOK
    BY DEF Fresh, PathsOK
  <1>6. SetsOf = [h \in Handles |-> Serial!New("none")]
    <2>1. SetOf(Opened("none")) = Serial!New("none")
      BY SameWords DEF SetOf, Opened, Serial!New
    <2>2. \A h \in Handles : SetOf(ms[h]) = Serial!New("none")
      BY <1>1, <2>1
    <2> HIDE DEF SetOf
    <2> QED
      BY <2>2 DEF SetsOf
  <1>7. Requests = [g \in Goroutines |-> Serial!Idle] /\ ~dead
    BY SameWords DEF Fresh, Requests, RequestOf
  <1> QED
    BY <1>2, <1>4, <1>5, <1>6, <1>7 DEF Serial!Init

LEMMA Initially == GoInit => GInv /\ Serial!Init
  <1> SUFFICES ASSUME GoInit PROVE GInv /\ Serial!Init
    OBVIOUS
  <1>1. Fresh /\ bundle \in Seq(Nat \ {0}) /\ ProgramsOK
    BY DefaultsAssumption DEF GoInit, ProgramsOK
  <1> QED
    BY <1>1, FreshKeeps DEF GInv

\* A goroutine opens a handle or begins a call, in whatever program.
Begins(g) ==
  \E h \in Handles : \/ NewMagicHandle(g, h)
                    \/ CallDefault(g, h)
                    \/ \E op \in Operations : Call(g, op, h)

LEMMA ProgramBegins ==
  ASSUME ProgramsOK, NEW g \in Goroutines, Begin(g)
  PROVE  Begins(g)
  <1>1. uses[g] \subseteq Operations
    BY GoAssumption DEF ProgramsOK
  <1> QED
    BY <1>1 DEF Begin, Begins

\* Whatever a goroutine does, the file of bundled rules stays in order.
LEMMA RulesKept ==
  ASSUME TypeOK, NEW g \in Goroutines, Begins(g) \/ Proceed(g)
  PROVE  TypeOK'
  <1>1. ASSUME UNCHANGED vars PROVE TypeOK'
    BY <1>1, TypeNext
  <1>2. ASSUME Step(g) \/ Again(g) PROVE TypeOK'
    BY <1>2, StepType
  <1>3. ASSUME LoadBundled(g) PROVE TypeOK'
    <2>1. text' = [text EXCEPT ![g] = << >>] /\ UNCHANGED <<bundle, data, pc, wpos>>
      BY <1>3 DEF LoadBundled
    <2>2. Placed(<< >>)
      BY EmptyPlaced DEF TypeOK
    <2>3. \A k \in Goroutines : text'[k] \in Seq(Nat) /\ Placed(text'[k])
      BY <2>1, <2>2 DEF TypeOK
    <2>4. \A file : Placed(file) => Placed(file)'
      BY <2>1 DEF Placed, Blocks
    <2> QED
      BY <2>1, <2>3, <2>4 DEF TypeOK, Placed, Blocks
  <1>4. CASE Begins(g)
    <2>1. UNCHANGED vars \/ Again(g)
      BY <1>4 DEF Begins, NewMagicHandle, CallDefault, Call
    <2> QED
      BY <1>1, <1>2, <2>1
  <1>5. CASE Unpack(g) \/ ToLoadBuffer(g)
    BY <1>2, <1>5 DEF Unpack, ToLoadBuffer, Step
  <1>6. CASE \/ Lock(g) \/ UseAfterClose(g) \/ FileOrBuffer(g) \/ FileError(g)
             \/ GetError(g) \/ Copy(g) \/ Clear(g) \/ AskPath(g) \/ LoadDefaultPath(g)
             \/ Unlock(g)
    <2>1. UNCHANGED vars
      BY <1>6 DEF Lock, UseAfterClose, FileOrBuffer, FileError, GetError, Copy, Clear,
                  AskPath, LoadDefaultPath, Unlock
    <2> QED
      BY <1>1, <2>1
  <1>7. CASE Errno(g) \/ SetFlags(g) \/ Load(g) \/ Close(g) \/ EmptyBuffer(g)
    <2>1. UNCHANGED vars
      BY <1>7 DEF Errno, SetFlags, Load, Close, EmptyBuffer, Answers
    <2> QED
      BY <1>1, <2>1
  <1> QED
    BY <1>3, <1>4, <1>5, <1>6, <1>7 DEF Proceed, Within

\* Only the loads of the default database use the path, and nothing changes the program.
LEMMA OthersKeepPaths ==
  ASSUME NEW g \in Goroutines, Begins(g) \/ Proceed(g)
  PROVE  /\ UNCHANGED uses
         /\ AskPath(g) \/ LoadDefaultPath(g) \/ UNCHANGED <<defaultMagic, fn>>
  <1>1. CASE Begins(g)
    BY <1>1 DEF Begins, NewMagicHandle, CallDefault, Call
  <1>2. CASE Unpack(g) \/ ToLoadBuffer(g)
    BY <1>2 DEF Unpack, ToLoadBuffer, handleVars
  <1>3. CASE \/ Lock(g) \/ UseAfterClose(g) \/ FileOrBuffer(g) \/ FileError(g)
             \/ GetError(g) \/ Copy(g) \/ Clear(g) \/ LoadBundled(g) \/ Unlock(g)
    BY <1>3 DEF Lock, UseAfterClose, FileOrBuffer, FileError, GetError, Copy, Clear,
                LoadBundled, Unlock
  <1>4. CASE Errno(g) \/ SetFlags(g) \/ Load(g) \/ Close(g) \/ EmptyBuffer(g)
    BY <1>4 DEF Errno, SetFlags, Load, Close, EmptyBuffer, Answers
  <1>5. CASE AskPath(g) \/ LoadDefaultPath(g)
    BY <1>5 DEF AskPath, LoadDefaultPath
  <1> QED
    BY <1>1, <1>2, <1>3, <1>4, <1>5 DEF Proceed, Within

LEMMA PathsKept ==
  ASSUME PathsOK, NEW g \in Goroutines, Begins(g) \/ Proceed(g)
  PROVE  PathsOK'
  <1>1. CASE AskPath(g)
    BY <1>1 DEF AskPath, FixedPath, KeptPath, HomePath, PathsOK
  <1>2. CASE LoadDefaultPath(g)
    BY <1>2 DEF LoadDefaultPath, PathsOK
  <1>3. CASE UNCHANGED <<defaultMagic, fn>>
    BY <1>3 DEF PathsOK
  <1> QED
    BY <1>1, <1>2, <1>3, OthersKeepPaths

LEMMA HandlesKept ==
  ASSUME HInv, TypeOK, NEW g \in Goroutines, Begins(g) \/ Proceed(g)
  PROVE  HInv' /\ (Serial!Next \/ UNCHANGED Serial!serialVars)
  <1>1. CASE Begins(g)
    <2>2. PICK h \in Handles : \/ NewMagicHandle(g, h)
                               \/ CallDefault(g, h)
                               \/ \E op \in Operations : Call(g, op, h)
      BY <1>1 DEF Begins
    <2>3. CASE NewMagicHandle(g, h)
      BY <2>3, OpenKeeps DEF Serial!Next
    <2>4. ASSUME NEW op \in Operations, Call(g, op, h)
          PROVE  HInv' /\ Serial!Call(g, op, h)
      <3>1. "lock" \in Waiting /\ "lock" # "bundle"
        BY DEF Waiting
      <3> QED
        BY <2>4, <3>1, BeginsKeeps DEF Call, Goes
    <2>5. ASSUME CallDefault(g, h)
          PROVE  HInv' /\ Serial!Call(g, "LoadDefaultMagic", h)
      <3>1. "bundle" \in Waiting /\ "LoadDefaultMagic" \in Operations
        BY DEF Waiting, Operations
      <3> QED
        BY <2>5, <3>1, BeginsKeeps DEF CallDefault, Goes
    <2>6. "LoadDefaultMagic" \in Serial!Operations /\ Serial!Operations = Operations
      BY SameWords DEF Operations
    <2> QED
      BY <2>2, <2>3, <2>4, <2>5, <2>6 DEF Serial!Next
  <1>2. CASE Unlock(g)
    BY <1>2, UnlockKeeps DEF Serial!Next
  <1>3. CASE UseAfterClose(g)
    BY <1>3, UseAfterCloseKeeps DEF Serial!Next, Serial!Serve
  <1>4. CASE \/ FileOrBuffer(g) \/ Clear(g) \/ Errno(g) \/ SetFlags(g) \/ Load(g)
             \/ LoadBundled(g) \/ Close(g) \/ EmptyBuffer(g) \/ LoadDefaultPath(g)
    <2>1. HInv' /\ Serial!Serve(g)
      BY <1>4, FileKeeps, ClearKeeps, ErrnoKeeps, SetFlagsKeeps, LoadKeeps,
         LoadBundledKeeps, CloseKeeps, EmptyBufferKeeps, LoadDefaultPathKeeps
    <2> QED
      BY <2>1 DEF Serial!Next
  <1>5. CASE \/ Unpack(g) \/ ToLoadBuffer(g) \/ Lock(g) \/ FileError(g) \/ GetError(g)
             \/ Copy(g) \/ AskPath(g)
    BY <1>5, UnpackKeeps, ToLoadBufferKeeps, LockKeeps, FileErrorKeeps, GetErrorKeeps,
       CopyKeeps, AskPathKeeps
  <1> QED
    BY <1>1, <1>2, <1>3, <1>4, <1>5 DEF Proceed, Within

LEMMA StandsStill ==
  ASSUME GInv, UNCHANGED goVars
  PROVE  GInv' /\ UNCHANGED Serial!serialVars
  <1>1. UNCHANGED vars /\ UNCHANGED handleVars
    BY DEF goVars
  <1>2. TypeOK'
    BY <1>1, TypeNext DEF GInv
  <1>3. HInv' /\ PathsOK' /\ ProgramsOK'
    BY <1>1 DEF GInv, handleVars, HInv, HandlesOK, CallsOK, Mine, PathsOK, ProgramsOK
  <1>4. UNCHANGED Serial!serialVars
    BY <1>1 DEF handleVars, Serial!serialVars, SetsOf, SetOf, Requests, RequestOf, Told,
                Mine, Deref, ErrorText
  <1> QED
    BY <1>2, <1>3, <1>4 DEF GInv

LEMMA GoStep == GInv /\ [GoNext]_goVars => GInv' /\ [Serial!Next]_(Serial!serialVars)
  <1>1. ASSUME GInv, NEW g \in Goroutines, Begin(g) \/ Proceed(g)
        PROVE  GInv' /\ [Serial!Next]_(Serial!serialVars)
    <2>1. TypeOK' /\ PathsOK' /\ HInv' /\ (Serial!Next \/ UNCHANGED Serial!serialVars)
      BY <1>1, ProgramBegins, RulesKept, PathsKept, HandlesKept DEF GInv
    <2>2. ProgramsOK'
      BY <1>1, ProgramBegins, OthersKeepPaths DEF GInv, ProgramsOK
    <2> QED
      BY <2>1, <2>2 DEF GInv
  <1>2. GInv /\ UNCHANGED goVars => GInv' /\ [Serial!Next]_(Serial!serialVars)
    BY StandsStill
  <1> QED
    BY <1>1, <1>2 DEF GoNext, Stop

\* The types, and the mutex: two goroutines are never inside of libmagic with the
\* same handle (magic.go, self.mu).
THEOREM GoTypeCorrect == GoSpec => []GoTypeOK
  <1>1. GInv => GoTypeOK
    BY GoTypeParts DEF GInv, HInv
  <1> QED
    BY <1>1, Initially, GoStep, PTL DEF GoSpec

\* The methods of a handle are atomic for the goroutines that share it: magic.go
\* implements SerialHandle, for any number of goroutines and of handles, and
\* whatever was bundled.
THEOREM SerialRefined == GoSpec => SerialCalls
  BY Initially, GoStep, PTL DEF GoSpec, SerialCalls, Serial!Spec
=============================================================================
