------------------------------ MODULE Classify ------------------------------
(***************************************************************************)
(* The detector pipeline of libmagic and its output buffer                  *)
(* (magic/funcs.c: file_buffer, file_vprintf, file_error, file_getbuffer;   *)
(* magic/ascmagic.c), and magic_buffer, which runs it on the bytes of a      *)
(* caller (magic/magic.c).  Detectors look at the input one after the other *)
(* and print into one buffer; MAGIC_CONTINUE asks for all that match.       *)
(*                                                                         *)
(* What the bytes say is a free choice of each detector's answer.  The      *)
(* buffer is the sequence of what was printed into it, one token for the    *)
(* description of a detector.                                               *)
(***************************************************************************)
EXTENDS Integers, Sequences

CONSTANTS
  FlagSets,   \* the settings that a caller uses
  MayFail     \* whether the buffer may be full and memory short

Options == {"continue", "mime_type", "mime_encoding", "silent", "error", "devices",
            "symlink"}
Builtin == {"tar", "json", "csv", "simh", "cdf"}
Detectors == Builtin \cup {"soft", "text"}

\* ms->flags: the options set (silent is MAGIC_APPLE or MAGIC_EXTENSION) and the
\* tests that MAGIC_NO_CHECK_... leaves out.
Flags == [set : SUBSET Options, skip : SUBSET (Detectors \cup {"encoding"})]

ASSUME ClassifyAssumption == FlagSets \subseteq Flags /\ MayFail \in BOOLEAN

VARIABLES
  flags,    \* ms->flags
  stage,    \* "idle", or the next step of the call
  input,    \* how long the input is and whether it looks like text
  m, rv,    \* of file_buffer: the last answer, and what else it returns; 0 outside
  out,      \* ms->o.buf and EVENT_HAD_ERR
  result,   \* what the last call returned; << >> for NULL
  lapse     \* history of the call that no step reads: see Lapses

pipeline == <<flags, stage, input, m, rv, out, result, lapse>>

\* What a detector may do to the answer of a call besides answering.  "ragged": it
\* printed a separator that does not stand between two descriptions.  "mute": it
\* matched without a text, or failed without an error.
Lapses == {"ragged", "mute"}

Has(option) == option \in flags.set
Mime == Has("mime_type") \/ Has("mime_encoding")
EncodingOnly == Has("mime_encoding") /\ ~Has("mime_type")
Plain == ~Mime /\ ~Has("silent")

-----------------------------------------------------------------------------
\* The output buffer.

Fresh == [text |-> << >>, had |-> FALSE]
Spoilt == [text |-> <<"error">>, had |-> TRUE]

\* file_vprintf: after an error nothing is printed, and that is no failure; a text
\* that does not fit is replaced by an error.
Printed(o, tokens) ==
  IF o.had THEN {[o |-> o, ok |-> TRUE]}
  ELSE {[o |-> [o EXCEPT !.text = @ \o tokens], ok |-> TRUE]}
       \cup {[o |-> Spoilt, ok |-> FALSE] : fault \in {TRUE} \cap {MayFail}}

\* file_error: only the first error is kept, behind what was printed.
Errored(o) == IF o.had THEN o ELSE [text |-> Append(o.text, "error"), had |-> TRUE]

\* trim_separator takes one separator away, unless there is nothing else.
TrimNot(text) == text
Trim(text) ==
  IF Len(text) > 1 /\ text[Len(text)] = "sep" THEN SubSeq(text, 1, Len(text) - 1) ELSE text

\* file_getbuffer.
Got(o) == IF o.had THEN {[o |-> o, text |-> << >>]}
          ELSE {[o |-> o, text |-> o.text]}
               \cup {[o |-> Errored(o), text |-> << >>] :
                       fault \in {TRUE} \cap {MayFail /\ o.text # << >>}}

-----------------------------------------------------------------------------
\* What a detector may answer: 1, 0 or -1, what it leaves in the buffer, and lapses.
Lapsed(value, o, lapses) == [m |-> value, o |-> o, lapse |-> lapses]
Answer(value, o) == Lapsed(value, o, {})

Describes(o, token) == {Answer(IF p.ok THEN 1 ELSE -1, p.o) : p \in Printed(o, <<token>>)}

\* file_is_tar, file_is_json, file_is_csv, file_is_simh and file_trycdf, which may
\* take a failure to print for one to read the document, and goes on.
BuiltinAnswers(d, o) ==
  {Answer(0, o)} \cup
    IF Has("silent") \/ (d = "csv" /\ ~input.looks_text) THEN {}
    ELSE IF EncodingOnly THEN {Answer(1, o)}
    ELSE Describes(o, d)
         \cup {Answer(1, p.o) : p \in IF d = "cdf" THEN Printed(o, <<d>>) ELSE {}}

\* file_softmagic, as SoftMagic has it: 0 only if nothing was printed; an error in
\* front of a description, behind it or in its place, whatever is returned.  Rules
\* print one token for their descriptions and what is between them.  With
\* MAGIC_CONTINUE a group that matched silently has the next one begin with a
\* separator, and a use rule with a description may leave one behind.  A match may
\* print nothing at all, and a regular expression or the lack of memory for another
\* buffer makes the rules fail without an error, whatever they have printed.
RaggedTexts == {<<"sep">>, <<"sep", "soft">>, <<"soft", "sep">>, <<"sep", "soft", "sep">>}
SoftTexts == {<< >>} \cup IF EncodingOnly /\ ~Has("silent") THEN {}
                          ELSE {<<"soft">>} \cup IF Has("continue") THEN RaggedTexts ELSE {}

SoftLapses(value, text) ==
  {l \in Lapses : \/ l = "ragged" /\ text \in RaggedTexts
                  \/ l = "mute" /\ (value = -1 \/ text = << >>)}

SoftMatches(o, text) ==
  UNION {{Answer(value, Errored(p.o)), Lapsed(value, p.o, SoftLapses(value, text))} :
           value \in {-1, 1}, p \in Printed(o, text)}

SoftAnswers(o) == {Answer(0, o), Answer(0, Errored(o))}
                  \cup UNION {SoftMatches(o, text) : text \in SoftTexts}

\* The rules for text that file_ascmagic tries before its own tests.  No match is
\* remembered as -1, which it returns if it cannot print.  Without memory to decode
\* the text they are not tried.
Untried(o) == [rv |-> -1, matched |-> FALSE, o |-> o, lapse |-> {}]
TextRules(o) ==
  {Untried(Errored(o)) : fault \in {TRUE} \cap {MayFail}}
  \cup IF "soft" \in flags.skip THEN {Untried(o)}
       ELSE {[rv |-> IF a.m = 0 THEN -1 ELSE a.m, matched |-> a.m # 0, o |-> a.o,
              lapse |-> a.lapse] : a \in SoftAnswers(o)}

Behind(r, tokens) ==
  {Lapsed(IF p.ok THEN 1 ELSE r.rv, p.o, r.lapse) : p \in Printed(r.o, tokens)}

\* What it prints behind what is there already.
TextTokens(r) ==
  IF r.o.text = << >> THEN <<"text">>
  ELSE IF ~Mime THEN <<"joint", "text">>
  ELSE IF r.matched THEN <<"sep", "text">> ELSE <<"text">>

\* file_replace, which joins the texts, may lack memory for its regular expression
\* and gives up silently.
GivesUp(r) ==
  {Lapsed(r.rv, r.o, r.lapse \cup {"mute"}) :
     fault \in {TRUE} \cap {MayFail /\ ~Mime /\ r.o.text # << >>}}

AfterTextRules(r) ==
  IF Has("silent") THEN {Lapsed(IF r.rv = -1 THEN 0 ELSE 1, r.o, r.lapse)}
  ELSE IF EncodingOnly \/ (Mime /\ r.o.text # << >> /\ ~Has("continue"))
    THEN {Lapsed(1, r.o, r.lapse)}
  ELSE Behind(r, TextTokens(r)) \cup GivesUp(r)

\* file_ascmagic: no text (or less than two bytes of it), no memory to convert it, or
\* a text in some encoding.
TextAnswers(o) ==
  {Answer(0, o)} \cup UNION {AfterTextRules(r) : r \in TextRules(o)}
    \cup {Answer(-1, Errored(o)) : fault \in {TRUE} \cap {MayFail /\ "soft" \notin flags.skip}}

Answers(d, o) == CASE d \in Builtin -> BuiltinAnswers(d, o)
                   [] d = "soft" -> SoftAnswers(o)
                   [] d = "text" -> TextAnswers(o)

-----------------------------------------------------------------------------
\* The steps of a call.

Init ==
  /\ flags \in FlagSets /\ stage = "idle"
  /\ input = [size |-> "many", looks_text |-> FALSE]
  /\ m = 0 /\ rv = 0 /\ out = Fresh /\ result = << >> /\ lapse = {}

\* file_reset.
ClearedTextOnly(o) == [o EXCEPT !.text = << >>]
Cleared(o) == Fresh

NewCallStale == stage = "idle" /\ lapse' = {} /\ UNCHANGED <<flags, m, rv, result>>
NewCall == stage = "idle" /\ lapse' = {} /\ result' = << >> /\ UNCHANGED <<flags, m, rv>>

\* file_buffer up to its first detector: an input of no or one byte is not looked at.
\* Without memory to look at it, it is taken for text.
Examine(sizes, o) ==
  \E size \in sizes, looks_text \in BOOLEAN :
    /\ looks_text => size = "many" /\ "encoding" \notin flags.skip
    /\ input' = [size |-> size, looks_text |-> looks_text]
    /\ stage' = IF size = "many" THEN "tar" ELSE "simple"
    /\ out' \in {o} \cup {Errored(o) : fault \in {TRUE} \cap {MayFail /\ looks_text}}

\* magic_buffer.
Buffer == NewCall /\ Examine({"byte", "many"}, Cleared(out))

After == [tar |-> "json", json |-> "csv", csv |-> "simh", simh |-> "cdf",
          cdf |-> "soft", soft |-> "text", text |-> "simple"]

Skip(d) ==
  /\ stage = d /\ d \in flags.skip
  /\ stage' = After[d]
  /\ UNCHANGED <<flags, input, m, rv, out, result, lapse>>

\* checkdone: the first answer is the last one, unless MAGIC_CONTINUE, which puts
\* a separator behind it.
GoesOnAlways(d, a) == a.m = 0 \/ d # "text"
GoesOn(d, a) == a.m = 0 \/ (Has("continue") /\ d # "text")
Separated(d, a) ==
  IF a.m # 0 /\ GoesOn(d, a) THEN Printed(a.o, <<"sep">>) ELSE {[o |-> a.o, ok |-> TRUE]}

Try(d) ==
  /\ stage = d /\ d \notin flags.skip
  /\ \E a \in Answers(d, out) : \E p \in Separated(d, a) :
       /\ m' = a.m
       /\ out' = p.o
       /\ lapse' = lapse \cup a.lapse
       /\ rv' = IF p.ok THEN rv ELSE -1
       /\ stage' = IF GoesOn(d, a) THEN After[d] ELSE "done"
  /\ UNCHANGED <<flags, input, result>>

\* simple: if the last answer was no, file_default or the default text.
DefaultTokens == IF EncodingOnly THEN << >> ELSE <<"default">>
Default ==
  /\ stage = "simple"
  /\ stage' = "done"
  /\ IF m # 0 THEN UNCHANGED <<m, rv, out>>
     ELSE /\ m' = 1
          /\ \E p \in Printed(out, DefaultTokens) :
               out' = p.o /\ rv' = IF ~p.ok THEN -1 ELSE IF Plain THEN 0 ELSE 1
  /\ UNCHANGED <<flags, input, result, lapse>>

\* done: the separator goes, the encoding comes, and the value is what file_buffer
\* returns.
EncodingBare == IF Has("mime_encoding") THEN <<"encoding">> ELSE << >>
Encoding == IF ~Has("mime_encoding") THEN << >>
            ELSE IF Has("mime_type") THEN <<"charset", "encoding">> ELSE <<"encoding">>

Conclude(o, value) ==
  /\ \E g \in IF value = -1 THEN {[o |-> o, text |-> << >>]} ELSE Got(o) :
       out' = g.o /\ result' = g.text
  /\ stage' = "idle"

Finish ==
  /\ stage = "done"
  /\ \E p \in Printed([out EXCEPT !.text = Trim(@)], Encoding) :
       LET wrong == IF p.ok THEN rv ELSE -1
       IN Conclude(p.o, IF wrong # 0 THEN wrong ELSE m)
  /\ m' = 0 /\ rv' = 0
  /\ UNCHANGED <<flags, input, lapse>>

Proceed == \/ \E d \in Detectors : Skip(d) \/ Try(d)
           \/ Default \/ Finish

Next == Buffer \/ Proceed

-----------------------------------------------------------------------------
\* Properties.

Tokens == Detectors \cup {"default", "sep", "joint", "charset", "encoding", "error",
                          "bits", "type", "cannot", "unreadable"}
Texts == Seq(Tokens)

Inputs == [size : {"none", "empty", "byte", "many"}, looks_text : BOOLEAN]
Stages == Detectors \cup {"idle", "stat", "link", "open", "restat", "read", "simple", "done"}

\* The types of the state: outside of a call there is an answer or an error, in a
\* call there is no answer yet, and an answer is a text.
TypeOK ==
  /\ flags \in FlagSets /\ stage \in Stages /\ input \in Inputs
  /\ m \in {-1, 0, 1} /\ rv \in {-1, 0, 1}
  /\ out \in [text : Texts, had : BOOLEAN] /\ result \in Texts
  /\ lapse \subseteq Lapses
  /\ stage # "idle" => result = << >>

\* Callers ask for a MIME type or for Apple types and extensions, not for both.
OneKind == ~(Mime /\ Has("silent"))

Found(text) == {text[i] : i \in DOMAIN text}

Descriptions == Detectors \cup {"default"}
Described(text) ==
  LET described == Found(text) \cap Descriptions
  IN \/ described = {} \/ \E d \in Descriptions : described = {d}
     \/ Plain /\ described = {"soft", "text"}

\* Without MAGIC_CONTINUE the answer is the description of one detector, or the
\* default if there is none.  Only the rules for text and what file_ascmagic says
\* of the text stand together.  (Rules for text that print an extension and then fail
\* without an error have not matched for file_ascmagic, and the default follows.)
Botched == Has("silent") /\ "mute" \in lapse
OneDescription == ~Has("continue") /\ ~Botched => Described(result)

\* Two descriptions never stand side by side, and with MAGIC_CONTINUE one separator
\* stands between two of them and none at either end, unless the rules lapsed.  (With
\* MAGIC_MIME_ENCODING alone there are no descriptions, but still separators.)
Tidy(text) ==
  /\ text[1] # "sep" /\ text[Len(text)] # "sep"
  /\ \A i \in 1..(Len(text) - 1) : ~(text[i] = "sep" /\ text[i + 1] = "sep")
WellSeparated ==
  result # << >> /\ ~EncodingOnly =>
    /\ \A i \in 1..(Len(result) - 1) :
         result[i] \in Descriptions /\ result[i + 1] \in Descriptions => Botched
    /\ lapse = {} => Tidy(result)

\* Who asks for MIME type and encoding gets both, the type first, when the content
\* was looked at.
MimeComplete ==
  OneKind /\ Has("mime_type") /\ Has("mime_encoding") /\ Found(result) \cap Descriptions # {} =>
    /\ result[Len(result)] = "encoding" /\ result[Len(result) - 1] = "charset"
    /\ \A i \in 1..(Len(result) - 2) : result[i] \notin {"charset", "encoding"}

\* MAGIC_NO_CHECK_BUILTIN of the Go package, with which only the rules should
\* answer.
GoNoCheckBuiltin == {"tar", "text", "cdf", "encoding"}
OnlyRulesAnswer ==
  GoNoCheckBuiltin \subseteq flags.skip => Found(result) \cap (Builtin \cup {"text"}) = {}
=============================================================================
