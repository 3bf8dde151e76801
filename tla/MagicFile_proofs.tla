--------------------------- MODULE MagicFile_proofs ---------------------------
(***************************************************************************)
(* For all flags, any number of replacements of the file and whatever fails: *)
(* the state is well typed; without MAGIC_CONTINUE an answer is the          *)
(* description of one detector or the default; descriptions are separated;   *)
(* type and encoding come together; the checks of the file system and the    *)
(* detectors do not contradict each other; and a call that ends without an   *)
(* answer has said why, unless the rules were silent.                        *)
(***************************************************************************)
EXTENDS MagicFile, SequenceTheorems, TLAPS

Outs == [text : Texts, had : BOOLEAN]
Values == {-1, 0, 1}

\* Texts and what is found in them.

LEMMA Concatenation ==
  ASSUME NEW s \in Texts, NEW t \in Texts
  PROVE  s \o t \in Texts /\ Found(s \o t) = Found(s) \cup Found(t)
  <1>1. s \o t \in Texts
    BY DEF Texts
  <1>2. ASSUME NEW x \in Found(s \o t) PROVE x \in Found(s) \cup Found(t)
    <2>1. PICK i \in 1..(Len(s) + Len(t)) : x = (s \o t)[i]
      BY <1>2 DEF Found, Texts
    <2>2. CASE i <= Len(s)
      BY <2>1, <2>2 DEF Found, Texts
    <2>3. CASE i > Len(s)
      <3>1. i - Len(s) \in 1..Len(t) /\ x = t[i - Len(s)]
        BY <2>1, <2>3 DEF Texts
      <3> QED
        BY <3>1 DEF Found, Texts
    <2> QED
      BY <2>1, <2>2, <2>3 DEF Texts
  <1>3. ASSUME NEW x \in Found(s) PROVE x \in Found(s \o t)
    <2>1. PICK i \in 1..Len(s) : x = s[i]
      BY <1>3 DEF Found, Texts
    <2>2. i \in 1..Len(s \o t) /\ (s \o t)[i] = x
      BY <2>1 DEF Texts
    <2> QED
      BY <2>2, <1>1 DEF Found, Texts
  <1>4. ASSUME NEW x \in Found(t) PROVE x \in Found(s \o t)
    <2>1. PICK i \in 1..Len(t) : x = t[i]
      BY <1>4 DEF Found, Texts
    <2>2. Len(s) + i \in 1..Len(s \o t) /\ (s \o t)[Len(s) + i] = x
      BY <2>1 DEF Texts
    <2> QED
      BY <2>2, <1>1 DEF Found, Texts
  <1> QED
    BY <1>1, <1>2, <1>3, <1>4

LEMMA Single ==
  ASSUME NEW token \in Tokens
  PROVE  <<token>> \in Texts /\ Found(<<token>>) = {token}
  <1>1. <<token>> \in Texts
    BY DEF Texts
  <1>2. PICK s \in Seq(Tokens) : s = <<token>> /\ Len(s) = 1 /\ s[1] = token
    BY <1>1 DEF Texts
  <1>3. DOMAIN s = {1}
    BY <1>2
  <1>4. Found(s) = {token}
    BY <1>2, <1>3 DEF Found
  <1> QED
    BY <1>1, <1>2, <1>4

LEMMA Nothing == << >> \in Texts /\ Found(<< >>) = {}
  BY DEF Texts, Found

LEMMA Appending ==
  ASSUME NEW s \in Texts, NEW token \in Tokens
  PROVE  Append(s, token) \in Texts /\ Found(Append(s, token)) = Found(s) \cup {token}
  <1>1. Append(s, token) = s \o <<token>>
    BY DEF Texts
  <1> QED
    BY <1>1, Concatenation, Single

LEMMA Trimming ==
  ASSUME NEW s \in Texts
  PROVE  Trim(s) \in Texts /\ Found(Trim(s)) \subseteq Found(s)
  <1>1. CASE Len(s) > 1 /\ s[Len(s)] = "sep"
    <2>1. PICK t \in Seq(Tokens) : /\ t = SubSeq(s, 1, Len(s) - 1) /\ Len(t) = Len(s) - 1
                                   /\ \A i \in 1..Len(t) : t[i] = s[i]
      <3>1. Len(s) > 1 /\ Len(s) \in Nat
        BY <1>1 DEF Texts
      <3>2. Len(s) - 1 \in Nat /\ Len(s) - 1 >= 1 /\ Len(s) - 1 <= Len(s)
        BY <3>1
      <3>3. PICK n \in Nat : n = Len(s) - 1 /\ n >= 1 /\ n <= Len(s)
        BY <3>2, Zenon
      <3>4. \A i \in 1..n : s[i] \in Tokens
        BY <3>3 DEF Texts
      <3>5. /\ SubSeq(s, 1, n) \in Seq(Tokens)
            /\ Len(SubSeq(s, 1, n)) = IF 1 <= n THEN n - 1 + 1 ELSE 0
            /\ \A i \in 1..(n - 1 + 1) : SubSeq(s, 1, n)[i] = s[1 + i - 1]
        BY <3>4, SubSeqProperties
      <3>6. Len(SubSeq(s, 1, n)) = n /\ \A i \in 1..n : SubSeq(s, 1, n)[i] = s[i]
        BY <3>3, <3>5
      <3> QED
        BY <3>3, <3>5, <3>6
    <2>2. Found(t) \subseteq Found(s)
      BY <2>1 DEF Found, Texts
    <2> QED
      BY <1>1, <2>1, <2>2 DEF Trim, Texts
  <1>2. CASE ~(Len(s) > 1 /\ s[Len(s)] = "sep")
    BY <1>2 DEF Trim
  <1> QED
    BY <1>1, <1>2

\* What the operations on the output buffer leave in it.

LEMMA Printing ==
  ASSUME NEW o \in Outs, NEW tokens \in Texts, NEW p \in Printed(o, tokens)
  PROVE  /\ p.o \in Outs /\ p.ok \in BOOLEAN
         /\ Found(p.o.text) \subseteq Found(o.text) \cup Found(tokens) \cup {"error"}
  <1>1. CASE o.had
    <2>1. p = [o |-> o, ok |-> TRUE]
      BY <1>1 DEF Printed
    <2> QED
      BY <2>1
  <1>2. CASE ~o.had
    <2>1. p = [o |-> [o EXCEPT !.text = @ \o tokens], ok |-> TRUE]
          \/ p = [o |-> Spoilt, ok |-> FALSE]
      BY <1>2 DEF Printed
    <2>2. CASE p = [o |-> [o EXCEPT !.text = @ \o tokens], ok |-> TRUE]
      <3>1. p.o.text = o.text \o tokens /\ p.ok = TRUE /\ p.o.had = o.had
            /\ p.o = [text |-> o.text \o tokens, had |-> o.had]
        BY <2>2 DEF Outs
      <3>2. o.text \in Texts
        BY DEF Outs
      <3> QED
        BY <3>1, <3>2, Concatenation DEF Outs
    <2>3. CASE p = [o |-> Spoilt, ok |-> FALSE]
      <3>1. <<"error">> \in Texts /\ Found(<<"error">>) = {"error"}
        BY Single DEF Tokens
      <3> QED
        BY <2>3, <3>1 DEF Outs, Spoilt
    <2> QED
      BY <2>1, <2>2, <2>3
  <1> QED
    BY <1>1, <1>2

LEMMA Failing ==
  ASSUME NEW o \in Outs
  PROVE  /\ Errored(o) \in Outs
         /\ Found(Errored(o).text) \subseteq Found(o.text) \cup {"error"}
  <1>1. o.text \in Texts /\ "error" \in Tokens
    BY DEF Outs, Tokens
  <1> QED
    BY <1>1, Appending DEF Errored, Outs

LEMMA Getting ==
  ASSUME NEW o \in Outs, NEW g \in Got(o)
  PROVE  g.o \in Outs /\ g.text \in Texts /\ Found(g.text) \subseteq Found(o.text)
  <1>1. o.text \in Texts /\ Errored(o) \in Outs
    BY Failing DEF Outs
  <1> QED
    BY <1>1, Nothing DEF Got

\* Which descriptions a text has.

Quiet(text) == Found(text) \cap Descriptions = {}

LEMMA OneDescribes ==
  ASSUME NEW text, NEW d \in Descriptions, Found(text) \cap Descriptions \subseteq {d}
  PROVE  Described(text)
  BY DEF Described

LEMMA QuietDescribes ==
  ASSUME NEW text, Quiet(text)
  PROVE  Described(text)
  BY DEF Described, Quiet

LEMMA TextDescribes ==
  ASSUME NEW text, Plain, Found(text) \cap Descriptions \subseteq {"soft", "text"}
  PROVE  Described(text)
  <1>1. "soft" \in Descriptions /\ "text" \in Descriptions
    BY DEF Descriptions, Detectors
  <1> DEFINE described == Found(text) \cap Descriptions
  <1>2. described = {} \/ described = {"soft"} \/ described = {"text"}
        \/ described = {"soft", "text"}
    OBVIOUS
  <1> QED
    BY <1>1, <1>2 DEF Described

LEMMA FewerDescribes ==
  ASSUME NEW s, NEW t, Described(s), Found(t) \cap Descriptions \subseteq Found(s)
  PROVE  Described(t)
  <1>1. Found(t) \cap Descriptions \subseteq Found(s) \cap Descriptions
    OBVIOUS
  <1>2. CASE Plain /\ Found(s) \cap Descriptions = {"soft", "text"}
    BY <1>1, <1>2, TextDescribes
  <1>3. CASE Found(s) \cap Descriptions = {}
    BY <1>1, <1>3 DEF Described
  <1>4. CASE \E d \in Descriptions : Found(s) \cap Descriptions = {d}
    BY <1>1, <1>4, OneDescribes
  <1> QED
    BY <1>2, <1>3, <1>4 DEF Described

LEMMA QuietPrinting ==
  ASSUME NEW o \in Outs, NEW tokens \in Texts, NEW p \in Printed(o, tokens),
         Quiet(o.text), Quiet(tokens)
  PROVE  Quiet(p.o.text)
  <1>1. "error" \notin Descriptions
    BY DEF Descriptions, Detectors, Builtin
  <1> QED
    BY <1>1, Printing DEF Quiet

LEMMA QuietFailing ==
  ASSUME NEW o \in Outs, Quiet(o.text)
  PROVE  Quiet(Errored(o).text)
  <1>1. "error" \notin Descriptions
    BY DEF Descriptions, Detectors, Builtin
  <1> QED
    BY <1>1, Failing DEF Quiet

LEMMA EncodingType == Encoding \in Texts /\ Quiet(Encoding)
  <1>1. {"charset", "encoding"} \subseteq Tokens /\ {"charset", "encoding"} \cap Descriptions = {}
    BY DEF Tokens, Descriptions, Detectors, Builtin
  <1>2. <<"encoding">> \in Texts /\ Found(<<"encoding">>) = {"encoding"}
    BY <1>1, Single
  <1>3. /\ <<"charset">> \o <<"encoding">> \in Texts
        /\ Found(<<"charset">> \o <<"encoding">>) = {"charset", "encoding"}
    BY <1>1, Single, Concatenation
  <1>4. <<"charset", "encoding">> = <<"charset">> \o <<"encoding">>
    OBVIOUS
  <1> QED
    BY <1>1, <1>2, <1>3, <1>4, Nothing DEF Encoding, Quiet

\* What the detectors leave in the buffer.

LEMMA DescribesType ==
  ASSUME NEW o \in Outs, NEW token \in Tokens, NEW a \in Describes(o, token)
  PROVE  /\ a.m \in Values \ {0} /\ a.o \in Outs /\ a.lapse = {}
         /\ Found(a.o.text) \subseteq Found(o.text) \cup {token, "error"}
  <1>1. PICK p \in Printed(o, <<token>>) : a = Answer(IF p.ok THEN 1 ELSE -1, p.o)
    BY DEF Describes
  <1>2. a.m = (IF p.ok THEN 1 ELSE -1) /\ a.o = p.o /\ a.lapse = {}
    BY <1>1 DEF Answer, Lapsed
  <1>3. /\ p.o \in Outs
        /\ Found(p.o.text) \subseteq Found(o.text) \cup Found(<<token>>) \cup {"error"}
    BY Single, Printing
  <1> QED
    BY <1>2, <1>3, Single DEF Values

LEMMA BuiltinType ==
  ASSUME NEW d \in Builtin, NEW o \in Outs, NEW a \in BuiltinAnswers(d, o)
  PROVE  /\ a.m \in Values /\ a.o \in Outs /\ a.lapse = {}
         /\ Found(a.o.text) \subseteq Found(o.text) \cup {d, "error"}
         /\ a.m = 0 => a.o = o
  <1>1. d \in Tokens
    BY DEF Tokens, Detectors
  <1>2. CASE a = Answer(0, o) \/ a = Answer(1, o)
    BY <1>2 DEF Answer, Lapsed, Values
  <1>3. CASE a \in Describes(o, d)
    BY <1>1, <1>3, DescribesType
  <1>4. CASE \E p \in Printed(o, <<d>>) : a = Answer(1, p.o)
    <2>1. PICK p \in Printed(o, <<d>>) : a = Answer(1, p.o)
      BY <1>4
    <2>2. /\ p.o \in Outs
          /\ Found(p.o.text) \subseteq Found(o.text) \cup Found(<<d>>) \cup {"error"}
      BY <1>1, Single, Printing
    <2> QED
      BY <1>1, <2>1, <2>2, Single DEF Answer, Lapsed, Values
  <1> QED
    BY <1>2, <1>3, <1>4 DEF BuiltinAnswers

LEMMA RaggedType ==
  ASSUME NEW text \in RaggedTexts
  PROVE  text \in Texts /\ Found(text) \subseteq {"sep", "soft"} /\ "sep" \in Found(text)
  <1>1. {"sep", "soft"} \subseteq Tokens
    BY DEF Tokens, Detectors
  <1>2. /\ <<"sep">> \in Texts /\ Found(<<"sep">>) = {"sep"}
        /\ <<"soft">> \in Texts /\ Found(<<"soft">>) = {"soft"}
    BY <1>1, Single
  <1> DEFINE a == <<"sep">> \o <<"soft">>
             b == <<"soft">> \o <<"sep">>
             c == a \o <<"sep">>
  <1>3. /\ a \in Texts /\ Found(a) = {"sep", "soft"}
        /\ b \in Texts /\ Found(b) = {"sep", "soft"}
    BY <1>2, Concatenation
  <1>4. c \in Texts /\ Found(c) = {"sep", "soft"}
    <2> HIDE DEF a
    <2> QED
      BY <1>2, <1>3, Concatenation
  <1>5. <<"sep", "soft">> = a /\ <<"soft", "sep">> = b /\ <<"sep", "soft", "sep">> = c
    OBVIOUS
  <1> HIDE DEF a, b, c
  <1> QED
    BY <1>2, <1>3, <1>4, <1>5 DEF RaggedTexts

\* What the rules may print, and what lapses come with it.
LEMMA SoftText ==
  ASSUME NEW text \in SoftTexts
  PROVE  /\ text \in Texts /\ Found(text) \subseteq {"soft", "sep"}
         /\ text = << >> \/ text = <<"soft">> \/ (text \in RaggedTexts /\ Has("continue"))
  <1>1. text = << >> \/ text = <<"soft">> \/ (text \in RaggedTexts /\ Has("continue"))
    BY DEF SoftTexts
  <1>2. "soft" \in Tokens
    BY DEF Tokens, Detectors
  <1> QED
    BY <1>1, <1>2, Single, Nothing, RaggedType

LEMMA SoftLapsed ==
  ASSUME NEW value, NEW text
  PROVE  /\ SoftLapses(value, text) \subseteq Lapses
         /\ "mute" \in SoftLapses(value, text) <=> value = -1 \/ text = << >>
         /\ text \in RaggedTexts => "ragged" \in SoftLapses(value, text)
  BY DEF SoftLapses, Lapses

\* What the rules may answer, case by case.
LEMMA SoftCases ==
  ASSUME NEW o \in Outs, NEW a \in SoftAnswers(o)
  PROVE  \/ a.m = 0 /\ a.o \in {o, Errored(o)} /\ a.lapse = {}
         \/ \E text \in SoftTexts : \E p \in Printed(o, text) :
              /\ a.m \in {-1, 1}
              /\ \/ a.o = Errored(p.o) /\ a.lapse = {}
                 \/ a.o = p.o /\ a.lapse = SoftLapses(a.m, text)
  <1>1. CASE a \in {Answer(0, o), Answer(0, Errored(o))}
    BY <1>1 DEF Answer, Lapsed
  <1>2. CASE \E text \in SoftTexts : a \in SoftMatches(o, text)
    <2>1. PICK text \in SoftTexts : a \in SoftMatches(o, text)
      BY <1>2
    <2>2. PICK value \in {-1, 1}, p \in Printed(o, text) :
             a \in {Answer(value, Errored(p.o)), Lapsed(value, p.o, SoftLapses(value, text))}
      BY <2>1 DEF SoftMatches
    <2>3. /\ a.m = value
          /\ \/ a.o = Errored(p.o) /\ a.lapse = {}
             \/ a.o = p.o /\ a.lapse = SoftLapses(value, text)
      BY <2>2 DEF Answer, Lapsed
    <2> QED
      BY <2>2, <2>3
  <1> QED
    BY <1>1, <1>2 DEF SoftAnswers

LEMMA SoftType ==
  ASSUME NEW o \in Outs, NEW a \in SoftAnswers(o)
  PROVE  /\ a.m \in Values /\ a.o \in Outs /\ a.lapse \subseteq Lapses
         /\ Found(a.o.text) \subseteq Found(o.text) \cup {"soft", "sep", "error"}
         /\ a.m = 0 => Found(a.o.text) \subseteq Found(o.text) \cup {"error"}
         /\ a.m = -1 => a.o.had \/ "mute" \in a.lapse
  <1>1. CASE a.m = 0 /\ a.o \in {o, Errored(o)} /\ a.lapse = {}
    BY <1>1, Failing DEF Values
  <1>2. ASSUME NEW text \in SoftTexts, NEW p \in Printed(o, text), a.m \in {-1, 1},
               \/ a.o = Errored(p.o) /\ a.lapse = {}
               \/ a.o = p.o /\ a.lapse = SoftLapses(a.m, text)
        PROVE  /\ a.o \in Outs /\ a.lapse \subseteq Lapses
               /\ Found(a.o.text) \subseteq Found(o.text) \cup {"soft", "sep", "error"}
               /\ a.m = -1 => a.o.had \/ "mute" \in a.lapse
    <2>1. text \in Texts /\ Found(text) \subseteq {"soft", "sep"}
      BY SoftText
    <2>2. /\ p.o \in Outs
          /\ Found(p.o.text) \subseteq Found(o.text) \cup {"soft", "sep", "error"}
      BY <2>1, Printing
    <2>3. /\ Errored(p.o) \in Outs /\ Errored(p.o).had
          /\ Found(Errored(p.o).text) \subseteq Found(p.o.text) \cup {"error"}
      BY <2>2, Failing DEF Errored, Outs
    <2>4. /\ SoftLapses(a.m, text) \subseteq Lapses
          /\ a.m = -1 => "mute" \in SoftLapses(a.m, text)
      BY SoftLapsed
    <2> QED
      BY <1>2, <2>2, <2>3, <2>4
  <1> QED
    BY <1>1, <1>2, SoftCases DEF Values

\* What the rules for text leave to file_ascmagic.
LEMMA TextRulesCases ==
  ASSUME NEW o \in Outs, NEW r \in TextRules(o)
  PROVE  \/ r.rv = -1 /\ r.matched = FALSE /\ r.lapse = {} /\ r.o \in {o, Errored(o)}
         \/ \E a \in SoftAnswers(o) :
              /\ r.rv = (IF a.m = 0 THEN -1 ELSE a.m) /\ (r.matched <=> a.m # 0)
              /\ r.o = a.o /\ r.lapse = a.lapse
  <1>1. CASE r = Untried(o) \/ r = Untried(Errored(o))
    BY <1>1 DEF Untried
  <1>2. CASE \E a \in SoftAnswers(o) :
               r = [rv |-> IF a.m = 0 THEN -1 ELSE a.m, matched |-> a.m # 0, o |-> a.o,
                    lapse |-> a.lapse]
    <2>1. PICK a \in SoftAnswers(o) :
               r = [rv |-> IF a.m = 0 THEN -1 ELSE a.m, matched |-> a.m # 0, o |-> a.o,
                    lapse |-> a.lapse]
      BY <1>2
    <2>2. r.matched = (a.m # 0)
      BY <2>1
    <2>3. r.rv = (IF a.m = 0 THEN -1 ELSE a.m) /\ r.o = a.o /\ r.lapse = a.lapse
      BY <2>1
    <2> QED
      BY <2>2, <2>3
  <1> QED
    BY <1>1, <1>2 DEF TextRules

LEMMA TextRulesType ==
  ASSUME NEW o \in Outs, NEW r \in TextRules(o)
  PROVE  /\ r.rv \in {-1, 1} /\ r.o \in Outs /\ r.lapse \subseteq Lapses
         /\ Found(r.o.text) \subseteq Found(o.text) \cup {"soft", "sep", "error"}
         /\ \/ r.rv = 1 \/ r.o.had \/ "mute" \in r.lapse
            \/ Found(r.o.text) \subseteq Found(o.text) \cup {"error"}
  <1>1. CASE r.rv = -1 /\ r.matched = FALSE /\ r.lapse = {} /\ r.o \in {o, Errored(o)}
    BY <1>1, Failing DEF Lapses
  <1>2. CASE \E a \in SoftAnswers(o) :
               /\ r.rv = (IF a.m = 0 THEN -1 ELSE a.m) /\ (r.matched <=> a.m # 0)
               /\ r.o = a.o /\ r.lapse = a.lapse
    <2>1. PICK a \in SoftAnswers(o) : /\ r.rv = (IF a.m = 0 THEN -1 ELSE a.m)
                                      /\ r.o = a.o /\ r.lapse = a.lapse
      BY <1>2
    <2> QED
      BY <2>1, SoftType DEF Values
  <1> QED
    BY <1>1, <1>2, TextRulesCases

\* What file_ascmagic does then, case by case.
LEMMA AfterCases ==
  ASSUME NEW r, NEW a \in AfterTextRules(r), r.rv \in {-1, 1}
  PROVE  \/ /\ a.o = r.o /\ a.lapse = r.lapse
            /\ \/ Has("silent") /\ a.m = (IF r.rv = -1 THEN 0 ELSE 1)
               \/ ~Has("silent") /\ a.m = 1 /\ (EncodingOnly \/ (r.o.text # << >> /\ ~Has("continue")))
         \/ /\ ~Has("silent") /\ ~EncodingOnly
            /\ ~(Mime /\ r.o.text # << >> /\ ~Has("continue"))
            /\ \/ /\ a.lapse = r.lapse
                  /\ \E p \in Printed(r.o, TextTokens(r)) :
                       a.o = p.o /\ a.m = (IF p.ok THEN 1 ELSE r.rv)
               \/ a.o = r.o /\ a.m = r.rv /\ a.lapse = r.lapse \cup {"mute"} /\ ~Mime
  <1>1. CASE Has("silent")
    BY <1>1 DEF AfterTextRules, Lapsed
  <1>2. CASE /\ ~Has("silent")
             /\ EncodingOnly \/ (Mime /\ r.o.text # << >> /\ ~Has("continue"))
    BY <1>2 DEF AfterTextRules, Lapsed
  <1>3. CASE /\ ~Has("silent")
             /\ ~(EncodingOnly \/ (Mime /\ r.o.text # << >> /\ ~Has("continue")))
    <2>1. CASE a \in Behind(r, TextTokens(r))
      <3>1. PICK p \in Printed(r.o, TextTokens(r)) :
               a = Lapsed(IF p.ok THEN 1 ELSE r.rv, p.o, r.lapse)
        BY <2>1 DEF Behind
      <3>2. a.o = p.o /\ a.m = (IF p.ok THEN 1 ELSE r.rv) /\ a.lapse = r.lapse
        BY <3>1 DEF Lapsed
      <3> QED
        BY <1>3, <3>2
    <2>2. CASE a \in GivesUp(r)
      BY <1>3, <2>2 DEF GivesUp, Lapsed
    <2> QED
      BY <1>3, <2>1, <2>2 DEF AfterTextRules
  <1> QED
    BY <1>1, <1>2, <1>3

LEMMA TextTokensType ==
  ASSUME NEW r, NEW x, x = TextTokens(r)
  PROVE  x \in Texts /\ Found(x) \cap Descriptions \subseteq {"text"}
  <1>1. /\ {"text", "joint", "sep"} \subseteq Tokens
        /\ {"joint", "sep"} \cap Descriptions = {}
    BY DEF Tokens, Descriptions, Detectors, Builtin
  <1>2. <<"text">> \in Texts /\ Found(<<"text">>) = {"text"}
    BY <1>1, Single
  <1>3. /\ <<"joint">> \o <<"text">> \in Texts
        /\ Found(<<"joint">> \o <<"text">>) = {"joint", "text"}
    BY <1>1, Single, Concatenation
  <1>4. /\ <<"sep">> \o <<"text">> \in Texts
        /\ Found(<<"sep">> \o <<"text">>) = {"sep", "text"}
    BY <1>1, Single, Concatenation
  <1>5. /\ <<"joint", "text">> = <<"joint">> \o <<"text">>
        /\ <<"sep", "text">> = <<"sep">> \o <<"text">>
    OBVIOUS
  <1>6. x \in {<<"text">>, <<"joint", "text">>, <<"sep", "text">>}
    BY DEF TextTokens
  <1>7. CASE x = <<"text">>
    BY <1>2, <1>7
  <1>8. CASE x = <<"joint", "text">>
    BY <1>1, <1>3, <1>5, <1>8
  <1>9. CASE x = <<"sep", "text">>
    BY <1>1, <1>4, <1>5, <1>9
  <1> QED
    BY <1>6, <1>7, <1>8, <1>9

\* With these lapses the default may stand behind a description.
Loose(l) == Has("silent") /\ "mute" \in l

\* A detector that starts with a buffer without descriptions leaves at most one, or
\* what the rules for text and file_ascmagic say.
LEMMA TextType ==
  ASSUME NEW o \in Outs, NEW a \in TextAnswers(o)
  PROVE  /\ a.m \in Values /\ a.o \in Outs /\ a.lapse \subseteq Lapses
         /\ ~Has("continue") /\ Quiet(o.text) =>
              /\ Described(a.o.text)
              /\ a.m = 0 => Quiet(a.o.text) \/ a.o.had \/ Loose(a.lapse)
  <1>1. CASE a = Answer(0, o)
    BY <1>1, QuietDescribes DEF Answer, Lapsed, Values
  <1>2. CASE a = Answer(-1, Errored(o))
    BY <1>2, Failing, QuietFailing, QuietDescribes DEF Answer, Lapsed, Values
  <1>3. CASE \E r \in TextRules(o) : a \in AfterTextRules(r)
    <2>1. PICK r \in TextRules(o) : a \in AfterTextRules(r)
      BY <1>3
    <2>2. /\ r.rv \in {-1, 1} /\ r.o \in Outs /\ r.lapse \subseteq Lapses
          /\ Found(r.o.text) \subseteq Found(o.text) \cup {"soft", "sep", "error"}
          /\ \/ r.rv = 1 \/ r.o.had \/ "mute" \in r.lapse
             \/ Found(r.o.text) \subseteq Found(o.text) \cup {"error"}
      BY TextRulesType
    <2>3. Quiet(o.text) => Found(r.o.text) \cap Descriptions \subseteq {"soft"}
      BY <2>2 DEF Quiet, Descriptions, Detectors, Builtin
    <2>4. Quiet(o.text) => Described(r.o.text)
      BY <2>3, OneDescribes DEF Descriptions, Detectors
    <2>5. CASE /\ a.o = r.o /\ a.lapse = r.lapse /\ a.m \in Values
               /\ a.m = 0 => r.rv = -1 /\ Has("silent")
      <3>1. a.m = 0 /\ Quiet(o.text) => Quiet(a.o.text) \/ a.o.had \/ Loose(a.lapse)
        BY <2>2, <2>5 DEF Quiet, Descriptions, Detectors, Builtin, Loose
      <3> QED
        BY <2>2, <2>4, <2>5, <3>1
    <2>6. CASE a.o = r.o /\ a.m = r.rv /\ a.lapse = r.lapse \cup {"mute"}
      BY <2>2, <2>4, <2>6 DEF Values, Lapses
    <2>7. CASE /\ ~Has("silent") /\ ~(Mime /\ r.o.text # << >> /\ ~Has("continue"))
               /\ a.lapse = r.lapse
               /\ \E p \in Printed(r.o, TextTokens(r)) :
                    a.o = p.o /\ a.m = (IF p.ok THEN 1 ELSE r.rv)
      <3>1. PICK p \in Printed(r.o, TextTokens(r)) :
              a.o = p.o /\ a.m = (IF p.ok THEN 1 ELSE r.rv)
        BY <2>7
      <3>2. /\ TextTokens(r) \in Texts
            /\ Found(TextTokens(r)) \cap Descriptions \subseteq {"text"}
        BY TextTokensType
      <3>3. /\ p.o \in Outs
            /\ Found(p.o.text) \subseteq Found(r.o.text) \cup Found(TextTokens(r)) \cup {"error"}
        BY <2>2, <3>2, Printing
      <3>4. a.m \in {-1, 1} /\ a.o = p.o
        BY <2>2, <3>1
      <3>5. ASSUME ~Has("continue"), Quiet(o.text) PROVE Described(p.o.text)
        <4>1. "error" \notin Descriptions
          BY DEF Descriptions, Detectors, Builtin
        <4>2. CASE r.o.text = << >>
          <5>1. Found(p.o.text) \cap Descriptions \subseteq {"text"}
            BY <3>2, <3>3, <4>1, <4>2, Nothing
          <5> QED
            BY <5>1, OneDescribes DEF Descriptions, Detectors
        <4>3. CASE r.o.text # << >>
          <5>1. Plain
            BY <2>7, <3>5, <4>3 DEF Plain
          <5>2. Found(p.o.text) \cap Descriptions \subseteq {"soft", "text"}
            BY <2>3, <3>2, <3>3, <3>5, <4>1
          <5> QED
            BY <5>1, <5>2, TextDescribes
        <4> QED
          BY <4>2, <4>3
      <3> QED
        BY <2>2, <2>7, <3>3, <3>4, <3>5 DEF Values
    <2> QED
      BY <2>1, <2>2, <2>5, <2>6, <2>7, AfterCases DEF Values
  <1> QED
    BY <1>1, <1>2, <1>3 DEF TextAnswers

LEMMA AnswersType ==
  ASSUME NEW d \in Detectors, NEW o \in Outs, NEW a \in Answers(d, o)
  PROVE  /\ a.m \in Values /\ a.o \in Outs /\ a.lapse \subseteq Lapses
         /\ ~Has("continue") /\ Quiet(o.text) =>
              /\ Described(a.o.text)
              /\ a.m = 0 => Quiet(a.o.text) \/ (d = "text" /\ (a.o.had \/ Loose(a.lapse)))
  <1>1. CASE d \in Builtin
    <2>1. a \in BuiltinAnswers(d, o)
      BY <1>1 DEF Answers, Builtin
    <2>2. /\ a.m \in Values /\ a.o \in Outs /\ a.lapse \subseteq Lapses
          /\ Found(a.o.text) \subseteq Found(o.text) \cup {d, "error"}
          /\ a.m = 0 => a.o = o
      BY <1>1, <2>1, BuiltinType
    <2>3. Quiet(o.text) => Found(a.o.text) \cap Descriptions \subseteq {d}
      BY <2>2 DEF Quiet, Descriptions, Detectors, Builtin
    <2> QED
      BY <2>2, <2>3, OneDescribes DEF Descriptions
  <1>2. CASE d = "soft"
    <2>1. a \in SoftAnswers(o)
      BY <1>2 DEF Answers, Builtin
    <2>2. /\ a.m \in Values /\ a.o \in Outs /\ a.lapse \subseteq Lapses
          /\ Found(a.o.text) \subseteq Found(o.text) \cup {"soft", "sep", "error"}
          /\ a.m = 0 => Found(a.o.text) \subseteq Found(o.text) \cup {"error"}
      BY <2>1, SoftType
    <2>3. Quiet(o.text) => /\ Found(a.o.text) \cap Descriptions \subseteq {"soft"}
                           /\ a.m = 0 => Quiet(a.o.text)
      BY <2>2 DEF Quiet, Descriptions, Detectors, Builtin
    <2> QED
      BY <1>2, <2>2, <2>3, OneDescribes DEF Descriptions
  <1>3. CASE d = "text"
    BY <1>3, TextType DEF Answers, Builtin
  <1> QED
    BY <1>1, <1>2, <1>3 DEF Detectors

-----------------------------------------------------------------------------
\* The inductive invariant: without MAGIC_CONTINUE nothing is described before a
\* detector that found something ends the call.

Undescribed ==
  ~Has("continue") =>
    /\ stage \notin {"idle", "done", "simple"} => Quiet(out.text)
    /\ stage = "simple" =>
         Quiet(out.text) \/ (out.had /\ Described(out.text)) \/ Loose(lapse)
    /\ stage = "done" => Described(out.text) \/ Loose(lapse)
    /\ Described(result) \/ Loose(lapse)
Inv == TypeOK /\ Undescribed

\* Flags do not change, so a text keeps its descriptions.
LEMMA StillDescribed ==
  ASSUME flags' = flags
  PROVE  /\ Described(result') => Described(result)'
         /\ Described(out.text') => Described(out.text)'
         /\ Has("continue")' <=> Has("continue")
         /\ Quiet(out'.text) <=> Quiet(out.text)'
         /\ Loose(lapse') <=> Loose(lapse)'
  BY DEF Loose, Described, Found, Quiet, Plain, Mime, Has, Descriptions, Detectors, Builtin

LEMMA Concluding ==
  ASSUME NEW o \in Outs, NEW value, Conclude(o, value)
  PROVE  /\ stage' = "idle" /\ out' \in Outs /\ result' \in Texts
         /\ Found(result') \subseteq Found(o.text)
  <1>1. PICK g \in IF value = -1 THEN {[o |-> o, text |-> << >>]} ELSE Got(o) :
          out' = g.o /\ result' = g.text
    BY DEF Conclude
  <1>2. CASE value = -1
    BY <1>1, <1>2, Nothing DEF Conclude
  <1>3. CASE value # -1
    BY <1>1, <1>3, Getting DEF Conclude
  <1> QED
    BY <1>2, <1>3

\* What a step of a call must establish.
LEMMA Reduction ==
  ASSUME flags \in FlagSets, flags' = flags,
         stage' \in Stages, input' \in Inputs, m' \in Values, rv' \in Values,
         out' \in Outs, result' \in Texts, stage' # "idle" => result' = << >>,
         lapse' \subseteq Lapses,
         ~Has("continue") =>
           /\ stage' \notin {"idle", "done", "simple"} => Quiet(out'.text)
           /\ stage' = "simple" =>
                Quiet(out'.text) \/ (out'.had /\ Described(out'.text)) \/ Loose(lapse')
           /\ stage' = "done" => Described(out'.text) \/ Loose(lapse')
           /\ stage' = "idle" => Described(result') \/ Loose(lapse')
  PROVE  Inv'
  <1>1. TypeOK'
    BY DEF TypeOK, Values, Outs, Lapses
  <1>2. ~Has("continue") /\ stage' # "idle" => Described(result')
    BY Nothing, QuietDescribes DEF Quiet
  <1>3. ~Has("continue") =>
          /\ stage' \notin {"idle", "done", "simple"} => Quiet(out'.text)
          /\ stage' = "simple" =>
                Quiet(out'.text) \/ (out'.had /\ Described(out'.text)) \/ Loose(lapse')
          /\ stage' = "done" => Described(out'.text) \/ Loose(lapse')
          /\ Described(result') \/ Loose(lapse')
    BY <1>2
  <1> QED
    BY <1>1, <1>3, StillDescribed DEF Inv, Undescribed

LEMMA ExamineType ==
  ASSUME NEW sizes \in SUBSET {"empty", "byte", "many"}, NEW o \in Outs, Examine(sizes, o)
  PROVE  /\ input' \in Inputs /\ stage' \in {"tar", "simple"} /\ out' \in {o, Errored(o)}
         /\ out' \in Outs /\ (Quiet(o.text) => Quiet(out'.text))
  <1>1. input' \in Inputs /\ stage' \in {"tar", "simple"} /\ out' \in {o, Errored(o)}
    BY DEF Examine, Inputs
  <1> QED
    BY <1>1, Failing, QuietFailing

LEMMA DetectorStages ==
  /\ \A d \in Detectors : /\ After[d] \in Stages \ {"idle", "done"}
                           /\ d \notin {"idle", "done"}
  /\ {"tar", "simple", "done"} \subseteq Stages
  BY DEF After, Detectors, Builtin, Stages

LEMMA LastDetector ==
  ASSUME NEW d \in Detectors
  PROVE  d # "simple" /\ (After[d] = "simple" => d = "text") /\ After["text"] = "simple"
  BY DEF After, Detectors, Builtin

LEMMA BufferStep ==
  ASSUME Inv, Buffer
  PROVE  Inv'
  <1>1. Fresh \in Outs /\ Quiet(Fresh.text)
    BY Nothing DEF Fresh, Outs, Quiet
  <1>2. /\ stage' \in {"tar", "simple"} /\ input' \in Inputs
        /\ out' \in Outs /\ Quiet(out'.text)
    BY <1>1, ExamineType DEF Buffer, Cleared
  <1>3. result' = << >> /\ flags' = flags /\ m' = m /\ rv' = rv /\ lapse' = {}
    BY DEF Buffer, NewCall
  <1> QED
    BY <1>2, <1>3, Nothing, Reduction, DetectorStages DEF Inv, TypeOK, Values

LEMMA SkipStep ==
  ASSUME Inv, NEW d \in Detectors, Skip(d)
  PROVE  Inv'
  <1>1. /\ stage = d /\ stage' = After[d] /\ flags' = flags /\ input' = input /\ m' = m
        /\ rv' = rv /\ out' = out /\ result' = result /\ lapse' = lapse
    BY DEF Skip
  <1>2. /\ stage' \in Stages \ {"idle", "done"} /\ stage \notin {"idle", "done", "simple"}
    BY <1>1, DetectorStages, LastDetector
  <1> QED
    BY <1>1, <1>2, Reduction DEF Inv, TypeOK, Undescribed, Values, Outs

LEMMA TryStep ==
  ASSUME Inv, NEW d \in Detectors, Try(d)
  PROVE  Inv'
  <1>1. out \in Outs /\ stage = d /\ result = << >> /\ rv \in Values
    BY DetectorStages DEF Try, Inv, TypeOK, Outs, Values
  <1>2. /\ UNCHANGED <<flags, input, result>>
        /\ \E a \in Answers(d, out) : \E p \in Separated(d, a) :
             /\ m' = a.m /\ out' = p.o /\ lapse' = lapse \cup a.lapse
             /\ rv' = IF p.ok THEN rv ELSE -1
             /\ stage' = IF GoesOn(d, a) THEN After[d] ELSE "done"
    BY DEF Try
  <1>3. PICK a \in Answers(d, out) : \E p \in Separated(d, a) :
             /\ m' = a.m /\ out' = p.o /\ lapse' = lapse \cup a.lapse
             /\ rv' = IF p.ok THEN rv ELSE -1
             /\ stage' = IF GoesOn(d, a) THEN After[d] ELSE "done"
    BY <1>2
  <1>4. PICK p \in Separated(d, a) :
             /\ m' = a.m /\ out' = p.o /\ lapse' = lapse \cup a.lapse
             /\ rv' = IF p.ok THEN rv ELSE -1
             /\ stage' = IF GoesOn(d, a) THEN After[d] ELSE "done"
    BY <1>3
  <1>5. /\ a.m \in Values /\ a.o \in Outs /\ a.lapse \subseteq Lapses
        /\ ~Has("continue") /\ Quiet(out.text) =>
             /\ Described(a.o.text)
             /\ a.m = 0 => Quiet(a.o.text) \/ (d = "text" /\ (a.o.had \/ Loose(a.lapse)))
    BY <1>1, AnswersType
  <1>6. p.o \in Outs /\ rv' \in Values
    <2>1. CASE p \in Printed(a.o, <<"sep">>)
      <3>1. <<"sep">> \in Texts
        BY Single DEF Tokens
      <3> QED
        BY <1>1, <1>4, <1>5, <2>1, <3>1, Printing DEF Values
    <2>2. CASE p = [o |-> a.o, ok |-> TRUE]
      BY <1>1, <1>4, <1>5, <2>2
    <2> QED
      BY <1>4, <2>1, <2>2 DEF Separated
  <1>7. ~Has("continue") => /\ p.o = a.o
                            /\ Quiet(out.text)
                            /\ stage' # "done" => a.m = 0
    BY <1>1, <1>4, DetectorStages, LastDetector DEF GoesOn, Separated, Inv, Undescribed
  <1>8. /\ stage' \in Stages /\ stage' # "idle"
        /\ d = "text" => stage' \in {"simple", "done"}
    <2>1. stage' \in Stages /\ stage' # "idle"
      BY <1>4, DetectorStages DEF Stages
    <2> QED
      BY <1>4, <2>1, LastDetector
  <1>9. lapse' \subseteq Lapses
    BY <1>4, <1>5 DEF Inv, TypeOK
  <1>10. ~Has("continue") =>
           /\ stage' \notin {"idle", "done", "simple"} => Quiet(out'.text)
           /\ stage' = "simple" =>
                Quiet(out'.text) \/ (out'.had /\ Described(out'.text)) \/ Loose(lapse')
           /\ stage' = "done" => Described(out'.text) \/ Loose(lapse')
    <2>1. Loose(a.lapse) => Loose(lapse')
      BY <1>4 DEF Loose
    <2> QED
      BY <1>4, <1>5, <1>7, <1>8, <2>1
  <1> QED
    BY <1>1, <1>2, <1>4, <1>5, <1>6, <1>8, <1>9, <1>10, Reduction, Nothing DEF Inv, TypeOK

LEMMA DefaultStep ==
  ASSUME Inv, Default
  PROVE  Inv'
  <1>1. /\ stage = "simple" /\ stage' = "done" /\ UNCHANGED <<flags, input, result, lapse>>
        /\ out \in Outs /\ result = << >> /\ m \in Values /\ rv \in Values
    BY DEF Default, Inv, TypeOK, Outs, Values
  <1>2. DefaultTokens \in Texts /\ Found(DefaultTokens) \subseteq {"default"}
    <2>1. <<"default">> \in Texts /\ Found(<<"default">>) = {"default"}
      BY Single DEF Tokens
    <2> QED
      BY <2>1, Nothing DEF DefaultTokens
  <1>3. CASE m # 0
    <2>1. m' = m /\ rv' = rv /\ out' = out
      BY <1>3 DEF Default
    <2>2. ~Has("continue") => Described(out'.text) \/ Loose(lapse')
      BY <1>1, <2>1, QuietDescribes DEF Inv, Undescribed
    <2> QED
      BY <1>1, <2>1, <2>2, Reduction, DetectorStages, Nothing DEF Inv, TypeOK
  <1>4. CASE m = 0
    <2>1. PICK p \in Printed(out, DefaultTokens) :
            out' = p.o /\ rv' = IF ~p.ok THEN -1 ELSE IF Plain THEN 0 ELSE 1
      BY <1>4 DEF Default
    <2>2. /\ p.o \in Outs
          /\ Found(p.o.text) \subseteq Found(out.text) \cup Found(DefaultTokens) \cup {"error"}
      BY <1>1, <1>2, Printing
    <2>3. m' \in Values /\ rv' \in Values
      BY <1>4, <2>1 DEF Default, Values
    <2>4. ASSUME ~Has("continue") PROVE Described(out'.text) \/ Loose(lapse')
      <3>1. Quiet(out.text) \/ (out.had /\ Described(out.text)) \/ Loose(lapse')
        BY <1>1, <2>4 DEF Inv, Undescribed
      <3>2. CASE Quiet(out.text)
        <4>1. Found(out'.text) \cap Descriptions \subseteq {"default"}
          BY <1>2, <2>1, <2>2, <3>2 DEF Quiet, Descriptions, Detectors, Builtin
        <4> QED
          BY <4>1, OneDescribes DEF Descriptions
      <3>3. CASE out.had /\ Described(out.text)
        BY <2>1, <3>3 DEF Printed
      <3> QED
        BY <3>1, <3>2, <3>3
    <2> QED
      BY <1>1, <2>1, <2>2, <2>3, <2>4, Reduction, DetectorStages, Nothing DEF Inv, TypeOK
  <1> QED
    BY <1>3, <1>4

LEMMA FinishStep ==
  ASSUME Inv, Finish
  PROVE  Inv'
  <1>1. /\ stage = "done" /\ m' = 0 /\ rv' = 0 /\ UNCHANGED <<flags, input, lapse>>
        /\ out \in Outs
    BY DEF Finish, Inv, TypeOK, Outs
  <1>2. PICK o \in Outs : /\ o = [out EXCEPT !.text = Trim(@)]
                          /\ Found(o.text) \subseteq Found(out.text)
    <2>1. Trim(out.text) \in Texts /\ Found(Trim(out.text)) \subseteq Found(out.text)
      BY <1>1, Trimming DEF Outs
    <2>2. /\ [out EXCEPT !.text = Trim(out.text)] \in Outs
          /\ [out EXCEPT !.text = Trim(out.text)].text = Trim(out.text)
      BY <1>1, <2>1 DEF Outs
    <2> QED
      BY <2>1, <2>2
  <1>3. PICK p \in Printed(o, Encoding) :
          LET wrong == IF p.ok THEN rv ELSE -1
          IN Conclude(p.o, IF wrong # 0 THEN wrong ELSE m)
    BY <1>2 DEF Finish
  <1>4. /\ p.o \in Outs
        /\ Found(p.o.text) \subseteq Found(o.text) \cup Found(Encoding) \cup {"error"}
    BY <1>2, EncodingType, Printing
  <1>5. /\ stage' = "idle" /\ out' \in Outs /\ result' \in Texts
        /\ Found(result') \subseteq Found(p.o.text)
    BY <1>3, <1>4, Concluding
  <1>6. ASSUME ~Has("continue") PROVE Described(result') \/ Loose(lapse')
    <2>1. Described(out.text) \/ Loose(lapse')
      BY <1>1, <1>6 DEF Inv, Undescribed
    <2>2. Found(result') \cap Descriptions \subseteq Found(out.text)
      BY <1>2, <1>4, <1>5, EncodingType DEF Quiet, Descriptions, Detectors, Builtin
    <2> QED
      BY <2>1, <2>2, FewerDescribes
  <1> QED
    BY <1>1, <1>5, <1>6, Reduction DEF Inv, TypeOK, Stages, Values

-----------------------------------------------------------------------------
\* The steps of magic_file outside of the pipeline.

LEMMA SettledType ==
  ASSUME Inv, NEW tokens \in Texts, Quiet(tokens), NEW value, Settled(tokens, value),
         stage \in {"stat", "link"}
  PROVE  /\ out' \in Outs /\ result' \in Texts
         /\ \/ stage' = "idle"
            \/ stage' = "open" /\ result' = << >>
         /\ ~Has("continue") => Quiet(out.text) /\ (stage' = "open" => Quiet(out'.text))
                                 /\ (stage' = "idle" => Quiet(result'))
  <1>1. out \in Outs /\ result = << >> /\ result \in Texts
    BY DEF Inv, TypeOK, Outs
  <1>2. ~Has("continue") => Quiet(out.text)
    BY DEF Inv, Undescribed
  <1>3. PICK p \in Printed(out, tokens) :
          IF ~p.ok THEN Conclude(p.o, -1)
          ELSE IF value = 0 THEN stage' = "open" /\ out' = p.o /\ UNCHANGED result
          ELSE Conclude(p.o, 0)
    BY DEF Settled
  <1>4. p.o \in Outs /\ (Quiet(out.text) => Quiet(p.o.text))
    BY <1>1, Printing, QuietPrinting
  <1>5. CASE Conclude(p.o, -1) \/ Conclude(p.o, 0)
    <2>1. /\ stage' = "idle" /\ out' \in Outs /\ result' \in Texts
          /\ Found(result') \subseteq Found(p.o.text)
      BY <1>4, <1>5, Concluding
    <2> QED
      BY <1>2, <1>4, <2>1 DEF Quiet
  <1>6. CASE stage' = "open" /\ out' = p.o /\ UNCHANGED result
    BY <1>1, <1>2, <1>4, <1>6
  <1> QED
    BY <1>3, <1>5, <1>6

LEMMA TokenTypes ==
  /\ Bits \in Texts /\ Quiet(Bits)
  /\ TypeTokens \in Texts /\ Quiet(TypeTokens)
  /\ BrokenTokens \in Texts /\ Quiet(BrokenTokens)
  /\ Bits \o TypeTokens \in Texts /\ Quiet(Bits \o TypeTokens)
  /\ \A token \in {"cannot", "unreadable"} : <<token>> \in Texts /\ Quiet(<<token>>)
  <1>1. /\ {"bits", "type", "cannot", "unreadable"} \subseteq Tokens
        /\ {"bits", "type", "cannot", "unreadable"} \cap Descriptions = {}
    BY DEF Tokens, Descriptions, Detectors, Builtin
  <1>2. \A token \in {"bits", "type", "cannot", "unreadable"} :
          <<token>> \in Texts /\ Quiet(<<token>>)
    <2> SUFFICES ASSUME NEW token \in {"bits", "type", "cannot", "unreadable"}
                 PROVE  <<token>> \in Texts /\ Quiet(<<token>>)
      OBVIOUS
    <2>1. token \in Tokens /\ token \notin Descriptions
      BY <1>1
    <2> QED
      BY <2>1, Single DEF Quiet
  <1>3. << >> \in Texts /\ Quiet(<< >>)
    BY Nothing DEF Quiet
  <1>4. Bits \in Texts /\ Quiet(Bits) /\ BrokenTokens \in Texts /\ Quiet(BrokenTokens)
    BY <1>2, <1>3 DEF Bits, BrokenTokens
  <1>5. <<"type">> \o Encoding \in Texts /\ Quiet(<<"type">> \o Encoding)
    BY <1>2, EncodingType, Concatenation DEF Quiet
  <1>6. TypeTokens \in Texts /\ Quiet(TypeTokens)
    BY <1>2, <1>3, <1>5, EncodingType DEF TypeTokens
  <1>7. Bits \o TypeTokens \in Texts /\ Quiet(Bits \o TypeTokens)
    BY <1>4, <1>6, Concatenation DEF Quiet
  <1> QED
    BY <1>2, <1>4, <1>6, <1>7

LEMMA SettledStep ==
  ASSUME Inv, stage \in {"stat", "link"}, NEW tokens \in Texts, Quiet(tokens),
         NEW value, Settled(tokens, value), UNCHANGED <<flags, input, m, rv, lapse>>
  PROVE  Inv'
  <1>1. /\ out' \in Outs /\ result' \in Texts
        /\ \/ stage' = "idle"
           \/ stage' = "open" /\ result' = << >>
        /\ ~Has("continue") => Quiet(out.text) /\ (stage' = "open" => Quiet(out'.text))
                                /\ (stage' = "idle" => Quiet(result'))
    BY SettledType
  <1> QED
    BY <1>1, Reduction, QuietDescribes DEF Inv, TypeOK, Stages, Values

LEMMA FailStep ==
  ASSUME Inv, stage # "idle", stage \notin {"done", "simple"}, NEW o \in Outs, NEW value, Conclude(o, value),
         Quiet(out.text) => Quiet(o.text), UNCHANGED <<flags, m, rv, lapse>>, input' \in Inputs
  PROVE  Inv'
  <1>1. /\ stage' = "idle" /\ out' \in Outs /\ result' \in Texts
        /\ Found(result') \subseteq Found(o.text)
    BY Concluding
  <1>2. ~Has("continue") => Quiet(result')
    BY <1>1 DEF Inv, Undescribed, Quiet
  <1> QED
    BY <1>1, <1>2, Reduction, QuietDescribes DEF Inv, TypeOK, Stages, Values

LEMMA ErrorStep ==
  ASSUME Inv, stage # "idle", stage \notin {"done", "simple"}, Conclude(Errored(out), -1),
         UNCHANGED <<flags, m, rv, lapse>>, input' \in Inputs
  PROVE  Inv'
  <1>1. out \in Outs
    BY DEF Inv, TypeOK, Outs
  <1> QED
    BY <1>1, Failing, QuietFailing, FailStep

LEMMA StatStep ==
  ASSUME Inv, Stat
  PROVE  Inv'
  <1>1. stage = "stat" /\ UNCHANGED <<flags, input, m, rv, lapse>> /\ input' \in Inputs
    BY DEF Stat, Inv, TypeOK
  <1>2. \/ Conclude(Errored(out), -1)
        \/ \E value : Settled(<<"cannot">>, value)
        \/ stage' = "link" /\ UNCHANGED <<out, result>>
        \/ \E value : Settled(Bits, value)
        \/ \E value : Settled(Bits \o TypeTokens, value)
    BY DEF Stat
  <1>3. CASE Conclude(Errored(out), -1)
    BY <1>1, <1>3, ErrorStep
  <1>4. CASE \E value : Settled(<<"cannot">>, value)
    BY <1>1, <1>4, SettledStep, TokenTypes
  <1>5. CASE stage' = "link" /\ UNCHANGED <<out, result>>
    BY <1>1, <1>5, Reduction DEF Inv, TypeOK, Undescribed, Stages, Values, Outs
  <1>6. CASE \E value : Settled(Bits, value)
    BY <1>1, <1>6, SettledStep, TokenTypes
  <1>7. CASE \E value : Settled(Bits \o TypeTokens, value)
    BY <1>1, <1>7, SettledStep, TokenTypes
  <1> QED
    BY <1>2, <1>3, <1>4, <1>5, <1>6, <1>7

LEMMA ReadLinkStep ==
  ASSUME Inv, ReadLink
  PROVE  Inv'
  <1>1. stage = "link" /\ UNCHANGED <<flags, input, m, rv, lapse>> /\ input' \in Inputs
    BY DEF ReadLink, Inv, TypeOK
  <1>2. \/ Conclude(Errored(out), -1)
        \/ \E value : Settled(BrokenTokens, value)
        \/ \E value : Settled(TypeTokens, value)
    BY DEF ReadLink
  <1>3. CASE Conclude(Errored(out), -1)
    BY <1>1, <1>3, ErrorStep
  <1>4. CASE \E value : Settled(BrokenTokens, value)
    BY <1>1, <1>4, SettledStep, TokenTypes
  <1>5. CASE \E value : Settled(TypeTokens, value)
    BY <1>1, <1>5, SettledStep, TokenTypes
  <1> QED
    BY <1>2, <1>3, <1>4, <1>5

\* A file that cannot be read or a pipe without content: the call ends with a
\* complaint, or with what fsmagic said.
LEMMA ComplainStep ==
  ASSUME Inv, stage # "idle", stage \notin {"done", "simple"}, NEW tokens \in {<< >>, <<"unreadable">>},
         NEW p \in Printed(out, tokens), NEW value, Conclude(p.o, value),
         UNCHANGED <<flags, m, rv, lapse>>, input' \in Inputs
  PROVE  Inv'
  <1>1. out \in Outs
    BY DEF Inv, TypeOK, Outs
  <1>2. tokens \in Texts /\ Quiet(tokens)
    BY TokenTypes, Nothing DEF Quiet
  <1>3. p.o \in Outs /\ (Quiet(out.text) => Quiet(p.o.text))
    BY <1>1, <1>2, Printing, QuietPrinting
  <1> QED
    BY <1>3, FailStep

LEMMA RestatStep ==
  ASSUME Inv, Restat
  PROVE  Inv'
  <1>1. stage = "restat" /\ UNCHANGED <<flags, m, rv, lapse>> /\ input' \in Inputs
    BY DEF Restat, Inv, TypeOK
  <1>2. \E tokens \in {<< >>, <<"unreadable">>} : \E p \in Printed(out, tokens), value \in {0, -1} :
          Conclude(p.o, value)
    BY DEF Restat
  <1> QED
    BY <1>1, <1>2, ComplainStep

LEMMA ReadStep ==
  ASSUME Inv, Read
  PROVE  Inv'
  <1>1. stage = "read" /\ UNCHANGED <<flags, m, rv, lapse>> /\ input \in Inputs /\ result = << >>
        /\ out \in Outs
    BY DEF Read, Inv, TypeOK, Outs
  <1>2. \/ /\ \E sizes \in SUBSET {"empty", "byte", "many"} : Examine(sizes, out)
           /\ UNCHANGED result
        \/ Conclude(Errored(out), -1) /\ UNCHANGED input
        \/ /\ \E p \in Printed(out, <<"unreadable">>), value \in {0, -1} : Conclude(p.o, value)
           /\ UNCHANGED input
    BY DEF Read
  <1>3. CASE /\ \E sizes \in SUBSET {"empty", "byte", "many"} : Examine(sizes, out)
             /\ UNCHANGED result
    <2>1. /\ input' \in Inputs /\ stage' \in {"tar", "simple"}
          /\ out' \in Outs /\ (Quiet(out.text) => Quiet(out'.text))
      BY <1>1, <1>3, ExamineType
    <2>2. ~Has("continue") => Quiet(out'.text)
      BY <1>1, <2>1 DEF Inv, Undescribed
    <2> QED
      BY <1>1, <1>3, <2>1, <2>2, Reduction, DetectorStages, Nothing DEF Inv, TypeOK, Values
  <1>4. CASE Conclude(Errored(out), -1) /\ UNCHANGED input
    BY <1>1, <1>4, ErrorStep
  <1>5. CASE /\ \E p \in Printed(out, <<"unreadable">>), value \in {0, -1} : Conclude(p.o, value)
             /\ UNCHANGED input
    BY <1>1, <1>5, ComplainStep
  <1> QED
    BY <1>2, <1>3, <1>4, <1>5

LEMMA FileStep ==
  ASSUME Inv, File
  PROVE  Inv'
  <1>1. /\ out' = Fresh /\ result' = << >> /\ stage' = "stat"
        /\ flags' = flags /\ m' = m /\ rv' = rv /\ lapse' = {}
        /\ input' = [size |-> "empty", looks_text |-> FALSE]
    BY DEF File, NewCall, Cleared
  <1>2. Fresh \in Outs /\ Quiet(Fresh.text)
    BY Nothing DEF Fresh, Outs, Quiet
  <1> QED
    BY <1>1, <1>2, Nothing, Reduction DEF Inv, TypeOK, Values, Stages, Inputs

LEMMA NoMemoryStep ==
  ASSUME Inv, NoMemory
  PROVE  Inv'
  <1>1. /\ stage = "stat" /\ stage' = "idle" /\ UNCHANGED <<flags, m, rv, out, result, lapse>>
        /\ input' = [size |-> "none", looks_text |-> FALSE]
    BY DEF NoMemory
  <1> QED
    BY <1>1, Reduction DEF Inv, TypeOK, Undescribed, Values, Stages, Inputs, Outs

LEMMA PipelineStutters ==
  ASSUME Inv, UNCHANGED pipeline
  PROVE  Inv'
  BY Reduction DEF Inv, TypeOK, Undescribed, Values, Outs, pipeline

LEMMA FileStepKeepsInv == Inv /\ [FileNext]_vars => Inv'
  <1> SUFFICES ASSUME Inv, [FileNext]_vars PROVE Inv'
    OBVIOUS
  <1>1. CASE File
    BY <1>1, FileStep
  <1>2. CASE NoMemory
    BY <1>2, NoMemoryStep
  <1>3. CASE Change
    BY <1>3, PipelineStutters DEF Change
  <1>4. CASE Stat
    BY <1>4, StatStep
  <1>5. CASE ReadLink
    BY <1>5, ReadLinkStep
  <1>6. CASE Open
    <2>1. /\ stage = "open" /\ stage' \in {"read", "restat"}
          /\ UNCHANGED <<flags, input, m, rv, out, result, lapse>>
      BY <1>6 DEF Open
    <2> QED
      BY <2>1, Reduction DEF Inv, TypeOK, Undescribed, Values, Stages, Outs
  <1>7. CASE Restat
    BY <1>7, RestatStep
  <1>8. CASE Read
    BY <1>8, ReadStep
  <1>9. CASE Buffer
    BY <1>9, BufferStep
  <1>10. CASE \E d \in Detectors : Skip(d) \/ Try(d)
    BY <1>10, SkipStep, TryStep
  <1>11. CASE Default
    BY <1>11, DefaultStep
  <1>12. CASE Finish
    BY <1>12, FinishStep
  <1>13. CASE UNCHANGED vars
    BY <1>13, PipelineStutters DEF vars, pipeline
  <1> QED
    BY <1>1, <1>2, <1>3, <1>4, <1>5, <1>6, <1>7, <1>8, <1>9, <1>10, <1>11, <1>12, <1>13
    DEF FileNext, Next, Proceed

THEOREM Invariant == FileSpec => []Inv
  <1>1. FileInit => Inv
    <2> SUFFICES ASSUME FileInit PROVE Inv
      OBVIOUS
    <2>1. Fresh \in Outs
      BY Nothing DEF Fresh, Outs
    <2>2. Described(<< >>)
      BY Nothing, QuietDescribes DEF Quiet
    <2> QED
      BY <2>1, <2>2, Nothing
      DEF FileInit, Init, Inv, TypeOK, Undescribed, Outs, Stages, Inputs
  <1> QED
    BY <1>1, FileStepKeepsInv, PTL DEF FileSpec

\* The state of a call is well typed whatever the flags are, however often the file
\* is replaced and whatever the detectors answer.
THEOREM TypeCorrect == FileSpec => []TypeOK
  BY Invariant, PTL DEF Inv

\* Without MAGIC_CONTINUE the answer of magic_file or magic_buffer is the
\* description of one detector, or what the rules for text and file_ascmagic say.
THEOREM OneAnswer == FileSpec => []OneDescription
  <1>1. Inv => OneDescription
    BY DEF Inv, Undescribed, OneDescription, Botched, Loose
  <1> QED
    BY <1>1, Invariant, PTL

-----------------------------------------------------------------------------
(* What an answer says, token by token. *)

\* The words of the checks of the file system and of a file that cannot be read.
Words == {"type", "cannot", "unreadable"}
Encodings == {"charset", "encoding"}

\* Two tokens that may not follow each other, and a text without such a pair, when the
\* rules lapsed like this; and a text that a description may follow.
Clash(x, y, l) == \/ l = {} /\ x = "sep" /\ y = "sep"
                  \/ ~Loose(l) /\ x \in Descriptions /\ y \in Descriptions
Proper(text, l) == /\ l = {} /\ text # << >> => text[1] # "sep"
                   /\ \A i \in 1..(Len(text) - 1) : ~Clash(text[i], text[i + 1], l)
Closed(text, l) == text # << >> /\ ~Loose(l) => text[Len(text)] \notin Descriptions

Early == {"stat", "link", "open", "restat", "read"}

\* What the checks of the file system have said of a file of this kind that was
\* replaced n times.
Accounted(text, at, n, kind) ==
  \/ Found(text) \cap Words = {}
  \/ /\ Found(text) \cap Words = {"cannot"}
     /\ n = 0 => at \in {"open", "restat"} /\ kind \in {"absent", "broken"}

\* What may be in the buffer of a call that goes on.
Allowed(text, at, n, kind, l) ==
  /\ at \in Early => Quiet(text) /\ "sep" \notin Found(text)
  /\ OneKind => Found(text) \cap Encodings = {}
  /\ ~EncodingOnly => Proper(text, l) /\ (at # "done" => Closed(text, l))
  /\ OneKind => Accounted(text, at, n, kind)

\* What may be answered.
OneOf(text, n) ==
  \A A, B \in Accounts : A # B /\ (n = 0 \/ {"cannot"} \notin {A, B}) =>
    Found(text) \cap A = {} \/ Found(text) \cap B = {}
Complete(text) ==
  /\ text[Len(text)] = "encoding" /\ text[Len(text) - 1] = "charset"
  /\ \A i \in 1..(Len(text) - 2) : text[i] \notin Encodings
Ended(text, n, l) ==
  /\ ~EncodingOnly /\ text # << >> =>
       Proper(text, l) /\ (l = {} => text[Len(text)] # "sep")
  /\ OneKind /\ Has("mime_type") /\ Has("mime_encoding") /\ ~Quiet(text) => Complete(text)
  /\ OneKind => OneOf(text, n)

AnswerInv ==
  /\ changes \in Nat
  /\ stage # "idle" /\ ~out.had => Allowed(out.text, stage, changes, disk.kind, lapse)
  /\ stage \in {"stat", "link"} => out = Fresh
  /\ stage = "link" /\ changes = 0 => disk.kind \in {"link", "broken"}
  /\ Ended(result, changes, lapse)

LEMMA NoDescription ==
  {"sep", "joint", "charset", "encoding", "error", "bits", "type", "cannot", "unreadable"}
     \cap Descriptions = {}
  BY DEF Descriptions, Detectors, Builtin

\* Texts.

LEMMA Elements ==
  ASSUME NEW s \in Texts
  PROVE  /\ Len(s) \in Nat /\ DOMAIN s = 1..Len(s) /\ Found(s) \subseteq Tokens
         /\ \A i \in 1..Len(s) : s[i] \in Found(s)
         /\ s # << >> => Len(s) >= 1
  <1>1. Len(s) \in Nat /\ DOMAIN s = 1..Len(s) /\ \A i \in 1..Len(s) : s[i] \in Tokens
    BY DEF Texts
  <1>2. s # << >> => Len(s) >= 1
    BY <1>1 DEF Texts
  <1> QED
    BY <1>1, <1>2 DEF Found

LEMMA EmptyProper ==
  ASSUME NEW l
  PROVE  Proper(<< >>, l) /\ Closed(<< >>, l)
  <1>1. \A i \in 1..(Len(<< >>) - 1) : FALSE
    OBVIOUS
  <1> QED
    BY <1>1 DEF Proper, Closed

LEMMA QuietProper ==
  ASSUME NEW l, NEW s \in Texts, Quiet(s), "sep" \notin Found(s)
  PROVE  Proper(s, l) /\ Closed(s, l) /\ (s # << >> => s[Len(s)] # "sep")
  <1>1. \A i \in 1..Len(s) : s[i] # "sep" /\ s[i] \notin Descriptions
    BY Elements DEF Quiet
  <1>2. Len(s) \in Nat /\ (s # << >> => Len(s) \in 1..Len(s) /\ 1 \in 1..Len(s))
    BY Elements
  <1>3. \A i \in 1..(Len(s) - 1) : i \in 1..Len(s)
    BY <1>2
  <1> QED
    BY <1>1, <1>2, <1>3 DEF Proper, Closed, Clash

LEMMA AppendProper ==
  ASSUME NEW l, NEW s \in Texts, NEW token \in Tokens, Proper(s, l),
         l = {} /\ s = << >> => token # "sep",
         s # << >> => ~Clash(s[Len(s)], token, l)
  PROVE  /\ Append(s, token) \in Texts /\ Proper(Append(s, token), l)
         /\ Append(s, token) # << >>
         /\ Append(s, token)[Len(Append(s, token))] = token
  <1> DEFINE n == Len(s)
             t == Append(s, token)
  <1>1. /\ n \in Nat /\ t \in Texts /\ Len(t) = n + 1 /\ t[n + 1] = token /\ t # << >>
        /\ \A i \in 1..n : t[i] = s[i]
        /\ s # << >> => n >= 1
    BY Elements DEF Texts
  <1> HIDE DEF t
  <1>2. l = {} => t[1] # "sep"
    <2>1. CASE s = << >>
      BY <1>1, <2>1
    <2>2. CASE s # << >>
      BY <1>1, <2>2 DEF Proper
    <2> QED
      BY <2>1, <2>2
  <1>3. ASSUME NEW i \in 1..(Len(t) - 1) PROVE ~Clash(t[i], t[i + 1], l)
    <2>1. i \in 1..n /\ t[i] = s[i]
      BY <1>1
    <2>2. CASE i = n
      <3>1. s # << >>
        BY <1>1, <2>1
      <3> QED
        BY <1>1, <2>1, <2>2, <3>1
    <2>3. CASE i # n
      <3>1. i \in 1..(n - 1) /\ i + 1 \in 1..n
        BY <1>1, <2>1, <2>3
      <3> QED
        BY <1>1, <2>1, <3>1 DEF Proper
    <2> QED
      BY <2>2, <2>3
  <1>4. t \in Texts /\ Proper(t, l) /\ t # << >> /\ t[Len(t)] = token
    BY <1>1, <1>2, <1>3 DEF Proper
  <1> QED
    BY <1>4 DEF t

LEMMA TrimProper ==
  ASSUME NEW l, NEW s \in Texts, Proper(s, l)
  PROVE  /\ Trim(s) \in Texts /\ Proper(Trim(s), l) /\ Found(Trim(s)) \subseteq Found(s)
         /\ l = {} /\ Trim(s) # << >> => Trim(s)[Len(Trim(s))] # "sep"
  <1> DEFINE n == Len(s)
  <1>1. n \in Nat /\ (s # << >> => n >= 1)
    BY Elements
  <1>2. CASE n > 1 /\ s[n] = "sep"
    <2> DEFINE t == SubSeq(s, 1, n - 1)
    <2>1. \A i \in 1..n : s[i] \in Tokens
      BY DEF Texts
    <2>2. /\ t \in Texts /\ Len(t) = n - 1 /\ \A i \in 1..(n - 1) : t[i] = s[i]
      <3>1. n - 1 \in Nat /\ 1 \in Nat /\ n - 1 >= 1
        BY <1>1, <1>2
      <3>2. \A i \in 1..(n - 1) : s[i] \in Tokens
        BY <1>1, <2>1
      <3> DEFINE k == n - 1
      <3>3. k \in Nat /\ k >= 1
        BY <3>1
      <3> HIDE DEF k
      <3>4. \A i \in 1..k : s[i] \in Tokens
        BY <3>2 DEF k
      <3>5. /\ SubSeq(s, 1, k) \in Seq(Tokens)
            /\ Len(SubSeq(s, 1, k)) = IF 1 <= k THEN k - 1 + 1 ELSE 0
            /\ \A i \in 1..(k - 1 + 1) : SubSeq(s, 1, k)[i] = s[1 + i - 1]
        BY <3>3, <3>4, SubSeqProperties
      <3>6. Len(SubSeq(s, 1, k)) = k /\ \A i \in 1..k : SubSeq(s, 1, k)[i] = s[i]
        BY <3>3, <3>5
      <3> QED
        BY <3>5, <3>6 DEF k, Texts
    <2>3. Trim(s) = t
      BY <1>2 DEF Trim
    <2> HIDE DEF t
    <2>4. (l = {} => s[1] # "sep") /\ ~Clash(s[n - 1], s[n], l)
      <3>1. s # << >> /\ n - 1 \in 1..(n - 1) /\ (n - 1) + 1 = n
        BY <1>1, <1>2
      <3> QED
        BY <3>1 DEF Proper
    <2>5. l = {} => t[1] # "sep" /\ t[n - 1] # "sep"
      BY <1>1, <1>2, <2>2, <2>4 DEF Clash
    <2>6. ASSUME NEW i \in 1..(Len(t) - 1) PROVE ~Clash(t[i], t[i + 1], l)
      <3>1. i \in 1..(n - 1) /\ i + 1 \in 1..(n - 1)
        BY <1>1, <2>2
      <3> QED
        BY <2>2, <3>1 DEF Proper
    <2> QED
      BY <2>2, <2>3, <2>5, <2>6, Trimming DEF Proper
  <1>3. CASE ~(n > 1 /\ s[n] = "sep")
    <2>1. Trim(s) = s
      BY <1>3 DEF Trim
    <2>2. l = {} /\ s # << >> => s[n] # "sep"
      <3>1. CASE s[n] = "sep"
        <4>1. ~(n > 1)
          BY <1>3, <3>1
        <4>2. ASSUME s # << >> PROVE n = 1
          <5>1. n \in Nat /\ n >= 1
            BY <1>1, <4>2
          <5> HIDE DEF n
          <5> QED
            BY <4>1, <5>1
        <4> QED
          BY <4>2 DEF Proper
      <3> QED
        BY <3>1
    <2> QED
      BY <2>1, <2>2
  <1> QED
    BY <1>2, <1>3

\* What is proper stays so when the rules lapse.
LEMMA Looser ==
  ASSUME NEW s, NEW l, NEW k \in SUBSET l
  PROVE  (Proper(s, k) => Proper(s, l)) /\ (Closed(s, k) => Closed(s, l))
  BY DEF Proper, Closed, Clash, Loose

LEMMA AppendLoose ==
  ASSUME NEW l, l # {}, NEW s \in Texts, NEW token \in Tokens \ Descriptions, Proper(s, l)
  PROVE  /\ Append(s, token) \in Texts /\ Proper(Append(s, token), l)
         /\ Closed(Append(s, token), l) /\ Append(s, token) # << >>
  <1>1. s # << >> => ~Clash(s[Len(s)], token, l)
    BY DEF Clash
  <1> QED
    BY <1>1, AppendProper DEF Closed


\* The output buffer.

LEMMA PrintedSays ==
  ASSUME NEW o \in Outs, NEW tokens \in Texts, NEW p \in Printed(o, tokens), ~p.o.had
  PROVE  ~o.had /\ p.ok /\ p.o.text = o.text \o tokens
  <1>1. ~o.had
    BY DEF Printed
  <1>2. \/ p = [o |-> [o EXCEPT !.text = @ \o tokens], ok |-> TRUE]
        \/ p = [o |-> Spoilt, ok |-> FALSE]
    BY <1>1 DEF Printed
  <1>3. p # [o |-> Spoilt, ok |-> FALSE]
    BY DEF Spoilt
  <1> QED
    BY <1>1, <1>2, <1>3 DEF Outs

LEMMA PrintedToken ==
  ASSUME NEW o \in Outs, NEW token \in Tokens, NEW p \in Printed(o, <<token>>), ~p.o.had
  PROVE  ~o.had /\ p.ok /\ p.o.text = Append(o.text, token)
  <1>1. <<token>> \in Texts /\ o.text \in Seq(Tokens)
    BY Single DEF Outs, Texts
  <1>2. ~o.had /\ p.ok /\ p.o.text = o.text \o <<token>>
    BY <1>1, PrintedSays
  <1> QED
    BY <1>1, <1>2

LEMMA ErroredHad ==
  ASSUME NEW o \in Outs
  PROVE  Errored(o).had
  BY DEF Errored, Outs

LEMMA ConcludeSays ==
  ASSUME NEW o \in Outs, NEW value, Conclude(o, value)
  PROVE  result' = << >> \/ (~o.had /\ result' = o.text)
  BY DEF Conclude, Got

\* The detectors.

LEMMA DescribesSays ==
  ASSUME NEW o \in Outs, NEW d \in Tokens, NEW a \in Describes(o, d), ~a.o.had
  PROVE  ~o.had /\ a.m = 1 /\ a.o.text = Append(o.text, d)
  <1>1. PICK p \in Printed(o, <<d>>) : a = Answer(IF p.ok THEN 1 ELSE -1, p.o)
    BY DEF Describes
  <1>2. a.m = (IF p.ok THEN 1 ELSE -1) /\ a.o = p.o
    BY <1>1 DEF Answer, Lapsed
  <1> QED
    BY <1>2, PrintedToken

LEMMA BuiltinSays ==
  ASSUME NEW d \in Builtin, NEW o \in Outs, NEW a \in BuiltinAnswers(d, o), ~a.o.had
  PROVE  /\ ~o.had
         /\ \/ a.o.text = o.text /\ (a.m = 0 \/ EncodingOnly)
            \/ a.m # 0 /\ a.o.text = Append(o.text, d)
  <1>1. d \in Tokens
    BY DEF Tokens, Detectors
  <1>2. CASE a = Answer(0, o)
    BY <1>2 DEF Answer, Lapsed
  <1>3. CASE EncodingOnly /\ a = Answer(1, o)
    BY <1>3 DEF Answer, Lapsed
  <1>4. CASE a \in Describes(o, d)
    BY <1>1, <1>4, DescribesSays
  <1>5. CASE \E p \in Printed(o, <<d>>) : a = Answer(1, p.o)
    <2>1. PICK p \in Printed(o, <<d>>) : a = Answer(1, p.o)
      BY <1>5
    <2>2. a.m = 1 /\ a.o = p.o
      BY <2>1 DEF Answer, Lapsed
    <2> QED
      BY <1>1, <2>2, PrintedToken
  <1> QED
    BY <1>2, <1>3, <1>4, <1>5 DEF BuiltinAnswers

\* What the rules may add to a text.
RulesSaid(s, u, l) ==
  u = s \/ u = Append(s, "soft") \/ (l # {} /\ \E text \in RaggedTexts : u = s \o text)

LEMMA SoftSays ==
  ASSUME NEW o \in Outs, NEW a \in SoftAnswers(o), ~a.o.had
  PROVE  /\ ~o.had /\ RulesSaid(o.text, a.o.text, a.lapse)
         /\ a.m = 0 => a.o.text = o.text
         /\ a.m = -1 => "mute" \in a.lapse
         /\ a.m # 0 => a.o.text = Append(o.text, "soft") \/ a.lapse # {}
  <1>1. CASE a.m = 0 /\ a.o \in {o, Errored(o)} /\ a.lapse = {}
    BY <1>1, ErroredHad DEF RulesSaid
  <1>2. ASSUME NEW text \in SoftTexts, NEW p \in Printed(o, text), a.m \in {-1, 1},
               \/ a.o = Errored(p.o) /\ a.lapse = {}
               \/ a.o = p.o /\ a.lapse = SoftLapses(a.m, text)
        PROVE  /\ ~o.had /\ RulesSaid(o.text, a.o.text, a.lapse)
               /\ a.m = -1 => "mute" \in a.lapse
               /\ a.o.text = Append(o.text, "soft") \/ a.lapse # {}
    <2>1. text \in Texts /\ o.text \in Seq(Tokens) /\ "soft" \in Tokens
      BY SoftText DEF Outs, Texts, Tokens, Detectors
    <2>2. a.o = p.o /\ a.lapse = SoftLapses(a.m, text)
      BY <1>2, <2>1, Printing, ErroredHad
    <2>3. ~o.had /\ a.o.text = o.text \o text
      BY <2>1, <2>2, PrintedSays
    <2>4. a.m = -1 => "mute" \in a.lapse
      BY <2>2, SoftLapsed
    <2>5. CASE text = << >>
      <3>1. o.text \o << >> = o.text
        BY <2>1
      <3>2. "mute" \in a.lapse
        BY <2>2, <2>5, SoftLapsed
      <3> QED
        BY <2>3, <2>5, <3>1, <3>2 DEF RulesSaid
    <2>6. CASE text = <<"soft">>
      <3>1. o.text \o <<"soft">> = Append(o.text, "soft")
        BY <2>1
      <3> QED
        BY <2>3, <2>4, <2>6, <3>1 DEF RulesSaid
    <2>7. CASE text \in RaggedTexts
      <3>1. "ragged" \in a.lapse
        BY <2>2, <2>7, SoftLapsed
      <3> QED
        BY <2>3, <2>4, <2>7, <3>1 DEF RulesSaid
    <2> QED
      BY <2>5, <2>6, <2>7, SoftText
  <1> QED
    BY <1>1, <1>2, SoftCases

LEMMA TextRulesSay ==
  ASSUME NEW o \in Outs, NEW r \in TextRules(o), ~r.o.had
  PROVE  /\ ~o.had /\ r.o \in Outs /\ RulesSaid(o.text, r.o.text, r.lapse)
         /\ ~r.matched => r.o.text = o.text
         /\ r.matched => r.o.text = Append(o.text, "soft") \/ r.lapse # {}
         /\ r.rv = -1 => r.o.text = o.text \/ "mute" \in r.lapse
  <1>1. r.o \in Outs
    BY TextRulesType
  <1>2. CASE r.rv = -1 /\ r.matched = FALSE /\ r.lapse = {} /\ r.o \in {o, Errored(o)}
    BY <1>1, <1>2, ErroredHad DEF RulesSaid
  <1>3. CASE \E a \in SoftAnswers(o) :
               /\ r.rv = (IF a.m = 0 THEN -1 ELSE a.m) /\ (r.matched <=> a.m # 0)
               /\ r.o = a.o /\ r.lapse = a.lapse
    <2>1. PICK a \in SoftAnswers(o) :
               /\ r.rv = (IF a.m = 0 THEN -1 ELSE a.m) /\ (r.matched <=> a.m # 0)
               /\ r.o = a.o /\ r.lapse = a.lapse
      BY <1>3
    <2>2. /\ ~o.had /\ RulesSaid(o.text, a.o.text, a.lapse)
          /\ a.m = 0 => a.o.text = o.text
          /\ a.m = -1 => "mute" \in a.lapse
          /\ a.m # 0 => a.o.text = Append(o.text, "soft") \/ a.lapse # {}
      BY <2>1, SoftSays
    <2> QED
      BY <1>1, <2>1, <2>2
  <1> QED
    BY <1>2, <1>3, TextRulesCases

\* Two tokens behind a text.
LEMMA AppendMore ==
  ASSUME NEW s \in Texts, NEW x \in Tokens, NEW y \in Tokens
  PROVE  /\ Append(s, x) \in Texts /\ Append(s, x) # << >> /\ s \o <<x>> = Append(s, x)
         /\ s \o (<<x>> \o <<y>>) = Append(Append(s, x), y)
  <1>1. /\ Append(s, x) \in Texts /\ Len(Append(s, x)) = Len(s) + 1 /\ Len(s) \in Nat
        /\ s \o <<x>> = Append(s, x)
    BY DEF Texts
  <1>2. Append(s, x) # << >>
    BY <1>1
  <1>3. \A z \in Tokens : <<z>> \in Seq(Tokens)
    BY Single DEF Texts
  <1>4. \A t \in Seq(Tokens), z \in Tokens : t \o <<z>> = Append(t, z) /\ t \o <<z>> \in Seq(Tokens)
    OBVIOUS
  <1> DEFINE a == <<x>>
             b == <<y>>
  <1>5. a \in Seq(Tokens) /\ b \in Seq(Tokens) /\ s \in Seq(Tokens)
    BY <1>3 DEF Texts
  <1> HIDE DEF a, b
  <1>7. s \o (a \o b) = (s \o a) \o b
    BY <1>5
  <1>8. (s \o a) \o b = Append(Append(s, x), y)
    BY <1>4, <1>5 DEF a, b
  <1> QED
    BY <1>1, <1>2, <1>7, <1>8 DEF a, b

\* What file_ascmagic says behind what the rules for text have added.
BehindSaid(s, u, t, l) ==
  \/ t = u
  \/ t = Append(u, "text") /\ (u = << >> \/ u = s)
  \/ t = Append(Append(u, "joint"), "text")
  \/ t = Append(Append(u, "sep"), "text") /\ (l # {} \/ u = Append(s, "soft"))
TextSaid(s, t, l) == \E u : RulesSaid(s, u, l) /\ BehindSaid(s, u, t, l)

LEMMA BehindSays ==
  ASSUME NEW s \in Texts, NEW r, r.o \in Outs, ~r.o.had, NEW p \in Printed(r.o, TextTokens(r)),
         ~p.o.had, r.matched => r.lapse # {} \/ r.o.text = Append(s, "soft"),
         ~r.matched => r.o.text = s
  PROVE  BehindSaid(s, r.o.text, p.o.text, r.lapse)
  <1> DEFINE t == r.o.text
  <1>1. {"soft", "text", "joint", "sep"} \subseteq Tokens
    BY DEF Tokens, Detectors
  <1>2. t \in Texts
    BY DEF Outs
  <1>3. p.o.text = t \o TextTokens(r)
    BY PrintedSays, TextTokensType
  <1> HIDE DEF t
  <1>4. /\ t \o <<"text">> = Append(t, "text")
        /\ t \o <<"joint", "text">> = Append(Append(t, "joint"), "text")
        /\ t \o <<"sep", "text">> = Append(Append(t, "sep"), "text")
    <2>1. /\ <<"joint", "text">> = <<"joint">> \o <<"text">>
          /\ <<"sep", "text">> = <<"sep">> \o <<"text">>
      OBVIOUS
    <2> QED
      BY <1>1, <1>2, <2>1, AppendMore
  <1>5. CASE t = << >>
    BY <1>3, <1>4, <1>5 DEF TextTokens, t, BehindSaid
  <1>6. CASE t # << >> /\ ~Mime
    BY <1>3, <1>4, <1>6 DEF TextTokens, t, BehindSaid
  <1>7. CASE t # << >> /\ Mime /\ r.matched
    BY <1>3, <1>4, <1>7 DEF TextTokens, t, BehindSaid
  <1>8. CASE t # << >> /\ Mime /\ ~r.matched
    BY <1>3, <1>4, <1>8 DEF TextTokens, t, BehindSaid
  <1> QED
    BY <1>5, <1>6, <1>7, <1>8

LEMMA TextSays ==
  ASSUME NEW o \in Outs, NEW a \in TextAnswers(o), ~a.o.had
  PROVE  /\ ~o.had /\ TextSaid(o.text, a.o.text, a.lapse)
         /\ a.m = 0 => a.o.text = o.text \/ Loose(a.lapse)
  <1>1. CASE a.m = 0 /\ a.o = o
    BY <1>1 DEF TextSaid, RulesSaid, BehindSaid
  <1>2. CASE a.o = Errored(o)
    BY <1>2, ErroredHad
  <1>3. CASE \E r \in TextRules(o) : a \in AfterTextRules(r)
    <2>1. PICK r \in TextRules(o) : a \in AfterTextRules(r)
      BY <1>3
    <2>2. r.o \in Outs /\ r.rv \in {-1, 1}
      BY TextRulesType
    <2>3. \/ /\ a.o = r.o /\ (a.lapse = r.lapse \/ a.lapse = r.lapse \cup {"mute"})
             /\ a.m = 0 => Has("silent") /\ r.rv = -1 /\ a.lapse = r.lapse
          \/ /\ a.lapse = r.lapse /\ a.m # 0
             /\ \E p \in Printed(r.o, TextTokens(r)) : a.o = p.o
      BY <2>1, <2>2, AfterCases
    <2>4. ~r.o.had
      <3>1. CASE \E p \in Printed(r.o, TextTokens(r)) : a.o = p.o
        BY <2>2, <3>1, TextTokensType, PrintedSays
      <3> QED
        BY <2>3, <3>1
    <2>5. /\ ~o.had /\ RulesSaid(o.text, r.o.text, r.lapse)
          /\ ~r.matched => r.o.text = o.text
          /\ r.matched => r.o.text = Append(o.text, "soft") \/ r.lapse # {}
          /\ r.rv = -1 => r.o.text = o.text \/ "mute" \in r.lapse
      BY <2>4, TextRulesSay
    <2>6. RulesSaid(o.text, r.o.text, a.lapse)
      <3>1. r.lapse # {} => a.lapse # {}
        BY <2>3
      <3> QED
        BY <2>5, <3>1 DEF RulesSaid
    <2>7. /\ BehindSaid(o.text, r.o.text, a.o.text, a.lapse)
          /\ a.m = 0 => a.o.text = o.text \/ Loose(a.lapse)
      <3>1. CASE a.o = r.o /\ (a.m = 0 => Has("silent") /\ r.rv = -1 /\ a.lapse = r.lapse)
        BY <2>5, <3>1 DEF BehindSaid, Loose
      <3>2. CASE /\ a.lapse = r.lapse /\ a.m # 0
                 /\ \E p \in Printed(r.o, TextTokens(r)) : a.o = p.o
        <4>1. PICK p \in Printed(r.o, TextTokens(r)) : a.o = p.o
          BY <3>2
        <4>2. /\ r.matched => r.lapse # {} \/ r.o.text = Append(o.text, "soft")
              /\ ~r.matched => r.o.text = o.text
          BY <2>5
        <4>3. o.text \in Texts
          BY DEF Outs
        <4>4. BehindSaid(o.text, r.o.text, p.o.text, r.lapse)
          BY <2>2, <2>4, <4>1, <4>2, <4>3, BehindSays
        <4> QED
          BY <3>2, <4>1, <4>4
      <3> QED
        BY <2>3, <3>1, <3>2
    <2> QED
      BY <2>5, <2>6, <2>7 DEF TextSaid
  <1> QED
    BY <1>1, <1>2, <1>3 DEF TextAnswers, Answer, Lapsed

\* What any detector may add to a text.
Said(d, value, s, t, l) ==
  \/ t = s /\ (value = 0 \/ EncodingOnly \/ d = "text" \/ l # {})
  \/ value # 0 /\ t = Append(s, d)  /\ d # "text"
  \/ value # 0 /\ d = "soft" /\ l # {} /\ \E text \in RaggedTexts : t = s \o text
  \/ (value # 0 \/ Loose(l)) /\ TextSaid(s, t, l) /\ d = "text"

LEMMA AnswersSay ==
  ASSUME NEW d \in Detectors, NEW o \in Outs, NEW a \in Answers(d, o), ~a.o.had
  PROVE  ~o.had /\ Said(d, a.m, o.text, a.o.text, a.lapse)
  <1>1. CASE d \in Builtin
    <2>1. a \in BuiltinAnswers(d, o) /\ d # "text"
      BY <1>1 DEF Answers, Builtin
    <2> QED
      BY <1>1, <2>1, BuiltinSays DEF Said
  <1>2. CASE d = "soft"
    <2>1. a \in SoftAnswers(o)
      BY <1>2 DEF Answers, Builtin
    <2>2. /\ ~o.had
          /\ \/ a.o.text = o.text /\ a.m = 0
             \/ a.o.text = Append(o.text, "soft") /\ a.m # 0
             \/ a.o.text = o.text /\ a.lapse # {}
             \/ /\ \E text \in RaggedTexts : a.o.text = o.text \o text
                /\ a.m # 0 /\ a.lapse # {}
      BY <2>1, SoftSays DEF RulesSaid
    <2> QED
      BY <1>2, <2>2, Zenon DEF Said
  <1>3. CASE d = "text"
    <2>1. a \in TextAnswers(o)
      BY <1>3 DEF Answers, Builtin
    <2> QED
      BY <1>3, <2>1, TextSays DEF Said
  <1> QED
    BY <1>1, <1>2, <1>3 DEF Detectors

\* A text with what a detector adds to it.

LEMMA RaggedProper ==
  ASSUME NEW s \in Texts, NEW text \in RaggedTexts, NEW l, l # {}
  PROVE  /\ s \o text \in Texts /\ Found(s \o text) \subseteq Found(s) \cup {"soft", "sep"}
         /\ Proper(s, l) /\ Closed(s, l) => Proper(s \o text, l)
  <1>1. {"soft", "sep"} \subseteq Tokens /\ "sep" \in Tokens \ Descriptions
    BY NoDescription DEF Tokens, Detectors
  <1>2. s \o text \in Texts /\ Found(s \o text) \subseteq Found(s) \cup {"soft", "sep"}
    BY RaggedType, Concatenation
  <1>3. ASSUME Proper(s, l), Closed(s, l) PROVE Proper(s \o text, l)
    <2> DEFINE sep(u) == Append(u, "sep")
               soft(u) == Append(u, "soft")
    <2>1. ASSUME NEW u \in Texts, Proper(u, l)
          PROVE  sep(u) \in Texts /\ Proper(sep(u), l) /\ Closed(sep(u), l)
      BY <1>1, <2>1, AppendLoose
    <2>2. ASSUME NEW u \in Texts, Proper(u, l), Closed(u, l)
          PROVE  soft(u) \in Texts /\ Proper(soft(u), l)
      <3>1. u # << >> => ~Clash(u[Len(u)], "soft", l)
        BY <2>2 DEF Clash, Closed
      <3> QED
        BY <1>1, <2>2, <3>1, AppendProper
    <2> HIDE DEF sep, soft
    <2>3. /\ Proper(sep(s), l) /\ Proper(soft(sep(s)), l)
          /\ Proper(sep(soft(s)), l) /\ Proper(sep(soft(sep(s))), l)
      BY <1>3, <2>1, <2>2
    <2>4. <<"sep", "soft">> = <<"sep">> \o <<"soft">> /\ <<"soft", "sep">> = <<"soft">> \o <<"sep">>
      OBVIOUS
    <2>5. /\ s \o <<"sep">> = sep(s) /\ s \o <<"sep", "soft">> = soft(sep(s))
          /\ s \o <<"soft", "sep">> = sep(soft(s))
          /\ s \o <<"sep", "soft", "sep">> = sep(soft(sep(s)))
      <3> DEFINE a == <<"sep", "soft">>
                 b == <<"sep">>
      <3>1. <<"sep", "soft", "sep">> = a \o b
        OBVIOUS
      <3>2. /\ s \o b = sep(s) /\ s \o a = soft(sep(s))
            /\ s \o <<"soft", "sep">> = sep(soft(s))
        BY <1>1, <2>4, AppendMore DEF sep, soft
      <3>3. a \in Texts /\ b \in Texts
        BY RaggedType DEF RaggedTexts
      <3>4. s \o a \in Texts
        BY <3>3, Concatenation
      <3>5. (s \o a) \o b = sep(s \o a)
        BY <1>1, <3>4, AppendMore DEF sep
      <3> HIDE DEF a, b
      <3>6. s \o (a \o b) = (s \o a) \o b
        BY <3>3 DEF Texts
      <3> QED
        BY <3>1, <3>2, <3>5, <3>6 DEF a, b
    <2> QED
      BY <2>3, <2>5 DEF RaggedTexts
  <1> QED
    BY <1>2, <1>3

LEMMA DetectorProper ==
  ASSUME NEW s \in Texts, NEW l, NEW d \in Detectors
  PROVE  /\ Append(s, d) \in Texts /\ Found(Append(s, d)) = Found(s) \cup {d}
         /\ Append(s, d) # << >> /\ Append(s, d)[Len(Append(s, d))] = d
         /\ Proper(s, l) /\ Closed(s, l) => Proper(Append(s, d), l)
  <1>1. d \in Tokens /\ d # "sep"
    BY DEF Tokens, Detectors, Builtin
  <1>2. Append(s, d) \in Texts /\ Found(Append(s, d)) = Found(s) \cup {d}
    BY <1>1, Appending
  <1>3. /\ Append(s, d) # << >> /\ Append(s, d)[Len(Append(s, d))] = d
    <2>1. /\ s \in Seq(Tokens) /\ Len(s) \in Nat /\ Len(Append(s, d)) = Len(s) + 1
          /\ Append(s, d)[Len(s) + 1] = d
      BY <1>1 DEF Texts
    <2> QED
      BY <1>1, <2>1, AppendMore
  <1>4. ASSUME Proper(s, l), Closed(s, l) PROVE Proper(Append(s, d), l)
    <2>1. s # << >> => ~Clash(s[Len(s)], d, l)
      BY <1>1, <1>4 DEF Clash, Closed
    <2> QED
      BY <1>1, <1>4, <2>1, AppendProper
  <1> QED
    BY <1>2, <1>3, <1>4

\* A separator or what joins two texts, and the text behind it.
LEMMA JoinedProper ==
  ASSUME NEW u \in Texts, NEW l, NEW token \in {"sep", "joint"},
         token = "sep" /\ l = {} => u # << >> /\ u[Len(u)] # "sep"
  PROVE  /\ Append(Append(u, token), "text") \in Texts
         /\ Found(Append(Append(u, token), "text")) = Found(u) \cup {token, "text"}
         /\ Proper(u, l) => Proper(Append(Append(u, token), "text"), l)
  <1>1. token \in Tokens /\ token \notin Descriptions /\ "text" \in Detectors
        /\ "sep" \notin Descriptions
    BY NoDescription DEF Tokens, Detectors
  <1> DEFINE v == Append(u, token)
  <1>2. v \in Texts /\ Found(v) = Found(u) \cup {token}
    BY <1>1, Appending
  <1>3. ASSUME Proper(u, l) PROVE Proper(v, l) /\ Closed(v, l)
    <2>1. u # << >> => ~Clash(u[Len(u)], token, l)
      BY <1>1 DEF Clash
    <2>2. Proper(v, l) /\ v[Len(v)] = token
      BY <1>1, <1>3, <2>1, AppendProper
    <2> QED
      BY <1>1, <2>2 DEF Closed
  <1> HIDE DEF v
  <1>4. /\ Append(v, "text") \in Texts /\ Found(Append(v, "text")) = Found(v) \cup {"text"}
        /\ Proper(v, l) /\ Closed(v, l) => Proper(Append(v, "text"), l)
    BY <1>1, <1>2, DetectorProper
  <1> QED
    BY <1>2, <1>3, <1>4 DEF v

LEMMA TextSaidProper ==
  ASSUME NEW s \in Texts, NEW t, NEW l, TextSaid(s, t, l)
  PROVE  /\ t \in Texts
         /\ Found(t) \subseteq Found(s) \cup {"soft", "text", "sep", "joint"}
         /\ Proper(s, l) /\ Closed(s, l) => Proper(t, l)
  <1>1. {"soft", "text"} \subseteq Detectors
    BY DEF Detectors
  <1>2. PICK u : RulesSaid(s, u, l) /\ BehindSaid(s, u, t, l)
    BY DEF TextSaid
  <1>3. /\ u \in Texts /\ Found(u) \subseteq Found(s) \cup {"soft", "sep"}
        /\ Proper(s, l) /\ Closed(s, l) => Proper(u, l)
        /\ u = Append(s, "soft") => u # << >> /\ u[Len(u)] = "soft"
    <2>1. CASE u = s
      <3>1. s # Append(s, "soft")
        BY <1>1 DEF Texts, Tokens
      <3> QED
        BY <2>1, <3>1
    <2>2. CASE u = Append(s, "soft")
      <3> DEFINE d == "soft"
                 v == Append(s, d)
      <3>1. d \in Detectors
        BY <1>1
      <3> HIDE DEF d
      <3>2. /\ v \in Texts /\ Found(v) = Found(s) \cup {d} /\ v # << >> /\ v[Len(v)] = d
            /\ Proper(s, l) /\ Closed(s, l) => Proper(v, l)
        BY <3>1, DetectorProper
      <3> HIDE DEF v
      <3>3. Found(v) \subseteq Found(s) \cup {"soft", "sep"}
        BY <3>2 DEF d
      <3>4. u = v
        BY <2>2 DEF v, d
      <3> QED
        BY <3>2, <3>3, <3>4 DEF d
    <2>3. CASE l # {} /\ \E text \in RaggedTexts : u = s \o text
      <3>1. u = Append(s, "soft") => u # << >> /\ u[Len(u)] = "soft"
        BY <1>1, DetectorProper
      <3> QED
        BY <2>3, <3>1, RaggedProper
    <2> QED
      BY <1>2, <2>1, <2>2, <2>3 DEF RulesSaid
  <1>4. CASE t = u
    BY <1>3, <1>4
  <1>5. CASE t = Append(u, "text") /\ (u = << >> \/ u = s)
    <2>1. Closed(s, l) => Closed(u, l)
      BY <1>5, EmptyProper
    <2>2. /\ Append(u, "text") \in Texts /\ Found(Append(u, "text")) = Found(u) \cup {"text"}
          /\ Proper(u, l) /\ Closed(u, l) => Proper(Append(u, "text"), l)
      BY <1>1, <1>3, DetectorProper
    <2> QED
      BY <1>3, <1>5, <2>1, <2>2
  <1>6. CASE t = Append(Append(u, "joint"), "text")
    <2>1. "joint" # "sep"
      OBVIOUS
    <2> QED
      BY <1>3, <1>6, <2>1, JoinedProper
  <1>7. CASE t = Append(Append(u, "sep"), "text") /\ (l # {} \/ u = Append(s, "soft"))
    <2>1. l = {} => u # << >> /\ u[Len(u)] # "sep"
      BY <1>3, <1>7
    <2> QED
      BY <1>3, <1>7, <2>1, JoinedProper
  <1> QED
    BY <1>2, <1>4, <1>5, <1>6, <1>7 DEF BehindSaid

LEMMA SaidProper ==
  ASSUME NEW d \in Detectors, NEW value, NEW s \in Texts, NEW t, NEW l, Said(d, value, s, t, l)
  PROVE  /\ t \in Texts
         /\ Found(t) \subseteq Found(s) \cup Detectors \cup {"sep", "joint"}
         /\ Proper(s, l) /\ Closed(s, l) => Proper(t, l)
         /\ value # 0 /\ ~EncodingOnly /\ d # "text" /\ l = {} =>
              t # << >> /\ t[Len(t)] = d
  <1>1. CASE t = s /\ (value = 0 \/ EncodingOnly \/ d = "text" \/ l # {})
    BY <1>1
  <1>2. CASE t = Append(s, d) /\ d # "text"
    BY <1>2, DetectorProper
  <1>3. CASE d = "soft" /\ l # {} /\ \E text \in RaggedTexts : t = s \o text
    BY <1>3, RaggedProper
  <1>4. CASE TextSaid(s, t, l) /\ d = "text"
    <2>1. {"soft", "text"} \subseteq Detectors
      BY DEF Detectors
    <2> QED
      BY <1>4, <2>1, TextSaidProper
  <1> QED
    BY <1>1, <1>2, <1>3, <1>4 DEF Said

-----------------------------------------------------------------------------
(* The steps of a call keep the answers in order. *)

\* What a step must establish.
LEMMA AnswerReduction ==
  ASSUME flags' = flags, changes' \in Nat,
         stage' # "idle" => result' = << >>,
         stage' # "idle" /\ ~out'.had => Allowed(out'.text, stage', changes', disk'.kind, lapse'),
         stage' \in {"stat", "link"} => out' = Fresh,
         stage' = "link" /\ changes' = 0 => disk'.kind \in {"link", "broken"},
         stage' = "idle" => Ended(result', changes', lapse')
  PROVE  AnswerInv'
  <1>1. Ended(<< >>, changes', lapse')
    <2>1. Found(<< >>) = {}
      BY Nothing
    <2> QED
      BY <2>1 DEF Ended, OneOf, Quiet
  <1>2. Ended(result', changes', lapse')
    BY <1>1
  <1>3. Ended(result', changes', lapse') <=> Ended(result, changes, lapse)'
    BY DEF Ended, OneOf, Complete, Proper, Clash, Loose, Quiet, Found, OneKind, EncodingOnly, Mime,
       Has, Accounts, Descriptions, Detectors, Builtin, Encodings
  <1>4. Allowed(out'.text, stage', changes', disk'.kind, lapse')
          <=> Allowed(out.text, stage, changes, disk.kind, lapse)'
    BY DEF Allowed, Accounted, Proper, Closed, Clash, Loose, Quiet, Found, OneKind, EncodingOnly,
       Mime, Has, Descriptions, Detectors, Builtin, Encodings, Early, Words
  <1>5. (out = Fresh)' <=> out' = Fresh
    BY DEF Fresh
  <1> QED
    BY <1>2, <1>3, <1>4, <1>5 DEF AnswerInv

LEMMA EndedEmpty ==
  ASSUME NEW n, NEW l
  PROVE  Ended(<< >>, n, l)
  BY Nothing DEF Ended, OneOf, Quiet

\* An answer without descriptions.
LEMMA EndedQuiet ==
  ASSUME NEW s \in Texts, Quiet(s), "sep" \notin Found(s), NEW n, NEW l, NEW w,
         OneKind => Found(s) \cap Words \subseteq {w} \cup (IF n = 0 THEN {} ELSE {"cannot"})
  PROVE  Ended(s, n, l)
  <1>1. Proper(s, l) /\ (s # << >> => s[Len(s)] # "sep")
    BY QuietProper
  <1>2. ASSUME OneKind PROVE OneOf(s, n)
    <2>1. ASSUME NEW A \in Accounts, NEW B \in Accounts, A # B, n = 0 \/ {"cannot"} \notin {A, B}
          PROVE  Found(s) \cap A = {} \/ Found(s) \cap B = {}
      <3>1. CASE A = Descriptions \/ B = Descriptions
        BY <3>1 DEF Quiet
      <3>2. CASE ~(A = Descriptions \/ B = Descriptions)
        <4>1. PICK x \in Words, y \in Words : A = {x} /\ B = {y} /\ x # y
          BY <2>1, <3>2 DEF Accounts, Words
        <4>2. n = 0 \/ (x # "cannot" /\ y # "cannot")
          BY <2>1, <4>1
        <4> QED
          BY <1>2, <4>1, <4>2
      <3> QED
        BY <3>1, <3>2
    <2> QED
      BY <2>1 DEF OneOf
  <1> QED
    BY <1>1, <1>2 DEF Ended

\* An answer with descriptions, from a file that was looked at.
LEMMA OneOfContents ==
  ASSUME NEW s, NEW n, Found(s) \cap Words \subseteq (IF n = 0 THEN {} ELSE {"cannot"})
  PROVE  OneOf(s, n)
  <1>1. ASSUME NEW A \in Accounts, NEW B \in Accounts, A # B, n = 0 \/ {"cannot"} \notin {A, B}
        PROVE  Found(s) \cap A = {} \/ Found(s) \cap B = {}
    BY <1>1 DEF Accounts, Words
  <1> QED
    BY <1>1 DEF OneOf

\* A call that ends with what is in the buffer, without a description.
LEMMA ConcludesQuiet ==
  ASSUME Inv, AnswerInv, UNCHANGED <<flags, changes, lapse>>, NEW o \in Outs, NEW value,
         Conclude(o, value), NEW w,
         ~o.had => /\ Quiet(o.text) /\ "sep" \notin Found(o.text)
                   /\ OneKind => Found(o.text) \cap Words
                                   \subseteq {w} \cup (IF changes = 0 THEN {} ELSE {"cannot"})
  PROVE  AnswerInv'
  <1>1. stage' = "idle" /\ (result' = << >> \/ (~o.had /\ result' = o.text))
    BY Concluding, ConcludeSays
  <1>2. Ended(result', changes', lapse')
    <2>1. CASE result' = << >>
      BY <2>1, EndedEmpty
    <2>2. CASE ~o.had /\ result' = o.text
      BY <2>2, EndedQuiet DEF Outs
    <2> QED
      BY <1>1, <2>1, <2>2
  <1> QED
    BY <1>1, <1>2, AnswerReduction DEF AnswerInv

LEMMA ConcludesError ==
  ASSUME Inv, AnswerInv, UNCHANGED <<flags, changes, lapse>>, Conclude(Errored(out), -1)
  PROVE  AnswerInv'
  <1>1. Errored(out) \in Outs /\ Errored(out).had
    BY Failing, ErroredHad DEF Inv, TypeOK, Outs
  <1> QED
    BY <1>1, ConcludesQuiet

\* What the checks of the file system print.
LEMMA SettledAnswers ==
  ASSUME Inv, AnswerInv, UNCHANGED <<flags, disk, changes, lapse>>, stage \in {"stat", "link"},
         NEW tokens \in Texts, Quiet(tokens), "sep" \notin Found(tokens),
         NEW value, Settled(tokens, value), NEW w, Found(tokens) \cap Words \subseteq {w},
         value = 0 /\ OneKind =>
           /\ Found(tokens) \cap Encodings = {}
           /\ \/ Found(tokens) \cap Words = {}
              \/ /\ Found(tokens) \cap Words = {"cannot"}
                 /\ changes = 0 => disk.kind \in {"absent", "broken"}
  PROVE  AnswerInv'
  <1>1. out = Fresh /\ out \in Outs /\ Fresh.text = << >> /\ result = << >>
    BY DEF AnswerInv, Inv, TypeOK, Outs, Fresh
  <1>2. PICK p \in Printed(out, tokens) :
          IF ~p.ok THEN Conclude(p.o, -1)
          ELSE IF value = 0 THEN stage' = "open" /\ out' = p.o /\ UNCHANGED result
          ELSE Conclude(p.o, 0)
    BY DEF Settled
  <1>3. p.o \in Outs
    BY <1>1, Printing
  <1>4. ~p.o.had => p.o.text = tokens
    <2>1. tokens \in Seq(Tokens) /\ << >> \o tokens = tokens
      BY DEF Texts
    <2>2. ~p.o.had => p.o.text = out.text \o tokens
      BY <1>1, PrintedSays
    <2> QED
      BY <1>1, <2>1, <2>2
  <1>5. CASE Conclude(p.o, -1) \/ Conclude(p.o, 0)
    BY <1>3, <1>4, <1>5, ConcludesQuiet
  <1>6. CASE value = 0 /\ stage' = "open" /\ out' = p.o /\ UNCHANGED result
    <2>1. ~out'.had => Allowed(out'.text, "open", changes, disk.kind, lapse)
      BY <1>4, <1>6, QuietProper DEF Allowed, Accounted
    <2> QED
      BY <1>1, <1>6, <2>1, AnswerReduction DEF AnswerInv
  <1> QED
    BY <1>2, <1>5, <1>6

LEMMA TokensFound ==
  /\ Found(Bits) \subseteq {"bits"}
  /\ Found(TypeTokens) \subseteq {"type", "charset", "encoding"}
  /\ Found(BrokenTokens) \subseteq {"type"}
  /\ Found(Bits \o TypeTokens) \subseteq {"bits", "type", "charset", "encoding"}
  /\ Found(<<"cannot">>) = {"cannot"} /\ Found(<<"unreadable">>) = {"unreadable"}
  /\ Matched = 0 /\ OneKind => Found(TypeTokens) = {} /\ Found(Bits \o TypeTokens) = {}
  <1>1. /\ {"bits", "type", "cannot", "unreadable", "charset", "encoding"} \subseteq Tokens
    BY DEF Tokens
  <1>2. \A token \in Tokens : Found(<<token>>) = {token}
    BY Single
  <1>3. Found(<< >>) = {}
    BY Nothing
  <1>4. Found(Encoding) \subseteq Encodings
    <2>1. Found(<<"charset">> \o <<"encoding">>) = {"charset", "encoding"}
      BY <1>1, Single, Concatenation
    <2>2. <<"charset", "encoding">> = <<"charset">> \o <<"encoding">>
      OBVIOUS
    <2>3. Found(<<"encoding">>) = {"encoding"}
      BY <1>1, <1>2
    <2> QED
      BY <1>3, <2>1, <2>2, <2>3 DEF Encoding, Encodings
  <1>5. Found(<<"type">> \o Encoding) \subseteq {"type", "charset", "encoding"}
    BY <1>1, <1>4, Single, Concatenation, EncodingType DEF Encodings
  <1>6. /\ Found(Bits) \subseteq {"bits"} /\ Found(BrokenTokens) \subseteq {"type"}
        /\ Found(TypeTokens) \subseteq {"type", "charset", "encoding"}
    BY <1>1, <1>2, <1>3, <1>4, <1>5 DEF Bits, BrokenTokens, TypeTokens, Encodings
  <1>7. Found(Bits \o TypeTokens) = Found(Bits) \cup Found(TypeTokens)
    BY TokenTypes, Concatenation
  <1>8. ASSUME Matched = 0, OneKind PROVE Found(TypeTokens) = {} /\ Found(Bits) = {}
    <2>1. Has("silent") /\ ~Mime
      BY <1>8 DEF Matched, OneKind
    <2>2. TypeTokens = << >> /\ Bits = << >>
      BY <2>1 DEF TypeTokens, Bits, Plain, Mime
    <2> QED
      BY <1>3, <2>2
  <1> QED
    BY <1>1, <1>2, <1>6, <1>7, <1>8

LEMMA StatAnswers ==
  ASSUME Inv, AnswerInv, Stat
  PROVE  AnswerInv'
  <1>1. stage = "stat" /\ UNCHANGED <<flags, disk, changes, lapse>> /\ result = << >> /\ out = Fresh
    BY DEF Stat, Inv, TypeOK, AnswerInv
  <1>2. \/ Conclude(Errored(out), -1)
        \/ Seen = "absent" /\ Settled(<<"cannot">>, 0)
        \/ Seen \in {"link", "broken"} /\ stage' = "link" /\ UNCHANGED <<out, result>>
        \/ Settled(Bits, 0) \/ Settled(Bits, Matched)
        \/ Settled(Bits \o TypeTokens, Matched)
    BY DEF Stat
  <1>3. CASE Conclude(Errored(out), -1)
    BY <1>1, <1>3, ConcludesError
  <1>4. CASE Seen = "absent" /\ Settled(<<"cannot">>, 0)
    <2>1. disk.kind \in {"absent", "broken"}
      BY <1>4 DEF Seen
    <2>2. <<"cannot">> \in Texts /\ Quiet(<<"cannot">>)
      BY TokenTypes
    <2>3. Found(<<"cannot">>) \cap Words = {"cannot"} /\ Found(<<"cannot">>) \cap Encodings = {}
          /\ "sep" \notin Found(<<"cannot">>)
      BY TokensFound DEF Words, Encodings
    <2> QED
      BY <1>1, <1>4, <2>1, <2>2, <2>3, SettledAnswers
  <1>5. CASE Seen \in {"link", "broken"} /\ stage' = "link" /\ UNCHANGED <<out, result>>
    <2>1. disk.kind \in {"link", "broken"}
      BY <1>5 DEF Seen
    <2>2. Allowed(out'.text, stage', changes', disk'.kind, lapse')
      BY <1>1, <1>5, EmptyProper, Nothing DEF Allowed, Accounted, Fresh, Quiet
    <2> QED
      BY <1>1, <1>5, <2>1, <2>2, AnswerReduction DEF AnswerInv
  <1>6. CASE Settled(Bits, 0) \/ Settled(Bits, Matched)
    <2>1. /\ Found(Bits) \cap Words = {} /\ Found(Bits) \cap Encodings = {}
          /\ "sep" \notin Found(Bits)
      BY TokensFound DEF Words, Encodings
    <2> QED
      BY <1>1, <1>6, <2>1, SettledAnswers, TokenTypes
  <1>7. CASE Settled(Bits \o TypeTokens, Matched)
    <2> DEFINE t == Bits \o TypeTokens
    <2>1. /\ t \in Texts /\ Quiet(t) /\ Found(t) \subseteq {"bits", "type", "charset", "encoding"}
          /\ Matched = 0 /\ OneKind => Found(t) = {}
      BY TokensFound, TokenTypes
    <2>2. Settled(t, Matched)
      BY <1>7
    <2> HIDE DEF t
    <2>3. "sep" \notin Found(t) /\ Found(t) \cap Words \subseteq {"type"}
      BY <2>1 DEF Words
    <2> QED
      BY <1>1, <2>1, <2>2, <2>3, SettledAnswers
  <1> QED
    BY <1>2, <1>3, <1>4, <1>5, <1>6, <1>7

LEMMA ReadLinkAnswers ==
  ASSUME Inv, AnswerInv, ReadLink
  PROVE  AnswerInv'
  <1>1. stage = "link" /\ UNCHANGED <<flags, disk, changes, lapse>>
    BY DEF ReadLink
  <1>2. \/ Conclude(Errored(out), -1)
        \/ Settled(BrokenTokens, 1)
        \/ Settled(TypeTokens, Matched)
    BY DEF ReadLink
  <1>3. CASE Conclude(Errored(out), -1)
    BY <1>1, <1>3, ConcludesError
  <1>4. CASE Settled(BrokenTokens, 1)
    <2>1. "sep" \notin Found(BrokenTokens) /\ Found(BrokenTokens) \cap Words \subseteq {"type"}
      BY TokensFound
    <2>2. 1 # 0
      OBVIOUS
    <2> QED
      BY <1>1, <1>4, <2>1, <2>2, SettledAnswers, TokenTypes
  <1>5. CASE Settled(TypeTokens, Matched)
    <2>1. /\ "sep" \notin Found(TypeTokens) /\ Found(TypeTokens) \cap Words \subseteq {"type"}
          /\ Matched = 0 /\ OneKind => Found(TypeTokens) = {}
      BY TokensFound DEF Words
    <2> QED
      BY <1>1, <1>5, <2>1, SettledAnswers, TokenTypes
  <1> QED
    BY <1>2, <1>3, <1>4, <1>5

\* A file that cannot be read: the complaint stands alone, or behind what the checks of
\* the file system left.
LEMMA ComplaintAnswers ==
  ASSUME Inv, AnswerInv, UNCHANGED <<flags, changes, lapse>>, stage \in {"restat", "read"},
         NEW tokens \in {<< >>, <<"unreadable">>}, NEW p \in Printed(out, tokens),
         NEW value, Conclude(p.o, value),
         tokens # << >> => stage = "read" \/ disk.kind \notin {"absent", "broken"}
  PROVE  AnswerInv'
  <1>1. out \in Outs
    BY DEF Inv, TypeOK, Outs
  <1>2. tokens \in Texts /\ Quiet(tokens) /\ Found(tokens) \subseteq {"unreadable"}
        /\ (tokens = << >> => Found(tokens) = {})
    BY TokenTypes, TokensFound, Nothing DEF Quiet
  <1>3. p.o \in Outs
    BY <1>1, <1>2, Printing
  <1> DEFINE rest == IF changes = 0 THEN {} ELSE {"cannot"}
  <1>4. ASSUME ~p.o.had
        PROVE  \E w : /\ Quiet(p.o.text) /\ "sep" \notin Found(p.o.text)
                      /\ OneKind => Found(p.o.text) \cap Words \subseteq {w} \cup rest
    <2>1. ~out.had /\ p.o.text = out.text \o tokens
      BY <1>1, <1>2, <1>4, PrintedSays
    <2>2. Found(p.o.text) = Found(out.text) \cup Found(tokens)
      BY <1>1, <1>2, <2>1, Concatenation DEF Outs
    <2>3. Allowed(out.text, stage, changes, disk.kind, lapse)
      BY <2>1 DEF AnswerInv
    <2>4. Quiet(out.text) /\ "sep" \notin Found(out.text)
      BY <2>3 DEF Allowed, Early
    <2>5. Quiet(p.o.text) /\ "sep" \notin Found(p.o.text)
      BY <1>2, <2>2, <2>4 DEF Quiet
    <2>6. OneKind =>
            \/ Found(out.text) \cap Words = {}
            \/ /\ Found(out.text) \cap Words = {"cannot"}
               /\ changes = 0 => stage = "restat" /\ disk.kind \in {"absent", "broken"}
      BY <2>3 DEF Allowed, Accounted
    <2>7. CASE Found(out.text) \cap Words = {}
      <3>1. Found(p.o.text) \cap Words \subseteq {"unreadable"}
        BY <1>2, <2>2, <2>7
      <3> QED
        BY <2>5, <3>1
    <2>8. CASE /\ Found(out.text) \cap Words = {"cannot"} /\ changes = 0
               /\ stage = "restat" /\ disk.kind \in {"absent", "broken"}
      <3>1. Found(p.o.text) \cap Words \subseteq {"cannot"}
        BY <1>2, <2>2, <2>8
      <3> QED
        BY <2>5, <3>1
    <2>9. CASE Found(out.text) \cap Words = {"cannot"} /\ changes # 0
      <3>1. Found(p.o.text) \cap Words \subseteq {"unreadable"} \cup rest
        BY <1>2, <2>2, <2>9
      <3> QED
        BY <2>5, <3>1
    <2>10. CASE ~OneKind
      BY <2>5, <2>10
    <2> QED
      BY <2>6, <2>7, <2>8, <2>9, <2>10
  <1>5. CASE p.o.had
    BY <1>3, <1>5, ConcludesQuiet
  <1>6. CASE ~p.o.had
    <2>1. PICK w : /\ Quiet(p.o.text) /\ "sep" \notin Found(p.o.text)
                   /\ OneKind => Found(p.o.text) \cap Words \subseteq {w} \cup rest
      BY <1>4, <1>6
    <2> QED
      BY <1>3, <2>1, ConcludesQuiet
  <1> QED
    BY <1>5, <1>6

LEMMA RestatAnswers ==
  ASSUME Inv, AnswerInv, Restat
  PROVE  AnswerInv'
  <1>1. stage = "restat" /\ UNCHANGED <<flags, changes, lapse>>
    BY DEF Restat
  <1> DEFINE tokens == IF disk.kind \in {"absent", "broken"} THEN << >> ELSE <<"unreadable">>
  <1>2. \E p \in Printed(out, tokens) : Conclude(p.o, IF p.ok THEN 0 ELSE -1)
    BY DEF Restat
  <1>3. /\ tokens \in {<< >>, <<"unreadable">>}
        /\ tokens # << >> => disk.kind \notin {"absent", "broken"}
    OBVIOUS
  <1> HIDE DEF tokens
  <1> QED
    BY <1>1, <1>2, <1>3, ComplaintAnswers

\* The same text, one step further.
LEMMA SameText ==
  ASSUME NEW s, NEW at, NEW to, NEW n, NEW kind, NEW other, NEW l, Allowed(s, at, n, kind, l),
         at # "done", to \in Early => at \in Early,
         OneKind => Accounted(s, to, n, other)
  PROVE  Allowed(s, to, n, other, l)
  BY DEF Allowed

LEMMA OpenAnswers ==
  ASSUME Inv, AnswerInv, Open
  PROVE  AnswerInv'
  <1>1. /\ stage = "open" /\ UNCHANGED <<flags, out, result, disk, changes, lapse>> /\ result = << >>
        /\ stage' = "restat" \/ (stage' = "read" /\ disk.kind \notin {"absent", "broken"})
    BY DEF Open, Opens, Inv, TypeOK
  <1>2. ASSUME ~out.had PROVE Allowed(out.text, stage', changes, disk.kind, lapse)
    <2>1. Allowed(out.text, "open", changes, disk.kind, lapse)
      BY <1>1, <1>2 DEF AnswerInv
    <2>2. OneKind => Accounted(out.text, stage', changes, disk.kind)
      BY <1>1, <2>1 DEF Allowed, Accounted
    <2>3. stage' \in Early
      BY <1>1 DEF Early
    <2> QED
      BY <2>1, <2>2, <2>3, SameText DEF Early
  <1> QED
    BY <1>1, <1>2, AnswerReduction DEF AnswerInv

\* The stages of file_buffer.
LEMMA BufferStages ==
  ASSUME NEW at \in Detectors \cup {"simple", "done"}
  PROVE  at \notin Early /\ at # "idle" /\ at \notin {"open", "restat", "stat", "link"}
  BY DEF Detectors, Builtin, Early

LEMMA ReadAnswers ==
  ASSUME Inv, AnswerInv, Read
  PROVE  AnswerInv'
  <1>1. /\ stage = "read" /\ UNCHANGED <<flags, changes, lapse>> /\ result = << >>
        /\ out \in Outs
    BY DEF Read, Inv, TypeOK, Outs
  <1>2. \/ /\ \E sizes \in SUBSET {"empty", "byte", "many"} : Examine(sizes, out)
           /\ UNCHANGED result
        \/ Conclude(Errored(out), -1)
        \/ \E p \in Printed(out, <<"unreadable">>), value \in {0, -1} : Conclude(p.o, value)
    BY DEF Read
  <1>3. CASE /\ \E sizes \in SUBSET {"empty", "byte", "many"} : Examine(sizes, out)
             /\ UNCHANGED result
    <2>1. stage' \in {"tar", "simple"} /\ out' \in {out, Errored(out)}
      BY <1>3 DEF Examine
    <2>2. stage' \in Detectors \cup {"simple", "done"}
      BY <2>1 DEF Detectors, Builtin
    <2>3. ASSUME ~out'.had PROVE Allowed(out'.text, stage', changes, disk'.kind, lapse)
      <3>1. out' = out
        BY <1>1, <2>1, <2>3, ErroredHad
      <3>2. Allowed(out.text, "read", changes, disk.kind, lapse)
        BY <1>1, <2>3, <3>1 DEF AnswerInv
      <3>3. OneKind => Accounted(out.text, stage', changes, disk'.kind)
        BY <3>2 DEF Allowed, Accounted
      <3> QED
        BY <2>2, <3>1, <3>2, <3>3, SameText, BufferStages
    <2> QED
      BY <1>1, <1>3, <2>2, <2>3, AnswerReduction, BufferStages DEF AnswerInv
  <1>4. CASE Conclude(Errored(out), -1)
    BY <1>1, <1>4, ConcludesError
  <1>5. CASE \E p \in Printed(out, <<"unreadable">>), value \in {0, -1} : Conclude(p.o, value)
    BY <1>1, <1>5, ComplaintAnswers
  <1> QED
    BY <1>2, <1>3, <1>4, <1>5

LEMMA EmptyAllowed ==
  ASSUME NEW at, NEW n, NEW kind, NEW l
  PROVE  Allowed(<< >>, at, n, kind, l)
  BY Nothing, EmptyProper DEF Allowed, Accounted, Quiet

LEMMA CallAnswers ==
  ASSUME Inv, AnswerInv, File \/ (Buffer /\ UNCHANGED <<disk, changes>>)
  PROVE  AnswerInv'
  <1>1. CASE File
    <2>1. /\ out' = Fresh /\ result' = << >> /\ stage' = "stat" /\ flags' = flags
          /\ changes' = 0 /\ Fresh.text = << >>
      BY <1>1 DEF File, NewCall, Cleared, Fresh
    <2>2. Allowed(<< >>, "stat", 0, disk'.kind, lapse')
      BY EmptyAllowed
    <2> QED
      BY <2>1, <2>2, AnswerReduction
  <1>2. CASE Buffer /\ UNCHANGED <<disk, changes>>
    <2>1. stage' \in {"tar", "simple"} /\ out' \in {Fresh, Errored(Fresh)}
      BY <1>2 DEF Buffer, Examine, Cleared
    <2>2. /\ result' = << >> /\ flags' = flags /\ Fresh.text = << >> /\ Fresh \in Outs
      BY <1>2, Nothing DEF Buffer, NewCall, Fresh, Outs
    <2>3. ~out'.had => out'.text = << >>
      BY <2>1, <2>2, ErroredHad
    <2>4. Allowed(<< >>, stage', changes', disk'.kind, lapse')
      BY EmptyAllowed
    <2> QED
      BY <1>2, <2>1, <2>2, <2>3, <2>4, AnswerReduction DEF AnswerInv
  <1> QED
    BY <1>1, <1>2

LEMMA NoMemoryAnswers ==
  ASSUME Inv, AnswerInv, NoMemory
  PROVE  AnswerInv'
  <1>1. /\ stage' = "idle" /\ UNCHANGED <<flags, result, changes, lapse>> /\ result = << >>
    BY DEF NoMemory, Inv, TypeOK
  <1> QED
    BY <1>1, EndedEmpty, AnswerReduction DEF AnswerInv

LEMMA ChangeAnswers ==
  ASSUME Inv, AnswerInv, Change
  PROVE  AnswerInv'
  <1>1. /\ stage \in {"stat", "link", "open", "restat"} /\ stage' = stage /\ flags' = flags
        /\ out' = out /\ result' = result /\ result = << >> /\ changes \in Nat
        /\ changes' = changes + 1 /\ lapse' = lapse
    BY DEF Change, pipeline, Inv, TypeOK, AnswerInv
  <1>2. changes' \in Nat /\ changes' # 0
    BY <1>1
  <1>3. ~out.had => Allowed(out.text, stage, changes', disk'.kind, lapse)
    BY <1>1, <1>2 DEF AnswerInv, Allowed, Accounted
  <1> QED
    BY <1>1, <1>2, <1>3, AnswerReduction DEF AnswerInv

\* The steps of file_buffer.

LEMMA SkipAnswers ==
  ASSUME Inv, AnswerInv, NEW d \in Detectors, Skip(d), UNCHANGED <<disk, changes>>
  PROVE  AnswerInv'
  <1>1. /\ stage = d /\ stage' = After[d] /\ flags' = flags /\ out' = out /\ result' = result
        /\ result = << >> /\ lapse' = lapse
    BY DetectorStages DEF Skip, Inv, TypeOK
  <1>2. After[d] \in Detectors \cup {"simple"}
    BY DEF After, Detectors, Builtin
  <1>3. ASSUME ~out.had PROVE Allowed(out.text, stage', changes, disk.kind, lapse)
    <2>1. Allowed(out.text, d, changes, disk.kind, lapse) /\ d # "done"
      BY <1>1, <1>3, DetectorStages DEF AnswerInv
    <2>2. OneKind => Accounted(out.text, stage', changes, disk.kind)
      BY <1>1, <1>2, <2>1, BufferStages DEF Allowed, Accounted
    <2> QED
      BY <1>1, <1>2, <2>1, <2>2, SameText, BufferStages
  <1> QED
    BY <1>1, <1>2, <1>3, AnswerReduction, BufferStages DEF AnswerInv

\* A detector leaves a text that may stay, with a separator behind it if others follow.
LEMMA SeparatedSays ==
  ASSUME NEW d \in Detectors, NEW s \in Texts, NEW l, NEW a, a.o \in Outs,
         Said(d, a.m, s, a.o.text, l), NEW p \in Separated(d, a), ~p.o.had
  PROVE  /\ ~a.o.had /\ p.o.text \in Texts
         /\ Found(p.o.text) \subseteq Found(s) \cup Detectors \cup {"sep", "joint"}
         /\ ~EncodingOnly /\ Proper(s, l) /\ Closed(s, l) =>
              Proper(p.o.text, l) /\ (GoesOn(d, a) => Closed(p.o.text, l))
  <1> DEFINE t == a.o.text
  <1>1. /\ t \in Texts /\ Found(t) \subseteq Found(s) \cup Detectors \cup {"sep", "joint"}
        /\ Proper(s, l) /\ Closed(s, l) => Proper(t, l)
        /\ a.m # 0 /\ ~EncodingOnly /\ d # "text" /\ l = {} => t # << >> /\ t[Len(t)] = d
    <2> DEFINE value == a.m
    <2>1. Said(d, value, s, t, l)
      OBVIOUS
    <2> HIDE DEF t, value
    <2>2. /\ t \in Texts /\ Found(t) \subseteq Found(s) \cup Detectors \cup {"sep", "joint"}
          /\ Proper(s, l) /\ Closed(s, l) => Proper(t, l)
          /\ value # 0 /\ ~EncodingOnly /\ d # "text" /\ l = {} => t # << >> /\ t[Len(t)] = d
      BY <2>1, SaidProper, ZenonT(30)
    <2> QED
      BY <2>2 DEF value
  <1>2. "sep" \in Tokens /\ d # "sep" /\ "sep" \notin Descriptions
    BY NoDescription DEF Tokens, Detectors, Builtin
  <1>3. CASE a.m # 0 /\ GoesOn(d, a)
    <2>1. p \in Printed(a.o, <<"sep">>)
      BY <1>3 DEF Separated
    <2>2. ~a.o.had /\ p.o.text = Append(t, "sep")
      BY <1>2, <2>1, PrintedToken
    <2> HIDE DEF t
    <2>3. Append(t, "sep") \in Texts /\ Found(Append(t, "sep")) = Found(t) \cup {"sep"}
      BY <1>1, <1>2, Appending
    <2>4. ASSUME ~EncodingOnly, Proper(s, l), Closed(s, l)
          PROVE  Proper(p.o.text, l) /\ Closed(p.o.text, l)
      <3>1. Proper(t, l) /\ (l = {} => t # << >> /\ t[Len(t)] = d)
        BY <1>1, <1>3, <2>4 DEF GoesOn
      <3>2. t # << >> => ~Clash(t[Len(t)], "sep", l)
        BY <1>2, <3>1 DEF Clash
      <3>3. /\ Proper(Append(t, "sep"), l)
            /\ Append(t, "sep")[Len(Append(t, "sep"))] = "sep"
        BY <1>1, <1>2, <3>1, <3>2, AppendProper
      <3> QED
        BY <1>2, <2>2, <3>3 DEF Closed
    <2> QED
      BY <1>1, <2>2, <2>3, <2>4
  <1>4. CASE ~(a.m # 0 /\ GoesOn(d, a))
    <2>1. p = [o |-> a.o, ok |-> TRUE]
      BY <1>4 DEF Separated
    <2>2. p.o = a.o
      BY <2>1
    <2>3. ASSUME GoesOn(d, a), ~EncodingOnly, Proper(s, l), Closed(s, l) PROVE Closed(t, l)
      <3>1. a.m = 0
        BY <1>4, <2>3
      <3>2. t = s \/ Loose(l)
        BY <3>1 DEF Said
      <3> QED
        BY <2>3, <3>2 DEF Closed
    <2> QED
      BY <1>1, <2>2, <2>3
  <1> QED
    BY <1>3, <1>4

LEMMA SaidLoose ==
  ASSUME NEW d, NEW value, NEW s, NEW t, NEW l, NEW k \in SUBSET l,
         Said(d, value, s, t, k)
  PROVE  Said(d, value, s, t, l)
  BY DEF Said, TextSaid, RulesSaid, BehindSaid, Loose

LEMMA TryAnswers ==
  ASSUME Inv, AnswerInv, NEW d \in Detectors, Try(d), UNCHANGED <<disk, changes>>
  PROVE  AnswerInv'
  <1>1. stage = d /\ flags' = flags /\ result' = result /\ result = << >> /\ out \in Outs
    BY DetectorStages DEF Try, Inv, TypeOK, Outs
  <1>2. PICK a \in Answers(d, out) : \E p \in Separated(d, a) :
             /\ out' = p.o /\ stage' = (IF GoesOn(d, a) THEN After[d] ELSE "done")
             /\ lapse' = lapse \cup a.lapse
    BY DEF Try
  <1>3. PICK p \in Separated(d, a) :
             out' = p.o /\ stage' = (IF GoesOn(d, a) THEN After[d] ELSE "done")
    BY <1>2
  <1>4. stage' \in Detectors \cup {"simple", "done"} /\ (stage' # "done" => GoesOn(d, a))
    BY <1>3 DEF After, Detectors, Builtin
  <1>5. ASSUME ~out'.had PROVE Allowed(out'.text, stage', changes, disk.kind, lapse')
    <2>1. a.o \in Outs /\ out.text \in Texts
      BY <1>1, AnswersType DEF Outs
    <2>2. ~a.o.had
      <3>1. "sep" \in Tokens
        BY DEF Tokens
      <3> QED
        BY <1>3, <1>5, <2>1, <3>1, PrintedToken DEF Separated
    <2>3. ~out.had /\ Said(d, a.m, out.text, a.o.text, a.lapse)
      BY <1>1, <2>2, AnswersSay
    <2>4. Allowed(out.text, d, changes, disk.kind, lapse) /\ d # "done"
      BY <1>1, <2>3, BufferStages, DetectorStages DEF AnswerInv
    <2> DEFINE l == lapse'
    <2>5. lapse \in SUBSET l /\ a.lapse \in SUBSET l
      BY <1>2
    <2> HIDE DEF l
    <2>6. /\ Said(d, a.m, out.text, a.o.text, l)
          /\ Proper(out.text, lapse) => Proper(out.text, l)
          /\ Closed(out.text, lapse) => Closed(out.text, l)
      BY <2>3, <2>5, SaidLoose, Looser
    <2>7. /\ p.o.text \in Texts
          /\ Found(p.o.text) \subseteq Found(out.text) \cup Detectors \cup {"sep", "joint"}
          /\ ~EncodingOnly /\ Proper(out.text, l) /\ Closed(out.text, l) =>
               Proper(p.o.text, l) /\ (GoesOn(d, a) => Closed(p.o.text, l))
      BY <1>3, <1>5, <2>1, <2>6, SeparatedSays
    <2>8. (Detectors \cup {"sep", "joint"}) \cap (Words \cup Encodings) = {}
      BY DEF Detectors, Builtin, Words, Encodings
    <2>9. OneKind => Found(p.o.text) \cap Encodings = {}
      BY <2>4, <2>7, <2>8 DEF Allowed
    <2>10. OneKind => Accounted(p.o.text, stage', changes, disk.kind)
      <3>1. ASSUME OneKind PROVE Found(out.text) \cap Words \subseteq (IF changes = 0 THEN {} ELSE {"cannot"})
        BY <1>4, <2>4, <3>1, BufferStages DEF Allowed, Accounted
      <3>2. OneKind => Found(p.o.text) \cap Words \subseteq (IF changes = 0 THEN {} ELSE {"cannot"})
        BY <2>7, <2>8, <3>1
      <3> QED
        BY <3>2 DEF Accounted
    <2>11. ~EncodingOnly => Proper(p.o.text, l) /\ (stage' # "done" => Closed(p.o.text, l))
      BY <1>4, <2>4, <2>6, <2>7 DEF Allowed
    <2> QED
      BY <1>3, <1>4, <2>9, <2>10, <2>11, BufferStages DEF Allowed, l
  <1> QED
    BY <1>1, <1>4, <1>5, AnswerReduction, BufferStages DEF AnswerInv

LEMMA DefaultAnswers ==
  ASSUME Inv, AnswerInv, Default, UNCHANGED <<disk, changes>>
  PROVE  AnswerInv'
  <1>1. /\ stage = "simple" /\ stage' = "done" /\ flags' = flags /\ result' = result
        /\ result = << >> /\ out \in Outs /\ out.text \in Texts /\ lapse' = lapse
    BY DEF Default, Inv, TypeOK, Outs
  <1>2. ASSUME NEW t, ~out.had,
               Found(t) \subseteq Found(out.text) \cup {"default"},
               ~EncodingOnly => Proper(t, lapse)
        PROVE  Allowed(t, "done", changes, disk.kind, lapse)
    <2>1. Allowed(out.text, "simple", changes, disk.kind, lapse)
      BY <1>1, <1>2 DEF AnswerInv
    <2>2. "default" \notin Words \cup Encodings
      BY DEF Words, Encodings
    <2>3. OneKind => Found(t) \cap Encodings = {}
      BY <1>2, <2>1, <2>2 DEF Allowed
    <2>4. OneKind => Accounted(t, "done", changes, disk.kind)
      <3>1. OneKind => Found(out.text) \cap Words \subseteq (IF changes = 0 THEN {} ELSE {"cannot"})
        BY <2>1 DEF Allowed, Accounted
      <3>2. OneKind => Found(t) \cap Words \subseteq (IF changes = 0 THEN {} ELSE {"cannot"})
        BY <1>2, <2>2, <3>1
      <3> QED
        BY <3>2 DEF Accounted
    <2> QED
      BY <1>2, <2>3, <2>4 DEF Allowed, Early
  <1>3. ~out.had /\ ~EncodingOnly => Proper(out.text, lapse) /\ Closed(out.text, lapse)
    BY <1>1 DEF AnswerInv, Allowed
  <1>4. CASE out' = out
    <2>1. ~out.had => Allowed(out.text, "done", changes, disk.kind, lapse)
      BY <1>2, <1>3
    <2> QED
      BY <1>1, <1>4, <2>1, AnswerReduction DEF AnswerInv
  <1>5. CASE \E p \in Printed(out, DefaultTokens) : out' = p.o
    <2>1. PICK p \in Printed(out, DefaultTokens) : out' = p.o
      BY <1>5
    <2>2. "default" \in Tokens /\ "default" # "sep" /\ << >> \in Texts
      BY Nothing DEF Tokens
    <2>3. ASSUME ~p.o.had PROVE Allowed(p.o.text, "done", changes, disk.kind, lapse)
      <3>1. CASE EncodingOnly
        <4>1. ~out.had /\ p.o.text = out.text \o << >>
          BY <1>1, <2>2, <2>3, <3>1, PrintedSays DEF DefaultTokens
        <4>2. p.o.text = out.text
          BY <1>1, <4>1 DEF Texts
        <4> QED
          BY <1>2, <3>1, <4>1, <4>2
      <3>2. CASE ~EncodingOnly
        <4>1. ~out.had /\ p.o.text = Append(out.text, "default")
          BY <1>1, <2>2, <2>3, <3>2, PrintedToken DEF DefaultTokens
        <4>2. Found(p.o.text) = Found(out.text) \cup {"default"}
          BY <1>1, <2>2, <4>1, Appending
        <4>3. out.text # << >> => ~Clash(out.text[Len(out.text)], "default", lapse)
          BY <1>3, <3>2, <4>1 DEF Clash, Closed
        <4>4. Proper(p.o.text, lapse)
          BY <1>1, <1>3, <2>2, <3>2, <4>1, <4>3, AppendProper
        <4> QED
          BY <1>2, <4>1, <4>2, <4>4
      <3> QED
        BY <3>1, <3>2
    <2> QED
      BY <1>1, <2>1, <2>3, AnswerReduction DEF AnswerInv
  <1> QED
    BY <1>4, <1>5 DEF Default

\* The encoding behind a text.
LEMMA EncodingBehind ==
  ASSUME NEW s \in Texts, Found(s) \cap Encodings = {}, Has("mime_type"), Has("mime_encoding")
  PROVE  Complete(s \o Encoding)
  <1> DEFINE a == Append(s, "charset")
             t == Append(a, "encoding")
             n == Len(s)
  <1>1. {"charset", "encoding"} \subseteq Tokens
    BY DEF Tokens
  <1>2. Encoding = <<"charset">> \o <<"encoding">>
    <2>1. <<"charset", "encoding">> = <<"charset">> \o <<"encoding">>
      OBVIOUS
    <2> QED
      BY <2>1 DEF Encoding
  <1>3. s \o Encoding = t
    BY <1>1, <1>2, AppendMore
  <1>4. /\ a \in Texts /\ Len(a) = n + 1 /\ n \in Nat /\ a[n + 1] = "charset"
        /\ \A i \in 1..n : a[i] = s[i]
    BY <1>1 DEF Texts
  <1> HIDE DEF a
  <1>5. /\ Len(t) = n + 2 /\ t[n + 2] = "encoding" /\ t[n + 1] = "charset"
        /\ \A i \in 1..n : t[i] = s[i]
    BY <1>1, <1>4 DEF Texts
  <1> HIDE DEF t
  <1>6. \A i \in 1..n : s[i] \notin Encodings
    BY Elements
  <1>7. Len(t) - 1 = n + 1 /\ Len(t) - 2 = n
    BY <1>4, <1>5
  <1> QED
    BY <1>3, <1>5, <1>6, <1>7 DEF Complete

\* What the encoding adds leaves no separator at the end.
LEMMA EncodingProper ==
  ASSUME NEW s \in Texts, NEW l, Proper(s, l), l = {} /\ s # << >> => s[Len(s)] # "sep",
         s \o Encoding # << >>
  PROVE  /\ Proper(s \o Encoding, l)
         /\ l = {} => (s \o Encoding)[Len(s \o Encoding)] # "sep"
  <1>1. {"charset", "encoding"} \subseteq Tokens
    BY DEF Tokens
  <1>2. <<"charset", "encoding">> = <<"charset">> \o <<"encoding">>
    OBVIOUS
  <1>3. \A token \in {"charset", "encoding"} : \A x : ~Clash(x, token, l)
    BY NoDescription DEF Clash
  <1>4. \A token \in {"charset", "encoding"} :
          /\ Append(s, token) \in Texts /\ Proper(Append(s, token), l) /\ Append(s, token) # << >>
          /\ Append(s, token)[Len(Append(s, token))] = token
    BY <1>1, <1>3, AppendProper
  <1> DEFINE a == Append(s, "charset")
  <1>5. /\ s \o <<"encoding">> = Append(s, "encoding")
        /\ s \o (<<"charset">> \o <<"encoding">>) = Append(a, "encoding")
    BY <1>1, AppendMore
  <1>6. a \in Texts /\ Proper(a, l) /\ a # << >>
    BY <1>4
  <1> HIDE DEF a
  <1>7. Proper(Append(a, "encoding"), l) /\ Append(a, "encoding")[Len(Append(a, "encoding"))] = "encoding"
    BY <1>1, <1>3, <1>6, AppendProper
  <1>8. CASE Encoding = << >>
    <2>1. s \o << >> = s
      BY DEF Texts
    <2> QED
      BY <1>8, <2>1
  <1>9. CASE Encoding = <<"encoding">>
    BY <1>4, <1>5, <1>9
  <1>10. CASE Encoding = <<"charset", "encoding">>
    <2>1. s \o Encoding = Append(a, "encoding")
      BY <1>2, <1>5, <1>10
    <2> QED
      BY <1>7, <2>1
  <1> QED
    BY <1>8, <1>9, <1>10 DEF Encoding

LEMMA FinishAnswers ==
  ASSUME Inv, AnswerInv, Finish, UNCHANGED <<disk, changes>>
  PROVE  AnswerInv'
  <1>1. /\ stage = "done" /\ flags' = flags /\ lapse' = lapse /\ out \in Outs /\ out.text \in Texts
    BY DEF Finish, Inv, TypeOK, Outs
  <1> DEFINE s == Trim(out.text)
             o == [out EXCEPT !.text = s]
  <1>2. o \in Outs /\ o.text = s /\ o.had = out.had /\ s \in Texts
    <2>1. s \in Texts
      BY <1>1, Trimming
    <2> HIDE DEF s
    <2> QED
      BY <1>1, <2>1 DEF Outs
  <1>3. PICK p \in Printed(o, Encoding), value \in Int : Conclude(p.o, value)
    <2>1. PICK p \in Printed(o, Encoding) :
            LET wrong == IF p.ok THEN rv ELSE -1
            IN Conclude(p.o, IF wrong # 0 THEN wrong ELSE m)
      BY DEF Finish
    <2>2. (IF (IF p.ok THEN rv ELSE -1) # 0 THEN (IF p.ok THEN rv ELSE -1) ELSE m) \in Int
      BY DEF Inv, TypeOK
    <2> QED
      BY <2>1, <2>2
  <1>4. p.o \in Outs
    BY <1>2, <1>3, EncodingType, Printing
  <1>5. stage' = "idle" /\ (result' = << >> \/ (~p.o.had /\ result' = p.o.text))
    BY <1>3, <1>4, Concluding, ConcludeSays
  <1> HIDE DEF s, o
  <1>6. CASE ~p.o.had /\ result' = p.o.text
    <2>1. ~o.had /\ p.o.text = o.text \o Encoding
      BY <1>2, <1>3, <1>6, EncodingType, PrintedSays
    <2> DEFINE t == s \o Encoding
    <2>2. ~out.had /\ result' = t
      BY <1>2, <1>6, <2>1
    <2>3. Allowed(out.text, "done", changes, disk.kind, lapse)
      BY <1>1, <2>2 DEF AnswerInv
    <2>4. Found(s) \subseteq Found(out.text)
      BY <1>1, Trimming DEF s
    <2>5. ~EncodingOnly /\ t # << >> => Proper(t, lapse) /\ (lapse = {} => t[Len(t)] # "sep")
      <3>1. ASSUME ~EncodingOnly
            PROVE  Proper(s, lapse) /\ (lapse = {} /\ s # << >> => s[Len(s)] # "sep")
        BY <1>1, <2>3, <3>1, TrimProper DEF Allowed, s
      <3> QED
        BY <1>2, <3>1, EncodingProper
    <2>6. OneKind /\ Has("mime_type") /\ Has("mime_encoding") => Complete(t)
      <3>1. OneKind => Found(s) \cap Encodings = {}
        BY <2>3, <2>4 DEF Allowed
      <3> QED
        BY <1>2, <3>1, EncodingBehind
    <2>7. OneKind => OneOf(t, changes)
      <3>1. ASSUME OneKind
            PROVE  Found(out.text) \cap Words \subseteq (IF changes = 0 THEN {} ELSE {"cannot"})
        BY <2>3, <3>1 DEF Allowed, Accounted
      <3>2. Found(t) = Found(s) \cup Found(Encoding)
        BY <1>2, EncodingType, Concatenation
      <3>3. Found(Encoding) \cap Words = {}
        <4>1. {"charset", "encoding"} \subseteq Tokens
          BY DEF Tokens
        <4>2. <<"charset", "encoding">> = <<"charset">> \o <<"encoding">>
          OBVIOUS
        <4>3. Found(<<"charset">> \o <<"encoding">>) = {"charset", "encoding"}
          BY <4>1, Single, Concatenation
        <4>4. Found(<<"encoding">>) = {"encoding"} /\ Found(<< >>) = {}
          BY <4>1, Single, Nothing
        <4> QED
          BY <4>2, <4>3, <4>4 DEF Encoding, Words
      <3> QED
        BY <2>4, <3>1, <3>2, <3>3, OneOfContents
    <2> HIDE DEF t
    <2>8. Ended(t, changes, lapse)
      BY <2>5, <2>6, <2>7 DEF Ended
    <2> QED
      BY <1>1, <1>5, <2>2, <2>8, AnswerReduction DEF AnswerInv
  <1>7. CASE result' = << >>
    BY <1>1, <1>5, <1>7, EndedEmpty, AnswerReduction DEF AnswerInv
  <1> QED
    BY <1>5, <1>6, <1>7

LEMMA StepAnswers == Inv /\ AnswerInv /\ [FileNext]_vars => AnswerInv'
  <1> SUFFICES ASSUME Inv, AnswerInv, [FileNext]_vars PROVE AnswerInv'
    OBVIOUS
  <1>1. CASE UNCHANGED vars
    <2>1. /\ flags' = flags /\ stage' = stage /\ out' = out /\ result' = result
          /\ disk' = disk /\ changes' = changes /\ lapse' = lapse
      BY <1>1 DEF vars
    <2> QED
      BY <2>1, AnswerReduction DEF AnswerInv, Inv, TypeOK
  <1>2. CASE Next /\ UNCHANGED <<disk, fd, changes>>
    <2>1. CASE Buffer
      BY <1>2, <2>1, CallAnswers
    <2>2. CASE \E d \in Detectors : Skip(d) \/ Try(d)
      BY <1>2, <2>2, SkipAnswers, TryAnswers
    <2>3. CASE Default
      BY <1>2, <2>3, DefaultAnswers
    <2>4. CASE Finish
      BY <1>2, <2>4, FinishAnswers
    <2> QED
      BY <1>2, <2>1, <2>2, <2>3, <2>4 DEF Next, Proceed
  <1> QED
    BY <1>1, <1>2, CallAnswers, NoMemoryAnswers, ChangeAnswers, StatAnswers, ReadLinkAnswers,
       OpenAnswers, RestatAnswers, ReadAnswers DEF FileNext

LEMMA AlwaysAnswers == FileSpec => []AnswerInv
  <1>1. FileInit => AnswerInv
    BY EndedEmpty DEF FileInit, Init, AnswerInv
  <1>2. Inv /\ AnswerInv /\ [FileNext]_vars => AnswerInv'
    BY StepAnswers
  <1> QED
    BY <1>1, <1>2, Invariant, PTL DEF FileSpec

\* Unless the encoding alone is asked for, two descriptions never stand side by side; and
\* if the rules did not lapse, one separator stands between two of them and none at either
\* end, whichever detectors match and whatever cannot be printed.
THEOREM AnswersSeparated == FileSpec => []WellSeparated
  <1>1. AnswerInv => WellSeparated
    BY DEF AnswerInv, Ended, Proper, Clash, Tidy, WellSeparated, Botched, Loose
  <1> QED
    BY <1>1, AlwaysAnswers, PTL

\* Who asks for the MIME type and the encoding gets both, once and in this order, with
\* every description, whatever the detectors printed before.
THEOREM AnswersComplete == FileSpec => []MimeComplete
  <1>1. AnswerInv => MimeComplete
    BY DEF AnswerInv, Ended, Complete, Quiet, Encodings, MimeComplete
  <1> QED
    BY <1>1, AlwaysAnswers, PTL

\* The checks of the file system, the complaint that it cannot be read and the detectors
\* do not contradict each other, on all the ways that lead from the first lstat to an
\* answer, however often the file is replaced on the way; only that it was not there at
\* first may be said besides.
THEOREM AnswersAgree == FileSpec => []OneAccount
  <1>1. AnswerInv => OneAccount
    BY DEF AnswerInv, Ended, OneOf, OneAccount
  <1> QED
    BY <1>1, AlwaysAnswers, PTL


-----------------------------------------------------------------------------
(* A call that ends without an answer. *)

BufferStage == Detectors \cup {"simple", "done"}

\* An error is the last thing printed.
Wrong(o) == o.had => o.text # << >> /\ o.text[Len(o.text)] = "error"

FailInv ==
  /\ Wrong(out)
  /\ m = -1 => out.had \/ "mute" \in lapse
  /\ rv = -1 => out.had
  /\ stage \notin BufferStage => m = 0 /\ rv = 0
  /\ stage = "done" => m # 0
  /\ stage \in BufferStage /\ m # 0 /\ ~EncodingOnly /\ ~out.had =>
       out.text # << >> \/ "mute" \in lapse
  /\ stage \in {"open", "restat"} /\ changes = 0 /\ disk.kind \in {"absent", "broken"}
       /\ ~out.had => out.text # << >>

\* What FailuresExplained says of a step.
Says(o) == o.had /\ o.text # << >> /\ o.text[Len(o.text)] = "error"
Explained ==
  stage # "idle" /\ stage' = "idle" /\ result' = << >> => Unexplained \/ Says(out')

LEMMA RaggedSome ==
  ASSUME NEW s \in Texts, NEW text \in RaggedTexts
  PROVE  s \o text # << >>
  <1>1. text \in Texts /\ "sep" \in Found(text)
    BY RaggedType
  <1>2. "sep" \in Found(s \o text)
    BY <1>1, Concatenation
  <1> QED
    BY <1>2, Nothing

LEMMA FailReduction ==
  ASSUME flags' = flags, Wrong(out'), rv' = -1 => out'.had,
         m' = -1 => out'.had \/ "mute" \in lapse',
         stage' \notin BufferStage => m' = 0 /\ rv' = 0,
         stage' = "done" => m' # 0,
         stage' \in BufferStage /\ m' # 0 /\ ~EncodingOnly /\ ~out'.had =>
           out'.text # << >> \/ "mute" \in lapse',
         stage' \in {"open", "restat"} /\ changes' = 0 /\ disk'.kind \in {"absent", "broken"}
           /\ ~out'.had => out'.text # << >>
  PROVE  FailInv'
  <1>1. EncodingOnly' <=> EncodingOnly
    BY DEF EncodingOnly, Has
  <1>2. Wrong(out') <=> Wrong(out)'
    BY DEF Wrong
  <1>3. (stage \in BufferStage)' <=> stage' \in BufferStage
    BY DEF BufferStage, Detectors, Builtin
  <1> QED
    BY <1>1, <1>2, <1>3 DEF FailInv

LEMMA ErroredWrong ==
  ASSUME NEW o \in Outs, Wrong(o)
  PROVE  Wrong(Errored(o)) /\ Errored(o).had /\ Errored(o) \in Outs
  <1>1. CASE o.had
    BY <1>1 DEF Errored
  <1>2. CASE ~o.had
    <2>1. Errored(o) = [text |-> Append(o.text, "error"), had |-> TRUE]
      BY <1>2 DEF Errored
    <2>2. o.text \in Texts /\ "error" \in Tokens
      BY DEF Outs, Tokens
    <2> DEFINE t == Append(o.text, "error")
    <2>3. t \in Texts /\ Len(t) = Len(o.text) + 1 /\ Len(o.text) \in Nat /\ t[Len(t)] = "error"
      BY <2>2 DEF Texts
    <2>4. t # << >>
      BY <2>2, AppendMore
    <2> HIDE DEF t
    <2> QED
      BY <2>1, <2>3, <2>4 DEF Wrong, Outs, t
  <1> QED
    BY <1>1, <1>2

LEMMA PrintedWrong ==
  ASSUME NEW o \in Outs, Wrong(o), NEW tokens \in Texts, NEW p \in Printed(o, tokens)
  PROVE  Wrong(p.o) /\ (o.had => p.o.had) /\ (~p.ok => p.o.had)
  <1>1. CASE o.had
    <2>1. p = [o |-> o, ok |-> TRUE]
      BY <1>1 DEF Printed
    <2> QED
      BY <1>1, <2>1
  <1>2. CASE ~o.had
    <2>1. \/ p = [o |-> [o EXCEPT !.text = @ \o tokens], ok |-> TRUE]
          \/ p = [o |-> Spoilt, ok |-> FALSE]
      BY <1>2 DEF Printed
    <2>2. CASE p = [o |-> [o EXCEPT !.text = @ \o tokens], ok |-> TRUE]
      <3>1. p.ok = TRUE /\ p.o.had = o.had
        BY <2>2 DEF Outs
      <3> QED
        BY <1>2, <3>1 DEF Wrong
    <2>3. CASE p = [o |-> Spoilt, ok |-> FALSE]
      <3>1. <<"error">> # << >> /\ Len(<<"error">>) = 1 /\ <<"error">>[1] = "error"
        OBVIOUS
      <3> QED
        BY <2>3, <3>1 DEF Wrong, Spoilt
    <2> QED
      BY <2>1, <2>2, <2>3
  <1> QED
    BY <1>1, <1>2

\* A call ends: an answer, or an error in the buffer.
LEMMA ConcludesFail ==
  ASSUME flags' = flags, NEW o \in Outs, Wrong(o), NEW value, Conclude(o, value),
         value = -1 => o.had \/ Unexplained, m' = 0, rv' = 0,
         o.had \/ o.text # << >> \/ Unexplained
  PROVE  FailInv' /\ Explained
  <1>1. stage' = "idle"
    BY DEF Conclude
  <1>2. PICK g \in IF value = -1 THEN {[o |-> o, text |-> << >>]} ELSE Got(o) :
          out' = g.o /\ result' = g.text
    BY DEF Conclude
  <1>3. \/ g.o = o /\ g.text = << >> /\ (o.had \/ Unexplained)
        \/ g.o = o /\ ~o.had /\ g.text = o.text
        \/ g.o = Errored(o) /\ ~o.had
    BY <1>2 DEF Got
  <1>4. Wrong(out') /\ (o.had => out'.had) /\ (result' = << >> => out'.had \/ Unexplained)
    BY <1>2, <1>3, ErroredWrong
  <1>5. stage' \notin BufferStage /\ stage' \notin {"open", "restat"} /\ stage' # "done"
    BY <1>1, DetectorStages DEF BufferStage
  <1>6. FailInv'
    BY <1>4, <1>5, FailReduction
  <1>7. Explained
    BY <1>4 DEF Explained, Wrong, Says
  <1> QED
    BY <1>6, <1>7

\* A step that does not end the call.
LEMMA GoesOnExplained ==
  ASSUME stage = "idle" \/ stage' # "idle"
  PROVE  Explained
  BY DEF Explained

LEMMA EarlyStages == Early \cap BufferStage = {} /\ "idle" \notin BufferStage
  BY DEF Early, BufferStage, Detectors, Builtin

LEMMA ErrorFails ==
  ASSUME Inv, FailInv, UNCHANGED <<flags, m, rv>>, stage \in Early,
         Conclude(Errored(out), -1)
  PROVE  FailInv' /\ Explained
  <1>1. Errored(out) \in Outs /\ Errored(out).had /\ Wrong(Errored(out))
    BY ErroredWrong DEF FailInv, Inv, TypeOK, Outs
  <1> QED
    BY <1>1, EarlyStages, ConcludesFail DEF FailInv

\* What the checks of the file system print is something, unless a match is silent.
LEMMA SettledFails ==
  ASSUME Inv, AnswerInv, FailInv, UNCHANGED <<flags, m, rv, disk, changes>>,
         stage \in {"stat", "link"}, NEW tokens \in Texts, NEW value, Settled(tokens, value),
         value # 0 => tokens # << >> \/ Unexplained,
         value = 0 /\ changes = 0 /\ disk.kind \in {"absent", "broken"} => tokens # << >>
  PROVE  FailInv' /\ Explained
  <1>1. out = Fresh /\ out \in Outs /\ Fresh.text = << >> /\ Wrong(out)
    BY DEF AnswerInv, FailInv, Inv, TypeOK, Outs, Fresh
  <1>2. PICK p \in Printed(out, tokens) :
          IF ~p.ok THEN Conclude(p.o, -1)
          ELSE IF value = 0 THEN stage' = "open" /\ out' = p.o /\ UNCHANGED result
          ELSE Conclude(p.o, 0)
    BY DEF Settled
  <1>3. /\ p.o \in Outs /\ Wrong(p.o) /\ (out.had => p.o.had) /\ (~p.ok => p.o.had)
        /\ ~p.o.had => p.o.text = tokens
    <2>1. tokens \in Seq(Tokens) /\ << >> \o tokens = tokens
      BY DEF Texts
    <2>2. p.o \in Outs
      BY <1>1, Printing
    <2>3. Wrong(p.o) /\ (out.had => p.o.had) /\ (~p.ok => p.o.had)
      BY <1>1, PrintedWrong
    <2>4. ~p.o.had => p.o.text = tokens
      BY <1>1, <2>1, PrintedSays
    <2> QED
      BY <2>2, <2>3, <2>4
  <1>4. m' = 0 /\ rv' = 0
    BY EarlyStages DEF FailInv, Early
  <1>5. CASE ~p.ok /\ Conclude(p.o, -1)
    BY <1>3, <1>4, <1>5, ConcludesFail
  <1>6. CASE value # 0 /\ Conclude(p.o, 0)
    BY <1>3, <1>4, <1>6, ConcludesFail
  <1>7. CASE value = 0 /\ stage' = "open" /\ out' = p.o
    <2>1. "open" \notin BufferStage
      BY DEF BufferStage, Detectors, Builtin
    <2> QED
      BY <1>3, <1>4, <1>7, <2>1, FailReduction, GoesOnExplained DEF FailInv
  <1> QED
    BY <1>2, <1>5, <1>6, <1>7

LEMMA SomeTokens ==
  /\ Matched # 0 => TypeTokens # << >> /\ Bits \o TypeTokens # << >>
  /\ BrokenTokens # << >> \/ EncodingOnly
  /\ <<"cannot">> # << >> /\ <<"unreadable">> # << >>
  <1>1. /\ Encoding # << >> \/ ~Has("mime_encoding")
    BY DEF Encoding
  <1>2. "type" \in Found(<<"type">> \o Encoding)
    <2>1. "type" \in Tokens
      BY DEF Tokens
    <2> QED
      BY <2>1, Single, Concatenation, EncodingType
  <1>3. <<"type">> \o Encoding # << >>
    BY <1>2, Nothing
  <1>4. \A token : <<token>> # << >>
    OBVIOUS
  <1>5. Matched # 0 => TypeTokens # << >>
    BY <1>1, <1>3, <1>4 DEF Matched, TypeTokens, Mime
  <1>6. TypeTokens # << >> => Bits \o TypeTokens # << >>
    <2>1. Bits \in Texts /\ TypeTokens \in Texts
      BY TokenTypes
    <2>2. TypeTokens # << >> => 1 \in 1..Len(TypeTokens)
      BY <2>1, Elements
    <2>3. TypeTokens # << >> => Found(TypeTokens) # {}
      BY <2>1, <2>2, Elements
    <2>4. Found(Bits \o TypeTokens) = Found(Bits) \cup Found(TypeTokens)
      BY <2>1, Concatenation
    <2> QED
      BY <2>3, <2>4, Nothing
  <1> QED
    BY <1>4, <1>5, <1>6 DEF BrokenTokens, EncodingOnly, Mime

LEMMA StatFails ==
  ASSUME Inv, AnswerInv, FailInv, Stat
  PROVE  FailInv' /\ Explained
  <1>1. /\ stage = "stat" /\ UNCHANGED <<flags, m, rv, disk, changes>>
    BY DEF Stat
  <1>2. \/ Conclude(Errored(out), -1)
        \/ Settled(<<"cannot">>, 0)
        \/ stage' = "link" /\ UNCHANGED out
        \/ Seen \notin {"absent", "link", "broken"} /\ Settled(Bits, 0)
        \/ Seen = "fifo" /\ Has("devices") /\ Settled(Bits, Matched)
        \/ Seen \notin {"absent", "link", "broken"} /\ Settled(Bits \o TypeTokens, Matched)
    BY DEF Stat
  <1>3. Seen \notin {"absent", "link", "broken"} => disk.kind \notin {"absent", "broken"}
    BY DEF Seen
  <1>4. CASE Conclude(Errored(out), -1)
    BY <1>1, <1>4, ErrorFails DEF Early
  <1>5. CASE Settled(<<"cannot">>, 0)
    BY <1>1, <1>5, SettledFails, SomeTokens, TokenTypes
  <1>6. CASE stage' = "link" /\ UNCHANGED out
    <2>1. "link" \notin BufferStage /\ m = 0 /\ rv = 0
      BY <1>1, EarlyStages DEF FailInv, Early
    <2>2. Wrong(out)
      BY DEF FailInv
    <2> QED
      BY <1>1, <1>6, <2>1, <2>2, FailReduction, GoesOnExplained
  <1>7. CASE Seen \notin {"absent", "link", "broken"} /\ Settled(Bits, 0)
    BY <1>1, <1>3, <1>7, SettledFails, TokenTypes
  <1>8. CASE Seen = "fifo" /\ Has("devices") /\ Settled(Bits, Matched)
    <2>1. Unexplained
      BY <1>1, <1>8 DEF Unexplained
    <2> QED
      BY <1>1, <1>3, <1>8, <2>1, SettledFails, TokenTypes
  <1>9. CASE Seen \notin {"absent", "link", "broken"} /\ Settled(Bits \o TypeTokens, Matched)
    BY <1>1, <1>3, <1>9, SettledFails, SomeTokens, TokenTypes
  <1> QED
    BY <1>2, <1>4, <1>5, <1>6, <1>7, <1>8, <1>9

LEMMA ReadLinkFails ==
  ASSUME Inv, AnswerInv, FailInv, ReadLink
  PROVE  FailInv' /\ Explained
  <1>1. stage = "link" /\ UNCHANGED <<flags, m, rv, disk, changes>>
    BY DEF ReadLink
  <1>2. \/ Conclude(Errored(out), -1)
        \/ disk.kind = "broken" /\ Settled(BrokenTokens, 1)
        \/ disk.kind # "broken" /\ Settled(TypeTokens, Matched)
    BY DEF ReadLink
  <1>3. CASE Conclude(Errored(out), -1)
    BY <1>1, <1>3, ErrorFails DEF Early
  <1>4. CASE disk.kind = "broken" /\ Settled(BrokenTokens, 1)
    <2>1. BrokenTokens # << >> \/ Unexplained
      BY <1>1, <1>4, SomeTokens DEF Unexplained
    <2>2. 1 # 0
      OBVIOUS
    <2> QED
      BY <1>1, <1>4, <2>1, <2>2, SettledFails, TokenTypes
  <1>5. CASE disk.kind # "broken" /\ Settled(TypeTokens, Matched)
    <2>1. changes = 0 => disk.kind \notin {"absent", "broken"}
      BY <1>1, <1>5 DEF AnswerInv
    <2> QED
      BY <1>1, <1>5, <2>1, SettledFails, SomeTokens, TokenTypes
  <1> QED
    BY <1>2, <1>3, <1>4, <1>5

LEMMA RestatFails ==
  ASSUME Inv, AnswerInv, FailInv, Restat
  PROVE  FailInv' /\ Explained
  <1>1. /\ stage = "restat" /\ UNCHANGED <<flags, m, rv, disk, changes>> /\ changes \in Nat
        /\ out \in Outs /\ Wrong(out) /\ out.text \in Texts
    BY DEF Restat, AnswerInv, FailInv, Inv, TypeOK, Outs
  <1> DEFINE tokens == IF disk.kind \in {"absent", "broken"} THEN << >> ELSE <<"unreadable">>
  <1>2. PICK p \in Printed(out, tokens) : Conclude(p.o, IF p.ok THEN 0 ELSE -1)
    BY DEF Restat
  <1>3. tokens \in Texts
    BY TokenTypes, Nothing
  <1>4. /\ p.o \in Outs /\ Wrong(p.o) /\ (out.had => p.o.had) /\ (~p.ok => p.o.had)
        /\ ~p.o.had => ~out.had /\ p.o.text = out.text \o tokens
    <2> HIDE DEF tokens
    <2> QED
      BY <1>1, <1>2, <1>3, Printing, PrintedWrong, PrintedSays
  <1>5. p.o.had \/ p.o.text # << >> \/ Unexplained
    <2>1. CASE disk.kind \in {"absent", "broken"} /\ ~p.o.had
      <3>1. p.o.text = out.text /\ ~out.had
        BY <1>1, <1>4, <2>1 DEF Texts
      <3>2. changes = 0 => out.text # << >>
        BY <1>1, <2>1, <3>1 DEF FailInv
      <3>3. changes # 0 => Unexplained
        BY <1>1, <2>1 DEF Unexplained
      <3> QED
        BY <3>1, <3>2, <3>3
    <2>2. CASE disk.kind \notin {"absent", "broken"} /\ ~p.o.had
      <3>1. "unreadable" \in Tokens
        BY DEF Tokens
      <3>2. p.o.text = out.text \o <<"unreadable">>
        BY <1>4, <2>2
      <3> QED
        BY <1>1, <3>1, <3>2, AppendMore
    <2> QED
      BY <2>1, <2>2
  <1>6. /\ (IF p.ok THEN 0 ELSE -1) = -1 => p.o.had
        /\ m' = 0 /\ rv' = 0
    BY <1>1, <1>4, EarlyStages DEF FailInv, Early
  <1> QED
    BY <1>1, <1>2, <1>4, <1>5, <1>6, ConcludesFail

LEMMA ReadFails ==
  ASSUME Inv, FailInv, Read
  PROVE  FailInv' /\ Explained
  <1>1. /\ stage = "read" /\ UNCHANGED <<flags, m, rv>> /\ m = 0 /\ rv = 0
        /\ out \in Outs /\ Wrong(out) /\ out.text \in Texts
    BY EarlyStages DEF Read, FailInv, Inv, TypeOK, Outs, Early
  <1>2. \/ /\ \E sizes \in SUBSET {"empty", "byte", "many"} : Examine(sizes, out)
           /\ UNCHANGED result
        \/ Conclude(Errored(out), -1)
        \/ \E p \in Printed(out, <<"unreadable">>) : Conclude(p.o, IF p.ok THEN 0 ELSE -1)
    BY DEF Read
  <1>3. CASE /\ \E sizes \in SUBSET {"empty", "byte", "many"} : Examine(sizes, out)
             /\ UNCHANGED result
    <2>1. stage' \in {"tar", "simple"} /\ Wrong(out')
      BY <1>1, <1>3, ErroredWrong DEF Examine
    <2> QED
      BY <1>1, <1>3, <2>1, FailReduction, GoesOnExplained
  <1>4. CASE Conclude(Errored(out), -1)
    BY <1>1, <1>4, ErrorFails DEF Early
  <1>5. CASE \E p \in Printed(out, <<"unreadable">>) : Conclude(p.o, IF p.ok THEN 0 ELSE -1)
    <2>1. PICK p \in Printed(out, <<"unreadable">>) : Conclude(p.o, IF p.ok THEN 0 ELSE -1)
      BY <1>5
    <2>2. "unreadable" \in Tokens /\ <<"unreadable">> \in Texts
      BY TokenTypes DEF Tokens
    <2>3. /\ p.o \in Outs /\ Wrong(p.o) /\ (out.had => p.o.had) /\ (~p.ok => p.o.had)
          /\ ~p.o.had => p.o.text = out.text \o <<"unreadable">>
      <3>1. p.o \in Outs
        BY <1>1, <2>1, <2>2, Printing
      <3>2. Wrong(p.o) /\ (out.had => p.o.had) /\ (~p.ok => p.o.had)
        BY <1>1, <2>1, <2>2, PrintedWrong
      <3>3. ~p.o.had => p.o.text = out.text \o <<"unreadable">>
        BY <1>1, <2>1, <2>2, PrintedSays
      <3> QED
        BY <3>1, <3>2, <3>3
    <2>4. p.o.had \/ p.o.text # << >>
      BY <1>1, <2>2, <2>3, AppendMore
    <2>5. /\ (IF p.ok THEN 0 ELSE -1) = -1 => p.o.had
          /\ m' = 0 /\ rv' = 0
      BY <1>1, <2>3
    <2> QED
      BY <1>1, <2>1, <2>3, <2>4, <2>5, ConcludesFail
  <1> QED
    BY <1>2, <1>3, <1>4, <1>5

LEMMA OthersFail ==
  ASSUME Inv, AnswerInv, FailInv,
         \/ File \/ NoMemory \/ Change \/ Open
         \/ Buffer /\ UNCHANGED <<disk, changes>>
  PROVE  FailInv' /\ Explained
  <1>1. {"stat", "idle", "open", "restat", "read", "link"} \cap BufferStage = {}
    BY DEF BufferStage, Detectors, Builtin
  <1>2. Wrong(Fresh)
    BY DEF Wrong, Fresh
  <1>3. CASE File \/ (Buffer /\ UNCHANGED <<disk, changes>>)
    <2>1. stage = "idle" /\ flags' = flags /\ m' = m /\ rv' = rv
      BY <1>3 DEF File, Buffer, NewCall
    <2>2. m = 0 /\ rv = 0
      BY <2>1, EarlyStages DEF FailInv
    <2>3. stage' \in {"stat", "tar", "simple"} /\ out' \in {Fresh, Errored(Fresh)}
      BY <1>3 DEF File, Buffer, Examine, Cleared
    <2>4. Wrong(out')
      BY <1>2, <2>3, Nothing, ErroredWrong DEF Fresh, Outs
    <2> QED
      BY <1>1, <2>1, <2>2, <2>3, <2>4, FailReduction, GoesOnExplained
  <1>4. CASE NoMemory
    <2>1. /\ stage = "stat" /\ stage' = "idle" /\ input'.size = "none"
          /\ UNCHANGED <<flags, m, rv, out, lapse>>
      BY <1>4 DEF NoMemory
    <2>2. Explained
      BY <2>1 DEF Explained, Unexplained
    <2> QED
      BY <1>1, <2>1, <2>2, FailReduction DEF FailInv
  <1>5. CASE Change
    <2>1. /\ stage \in {"stat", "link", "open", "restat"} /\ stage' = stage /\ flags' = flags
          /\ out' = out /\ m' = m /\ rv' = rv /\ changes' = changes + 1 /\ changes \in Nat
          /\ lapse' = lapse
      BY <1>5 DEF Change, pipeline, AnswerInv
    <2>2. changes' # 0
      BY <2>1
    <2> QED
      BY <1>1, <2>1, <2>2, FailReduction, GoesOnExplained DEF FailInv
  <1>6. CASE Open
    <2>1. /\ stage = "open" /\ stage' \in {"restat", "read"}
          /\ UNCHANGED <<flags, m, rv, out, lapse, disk, changes>>
      BY <1>6 DEF Open
    <2> QED
      BY <1>1, <2>1, FailReduction, GoesOnExplained DEF FailInv
  <1> QED
    BY <1>3, <1>4, <1>5, <1>6

\* What a detector answers: -1 is an error, and a match is something, unless the rules
\* are mute.
LEMMA SoftWrong ==
  ASSUME NEW o \in Outs, Wrong(o), NEW a \in SoftAnswers(o)
  PROVE  /\ a.o \in Outs /\ Wrong(a.o) /\ (o.had => a.o.had)
         /\ a.m = -1 => a.o.had \/ "mute" \in a.lapse
         /\ a.m # 0 /\ ~a.o.had => a.o.text # << >> \/ "mute" \in a.lapse
  <1>1. CASE a.m = 0 /\ a.o \in {o, Errored(o)} /\ a.lapse = {}
    BY <1>1, ErroredWrong
  <1>2. ASSUME NEW text \in SoftTexts, NEW p \in Printed(o, text), a.m \in {-1, 1},
               \/ a.o = Errored(p.o) /\ a.lapse = {}
               \/ a.o = p.o /\ a.lapse = SoftLapses(a.m, text)
        PROVE  /\ a.o \in Outs /\ Wrong(a.o) /\ (o.had => a.o.had)
               /\ a.m = -1 => a.o.had \/ "mute" \in a.lapse
               /\ ~a.o.had => a.o.text # << >> \/ "mute" \in a.lapse
    <2>1. text \in Texts /\ o.text \in Texts /\ "soft" \in Tokens
      BY SoftText DEF Outs, Tokens, Detectors
    <2>2. p.o \in Outs /\ Wrong(p.o) /\ (o.had => p.o.had)
      BY <2>1, Printing, PrintedWrong
    <2>3. CASE a.o = Errored(p.o)
      BY <2>2, <2>3, ErroredWrong
    <2>4. CASE a.o = p.o /\ a.lapse = SoftLapses(a.m, text)
      <3>1. "mute" \in a.lapse <=> a.m = -1 \/ text = << >>
        BY <2>4, SoftLapsed
      <3>2. ASSUME ~a.o.had, text # << >> PROVE a.o.text # << >>
        <4>1. a.o.text = o.text \o text
          BY <2>1, <2>4, <3>2, PrintedSays
        <4>2. o.text \o <<"soft">> = Append(o.text, "soft")
          BY <2>1, AppendMore
        <4> QED
          BY <2>1, <3>2, <4>1, <4>2, SoftText, AppendMore, RaggedSome
      <3> QED
        BY <2>2, <2>4, <3>1, <3>2
    <2> QED
      BY <1>2, <2>3, <2>4
  <1> QED
    BY <1>1, <1>2, SoftCases

LEMMA BuiltinWrong ==
  ASSUME NEW d \in Builtin, NEW o \in Outs, Wrong(o), NEW a \in BuiltinAnswers(d, o)
  PROVE  a.o \in Outs /\ Wrong(a.o) /\ (o.had => a.o.had) /\ (a.m = -1 => a.o.had)
  <1>1. <<d>> \in Texts
    BY Single DEF Tokens, Detectors
  <1>2. CASE a = Answer(0, o) \/ a = Answer(1, o)
    BY <1>2 DEF Answer, Lapsed
  <1>3. CASE \E p \in Printed(o, <<d>>) : a = Answer(1, p.o) \/ a = Answer(IF p.ok THEN 1 ELSE -1, p.o)
    <2>1. PICK p \in Printed(o, <<d>>) :
            a = Answer(1, p.o) \/ a = Answer(IF p.ok THEN 1 ELSE -1, p.o)
      BY <1>3
    <2>2. a.o = p.o /\ (a.m = -1 => ~p.ok)
      BY <2>1 DEF Answer, Lapsed
    <2> QED
      BY <1>1, <2>2, Printing, PrintedWrong
  <1> QED
    BY <1>2, <1>3 DEF BuiltinAnswers, Describes

LEMMA TextTokensSome ==
  ASSUME NEW r
  PROVE  TextTokens(r) \in Texts /\ "text" \in Found(TextTokens(r))
  <1>1. {"text", "joint", "sep"} \subseteq Tokens
    BY DEF Tokens, Detectors
  <1>2. /\ <<"joint", "text">> = <<"joint">> \o <<"text">>
        /\ <<"sep", "text">> = <<"sep">> \o <<"text">>
    OBVIOUS
  <1>3. /\ "text" \in Found(<<"text">>)
        /\ "text" \in Found(<<"joint">> \o <<"text">>)
        /\ "text" \in Found(<<"sep">> \o <<"text">>)
    BY <1>1, Single, Concatenation
  <1>4. \/ TextTokens(r) = <<"text">> \/ TextTokens(r) = <<"joint", "text">>
        \/ TextTokens(r) = <<"sep", "text">>
    BY DEF TextTokens
  <1> QED
    BY <1>2, <1>3, <1>4, TextTokensType

LEMMA TextRulesWrong ==
  ASSUME NEW o \in Outs, Wrong(o), NEW r \in TextRules(o)
  PROVE  /\ r.o \in Outs /\ Wrong(r.o) /\ (o.had => r.o.had) /\ r.rv \in {-1, 1}
         /\ ~r.o.had /\ r.rv # -1 => r.o.text # << >> \/ "mute" \in r.lapse
  <1>1. r.o \in Outs /\ r.rv \in {-1, 1}
    BY TextRulesType
  <1>2. CASE r.rv = -1 /\ r.o \in {o, Errored(o)}
    BY <1>1, <1>2, ErroredWrong
  <1>3. CASE \E b \in SoftAnswers(o) :
               /\ r.rv = (IF b.m = 0 THEN -1 ELSE b.m)
               /\ r.o = b.o /\ r.lapse = b.lapse
    <2>1. PICK b \in SoftAnswers(o) :
               /\ r.rv = (IF b.m = 0 THEN -1 ELSE b.m)
               /\ r.o = b.o /\ r.lapse = b.lapse
      BY <1>3
    <2>2. r.rv # -1 => b.m # 0
      BY <2>1
    <2> QED
      BY <1>1, <2>1, <2>2, SoftWrong
  <1>4. \/ r.rv = -1 /\ r.o \in {o, Errored(o)}
        \/ \E b \in SoftAnswers(o) :
             r.rv = (IF b.m = 0 THEN -1 ELSE b.m) /\ r.o = b.o /\ r.lapse = b.lapse
    BY TextRulesCases
  <1> QED
    BY <1>1, <1>2, <1>3, <1>4

LEMMA TextWrong ==
  ASSUME NEW o \in Outs, Wrong(o), NEW a \in TextAnswers(o)
  PROVE  /\ a.o \in Outs /\ Wrong(a.o) /\ (o.had => a.o.had)
         /\ a.m = -1 => a.o.had \/ "mute" \in a.lapse
         /\ a.m # 0 /\ ~EncodingOnly /\ ~a.o.had => a.o.text # << >> \/ "mute" \in a.lapse
  <1>1. CASE a.m = 0 /\ a.o = o
    BY <1>1
  <1>2. CASE a.o = Errored(o)
    BY <1>2, ErroredWrong
  <1>3. CASE \E r \in TextRules(o) : a \in AfterTextRules(r)
    <2>1. PICK r \in TextRules(o) : a \in AfterTextRules(r)
      BY <1>3
    <2>2. /\ r.o \in Outs /\ Wrong(r.o) /\ (o.had => r.o.had) /\ r.rv \in {-1, 1}
          /\ ~r.o.had /\ r.rv # -1 => r.o.text # << >> \/ "mute" \in r.lapse
      BY TextRulesWrong
    <2>3. CASE /\ a.o = r.o /\ a.lapse = r.lapse
               /\ \/ a.m = (IF r.rv = -1 THEN 0 ELSE 1)
                  \/ a.m = 1 /\ (EncodingOnly \/ r.o.text # << >>)
      BY <2>2, <2>3
    <2>4. CASE a.o = r.o /\ a.lapse = r.lapse \cup {"mute"}
      BY <2>2, <2>4
    <2>5. CASE /\ a.lapse = r.lapse
               /\ \E p \in Printed(r.o, TextTokens(r)) :
                    a.o = p.o /\ a.m = (IF p.ok THEN 1 ELSE r.rv)
      <3>1. PICK p \in Printed(r.o, TextTokens(r)) :
              a.o = p.o /\ a.m = (IF p.ok THEN 1 ELSE r.rv)
        BY <2>5
      <3>2. p.o \in Outs /\ Wrong(p.o) /\ (r.o.had => p.o.had) /\ (~p.ok => p.o.had)
        BY <2>2, <3>1, TextTokensSome, Printing, PrintedWrong
      <3>3. ASSUME ~p.o.had PROVE p.o.text # << >>
        <4>1. p.o.text = r.o.text \o TextTokens(r) /\ r.o.text \in Texts
          BY <2>2, <3>1, <3>3, TextTokensSome, PrintedSays DEF Outs
        <4>2. "text" \in Found(p.o.text)
          BY <4>1, TextTokensSome, Concatenation
        <4> QED
          BY <4>2, Nothing
      <3> QED
        BY <2>2, <3>1, <3>2, <3>3
    <2> QED
      BY <2>1, <2>2, <2>3, <2>4, <2>5, AfterCases
  <1> QED
    BY <1>1, <1>2, <1>3 DEF TextAnswers, Answer, Lapsed

LEMMA AnswersWrong ==
  ASSUME NEW d \in Detectors, NEW o \in Outs, Wrong(o), NEW a \in Answers(d, o)
  PROVE  /\ a.o \in Outs /\ Wrong(a.o) /\ (o.had => a.o.had)
         /\ a.m = -1 => a.o.had \/ "mute" \in a.lapse
         /\ a.m # 0 /\ ~EncodingOnly /\ ~a.o.had => a.o.text # << >> \/ "mute" \in a.lapse
  <1>1. CASE d = "text"
    BY <1>1, TextWrong DEF Answers, Builtin
  <1>2. CASE d = "soft"
    BY <1>2, SoftWrong DEF Answers, Builtin
  <1>3. CASE d \in Builtin
    <2>1. a \in BuiltinAnswers(d, o)
      BY <1>3 DEF Answers, Builtin
    <2>2. a.o \in Outs /\ Wrong(a.o) /\ (o.had => a.o.had) /\ (a.m = -1 => a.o.had)
      BY <1>3, <2>1, BuiltinWrong
    <2>3. ASSUME a.m # 0, ~EncodingOnly, ~a.o.had PROVE a.o.text # << >>
      <3>1. a.o.text = Append(o.text, d)
        BY <1>3, <2>1, <2>3, BuiltinSays
      <3>2. o.text \in Texts /\ d \in Tokens
        BY DEF Outs, Tokens
      <3> QED
        BY <3>1, <3>2, AppendMore
    <2> QED
      BY <2>2, <2>3
  <1> QED
    BY <1>1, <1>2, <1>3 DEF Detectors

\* A separator behind a match spoils nothing.
LEMMA SeparatedWrong ==
  ASSUME NEW d, NEW a, a.o \in Outs, Wrong(a.o), NEW p \in Separated(d, a)
  PROVE  /\ Wrong(p.o) /\ (a.o.had => p.o.had) /\ (~p.ok => p.o.had)
         /\ ~p.o.had /\ a.o.text # << >> => p.o.text # << >>
  <1>1. CASE p \in Printed(a.o, <<"sep">>)
    <2>1. "sep" \in Tokens /\ <<"sep">> \in Texts
      BY Single DEF Tokens
    <2>2. Wrong(p.o) /\ (a.o.had => p.o.had) /\ (~p.ok => p.o.had)
      BY <1>1, <2>1, PrintedWrong
    <2>3. ASSUME ~p.o.had PROVE p.o.text # << >>
      <3>1. p.o.text = Append(a.o.text, "sep") /\ a.o.text \in Texts
        BY <1>1, <2>1, <2>3, PrintedToken DEF Outs
      <3> QED
        BY <2>1, <3>1, AppendMore
    <2> QED
      BY <2>2, <2>3
  <1>2. CASE p = [o |-> a.o, ok |-> TRUE]
    BY <1>2
  <1> QED
    BY <1>1, <1>2 DEF Separated

LEMMA NextStages ==
  ASSUME NEW d \in Detectors
  PROVE  /\ d \in BufferStage /\ d # "done" /\ After[d] \in BufferStage /\ After[d] # "done"
         /\ "done" \in BufferStage /\ "simple" \in BufferStage /\ "idle" \notin BufferStage
         /\ {"open", "restat"} \cap BufferStage = {}
  BY DEF BufferStage, After, Detectors, Builtin

LEMMA SkipFails ==
  ASSUME Inv, FailInv, NEW d \in Detectors, Skip(d)
  PROVE  FailInv' /\ Explained
  <1>1. /\ stage = d /\ stage' = After[d] /\ UNCHANGED <<flags, m, rv, out, lapse>>
    BY DEF Skip
  <1>2. stage' \in BufferStage /\ stage \in BufferStage /\ stage' \notin {"open", "restat"}
        /\ stage' # "done" /\ stage' # "idle"
    BY <1>1, NextStages
  <1> QED
    BY <1>1, <1>2, FailReduction, GoesOnExplained DEF FailInv

LEMMA TryFails ==
  ASSUME Inv, FailInv, NEW d \in Detectors, Try(d)
  PROVE  FailInv' /\ Explained
  <1>1. stage = d /\ flags' = flags /\ out \in Outs /\ Wrong(out) /\ (rv = -1 => out.had)
    BY DEF Try, FailInv, Inv, TypeOK, Outs
  <1>2. PICK a \in Answers(d, out) : \E p \in Separated(d, a) :
          /\ m' = a.m /\ out' = p.o /\ rv' = (IF p.ok THEN rv ELSE -1)
          /\ lapse' = lapse \cup a.lapse
          /\ stage' = (IF GoesOn(d, a) THEN After[d] ELSE "done")
    BY DEF Try
  <1>3. PICK p \in Separated(d, a) :
          /\ m' = a.m /\ out' = p.o /\ rv' = (IF p.ok THEN rv ELSE -1)
          /\ lapse' = lapse \cup a.lapse
          /\ stage' = (IF GoesOn(d, a) THEN After[d] ELSE "done")
    BY <1>2
  <1>4. /\ a.o \in Outs /\ Wrong(a.o) /\ (out.had => a.o.had)
        /\ a.m = -1 => a.o.had \/ "mute" \in a.lapse
        /\ a.m # 0 /\ ~EncodingOnly /\ ~a.o.had => a.o.text # << >> \/ "mute" \in a.lapse
    BY <1>1, AnswersWrong
  <1>5. /\ Wrong(p.o) /\ (a.o.had => p.o.had) /\ (~p.ok => p.o.had)
        /\ ~p.o.had /\ a.o.text # << >> => p.o.text # << >>
    BY <1>4, SeparatedWrong
  <1>6. /\ stage' \in BufferStage /\ stage' \notin {"open", "restat"} /\ stage' # "idle"
        /\ stage' = "done" => ~GoesOn(d, a)
    BY <1>3, NextStages
  <1>7. stage' = "done" => m' # 0
    BY <1>3, <1>6 DEF GoesOn
  <1>8. (m' = -1 => out'.had \/ "mute" \in lapse') /\ (rv' = -1 => out'.had)
    BY <1>1, <1>3, <1>4, <1>5
  <1>9. m' # 0 /\ ~EncodingOnly /\ ~out'.had => out'.text # << >> \/ "mute" \in lapse'
    BY <1>3, <1>4, <1>5
  <1> QED
    BY <1>1, <1>3, <1>5, <1>6, <1>7, <1>8, <1>9, FailReduction, GoesOnExplained

LEMMA DefaultFails ==
  ASSUME Inv, FailInv, Default
  PROVE  FailInv' /\ Explained
  <1>1. /\ stage = "simple" /\ stage' = "done" /\ flags' = flags /\ out \in Outs /\ Wrong(out)
        /\ out.text \in Texts /\ lapse' = lapse
    BY DEF Default, FailInv, Inv, TypeOK, Outs
  <1>2. "simple" \in BufferStage /\ "done" \in BufferStage
    BY DEF BufferStage
  <1>3. CASE m # 0 /\ UNCHANGED <<m, rv, out>>
    BY <1>1, <1>2, <1>3, FailReduction, GoesOnExplained DEF FailInv
  <1>4. CASE /\ m' = 1
             /\ \E p \in Printed(out, DefaultTokens) :
                  out' = p.o /\ rv' = IF ~p.ok THEN -1 ELSE IF Plain THEN 0 ELSE 1
    <2>1. PICK p \in Printed(out, DefaultTokens) :
            out' = p.o /\ rv' = IF ~p.ok THEN -1 ELSE IF Plain THEN 0 ELSE 1
      BY <1>4
    <2>2. "default" \in Tokens /\ DefaultTokens \in Texts
      BY Single, Nothing DEF Tokens, DefaultTokens
    <2>3. Wrong(p.o) /\ (out.had => p.o.had) /\ (~p.ok => p.o.had)
      BY <1>1, <2>2, PrintedWrong
    <2>4. ASSUME ~EncodingOnly, ~p.o.had PROVE p.o.text # << >>
      <3>1. p.o.text = Append(out.text, "default")
        BY <1>1, <2>1, <2>2, <2>4, PrintedToken DEF DefaultTokens
      <3> QED
        BY <1>1, <2>2, <3>1, AppendMore
    <2>5. m' # -1 /\ (rv' = -1 => out'.had)
      BY <1>4, <2>1, <2>3
    <2> QED
      BY <1>1, <1>2, <1>4, <2>1, <2>3, <2>4, <2>5, FailReduction, GoesOnExplained
  <1> QED
    BY <1>3, <1>4 DEF Default

\* Without the separator the text is still one, and the error is still its end.
LEMMA TrimWrong ==
  ASSUME NEW o \in Outs, Wrong(o)
  PROVE  /\ o.had => Trim(o.text) = o.text
         /\ o.text # << >> => Trim(o.text) # << >>
         /\ [o EXCEPT !.text = Trim(@)] \in Outs
         /\ [o EXCEPT !.text = Trim(@)].text = Trim(o.text)
         /\ [o EXCEPT !.text = Trim(@)].had = o.had
         /\ Wrong([o EXCEPT !.text = Trim(@)])
  <1> DEFINE s == o.text
             t == Trim(s)
             z == [o EXCEPT !.text = Trim(@)]
  <1>1. s \in Texts /\ Len(s) \in Nat
    BY DEF Outs, Texts
  <1>2. o.had => t = s
    BY DEF Wrong, Trim
  <1>3. s # << >> => t # << >>
    <2>1. CASE Len(s) > 1 /\ s[Len(s)] = "sep"
      <3>1. t = SubSeq(s, 1, Len(s) - 1)
        BY <2>1 DEF Trim
      <3>2. Len(SubSeq(s, 1, Len(s) - 1)) = Len(s) - 1
        BY <1>1, <2>1 DEF Texts
      <3>3. Len(t) # 0 /\ Len(<< >>) = 0
        BY <1>1, <2>1, <3>1, <3>2
      <3> HIDE DEF t
      <3> QED
        BY <3>3
    <2>2. CASE ~(Len(s) > 1 /\ s[Len(s)] = "sep")
      BY <2>2 DEF Trim
    <2> QED
      BY <2>1, <2>2
  <1>4. t \in Texts
    BY <1>1, Trimming
  <1>5. z.text = t /\ z.had = o.had /\ z \in Outs
    <2> HIDE DEF t
    <2>1. z = [o EXCEPT !.text = t]
      BY DEF t
    <2> QED
      BY <1>4, <2>1 DEF Outs
  <1>6. Wrong(z)
    <2> HIDE DEF t, z
    <2> QED
      BY <1>2, <1>5 DEF Wrong
  <1> QED
    BY <1>2, <1>3, <1>5, <1>6

LEMMA FinishFails ==
  ASSUME Inv, FailInv, Finish
  PROVE  FailInv' /\ Explained
  <1>1. /\ stage = "done" /\ flags' = flags /\ out \in Outs /\ Wrong(out) /\ m' = 0 /\ rv' = 0
        /\ m # 0 /\ (m = -1 => out.had \/ "mute" \in lapse) /\ (rv = -1 => out.had)
        /\ ~EncodingOnly /\ ~out.had => out.text # << >> \/ "mute" \in lapse
    BY DEF Finish, FailInv, Inv, TypeOK, Outs, BufferStage
  <1> DEFINE o == [out EXCEPT !.text = Trim(@)]
  <1>2. PICK p \in Printed(o, Encoding) :
          LET wrong == IF p.ok THEN rv ELSE -1
          IN Conclude(p.o, IF wrong # 0 THEN wrong ELSE m)
    BY DEF Finish
  <1> DEFINE wrong == IF p.ok THEN rv ELSE -1
             value == IF wrong # 0 THEN wrong ELSE m
  <1>3. Conclude(p.o, value)
    BY <1>2
  <1>4. o \in Outs /\ Wrong(o) /\ o.had = out.had /\ (out.text # << >> => o.text # << >>)
    BY <1>1, TrimWrong
  <1> HIDE DEF o
  <1>5. p.o \in Outs /\ Wrong(p.o) /\ (o.had => p.o.had) /\ (~p.ok => p.o.had)
    BY <1>2, <1>4, EncodingType, Printing, PrintedWrong
  <1>6. value = -1 => p.o.had \/ "mute" \in lapse
    <2>1. value \in {-1, rv, m} /\ (value = -1 => ~p.ok \/ rv = -1 \/ m = -1)
      OBVIOUS
    <2> QED
      BY <1>1, <1>4, <1>5, <2>1
  <1>7. ASSUME ~p.o.had, "mute" \notin lapse PROVE p.o.text # << >>
    <2>1. ~o.had /\ p.o.text = o.text \o Encoding
      BY <1>2, <1>4, <1>7, EncodingType, PrintedSays
    <2>2. o.text \in Texts /\ Encoding \in Texts
      BY <1>4, EncodingType DEF Outs
    <2>3. Found(p.o.text) = Found(o.text) \cup Found(Encoding)
      BY <2>1, <2>2, Concatenation
    <2>4. Found(o.text) # {} \/ Found(Encoding) # {}
      <3>1. CASE EncodingOnly
        <4>1. Encoding = <<"encoding">> /\ "encoding" \in Tokens
          BY <3>1 DEF Encoding, EncodingOnly, Tokens
        <4> QED
          BY <4>1, Single
      <3>2. CASE ~EncodingOnly
        <4>1. o.text # << >>
          BY <1>1, <1>4, <1>7, <2>1, <3>2
        <4>2. 1 \in 1..Len(o.text)
          BY <2>2, <4>1, Elements
        <4> QED
          BY <2>2, <4>2, Elements
      <3> QED
        BY <3>1, <3>2
    <2> QED
      BY <2>3, <2>4, Nothing
  <1> HIDE DEF value
  <1>8. "mute" \in lapse => Unexplained
    BY <1>1 DEF Unexplained
  <1> QED
    BY <1>1, <1>3, <1>5, <1>6, <1>7, <1>8, ConcludesFail

LEMMA StepFails == Inv /\ AnswerInv /\ FailInv /\ [FileNext]_vars => FailInv' /\ (FileNext => Explained)
  <1> SUFFICES ASSUME Inv, AnswerInv, FailInv, [FileNext]_vars
               PROVE  FailInv' /\ (FileNext => Explained)
    OBVIOUS
  <1>1. CASE UNCHANGED vars
    <2>1. UNCHANGED <<flags, stage, out, m, rv, lapse, disk, changes>>
      BY <1>1 DEF vars
    <2>2. FailInv'
      BY <2>1, FailReduction DEF FailInv
    <2> QED
      BY <2>1, <2>2, GoesOnExplained
  <1>2. CASE Next /\ UNCHANGED <<disk, fd, changes>>
    <2>1. CASE Buffer
      BY <1>2, <2>1, OthersFail
    <2>2. CASE \E d \in Detectors : Skip(d) \/ Try(d)
      BY <2>2, SkipFails, TryFails
    <2>3. CASE Default
      BY <2>3, DefaultFails
    <2>4. CASE Finish
      BY <2>4, FinishFails
    <2> QED
      BY <1>2, <2>1, <2>2, <2>3, <2>4 DEF Next, Proceed
  <1> QED
    BY <1>1, <1>2, OthersFail, StatFails, ReadLinkFails, RestatFails, ReadFails DEF FileNext

\* Every call that ends without an answer leaves a text that ends with the error, with the
\* exceptions that Unexplained names, whatever fails on the way and whoever replaces the
\* file meanwhile.
THEOREM FailuresHaveReasons == FileSpec => FailuresExplained
  <1>1. FileInit => FailInv
    <2> SUFFICES ASSUME FileInit PROVE FailInv
      OBVIOUS
    <2>1. stage = "idle" /\ m = 0 /\ rv = 0 /\ out = Fresh /\ out.had = FALSE
      BY DEF FileInit, Init, Fresh
    <2>2. "idle" \notin BufferStage
      BY EarlyStages
    <2> QED
      BY <2>1, <2>2 DEF FailInv, Wrong
  <1>2. Inv /\ AnswerInv /\ FailInv /\ [FileNext]_vars => FailInv'
    BY StepFails
  <1>3. Inv /\ AnswerInv /\ FailInv /\ [FileNext]_vars =>
          [stage # "idle" /\ stage' = "idle" /\ result' = << >> =>
             \/ Unexplained
             \/ /\ out'.had /\ out'.text # << >>
                /\ out'.text[Len(out'.text)] = "error"]_vars
    BY StepFails DEF Explained, Says
  <1> QED
    BY <1>1, <1>2, <1>3, Invariant, AlwaysAnswers, PTL DEF FileSpec, FailuresExplained
=============================================================================
