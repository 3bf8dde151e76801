---------------------------- MODULE MCRuleLoader ----------------------------
(* Small texts for RuleLoader. *)
EXTENDS RuleLoader

CONSTANTS h1, h2

Test(type, reln, desc) == [type |-> type, len |-> 4, reln |-> reln, desc |-> desc]
Number == Test("number", "equal", TRUE)
L(level, cond) == [kind |-> "rule", level |-> level, cond |-> cond, test |-> Number,
                   factor |-> NoFactor, valid |-> TRUE, warns |-> 0]
Top(test) == [L(0, "none") EXCEPT !.test = test]
Named == Top(Test("name", "equal", TRUE))
Broken(level) == [L(level, "none") EXCEPT !.valid = FALSE, !.warns = 1]
Other(kind) == [L(0, "none") EXCEPT !.kind = kind]
Factor(op, by) == [Other("strength") EXCEPT !.factor = [op |-> op, by |-> by]]
Start == L(0, "none")

One == {h1}
Two == {h1, h2}
FileOnly == {"file"}
BufferOnly == {"buffer"}
MayFail == BOOLEAN
NeverFails == {FALSE}
ThreeLevels == 0..3

\* Every text of up to five lines of three levels and all conditions after a
\* first rule of level 0: the pairing of conditions by levels.
CondLines == {L(l, c) : l \in 1..2, c \in Conds} \cup {L(3, "none"), Start}
CondTexts == {<<Start>> \o t : t \in [1..4 -> CondLines]}

\* Groups, named groups, annotations, broken lines and continuations of nothing.
MixedLines == {Start, Named, L(1, "none"), L(2, "if"), Broken(1), Other("bang"), Other("blank")}
MixedTexts == UNION {[1..n -> MixedLines] : n \in 1..4} \cup {<<Other("unknown"), Start>>}

\* Strong and weak groups, default rules, and annotations that make a group
\* stronger or weaker than its first rule.
OrderLines == {Start, Top(Test("number", "any", FALSE)), Top(Test("default", "any", TRUE)),
               Top(Test("search", "compare", TRUE)), Named,
               L(1, "none"), Factor("minus", 90), Factor("times", 2)}
OrderTexts == UNION {[1..n -> OrderLines] : n \in 1..4}

AllTexts == CondTexts \cup MixedTexts \cup OrderTexts

\* Deep and shallow texts for two handles; the tables start with one entry.
DeepTexts == {<<Start, L(1, "none"), L(2, "none")>>, <<Start, L(1, "none")>>, <<L(2, "none"), Start>>,
              <<Start, L(2, "none"), Start, L(1, "none")>>}
=============================================================================
