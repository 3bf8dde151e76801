------------------------------ MODULE RuleOrder ------------------------------
(***************************************************************************)
(* The order in which a set of groups is examined: the strength of a group  *)
(* is that of its first rule, the strongest group comes first, and a set is *)
(* stored as one array of rules, in which a group begins at each rule of    *)
(* level 0 (magic/apprentice.c).                                            *)
(***************************************************************************)
EXTENDS Integers, Sequences, FiniteSets, Functions

\* What the strength depends on: the class of the type, the bytes of the value (of
\* a number its width, of a regular expression the characters that are not
\* magic), the relation, whether there is a description; and the annotation
\* "!:strength" of the group.
Tests == [type : {"default", "number", "string", "string16", "search", "regex", "der",
                  "name", "other"},
          len : Nat, reln : {"any", "equal", "compare", "mask"}, desc : BOOLEAN]
Factors == [op : {"none", "plus", "minus", "times", "div"}, by : 0..255]
NoFactor == [op |-> "none", by |-> 0]

MULT == 10
AtLeast(n, m) == IF n < m THEN m ELSE n

TypeStrength(t) ==
  CASE t.type \in {"number", "string"} -> t.len * MULT
    [] t.type = "string16" -> (t.len * MULT) \div 2
    [] t.type = "search" /\ t.len = 0 -> 0
    [] t.type = "search" /\ t.len > 0 -> t.len * AtLeast(MULT \div t.len, 1)
    [] t.type = "regex" -> AtLeast(t.len, 1) * AtLeast(MULT \div AtLeast(t.len, 1), 1)
    [] t.type = "der" -> MULT
    [] OTHER -> 0

\* apprentice_magic_strength_1
TestStrength(t) ==
  LET val == 2 * MULT + TypeStrength(t)
  IN CASE t.type = "default" \/ t.reln = "any" -> 0
       [] OTHER -> CASE t.reln = "equal" -> val + MULT
                     [] t.reln = "compare" -> val - 2 * MULT
                     [] t.reln = "mask" -> val - MULT

Scaled(val, factor) ==
  CASE factor.op = "none" -> val
    [] factor.op = "plus" -> val + factor.by
    [] factor.op = "minus" -> val - factor.by
    [] factor.op = "times" -> val * factor.by
    [] factor.op = "div" -> val \div factor.by

\* file_magic_strength: at least 1, the default rule included.
Strength(rule) == AtLeast(Scaled(TestStrength(rule.test), rule.factor), 1)
                    + (IF rule.test.desc THEN 0 ELSE 1)

\* qsort with apprentice_sort.  Groups of the same strength are ordered by the
\* bytes of their first rules, which is left open here, and those whose first
\* rules are the same in any order.
Comes(group, other) == Strength(group[1]) >= Strength(other[1])
Sorted(groups) ==
  {[i \in DOMAIN groups |-> groups[p[i]]] :
     p \in {q \in Bijection(DOMAIN groups, DOMAIN groups) :
              \A i, j \in DOMAIN groups : i < j => Comes(groups[q[i]], groups[q[j]])}}

LateOfThree(groups) ==
  IF \E i \in DOMAIN groups : groups[i][1].test.type = "default" /\ i + 1 < Len(groups)
    THEN 1 ELSE 0

\* set_last_default: a warning when a default rule is not the last group.
Late(groups) ==
  IF \E i \in DOMAIN groups : groups[i][1].test.type = "default" /\ i < Len(groups)
    THEN 1 ELSE 0

\* coalesce_entries: the rules of one group after those of the other.
Coalesced(groups) ==
  LET array[n \in 0..Len(groups)] ==
        IF n = 0 THEN << >> ELSE array[n - 1] \o groups[n]
  IN array[Len(groups)]
=============================================================================
