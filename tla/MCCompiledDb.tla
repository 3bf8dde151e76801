---------------------------- MODULE MCCompiledDb ----------------------------
EXTENDS CompiledDb

\* Two texts of the same length, a short one and one without rules.
MCCount == [t \in Texts |->
              CASE t = "a"     -> [s \in {1, 2} |-> s]
                [] t = "b"     -> [s \in {1, 2} |-> 3 - s]
                [] t = "short" -> [s \in {1, 2} |-> s - 1]
                [] t = "none"  -> [s \in {1, 2} |-> 0]]

\* Every header that one may find, before up to three rules.
Found == {<<Header(m, v, [s \in {1, 2} |-> n[s]])>> \o [i \in 1..k |-> Gap] \o p :
            m \in {"native", "swapped", "bad"}, v \in {"current", "other"},
            n \in (0..7) \X (0..7), k \in 0..3, p \in {<< >>, <<Piece>>}}
NoFile == {<< >>}
FoundOrNone == Found \cup NoFile
=============================================================================
