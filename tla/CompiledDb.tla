----------------------------- MODULE CompiledDb -----------------------------
(***************************************************************************)
(* The compiled database, a file that apprentice_compile writes in three    *)
(* writes (a header and two sets of rules) and apprentice_map reads in one, *)
(* after it has asked for the size (magic/apprentice.c).  Nothing locks the *)
(* file: processes that compile and load may meet, a compiler may die, and  *)
(* a write may come out short.  One read or write of the file is atomic.    *)
(***************************************************************************)
EXTENDS Integers, Sequences

CONSTANTS
  Compilers, Loaders,  \* the processes
  Texts,               \* the rules that are compiled
  Count,               \* how many rules each text has in each of the two sets
  Foreign,             \* what the file may be at first: sequences of cells
  Modulus,             \* 2^32, for the counts of the header
  ReadMax              \* the most that one read returns, in cells

(***************************************************************************)
(* A cell is what takes sizeof(struct magic): the header, a rule, zeros, or *)
(* a mixture; the file may end in a piece of one.                           *)
(***************************************************************************)
Header(magic, version, n) ==
  [kind |-> "header", magic |-> magic, version |-> version, n |-> n]
RuleCell(t, set, i) == [kind |-> "rule", text |-> t, set |-> set, i |-> i]
Torn == [kind |-> "torn"]
Piece == [kind |-> "piece"]
Gap == [kind |-> "gap"]

ASSUME CompiledAssumption ==
  /\ Count \in [Texts -> [{1, 2} -> Nat]]
  /\ Modulus \in Nat /\ ReadMax \in Nat /\ ReadMax + 1 < Modulus
  /\ \A t \in Texts : Count[t][1] + Count[t][2] < ReadMax
  /\ \A f \in Foreign : \A i \in DOMAIN f :
       f[i].kind = "header" => f[i].n \in [{1, 2} -> 0..(Modulus - 1)]

VARIABLES
  file,     \* the content of the file, a sequence of cells
  pc,       \* where a process is
  pos,      \* the offset of a compiler
  text,     \* what it compiles
  size,     \* what fstat told a loader
  map,      \* what the loader has read and accepted, or << >>
  written   \* the texts compiled without error since the file was last emptied

vars == <<file, pc, pos, text, size, map, written>>

Rules(t, set) == [i \in 1..Count[t][set] |-> RuleCell(t, set, i)]
Image(t) == <<Header("native", "current", Count[t])>> \o Rules(t, 1) \o Rules(t, 2)

Init ==
  /\ file \in Foreign
  /\ pc = [p \in Compilers \cup Loaders |-> "idle"]
  /\ pos = [c \in Compilers |-> 0] /\ text \in [Compilers -> Texts]
  /\ size = [l \in Loaders |-> 0] /\ map = [l \in Loaders |-> << >>]
  /\ written = {}

-----------------------------------------------------------------------------
\* apprentice_compile.

\* open with O_TRUNC.
OpenKept(c) ==
  /\ pc[c] = "idle"
  /\ pc' = [pc EXCEPT ![c] = "header"]
  /\ pos' = [pos EXCEPT ![c] = 0]
  /\ \E t \in Texts : text' = [text EXCEPT ![c] = t]
  /\ written' = {}
  /\ UNCHANGED <<file, size, map>>
Open(c) ==
  /\ pc[c] = "idle"
  /\ file' = << >>
  /\ pc' = [pc EXCEPT ![c] = "header"]
  /\ pos' = [pos EXCEPT ![c] = 0]
  /\ \E t \in Texts : text' = [text EXCEPT ![c] = t]
  /\ written' = {}
  /\ UNCHANGED <<size, map>>

Chunk(c) == CASE pc[c] = "header" -> <<Head(Image(text[c]))>>
              [] pc[c] = "set 1"  -> Rules(text[c], 1)
              [] pc[c] = "set 2"  -> Rules(text[c], 2)
AfterOneMore(state) == CASE state = "header" -> "set 1"
                         [] state = "set 1"  -> "set 2"
                         [] state = "set 2"  -> "set 3"
After(state) == CASE state = "header" -> "set 1"
                  [] state = "set 1"  -> "set 2"
                  [] state = "set 2"  -> "idle"

\* Write cells at an offset: a gap before it is filled with zeros, also in the cell
\* of which the file had a piece.
Overlaid(f, at, cells) ==
  LET end == at + Len(cells)
      length == IF Len(f) > end THEN Len(f) ELSE end
      kept(i) == IF f[i] = Piece /\ i < length THEN Torn ELSE f[i]
  IN IF cells = << >> THEN f
     ELSE [i \in 1..length |->
             IF at < i /\ i <= end THEN cells[i - at]
             ELSE IF i \in DOMAIN f THEN kept(i) ELSE Gap]

\* The first bytes of a cell, over what the file f has at i.
Partial(f, i) == IF i \in DOMAIN f /\ f[i] # Piece THEN Torn ELSE Piece

Compiling(c) == pc[c] \in {"header", "set 1", "set 2"}

Write(c) ==
  /\ Compiling(c)
  /\ file' = Overlaid(file, pos[c], Chunk(c))
  /\ pos' = [pos EXCEPT ![c] = @ + Len(Chunk(c))]
  /\ pc' = [pc EXCEPT ![c] = After(@)]
  /\ written' = IF pc[c] = "set 2" THEN written \cup {text[c]} ELSE written
  /\ UNCHANGED <<text, size, map>>

\* The disk is full, or the process dies before, in or after the write.
WriteShort(c) ==
  /\ Compiling(c)
  /\ \E n \in 0..Len(Chunk(c)) :
       LET some == SubSeq(Chunk(c), 1, n)
       IN \/ file' = Overlaid(file, pos[c], some)
          \/ /\ n < Len(Chunk(c))
             /\ file' = Overlaid(file, pos[c], Append(some, Partial(file, pos[c] + n + 1)))
  /\ pc' = [pc EXCEPT ![c] = "idle"]
  /\ UNCHANGED <<pos, text, size, map, written>>

-----------------------------------------------------------------------------
\* apprentice_map and check_buffer.

Stat(l) ==
  /\ pc[l] = "idle"
  /\ size' = [size EXCEPT ![l] = Len(file)]
  /\ map' = [map EXCEPT ![l] = << >>]
  /\ pc' = [pc EXCEPT ![l] = "read"]
  /\ UNCHANGED <<file, pos, text, written>>

\* The header counts rules in 32 bits.
ConsistentLoose(cells) ==
  Len(cells) = (((cells[1].n[1] + cells[1].n[2]) % Modulus) + 1) % Modulus
ConsistentBounds(cells) ==
  \A set \in {1, 2} : cells[1].n[set] <= Len(cells)
Consistent(cells) ==
  /\ \A set \in {1, 2} : cells[1].n[set] <= Len(cells)
  /\ Len(cells) = (((cells[1].n[1] + cells[1].n[2]) % Modulus) + 1) % Modulus

Accepted(cells) ==
  /\ Len(cells) >= 2
  /\ cells[Len(cells)] # Piece
  /\ cells[1].kind = "header"
  /\ cells[1].magic \in {"native", "swapped"} /\ cells[1].version = "current"
  /\ Consistent(cells)

\* The read must give as much as fstat promised.
Read(l) ==
  /\ pc[l] = "read"
  /\ LET n == IF size[l] > Len(file) THEN Len(file) ELSE size[l]
         cells == SubSeq(file, 1, IF n > ReadMax THEN ReadMax ELSE n)
     IN map' = [map EXCEPT ![l] =
                  IF Len(cells) = size[l] /\ Accepted(cells) THEN cells ELSE << >>]
  /\ pc' = [pc EXCEPT ![l] = "idle"]
  /\ UNCHANGED <<file, pos, text, size, written>>

-----------------------------------------------------------------------------
Proceed == \/ \E c \in Compilers : Write(c) \/ WriteShort(c)
           \/ \E l \in Loaders : Stat(l) \/ Read(l)

Next == Proceed \/ \E c \in Compilers : Open(c)
Spec == Init /\ [][Next]_vars

\* One compiler at a time.
SerialNext == Proceed \/ \E c \in Compilers : (\A d \in Compilers : pc[d] = "idle") /\ Open(c)
SerialSpec == Init /\ [][SerialNext]_vars

-----------------------------------------------------------------------------
\* Properties.

Counts == [{1, 2} -> 0..(Modulus - 1)]
Cells == {Header(m, v, n) : m \in {"native", "swapped", "bad"}, v \in {"current", "other"},
                            n \in Counts}
         \cup {RuleCell(t, set, i) : t \in Texts, set \in {1, 2}, i \in 1..ReadMax}
         \cup {Torn, Piece, Gap}

\* What is found are cells, and a process does one thing.
ASSUME FilesAssumption == Foreign \subseteq Seq(Cells) /\ Compilers \cap Loaders = {}

\* The types of the state: a loader is done with a file or has its size.
TypeOK ==
  /\ pc \in [Compilers \cup Loaders -> {"idle", "header", "set 1", "set 2", "read"}]
  /\ \A l \in Loaders : pc[l] \in {"idle", "read"} /\ (pc[l] = "read" => map[l] = << >>)
  /\ pos \in [Compilers -> 0..(ReadMax + 1)] /\ text \in [Compilers -> Texts]
  /\ size \in [Loaders -> Nat]
  /\ file \in Seq(Cells) /\ map \in [Loaders -> Seq(Cells)]
  /\ written \subseteq Texts

\* Whatever the file is and whoever writes it meanwhile, a database that is accepted
\* has both its sets inside of what was read, although the counts that say so are
\* added in 32 bits.
SetsInside ==
  \A l \in Loaders : map[l] # << >> =>
    map[l][1].n[1] + map[l][1].n[2] + 1 = Len(map[l])

\* As long as compilers take turns, a loader never accepts half of a compilation: what
\* it has is all that one compiler wrote, or the file that was there at first,
\* although it takes the size and the content at different times and compilers
\* die.
AcceptedComplete ==
  \A l \in Loaders : map[l] # << >> =>
    map[l] \in Foreign \cup {Image(t) : t \in Texts}

\* A compilation that reports success leaves a file that a load accepts, whatever
\* an earlier one that died had left, unless the text has no rules.
CompiledIsLoadable ==
  \A t \in written : Count[t][1] + Count[t][2] > 0 => file = Image(t) /\ Accepted(file)
=============================================================================
