-------------------------- MODULE CompiledDb_proofs --------------------------
(***************************************************************************)
(* For texts of any size, any processes and any file to start from: the     *)
(* state is well typed, an accepted database lies inside of what was read,  *)
(* and, if compilers take turns, it is a whole compilation.                 *)
(***************************************************************************)
EXTENDS CompiledDb, TLAPS

LEMMA CountType ==
  ASSUME NEW t \in Texts
  PROVE  /\ Count[t][1] \in Nat /\ Count[t][2] \in Nat
         /\ Count[t][1] + Count[t][2] + 1 <= ReadMax
         /\ Count[t] \in Counts /\ Count[t] \in [{1, 2} -> Nat]
         /\ ReadMax \in Nat /\ Modulus \in Nat /\ ReadMax + 1 < Modulus
  <1>1. Count[t] \in [{1, 2} -> Nat] /\ Count[t][1] + Count[t][2] < ReadMax
    BY CompiledAssumption
  <1>2. ReadMax \in Nat /\ Modulus \in Nat /\ ReadMax + 1 < Modulus
    BY CompiledAssumption
  <1>3. Count[t][1] \in 0..(Modulus - 1) /\ Count[t][2] \in 0..(Modulus - 1)
    BY <1>1, <1>2
  <1> QED
    BY <1>1, <1>2, <1>3 DEF Counts

LEMMA CellTypes ==
  /\ \A t \in Texts : Header("native", "current", Count[t]) \in Cells
  /\ \A t \in Texts, set \in {1, 2}, i \in 1..ReadMax : RuleCell(t, set, i) \in Cells
  /\ Torn \in Cells /\ Piece \in Cells /\ Gap \in Cells
  BY CountType DEF Cells

LEMMA RulesType ==
  ASSUME NEW t \in Texts, NEW set \in {1, 2}
  PROVE  Rules(t, set) \in Seq(Cells) /\ Len(Rules(t, set)) = Count[t][set]
  <1>1. Count[t][set] \in Nat /\ Count[t][set] <= ReadMax
    BY CountType
  <1>2. \A i \in 1..Count[t][set] : RuleCell(t, set, i) \in Cells
    BY <1>1, CountType, CellTypes
  <1> QED
    BY <1>1, <1>2 DEF Rules

LEMMA SameSequence ==
  ASSUME NEW S, NEW s \in Seq(S), NEW r \in Seq(S), Len(s) = Len(r),
         \A i \in 1..Len(s) : s[i] = r[i]
  PROVE  s = r
  OBVIOUS

\* What a compilation writes, cell by cell.
LEMMA ImageType ==
  ASSUME NEW t \in Texts
  PROVE  /\ Image(t) \in Seq(Cells) /\ Len(Image(t)) = Count[t][1] + Count[t][2] + 1
         /\ Head(Image(t)) = Image(t)[1] /\ Image(t)[1] = Header("native", "current", Count[t])
         /\ \A i \in 1..Count[t][1] : Image(t)[i + 1] = Rules(t, 1)[i]
         /\ \A i \in 1..Count[t][2] : Image(t)[i + Count[t][1] + 1] = Rules(t, 2)[i]
  <1>1. PICK h \in Seq(Cells) : Len(h) = 1 /\ h = <<Header("native", "current", Count[t])>>
    <2>1. PICK cell \in Cells : cell = Header("native", "current", Count[t])
      BY CellTypes
    <2>2. <<cell>> \in Seq(Cells) /\ Len(<<cell>>) = 1
      OBVIOUS
    <2> QED
      BY <2>1, <2>2
  <1>2. PICK r1 \in Seq(Cells) : r1 = Rules(t, 1) /\ Len(r1) = Count[t][1]
    BY RulesType
  <1>3. PICK r2 \in Seq(Cells) : r2 = Rules(t, 2) /\ Len(r2) = Count[t][2]
    BY RulesType
  <1>4. PICK front \in Seq(Cells) : front = h \o r1
    <2>1. h \o r1 \in Seq(Cells)
      OBVIOUS
    <2> QED
      BY <2>1
  <1>5. PICK image \in Seq(Cells) : image = front \o r2
    <2>1. front \o r2 \in Seq(Cells)
      OBVIOUS
    <2> QED
      BY <2>1
  <1>6. Image(t) = image
    BY <1>1, <1>2, <1>3, <1>4, <1>5 DEF Image
  <1>7. Count[t][1] \in Nat /\ Count[t][2] \in Nat
    BY CountType
  <1>8. /\ Len(front) = Count[t][1] + 1 /\ front[1] = Header("native", "current", Count[t])
        /\ \A i \in 1..Count[t][1] : front[i + 1] = r1[i]
    BY <1>1, <1>2, <1>4, <1>7
  <1>9. /\ Len(image) = Count[t][1] + 1 + Count[t][2]
        /\ \A i \in 1..(Count[t][1] + 1) : image[i] = front[i]
        /\ \A i \in 1..Count[t][2] : image[Count[t][1] + 1 + i] = r2[i]
    <2>1. Len(image) = Len(front) + Len(r2) /\ Len(front) \in Nat
      BY <1>5
    <2>2. \A i \in 1..Len(front) : image[i] = front[i]
      BY <1>5
    <2>3. \A i \in 1..Len(r2) : image[Len(front) + i] = r2[i]
      BY <1>5
    <2> QED
      BY <1>3, <1>7, <1>8, <2>1, <2>2, <2>3
  <1>10. /\ image[1] = Header("native", "current", Count[t]) /\ Head(image) = image[1]
         /\ Len(image) = Count[t][1] + Count[t][2] + 1
    <2>1. 1 \in 1..(Count[t][1] + 1) /\ Len(image) # 0
      BY <1>7, <1>9
    <2> QED
      BY <1>7, <1>8, <1>9, <2>1
  <1>11. \A i \in 1..Count[t][1] : image[i + 1] = r1[i]
    BY <1>7, <1>8, <1>9
  <1>12. \A i \in 1..Count[t][2] : image[i + Count[t][1] + 1] = r2[i]
    BY <1>7, <1>9
  <1> QED
    BY <1>2, <1>3, <1>6, <1>10, <1>11, <1>12

LEMMA CellKinds ==
  /\ \A m, v, n : Header(m, v, n).kind = "header" /\ Header(m, v, n).n = n
  /\ \A t, set, i : RuleCell(t, set, i).kind = "rule"
  /\ Torn.kind = "torn" /\ Piece.kind = "piece" /\ Gap.kind = "gap"
  BY DEF Header, RuleCell, Torn, Piece, Gap

LEMMA HeaderCounts ==
  ASSUME NEW cell \in Cells, cell.kind = "header"
  PROVE  cell.n[1] \in 0..(Modulus - 1) /\ cell.n[2] \in 0..(Modulus - 1)
  <1>1. PICK m \in {"native", "swapped", "bad"}, v \in {"current", "other"}, n \in Counts :
          cell = Header(m, v, n)
    BY CellKinds DEF Cells
  <1> QED
    BY <1>1, CellKinds DEF Counts

\* The arithmetic of check_buffer: no count that is believed goes beyond the file.
LEMMA ConsistentCounts ==
  ASSUME NEW cells \in Seq(Cells), Len(cells) <= ReadMax, Accepted(cells)
  PROVE  cells[1].n[1] + cells[1].n[2] + 1 = Len(cells)
  <1> DEFINE a == cells[1].n[1]
             b == cells[1].n[2]
             len == Len(cells)
  <1>1. cells[1] \in Cells /\ len \in Nat /\ len >= 2
    BY DEF Accepted
  <1>2. a \in 0..(Modulus - 1) /\ b \in 0..(Modulus - 1)
    BY <1>1, HeaderCounts DEF Accepted
  <1>3. a <= len /\ b <= len /\ len = (((a + b) % Modulus) + 1) % Modulus
    BY DEF Accepted, Consistent
  <1>4. ReadMax \in Nat /\ Modulus \in Nat /\ ReadMax + 1 < Modulus
    BY CompiledAssumption
  <1> HIDE DEF a, b, len
  <1>5. CASE a + b < Modulus
    <2>1. (a + b) % Modulus = a + b
      BY <1>2, <1>4, <1>5
    <2>2. CASE a + b + 1 < Modulus
      <3>1. (a + b + 1) % Modulus = a + b + 1
        BY <1>2, <1>4, <2>2
      <3> QED
        BY <1>3, <2>1, <3>1 DEF a, b, len
    <2>3. CASE a + b + 1 = Modulus
      <3>1. (a + b + 1) % Modulus = 0
        BY <1>2, <1>4, <2>3
      <3> QED
        BY <1>1, <1>3, <2>1, <3>1
    <2> QED
      BY <1>2, <1>4, <1>5, <2>2, <2>3
  <1>6. CASE a + b >= Modulus
    <2>1. (a + b) % Modulus = a + b - Modulus
      BY <1>2, <1>4, <1>6
    <2>2. a + b - Modulus + 1 \in 0..(Modulus - 1)
      BY <1>2, <1>4, <1>6
    <2>3. (a + b - Modulus + 1) % Modulus = a + b - Modulus + 1
      BY <1>4, <2>2
    <2>4. len = a + b - Modulus + 1
      BY <1>3, <2>1, <2>3
    <2> QED
      BY <1>1, <1>2, <1>3, <1>4, <2>4, Len(cells) <= ReadMax DEF len
  <1> QED
    BY <1>2, <1>4, <1>5, <1>6

-----------------------------------------------------------------------------
\* The type invariant.

Offset(state, t) ==
  CASE state = "header" -> 0
    [] state = "set 1"  -> 1
    [] state = "set 2"  -> Count[t][1] + 1

\* What a compiler writes next is the part of the image from its offset.
LEMMA ChunkType ==
  ASSUME TypeOK, NEW c \in Compilers, Compiling(c)
  PROVE  /\ Chunk(c) \in Seq(Cells)
         /\ Offset(pc[c], text[c]) \in Nat
         /\ Offset(pc[c], text[c]) + Len(Chunk(c)) =
              IF pc[c] = "set 2" THEN Len(Image(text[c])) ELSE Offset(After(pc[c]), text[c])
         /\ \A i \in 1..Len(Chunk(c)) :
              Chunk(c)[i] = Image(text[c])[Offset(pc[c], text[c]) + i]
  <1>1. PICK t \in Texts : t = text[c]
    BY DEF TypeOK
  <1>2. PICK n1 \in Nat, n2 \in Nat : n1 = Count[t][1] /\ n2 = Count[t][2]
    BY CountType
  <1> DEFINE Fits(s, from, cells) ==
        /\ cells \in Seq(Cells) /\ from \in Nat
        /\ from + Len(cells) = IF s = "set 2" THEN Len(Image(t)) ELSE Offset(After(s), t)
        /\ \A i \in 1..Len(cells) : cells[i] = Image(t)[from + i]
  <1>3. CASE pc[c] = "header"
    <2>1. PICK cell \in Cells : cell = Head(Image(t)) /\ cell = Image(t)[1]
      BY ImageType, CellTypes
    <2>2. Chunk(c) = <<cell>> /\ Offset("header", t) = 0 /\ Offset(After("header"), t) = 1
      BY <1>1, <1>3, <2>1 DEF Chunk, Offset, After
    <2>3. <<cell>> \in Seq(Cells) /\ Len(<<cell>>) = 1 /\ <<cell>>[1] = cell
      OBVIOUS
    <2>4. Fits("header", 0, <<cell>>)
      BY <2>1, <2>2, <2>3
    <2> QED
      BY <1>1, <1>3, <2>2, <2>4
  <1>4. CASE pc[c] = "set 1"
    <2>1. PICK cells \in Seq(Cells) : cells = Rules(t, 1) /\ Len(cells) = n1
      BY <1>2, RulesType
    <2>2. Chunk(c) = cells /\ Offset("set 1", t) = 1 /\ Offset(After("set 1"), t) = n1 + 1
      BY <1>1, <1>2, <1>4, <2>1 DEF Chunk, Offset, After
    <2>3. \A i \in 1..n1 : cells[i] = Image(t)[1 + i]
      <3>1. \A i \in 1..n1 : Image(t)[i + 1] = cells[i]
        BY <1>2, <2>1, ImageType
      <3>2. \A i \in 1..n1 : i + 1 = 1 + i
        OBVIOUS
      <3> QED
        BY <3>1, <3>2
    <2>4. Fits("set 1", 1, cells)
      <3>1. 1 + Len(cells) = Offset(After("set 1"), t)
        <4>1. Len(cells) = n1 /\ Offset(After("set 1"), t) = n1 + 1
          BY <2>1, <2>2
        <4>2. 1 + n1 = n1 + 1
          OBVIOUS
        <4> QED
          BY <4>1, <4>2
      <3>2. \A i \in 1..Len(cells) : cells[i] = Image(t)[1 + i]
        BY <2>1, <2>3
      <3> QED
        BY <3>1, <3>2
    <2> QED
      BY <1>1, <1>4, <2>2, <2>4
  <1>5. CASE pc[c] = "set 2"
    <2>1. PICK cells \in Seq(Cells) : cells = Rules(t, 2) /\ Len(cells) = n2
      BY <1>2, RulesType
    <2>2. Chunk(c) = cells /\ Offset("set 2", t) = n1 + 1
      BY <1>1, <1>2, <1>5, <2>1 DEF Chunk, Offset
    <2>3. Len(Image(t)) = n1 + n2 + 1 /\ \A i \in 1..n2 : cells[i] = Image(t)[n1 + 1 + i]
      <3>1. \A i \in 1..n2 : Image(t)[i + n1 + 1] = cells[i]
        BY <1>2, <2>1, ImageType
      <3>2. \A i \in 1..n2 : i + n1 + 1 = n1 + 1 + i
        OBVIOUS
      <3> QED
        BY <1>2, <3>1, <3>2, ImageType
    <2>4. Fits("set 2", n1 + 1, cells)
      <3>1. n1 + 1 + Len(cells) = Len(Image(t)) /\ n1 + 1 \in Nat
        BY <2>1, <2>3
      <3>2. \A i \in 1..Len(cells) : cells[i] = Image(t)[n1 + 1 + i]
        BY <2>1, <2>3
      <3> QED
        BY <3>1, <3>2
    <2> QED
      BY <1>1, <1>5, <2>2, <2>4
  <1> QED
    BY <1>3, <1>4, <1>5 DEF Compiling

LEMMA OverlaidType ==
  ASSUME NEW f \in Seq(Cells), NEW at \in Nat, NEW cells \in Seq(Cells)
  PROVE  Overlaid(f, at, cells) \in Seq(Cells)
  <1> DEFINE end == at + Len(cells)
             length == IF Len(f) > end THEN Len(f) ELSE end
             kept(i) == IF f[i] = Piece /\ i < length THEN Torn ELSE f[i]
             cell(i) == IF at < i /\ i <= end THEN cells[i - at]
                        ELSE IF i \in DOMAIN f THEN kept(i) ELSE Gap
  <1>1. length \in Nat
    OBVIOUS
  <1>2. \A i \in 1..length : cell(i) \in Cells
    <2> TAKE i \in 1..length
    <2>1. at < i /\ i <= end => cells[i - at] \in Cells
      OBVIOUS
    <2>2. i \in DOMAIN f => kept(i) \in Cells
      BY CellTypes
    <2> HIDE DEF kept, end, length
    <2> QED
      BY <2>1, <2>2, CellTypes
  <1>3. Overlaid(f, at, cells) = IF cells = << >> THEN f ELSE [i \in 1..length |-> cell(i)]
    BY DEF Overlaid
  <1> HIDE DEF cell, length
  <1> QED
    BY <1>1, <1>2, <1>3

Inv ==
  /\ TypeOK
  /\ \A c \in Compilers : Compiling(c) => pos[c] = Offset(pc[c], text[c])
  /\ \A l \in Loaders : map[l] # << >> => Len(map[l]) <= ReadMax /\ Accepted(map[l])

LEMMA InitInv == ASSUME Init PROVE Inv
  <1>1. file \in Seq(Cells)
    BY FilesAssumption DEF Init
  <1>2. 0 \in 0..(ReadMax + 1)
    BY CompiledAssumption
  <1>3. pc \in [Compilers \cup Loaders -> {"idle", "header", "set 1", "set 2", "read"}]
        /\ \A p \in Compilers \cup Loaders : pc[p] = "idle"
    BY DEF Init
  <1> QED
    BY <1>1, <1>2, <1>3 DEF Init, Inv, TypeOK, Compiling

LEMMA OpenInv ==
  ASSUME Inv, NEW c \in Compilers, Open(c)
  PROVE  Inv'
  <1>1. 0 \in 0..(ReadMax + 1)
    BY CompiledAssumption
  <1>2. TypeOK'
    <2>1. \A l \in Loaders : pc'[l] = pc[l]
      BY FilesAssumption DEF Inv, TypeOK, Open
    <2>2. file' \in Seq(Cells)
      BY DEF Open
    <2>3. pc' \in [Compilers \cup Loaders -> {"idle", "header", "set 1", "set 2", "read"}]
      BY DEF Inv, TypeOK, Open
    <2>4. pos' \in [Compilers -> 0..(ReadMax + 1)] /\ text' \in [Compilers -> Texts]
      BY <1>1 DEF Inv, TypeOK, Open
    <2> QED
      BY <2>1, <2>2, <2>3, <2>4 DEF Inv, TypeOK, Open
  <1>3. \A d \in Compilers : Compiling(d)' => pos'[d] = Offset(pc'[d], text'[d])
    BY DEF Inv, TypeOK, Open, Compiling, Offset
  <1>4. UNCHANGED map
    BY DEF Open
  <1> QED
    BY <1>2, <1>3, <1>4 DEF Inv, Accepted, Consistent

LEMMA WriteInv ==
  ASSUME Inv, NEW c \in Compilers, Write(c)
  PROVE  Inv'
  <1>1. /\ TypeOK /\ Compiling(c) /\ text[c] \in Texts
        /\ pos[c] = Offset(pc[c], text[c])
    BY DEF Inv, TypeOK, Write
  <1>2. /\ Chunk(c) \in Seq(Cells) /\ pos[c] \in Nat
        /\ pos[c] + Len(Chunk(c)) =
             IF pc[c] = "set 2" THEN Len(Image(text[c])) ELSE Offset(After(pc[c]), text[c])
    BY <1>1, ChunkType
  <1>3. file' \in Seq(Cells)
    BY <1>1, <1>2, OverlaidType DEF Write, TypeOK
  <1>4. pc'[c] = After(pc[c]) /\ After(pc[c]) \in {"idle", "set 1", "set 2"}
    BY <1>1 DEF Write, TypeOK, Compiling, After
  <1>5. pos'[c] = pos[c] + Len(Chunk(c)) /\ pos'[c] \in 0..(ReadMax + 1)
    <2>1. PICK p \in Int : p = pos[c] + Len(Chunk(c)) /\ p = pos'[c]
      <3>1. PICK chunk \in Seq(Cells) : chunk = Chunk(c)
        BY <1>2
      <3>2. PICK k \in Nat : k = pos[c]
        BY <1>2
      <3>3. pos'[c] = pos[c] + Len(Chunk(c))
        BY <1>1 DEF Write, TypeOK
      <3>4. pos'[c] = k + Len(chunk) /\ k + Len(chunk) \in Int
        BY <3>1, <3>2, <3>3
      <3> QED
        BY <3>3, <3>4
    <2>2. Len(Image(text[c])) \in 0..(ReadMax + 1) /\ Count[text[c]][1] + 1 \in 0..(ReadMax + 1)
      BY <1>1, ImageType, CountType
    <2>3. 1 \in 0..(ReadMax + 1)
      BY <1>1, CountType
    <2>4. pc[c] \in {"header", "set 1", "set 2"}
      BY <1>1 DEF Compiling
    <2>5. p = CASE pc[c] = "header" -> 1
                [] pc[c] = "set 1" -> Count[text[c]][1] + 1
                [] pc[c] = "set 2" -> Len(Image(text[c]))
      BY <1>2, <2>1, <2>4 DEF After, Offset
    <2> QED
      BY <2>1, <2>2, <2>3, <2>4, <2>5
  <1>6. TypeOK'
    <2>1. pc' \in [Compilers \cup Loaders -> {"idle", "header", "set 1", "set 2", "read"}]
      BY <1>1, <1>4 DEF Write, TypeOK
    <2>2. \A l \in Loaders : pc'[l] = pc[l]
      BY <1>1, FilesAssumption DEF Write, TypeOK
    <2>3. pos' \in [Compilers -> 0..(ReadMax + 1)]
      BY <1>1, <1>5 DEF Write, TypeOK
    <2>4. written' \subseteq Texts
      BY <1>1 DEF Write, TypeOK
    <2> QED
      BY <1>1, <1>3, <2>1, <2>2, <2>3, <2>4 DEF Write, TypeOK
  <1>7. \A d \in Compilers : Compiling(d)' => pos'[d] = Offset(pc'[d], text'[d])
    <2> TAKE d \in Compilers
    <2>1. CASE d = c
      <3>1. pc'[c] # "idle" => pc[c] # "set 2"
        BY <1>4 DEF After
      <3>2. text' = text
        BY DEF Write
      <3> QED
        BY <1>2, <1>4, <1>5, <2>1, <3>1, <3>2 DEF Compiling
    <2>2. CASE d # c
      BY <1>1, <2>2 DEF Write, Inv, TypeOK, Compiling
    <2> QED
      BY <2>1, <2>2
  <1>8. UNCHANGED map
    BY DEF Write
  <1> QED
    BY <1>6, <1>7, <1>8 DEF Inv, Accepted, Consistent

LEMMA WriteShortFile ==
  ASSUME Inv, NEW c \in Compilers, WriteShort(c)
  PROVE  \E cells \in Seq(Cells) : file' = Overlaid(file, pos[c], cells)
  <1>1. TypeOK /\ Chunk(c) \in Seq(Cells)
    BY ChunkType DEF Inv, WriteShort
  <1>2. PICK n \in 0..Len(Chunk(c)) :
          \/ file' = Overlaid(file, pos[c], SubSeq(Chunk(c), 1, n))
          \/ file' = Overlaid(file, pos[c], Append(SubSeq(Chunk(c), 1, n),
                                                  Partial(file, pos[c] + n + 1)))
    BY DEF WriteShort
  <1>3. SubSeq(Chunk(c), 1, n) \in Seq(Cells)
    BY <1>1
  <1>4. PICK p \in Cells : p = Partial(file, pos[c] + n + 1)
    BY CellTypes DEF Partial
  <1>5. Append(SubSeq(Chunk(c), 1, n), p) \in Seq(Cells)
    BY <1>3
  <1> QED
    BY <1>2, <1>3, <1>4, <1>5

LEMMA WriteShortInv ==
  ASSUME Inv, NEW c \in Compilers, WriteShort(c)
  PROVE  Inv'
  <1>1. TypeOK /\ pos[c] \in Nat
    <2>1. pos[c] \in 0..(ReadMax + 1) /\ ReadMax \in Nat
      BY CompiledAssumption DEF Inv, TypeOK
    <2> QED
      BY <2>1 DEF Inv
  <1>2. file' \in Seq(Cells)
    BY <1>1, WriteShortFile, OverlaidType DEF TypeOK
  <1>3. pc' = [pc EXCEPT ![c] = "idle"] /\ UNCHANGED <<pos, text, size, map, written>>
    BY DEF WriteShort
  <1>4. \A l \in Loaders : pc'[l] = pc[l]
    BY <1>1, <1>3, FilesAssumption DEF TypeOK
  <1>5. TypeOK'
    BY <1>1, <1>2, <1>3, <1>4 DEF TypeOK
  <1>6. \A d \in Compilers : Compiling(d)' => pos'[d] = Offset(pc'[d], text'[d])
    BY <1>1, <1>3 DEF Inv, TypeOK, Compiling
  <1> QED
    BY <1>3, <1>5, <1>6 DEF Inv, Accepted, Consistent

LEMMA StatInv ==
  ASSUME Inv, NEW l \in Loaders, Stat(l)
  PROVE  Inv'
  <1>1. TypeOK /\ Len(file) \in Nat /\ << >> \in Seq(Cells)
    <2>1. TypeOK /\ file \in Seq(Cells)
      BY DEF Inv, TypeOK
    <2> QED
      BY <2>1
  <1>2. /\ pc' = [pc EXCEPT ![l] = "read"] /\ size' = [size EXCEPT ![l] = Len(file)]
        /\ map' = [map EXCEPT ![l] = << >>] /\ UNCHANGED <<file, pos, text, written>>
    BY DEF Stat
  <1>3. \A m \in Loaders : map'[m] = IF m = l THEN << >> ELSE map[m]
    BY <1>1, <1>2 DEF TypeOK
  <1>4. TypeOK'
    BY <1>1, <1>2, <1>3 DEF TypeOK
  <1>5. \A d \in Compilers : pc'[d] = pc[d]
    BY <1>1, <1>2, FilesAssumption DEF TypeOK
  <1> QED
    BY <1>2, <1>3, <1>4, <1>5 DEF Inv, Compiling

\* A loader accepts nothing, or the cells that it has read.
LEMMA ReadResult ==
  ASSUME TypeOK, NEW l \in Loaders, Read(l)
  PROVE  \/ map'[l] = << >>
         \/ /\ map'[l] \in Seq(Cells) /\ Accepted(map'[l])
            /\ Len(map'[l]) = size[l] /\ size[l] <= Len(file) /\ size[l] <= ReadMax
            /\ map'[l] = SubSeq(file, 1, size[l])
  <1>1. /\ file \in Seq(Cells) /\ size[l] \in Nat /\ ReadMax \in Nat /\ Len(file) \in Nat
    <2>1. file \in Seq(Cells) /\ size[l] \in Nat
      BY DEF TypeOK
    <2>2. ReadMax \in Nat
      BY CompiledAssumption
    <2> QED
      BY <2>1, <2>2
  <1>2. PICK k \in 0..Len(file) :
          /\ k = LET n == IF size[l] > Len(file) THEN Len(file) ELSE size[l]
                 IN IF n > ReadMax THEN ReadMax ELSE n
          /\ k <= ReadMax
    BY <1>1
  <1>3. PICK cells \in Seq(Cells) : cells = SubSeq(file, 1, k) /\ Len(cells) = k
    <2>1. SubSeq(file, 1, k) \in Seq(Cells) /\ Len(SubSeq(file, 1, k)) = k
      BY <1>1
    <2> QED
      BY <2>1
  <1>4. map'[l] = IF Len(cells) = size[l] /\ Accepted(cells) THEN cells ELSE << >>
    <2>1. map' = [map EXCEPT ![l] =
                    IF Len(cells) = size[l] /\ Accepted(cells) THEN cells ELSE << >>]
      BY <1>2, <1>3 DEF Read
    <2> QED
      BY <2>1 DEF TypeOK
  <1> QED
    BY <1>1, <1>2, <1>3, <1>4

LEMMA ReadInv ==
  ASSUME Inv, NEW l \in Loaders, Read(l)
  PROVE  Inv'
  <1>1. TypeOK
    BY DEF Inv
  <1>2. \/ map'[l] = << >>
        \/ map'[l] \in Seq(Cells) /\ Len(map'[l]) <= ReadMax /\ Accepted(map'[l])
    BY <1>1, ReadResult
  <1>3. /\ pc' = [pc EXCEPT ![l] = "idle"] /\ UNCHANGED <<file, pos, text, size, written>>
        /\ \E m : map' = [map EXCEPT ![l] = m]
    BY DEF Read
  <1>4. << >> \in Seq(Cells)
    OBVIOUS
  <1>5. map' \in [Loaders -> Seq(Cells)] /\ \A m \in Loaders : m # l => map'[m] = map[m]
    BY <1>1, <1>2, <1>3, <1>4 DEF TypeOK
  <1>6. TypeOK'
    BY <1>1, <1>3, <1>5 DEF TypeOK
  <1>7. \A d \in Compilers : pc'[d] = pc[d]
    BY <1>1, <1>3, FilesAssumption DEF TypeOK
  <1>8. \A m \in Loaders : map'[m] # << >> => Len(map'[m]) <= ReadMax /\ Accepted(map'[m])
    BY <1>2, <1>5 DEF Inv
  <1> QED
    BY <1>3, <1>6, <1>7, <1>8 DEF Inv, Compiling

LEMMA StutterInv ==
  ASSUME Inv, UNCHANGED vars
  PROVE  Inv'
  BY DEF vars, Inv, TypeOK, Compiling

LEMMA ProceedInv ==
  ASSUME Inv, Proceed
  PROVE  Inv'
  BY WriteInv, WriteShortInv, StatInv, ReadInv DEF Proceed

LEMMA NextInv ==
  ASSUME Inv, [Next]_vars
  PROVE  Inv'
  BY ProceedInv, OpenInv, StutterInv DEF Next

LEMMA Invariance == Spec => []Inv
  BY InitInv, NextInv, PTL DEF Spec

\* Every state is well typed, whoever writes and reads, dies or runs out of space.
THEOREM TypeCorrect == Spec => []TypeOK
  <1>1. Inv => TypeOK
    BY DEF Inv
  <1> QED
    BY <1>1, Invariance, PTL

\* However many processes write at the same time, and whatever counts a header
\* has: check_buffer lets only those pass that end where the file ends.
THEOREM AcceptedInside == Spec => []SetsInside
  <1>1. Inv => SetsInside
    BY ConsistentCounts DEF Inv, TypeOK, SetsInside
  <1> QED
    BY <1>1, Invariance, PTL

-----------------------------------------------------------------------------
\* Compilers that take turns: the file is the one that was found, or the beginning
\* of an image, with a piece of the next cell at most.

Prefix(t, f) ==
  /\ Len(f) <= Len(Image(t))
  /\ \A i \in 1..Len(f) : f[i] = Image(t)[i] \/ (i = Len(f) /\ f[i] = Piece)

\* Nobody has touched the file since a loader took its size.
Original == file \in Foreign /\ \A l \in Loaders : pc[l] = "read" => size[l] = Len(file)

UpTo(c) == Len(file) = pos[c] /\ \A i \in 1..Len(file) : file[i] = Image(text[c])[i]

SerialInv ==
  /\ Inv
  /\ \A c, d \in Compilers : Compiling(c) /\ Compiling(d) => c = d
  /\ \A c \in Compilers : Compiling(c) => UpTo(c) /\ written = {}
  /\ Original \/ \E t \in Texts : Prefix(t, file)
  /\ \A t \in written : file = Image(t)
  /\ AcceptedComplete

LEMMA NoPiece ==
  ASSUME NEW t \in Texts, NEW i \in 1..Len(Image(t))
  PROVE  Image(t)[i] # Piece /\ Image(t)[i] # Torn
  <1>1. PICK n1 \in Nat, n2 \in Nat : n1 = Count[t][1] /\ n2 = Count[t][2]
    BY CountType
  <1>2. i \in 1..(n1 + n2 + 1)
    BY <1>1, ImageType
  <1>3. CASE i = 1
    BY <1>3, ImageType, CellKinds
  <1>4. CASE i \in 2..(n1 + 1)
    <2>1. PICK k \in 1..n1 : i = k + 1
      <3>1. i - 1 \in 1..n1 /\ i = (i - 1) + 1
        BY <1>4
      <3> QED
        BY <3>1
    <2>2. Image(t)[i] = RuleCell(t, 1, k)
      BY <1>1, <2>1, ImageType DEF Rules
    <2> QED
      BY <2>2, CellKinds
  <1>5. CASE i \in (n1 + 2)..(n1 + n2 + 1)
    <2>1. PICK k \in 1..n2 : i = k + n1 + 1
      <3>1. i - n1 - 1 \in 1..n2 /\ i = (i - n1 - 1) + n1 + 1
        BY <1>5
      <3> QED
        BY <3>1
    <2>2. Image(t)[i] = RuleCell(t, 2, k)
      BY <1>1, <2>1, ImageType DEF Rules
    <2> QED
      BY <2>2, CellKinds
  <1> QED
    BY <1>2, <1>3, <1>4, <1>5

Appended(f, cells, g) ==
  /\ g \in Seq(Cells) /\ Len(g) = Len(f) + Len(cells)
  /\ \A i \in 1..Len(f) : g[i] = f[i]
  /\ \A i \in 1..Len(cells) : g[Len(f) + i] = cells[i]

\* Writing at the end of a file without a piece appends.
LEMMA OverlaidAtEnd ==
  ASSUME NEW f \in Seq(Cells), NEW cells \in Seq(Cells), \A i \in 1..Len(f) : f[i] # Piece
  PROVE  Appended(f, cells, Overlaid(f, Len(f), cells))
  <1> DEFINE g == Overlaid(f, Len(f), cells)
  <1> SUFFICES Appended(f, cells, g)
    OBVIOUS
  <1>1. CASE cells = << >>
    <2>1. g = f /\ Len(cells) = 0 /\ Len(f) \in Nat
      BY <1>1 DEF Overlaid
    <2> QED
      BY <2>1 DEF Appended
  <1>2. CASE cells # << >>
    <2>1. PICK m \in Nat, k \in Nat : m = Len(f) /\ k = Len(cells)
      OBVIOUS
    <2>2. k # 0 /\ m + k > m /\ ~(m > m + k)
      BY <1>2, <2>1
    <2>3. g = [i \in 1..(m + k) |->
                 IF m < i /\ i <= m + k THEN cells[i - m]
                 ELSE IF i \in DOMAIN f
                      THEN (IF f[i] = Piece /\ i < m + k THEN Torn ELSE f[i]) ELSE Gap]
      BY <1>2, <2>1, <2>2 DEF Overlaid
    <2>4. g \in Seq(Cells)
      BY OverlaidType, <2>1
    <2> HIDE DEF g
    <2>5. Len(g) = m + k
      BY <2>3, <2>4
    <2>6. \A i \in 1..m : g[i] = f[i]
      <3> TAKE i \in 1..m
      <3>1. i \in 1..(m + k) /\ ~(m < i) /\ i \in DOMAIN f /\ f[i] # Piece
        BY <2>1
      <3> QED
        BY <2>3, <3>1
    <2>7. \A i \in 1..k : g[m + i] = cells[i]
      <3> TAKE i \in 1..k
      <3>1. m + i \in 1..(m + k) /\ m < m + i /\ m + i <= m + k /\ (m + i) - m = i
        OBVIOUS
      <3> QED
        BY <2>3, <3>1
    <2> QED
      BY <2>1, <2>4, <2>5, <2>6, <2>7 DEF Appended
  <1> QED
    BY <1>1, <1>2

LEMMA OffsetBound ==
  ASSUME TypeOK, NEW c \in Compilers, Compiling(c)
  PROVE  Offset(pc[c], text[c]) + Len(Chunk(c)) <= Len(Image(text[c]))
  <1>1. PICK t \in Texts : t = text[c]
    BY DEF TypeOK
  <1>2. PICK n1 \in Nat, n2 \in Nat, k \in Nat :
          n1 = Count[t][1] /\ n2 = Count[t][2] /\ k = Len(Image(t)) /\ k = n1 + n2 + 1
    BY CountType, ImageType
  <1>3. CASE pc[c] = "header"
    <2>1. Offset(After("header"), t) = 1
      BY DEF Offset, After
    <2>2. Offset(pc[c], t) + Len(Chunk(c)) = 1
      BY <1>1, <1>3, <2>1, ChunkType
    <2> QED
      BY <1>1, <1>2, <2>2
  <1>4. CASE pc[c] = "set 1"
    <2>1. Offset(After("set 1"), t) = n1 + 1
      BY <1>2 DEF Offset, After
    <2>2. Offset(pc[c], t) + Len(Chunk(c)) = n1 + 1
      BY <1>1, <1>4, <2>1, ChunkType
    <2> QED
      BY <1>1, <1>2, <2>2
  <1>5. CASE pc[c] = "set 2"
    <2>1. Offset(pc[c], t) + Len(Chunk(c)) = k
      BY <1>1, <1>2, <1>5, ChunkType
    <2> QED
      BY <1>1, <1>2, <2>1
  <1> QED
    BY <1>3, <1>4, <1>5 DEF Compiling

\* What compiler c leaves when it has written cells, of which piece may be the last.
LEMMA Extended ==
  ASSUME SerialInv, NEW c \in Compilers, Compiling(c),
         NEW cells \in Seq(Cells), Len(cells) <= Len(Chunk(c)),
         \A i \in 1..Len(cells) :
           cells[i] = Chunk(c)[i] \/ (i = Len(cells) /\ cells[i] = Piece),
         file' = Overlaid(file, pos[c], cells)
  PROVE  /\ Prefix(text[c], file') /\ file' \in Seq(Cells)
         /\ Len(file') = pos[c] + Len(cells)
         /\ (\A i \in 1..Len(cells) : cells[i] = Chunk(c)[i]) =>
              \A i \in 1..Len(file') : file'[i] = Image(text[c])[i]
  <1>1. PICK t \in Texts : t = text[c]
    BY DEF SerialInv, Inv, TypeOK
  <1>2. /\ file \in Seq(Cells) /\ Len(file) = pos[c] /\ pos[c] = Offset(pc[c], t)
        /\ \A i \in 1..Len(file) : file[i] = Image(t)[i]
    BY <1>1 DEF SerialInv, Inv, TypeOK, UpTo
  <1>3. PICK m \in Nat : m = Len(file)
    BY <1>2
  <1>4. PICK k \in Nat : k = Len(cells)
    OBVIOUS
  <1>5. PICK chunk \in Seq(Cells) :
          /\ chunk = Chunk(c)
          /\ \A i \in 1..Len(chunk) : chunk[i] = Image(t)[m + i]
    <2>1. TypeOK /\ m = Offset(pc[c], text[c])
      BY <1>1, <1>2, <1>3 DEF SerialInv, Inv
    <2>2. PICK chunk \in Seq(Cells) : chunk = Chunk(c)
      BY <2>1, ChunkType
    <2>3. \A i \in 1..Len(Chunk(c)) :
            Chunk(c)[i] = Image(text[c])[Offset(pc[c], text[c]) + i]
      BY <2>1, ChunkType
    <2>4. \A i \in 1..Len(chunk) : chunk[i] = Image(t)[m + i]
      BY <1>1, <2>1, <2>2, <2>3
    <2> QED
      BY <2>2, <2>4
  <1>6. PICK size0 \in Nat : size0 = Len(Image(t)) /\ m + Len(chunk) <= size0
    <2>1. Offset(pc[c], text[c]) + Len(Chunk(c)) <= Len(Image(text[c]))
      BY OffsetBound DEF SerialInv, Inv
    <2>2. Image(t) \in Seq(Cells)
      BY ImageType
    <2>3. PICK k0 \in Nat : k0 = Len(Image(t))
      BY <2>2
    <2> QED
      BY <1>1, <1>2, <1>3, <1>5, <2>1, <2>3
  <1>7. \A i \in 1..m : file[i] # Piece
    <2> TAKE i \in 1..m
    <2>1. i \in 1..Len(Image(t))
      BY <1>5, <1>6
    <2> QED
      BY <1>2, <1>3, <2>1, NoPiece
  <1>8. PICK g \in Seq(Cells) :
          /\ g = file' /\ Len(g) = m + k
          /\ \A i \in 1..m : g[i] = file[i]
          /\ \A i \in 1..k : g[m + i] = cells[i]
    <2>1. file' = Overlaid(file, Len(file), cells)
      BY <1>2
    <2>2. \A i \in 1..Len(file) : file[i] # Piece
      BY <1>3, <1>7
    <2>3. Appended(file, cells, file')
      <3>1. Appended(file, cells, Overlaid(file, Len(file), cells))
        BY <1>2, <2>2, OverlaidAtEnd
      <3> QED
        BY <2>1, <3>1
    <2>4. Len(file) = m /\ Len(cells) = k
      BY <1>3, <1>4
    <2> QED
      BY <2>3, <2>4 DEF Appended
  <1>9. k <= Len(chunk) /\ m + k <= size0
    BY <1>4, <1>5, <1>6
  <1>10. \A i \in 1..m : g[i] = Image(t)[i]
    BY <1>2, <1>3, <1>8
  <1>11. \A i \in 1..k : cells[i] = chunk[i] => g[m + i] = Image(t)[m + i]
    <2> TAKE i \in 1..k
    <2>1. i \in 1..Len(chunk)
      BY <1>9
    <2> QED
      BY <1>5, <1>8, <2>1
  <1>12. \A i \in 1..(m + k) : i \in 1..m \/ \E j \in 1..k : i = m + j
    <2> TAKE i \in 1..(m + k)
    <2>1. CASE i > m
      <3>1. i - m \in 1..k /\ i = m + (i - m)
        BY <2>1
      <3> QED
        BY <3>1
    <2> QED
      BY <2>1
  <1>13. Prefix(t, g)
    <2>1. \A i \in 1..(m + k) : g[i] = Image(t)[i] \/ (i = m + k /\ g[i] = Piece)
      <3> TAKE i \in 1..(m + k)
      <3>1. CASE i \in 1..m
        BY <1>10, <3>1
      <3>2. ASSUME NEW j \in 1..k, i = m + j
            PROVE  g[i] = Image(t)[i] \/ (i = m + k /\ g[i] = Piece)
        BY <1>4, <1>5, <1>8, <1>11, <3>2
      <3> QED
        BY <1>12, <3>1, <3>2
    <2> QED
      BY <1>6, <1>8, <1>9, <2>1 DEF Prefix
  <1>14. (\A i \in 1..k : cells[i] = chunk[i]) => \A i \in 1..(m + k) : g[i] = Image(t)[i]
    BY <1>10, <1>11, <1>12
  <1> QED
    BY <1>1, <1>2, <1>3, <1>4, <1>5, <1>8, <1>13, <1>14

\* Nothing is accepted unless it was read.
LEMMA KeepsAccepted ==
  ASSUME AcceptedComplete, UNCHANGED map
  PROVE  AcceptedComplete'
  BY DEF AcceptedComplete

LEMMA SerialInit == ASSUME Init PROVE SerialInv
  <1>1. Inv
    BY InitInv
  <1>2. \A p \in Compilers \cup Loaders : pc[p] = "idle"
    BY DEF Init
  <1> QED
    BY <1>1, <1>2 DEF Init, SerialInv, Original, Compiling, AcceptedComplete

LEMMA SerialOpen ==
  ASSUME SerialInv, NEW c \in Compilers, Open(c), \A d \in Compilers : pc[d] = "idle"
  PROVE  SerialInv'
  <1>1. Inv' /\ UNCHANGED map
    BY OpenInv DEF SerialInv, Open
  <1>2. PICK t \in Texts : text' = [text EXCEPT ![c] = t]
    BY DEF Open
  <1>3. file' = << >> /\ written' = {} /\ pos'[c] = 0
    BY DEF Open, SerialInv, Inv, TypeOK
  <1>4. \A d \in Compilers : d # c => pc'[d] = "idle"
    BY DEF Open, SerialInv, Inv, TypeOK
  <1>5. \A d \in Compilers : Compiling(d)' => d = c
    BY <1>4 DEF Compiling
  <1>6. UpTo(c)'
    BY <1>3 DEF UpTo
  <1>7. Prefix(t, file')
    <2>1. Len(Image(t)) \in Nat
      BY ImageType, CountType
    <2> QED
      BY <1>3, <2>1 DEF Prefix
  <1>8. (\E u \in Texts : Prefix(u, file))'
    BY <1>7 DEF Prefix, Image, Header, Rules, RuleCell, Piece
  <1>9. AcceptedComplete'
    BY <1>1, KeepsAccepted DEF SerialInv
  <1> QED
    BY <1>1, <1>3, <1>5, <1>6, <1>8, <1>9 DEF SerialInv

LEMMA SerialWrite ==
  ASSUME SerialInv, NEW c \in Compilers, Write(c)
  PROVE  SerialInv'
  <1>1. /\ Inv' /\ UNCHANGED <<map, text>> /\ Compiling(c) /\ TypeOK
        /\ pos[c] = Offset(pc[c], text[c]) /\ written = {}
    BY WriteInv DEF SerialInv, Inv, Write
  <1>2. PICK t \in Texts : t = text[c]
    BY <1>1 DEF TypeOK
  <1>3. /\ Prefix(t, file') /\ file' \in Seq(Cells)
        /\ Len(file') = pos[c] + Len(Chunk(c))
        /\ \A i \in 1..Len(file') : file'[i] = Image(t)[i]
    <2>1. file' = Overlaid(file, pos[c], Chunk(c))
      BY DEF Write
    <2>2. PICK chunk \in Seq(Cells) : chunk = Chunk(c)
      BY <1>1, ChunkType
    <2>3. Len(chunk) <= Len(Chunk(c)) /\ \A i \in 1..Len(chunk) : chunk[i] = Chunk(c)[i]
      BY <2>2
    <2> QED
      BY <1>1, <1>2, <2>1, <2>2, <2>3, Extended
  <1>4. pos'[c] = pos[c] + Len(Chunk(c)) /\ pc'[c] = After(pc[c])
    BY <1>1 DEF Write, TypeOK
  <1>5. \A d \in Compilers : Compiling(d)' => d = c
    BY <1>1 DEF SerialInv, Write, TypeOK, Compiling
  <1>6. UpTo(c)'
    BY <1>1, <1>2, <1>3, <1>4 DEF UpTo
  <1>7. (\E u \in Texts : Prefix(u, file))'
    BY <1>3 DEF Prefix, Image, Header, Rules, RuleCell, Piece
  <1>8. Compiling(c)' => pc[c] # "set 2"
    BY <1>4 DEF After, Compiling
  <1>9. \/ pc[c] # "set 2" /\ written' = {}
        \/ pc[c] = "set 2" /\ written' = {t}
    BY <1>1, <1>2 DEF Write
  <1>10. pc[c] = "set 2" => file' = Image(t)
    <2>1. pc[c] = "set 2" => Len(file') = Len(Image(t))
      BY <1>1, <1>2, <1>3, ChunkType
    <2>2. Image(t) \in Seq(Cells)
      BY ImageType
    <2> QED
      BY <1>3, <2>1, <2>2, SameSequence
  <1>11. AcceptedComplete'
    BY <1>1, KeepsAccepted DEF SerialInv
  <1>12. \A u \in written' : file' = Image(u)
    BY <1>9, <1>10
  <1>13. \A d \in Compilers : Compiling(d)' => UpTo(d)' /\ written' = {}
    BY <1>5, <1>6, <1>8, <1>9
  <1> QED
    BY <1>1, <1>5, <1>7, <1>11, <1>12, <1>13 DEF SerialInv, Image, Header, Rules, RuleCell

LEMMA SerialWriteShort ==
  ASSUME SerialInv, NEW c \in Compilers, WriteShort(c)
  PROVE  SerialInv'
  <1>1. /\ Inv' /\ UNCHANGED <<map, written>> /\ Compiling(c) /\ TypeOK /\ written = {}
    BY WriteShortInv DEF SerialInv, Inv, WriteShort
  <1>2. PICK t \in Texts : t = text[c]
    BY <1>1 DEF TypeOK
  <1>3. PICK chunk \in Seq(Cells) : chunk = Chunk(c)
    BY <1>1, ChunkType
  <1>4. PICK n \in 0..Len(chunk) :
          \/ file' = Overlaid(file, pos[c], SubSeq(chunk, 1, n))
          \/ /\ n < Len(chunk)
             /\ file' = Overlaid(file, pos[c], Append(SubSeq(chunk, 1, n),
                                                     Partial(file, pos[c] + n + 1)))
    BY <1>3 DEF WriteShort
  <1>5. PICK some \in Seq(Cells) :
          /\ some = SubSeq(chunk, 1, n) /\ Len(some) = n
          /\ \A i \in 1..n : some[i] = chunk[i]
    <2>1. SubSeq(chunk, 1, n) \in Seq(Cells) /\ Len(SubSeq(chunk, 1, n)) = n
      OBVIOUS
    <2>2. \A i \in 1..n : SubSeq(chunk, 1, n)[i] = chunk[i]
      OBVIOUS
    <2> QED
      BY <2>1, <2>2
  <1>6. Prefix(t, file')
    <2>1. CASE file' = Overlaid(file, pos[c], some)
      <3>1. Len(some) <= Len(Chunk(c)) /\ \A i \in 1..Len(some) : some[i] = Chunk(c)[i]
        BY <1>3, <1>5
      <3> QED
        BY <1>1, <1>2, <2>1, <3>1, Extended
    <2>2. CASE /\ n < Len(chunk)
               /\ file' = Overlaid(file, pos[c], Append(some, Partial(file, pos[c] + n + 1)))
      <3>1. Partial(file, pos[c] + n + 1) = Piece
        <4>1. Len(file) = pos[c] /\ file \in Seq(Cells)
          BY <1>1 DEF SerialInv, UpTo, TypeOK
        <4>2. pos[c] + n + 1 \notin DOMAIN file
          BY <4>1
        <4> QED
          BY <4>2 DEF Partial
      <3>2. PICK cells \in Seq(Cells) :
              /\ cells = Append(some, Piece) /\ Len(cells) = n + 1 /\ cells[n + 1] = Piece
              /\ \A i \in 1..n : cells[i] = some[i]
        <4>1. PICK p \in Cells : p = Piece
          BY CellTypes
        <4>2. /\ Append(some, p) \in Seq(Cells) /\ Len(Append(some, p)) = n + 1
              /\ Append(some, p)[n + 1] = p /\ \A i \in 1..n : Append(some, p)[i] = some[i]
          BY <1>5
        <4> QED
          BY <4>1, <4>2
      <3>3. Len(cells) <= Len(Chunk(c))
        BY <1>3, <2>2, <3>2
      <3>4. \A i \in 1..Len(cells) :
              cells[i] = Chunk(c)[i] \/ (i = Len(cells) /\ cells[i] = Piece)
        <4> TAKE i \in 1..Len(cells)
        <4>1. i \in 1..n \/ i = n + 1
          BY <3>2
        <4> QED
          BY <1>3, <1>5, <3>2, <4>1
      <3> QED
        BY <1>1, <1>2, <2>2, <3>1, <3>2, <3>3, <3>4, Extended
    <2> QED
      BY <1>4, <1>5, <2>1, <2>2
  <1>7. \A d \in Compilers : ~Compiling(d)'
    BY <1>1 DEF SerialInv, WriteShort, TypeOK, Compiling
  <1>8. (\E u \in Texts : Prefix(u, file))'
    BY <1>6 DEF Prefix, Image, Header, Rules, RuleCell, Piece
  <1>9. AcceptedComplete'
    BY <1>1, KeepsAccepted DEF SerialInv
  <1> QED
    BY <1>1, <1>7, <1>8, <1>9 DEF SerialInv

\* What a loader does leaves the compilers and the file alone.
LEMMA SerialLoader ==
  ASSUME SerialInv, Inv', UNCHANGED <<file, pos, text, written>>,
         \A c \in Compilers : pc'[c] = pc[c], Original => Original', AcceptedComplete'
  PROVE  SerialInv'
  <1>1. \A c \in Compilers : (Compiling(c) <=> Compiling(c)') /\ (UpTo(c) => UpTo(c)')
    BY DEF Compiling, UpTo, Image, Header, Rules, RuleCell
  <1>2. (\E u \in Texts : Prefix(u, file)) => (\E u \in Texts : Prefix(u, file))'
    BY DEF Prefix, Image, Header, Rules, RuleCell, Piece
  <1>3. (\A t \in written : file = Image(t))'
    BY DEF SerialInv, Image, Header, Rules, RuleCell
  <1> QED
    BY <1>1, <1>2, <1>3 DEF SerialInv

LEMMA SerialStat ==
  ASSUME SerialInv, NEW l \in Loaders, Stat(l)
  PROVE  SerialInv'
  <1>1. Inv' /\ TypeOK
    BY StatInv DEF SerialInv, Inv
  <1>2. /\ UNCHANGED <<file, pos, text, written>>
        /\ \A m \in Loaders : /\ m # l => map'[m] = map[m] /\ size'[m] = size[m] /\ pc'[m] = pc[m]
                              /\ map'[l] = << >> /\ size'[l] = Len(file)
    BY <1>1 DEF Stat, TypeOK
  <1>3. \A c \in Compilers : pc'[c] = pc[c]
    BY <1>1, FilesAssumption DEF Stat, TypeOK
  <1>4. Original => Original'
    BY <1>2 DEF Original
  <1>5. AcceptedComplete'
    BY <1>2 DEF SerialInv, AcceptedComplete, Image, Header, Rules, RuleCell
  <1> QED
    BY <1>1, <1>2, <1>3, <1>4, <1>5, SerialLoader

\* An accepted beginning of an image is all of it.
LEMMA AcceptedPrefix ==
  ASSUME NEW t \in Texts, NEW f \in Seq(Cells), Prefix(t, f), NEW k \in 0..Len(f), k <= ReadMax,
         Accepted(SubSeq(f, 1, k))
  PROVE  SubSeq(f, 1, k) = Image(t)
  <1>1. PICK cells \in Seq(Cells) :
          /\ cells = SubSeq(f, 1, k) /\ Len(cells) = k /\ \A i \in 1..k : cells[i] = f[i]
    <2>1. SubSeq(f, 1, k) \in Seq(Cells) /\ Len(SubSeq(f, 1, k)) = k
      OBVIOUS
    <2>2. \A i \in 1..k : SubSeq(f, 1, k)[i] = f[i]
      OBVIOUS
    <2> QED
      BY <2>1, <2>2
  <1>2. k >= 2 /\ cells[k] # Piece /\ cells[1].kind = "header" /\ k \in Nat
    BY <1>1 DEF Accepted
  <1>3. cells[1].n[1] + cells[1].n[2] + 1 = k
    BY <1>1, ConsistentCounts
  <1>4. cells[1] = Image(t)[1]
    <2>1. 1 \in 1..Len(f) /\ 1 \in 1..k
      BY <1>2
    <2>2. cells[1] # Piece
      BY <1>2, CellKinds
    <2> QED
      BY <1>1, <2>1, <2>2 DEF Prefix
  <1>5. cells[1].n = Count[t]
    BY <1>4, ImageType, CellKinds
  <1>6. Len(Image(t)) = k
    BY <1>3, <1>5, ImageType, CountType
  <1>7. Len(f) = k
    BY <1>6 DEF Prefix
  <1>8. \A i \in 1..k : cells[i] = Image(t)[i]
    BY <1>1, <1>2, <1>7 DEF Prefix
  <1>9. Image(t) \in Seq(Cells)
    BY ImageType
  <1> QED
    BY <1>1, <1>6, <1>8, <1>9, SameSequence

LEMMA SerialRead ==
  ASSUME SerialInv, NEW l \in Loaders, Read(l)
  PROVE  SerialInv'
  <1>1. Inv' /\ TypeOK
    BY ReadInv DEF SerialInv, Inv
  <1>2. /\ UNCHANGED <<file, pos, text, size, written>> /\ pc[l] = "read"
        /\ \A m \in Loaders : m # l => map'[m] = map[m] /\ pc'[m] = pc[m]
        /\ pc'[l] = "idle"
    BY <1>1 DEF Read, TypeOK
  <1>3. \A c \in Compilers : pc'[c] = pc[c]
    BY <1>1, FilesAssumption DEF Read, TypeOK
  <1>4. Original => Original'
    BY <1>2 DEF Original
  <1>5. map'[l] # << >> => map'[l] \in Foreign \cup {Image(t) : t \in Texts}
    <2> HAVE map'[l] # << >>
    <2>1. /\ map'[l] = SubSeq(file, 1, size[l]) /\ Accepted(SubSeq(file, 1, size[l]))
          /\ size[l] <= Len(file) /\ size[l] <= ReadMax
      BY <1>1, ReadResult
    <2>2. file \in Seq(Cells) /\ size[l] \in Nat
      BY <1>1 DEF TypeOK
    <2>3. CASE Original
      <3>1. file \in Foreign /\ size[l] = Len(file)
        BY <1>2, <2>3 DEF Original
      <3>2. SubSeq(file, 1, Len(file)) = file
        BY <2>2
      <3> QED
        BY <2>1, <3>1, <3>2
    <2>4. CASE \E t \in Texts : Prefix(t, file)
      <3>1. PICK t \in Texts : Prefix(t, file)
        BY <2>4
      <3>2. size[l] \in 0..Len(file)
        BY <2>1, <2>2
      <3> QED
        BY <2>1, <2>2, <3>1, <3>2, AcceptedPrefix
    <2> QED
      BY <2>3, <2>4 DEF SerialInv
  <1>6. AcceptedComplete'
    BY <1>2, <1>5 DEF SerialInv, AcceptedComplete, Image, Header, Rules, RuleCell
  <1> QED
    BY <1>1, <1>2, <1>3, <1>4, <1>6, SerialLoader

LEMMA SerialStutter ==
  ASSUME SerialInv, UNCHANGED vars
  PROVE  SerialInv'
  <1>1. Inv'
    BY StutterInv DEF SerialInv
  <1>2. Original => Original'
    BY DEF vars, Original
  <1>3. AcceptedComplete'
    BY KeepsAccepted DEF vars, SerialInv
  <1> QED
    BY <1>1, <1>2, <1>3, SerialLoader DEF vars

LEMMA SerialNextInv ==
  ASSUME SerialInv, [SerialNext]_vars
  PROVE  SerialInv'
  BY SerialOpen, SerialWrite, SerialWriteShort, SerialStat, SerialRead, SerialStutter
     DEF SerialNext, Proceed

LEMMA SerialInvariance == SerialSpec => []SerialInv
  BY SerialInit, SerialNextInv, PTL DEF SerialSpec

\* As long as compilers take turns a loader never has half of a compilation.
THEOREM WholeCompilations == SerialSpec => []AcceptedComplete
  <1>1. SerialInv => AcceptedComplete
    BY DEF SerialInv
  <1> QED
    BY <1>1, SerialInvariance, PTL

\* What check_buffer wants of an image of at least one rule.
LEMMA ImageAccepted ==
  ASSUME NEW t \in Texts, Count[t][1] + Count[t][2] > 0
  PROVE  Accepted(Image(t))
  <1>1. PICK n1 \in Nat, n2 \in Nat, k \in Nat :
          n1 = Count[t][1] /\ n2 = Count[t][2] /\ k = Len(Image(t)) /\ k = n1 + n2 + 1
    BY CountType, ImageType
  <1>2. k >= 2 /\ k < Modulus /\ Modulus \in Nat /\ n1 <= k /\ n2 <= k
    BY <1>1, CountType
  <1>3. (n1 + n2) % Modulus = n1 + n2 /\ (n1 + n2 + 1) % Modulus = n1 + n2 + 1
    <2>1. n1 + n2 \in 0..(Modulus - 1) /\ n1 + n2 + 1 \in 0..(Modulus - 1)
      BY <1>1, <1>2
    <2> QED
      BY <1>2, <2>1
  <1>4. Image(t)[1] = Header("native", "current", Count[t])
    BY ImageType
  <1>5. Consistent(Image(t))
    BY <1>1, <1>2, <1>3, <1>4, CellKinds DEF Consistent
  <1>6. Image(t)[k] # Piece
    <2>1. k \in 1..Len(Image(t))
      BY <1>1, <1>2
    <2> QED
      BY <2>1, NoPiece
  <1> QED
    BY <1>1, <1>2, <1>4, <1>5, <1>6 DEF Accepted, Header

\* A compilation that reports success can be loaded, whatever was there before.
THEOREM CompilationsLoadable == SerialSpec => []CompiledIsLoadable
  <1>1. SerialInv => CompiledIsLoadable
    BY ImageAccepted DEF SerialInv, Inv, TypeOK, CompiledIsLoadable
  <1> QED
    BY <1>1, SerialInvariance, PTL
=============================================================================
