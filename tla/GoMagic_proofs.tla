--------------------------- MODULE GoMagic_proofs ---------------------------
(***************************************************************************)
(* For any source trees, any number of passes over them, and any command    *)
(* line: a package that compiles bundles the rules of one tree, and the     *)
(* tool's exit status and message are true.  The invariant of the build     *)
(* says which places of the tree a pass has copied so far; that of the tool *)
(* says what a failed load leaves in the handle, as nobody looks at its     *)
(* result; that of the system puts them beside the invariant of the handles *)
(* (module GoHandle_proofs), so that what was proved of the parts holds of  *)
(* the program that is linked with the rules.                               *)
(***************************************************************************)
EXTENDS GoMagic, GoHandle_proofs

-----------------------------------------------------------------------------
(* The rules that are bundled. *)

\* What remains of a sequence after its first n elements.
Remains(left, whole, n) ==
  /\ n \in 0..Len(whole) /\ Len(left) = Len(whole) - n
  /\ \A i \in 1..Len(left) : left[i] = whole[n + i]

\* The places in the files before file n and in the first j lines of that.
PlacesTo(tree, n, j) == {p \in Places(tree) : p[1] < n \/ (p[1] = n /\ p[2] <= j)}

Listed(rules) == \E tree \in Trees : Copies(rules, tree, Places(tree))

BetweenFiles ==
  \E tree \in Trees : \E n \in 0..Len(tree) :
    Remains(rest, tree, n) /\ Copies(asset, tree, PlacesTo(tree, n + 1, 0))
InFile ==
  \E tree \in Trees : \E n \in 1..Len(tree) : \E j \in 0..Len(tree[n]) :
    /\ Remains(rest, tree, n) /\ Remains(lines, tree[n], j)
    /\ \A k \in 1..j : tree[n][k] # Unreadable
    /\ Copies(asset, tree, PlacesTo(tree, n, j))

BuildTypes ==
  /\ rest \in Seq(Seq(Lines)) /\ lines \in Seq(Lines)
  /\ asset \in Seq(Nat \ {0})
  /\ source \in [func : {"none", "init", "Init"}, rules : Seq(Nat \ {0})]
  /\ step = "rename" => lines \in Seq(Nat \ {0})

PassInv ==
  /\ step \in {"glob", "files"} => BetweenFiles
  /\ step = "scan" => InFile
  /\ step \in {"fileb0x", "install", "again"} => Listed(asset)
  /\ step = "replace" => source.func # "none"
  /\ step = "rename" => Listed(lines)
  /\ source.func # "none" => Listed(source.rules)

LEMMA PlacesAre ==
  ASSUME NEW tree, NEW p
  PROVE  p \in Places(tree) <=>
           \E i \in DOMAIN tree : \E j \in DOMAIN tree[i] :
             /\ p = <<i, j>> /\ tree[i][j] # Comment
             /\ \A k \in 1..j : tree[i][k] # Unreadable
  BY DEF Places

\* A place is a file and a line in it.
LEMMA PlaceTypes ==
  ASSUME NEW tree \in Seq(Seq(Lines)), NEW p \in Places(tree)
  PROVE  /\ p[1] \in 1..Len(tree) /\ p[2] \in 1..Len(tree[p[1]]) /\ p = <<p[1], p[2]>>
         /\ tree[p[1]][p[2]] # Comment
         /\ \A k \in 1..p[2] : tree[p[1]][k] # Unreadable
  <1>1. PICK i \in DOMAIN tree : \E j \in DOMAIN tree[i] :
             /\ p = <<i, j>> /\ tree[i][j] # Comment
             /\ \A k \in 1..j : tree[i][k] # Unreadable
    BY PlacesAre
  <1>2. PICK j \in DOMAIN tree[i] :
             /\ p = <<i, j>> /\ tree[i][j] # Comment
             /\ \A k \in 1..j : tree[i][k] # Unreadable
    BY <1>1
  <1>3. tree[i] \in Seq(Lines)
    OBVIOUS
  <1>4. p[1] = i /\ p[2] = j
    BY <1>2
  <1> QED
    BY <1>2, <1>3, <1>4

LEMMA CopiesNothing ==
  ASSUME NEW tree
  PROVE  Copies(<< >>, tree, {})
  <1>1. DOMAIN << >> = {}
    OBVIOUS
  <1>2. [k \in {} |-> k] \in [{} -> {}]
    OBVIOUS
  <1> QED
    BY <1>1, <1>2 DEF Copies

\* One more line, behind all others.
LEMMA CopiesMore ==
  ASSUME NEW tree, NEW places, NEW rules \in Seq(Nat \ {0}), Copies(rules, tree, places),
         NEW p, \A q \in places : Before(q, p), tree[p[1]][p[2]] \in Nat \ {0}
  PROVE  Copies(Append(rules, tree[p[1]][p[2]]), tree, places \cup {p})
  <1> DEFINE line == tree[p[1]][p[2]]
             more == Append(rules, line)
             n == Len(rules)
  <1> DEFINE Orders(from, dom, text_, all) ==
        /\ \A q \in all : \E k \in dom : from[k] = q
        /\ \A k, l \in dom : k < l => Before(from[k], from[l])
        /\ \A k \in dom : text_[k] = tree[from[k][1]][from[k][2]]
  <1>10. PICK from \in [DOMAIN rules -> places] : Orders(from, DOMAIN rules, rules, places)
    BY Zenon DEF Copies
  <1>11. DOMAIN rules = 1..n
    OBVIOUS
  <1>1. from \in [1..n -> places] /\ Orders(from, 1..n, rules, places)
    BY <1>10, <1>11, Zenon
  <1>2. /\ n \in Nat /\ DOMAIN more = 1..(n + 1) /\ more[n + 1] = line
        /\ \A k \in 1..n : more[k] = rules[k]
    OBVIOUS
  <1> HIDE DEF more, n, line
  <1> DEFINE to == [k \in 1..(n + 1) |-> IF k = n + 1 THEN p ELSE from[k]]
  <1>3. /\ to[n + 1] = p /\ \A k \in 1..n : to[k] = from[k]
        /\ to \in [1..(n + 1) -> places \cup {p}]
    <2>1. \A k \in 1..(n + 1) : k = n + 1 \/ (k \in 1..n /\ k # n + 1)
      BY <1>2
    <2>2. n + 1 \in 1..(n + 1) /\ \A k \in 1..n : k \in 1..(n + 1) /\ k # n + 1
      BY <1>2
    <2>3. \A k \in 1..n : from[k] \in places
      BY <1>1
    <2> HIDE DEF Orders
    <2> QED
      BY <2>1, <2>2, <2>3, Zenon
  <1> HIDE DEF to
  <1>4. \A q \in places \cup {p} : \E k \in 1..(n + 1) : to[k] = q
    BY <1>1, <1>2, <1>3
  <1>5. \A k, l \in 1..(n + 1) : k < l => Before(to[k], to[l])
    <2> SUFFICES ASSUME NEW k \in 1..(n + 1), NEW l \in 1..(n + 1), k < l
                 PROVE  Before(to[k], to[l])
      OBVIOUS
    <2>1. k \in 1..n
      BY <1>2
    <2>2. to[k] = from[k] /\ from[k] \in places
      BY <1>1, <1>3, <2>1
    <2>3. CASE l = n + 1
      BY <1>3, <2>2, <2>3
    <2>4. CASE l # n + 1
      <3>1. l \in 1..n
        BY <1>2, <2>4
      <3> QED
        BY <1>1, <1>3, <2>1, <2>2, <3>1
    <2> QED
      BY <2>3, <2>4
  <1>6. \A k \in 1..(n + 1) : more[k] = tree[to[k][1]][to[k][2]]
    <2> SUFFICES ASSUME NEW k \in 1..(n + 1) PROVE more[k] = tree[to[k][1]][to[k][2]]
      OBVIOUS
    <2>1. CASE k = n + 1
      BY <1>2, <1>3, <2>1 DEF line
    <2>2. CASE k # n + 1
      <3>1. k \in 1..n
        BY <1>2, <2>2
      <3> QED
        BY <1>1, <1>2, <1>3, <3>1
    <2> QED
      BY <2>1, <2>2
  <1>7. to \in [DOMAIN more -> places \cup {p}] /\ Orders(to, DOMAIN more, more, places \cup {p})
    BY <1>2, <1>3, <1>4, <1>5, <1>6, Zenon
  <1>8. Copies(more, tree, places \cup {p})
    BY <1>7, Zenon DEF Copies
  <1> QED
    BY <1>8 DEF more, line

LEMMA TreeTypes ==
  ASSUME NEW tree \in Trees
  PROVE  tree \in Seq(Seq(Lines)) /\ Len(tree) \in Nat
         /\ \A n \in 1..Len(tree) : tree[n] \in Seq(Lines) /\ Len(tree[n]) \in Nat
  <1>1. tree \in Seq(Seq(Lines))
    BY BundleAssumption
  <1> QED
    BY <1>1

LEMMA NoPlacesYet ==
  ASSUME NEW tree \in Trees
  PROVE  /\ PlacesTo(tree, 1, 0) = {}
         /\ PlacesTo(tree, Len(tree) + 1, 0) = Places(tree)
  <1>1. \A p \in Places(tree) : p[1] \in 1..Len(tree) /\ p[2] \in 1..Len(tree[p[1]])
    BY PlaceTypes, TreeTypes
  <1>2. \A p \in Places(tree) : p[1] \in Nat /\ p[1] >= 1 /\ p[1] <= Len(tree) /\ p[2] >= 1
                               /\ p[2] \in Int
    <2> SUFFICES ASSUME NEW p \in Places(tree)
                 PROVE  p[1] \in Nat /\ p[1] >= 1 /\ p[1] <= Len(tree) /\ p[2] >= 1 /\ p[2] \in Int
      OBVIOUS
    <2>1. Len(tree) \in Nat /\ Len(tree[p[1]]) \in Nat
      BY <1>1, TreeTypes
    <2> QED
      BY <1>1, <2>1
  <1> QED
    BY <1>2, TreeTypes DEF PlacesTo

\* The line that is read next belongs to the rules, or the places stay the same.
LEMMA NextPlace ==
  ASSUME NEW tree \in Trees, NEW n \in 1..Len(tree), NEW j \in 0..(Len(tree[n]) - 1),
         \A k \in 1..j : tree[n][k] # Unreadable, tree[n][j + 1] # Unreadable
  PROVE  /\ tree[n][j + 1] = Comment => PlacesTo(tree, n, j + 1) = PlacesTo(tree, n, j)
         /\ tree[n][j + 1] # Comment =>
              /\ PlacesTo(tree, n, j + 1) = PlacesTo(tree, n, j) \cup {<<n, j + 1>>}
              /\ \A q \in PlacesTo(tree, n, j) : Before(q, <<n, j + 1>>)
         /\ tree[n][j + 1] \in Nat
  <1>1. tree \in Seq(Seq(Lines)) /\ tree[n] \in Seq(Lines) /\ Len(tree[n]) \in Nat /\ n \in Nat
    BY TreeTypes
  <1>2. j \in Nat /\ j + 1 \in 1..Len(tree[n]) /\ tree[n][j + 1] \in Lines
    BY <1>1
  <1>3. tree[n][j + 1] \in Nat
    BY <1>2 DEF Lines
  <1>4. ASSUME NEW p \in Places(tree)
        PROVE  /\ p[1] \in Int /\ p[2] \in Int /\ p = <<p[1], p[2]>>
               /\ p[1] = n /\ p[2] = j + 1 => tree[n][j + 1] # Comment
    <2>1. /\ p[1] \in 1..Len(tree) /\ p[2] \in 1..Len(tree[p[1]]) /\ p = <<p[1], p[2]>>
          /\ tree[p[1]][p[2]] # Comment
      BY <1>1, PlaceTypes
    <2> QED
      BY <2>1
  <1>5. CASE tree[n][j + 1] = Comment
    <2>1. ASSUME NEW p \in Places(tree)
          PROVE  (p[1] < n \/ (p[1] = n /\ p[2] <= j + 1)) <=> (p[1] < n \/ (p[1] = n /\ p[2] <= j))
      BY <1>2, <1>4, <1>5, <2>1
    <2> QED
      BY <1>3, <1>5, <2>1 DEF PlacesTo
  <1>6. CASE tree[n][j + 1] # Comment
    <2> DEFINE new == <<n, j + 1>>
    <2>1. \A k \in 1..(j + 1) : tree[n][k] # Unreadable
      <3> SUFFICES ASSUME NEW k \in 1..(j + 1) PROVE tree[n][k] # Unreadable
        OBVIOUS
      <3>1. k \in 1..j \/ k = j + 1
        BY <1>2
      <3> QED
        BY <3>1
    <2>2. n \in DOMAIN tree /\ j + 1 \in DOMAIN tree[n]
      BY <1>1, <1>2
    <2>3. new \in Places(tree)
      BY <1>6, <2>1, <2>2, PlacesAre
    <2>4. new[1] = n /\ new[2] = j + 1
      OBVIOUS
    <2>5. ASSUME NEW p \in Places(tree)
          PROVE  (p[1] < n \/ (p[1] = n /\ p[2] <= j + 1)) <=>
                   (p[1] < n \/ (p[1] = n /\ p[2] <= j)) \/ p = new
      <3>1. p[1] \in Int /\ p[2] \in Int /\ p = <<p[1], p[2]>>
        BY <1>4
      <3>2. p[1] = n /\ p[2] = j + 1 => p = new
        BY <3>1
      <3> QED
        BY <1>1, <1>2, <2>4, <3>1, <3>2
    <2>6. PlacesTo(tree, n, j + 1) = PlacesTo(tree, n, j) \cup {new}
      <3> HIDE DEF new
      <3> QED
        BY <1>1, <1>2, <2>3, <2>4, <2>5 DEF PlacesTo
    <2>7. \A q \in PlacesTo(tree, n, j) : Before(q, new)
      <3> SUFFICES ASSUME NEW q \in PlacesTo(tree, n, j) PROVE Before(q, new)
        OBVIOUS
      <3>1. q \in Places(tree) /\ (q[1] < n \/ (q[1] = n /\ q[2] <= j))
        BY DEF PlacesTo
      <3>2. q[1] \in Int /\ q[2] \in Int
        BY <1>4, <3>1
      <3> HIDE DEF new
      <3> QED
        BY <1>1, <1>2, <2>4, <3>1, <3>2 DEF Before
    <2> QED
      BY <1>3, <1>6, <2>6, <2>7
  <1> QED
    BY <1>3, <1>5, <1>6

\* The end of a file, or the line at which the scanner gives up.
LEMMA LastPlace ==
  ASSUME NEW tree \in Trees, NEW n \in 1..Len(tree), NEW j \in 0..Len(tree[n]),
         j = Len(tree[n]) \/ tree[n][j + 1] = Unreadable
  PROVE  PlacesTo(tree, n + 1, 0) = PlacesTo(tree, n, j)
  <1>1. tree \in Seq(Seq(Lines)) /\ Len(tree[n]) \in Nat /\ n \in Nat /\ j \in Nat
    BY TreeTypes
  <1>2. ASSUME NEW p \in Places(tree)
        PROVE  (p[1] < n + 1 \/ (p[1] = n + 1 /\ p[2] <= 0)) <=>
                 (p[1] < n \/ (p[1] = n /\ p[2] <= j))
    <2>1. /\ p[1] \in 1..Len(tree) /\ p[2] \in 1..Len(tree[p[1]])
          /\ \A k \in 1..p[2] : tree[p[1]][k] # Unreadable
      BY <1>1, PlaceTypes
    <2>2. p[1] \in Int /\ p[2] \in Int /\ p[2] >= 1
      BY <2>1, TreeTypes
    <2>3. p[1] = n => p[2] <= j
      <3>1. ASSUME p[1] = n, p[2] > j PROVE FALSE
        <4>1. j + 1 \in 1..p[2] /\ p[2] <= Len(tree[n])
          BY <1>1, <2>1, <2>2, <3>1
        <4>2. tree[n][j + 1] # Unreadable
          BY <2>1, <3>1, <4>1
        <4> QED
          BY <1>1, <2>2, <3>1, <4>1, <4>2
      <3> QED
        BY <1>1, <2>2, <3>1
    <2> QED
      BY <1>1, <2>2, <2>3
  <1> QED
    BY <1>2 DEF PlacesTo

BuildInv == BuildTypes /\ PassInv

LEMMA IncompleteType ==
  /\ Incomplete \in [func : {"none", "init", "Init"}, rules : Seq(Nat \ {0})]
  /\ Incomplete.func = "none"
  BY DEF Incomplete

LEMMA BuildStarts == BuildInit => BuildInv
  <1> SUFFICES ASSUME BuildInit PROVE BuildInv
    OBVIOUS
  <1>1. /\ step = "idle" /\ rest = << >> /\ lines = << >> /\ asset = << >>
        /\ source = [func |-> "none", rules |-> << >>]
    BY DEF BuildInit, Incomplete
  <1>2. BuildTypes
    BY <1>1 DEF BuildTypes
  <1> QED
    BY <1>1, <1>2 DEF BuildInv, PassInv

LEMMA PrepareBuilds ==
  ASSUME BuildInv, NEW tree \in Trees, Prepare(tree)
  PROVE  BuildInv'
  <1>1. /\ step' = "glob" /\ rest' = tree /\ asset' = << >> /\ lines' = lines /\ source' = source
    BY DEF Prepare, Steps
  <1>2. tree \in Seq(Seq(Lines)) /\ Len(tree) \in Nat
    BY TreeTypes
  <1>3. BuildTypes'
    BY <1>1, <1>2 DEF BuildInv, BuildTypes
  <1>4. Remains(tree, tree, 0)
    BY <1>2 DEF Remains
  <1>5. Copies(<< >>, tree, PlacesTo(tree, 0 + 1, 0))
    <2>1. Copies(<< >>, tree, {}) /\ PlacesTo(tree, 1, 0) = {}
      BY NoPlacesYet, CopiesNothing
    <2>2. 0 + 1 = 1
      OBVIOUS
    <2> HIDE DEF Copies
    <2> QED
      BY <2>1, <2>2, Zenon
  <1>6. 0 \in 0..Len(tree)
    BY <1>2
  <1>7. BetweenFiles'
    BY <1>1, <1>4, <1>5, <1>6 DEF BetweenFiles
  <1> QED
    BY <1>1, <1>3, <1>7 DEF BuildInv, PassInv

LEMMA HeadRemains ==
  ASSUME NEW S, NEW left \in Seq(S), left # << >>, NEW whole \in Seq(S),
         NEW n \in 0..Len(whole), Remains(left, whole, n)
  PROVE  /\ n + 1 \in 1..Len(whole) /\ Head(left) = whole[n + 1]
         /\ Remains(Tail(left), whole, n + 1)
         /\ Tail(left) \in Seq(S) /\ Head(left) \in S
  <1>1. Len(left) \in Nat /\ Len(whole) \in Nat /\ n \in Nat /\ Len(left) # 0
    <2>1. Len(left) = 0 => left = << >>
      OBVIOUS
    <2> QED
      BY <2>1
  <1>2. /\ Head(left) = left[1] /\ Len(Tail(left)) = Len(left) - 1 /\ Tail(left) \in Seq(S)
        /\ \A i \in 1..Len(Tail(left)) : Tail(left)[i] = left[i + 1]
    BY <1>1
  <1>3. Len(left) = Len(whole) - n /\ \A i \in 1..Len(left) : left[i] = whole[n + i]
    BY DEF Remains
  <1>4. n + 1 \in 1..Len(whole) /\ Head(left) = whole[n + 1] /\ whole[n + 1] \in S
    BY <1>1, <1>2, <1>3
  <1> DEFINE t == Tail(left)
  <1> HIDE DEF t
  <1>5. Len(t) = Len(whole) - (n + 1)
    BY <1>1, <1>2, <1>3 DEF t
  <1>6. ASSUME NEW i \in 1..Len(t) PROVE t[i] = whole[(n + 1) + i]
    <2>1. t[i] = left[i + 1] /\ i + 1 \in 1..Len(left)
      BY <1>1, <1>2, <1>6 DEF t
    <2>2. left[i + 1] = whole[n + (i + 1)]
      BY <1>3, <2>1
    <2>3. n + (i + 1) = (n + 1) + i
      BY <1>1
    <2> QED
      BY <2>1, <2>2, <2>3
  <1>7. Remains(t, whole, n + 1)
    BY <1>4, <1>5, <1>6 DEF Remains
  <1> QED
    BY <1>2, <1>4, <1>7 DEF t

LEMMA OpenFileBuilds ==
  ASSUME BuildInv, OpenFile
  PROVE  BuildInv'
  <1>1. /\ step = "files" /\ step' = "scan" /\ rest # << >>
        /\ lines' = Head(rest) /\ rest' = Tail(rest) /\ asset' = asset /\ source' = source
    BY DEF OpenFile, Steps
  <1>2. PICK tree \in Trees : \E n \in 0..Len(tree) :
          Remains(rest, tree, n) /\ Copies(asset, tree, PlacesTo(tree, n + 1, 0))
    BY <1>1 DEF BuildInv, PassInv, BetweenFiles
  <1>3. PICK n \in 0..Len(tree) :
          Remains(rest, tree, n) /\ Copies(asset, tree, PlacesTo(tree, n + 1, 0))
    BY <1>2
  <1>4. tree \in Seq(Seq(Lines)) /\ rest \in Seq(Seq(Lines))
    BY TreeTypes DEF BuildInv, BuildTypes
  <1>5. /\ n + 1 \in 1..Len(tree) /\ lines' = tree[n + 1] /\ Remains(rest', tree, n + 1)
        /\ rest' \in Seq(Seq(Lines)) /\ lines' \in Seq(Lines)
    BY <1>1, <1>3, <1>4, HeadRemains
  <1>6. BuildTypes'
    BY <1>1, <1>5 DEF BuildInv, BuildTypes
  <1>7. Remains(lines', tree[n + 1], 0) /\ 0 \in 0..Len(tree[n + 1])
    <2>1. Len(tree[n + 1]) \in Nat
      BY <1>5, TreeTypes
    <2> QED
      BY <1>5, <2>1 DEF Remains
  <1>8. \A k \in 1..0 : tree[n + 1][k] # Unreadable
    OBVIOUS
  <1>9. InFile'
    BY <1>1, <1>3, <1>5, <1>7, <1>8 DEF InFile
  <1> QED
    BY <1>1, <1>6, <1>9 DEF BuildInv, PassInv

LEMMA ScanLineBuilds ==
  ASSUME BuildInv, ScanLine
  PROVE  BuildInv'
  <1>1. /\ step = "scan" /\ step' = "scan" /\ lines # << >> /\ Head(lines) # Unreadable
        /\ asset' = IF Head(lines) = Comment THEN asset ELSE Append(asset, Head(lines))
        /\ lines' = Tail(lines) /\ rest' = rest /\ source' = source
    BY DEF ScanLine, Steps
  <1>2. PICK tree \in Trees : \E n \in 1..Len(tree) : \E j \in 0..Len(tree[n]) :
    /\ Remains(rest, tree, n) /\ Remains(lines, tree[n], j)
    /\ \A k \in 1..j : tree[n][k] # Unreadable
    /\ Copies(asset, tree, PlacesTo(tree, n, j))
    BY <1>1 DEF BuildInv, PassInv, InFile
  <1>3. PICK n \in 1..Len(tree) : \E j \in 0..Len(tree[n]) :
    /\ Remains(rest, tree, n) /\ Remains(lines, tree[n], j)
    /\ \A k \in 1..j : tree[n][k] # Unreadable
    /\ Copies(asset, tree, PlacesTo(tree, n, j))
    BY <1>2
  <1>4. PICK j \in 0..Len(tree[n]) :
    /\ Remains(rest, tree, n) /\ Remains(lines, tree[n], j)
    /\ \A k \in 1..j : tree[n][k] # Unreadable
    /\ Copies(asset, tree, PlacesTo(tree, n, j))
    BY <1>3
  <1>5. /\ tree[n] \in Seq(Lines) /\ lines \in Seq(Lines) /\ asset \in Seq(Nat \ {0})
        /\ Len(tree[n]) \in Nat
    BY TreeTypes DEF BuildInv, BuildTypes
  <1>6. /\ j + 1 \in 1..Len(tree[n]) /\ Head(lines) = tree[n][j + 1]
        /\ Remains(lines', tree[n], j + 1) /\ lines' \in Seq(Lines)
    BY <1>1, <1>4, <1>5, HeadRemains
  <1>7. j \in 0..(Len(tree[n]) - 1) /\ j + 1 \in 0..Len(tree[n])
    BY <1>5, <1>6
  <1>8. tree[n][j + 1] # Unreadable
    BY <1>1, <1>6
  <1>9. /\ tree[n][j + 1] = Comment => PlacesTo(tree, n, j + 1) = PlacesTo(tree, n, j)
        /\ tree[n][j + 1] # Comment =>
              /\ PlacesTo(tree, n, j + 1) = PlacesTo(tree, n, j) \cup {<<n, j + 1>>}
              /\ \A q \in PlacesTo(tree, n, j) : Before(q, <<n, j + 1>>)
        /\ tree[n][j + 1] \in Nat
    BY <1>4, <1>7, <1>8, NextPlace
  <1>10. Copies(asset', tree, PlacesTo(tree, n, j + 1)) /\ asset' \in Seq(Nat \ {0})
    <2>1. CASE tree[n][j + 1] = Comment
      BY <1>1, <1>4, <1>5, <1>6, <1>9, <2>1
    <2>2. CASE tree[n][j + 1] # Comment
      <3> DEFINE p == <<n, j + 1>>
                 line == tree[n][j + 1]
      <3>1. p[1] = n /\ p[2] = j + 1
        OBVIOUS
      <3>2. tree[p[1]][p[2]] = line /\ line \in Nat \ {0}
        BY <1>9, <2>2, <3>1 DEF Comment
      <3>3. \A q \in PlacesTo(tree, n, j) : Before(q, p)
        BY <1>9, <2>2
      <3>4. asset' = Append(asset, line) /\ PlacesTo(tree, n, j + 1) = PlacesTo(tree, n, j) \cup {p}
        BY <1>1, <1>6, <1>9, <2>2
      <3> HIDE DEF p, line
      <3>5. Copies(Append(asset, line), tree, PlacesTo(tree, n, j) \cup {p})
        BY <1>4, <1>5, <3>2, <3>3, CopiesMore
      <3>6. Append(asset, line) \in Seq(Nat \ {0})
        BY <1>5, <3>2
      <3> QED
        BY <3>4, <3>5, <3>6
    <2> QED
      BY <2>1, <2>2
  <1>11. \A k \in 1..(j + 1) : tree[n][k] # Unreadable
    <2> SUFFICES ASSUME NEW k \in 1..(j + 1) PROVE tree[n][k] # Unreadable
      OBVIOUS
    <2>1. k \in 1..j \/ k = j + 1
      BY <1>7
    <2> QED
      BY <1>4, <1>8, <2>1
  <1>12. InFile'
    BY <1>1, <1>4, <1>6, <1>7, <1>10, <1>11 DEF InFile
  <1>13. BuildTypes'
    BY <1>1, <1>6, <1>10 DEF BuildInv, BuildTypes
  <1> QED
    BY <1>1, <1>12, <1>13 DEF BuildInv, PassInv

LEMMA EndOfFileBuilds ==
  ASSUME BuildInv, EndOfFile
  PROVE  BuildInv'
  <1>1. /\ step = "scan" /\ step' = "files" /\ (lines # << >> => Head(lines) = Unreadable)
        /\ lines' = << >> /\ rest' = rest /\ source' = source /\ asset' = asset
    BY DEF EndOfFile, Steps
  <1>2. PICK tree \in Trees : \E n \in 1..Len(tree) : \E j \in 0..Len(tree[n]) :
    /\ Remains(rest, tree, n) /\ Remains(lines, tree[n], j)
    /\ \A k \in 1..j : tree[n][k] # Unreadable
    /\ Copies(asset, tree, PlacesTo(tree, n, j))
    BY <1>1 DEF BuildInv, PassInv, InFile
  <1>3. PICK n \in 1..Len(tree) : \E j \in 0..Len(tree[n]) :
    /\ Remains(rest, tree, n) /\ Remains(lines, tree[n], j)
    /\ Copies(asset, tree, PlacesTo(tree, n, j))
    BY <1>2
  <1>4. PICK j \in 0..Len(tree[n]) :
    /\ Remains(rest, tree, n) /\ Remains(lines, tree[n], j)
    /\ Copies(asset, tree, PlacesTo(tree, n, j))
    BY <1>3
  <1>5. tree[n] \in Seq(Lines) /\ lines \in Seq(Lines) /\ Len(tree[n]) \in Nat /\ Len(tree) \in Nat
    BY TreeTypes DEF BuildInv, BuildTypes
  <1>6. j = Len(tree[n]) \/ tree[n][j + 1] = Unreadable
    <2>1. CASE lines = << >>
      BY <1>4, <1>5, <2>1 DEF Remains
    <2>2. CASE lines # << >>
      BY <1>1, <1>4, <1>5, <2>2, HeadRemains
    <2> QED
      BY <2>1, <2>2
  <1>7. PlacesTo(tree, n + 1, 0) = PlacesTo(tree, n, j)
    BY <1>6, LastPlace
  <1>8. n \in 0..Len(tree)
    BY <1>5
  <1>9. BetweenFiles'
    BY <1>1, <1>4, <1>7, <1>8 DEF BetweenFiles
  <1>10. BuildTypes'
    BY <1>1 DEF BuildInv, BuildTypes
  <1> QED
    BY <1>1, <1>9, <1>10 DEF BuildInv, PassInv

LEMMA StartFileb0xBuilds ==
  ASSUME BuildInv, StartFileb0x
  PROVE  BuildInv'
  <1>1. /\ step = "files" /\ step' = "fileb0x" /\ rest = << >>
        /\ UNCHANGED <<rest, lines, asset, source>>
    BY DEF StartFileb0x, Steps
  <1>2. PICK tree \in Trees : \E n \in 0..Len(tree) :
          Remains(rest, tree, n) /\ Copies(asset, tree, PlacesTo(tree, n + 1, 0))
    BY <1>1 DEF BuildInv, PassInv, BetweenFiles
  <1>3. PICK n \in 0..Len(tree) :
          Remains(rest, tree, n) /\ Copies(asset, tree, PlacesTo(tree, n + 1, 0))
    BY <1>2
  <1>4. n = Len(tree)
    BY <1>1, <1>3, TreeTypes DEF Remains
  <1>5. Listed(asset)
    BY <1>3, <1>4, NoPlacesYet DEF Listed
  <1>6. BuildTypes'
    BY <1>1 DEF BuildInv, BuildTypes
  <1> QED
    BY <1>1, <1>5, <1>6 DEF BuildInv, PassInv

LEMMA Fileb0xBuilds ==
  ASSUME BuildInv, Fileb0x
  PROVE  BuildInv'
  <1>1. UNCHANGED <<rest, lines, asset>>
    BY DEF Fileb0x
  <1>2. CASE /\ step \in {"fileb0x", "again"} /\ step' = "replace"
             /\ source' \in {Generated(func, asset) : func \in {"init", "Init"}}
    <2>1. /\ source' \in [func : {"none", "init", "Init"}, rules : Seq(Nat \ {0})]
          /\ source'.rules = asset /\ source'.func # "none"
      BY <1>2 DEF Generated, BuildInv, BuildTypes
    <2> QED
      BY <1>1, <1>2, <2>1 DEF BuildInv, BuildTypes, PassInv
  <1>3. CASE /\ step = "fileb0x" /\ step' = "install" /\ source' \in {source, Incomplete}
    BY <1>1, <1>3, IncompleteType DEF BuildInv, BuildTypes, PassInv
  <1>4. CASE /\ step = "again" /\ step' = "idle" /\ source' \in {source, Incomplete}
    BY <1>1, <1>4, IncompleteType DEF BuildInv, BuildTypes, PassInv
  <1> QED
    BY <1>2, <1>3, <1>4 DEF Fileb0x, Steps

LEMMA BuildKeeps ==
  ASSUME BuildInv, BuildNext
  PROVE  BuildInv'
  <1>1. CASE Glob
    BY <1>1 DEF Glob, Steps, BuildInv, BuildTypes, PassInv, BetweenFiles
  <1>2. CASE Install
    BY <1>2 DEF Install, Steps, BuildInv, BuildTypes, PassInv
  <1>3. CASE Truncate
    <2>1. /\ step = "replace" /\ step' = "rename" /\ lines' = source.rules
          /\ source' = Incomplete /\ rest' = rest /\ asset' = asset
      BY <1>3 DEF Truncate, Steps
    <2>2. Listed(source.rules) /\ source.rules \in Seq(Nat \ {0})
      BY <2>1 DEF BuildInv, BuildTypes, PassInv
    <2>3. Nat \ {0} \subseteq Lines
      BY DEF Lines
    <2>4. source.rules \in Seq(Lines)
      BY <2>2, <2>3
    <2> QED
      BY <2>1, <2>2, <2>4, IncompleteType DEF BuildInv, BuildTypes, PassInv
  <1>4. CASE Rename
    BY <1>4 DEF Rename, Steps, Generated, BuildInv, BuildTypes, PassInv
  <1>5. CASE Fail
    BY <1>5 DEF Fail, BuildInv, BuildTypes, PassInv
  <1> QED
    BY <1>1, <1>2, <1>3, <1>4, <1>5, PrepareBuilds, OpenFileBuilds, ScanLineBuilds,
       EndOfFileBuilds, StartFileb0xBuilds, Fileb0xBuilds DEF BuildNext

-----------------------------------------------------------------------------
(* The tool. *)

Set == ms[ToolHandle]

\* A handle that has a database, or says why not.
Reasons == {NotOpen, ErrorFor(Main, "load")}
Usable(s) == s.open = "open" /\ s.db # NoDatabase
Loads(s) ==
  \/ s.open = "null" \/ Usable(s)
  \/ s.open = "open" /\ s.event # "none" /\ s.buf = ErrorFor(Main, "load")

Calling(ops) == call[Main].op \in ops /\ call[Main].h = ToolHandle

Asking == {"targets", "asking", "exit 1"}

\* What holds after every step of doFile.
ToolInv ==
  /\ args \in Commands /\ ~dead
  /\ printed \in Seq(Texts) /\ \A i \in 1..Len(printed) : printed[i] = DescriptionFor(Main)
  /\ printed # << >> =>
       doing \in {"closing", "exit 0"} \/ (doing \in Asking /\ Usable(Set))
  /\ doing \in {"flags", "load", "targets", "exit 0", "exit 1"} => at[Main] = "idle"
  /\ doing = "flags" => Set.open = "none"
  /\ doing = "load" => Set.open \in {"null", "open"}
  /\ doing = "loading" =>
       /\ at[Main] \in {"bundle", "lock", "c", "unlock"}
       /\ Calling({"Load", "LoadDefaultMagic"}) /\ Set.open \in {"null", "open"}
       /\ at[Main] = "unlock" => Loads(Set)
  /\ doing \in {"targets", "asking"} => Loads(Set)
  /\ doing = "asking" =>
       /\ at[Main] \in {"lock", "c", "error", "copy", "unlock"} /\ Calling({"File"})
       /\ ~Usable(Set) => /\ at[Main] = "copy" => Deref(Set, out[Main]) = ErrorText(Set)
                          /\ at[Main] = "unlock" => ret[Main] = ErrorText(Set)
  /\ doing = "closing" =>
       /\ at[Main] \in {"lock", "c", "unlock"} /\ Calling({"Close"})
       /\ at[Main] # "unlock" => Set.open \in {"null", "open"}
  /\ doing \in {"closing", "exit 0"} => Len(printed) = args.targets
  /\ doing = "exit 1" =>
       /\ Set.open # "closed"
       /\ args.type # "other" => Usable(Set) \/ (printed = << >> /\ said \in Reasons)
  /\ doing \in {"flags", "load", "loading", "closing", "exit 0"} \cup Asking

\* How a load ends, and what it leaves for those who do not look at its answer.
LEMMA ApprenticeLoads ==
  ASSUME NEW s \in Sets, s.open \in {"null", "open"}, NEW db \in Databases, db # NoDatabase,
         NEW r \in Apprentice(Main, s, db)
  PROVE  Loads(r[1]) /\ r[1].open = s.open
  <1> DEFINE t == ErrorFor(Main, "load")
             q(d) == [Reset(s) EXCEPT !.db = d]
  <1>1. t \in Texts
    BY TextsOf, ToolAssumption
  <1>2. ASSUME NEW d \in Databases
        PROVE  q(d) \in Sets /\ q(d).open = s.open /\ q(d).db = d /\ q(d).event = "none"
    BY ResetType DEF Sets
  <1>3. CASE s.open = "null"
    <2>1. r = <<s, "-1">>
      BY <1>3 DEF Apprentice
    <2> QED
      BY <1>3, <2>1 DEF Loads
  <1>4. CASE s.open # "null"
    <2>1. r \in {<<q(db), "0">>, <<Raise(q(db), "code", t), "0">>}
             \cup {<<Raise(q(d), n, t), "-1">> :
                     d \in {Reset(s).db, NoDatabase}, n \in {"0", "code"}}
      BY <1>4 DEF Apprentice
    <2>2. Reset(s).db \in Databases /\ NoDatabase \in Databases /\ s.open = "open"
      BY <1>4, ResetType DEF Sets, NoDatabase, Database, Databases
    <2> HIDE DEF q, t
    <2>3. ASSUME NEW d \in Databases, NEW n \in {"0", "code"}
          PROVE  /\ Raise(q(d), n, t).open = "open" /\ Raise(q(d), n, t).event = n
                 /\ Raise(q(d), n, t).buf = t
      BY <1>1, <1>2, <2>2, RaiseType
    <2>4. CASE r = <<q(db), "0">>
      BY <1>2, <2>2, <2>4 DEF Loads, Usable
    <2>5. CASE r = <<Raise(q(db), "code", t), "0">>
      BY <2>2, <2>3, <2>5 DEF Loads, t
    <2>6. CASE \E d \in {Reset(s).db, NoDatabase}, n \in {"0", "code"} :
                  r = <<Raise(q(d), n, t), "-1">>
      <3>1. PICK d \in Databases, n \in {"0", "code"} : r = <<Raise(q(d), n, t), "-1">>
        BY <2>2, <2>6
      <3> QED
        BY <2>2, <2>3, <3>1 DEF Loads, t
    <2> QED
      BY <2>1, <2>4, <2>5, <2>6
  <1> QED
    BY <1>3, <1>4

\* What identifying a file leaves of it.
LEMMA IdentifiedLoads ==
  ASSUME NEW s \in Sets, Loads(s), NEW r \in Identified(Main, s)
  PROVE  /\ Loads(r[1]) /\ (Usable(s) => Usable(r[1]))
         /\ ~Usable(s) => r[1] = s /\ r[2] = "null"
  <1> DEFINE found == [Reset(s) EXCEPT !.buf = DescriptionFor(Main),
                                       !.pbuf = IF s.raw THEN None ELSE DescriptionFor(Main)]
  <1>1. CASE Usable(s)
    <2>1. s.open = "open" /\ s.db # NoDatabase /\ ErrorFor(Main, "file") \in Texts
      BY <1>1, TextsOf, ToolAssumption DEF Usable
    <2>2. /\ Reset(s) \in Sets /\ Reset(s).open = "open" /\ Reset(s).db # NoDatabase
      BY <2>1, ResetType
    <2>3. found.open = "open" /\ found.db # NoDatabase
      BY <2>2 DEF Sets
    <2> DEFINE q == Reset(s)
               t == ErrorFor(Main, "file")
    <2>4. r \in {<<found, IF s.raw THEN "buf" ELSE "pbuf">>, <<Raise(q, "code", t), "null">>,
                 <<q, "null">>}
      BY <2>1 DEF Identified
    <2> HIDE DEF q, t, found
    <2>5. Raise(q, "code", t).open = "open" /\ Raise(q, "code", t).db # NoDatabase
      BY <2>1, <2>2, RaiseType DEF q, t
    <2>6. Usable(r[1])
      BY <2>2, <2>3, <2>4, <2>5 DEF Usable, q
    <2> QED
      BY <1>1, <2>6 DEF Loads
  <1>2. CASE ~Usable(s)
    <2>1. CASE s.open = "null"
      <3>1. r = <<s, "null">>
        BY <2>1 DEF Identified
      <3> QED
        BY <1>2, <3>1
    <2>2. CASE s.open # "null"
      <3>1. s.db = NoDatabase /\ s.event # "none"
        BY <1>2, <2>2 DEF Loads, Usable
      <3>2. r = <<Raise(s, "0", NoRules), "null">> /\ Raise(s, "0", NoRules) = s
        BY <2>2, <3>1 DEF Identified, Raise
      <3> QED
        BY <1>2, <3>2
    <2> QED
      BY <2>1, <2>2
  <1> QED
    BY <1>1, <1>2

\* Why a file is not described: what the load has left in the handle.
LEMMA WhyNot ==
  ASSUME NEW s, Loads(s), ~Usable(s)
  PROVE  ErrorText(s) \in Reasons
  BY DEF Loads, ErrorText, Reasons

LEMMA NoReasonDescribes == DescriptionFor(Main) \notin Reasons
  BY DEF DescriptionFor, Reasons, NotOpen, ErrorFor

LEMMA ToolTypes ==
  ASSUME HInv
  PROVE  /\ Main \in Goroutines /\ ToolHandle \in Handles /\ Set \in Sets
         /\ DOMAIN at = Goroutines /\ DOMAIN call = Goroutines /\ DOMAIN ms = Handles
         /\ DOMAIN out = Goroutines /\ DOMAIN ret = Goroutines
  BY ToolAssumption DEF HInv, HandlesOK, Set

\* The steps of the tool, one after the other.

LEMMA WrongTypeTool ==
  ASSUME HInv, ToolInv, WrongType
  PROVE  ToolInv'
  <1>1. /\ doing = "flags" /\ doing' = "exit 1" /\ args.type = "other"
        /\ UNCHANGED <<ms, at, call, out, ret, dead, args, printed>>
    BY DEF WrongType, Does, goVars, handleVars
  <1>2. Set' = Set
    BY <1>1 DEF Set
  <1>3. printed = << >>
    BY <1>1 DEF ToolInv, Asking
  <1> QED
    BY <1>1, <1>2, <1>3 DEF ToolInv, Asking

LEMMA OpenHandleTool ==
  ASSUME HInv, ToolInv, OpenHandle
  PROVE  ToolInv'
  <1>1. /\ doing = "flags" /\ doing' = "load"
        /\ UNCHANGED <<at, call, out, ret, dead, args, printed>>
        /\ NewMagicHandle(Main, ToolHandle)
    BY DEF OpenHandle, Does, NewMagicHandle
  <1>2. Set'.open \in {"null", "open"}
    BY <1>1, ToolTypes DEF Set, NewMagicHandle, Opened
  <1>3. printed = << >>
    BY <1>1 DEF ToolInv, Asking
  <1> QED
    BY <1>1, <1>2, <1>3 DEF ToolInv, Asking

\* A call of the handle begins.
LEMMA CallTool ==
  ASSUME HInv, NEW op \in Operations, NEW place \in {"lock", "bundle"},
         Goes(Main, "idle", place), UNCHANGED <<ms, dead>>,
         call' = [call EXCEPT ![Main] = [op |-> op, h |-> ToolHandle]]
  PROVE  /\ at'[Main] = place /\ call'[Main].op = op /\ call'[Main].h = ToolHandle
         /\ Set' = Set /\ dead' = dead
  BY ToolTypes DEF Goes, Set

LEMMA LoadDatabaseTool ==
  ASSUME HInv, ToolInv, LoadDatabase
  PROVE  ToolInv'
  <1>1. /\ doing = "load" /\ doing' = "loading" /\ UNCHANGED <<args, printed>>
        /\ Call(Main, "Load", ToolHandle) \/ CallDefault(Main, ToolHandle)
    BY DEF LoadDatabase, Does
  <1>2. /\ at'[Main] \in {"lock", "bundle"} /\ Set' = Set /\ dead' = dead
        /\ call'[Main].op \in {"Load", "LoadDefaultMagic"} /\ call'[Main].h = ToolHandle
    <2>1. {"Load", "LoadDefaultMagic"} \subseteq Operations
      BY DEF Operations
    <2> QED
      BY <1>1, <2>1, CallTool DEF Call, CallDefault
  <1>3. printed = << >> /\ Set.open \in {"null", "open"}
    BY <1>1 DEF ToolInv, Asking
  <1> QED
    BY <1>1, <1>2, <1>3 DEF ToolInv, Asking, Calling

LEMMA AskTargetTool ==
  ASSUME HInv, ToolInv, AskTarget
  PROVE  ToolInv'
  <1>1. /\ doing = "targets" /\ doing' = "asking" /\ UNCHANGED <<args, printed>>
        /\ Call(Main, "File", ToolHandle)
    BY DEF AskTarget, Does
  <1>2. /\ at'[Main] = "lock" /\ Set' = Set /\ dead' = dead
        /\ call'[Main].op = "File" /\ call'[Main].h = ToolHandle
    <2>1. "File" \in Operations
      BY DEF Operations
    <2> QED
      BY <1>1, <2>1, CallTool DEF Call
  <1> QED
    BY <1>1, <1>2 DEF ToolInv, Asking, Calling

LEMMA CloseHandleTool ==
  ASSUME HInv, ToolInv, CloseHandle
  PROVE  ToolInv'
  <1>1. /\ doing = "targets" /\ doing' = "closing" /\ UNCHANGED <<args, printed>>
        /\ Len(printed) = args.targets /\ Call(Main, "Close", ToolHandle)
    BY DEF CloseHandle, Does
  <1>2. /\ at'[Main] = "lock" /\ Set' = Set /\ dead' = dead
        /\ call'[Main].op = "Close" /\ call'[Main].h = ToolHandle
    <2>1. "Close" \in Operations
      BY DEF Operations
    <2> QED
      BY <1>1, <2>1, CallTool DEF Call
  <1>3. Set.open \in {"null", "open"}
    BY <1>1 DEF ToolInv, Loads, Usable
  <1> QED
    BY <1>1, <1>2, <1>3 DEF ToolInv, Asking, Calling

\* A call returns.
LEMMA UnlockTool ==
  ASSUME HInv, Unlock(Main)
  PROVE  at[Main] = "unlock" /\ at'[Main] = "idle" /\ Set' = Set /\ dead' = dead
  BY ToolTypes DEF Unlock, Goes, Set

LEMMA LoadedTool ==
  ASSUME HInv, ToolInv, Loaded
  PROVE  ToolInv'
  <1>1. /\ doing = "loading" /\ doing' = "targets" /\ UNCHANGED <<args, printed>>
        /\ Unlock(Main)
    BY DEF Loaded, Does
  <1>2. at[Main] = "unlock" /\ at'[Main] = "idle" /\ Set' = Set /\ dead' = dead
    BY <1>1, UnlockTool
  <1>3. printed = << >> /\ Loads(Set)
    BY <1>1, <1>2 DEF ToolInv, Asking
  <1> QED
    BY <1>1, <1>2, <1>3 DEF ToolInv, Asking

LEMMA PrintTargetTool ==
  ASSUME HInv, ToolInv, PrintTarget
  PROVE  ToolInv'
  <1>1. /\ doing = "asking" /\ doing' = "targets" /\ UNCHANGED args
        /\ printed' = Append(printed, ret[Main]) /\ Unlock(Main)
        /\ ret[Main] = DescriptionFor(Main)
    BY DEF PrintTarget, Does, Described
  <1>2. at[Main] = "unlock" /\ at'[Main] = "idle" /\ Set' = Set /\ dead' = dead
    BY <1>1, UnlockTool
  <1>3. Loads(Set) /\ printed \in Seq(Texts) /\ DescriptionFor(Main) \in Texts
    BY <1>1, TextsOf, ToolAssumption DEF ToolInv
  <1>4. Usable(Set)
    <2>1. ~Usable(Set) => ret[Main] = ErrorText(Set)
      BY <1>1, <1>2 DEF ToolInv
    <2> QED
      BY <1>1, <1>3, <2>1, WhyNot, NoReasonDescribes
  <1> DEFINE d == DescriptionFor(Main)
  <1> HIDE DEF d
  <1>5. /\ Append(printed, d) \in Seq(Texts) /\ Len(Append(printed, d)) = Len(printed) + 1
        /\ Len(printed) \in Nat /\ Append(printed, d)[Len(printed) + 1] = d
        /\ \A i \in 1..Len(printed) : Append(printed, d)[i] = printed[i]
    BY <1>3 DEF d
  <1>6. \A i \in 1..Len(printed') : printed'[i] = d
    <2> SUFFICES ASSUME NEW i \in 1..Len(printed') PROVE printed'[i] = d
      OBVIOUS
    <2>1. printed' = Append(printed, d) /\ \A k \in 1..Len(printed) : printed[k] = d
      BY <1>1 DEF d, ToolInv
    <2>2. i \in 1..Len(printed) \/ i = Len(printed) + 1
      BY <1>5, <2>1
    <2> QED
      BY <1>5, <2>1, <2>2
  <1>7. printed' \in Seq(Texts) /\ \A i \in 1..Len(printed') : printed'[i] = DescriptionFor(Main)
    BY <1>1, <1>5, <1>6 DEF d
  <1>8. Usable(Set)' /\ Loads(Set)'
    BY <1>2, <1>3, <1>4 DEF Usable, Loads
  <1> QED
    BY <1>1, <1>2, <1>7, <1>8 DEF ToolInv, Asking

LEMMA GiveUpTool ==
  ASSUME HInv, ToolInv, GiveUp
  PROVE  ToolInv'
  <1>1. /\ doing = "asking" /\ doing' = "exit 1" /\ UNCHANGED <<args, printed>>
        /\ said' = ret[Main] /\ Unlock(Main)
    BY DEF GiveUp, Does
  <1>2. at[Main] = "unlock" /\ at'[Main] = "idle" /\ Set' = Set /\ dead' = dead
    BY <1>1, UnlockTool
  <1>3. Loads(Set) /\ (~Usable(Set) => said' = ErrorText(Set) /\ printed = << >>)
    BY <1>1, <1>2 DEF ToolInv, Asking
  <1>4. Usable(Set) \/ (printed = << >> /\ said' \in Reasons)
    BY <1>3, WhyNot
  <1>5. Set.open # "closed"
    BY <1>3 DEF Loads, Usable
  <1>6. (Usable(Set)' <=> Usable(Set)) /\ (said' \in Reasons <=> (said \in Reasons)')
    BY <1>2 DEF Usable, Reasons
  <1> QED
    BY <1>1, <1>2, <1>3, <1>4, <1>5, <1>6 DEF ToolInv, Asking

LEMMA ExitTool ==
  ASSUME HInv, ToolInv, Exit
  PROVE  ToolInv'
  <1>1. /\ doing = "closing" /\ doing' = "exit 0" /\ UNCHANGED <<args, printed>>
        /\ Unlock(Main)
    BY DEF Exit, Does
  <1>2. at'[Main] = "idle" /\ Set' = Set /\ dead' = dead
    BY <1>1, UnlockTool
  <1> QED
    BY <1>1, <1>2 DEF ToolInv, Asking

\* The call goes on.

LEMMA LoadingMoves ==
  ASSUME Within(Main), ~dead, at[Main] \in {"bundle", "lock", "c", "unlock"},
         call[Main].op \in {"Load", "LoadDefaultMagic"}, Mine(Main).open \in {"null", "open"}
  PROVE  \/ Unpack(Main) \/ ToLoadBuffer(Main) \/ Lock(Main)
         \/ (Load(Main) /\ call[Main].op = "Load") \/ LoadBundled(Main)
  BY DEF Within, UseAfterClose, FileOrBuffer, FileError, GetError, Copy, Clear, Errno, SetFlags,
         Close, EmptyBuffer, AskPath, LoadDefaultPath, Load, Live, InC, Goes

LEMMA AskingMoves ==
  ASSUME Within(Main), ~dead, at[Main] \in {"lock", "c", "error", "copy", "unlock"},
         call[Main].op = "File", Mine(Main).open \in {"null", "open"}
  PROVE  Lock(Main) \/ FileOrBuffer(Main) \/ FileError(Main) \/ Copy(Main)
  BY DEF Within, Unpack, ToLoadBuffer, UseAfterClose, GetError, Clear, Errno, SetFlags,
         Close, EmptyBuffer, AskPath, LoadDefaultPath, Load, LoadBundled, Live, InC, Goes

LEMMA ClosingMoves ==
  ASSUME Within(Main), ~dead, at[Main] \in {"lock", "c", "unlock"},
         call[Main].op = "Close", at[Main] # "unlock" => Mine(Main).open \in {"null", "open"}
  PROVE  Lock(Main) \/ Close(Main)
  BY DEF Within, Unpack, ToLoadBuffer, UseAfterClose, FileOrBuffer, FileError, GetError, Copy,
         Clear, Errno, SetFlags, EmptyBuffer, AskPath, LoadDefaultPath, Load, LoadBundled, Live,
         InC, Goes

LEMMA IdleStays ==
  ASSUME Within(Main), at[Main] = "idle"
  PROVE  FALSE
  BY DEF Within, Unpack, ToLoadBuffer, Lock, UseAfterClose, FileOrBuffer, FileError, GetError,
         Copy, Clear, Errno, SetFlags, Close, EmptyBuffer, AskPath, LoadDefaultPath, Load,
         LoadBundled, Answers, Live, InC, Goes

LEMMA MainMine ==
  ASSUME HInv, call[Main].h = ToolHandle
  PROVE  Mine(Main) = Set /\ Set \in Sets
  BY ToolTypes DEF Mine, Set

LEMMA LockTool ==
  ASSUME HInv, Lock(Main)
  PROVE  /\ at[Main] = "lock" /\ at'[Main] = "c" /\ Set' = Set
         /\ UNCHANGED <<call, out, ret, dead>>
  BY ToolTypes DEF Lock, Goes, Set

LEMMA LoadingTool ==
  ASSUME HInv, TypeOK, ToolInv, Within(Main), UNCHANGED <<args, doing, printed, said>>,
         doing = "loading"
  PROVE  ToolInv'
  <1>1. /\ at[Main] \in {"bundle", "lock", "c", "unlock"} /\ ~dead /\ printed = << >>
        /\ call[Main].op \in {"Load", "LoadDefaultMagic"} /\ call[Main].h = ToolHandle
        /\ Set.open \in {"null", "open"}
    BY DEF ToolInv, Calling, Asking
  <1>2. Mine(Main) = Set /\ Set \in Sets
    BY <1>1, MainMine
  <1>3. ASSUME at'[Main] \in {"bundle", "lock", "c"}, Set' = Set, UNCHANGED <<call, dead>>
        PROVE  ToolInv'
    BY <1>1, <1>3 DEF ToolInv, Calling, Asking
  <1>4. ASSUME at'[Main] = "unlock", Loads(Set'), Set'.open \in {"null", "open"},
               UNCHANGED <<call, dead>>
        PROVE  ToolInv'
    <2>1. Loads(Set)' <=> Loads(Set')
      BY DEF Loads, Usable
    <2> QED
      BY <1>1, <1>4, <2>1 DEF ToolInv, Calling, Asking
  <1>5. ASSUME NEW db \in Databases, db # NoDatabase, Goes(Main, "c", "unlock"),
               \E r \in Apprentice(Main, Mine(Main), db) : SetMine(Main, r[1]),
               UNCHANGED <<call, dead>>
        PROVE  ToolInv'
    <2>1. PICK r \in Apprentice(Main, Set, db) : SetMine(Main, r[1])
      BY <1>2, <1>5
    <2>2. Loads(r[1]) /\ r[1].open = Set.open
      BY <1>1, <1>2, <1>5, ApprenticeLoads
    <2>3. Set' = r[1] /\ at'[Main] = "unlock"
      BY <1>1, <1>5, <2>1, ToolTypes DEF SetMine, Goes, Set
    <2> QED
      BY <1>1, <1>4, <1>5, <2>2, <2>3
  <1>6. CASE Unpack(Main)
    <2>1. UNCHANGED <<ms, at, call, dead>> /\ at[Main] = "bundle"
      BY <1>6 DEF Unpack, handleVars
    <2>2. Set' = Set
      BY <2>1 DEF Set
    <2> QED
      BY <1>3, <2>1, <2>2
  <1>7. CASE ToLoadBuffer(Main)
    <2>1. Set' = Set /\ at'[Main] = "lock" /\ UNCHANGED <<call, dead>>
      BY <1>7, ToolTypes DEF ToLoadBuffer, Goes, Set
    <2> QED
      BY <1>3, <2>1
  <1>8. CASE Lock(Main)
    BY <1>3, <1>8, LockTool
  <1>9. CASE Load(Main) /\ call[Main].op = "Load"
    <2>1. FromFiles \in Databases /\ FromFiles # NoDatabase
      BY FilesDatabase DEF FromFiles, NoDatabase, Database
    <2>2. /\ Goes(Main, "c", "unlock") /\ UNCHANGED <<call, dead>>
          /\ \E r \in Apprentice(Main, Mine(Main), FromFiles) : SetMine(Main, r[1])
      BY <1>9 DEF Load, Answers
    <2> QED
      BY <1>5, <2>1, <2>2
  <1>10. CASE LoadBundled(Main)
    <2>1. PICK given \in CStrings(text[Main]) :
            \E r \in Apprentice(Main, Mine(Main), Database("bundle", given)) : SetMine(Main, r[1])
      BY <1>10 DEF LoadBundled
    <2>2. Goes(Main, "c", "unlock") /\ UNCHANGED <<call, dead>>
      BY <1>10 DEF LoadBundled
    <2> DEFINE db == Database("bundle", given)
    <2>3. Main \in Goroutines
      BY ToolAssumption
    <2>4. db \in Databases /\ db # NoDatabase
      <3>1. db \in Databases
        BY <2>3, GivenIsBundled
      <3> QED
        BY <3>1 DEF Database, NoDatabase
    <2> HIDE DEF db
    <2>5. \E r \in Apprentice(Main, Mine(Main), db) : SetMine(Main, r[1])
      BY <2>1 DEF db
    <2> QED
      BY <1>5, <2>2, <2>4, <2>5
  <1> QED
    BY <1>1, <1>2, <1>6, <1>7, <1>8, <1>9, <1>10, LoadingMoves

LEMMA AskingTool ==
  ASSUME HInv, ToolInv, Within(Main), UNCHANGED <<args, doing, printed, said>>,
         doing = "asking"
  PROVE  ToolInv'
  <1>1. /\ at[Main] \in {"lock", "c", "error", "copy", "unlock"} /\ ~dead
        /\ call[Main].op = "File" /\ call[Main].h = ToolHandle /\ Loads(Set)
        /\ printed # << >> => Usable(Set)
        /\ ~Usable(Set) => /\ at[Main] = "copy" => Deref(Set, out[Main]) = ErrorText(Set)
                           /\ at[Main] = "unlock" => ret[Main] = ErrorText(Set)
    BY DEF ToolInv, Calling, Asking
  <1>2. Mine(Main) = Set /\ Set \in Sets
    BY <1>1, MainMine
  <1>3. Set.open \in {"null", "open"}
    BY <1>1 DEF Loads, Usable
  <1>4. ASSUME at'[Main] \in {"lock", "c", "error", "copy", "unlock"}, Loads(Set'),
               Usable(Set) => Usable(Set'),
               ~Usable(Set') => /\ at'[Main] = "copy" => Deref(Set', out'[Main]) = ErrorText(Set')
                                /\ at'[Main] = "unlock" => ret'[Main] = ErrorText(Set'),
               UNCHANGED <<call, dead>>
        PROVE  ToolInv'
    <2>1. /\ Loads(Set)' <=> Loads(Set')
          /\ Usable(Set)' <=> Usable(Set')
          /\ Deref(Set, out[Main])' = Deref(Set', out'[Main])
          /\ ErrorText(Set)' = ErrorText(Set')
      BY DEF Loads, Usable, Deref, ErrorText
    <2> QED
      BY <1>1, <1>4, <2>1 DEF ToolInv, Calling, Asking
  <1>5. CASE Lock(Main)
    BY <1>1, <1>4, <1>5, LockTool
  <1>6. CASE FileOrBuffer(Main)
    <2>1. PICK r \in Identified(Main, Set) :
            /\ SetMine(Main, r[1]) /\ UNCHANGED <<call, dead>>
            /\ Goes(Main, "c", IF call[Main].op = "File" /\ r[2] = "null" THEN "error" ELSE "copy")
      BY <1>2, <1>6 DEF FileOrBuffer
    <2>2. /\ Loads(r[1]) /\ (Usable(Set) => Usable(r[1]))
          /\ ~Usable(Set) => r[1] = Set /\ r[2] = "null"
      BY <1>1, <1>2, IdentifiedLoads
    <2>3. /\ Set' = r[1]
          /\ at'[Main] = IF r[2] = "null" THEN "error" ELSE "copy"
      BY <1>1, <2>1, ToolTypes DEF SetMine, Goes, Set
    <2> QED
      BY <1>4, <2>1, <2>2, <2>3
  <1>7. CASE FileError(Main)
    <2>1. /\ at'[Main] = "copy" /\ Set' = Set /\ out'[Main] = Magic_error(Set)
          /\ UNCHANGED <<call, dead>>
      BY <1>2, <1>7, ToolTypes DEF FileError, Goes, Set
    <2>2. Deref(Set, Magic_error(Set)) = ErrorText(Set)
      BY ErrorDeref
    <2> QED
      BY <1>1, <1>4, <2>1, <2>2
  <1>8. CASE Copy(Main)
    <2>1. /\ at[Main] = "copy" /\ at'[Main] = "unlock" /\ Set' = Set
          /\ ret'[Main] = Deref(Set, out[Main]) /\ UNCHANGED <<call, dead>>
      BY <1>1, <1>2, <1>8, ToolTypes DEF Copy, Goes, Set
    <2> QED
      BY <1>1, <1>4, <2>1
  <1> QED
    BY <1>1, <1>2, <1>3, <1>5, <1>6, <1>7, <1>8, AskingMoves

LEMMA ClosingTool ==
  ASSUME HInv, ToolInv, Within(Main), UNCHANGED <<args, doing, printed, said>>,
         doing = "closing"
  PROVE  ToolInv'
  <1>1. /\ at[Main] \in {"lock", "c", "unlock"} /\ ~dead
        /\ call[Main].op = "Close" /\ call[Main].h = ToolHandle
        /\ at[Main] # "unlock" => Set.open \in {"null", "open"}
    BY DEF ToolInv, Calling, Asking
  <1>2. Mine(Main) = Set /\ Set \in Sets
    BY <1>1, MainMine
  <1>3. CASE Lock(Main)
    <2>1. at[Main] = "lock" /\ at'[Main] = "c" /\ Set' = Set /\ UNCHANGED <<call, dead>>
      BY <1>3, LockTool
    <2> QED
      BY <1>1, <2>1 DEF ToolInv, Calling, Asking
  <1>4. CASE Close(Main)
    <2>1. at'[Main] = "unlock" /\ UNCHANGED <<call, dead>>
      BY <1>4, ToolTypes DEF Close, Answers, Goes
    <2> QED
      BY <1>1, <2>1 DEF ToolInv, Calling, Asking
  <1> QED
    BY <1>1, <1>2, <1>3, <1>4, ClosingMoves

LEMMA ToolKeeps ==
  ASSUME HInv, TypeOK, ToolInv, ToolNext
  PROVE  ToolInv'
  <1>1. CASE ToolWithin
    <2>1. Within(Main) /\ UNCHANGED <<args, doing, printed, said>>
      BY <1>1 DEF ToolWithin, toolVars
    <2>2. doing \in {"loading", "asking", "closing"}
      BY <2>1, IdleStays DEF ToolInv, Asking
    <2> QED
      BY <2>1, <2>2, LoadingTool, AskingTool, ClosingTool
  <1> QED
    BY <1>1, WrongTypeTool, OpenHandleTool, LoadDatabaseTool, LoadedTool, AskTargetTool,
       PrintTargetTool, GiveUpTool, CloseHandleTool, ExitTool DEF ToolNext

\* What the steps of a goroutine leave alone.
LEMMA BundleKept ==
  ASSUME NEW g \in Goroutines, Begins(g) \/ Proceed(g)
  PROVE  bundle' = bundle
  <1>1. CASE Begins(g)
    BY <1>1 DEF Begins, NewMagicHandle, CallDefault, Call, Again, vars
  <1>2. CASE Unpack(g) \/ ToLoadBuffer(g)
    BY <1>2 DEF Unpack, ToLoadBuffer, Open, Write, Reopen, Read, LoadBuffer
  <1>3. CASE \/ Lock(g) \/ UseAfterClose(g) \/ FileOrBuffer(g) \/ FileError(g)
             \/ GetError(g) \/ Copy(g) \/ Clear(g) \/ LoadBundled(g) \/ Unlock(g)
             \/ AskPath(g) \/ LoadDefaultPath(g)
    BY <1>3 DEF Lock, UseAfterClose, FileOrBuffer, FileError, GetError, Copy, Clear,
                LoadBundled, Unlock, AskPath, LoadDefaultPath, vars
  <1>4. CASE Errno(g) \/ SetFlags(g) \/ Load(g) \/ Close(g) \/ EmptyBuffer(g)
    BY <1>4 DEF Errno, SetFlags, Load, Close, EmptyBuffer, Answers, vars
  <1> QED
    BY <1>1, <1>2, <1>3, <1>4 DEF Proceed, Within

LEMMA BuildStands ==
  ASSUME BuildInv, UNCHANGED <<step, rest, lines, asset, source>>
  PROVE  BuildInv'
  BY DEF BuildInv, BuildTypes, PassInv, BetweenFiles, InFile, Listed

LEMMA FreshTypes == Fresh /\ bundle \in Seq(Nat \ {0}) => TypeOK
  BY FreshKeeps
LEMMA FreshTyped ==
  ASSUME Fresh', bundle' \in Seq(Nat \ {0})
  PROVE  TypeOK'
  <1>1. (Fresh /\ bundle \in Seq(Nat \ {0}) => TypeOK)'
    BY FreshTypes, PTL
  <1> QED
    BY <1>1

-----------------------------------------------------------------------------
(* The whole system. *)

\* The inductive invariant.
SystemInv ==
  /\ BuildInv /\ HInv /\ TypeOK /\ PathsOK
  /\ IsTool => args \in Commands /\ (linked => ToolInv)
  /\ ~IsTool => doing = "flags" /\ ProgramsOK
  /\ linked /\ Imports => Listed(bundle)
  /\ ~linked => Fresh /\ bundle = << >> /\ doing = "flags" /\ printed = << >>

\* A tool that has done nothing yet.
LEMMA FreshTool ==
  Fresh /\ args \in Commands /\ doing = "flags" /\ printed = << >> => ToolInv
  <1> SUFFICES ASSUME Fresh, args \in Commands, doing = "flags", printed = << >>
               PROVE  ToolInv
    OBVIOUS
  <1>1. at[Main] = "idle" /\ Set.open = "none" /\ ~dead
    BY ToolAssumption DEF Fresh, Set, Opened
  <1> QED
    BY <1>1 DEF ToolInv, Asking

LEMMA SystemStarts == SystemInit => SystemInv /\ Serial!Init
  <1> SUFFICES ASSUME SystemInit PROVE SystemInv /\ Serial!Init
    OBVIOUS
  <1>1. /\ Fresh /\ bundle = << >> /\ bundle \in Seq(Nat \ {0}) /\ BuildInit
        /\ doing = "flags" /\ printed = << >> /\ (linked => ~Imports)
    <2>1. /\ Fresh /\ bundle = << >> /\ BuildInit /\ doing = "flags" /\ printed = << >>
      BY DEF SystemInit, ToolInit
    <2>2. linked => ~Imports
      BY DEF SystemInit
    <2> QED
      BY <2>1, <2>2
  <1>2. BuildInv /\ HInv /\ TypeOK /\ PathsOK /\ Serial!Init
    BY <1>1, BuildStarts, FreshKeeps
  <1>3. (IsTool => args \in Commands) /\ (~IsTool => ProgramsOK)
    <2>1. ASSUME args \in Commands PROVE IsTool
      <3>1. args.type \in {"", "extension", "mime", "other"}
        BY <2>1, ToolAssumption
      <3>2. NoCommand.type = "none"
        BY DEF NoCommand
      <3> QED
        BY <3>1, <3>2 DEF IsTool
    <2> QED
      BY <2>1 DEF SystemInit, ToolInit, IsTool, ProgramsOK
  <1>4. IsTool => ToolInv
    BY <1>1, <1>3, FreshTool
  <1> QED
    BY <1>1, <1>2, <1>3, <1>4 DEF SystemInv

LEMMA HandlesStand ==
  ASSUME HInv, PathsOK, UNCHANGED handleVars
  PROVE  HInv' /\ PathsOK' /\ UNCHANGED Serial!serialVars
  <1>1. HInv' /\ PathsOK'
    BY DEF handleVars, HInv, HandlesOK, CallsOK, Mine, PathsOK
  <1>2. UNCHANGED Serial!serialVars
    BY DEF handleVars, Serial!serialVars, SetsOf, SetOf, Requests, RequestOf, Told,
           Mine, Deref, ErrorText
  <1> QED
    BY <1>1, <1>2

LEMMA ToolStands ==
  ASSUME ToolInv, UNCHANGED <<ms, at, call, out, ret, dead, args, doing, printed, said>>
  PROVE  ToolInv'
  BY DEF ToolInv, Set, Reasons, Usable, Loads, Calling, Asking, Deref, ErrorText

LEMMA FreshStands ==
  ASSUME Fresh, UNCHANGED <<fsVars, handleVars>>
  PROVE  Fresh'
  BY DEF Fresh, fsVars, handleVars

\* Nothing that runs, or will run, is touched.
LEMMA Stands ==
  ASSUME SystemInv, BuildInv', UNCHANGED <<goVars, toolVars, linked>>
  PROVE  SystemInv' /\ UNCHANGED Serial!serialVars
  <1>1. /\ UNCHANGED vars /\ UNCHANGED handleVars /\ UNCHANGED fsVars
        /\ UNCHANGED <<ms, at, call, out, ret, dead, uses, bundle, linked>>
        /\ UNCHANGED <<args, doing, printed, said>>
    BY DEF goVars, vars, fsVars, handleVars, toolVars
  <1>2. HInv' /\ PathsOK' /\ UNCHANGED Serial!serialVars
    BY <1>1, HandlesStand DEF SystemInv
  <1>3. TypeOK'
    BY <1>1, TypeNext DEF SystemInv
  <1>4. IsTool' => args' \in Commands /\ (linked' => ToolInv')
    BY <1>1, ToolStands DEF SystemInv, IsTool, NoCommand
  <1>5. ~IsTool' => doing' = "flags" /\ ProgramsOK'
    BY <1>1 DEF SystemInv, IsTool, NoCommand, ProgramsOK
  <1>6. linked' /\ Imports' => Listed(bundle)'
    BY <1>1 DEF SystemInv, Imports, Listed
  <1>7. ~linked' => Fresh' /\ bundle' = << >> /\ doing' = "flags" /\ printed' = << >>
    BY <1>1, FreshStands DEF SystemInv
  <1> QED
    BY <1>2, <1>3, <1>4, <1>5, <1>6, <1>7 DEF SystemInv

\* The package is built from the rules of one tree.
LEMMA BuildLinks ==
  ASSUME SystemInv, Build
  PROVE  SystemInv' /\ UNCHANGED Serial!serialVars
  <1>1. /\ ~linked /\ linked' = TRUE /\ step = "idle" /\ source.func = "Init"
        /\ bundle' = source.rules /\ asset' = << >> /\ source' = Incomplete
        /\ UNCHANGED fsVars /\ UNCHANGED handleVars /\ UNCHANGED toolVars
        /\ step' = step /\ rest' = rest /\ lines' = lines
    BY DEF Build, Compiles
  <1>2. Listed(source.rules) /\ source.rules \in Seq(Nat \ {0})
    BY <1>1 DEF SystemInv, BuildInv, BuildTypes, PassInv
  <1>3. BuildInv'
    <2>1. << >> \in Seq(Nat \ {0})
      OBVIOUS
    <2>2. BuildTypes'
      BY <1>1, <2>1, IncompleteType DEF SystemInv, BuildInv, BuildTypes
    <2> QED
      BY <1>1, <2>2, IncompleteType DEF BuildInv, PassInv
  <1>4. /\ UNCHANGED <<args, doing, printed>> /\ uses' = uses
        /\ Fresh /\ doing = "flags" /\ printed = << >>
    BY <1>1 DEF toolVars, handleVars, SystemInv
  <1>5. Fresh'
    BY <1>1, <1>4, FreshStands
  <1>6. TypeOK'
    <2>1. bundle' \in Seq(Nat \ {0})
      BY <1>1, <1>2
    <2> QED
      BY <1>5, <2>1, FreshTyped
  <1>7. HInv' /\ PathsOK' /\ UNCHANGED Serial!serialVars
    BY <1>1, HandlesStand DEF SystemInv
  <1>8. IsTool' => args' \in Commands /\ ToolInv'
    <2>1. ASSUME IsTool' PROVE args' \in Commands
      BY <1>4, <2>1 DEF SystemInv, IsTool, NoCommand
    <2>2. (Fresh /\ args \in Commands /\ doing = "flags" /\ printed = << >> => ToolInv)'
      BY FreshTool, PTL
    <2> QED
      BY <1>4, <1>5, <2>1, <2>2
  <1>9. ~IsTool' => doing' = "flags" /\ ProgramsOK'
    BY <1>4 DEF SystemInv, IsTool, NoCommand, ProgramsOK
  <1>10. Listed(bundle)'
    <2>1. bundle' = source.rules
      BY <1>1
    <2> QED
      BY <1>2, <2>1 DEF Listed
  <1> QED
    BY <1>1, <1>3, <1>6, <1>7, <1>8, <1>9, <1>10 DEF SystemInv

\* The tool makes the calls of one goroutine.
LEMMA ToolCalls ==
  ASSUME ToolNext
  PROVE  /\ IsTool /\ args' = args
         /\ Begins(Main) \/ Proceed(Main) \/ UNCHANGED goVars
  <1>1. {"Load", "File", "Close"} \subseteq Operations
    BY DEF Operations
  <1>2. CASE WrongType
    BY <1>2 DEF WrongType, Does
  <1>3. CASE OpenHandle
    BY <1>3, ToolAssumption DEF OpenHandle, Does, Begins
  <1>4. CASE LoadDatabase
    BY <1>1, <1>4, ToolAssumption DEF LoadDatabase, Does, Begins
  <1>5. CASE AskTarget
    BY <1>1, <1>5, ToolAssumption DEF AskTarget, Does, Begins
  <1>6. CASE CloseHandle
    BY <1>1, <1>6, ToolAssumption DEF CloseHandle, Does, Begins
  <1>7. CASE Loaded \/ PrintTarget \/ GiveUp \/ Exit
    BY <1>7 DEF Loaded, PrintTarget, GiveUp, Exit, Does, Proceed
  <1>8. CASE ToolWithin
    BY <1>8 DEF ToolWithin, toolVars, Proceed
  <1> QED
    BY <1>2, <1>3, <1>4, <1>5, <1>6, <1>7, <1>8 DEF ToolNext

\* A goroutine's step, of the tool or of another program.
LEMMA GoroutineKeeps ==
  ASSUME SystemInv, linked, UNCHANGED <<buildVars, linked, args>>,
         NEW g \in Goroutines, Begins(g) \/ Proceed(g),
         IsTool => ToolInv', ~IsTool => doing' = doing
  PROVE  SystemInv' /\ [Serial!Next]_(Serial!serialVars)
  <1>1. TypeOK' /\ PathsOK' /\ HInv' /\ [Serial!Next]_(Serial!serialVars)
    BY RulesKept, PathsKept, HandlesKept DEF SystemInv
  <1>2. uses' = uses /\ bundle' = bundle
    BY OthersKeepPaths, BundleKept
  <1>3. BuildInv'
    <2>1. UNCHANGED <<step, rest, lines, asset, source>>
      BY DEF buildVars
    <2> QED
      BY <2>1, BuildStands DEF SystemInv
  <1>4. linked' /\ args' = args
    OBVIOUS
  <1>5. IsTool' => args' \in Commands /\ ToolInv'
    BY <1>4 DEF SystemInv, IsTool, NoCommand
  <1>6. ~IsTool' => doing' = "flags" /\ ProgramsOK'
    BY <1>2, <1>4 DEF SystemInv, IsTool, NoCommand, ProgramsOK
  <1>7. linked' /\ Imports' => Listed(bundle)'
    BY <1>2 DEF SystemInv, Imports, Listed
  <1> QED
    BY <1>1, <1>3, <1>4, <1>5, <1>6, <1>7 DEF SystemInv

LEMMA RunsKeep ==
  ASSUME SystemInv, Runs
  PROVE  SystemInv' /\ [Serial!Next]_(Serial!serialVars)
  <1>1. linked /\ UNCHANGED <<buildVars, linked>>
    BY DEF Runs, Running
  <1>2. CASE ToolNext
    <2>1. /\ IsTool /\ args' = args
          /\ Begins(Main) \/ Proceed(Main) \/ UNCHANGED goVars
      BY <1>2, ToolCalls
    <2>2. ToolInv'
      BY <1>1, <1>2, <2>1, ToolKeeps DEF SystemInv
    <2>3. CASE Begins(Main) \/ Proceed(Main)
      BY <1>1, <2>1, <2>2, <2>3, ToolAssumption, GoroutineKeeps
    <2>4. CASE UNCHANGED goVars
      <3>1. UNCHANGED vars /\ UNCHANGED handleVars /\ uses' = uses /\ bundle' = bundle
        BY <2>4 DEF goVars, vars, handleVars
      <3>2. HInv' /\ PathsOK' /\ UNCHANGED Serial!serialVars /\ TypeOK'
        BY <3>1, HandlesStand, TypeNext DEF SystemInv
      <3>3. BuildInv'
        BY <1>1, BuildStands DEF SystemInv, buildVars
      <3>4. IsTool' /\ args' \in Commands
        BY <2>1 DEF SystemInv, IsTool, NoCommand
      <3>5. linked' /\ (Imports' => Listed(bundle)')
        BY <1>1, <3>1 DEF SystemInv, Imports, Listed
      <3> QED
        BY <2>2, <3>2, <3>3, <3>4, <3>5 DEF SystemInv
    <2> QED
      BY <2>1, <2>3, <2>4
  <1>3. CASE GoNext /\ ~IsTool /\ UNCHANGED toolVars
    <2>1. args' = args /\ doing' = doing /\ ProgramsOK
      BY <1>3 DEF toolVars, SystemInv
    <2>2. CASE \E g \in Goroutines : Begin(g) \/ Proceed(g)
      BY <1>1, <1>3, <2>1, <2>2, ProgramBegins, GoroutineKeeps
    <2>3. CASE UNCHANGED goVars
      BY <1>1, <1>3, <2>3, BuildStands, Stands DEF SystemInv, buildVars
    <2> QED
      BY <1>3, <2>2, <2>3 DEF GoNext, Stop
  <1> QED
    BY <1>1, <1>2, <1>3 DEF Runs

LEMMA SystemStep ==
  SystemInv /\ [System]_allVars => SystemInv' /\ [Serial!Next]_(Serial!serialVars)
  <1>1. ASSUME SystemInv, Prepares
        PROVE  SystemInv' /\ [Serial!Next]_(Serial!serialVars)
    BY <1>1, BuildKeeps, Stands DEF Prepares, SystemInv
  <1>2. ASSUME SystemInv, UNCHANGED allVars
        PROVE  SystemInv' /\ [Serial!Next]_(Serial!serialVars)
    <2>1. UNCHANGED <<goVars, toolVars, linked>> /\ UNCHANGED <<step, rest, lines, asset, source>>
      BY <1>2 DEF allVars, buildVars
    <2>2. BuildInv'
      BY <1>2, <2>1, BuildStands DEF SystemInv
    <2> QED
      BY <1>2, <2>1, <2>2, Stands
  <1> QED
    BY <1>1, <1>2, BuildLinks, RunsKeep DEF System, Ended

\* What holds in every state of the system.
LEMMA Always == SystemSpec => []SystemInv
  BY SystemStarts, SystemStep, PTL DEF SystemSpec

-----------------------------------------------------------------------------
(* The theorems. *)

\* The rules of a package that compiles are the lines of one tree, all of its files
\* in their order: a pass of magefile.go may fail or be killed at any step, and be
\* started again with another tree, as often as one likes.
THEOREM BuildsAreFaithful == SystemSpec => []BundleFaithful
  <1>1. SystemInv => BundleFaithful
    BY DEF SystemInv, BuildInv, PassInv, BundleFaithful, Compiles, Listed
  <1> QED
    BY <1>1, Always, PTL

\* And so are those that a program which loads them was linked with (ab0x.go).
ProgramBundles == linked /\ Imports => Listed(bundle)
THEOREM ProgramsBundleATree == SystemSpec => []ProgramBundles
  <1>1. SystemInv => ProgramBundles
    BY DEF SystemInv, ProgramBundles
  <1> QED
    BY <1>1, Always, PTL

\* The exit status and the message of the tool tell what happened, although doFile
\* (bin/file.go) drops the result of its load, for any number of targets.
THEOREM ToolTellsTheTruth == SystemSpec => []ToolReports
  <1>1. SystemInv => ToolReports
    <2> SUFFICES ASSUME SystemInv PROVE ToolReports
      OBVIOUS
    <2>1. CASE ToolInv
      <3>0. printed \in Seq(Texts)
        BY <2>1 DEF ToolInv
      <3>1. DOMAIN printed = 1..Len(printed)
        BY <3>0
      <3> QED
        BY <2>1, <3>1 DEF ToolReports, ToolInv, Usable, Reasons, Set
    <2>2. CASE doing = "flags"
      BY <2>2 DEF ToolReports
    <2> QED
      BY <2>1, <2>2 DEF SystemInv
  <1> QED
    BY <1>1, Always, PTL

\* In the whole system too: handles are serial for whatever program is linked with
\* whatever rules, their types are right, and calls of LoadDefaultMagic load a
\* beginning of the bundled rules.
THEOREM SystemIsSerial == SystemSpec => SerialCalls
  BY SystemStarts, SystemStep, Always, PTL DEF SystemSpec, SerialCalls, Serial!Spec
THEOREM SystemTypes == SystemSpec => []GoTypeOK
  <1>1. SystemInv => GoTypeOK
    BY GoTypeParts DEF SystemInv, HInv
  <1> QED
    BY <1>1, Always, PTL
THEOREM SystemLoadsPrefix == SystemSpec => []LoadsPrefix
  <1>1. SystemInv => LoadsPrefix
    BY PrefixOfBundle DEF SystemInv
  <1> QED
    BY <1>1, Always, PTL
=============================================================================
