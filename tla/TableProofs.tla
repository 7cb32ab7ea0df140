---------------------------- MODULE TableProofs -----------------------------
(***************************************************************************)
(* Proofs about TableFilling, for tables of any size that any calls have   *)
(* filled in any order.                                                    *)
(***************************************************************************)
EXTENDS TableFilling, SequenceTheorems, FiniteSetTheorems, WellFoundedInduction, TLAPS

(* The cells of the list are within the bounds, and the array is made of    *)
(* the list as it is.                                                       *)
Cells == DOMAIN table.list
Bounds ==
  /\ table.mini <= table.maxi /\ table.minj <= table.maxj
  /\ \A k \in Cells : /\ table.list[k].i \in table.mini .. table.maxi
                      /\ table.list[k].j \in table.minj .. table.maxj
Built == table.built => table.array = FlatArray(table)
FillingInv == FillingTypeOK /\ Bounds /\ Built

-----------------------------------------------------------------------------
LEMMA TableFields ==
  ASSUME FillingTypeOK
  PROVE  /\ table.list \in Seq(CellType)
         /\ table.mini \in Nat /\ table.maxi \in Nat /\ table.minj \in Nat /\ table.maxj \in Nat
         /\ table.built \in BOOLEAN /\ table.startRow \in Nat /\ table.maxResults \in Nat
<1>. DEFINE S == Seq(CellType)  A == {table.array}  T == SUBSET STRING  N == Seq(STRING)
<1>1. table \in [list : S, mini : Nat, maxi : Nat, minj : Nat, maxj : Nat,
                 built : BOOLEAN, array : A, startRow : Nat, maxResults : Nat,
                 missing : CellText, title : T, names : N, format : T]
  BY DEF FillingTypeOK
<1>2. table.list \in S
  <2>. HIDE DEF S, A, T, N
  <2>. QED  BY <1>1
<1>. HIDE DEF S, A, T, N
<1>3. /\ table.mini \in Nat /\ table.maxi \in Nat /\ table.minj \in Nat /\ table.maxj \in Nat
      /\ table.built \in BOOLEAN /\ table.startRow \in Nat /\ table.maxResults \in Nat
  BY <1>1
<1>. QED  BY <1>2, <1>3 DEF S

(* Positions in the flat array: the product of a row and the width is what  *)
(* keeps rows apart, and rows are in one page each.                         *)
LEMMA RowsApart ==
  ASSUME NEW a \in Int, NEW b \in Int, NEW s \in Nat, a < b, s > 0
  PROVE  a * s + s <= b * s
OBVIOUS

LEMMA PositionIsOne ==
  ASSUME NEW a \in Int, NEW b \in Int, NEW c \in Int, NEW d \in Int, NEW w \in Nat,
         b \in 0 .. w - 1, d \in 0 .. w - 1, a * w + b = c * w + d
  PROVE  a = c /\ b = d
<1>1. ~(a < c)
  BY RowsApart
<1>2. ~(c < a)
  BY RowsApart
<1>. QED  BY <1>1, <1>2

LEMMA RowIsOnPage ==
  ASSUME NEW r \in Nat, NEW s \in Nat, s > 0
  PROVE  \E k \in 0 .. r : k * s <= r /\ r < k * s + s
<1>. DEFINE k == r \div s
<1>1. k \in Int /\ s * k <= r /\ r < s * k + s
  OBVIOUS
<1>. HIDE DEF k
<1>2. k * s = s * k
  BY <1>1
<1>3. k >= 0
  BY <1>1
<1>4. k <= r
  BY <1>1, <1>3
<1>. QED  BY <1>1, <1>2, <1>3, <1>4

(* Every cell within the bounds has a place in the array, of its own.       *)
LEMMA WithinWidth ==
  ASSUME FillingTypeOK, Bounds, NEW i \in table.mini .. table.maxi, NEW j \in table.minj .. table.maxj
  PROVE  /\ Width(table) \in Nat /\ Height(table) \in Nat /\ Width(table) > 0
         /\ i - table.mini \in 0 .. Width(table) - 1 /\ j - table.minj \in 0 .. Height(table) - 1
<1>. DEFINE a == table.mini  b == table.maxi  c == table.minj  d == table.maxj
            w == Width(table)  h == Height(table)
<1>1. a \in Nat /\ b \in Nat /\ c \in Nat /\ d \in Nat
  BY TableFields
<1>2. a <= b /\ c <= d /\ i \in a .. b /\ j \in c .. d
  BY DEF Bounds
<1>3. w = b - a + 1 /\ h = d - c + 1
  BY DEF Width, Height
<1>4. w \in Nat /\ h \in Nat /\ w > 0 /\ i - a \in 0 .. w - 1 /\ j - c \in 0 .. h - 1
  <2>. HIDE DEF a, b, c, d, w, h
  <2>. QED  BY <1>1, <1>2, <1>3
<1>. QED  BY <1>4

LEMMA PlaceInArray ==
  ASSUME FillingTypeOK, Bounds, NEW i \in table.mini .. table.maxi, NEW j \in table.minj .. table.maxj
  PROVE  Position(table, i, j) \in 0 .. Width(table) * Height(table) - 1
<1>. DEFINE w == Width(table)  h == Height(table)  a == j - table.minj  b == i - table.mini
<1>1. w \in Nat /\ h \in Nat /\ a \in 0 .. h - 1 /\ b \in 0 .. w - 1 /\ w > 0
  BY WithinWidth
<1>2. Position(table, i, j) = a * w + b
  BY DEF Position
<1>. HIDE DEF w, h, a, b
<1>3. a * w + w <= h * w
  BY <1>1, RowsApart
<1>4. a * w \in Nat /\ h * w = w * h /\ w * h \in Nat
  BY <1>1
<1>5. a * w + b \in 0 .. w * h - 1
  BY <1>1, <1>3, <1>4
<1>. QED  BY <1>2, <1>5 DEF w, h

LEMMA PlaceOfItsOwn ==
  ASSUME FillingTypeOK, Bounds,
         NEW i \in table.mini .. table.maxi, NEW j \in table.minj .. table.maxj,
         NEW m \in table.mini .. table.maxi, NEW n \in table.minj .. table.maxj,
         Position(table, i, j) = Position(table, m, n)
  PROVE  i = m /\ j = n
<1>. DEFINE w == Width(table)  b == i - table.mini  d == m - table.mini
                               a == j - table.minj  c == n - table.minj
<1>1. w \in Nat /\ b \in 0 .. w - 1 /\ d \in 0 .. w - 1 /\ a \in Int /\ c \in Int
  BY WithinWidth
<1>2. a * w + b = c * w + d
  BY DEF Position
<1>3. b = d /\ a = c
  <2>. HIDE DEF w, a, b, c, d
  <2>. QED  BY <1>1, <1>2, PositionIsOne
<1>4. i \in Int /\ j \in Int /\ m \in Int /\ n \in Int /\ table.mini \in Int /\ table.minj \in Int
  BY TableFields
<1>. QED  BY <1>3, <1>4

LEMMA CellsHold ==
  ASSUME FillingInv
  PROVE  CellsHoldTheLastSet
<1>. SUFFICES ASSUME table.built, ~IsEmpty(table),
                     NEW i \in Columns(table), NEW j \in table.minj .. table.maxj
              PROVE  Get(table, i, j)
                       = LastOf(table, {k \in Cells : table.list[k].i = i /\ table.list[k].j = j})
  BY DEF CellsHoldTheLastSet, Cells
<1>. DEFINE p == Position(table, i, j)
<1>1. FillingTypeOK /\ Bounds /\ i \in table.mini .. table.maxi
  BY DEF FillingInv, Columns
<1>2. p \in 0 .. Width(table) * Height(table) - 1 /\ table.array = FlatArray(table)
  BY <1>1, PlaceInArray DEF FillingInv, Built
<1>3. table.array[p] = LastOf(table, ElementsAt(table, p))
  <2>. HIDE DEF p
  <2>. QED  BY <1>2 DEF FlatArray
<1>4. ASSUME NEW k \in Cells
      PROVE  Position(table, table.list[k].i, table.list[k].j) = p
               <=> table.list[k].i = i /\ table.list[k].j = j
  <2>. DEFINE m == table.list[k].i  n == table.list[k].j
  <2>1. m \in table.mini .. table.maxi /\ n \in table.minj .. table.maxj
    BY <1>1 DEF Bounds
  <2>. HIDE DEF m, n
  <2>2. Position(table, m, n) = p => m = i /\ n = j
    BY <1>1, <2>1, PlaceOfItsOwn
  <2>. QED  BY <2>2 DEF m, n
<1>5. ElementsAt(table, p) = {k \in Cells : table.list[k].i = i /\ table.list[k].j = j}
  BY <1>4 DEF ElementsAt, Cells
<1>. QED  BY <1>3, <1>5 DEF Get

-----------------------------------------------------------------------------
(* Pages.                                                                   *)
Page(start, size) == PageRows([table EXCEPT !.startRow = start, !.maxResults = size])

LEMMA PageIs ==
  ASSUME FillingTypeOK, ~IsEmpty(table), NEW start \in Nat, NEW size \in Nat
  PROVE  Page(start, size) = {j \in table.minj .. table.maxj :
                                /\ j - table.minj >= start
                                /\ size > 0 => j - table.minj - start < size}
<1>. DEFINE t == [table EXCEPT !.startRow = start, !.maxResults = size]
<1>1. t.list = table.list /\ t.minj = table.minj /\ t.maxj = table.maxj /\ t.startRow = start /\ t.maxResults = size
  BY DEF FillingTypeOK
<1>. HIDE DEF t
<1>2. ~IsEmpty(t)
  BY <1>1 DEF IsEmpty
<1>. QED  BY <1>1, <1>2 DEF PageRows, Page, t

LEMMA NoPages ==
  ASSUME FillingTypeOK, IsEmpty(table), NEW start, NEW size
  PROVE  Page(start, size) = {}
<1>. DEFINE t == [table EXCEPT !.startRow = start, !.maxResults = size]
<1>1. t.list = table.list
  BY DEF FillingTypeOK
<1>. QED  BY <1>1 DEF IsEmpty, PageRows, Page

LEMMA PagesAsFunction ==
  ASSUME NEW n \in Nat, NEW size,
         UNION {Page(k * size, size) : k \in 0 .. n} = Page(0, 0),
         \A k, m \in 0 .. n : k # m => Page(k * size, size) \cap Page(m * size, size) = {},
         \A k \in 0 .. n : Page(k * size, 0) = UNION {Page(m * size, size) : m \in k .. n}
  PROVE  LET pages == [k \in 0 .. n |-> Page(k * size, size)]
         IN /\ UNION {pages[k] : k \in 0 .. n} = Page(0, 0)
            /\ \A k, m \in 0 .. n : k # m => pages[k] \cap pages[m] = {}
            /\ \A k \in 0 .. n : Page(k * size, 0) = UNION {pages[m] : m \in k .. n}
<1>. DEFINE pages == [k \in 0 .. n |-> Page(k * size, size)]
<1>1. \A k \in 0 .. n : pages[k] = Page(k * size, size)
  OBVIOUS
<1>. HIDE DEF pages
<1>2. UNION {pages[k] : k \in 0 .. n} = UNION {Page(k * size, size) : k \in 0 .. n}
  BY <1>1
<1>3. ASSUME NEW k \in 0 .. n
      PROVE  UNION {pages[m] : m \in k .. n} = UNION {Page(m * size, size) : m \in k .. n}
  <2>1. \A m \in k .. n : m \in 0 .. n
    OBVIOUS
  <2>. QED  BY <1>1, <2>1
<1>4. /\ UNION {pages[k] : k \in 0 .. n} = Page(0, 0)
      /\ \A k, m \in 0 .. n : k # m => pages[k] \cap pages[m] = {}
      /\ \A k \in 0 .. n : Page(k * size, 0) = UNION {pages[m] : m \in k .. n}
  BY <1>1, <1>2, <1>3
<1>. QED  BY <1>4 DEF pages

LEMMA PagesPartition ==
  ASSUME FillingTypeOK, Bounds
  PROVE  PagesPartitionTheRows
<1>. DEFINE n == Cardinality(Page(0, 0))
<1>1. CASE IsEmpty(table)
  <2>1. \A start, size : Page(start, size) = {}
    BY <1>1, NoPages
  <2>2. n = 0
    BY <2>1, FS_EmptySet
  <2>3. ASSUME NEW size \in 1 .. n + 1
        PROVE  /\ UNION {Page(k * size, size) : k \in 0 .. n} = Page(0, 0)
               /\ \A k, m \in 0 .. n : k # m => Page(k * size, size) \cap Page(m * size, size) = {}
               /\ \A k \in 0 .. n : Page(k * size, 0) = UNION {Page(m * size, size) : m \in k .. n}
    BY <2>1
  <2>. HIDE DEF n
  <2>4. ASSUME NEW size \in 1 .. n + 1
        PROVE  LET pages == [k \in 0 .. n |-> Page(k * size, size)]
               IN /\ UNION {pages[k] : k \in 0 .. n} = Page(0, 0)
                  /\ \A k, m \in 0 .. n : k # m => pages[k] \cap pages[m] = {}
                  /\ \A k \in 0 .. n : Page(k * size, 0) = UNION {pages[m] : m \in k .. n}
    BY <2>2, <2>3, PagesAsFunction
  <2>5. n = IF IsEmpty(table) THEN 0 ELSE Height(table)
    BY <1>1, <2>2
  <2>. QED  BY <2>4, <2>5 DEF PagesPartitionTheRows, n, Page
<1>2. CASE ~IsEmpty(table)
  <2>. DEFINE a == table.minj  b == table.maxj  h == Height(table)
  <2>1. a \in Nat /\ b \in Nat /\ a <= b /\ h = b - a + 1
    BY TableFields DEF Bounds, Height
  <2>2. ASSUME NEW start \in Nat, NEW size \in Nat
        PROVE  Page(start, size)
                 = {j \in a .. b : j - a >= start /\ (size > 0 => j - a - start < size)}
    BY <1>2, <2>2, PageIs
  <2>. HIDE DEF a, b, h
  <2>3. Page(0, 0) = a .. b
    <3>1. \A j \in a .. b : j - a >= 0 /\ (0 > 0 => j - a - 0 < 0)
      BY <2>1
    <3>2. Page(0, 0) = {j \in a .. b : j - a >= 0 /\ (0 > 0 => j - a - 0 < 0)}
      BY <2>2
    <3>. QED  BY <3>1, <3>2
  <2>4. n = h /\ h \in Nat
    BY <2>1, <2>3, FS_Interval
  <2>. HIDE DEF n
  <2>5. ASSUME NEW size \in 1 .. n + 1
        PROVE  /\ UNION {Page(k * size, size) : k \in 0 .. n} = Page(0, 0)
               /\ \A k, m \in 0 .. n : k # m => Page(k * size, size) \cap Page(m * size, size) = {}
               /\ \A k \in 0 .. n : Page(k * size, 0) = UNION {Page(m * size, size) : m \in k .. n}
    <3>1. size \in Nat /\ size > 0 /\ 0 * size = 0
      BY <2>4
    <3>2. ASSUME NEW k \in 0 .. n
          PROVE  k * size \in Nat
      BY <2>4, <3>1
    <3>3. ASSUME NEW j \in a .. b
          PROVE  j - a \in Nat /\ j - a < n
      BY <2>1, <2>4
    <3>4. ASSUME NEW j \in a .. b
          PROVE  \E k \in 0 .. n : j \in Page(k * size, size)
      <4>1. PICK k \in 0 .. j - a : k * size <= j - a /\ j - a < k * size + size
        BY <3>1, <3>3, RowIsOnPage
      <4>2. k \in 0 .. n
        BY <3>3, <2>4
      <4>3. j - a - k * size < size /\ k * size \in Nat
        BY <3>2, <3>3, <4>1, <4>2, <3>1
      <4>. QED  BY <2>2, <3>1, <4>1, <4>2, <4>3
    <3>5. ASSUME NEW k \in 0 .. n, NEW m \in 0 .. n, NEW j \in Page(k * size, size), NEW start \in Nat,
                 j \in Page(start, 0) \/ j \in Page(start, size), start = m * size
          PROVE  j \in a .. b /\ m <= k
      <4>1. j \in a .. b /\ j - a < k * size + size /\ start <= j - a
        BY <2>2, <3>1, <3>2, <3>3, <3>5
      <4>2. ~(k < m)
        <5>. SUFFICES ASSUME k < m
                      PROVE  FALSE
          OBVIOUS
        <5>1. k * size + size <= m * size
          BY <2>4, <3>1, RowsApart
        <5>. QED  BY <3>1, <3>2, <3>3, <3>5, <4>1, <5>1
      <4>. QED  BY <2>4, <4>1, <4>2
    <3>6. \A k, m \in 0 .. n : k # m => Page(k * size, size) \cap Page(m * size, size) = {}
      <4>. SUFFICES ASSUME NEW k \in 0 .. n, NEW m \in 0 .. n, k # m, 
                           NEW j \in Page(k * size, size), j \in Page(m * size, size)
                    PROVE  FALSE
        OBVIOUS
      <4>1. m <= k /\ k <= m
        BY <3>2, <3>5
      <4>. QED  BY <2>4, <4>1
    <3>7. \A k \in 0 .. n : Page(k * size, 0) = UNION {Page(m * size, size) : m \in k .. n}
      <4>. SUFFICES ASSUME NEW k \in 0 .. n
                    PROVE  Page(k * size, 0) = UNION {Page(m * size, size) : m \in k .. n}
        OBVIOUS
      <4>1. ASSUME NEW j \in Page(k * size, 0)
            PROVE  \E m \in k .. n : j \in Page(m * size, size)
        <5>1. j \in a .. b
          BY <2>2, <3>2
        <5>2. PICK m \in 0 .. n : j \in Page(m * size, size)
          BY <3>4, <5>1
        <5>3. k <= m
          BY <3>2, <3>5, <5>2
        <5>4. m \in k .. n
          BY <2>4, <5>3
        <5>. QED  BY <5>2, <5>4
      <4>2. ASSUME NEW m \in k .. n, NEW j \in Page(m * size, size)
            PROVE  j \in Page(k * size, 0)
        <5>1. m \in 0 .. n /\ k <= m
          BY <2>4
        <5>2. k * size <= m * size
          <6>1. CASE k < m
            <7>1. k * size + size <= m * size
              BY <2>4, <3>1, <6>1, RowsApart
            <7>. QED  BY <3>1, <3>2, <5>1, <7>1
          <6>. QED  BY <2>4, <3>2, <5>1, <6>1
        <5>3. j \in a .. b /\ j - a >= m * size
          BY <2>2, <3>1, <3>2, <5>1
        <5>. QED  BY <2>2, <3>2, <3>3, <5>1, <5>2, <5>3, SMTT(60)
      <4>. QED  BY <4>1, <4>2
    <3>8. UNION {Page(k * size, size) : k \in 0 .. n} = Page(0, 0)
      <4>1. ASSUME NEW k \in 0 .. n
            PROVE  Page(k * size, size) \subseteq a .. b
        BY <2>2, <3>1, <3>2
      <4>. QED  BY <2>3, <3>4, <4>1
    <3>. QED  BY <3>6, <3>7, <3>8
  <2>6. n = IF IsEmpty(table) THEN 0 ELSE Height(table)
    BY <1>2, <2>4 DEF h
  <2>7. ASSUME NEW size \in 1 .. n + 1
        PROVE  LET pages == [k \in 0 .. n |-> Page(k * size, size)]
               IN /\ UNION {pages[k] : k \in 0 .. n} = Page(0, 0)
                  /\ \A k, m \in 0 .. n : k # m => pages[k] \cap pages[m] = {}
                  /\ \A k \in 0 .. n : Page(k * size, 0) = UNION {pages[m] : m \in k .. n}
    <3>1. n \in Nat
      BY <2>4
    <3>2. /\ UNION {Page(k * size, size) : k \in 0 .. n} = Page(0, 0)
          /\ \A k, m \in 0 .. n : k # m => Page(k * size, size) \cap Page(m * size, size) = {}
          /\ \A k \in 0 .. n : Page(k * size, 0) = UNION {Page(m * size, size) : m \in k .. n}
      BY <2>5
    <3>. QED  BY <3>1, <3>2, PagesAsFunction
  <2>. QED  BY <2>6, <2>7 DEF PagesPartitionTheRows, n, Page
<1>. QED  BY <1>1, <1>2


-----------------------------------------------------------------------------
(* Of some elements of a list one is the last, so what a cell holds is a    *)
(* text that was set.                                                       *)
LEMMA LastExists ==
  ASSUME NEW n \in Nat, NEW S \in SUBSET (1 .. n), S # {}
  PROVE  \E k \in S : \A m \in S : m <= k
<1>. DEFINE R == {p \in Nat \X Nat : p[1] < p[2]}
            D == {n - k : k \in S}
<1>1. D \in SUBSET Nat /\ D # {}
  <2>1. \A k \in S : n - k \in Nat
    OBVIOUS
  <2>2. \E k \in S : n - k \in D
    OBVIOUS
  <2>. QED  BY <2>1, <2>2
<1>2. PICK d \in D : \A e \in D : <<e, d>> \notin R
  <2>1. IsWellFoundedOn(R, Nat)
    BY NatLessThanWellFounded DEF OpToRel
  <2>. HIDE DEF D, R
  <2>. QED  BY <1>1, <2>1, WFMin
<1>3. PICK k \in S : d = n - k
  OBVIOUS
<1>4. ASSUME NEW m \in S
      PROVE  m <= k
  <2>1. n - m \in Nat /\ n - k \in Nat /\ ~(n - m < n - k)
    BY <1>1, <1>2, <1>3
  <2>. QED  BY <2>1
<1>. QED  BY <1>4

LEMMA LastIsText ==
  ASSUME NEW t, t.list \in Seq(CellType), NEW S \in SUBSET DOMAIN t.list
  PROVE  LastOf(t, S) \in CellText
<1>1. CASE S = {}
  BY <1>1, TextAssumption DEF LastOf
<1>2. CASE S # {}
  <2>. DEFINE last == CHOOSE k \in S : \A m \in S : m <= k
  <2>1. Len(t.list) \in Nat /\ S \in SUBSET (1 .. Len(t.list))
    OBVIOUS
  <2>2. \E k \in S : \A m \in S : m <= k
    BY <1>2, <2>1, LastExists
  <2>3. last \in S
    BY <2>2
  <2>4. t.list[last] \in CellType
    <3>. HIDE DEF last
    <3>. QED  BY <2>3
  <2>5. t.list[last].value \in CellText
    BY <2>4 DEF CellType
  <2>. QED  BY <1>2, <2>5 DEF LastOf
<1>. QED  BY <1>1, <1>2

LEMMA ArrayType ==
  ASSUME NEW t, t.list \in Seq(CellType)
  PROVE  FlatArray(t) \in [0 .. Width(t) * Height(t) - 1 -> CellText]
<1>1. \A p : ElementsAt(t, p) \in SUBSET DOMAIN t.list
  BY DEF ElementsAt
<1>. QED  BY <1>1, LastIsText DEF FlatArray

(* The array depends on the list and the bounds only.                       *)
LEMMA SameArray ==
  ASSUME NEW s, NEW t, s.list = t.list, s.mini = t.mini, s.maxi = t.maxi, s.minj = t.minj, s.maxj = t.maxj
  PROVE  FlatArray(s) = FlatArray(t) /\ Width(s) = Width(t) /\ Height(s) = Height(t)
<1>1. Width(s) = Width(t) /\ Height(s) = Height(t)
  BY DEF Width, Height
<1>2. \A p : ElementsAt(s, p) = ElementsAt(t, p)
  BY <1>1 DEF ElementsAt, Position
<1>3. \A S : LastOf(s, S) = LastOf(t, S)
  BY DEF LastOf
<1>. QED  BY <1>1, <1>2, <1>3 DEF FlatArray

-----------------------------------------------------------------------------
Tables(array) == [list : Seq(CellType), mini : Nat, maxi : Nat, minj : Nat, maxj : Nat,
                  built : BOOLEAN, array : {array}, startRow : Nat, maxResults : Nat,
                  missing : CellText, title : SUBSET STRING, names : Seq(STRING), format : SUBSET STRING]

(* A table whose list, bounds and array are as before is as good as before. *)
LEMMA DescribedKeeps ==
  ASSUME FillingInv, table' \in Tables(table'.array), visitor' \in [col : Nat, row : Nat, lonlat : {"LONLAT", "LATLON"}],
         table'.list = table.list, table'.built = table.built, table'.array = table.array,
         table'.mini = table.mini, table'.maxi = table.maxi, table'.minj = table.minj, table'.maxj = table.maxj
  PROVE  FillingInv'
<1>1. FlatArray(table') = FlatArray(table) /\ Width(table') = Width(table) /\ Height(table') = Height(table)
  BY SameArray
<1>2. FillingTypeOK'
  BY <1>1 DEF FillingInv, FillingTypeOK, Tables
<1>3. Bounds'
  BY DEF FillingInv, Bounds, Cells
<1>4. Built'
  BY <1>1 DEF FillingInv, Built
<1>. QED  BY <1>2, <1>3, <1>4 DEF FillingInv

LEMMA VisitKeeps ==
  ASSUME FillingInv, NEW x \in VisitorValue, Visit(x)
  PROVE  FillingInv'
<1>. DEFINE i == visitor.col  j == visitor.row  c == [i |-> i, j |-> j, value |-> VisitedText(x)]
<1>1. i \in Nat /\ j \in Nat /\ visitor' \in [col : Nat, row : Nat, lonlat : {"LONLAT", "LATLON"}]
  BY SMTT(60) DEF FillingInv, FillingTypeOK, Visit
<1>2. VisitedText(x) \in CellText
  BY TextAssumption DEF VisitedText, VisitorValue
<1>3. CASE table.built
  <2>1. table' = table
    BY <1>3 DEF Visit, MaySet
  <2>. QED  BY <1>1, <2>1 DEF FillingInv, FillingTypeOK, Bounds, Cells, Built
<1>4. CASE ~table.built
  <2>1. table' = SetCell(table, i, j, VisitedText(x))
    BY <1>4 DEF Visit, MaySet
  <2>2. table \in Tables(table.array)
    BY DEF FillingInv, FillingTypeOK, Tables
  <2>3. /\ table'.list = Append(table.list, c) /\ table'.built = FALSE
        /\ table'.mini = IF IsEmpty(table) THEN i ELSE Low(table.mini, i)
        /\ table'.maxi = IF IsEmpty(table) THEN i ELSE High(table.maxi, i)
        /\ table'.minj = IF IsEmpty(table) THEN j ELSE Low(table.minj, j)
        /\ table'.maxj = IF IsEmpty(table) THEN j ELSE High(table.maxj, j)
    BY <1>4, <2>1, <2>2 DEF SetCell, Tables
  <2>4. /\ table.list \in Seq(CellType)
        /\ table.mini \in Nat /\ table.maxi \in Nat /\ table.minj \in Nat /\ table.maxj \in Nat
    BY TableFields DEF FillingInv
  <2>5. /\ table'.mini \in Nat /\ table'.maxi \in Nat /\ table'.minj \in Nat /\ table'.maxj \in Nat
        /\ table'.mini <= table'.maxi /\ table'.minj <= table'.maxj
        /\ i \in table'.mini .. table'.maxi /\ j \in table'.minj .. table'.maxj
        /\ ~IsEmpty(table) => /\ table'.mini <= table.mini /\ table.maxi <= table'.maxi
                              /\ table'.minj <= table.minj /\ table.maxj <= table'.maxj
    <3>1. table.mini <= table.maxi /\ table.minj <= table.maxj
      BY DEF FillingInv, Bounds
    <3>. HIDE DEF i, j
    <3>. QED  BY <1>1, <2>3, <2>4, <3>1, SMTT(60) DEF Low, High
  <2>6. c \in CellType /\ c.i = i /\ c.j = j
    BY <1>1, <1>2 DEF CellType
  <2>7. /\ table'.list \in Seq(CellType) /\ Len(table'.list) = Len(table.list) + 1
        /\ \A k \in 1 .. Len(table.list) : table'.list[k] = table.list[k]
        /\ table'.list[Len(table.list) + 1] = c
    <3>. HIDE DEF c
    <3>. QED  BY <2>3, <2>4, <2>6, AppendProperties
  <2>8. FillingTypeOK'
    <3>1. table' \in Tables(table'.array)
      <4>. DEFINE L == table'.list  a == table'.mini  b == table'.maxi  d == table'.minj  e == table'.maxj
      <4>1. table' = [table EXCEPT !.list = L, !.mini = a, !.maxi = b, !.minj = d, !.maxj = e]
        BY <2>1, <2>2 DEF SetCell, Tables
      <4>2. L \in Seq(CellType) /\ a \in Nat /\ b \in Nat /\ d \in Nat /\ e \in Nat
        BY <2>5, <2>7
      <4>. HIDE DEF L, a, b, d, e
      <4>3. table' \in Tables(table.array)
        BY <2>2, <4>1, <4>2 DEF Tables
      <4>4. table'.array = table.array
        BY <2>2, <4>1 DEF Tables
      <4>. QED  BY <4>3, <4>4
    <3>. QED  BY <1>1, <2>3, <3>1 DEF FillingTypeOK, Tables
  <2>9. Bounds'
    <3>. SUFFICES ASSUME NEW k \in Cells'
                  PROVE  /\ table'.list[k].i \in table'.mini .. table'.maxi
                         /\ table'.list[k].j \in table'.minj .. table'.maxj
      BY <2>5 DEF Bounds
    <3>1. CASE k = Len(table.list) + 1
      BY <2>5, <2>6, <2>7, <3>1
    <3>2. CASE k \in 1 .. Len(table.list)
      <4>1. table'.list[k] = table.list[k] /\ ~IsEmpty(table)
        BY <2>4, <2>7, <3>2 DEF IsEmpty
      <4>2. table.list[k].i \in table.mini .. table.maxi /\ table.list[k].j \in table.minj .. table.maxj
        BY <2>4, <3>2, SMTT(60) DEF FillingInv, Bounds, Cells
      <4>. DEFINE m == table.list[k].i  n == table.list[k].j
      <4>3. m \in table.mini .. table.maxi /\ n \in table.minj .. table.maxj
        BY <4>2
      <4>. HIDE DEF m, n
      <4>4. m \in table'.mini .. table'.maxi /\ n \in table'.minj .. table'.maxj
        BY <2>4, <2>5, <4>1, <4>3, SMTT(60)
      <4>. QED  BY <4>1, <4>4 DEF m, n
    <3>3. k \in 1 .. Len(table.list) + 1
      BY <2>4, <2>7, SMTT(60) DEF Cells
    <3>. QED  BY <2>4, <3>1, <3>2, <3>3, SMTT(60)
  <2>. QED  BY <2>3, <2>8, <2>9 DEF FillingInv, Built
<1>. QED  BY <1>3, <1>4

(* Reading builds the array of what is in the list.                         *)
LEMMA GiveOutKeeps ==
  ASSUME FillingInv, NEW answer, NEW reads \in BOOLEAN, GiveOut(answer, reads)
  PROVE  FillingInv'
<1>1. visitor' \in [col : Nat, row : Nat, lonlat : {"LONLAT", "LATLON"}]
  BY DEF FillingInv, FillingTypeOK, GiveOut
<1>2. table \in Tables(table.array)
  BY DEF FillingInv, FillingTypeOK, Tables
<1>3. CASE ~reads \/ table.built
  <2>1. table' = table
    BY <1>3 DEF GiveOut, BuildArray
  <2>. QED  BY <1>1, <1>2, <2>1, DescribedKeeps
<1>4. CASE reads /\ ~table.built
  <2>1. table' = [table EXCEPT !.built = TRUE, !.array = FlatArray(table)]
    BY <1>4 DEF GiveOut, BuildArray
  <2>2. /\ table'.built = TRUE /\ table'.array = FlatArray(table) /\ table'.list = table.list
        /\ table'.mini = table.mini /\ table'.maxi = table.maxi
        /\ table'.minj = table.minj /\ table'.maxj = table.maxj
        /\ table' \in Tables(table'.array)
    <3>. DEFINE A == FlatArray(table)
    <3>. HIDE DEF A
    <3>1. table' = [table EXCEPT !.built = TRUE, !.array = A]
      BY <2>1 DEF A
    <3>. QED  BY <1>2, <3>1 DEF Tables, A
  <2>3. /\ FlatArray(table') = FlatArray(table)
        /\ Width(table') = Width(table) /\ Height(table') = Height(table)
    BY <2>2, SameArray
  <2>4. FlatArray(table) \in [0 .. Width(table) * Height(table) - 1 -> CellText]
    BY TableFields, ArrayType DEF FillingInv
  <2>5. FillingTypeOK'
    BY <1>1, <2>2, <2>3, <2>4 DEF FillingTypeOK, Tables
  <2>6. Bounds'
    BY <2>2 DEF FillingInv, Bounds, Cells
  <2>. QED  BY <2>2, <2>3, <2>5, <2>6 DEF FillingInv, Built
<1>. QED  BY <1>3, <1>4

LEMMA SettersKeep ==
  ASSUME FillingInv,
         \/ \E p \in Nat \X Nat : SetPaging(p)
         \/ \E names \in Seq(STRING) : SetNames(names)
         \/ \E x \in STRING : SetTitle(x) \/ SetDefault(x)
         \/ \E x \in CellText : SetMissingText(x)
  PROVE  FillingInv'
<1>. DEFINE S == Seq(CellType)  T == SUBSET STRING  N == Seq(STRING)
            R == [list : S, mini : Nat, maxi : Nat, minj : Nat, maxj : Nat,
                  built : BOOLEAN, array : {table.array}, startRow : Nat, maxResults : Nat,
                  missing : CellText, title : T, names : N, format : T]
<1>1. table \in R /\ visitor' \in [col : Nat, row : Nat, lonlat : {"LONLAT", "LATLON"}]
  BY DEF FillingInv, FillingTypeOK, SetPaging, SetNames, SetTitle, SetDefault, SetMissingText, Describe
<1>. DEFINE Same == /\ table'.list = table.list /\ table'.built = table.built /\ table'.array = table.array
                    /\ table'.mini = table.mini /\ table'.maxi = table.maxi
                    /\ table'.minj = table.minj /\ table'.maxj = table.maxj
<1>2. \A x \in STRING : {x} \in T
  OBVIOUS
<1>3. table' \in R /\ Same
  <2>. HIDE DEF S, T, N
  <2>1. ASSUME NEW p \in Nat \X Nat, SetPaging(p)
        PROVE  table' \in R /\ Same
    BY <1>1, <2>1 DEF SetPaging, Describe
  <2>2. ASSUME NEW names \in N, SetNames(names)
        PROVE  table' \in R /\ Same
    BY <1>1, <2>2 DEF SetNames, Describe
  <2>3. ASSUME NEW x \in STRING, SetTitle(x)
        PROVE  table' \in R /\ Same
    <3>. DEFINE X == {x}
    <3>1. X \in T
      BY <1>2
    <3>2. table' = [table EXCEPT !.title = X]
      BY <2>3 DEF SetTitle, Describe
    <3>. HIDE DEF X
    <3>. QED  BY <1>1, <3>1, <3>2
  <2>4. ASSUME NEW x \in STRING, SetDefault(x)
        PROVE  table' \in R /\ Same
    <3>. DEFINE X == {x}
    <3>1. X \in T
      BY <1>2
    <3>2. table' = [table EXCEPT !.format = X]
      BY <2>4 DEF SetDefault, Describe
    <3>. HIDE DEF X
    <3>. QED  BY <1>1, <3>1, <3>2
  <2>5. ASSUME NEW x \in CellText, SetMissingText(x)
        PROVE  table' \in R /\ Same
    BY <1>1, <2>5 DEF SetMissingText, Describe
  <2>. QED  BY <2>1, <2>2, <2>3, <2>4, <2>5 DEF N
<1>4. table' \in Tables(table'.array)
  BY <1>3 DEF Tables
<1>. QED  BY <1>1, <1>3, <1>4, DescribedKeeps

LEMMA FillingStart ==
  ASSUME NEW i \in Nat, NEW j \in Nat, FillingInit(i, j)
  PROVE  FillingInv
<1>1. <<>> \in Seq(CellType) /\ <<>> \in Seq(STRING)
  OBVIOUS
<1>2. table.list = <<>> /\ ~table.built /\ table.mini = 0 /\ table.maxi = 0 /\ table.minj = 0 /\ table.maxj = 0
  BY DEF FillingInit, EmptyTable
<1>3. table \in Tables(table.array)
  <2>. DEFINE L == <<>>  S == Seq(CellType)  N == Seq(STRING)  T == SUBSET STRING  E == {}
  <2>1. L \in S /\ L \in N /\ E \in T /\ NoText \in CellText
    BY <1>1, TextAssumption
  <2>2. table = [list |-> L, mini |-> 0, maxi |-> 0, minj |-> 0, maxj |-> 0,
                 built |-> FALSE, array |-> L, startRow |-> 0, maxResults |-> 0,
                 missing |-> NoText, title |-> E, names |-> L, format |-> E]
    BY DEF FillingInit, EmptyTable
  <2>3. table \in [list : S, mini : Nat, maxi : Nat, minj : Nat, maxj : Nat,
                   built : BOOLEAN, array : {table.array}, startRow : Nat, maxResults : Nat,
                   missing : CellText, title : T, names : N, format : T]
    <3>. HIDE DEF L, S, N, T, E
    <3>. QED  BY <2>1, <2>2
  <2>. QED  BY <2>3 DEF Tables
<1>4. FillingTypeOK
  BY <1>2, <1>3 DEF FillingTypeOK, Tables, FillingInit
<1>5. Bounds
  BY <1>2 DEF Bounds, Cells
<1>. QED  BY <1>2, <1>4, <1>5 DEF FillingInv, Built

LEMMA FillingStep ==
  ASSUME FillingInv, [FillingNext]_fillingVars
  PROVE  FillingInv'
<1>1. table \in Tables(table.array)
  BY DEF FillingInv, FillingTypeOK, Tables
<1>2. ASSUME NEW x \in VisitorValue, Visit(x)
      PROVE  FillingInv'
  BY <1>2, VisitKeeps
<1>3. ASSUME NEW answer, NEW reads \in BOOLEAN, GiveOut(answer, reads)
      PROVE  FillingInv'
  BY <1>3, GiveOutKeeps
<1>4. ASSUME NEW i \in Nat, NEW j \in Nat, ReadCell(i, j)
      PROVE  FillingInv'
  BY <1>3, <1>4 DEF ReadCell
<1>5. ASSUME NEW i \in Nat, NEW j \in Nat, NEW miss \in CellText, ReadCellOr(i, j, miss)
      PROVE  FillingInv'
  <2>1. MayGet(table, i, j) \in BOOLEAN
    BY DEF MayGet
  <2>. QED  BY <1>3, <1>5, <2>1 DEF ReadCellOr
<1>6. ASSUME UNCHANGED table, visitor' \in [col : Nat, row : Nat, lonlat : {"LONLAT", "LATLON"}]
      PROVE  FillingInv'
  BY <1>1, <1>6, DescribedKeeps
<1>7. ASSUME NEW i \in Nat, NEW j \in Nat, MoveTo(i, j)
      PROVE  FillingInv'
  BY <1>6, <1>7 DEF MoveTo, FillingInv, FillingTypeOK
<1>8. ASSUME NEW f \in {"LONLAT", "LATLON"}, SetLonLat(f)
      PROVE  FillingInv'
  BY <1>6, <1>8 DEF SetLonLat, FillingInv, FillingTypeOK
<1>9. CASE UNCHANGED fillingVars
  BY <1>6, <1>9 DEF fillingVars, FillingInv, FillingTypeOK
<1>. QED
  BY <1>2, <1>3, <1>4, <1>5, <1>7, <1>8, <1>9, SettersKeep DEF FillingNext

LEMMA FillingInvariant == FillingSpec => []FillingInv
<1>1. (\E i, j \in Nat : FillingInit(i, j)) => FillingInv
  BY FillingStart
<1>. QED  BY <1>1, FillingStep, PTL DEF FillingSpec

-----------------------------------------------------------------------------
(* The members of the table and of the visitor are of their types, and the  *)
(* array has a text for every position that get() can compute (Table.cpp's  *)
(* build_array() and get()).                                                *)
THEOREM FillingTypeCorrect == FillingSpec => []FillingTypeOK
<1>1. FillingInv => FillingTypeOK
  BY DEF FillingInv
<1>. QED  BY <1>1, FillingInvariant, PTL

(* What get() gives for a cell is the last text that set() put there, and   *)
(* pages of rows() that follow each other hold every row once: for tables   *)
(* of any size, filled in any order, with any page sizes.                   *)
THEOREM CellsAreKeptAlways == FillingSpec => []CellsAreKept
<1>1. FillingInv => CellsAreKept
  BY CellsHold, PagesPartition DEF FillingInv, CellsAreKept
<1>. QED  BY <1>1, FillingInvariant, PTL

(* After the first read or the first format neither the list nor the array  *)
(* changes any more, whatever the plugin calls.                             *)
THEOREM FinalOnceReadAlways == FillingSpec => FinalOnceRead
<1>. DEFINE Final == table.built => table'.built /\ table'.array = table.array /\ table'.list = table.list
<1>1. FillingInv /\ [FillingNext]_fillingVars => [Final]_fillingVars
  <2>. SUFFICES ASSUME FillingInv, FillingNext, table.built
                PROVE  table'.built /\ table'.array = table.array /\ table'.list = table.list
    OBVIOUS
  <2>1. table \in Tables(table.array)
    BY DEF FillingInv, FillingTypeOK, Tables
  <2>2. CASE UNCHANGED table
    BY <2>2
  <2>3. ASSUME NEW answer, NEW reads \in BOOLEAN, GiveOut(answer, reads)
        PROVE  UNCHANGED table
    BY <2>3 DEF GiveOut, BuildArray
  <2>4. ASSUME NEW i, NEW j, NEW miss, ReadCell(i, j) \/ ReadCellOr(i, j, miss)
        PROVE  UNCHANGED table
    <3>1. MayGet(table, i, j) \in BOOLEAN
      BY DEF MayGet
    <3>. QED  BY <2>3, <2>4, <3>1 DEF ReadCell, ReadCellOr
  <2>5. ASSUME NEW x \in VisitorValue, Visit(x)
        PROVE  UNCHANGED table
    BY <2>5 DEF Visit, MaySet
  <2>6. ASSUME NEW p, NEW names, NEW x,
               \/ SetPaging(p) \/ SetNames(names) \/ SetTitle(x) \/ SetMissingText(x) \/ SetDefault(x)
        PROVE  table'.built = table.built /\ table'.array = table.array /\ table'.list = table.list
    BY <2>1, <2>6 DEF Tables, SetPaging, SetNames, SetTitle, SetMissingText, SetDefault, Describe
  <2>. QED
    BY <2>2, <2>3, <2>4, <2>5, <2>6 DEF FillingNext, MoveTo, SetLonLat
<1>. QED  BY <1>1, FillingInvariant, PTL DEF FillingSpec, FinalOnceRead

=============================================================================
