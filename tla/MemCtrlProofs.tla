--------------------------- MODULE MemCtrlProofs ----------------------------
(***************************************************************************)
(* Proofs about MemCtrl: the three columns, the scroll position and the    *)
(* selections, for every font, dump, window and mouse position.            *)
(***************************************************************************)
EXTENDS MemCtrl, WellFoundedInduction, TLAPS

Point == Int \X Int
SelType == [front : Point, pts : SUBSET Point]
TextType == [base : Nat, size : Nat]
ColumnType ==
  [xStart : Int, xEnd : Int, xDelta : Int, xChanged : BOOLEAN, xChars : Nat \ {0},
   yChars : Int, scrollCur : Int, isAddr : BOOLEAN, text : TextType, sel : SelType]

ColumnsType == [addr : ColumnType, hex : ColumnType, dump : ColumnType]

MemType ==
  /\ col \in ColumnsType
  /\ m_scrollLines \in Nat /\ m_scrollCur \in Int /\ m_yChars \in Nat
  /\ height \in Heights

\* The columns are scrolled to cur, and they have either no text at all or one
\* dump, 16 bytes to a row.
OneDump(cs, cur) ==
  /\ cs.addr.scrollCur = cur /\ cs.hex.scrollCur = cur /\ cs.dump.scrollCur = cur
  /\ cs.dump.xChars = 16 /\ ~cs.hex.isAddr /\ ~cs.dump.isAddr
  /\ \/ cs.addr.text.size = 0 /\ cs.hex.text.size = 0 /\ cs.dump.text.size = 0
     \/ /\ cs.addr.isAddr /\ cs.hex.xChars = 48
        /\ cs.addr.text.size = 8 * (Size \div 16)
        /\ cs.hex.text.size = 3 * Size /\ cs.dump.text.size = Size
        /\ cs.hex.text.base = cs.addr.text.base
        /\ cs.dump.text.base = cs.addr.text.base

\* ColumnsAdjacent, of columns cs.
Adjacent(cs) ==
  /\ ~cs.addr.xChanged => cs.hex.xStart = cs.addr.xEnd
  /\ ~cs.hex.xChanged => cs.dump.xStart = cs.hex.xEnd

\* The lines are those of a dump, and the rows those of the window, if it has
\* been measured at all.
ScrollInv ==
  /\ m_scrollLines \in {0, Size \div 16}
  /\ m_yChars \in {0, Chars(height)}
  /\ Shown => m_yChars = Chars(height)

\* A selection whose points are at character lo of their rows or after it.
SelOK(s, lo) == s \in SelType /\ \A q \in s.pts : q[1] >= lo

\* The two selections are of the same bytes.  One in the hex column may begin
\* two characters before its row, which still counts as the row's first byte.
Selected(cs) ==
  /\ SelOK(cs.hex.sel, -2) /\ SelOK(cs.dump.sel, 0)
  /\ cs.dump.sel.pts = {ByteOf(q) : q \in cs.hex.sel.pts}

MemInv ==
  /\ MemType /\ ScrollInv
  /\ OneDump(col, m_scrollCur) /\ Adjacent(col) /\ Selected(col)

-----------------------------------------------------------------------------
\* The mouse.

\* Column k with another selection.
Resel(r, k, lo) == \E s : SelOK(s, lo) /\ r = [k EXCEPT !.sel = s]

LEMMA MinMax ==
  ASSUME NEW n \in Nat, NEW S \in SUBSET (0 .. n), S # {}
  PROVE  Min(S) \in S /\ Max(S) \in S
<1>1. ASSUME NEW T \in SUBSET Nat, T # {} PROVE \E x \in T : \A y \in T : x <= y
  <2>1. PICK x \in T : \A y \in T : ~(<<y, x>> \in OpToRel(<, Nat))
    BY <1>1, WFMin, NatLessThanWellFounded
  <2>2. \A y \in T : ~(y < x)
    BY <2>1 DEF OpToRel
  <2> QED BY <2>2
<1>2. \E x \in S : \A y \in S : x <= y
  BY <1>1
<1>3. \E x \in S : \A y \in S : x >= y
  <2> DEFINE T == {n - x : x \in S}
  <2>1. T \in SUBSET Nat /\ T # {}
    <3>1. \A x \in S : n - x \in Nat
      OBVIOUS
    <3>2. PICK x \in S : TRUE
      OBVIOUS
    <3>3. n - x \in T
      OBVIOUS
    <3> QED BY <3>1, <3>3
  <2> HIDE DEF T
  <2>2. PICK z \in T : \A y \in T : z <= y
    BY <1>1, <2>1
  <2>3. PICK x \in S : z = n - x
    BY <2>2 DEF T
  <2>4. ASSUME NEW y \in S PROVE x >= y
    <3>1. n - y \in T
      BY DEF T
    <3> QED BY <2>2, <2>3, <3>1
  <2> QED BY <2>4
<1> QED BY <1>2, <1>3 DEF Min, Max

LEMMA PushBackOK ==
  ASSUME NEW lo \in Int, NEW sel, SelOK(sel, lo), NEW s, NEW n \in Nat, n >= 1,
         DOMAIN s = 1 .. n, \A i \in 1 .. n : s[i] \in Point /\ s[i][1] >= lo
  PROVE  SelOK(PushBack(sel, s), lo)
<1>1. sel \in SelType /\ \A q \in sel.pts : q[1] >= lo
  BY DEF SelOK
<1>2. s[1] \in Point
  OBVIOUS
<1> DEFINE f == IF sel.pts = {} THEN s[1] ELSE sel.front
           P == sel.pts \cup {s[i] : i \in DOMAIN s}
<1>3. f \in Point /\ P \in SUBSET Point /\ \A q \in P : q[1] >= lo
  BY <1>1, <1>2 DEF SelType
<1>4. PushBack(sel, s) = [front |-> f, pts |-> P]
  BY DEF PushBack
<1> HIDE DEF f, P
<1> QED BY <1>3, <1>4 DEF SelOK, SelType

LEMMA HexPointOK ==
  ASSUME NEW k \in ColumnType, SelOK(k.sel, -2), NEW x \in Nat, NEW y \in Int, NEW stray
  PROVE  SelOK(SelectHexPoint(k, x, y, stray), -2)
<1> DEFINE row == y + k.scrollCur
           a == <<<<x, row>>, <<x + 1, row>>>>
           b == <<<<x, row>>, <<x - 1, row>>>>
           c == <<<<x, row>>>>
<1>1. row \in Int
  BY DEF ColumnType
<1>2. PICK s \in {a, b, c} : SelectHexPoint(k, x, y, stray) = PushBack(k.sel, s)
  BY DEF SelectHexPoint
<1> HIDE DEF row
<1>3. <<x, row>> \in Point /\ <<x + 1, row>> \in Point /\ <<x - 1, row>> \in Point
  BY <1>1 DEF Point
<1>4. \E n \in {1, 2} : DOMAIN s = 1 .. n /\ \A i \in 1 .. n : s[i] \in Point /\ s[i][1] >= -2
  <2>1. CASE s = a BY <1>3, <2>1
  <2>2. CASE s = b BY <1>3, <2>2
  <2>3. CASE s = c BY <1>3, <2>3
  <2> QED BY <2>1, <2>2, <2>3
<1> HIDE DEF a, b, c
<1> QED BY <1>2, <1>4, PushBackOK

LEMMA HexLineOK ==
  ASSUME NEW k \in ColumnType, NEW sel, SelOK(sel, -2), NEW x \in Nat, NEW y \in Int, NEW stray
  PROVE  SelOK(SelectHexLine(k, sel, x, y, stray), -2)
<1> DEFINE row == y + k.scrollCur
           step == IF sel.front[1] < x THEN 1 ELSE -1
           n == IF IsSpace(k, x, row, stray) THEN 3 ELSE 2
           s == [i \in 1 .. n |-> <<x + step * (i - 1), row>>]
<1>1. row \in Int /\ n \in {2, 3} /\ step \in {1, -1}
  BY DEF ColumnType
<1>2. SelectHexLine(k, sel, x, y, stray) = IF sel.front[1] = x THEN sel ELSE PushBack(sel, s)
  BY DEF SelectHexLine
<1> HIDE DEF row, n, step
<1>3. DOMAIN s = 1 .. n /\ \A i \in 1 .. n : s[i] \in Point /\ s[i][1] >= -2
  <2>1. ASSUME NEW i \in 1 .. n
        PROVE  x + step * (i - 1) \in Int /\ x + step * (i - 1) >= -2
    <3>1. i \in {1, 2, 3} BY <1>1
    <3>2. CASE step = 1 BY <3>1, <3>2
    <3>3. CASE step = -1 BY <3>1, <3>3
    <3> QED BY <1>1, <3>2, <3>3
  <2> QED BY <1>1, <2>1 DEF Point
<1> HIDE DEF s
<1>4. SelOK(PushBack(sel, s), -2)
  BY <1>1, <1>3, PushBackOK
<1> QED BY <1>2, <1>4

LEMMA VisitedIs ==
  ASSUME NEW a \in Int, NEW b \in Int
  PROVE  \E n \in Nat : /\ n >= 1 /\ DOMAIN Visited(a, b) = 1 .. n
                        /\ \A i \in 1 .. n : Visited(a, b)[i] \in Int
<1>1. CASE a <= b
  <2>1. PICK n \in Nat : n >= 1 /\ n = b - a + 1
    BY <1>1
  <2>2. Visited(a, b) = [i \in 1 .. n |-> a + i - 1]
    BY <1>1, <2>1 DEF Visited
  <2>3. \A i \in 1 .. n : a + i - 1 \in Int
    BY <2>1
  <2> QED BY <2>1, <2>2, <2>3
<1>2. CASE ~(a <= b)
  <2>1. PICK n \in Nat : n >= 1 /\ n = a - b + 1
    BY <1>2
  <2>2. Visited(a, b) = [i \in 1 .. n |-> a - i + 1]
    BY <1>2, <2>1 DEF Visited
  <2> QED BY <2>1, <2>2
<1> QED BY <1>1, <1>2

\* The points a drag selects, from those of the cells it visits.
LEMMA CellsOK ==
  ASSUME NEW lo \in Int, NEW n \in Nat, n >= 1, NEW P,
         ASSUME NEW i \in 1 .. n
         PROVE  \E m \in Nat : /\ m >= 1 /\ DOMAIN P[i] = 1 .. m
                               /\ \A j \in 1 .. m : P[i][j] \in Point /\ P[i][j][1] >= lo
  PROVE  SelOK([front |-> P[1][1],
                pts |-> UNION {{P[i][j] : j \in DOMAIN P[i]} : i \in 1 .. n}], lo)
<1>1. P[1][1] \in Point
  <2>1. 1 \in 1 .. n
    OBVIOUS
  <2>2. PICK m \in Nat : m >= 1 /\ \A j \in 1 .. m : P[1][j] \in Point
    BY <2>1
  <2> QED BY <2>2
<1> DEFINE U == UNION {{P[i][j] : j \in DOMAIN P[i]} : i \in 1 .. n}
<1>2. ASSUME NEW q \in U PROVE q \in Point /\ q[1] >= lo
  <2>1. PICK i \in 1 .. n : q \in {P[i][j] : j \in DOMAIN P[i]}
    OBVIOUS
  <2>2. PICK j \in DOMAIN P[i] : q = P[i][j]
    BY <2>1
  <2> QED BY <2>2
<1> HIDE DEF U
<1>3. U \in SUBSET Point
  BY <1>2
<1>4. SelOK([front |-> P[1][1], pts |-> U], lo)
  BY <1>1, <1>2, <1>3 DEF SelOK, SelType
<1> QED BY <1>4 DEF U

LEMMA NoSelOK == SelOK(NoSel, -2) /\ SelOK(NoSel, 0)
<1>1. <<0, 0>> \in Point
  BY DEF Point
<1> QED BY <1>1 DEF NoSel, SelOK, SelType

LEMMA FrontIs ==
  ASSUME NEW s \in SelType
  PROVE  s.front[1] \in Int /\ s.front[2] \in Int
BY DEF SelType, Point

LEMMA HexLinesOK ==
  ASSUME NEW k \in ColumnType, NEW sel, SelOK(sel, -2), NEW x \in Nat, NEW y \in Int, NEW stray
  PROVE  SelOK(SelectHexLines(k, sel, x, y, stray), -2)
<1> DEFINE down == sel.front[2] < y + k.scrollCur
           At(xs, ys) ==
             LET space == IsSpace(k, xs, ys, stray)
             IN  IF down
                 THEN [i \in 1 .. IF space THEN 3 ELSE 2 |-> <<xs + i - 1, ys>>]
                 ELSE [i \in 1 .. 3 |-> <<xs + (IF space THEN 1 ELSE 2) - i, ys>>]
           row == y + k.scrollCur
           posEnd == x + k.xChars * row
           pos == sel.front[1] + k.xChars * sel.front[2]
           cells == Visited(pos, posEnd)
           P == [i \in DOMAIN cells |-> At(cells[i] % k.xChars, cells[i] \div k.xChars)]
           Sel == [front |-> P[1][1],
                   pts |-> UNION {{P[i][j] : j \in DOMAIN P[i]} : i \in DOMAIN cells}]
<1>1. pos \in Int /\ posEnd \in Int /\ k.xChars \in Nat /\ k.xChars > 0
  BY FrontIs DEF SelOK, ColumnType
<1>2. PICK n \in Nat : /\ n >= 1 /\ DOMAIN cells = 1 .. n
                       /\ \A i \in 1 .. n : cells[i] \in Int
  BY <1>1, VisitedIs
<1>3. SelectHexLines(k, sel, x, y, stray) \in {sel, NoSel, Sel}
  <2>1. 1 \in DOMAIN cells
    BY <1>2
  <2> DEFINE pts(i) == At(cells[i] % k.xChars, cells[i] \div k.xChars)
  <2>2. SelectHexLines(k, sel, x, y, stray) =
          IF sel.front[2] = row THEN sel
          ELSE IF (pos <= posEnd) # (sel.front[2] < row) THEN NoSel
          ELSE [front |-> pts(1)[1],
                pts |-> UNION {{pts(i)[j] : j \in DOMAIN pts(i)} : i \in DOMAIN cells}]
    BY DEF SelectHexLines, Lines
  <2> HIDE DEF At, cells
  <2>3. \A i \in DOMAIN cells : P[i] = pts(i)
    OBVIOUS
  <2>4. \A i \in DOMAIN cells : {pts(i)[j] : j \in DOMAIN pts(i)} = {P[i][j] : j \in DOMAIN P[i]}
    BY <2>3
  <2>5. {{pts(i)[j] : j \in DOMAIN pts(i)} : i \in DOMAIN cells}
          = {{P[i][j] : j \in DOMAIN P[i]} : i \in DOMAIN cells}
    BY <2>4
  <2>6. pts(1)[1] = P[1][1]
    BY <2>1, <2>3
  <2> QED BY <2>2, <2>5, <2>6
<1>4. ASSUME NEW xs \in Nat, NEW ys \in Int
      PROVE  \E m \in Nat : /\ m >= 1 /\ DOMAIN At(xs, ys) = 1 .. m
                            /\ \A j \in 1 .. m : At(xs, ys)[j] \in Point /\ At(xs, ys)[j][1] >= -2
  <2> DEFINE space == IsSpace(k, xs, ys, stray)
  <2> HIDE DEF space
  <2>1. CASE down /\ space
    <3>1. PICK m \in Nat : m = 3
      OBVIOUS
    <3>2. At(xs, ys) = [i \in 1 .. m |-> <<xs + i - 1, ys>>]
      BY <2>1, <3>1 DEF space
    <3> HIDE DEF At
    <3>3. ASSUME NEW j \in 1 .. m
          PROVE  At(xs, ys)[j] \in Point /\ At(xs, ys)[j][1] >= -2
      <4>1. At(xs, ys)[j] = <<xs + j - 1, ys>>
        BY <3>2
      <4> QED BY <3>1, <4>1 DEF Point
    <3>4. DOMAIN At(xs, ys) = 1 .. m
      BY <3>2
    <3> QED BY <3>1, <3>3, <3>4
  <2>2. CASE down /\ ~space
    <3>1. PICK m \in Nat : m = 2
      OBVIOUS
    <3>2. At(xs, ys) = [i \in 1 .. m |-> <<xs + i - 1, ys>>]
      BY <2>2, <3>1 DEF space
    <3> HIDE DEF At
    <3>3. ASSUME NEW j \in 1 .. m
          PROVE  At(xs, ys)[j] \in Point /\ At(xs, ys)[j][1] >= -2
      <4>1. At(xs, ys)[j] = <<xs + j - 1, ys>>
        BY <3>2
      <4> QED BY <3>1, <4>1 DEF Point
    <3>4. DOMAIN At(xs, ys) = 1 .. m
      BY <3>2
    <3> QED BY <3>1, <3>3, <3>4
  <2>3. CASE ~down /\ space
    <3>1. PICK m \in Nat : m = 3
      OBVIOUS
    <3>2. At(xs, ys) = [i \in 1 .. m |-> <<xs + 1 - i, ys>>]
      BY <2>3, <3>1 DEF space
    <3> HIDE DEF At
    <3>3. ASSUME NEW j \in 1 .. m
          PROVE  At(xs, ys)[j] \in Point /\ At(xs, ys)[j][1] >= -2
      <4>1. At(xs, ys)[j] = <<xs + 1 - j, ys>>
        BY <3>2
      <4> QED BY <3>1, <4>1 DEF Point
    <3>4. DOMAIN At(xs, ys) = 1 .. m
      BY <3>2
    <3> QED BY <3>1, <3>3, <3>4
  <2>4. CASE ~down /\ ~space
    <3>1. PICK m \in Nat : m = 3
      OBVIOUS
    <3>2. At(xs, ys) = [i \in 1 .. m |-> <<xs + 2 - i, ys>>]
      BY <2>4, <3>1 DEF space
    <3> HIDE DEF At
    <3>3. ASSUME NEW j \in 1 .. m
          PROVE  At(xs, ys)[j] \in Point /\ At(xs, ys)[j][1] >= -2
      <4>1. At(xs, ys)[j] = <<xs + 2 - j, ys>>
        BY <3>2
      <4> QED BY <3>1, <4>1 DEF Point
    <3>4. DOMAIN At(xs, ys) = 1 .. m
      BY <3>2
    <3> QED BY <3>1, <3>3, <3>4
  <2> QED BY <2>1, <2>2, <2>3, <2>4
<1> HIDE DEF At
<1>5. ASSUME NEW i \in 1 .. n
      PROVE  \E m \in Nat : /\ m >= 1 /\ DOMAIN P[i] = 1 .. m
                            /\ \A j \in 1 .. m : P[i][j] \in Point /\ P[i][j][1] >= -2
  <2> DEFINE c == cells[i]
  <2>1. c % k.xChars \in Nat /\ c \div k.xChars \in Int
    <3>1. c \in Int BY <1>2
    <3> HIDE DEF c
    <3> QED BY <1>1, <3>1
  <2>2. P[i] = At(c % k.xChars, c \div k.xChars)
    BY <1>2
  <2> HIDE DEF c, P
  <2>3. PICK xs \in Nat, ys \in Int : P[i] = At(xs, ys)
    BY <2>1, <2>2
  <2>4. PICK m \in Nat : /\ m >= 1 /\ DOMAIN At(xs, ys) = 1 .. m
                         /\ \A j \in 1 .. m : At(xs, ys)[j] \in Point /\ At(xs, ys)[j][1] >= -2
    BY <1>4
  <2> QED BY <2>3, <2>4
<1> HIDE DEF P, cells
<1>6. SelOK(Sel, -2)
  <2>1. Sel = [front |-> P[1][1], pts |-> UNION {{P[i][j] : j \in DOMAIN P[i]} : i \in 1 .. n}]
    BY <1>2
  <2>2. PICK lo \in Int : lo = -2
    OBVIOUS
  <2>3. ASSUME NEW i \in 1 .. n
        PROVE  \E m \in Nat : /\ m >= 1 /\ DOMAIN P[i] = 1 .. m
                              /\ \A j \in 1 .. m : P[i][j] \in Point /\ P[i][j][1] >= lo
    BY <1>5, <2>2
  <2>4. SelOK([front |-> P[1][1],
               pts |-> UNION {{P[i][j] : j \in DOMAIN P[i]} : i \in 1 .. n}], lo)
    BY <1>2, <2>3, CellsOK
  <2> HIDE DEF Sel
  <2> QED BY <2>1, <2>2, <2>4
<1> QED BY <1>3, <1>6, NoSelOK

LEMMA DumpPointOK ==
  ASSUME NEW k \in ColumnType, SelOK(k.sel, 0), NEW x \in Nat, NEW y \in Int
  PROVE  SelOK(SelectDumpPoint(k, x, y), 0)
<1> DEFINE row == y + k.scrollCur
           s == <<<<x, row>>>>
<1>1. row \in Int
  BY DEF ColumnType
<1>2. SelectDumpPoint(k, x, y) = PushBack(k.sel, s)
  BY DEF SelectDumpPoint
<1> HIDE DEF row
<1>3. DOMAIN s = 1 .. 1 /\ \A i \in 1 .. 1 : s[i] \in Point /\ s[i][1] >= 0
  <2>1. DOMAIN s = 1 .. 1 /\ s[1] = <<x, row>>
    OBVIOUS
  <2> HIDE DEF s
  <2> QED BY <1>1, <2>1 DEF Point
<1> HIDE DEF s
<1>4. PICK n \in Nat : n = 1
  OBVIOUS
<1>5. PICK lo \in Int : lo = 0
  OBVIOUS
<1>6. SelOK(k.sel, lo) /\ DOMAIN s = 1 .. n /\ \A i \in 1 .. n : s[i] \in Point /\ s[i][1] >= lo
  BY <1>3, <1>4, <1>5
<1>7. SelOK(PushBack(k.sel, s), lo)
  <2>1. n >= 1 BY <1>4
  <2> QED BY <1>6, <2>1, PushBackOK
<1> QED BY <1>2, <1>5, <1>7

LEMMA DumpLinesOK ==
  ASSUME NEW k \in ColumnType, NEW sel, SelOK(sel, 0), NEW x \in Nat, NEW y \in Int
  PROVE  SelOK(SelectDumpLines(k, sel, x, y), 0)
<1> DEFINE At(xs, ys) == <<<<xs, ys>>>>
           row == y + k.scrollCur
           posEnd == x + k.xChars * row
           pos == sel.front[1] + k.xChars * sel.front[2]
           cells == Visited(pos, posEnd)
           P == [i \in DOMAIN cells |-> At(cells[i] % k.xChars, cells[i] \div k.xChars)]
           Sel == [front |-> P[1][1],
                   pts |-> UNION {{P[i][j] : j \in DOMAIN P[i]} : i \in DOMAIN cells}]
<1>1. pos \in Int /\ posEnd \in Int /\ k.xChars \in Nat /\ k.xChars > 0
  BY FrontIs DEF SelOK, ColumnType
<1>2. PICK n \in Nat : /\ n >= 1 /\ DOMAIN cells = 1 .. n
                       /\ \A i \in 1 .. n : cells[i] \in Int
  BY <1>1, VisitedIs
<1>3. SelectDumpLines(k, sel, x, y) \in {sel, NoSel, Sel}
  <2>1. 1 \in DOMAIN cells
    BY <1>2
  <2> DEFINE pts(i) == At(cells[i] % k.xChars, cells[i] \div k.xChars)
  <2>2. SelectDumpLines(k, sel, x, y) =
          IF sel.front[2] = row THEN sel
          ELSE IF (pos <= posEnd) # (sel.front[2] < row) THEN NoSel
          ELSE [front |-> pts(1)[1],
                pts |-> UNION {{pts(i)[j] : j \in DOMAIN pts(i)} : i \in DOMAIN cells}]
    BY DEF SelectDumpLines, Lines
  <2> HIDE DEF At, cells
  <2>3. \A i \in DOMAIN cells : P[i] = pts(i)
    OBVIOUS
  <2>4. \A i \in DOMAIN cells : {pts(i)[j] : j \in DOMAIN pts(i)} = {P[i][j] : j \in DOMAIN P[i]}
    BY <2>3
  <2>5. {{pts(i)[j] : j \in DOMAIN pts(i)} : i \in DOMAIN cells}
          = {{P[i][j] : j \in DOMAIN P[i]} : i \in DOMAIN cells}
    BY <2>4
  <2>6. pts(1)[1] = P[1][1]
    BY <2>1, <2>3
  <2> QED BY <2>2, <2>5, <2>6
<1>4. ASSUME NEW xs \in Nat, NEW ys \in Int
      PROVE  \E m \in Nat : /\ m >= 1 /\ DOMAIN At(xs, ys) = 1 .. m
                            /\ \A j \in 1 .. m : At(xs, ys)[j] \in Point /\ At(xs, ys)[j][1] >= 0
  <2>1. DOMAIN At(xs, ys) = 1 .. 1 /\ At(xs, ys)[1] = <<xs, ys>>
    OBVIOUS
  <2> HIDE DEF At
  <2>2. ASSUME NEW j \in 1 .. 1 PROVE At(xs, ys)[j] \in Point /\ At(xs, ys)[j][1] >= 0
    <3>1. j = 1 OBVIOUS
    <3> QED BY <2>1, <3>1 DEF Point
  <2>3. 1 \in Nat /\ 1 >= 1
    OBVIOUS
  <2> QED BY <2>1, <2>2, <2>3
<1> HIDE DEF At
<1>5. ASSUME NEW i \in 1 .. n
      PROVE  \E m \in Nat : /\ m >= 1 /\ DOMAIN P[i] = 1 .. m
                            /\ \A j \in 1 .. m : P[i][j] \in Point /\ P[i][j][1] >= 0
  <2> DEFINE c == cells[i]
  <2>1. c % k.xChars \in Nat /\ c \div k.xChars \in Int
    <3>1. c \in Int BY <1>2
    <3> HIDE DEF c
    <3> QED BY <1>1, <3>1
  <2>2. P[i] = At(c % k.xChars, c \div k.xChars)
    BY <1>2
  <2> HIDE DEF c, P
  <2>3. PICK xs \in Nat, ys \in Int : P[i] = At(xs, ys)
    BY <2>1, <2>2
  <2>4. PICK m \in Nat : /\ m >= 1 /\ DOMAIN At(xs, ys) = 1 .. m
                         /\ \A j \in 1 .. m : At(xs, ys)[j] \in Point /\ At(xs, ys)[j][1] >= 0
    BY <1>4
  <2> QED BY <2>3, <2>4
<1> HIDE DEF P, cells
<1>6. SelOK(Sel, 0)
  <2>1. Sel = [front |-> P[1][1], pts |-> UNION {{P[i][j] : j \in DOMAIN P[i]} : i \in 1 .. n}]
    BY <1>2
  <2>2. PICK lo \in Int : lo = 0
    OBVIOUS
  <2>3. ASSUME NEW i \in 1 .. n
        PROVE  \E m \in Nat : /\ m >= 1 /\ DOMAIN P[i] = 1 .. m
                              /\ \A j \in 1 .. m : P[i][j] \in Point /\ P[i][j][1] >= lo
    BY <1>5, <2>2
  <2>4. SelOK([front |-> P[1][1],
               pts |-> UNION {{P[i][j] : j \in DOMAIN P[i]} : i \in 1 .. n}], lo)
    BY <1>2, <2>3, CellsOK
  <2> HIDE DEF Sel
  <2> QED BY <2>1, <2>2, <2>4
<1> QED BY <1>3, <1>6, NoSelOK

\* A column of the same kind with another selection.
LEMMA ReselIs ==
  ASSUME NEW k \in ColumnType, NEW lo, NEW r, Resel(r, k, lo)
  PROVE  /\ r \in ColumnType /\ SelOK(r.sel, lo)
         /\ r.xStart = k.xStart /\ r.xEnd = k.xEnd /\ r.xDelta = k.xDelta
         /\ (r.xChanged <=> k.xChanged) /\ r.xChars = k.xChars /\ r.yChars = k.yChars
         /\ r.scrollCur = k.scrollCur /\ (r.isAddr <=> k.isAddr) /\ r.text = k.text
<1>1. PICK s : SelOK(s, lo) /\ r = [k EXCEPT !.sel = s]
  BY DEF Resel
<1>2. s \in SelType
  BY <1>1 DEF SelOK
<1> HIDE DEF SelType, TextType
<1>3. r \in ColumnType /\ r.sel = s
  BY <1>1, <1>2 DEF ColumnType
<1> QED BY <1>1, <1>3 DEF ColumnType

LEMMA HitHex ==
  ASSUME NEW k \in ColumnType, SelOK(k.sel, -2), NEW x \in Nat, NEW y \in Int, NEW stray
  PROVE  Resel(Hit(k, TRUE, x, y, stray), k, -2)
<1> DEFINE a == SelectHexPoint(k, x, y + k.scrollCur, stray)
           b == SelectHexLine(k, a, x, y, stray)
           c == SelectHexLines(k, b, x, y, stray)
<1>1. y + k.scrollCur \in Int
  BY DEF ColumnType
<1>2. SelOK(a, -2) BY <1>1, HexPointOK
<1> HIDE DEF a
<1>3. SelOK(b, -2) BY <1>2, HexLineOK
<1> HIDE DEF b
<1>4. SelOK(c, -2) BY <1>3, HexLinesOK
<1>5. Hit(k, TRUE, x, y, stray) = [k EXCEPT !.sel = c]
  BY DEF Hit, a, b
<1> HIDE DEF c
<1> QED BY <1>4, <1>5 DEF Resel

LEMMA HitDump ==
  ASSUME NEW k \in ColumnType, SelOK(k.sel, 0), NEW x \in Nat, NEW y \in Int, NEW stray
  PROVE  Resel(Hit(k, FALSE, x, y, stray), k, 0)
<1> DEFINE a == SelectDumpPoint(k, x, y + k.scrollCur)
           b == SelectDumpLines(k, a, x, y)
<1>1. y + k.scrollCur \in Int
  BY DEF ColumnType
<1>2. SelOK(a, 0) BY <1>1, DumpPointOK
<1> HIDE DEF a
<1>3. SelOK(b, 0) BY <1>2, DumpLinesOK
<1>4. Hit(k, FALSE, x, y, stray) = [k EXCEPT !.sel = b]
  BY DEF Hit, a
<1> HIDE DEF b
<1> QED BY <1>3, <1>4 DEF Resel

LEMMA ReselTwice ==
  ASSUME NEW k \in ColumnType, NEW lo, NEW r, Resel(r, k, lo), NEW q, Resel(q, r, lo)
  PROVE  Resel(q, k, lo)
<1>1. PICK s : SelOK(s, lo) /\ r = [k EXCEPT !.sel = s]
  BY DEF Resel
<1>2. PICK v : SelOK(v, lo) /\ q = [r EXCEPT !.sel = v]
  BY DEF Resel
<1>3. q = [k EXCEPT !.sel = v]
  BY <1>1, <1>2 DEF ColumnType
<1> QED BY <1>2, <1>3 DEF Resel

\* SetMousePos, for one of the two kinds of column.
LEMMA MouseOK ==
  ASSUME NEW hex \in BOOLEAN, NEW lo, NEW stray, NEW p,
         ASSUME NEW k2 \in ColumnType, SelOK(k2.sel, lo), NEW x \in Nat, NEW y \in Int
         PROVE  Resel(Hit(k2, hex, x, y, stray), k2, lo),
         NEW k \in ColumnType, SelOK(k.sel, lo)
  PROVE  Resel(SetMousePos(k, hex, p, stray), k, lo)
<1> DEFINE xs == {x \in 0 .. k.xChars - 1 :
                    LET l == x * FontW + k.xStart + Margin IN l <= p[1] /\ p[1] <= l + FontW}
           ys == {y \in 0 .. k.yChars :
                    LET t == y * FontH + Margin IN t <= p[2] /\ p[2] <= t + FontH}
           once == Hit(k, hex, Min(xs), Min(ys), stray)
<1>1. SetMousePos(k, hex, p, stray) =
        IF xs = {} \/ ys = {} THEN k
        ELSE IF Cardinality(xs) = 1 THEN once
        ELSE Hit(once, hex, Max(xs), Min(ys), stray)
  BY DEF SetMousePos
<1>2. k.xChars - 1 \in Nat /\ xs \in SUBSET (0 .. k.xChars - 1) /\ k.yChars \in Int
      /\ ys \in SUBSET (0 .. k.yChars)
  BY DEF ColumnType
<1> HIDE DEF xs, ys
<1>3. CASE xs = {} \/ ys = {}
  <2>1. k = [k EXCEPT !.sel = k.sel]
    BY DEF ColumnType
  <2> QED BY <1>1, <1>3, <2>1 DEF Resel
<1>4. CASE xs # {} /\ ys # {}
  <2>1. Min(xs) \in Nat /\ Max(xs) \in Nat
    <3>1. PICK n \in Nat : n = k.xChars - 1
      BY <1>2
    <3>2. Min(xs) \in xs /\ Max(xs) \in xs
      BY <1>2, <1>4, <3>1, MinMax
    <3>3. \A v \in xs : v \in 0 .. n
      BY <1>2, <3>1
    <3> QED BY <3>2, <3>3
  <2>2. Min(ys) \in Nat
    <3>1. PICK n : n = k.yChars
      OBVIOUS
    <3>2. PICK y \in ys : TRUE
      BY <1>4
    <3>3. n \in Int /\ y \in 0 .. n
      BY <1>2, <3>1, <3>2
    <3>4. n \in Nat
      BY <3>3
    <3>5. Min(ys) \in ys
      BY <1>2, <1>4, <3>1, <3>4, MinMax
    <3>6. \A v \in ys : v \in 0 .. n
      BY <1>2, <3>1
    <3> QED BY <3>5, <3>6
  <2>3. Resel(once, k, lo)
    BY <2>1, <2>2
  <2> HIDE DEF once
  <2>4. once \in ColumnType /\ SelOK(once.sel, lo)
    BY <2>3, ReselIs
  <2>5. Resel(Hit(once, hex, Max(xs), Min(ys), stray), once, lo)
    BY <2>1, <2>2, <2>4
  <2> QED BY <1>1, <1>4, <2>3, <2>5, ReselTwice
<1> QED BY <1>3, <1>4

-----------------------------------------------------------------------------
\* Selections that follow each other.

\* Columns cs with other selections.
Reselected(r, cs) ==
  /\ r \in ColumnsType /\ Selected(r)
  /\ r.addr = cs.addr /\ Resel(r.hex, cs.hex, -2) /\ Resel(r.dump, cs.dump, 0)

LEMMA ThirdIs ==
  ASSUME NEW x \in Int
  PROVE  /\ Third(x) \in Int
         /\ x >= -2 => Third(x) >= 0
         /\ \A y \in Nat, i \in 0 .. 2 : x = 3 * y + i => Third(x) = y
BY DEF Third

LEMMA ByteOfIs ==
  ASSUME NEW q \in Point
  PROVE  ByteOf(q) \in Point /\ ByteOf(q)[1] = Third(q[1]) /\ ByteOf(q)[2] = q[2]
<1>1. q[1] \in Int /\ q[2] \in Int
  BY DEF Point
<1>2. Third(q[1]) \in Int
  BY <1>1, ThirdIs
<1> QED BY <1>1, <1>2 DEF ByteOf, Point

LEMMA SetDumpSelectionIs ==
  ASSUME NEW cs \in ColumnsType, SelOK(cs.hex.sel, -2), NEW p, NEW stray
  PROVE  Reselected(SetDumpSelection(cs, p, stray), cs)
<1> DEFINE hex == SetMousePos(cs.hex, TRUE, p, stray)
           s == [front |-> ByteOf(hex.sel.front), pts |-> {ByteOf(q) : q \in hex.sel.pts}]
           dump == [cs.dump EXCEPT !.sel = s]
           r == SetDumpSelection(cs, p, stray)
<1>1. cs.addr \in ColumnType /\ cs.hex \in ColumnType /\ cs.dump \in ColumnType
  BY DEF ColumnsType
<1>2. r = [cs EXCEPT !.hex = hex, !.dump = dump]
  BY DEF SetDumpSelection, SetCaretPos
<1>3. Resel(hex, cs.hex, -2)
  BY <1>1, HitHex, MouseOK
<1> HIDE DEF hex
<1>4. hex \in ColumnType /\ SelOK(hex.sel, -2)
  BY <1>1, <1>3, ReselIs
<1>5. SelOK(s, 0)
  <2>1. hex.sel.front \in Point /\ hex.sel.pts \in SUBSET Point /\ \A q \in hex.sel.pts : q[1] >= -2
    BY <1>4 DEF SelOK, SelType
  <2>2. ByteOf(hex.sel.front) \in Point
    BY <2>1, ByteOfIs
  <2>3. ASSUME NEW q \in hex.sel.pts PROVE ByteOf(q) \in Point /\ ByteOf(q)[1] >= 0
    <3>1. q \in Point /\ q[1] \in Int /\ q[1] >= -2
      BY <2>1 DEF Point
    <3> QED BY <3>1, ByteOfIs, ThirdIs
  <2>4. s.pts \in SUBSET Point /\ \A q \in s.pts : q[1] >= 0
    BY <2>3
  <2>5. s \in SelType
    BY <2>2, <2>4 DEF SelType
  <2> QED BY <2>4, <2>5 DEF SelOK
<1>6. s.pts = {ByteOf(q) : q \in hex.sel.pts}
  OBVIOUS
<1> HIDE DEF s
<1>7. Resel(dump, cs.dump, 0)
  BY <1>5 DEF Resel
<1>8. dump \in ColumnType /\ dump.sel = s
  <2>1. dump \in ColumnType
    BY <1>1, <1>7, ReselIs
  <2> QED BY <1>1, <2>1 DEF ColumnType
<1> HIDE DEF dump
<1>9. r \in ColumnsType /\ r.addr = cs.addr /\ r.hex = hex /\ r.dump = dump
  BY <1>2, <1>4, <1>8 DEF ColumnsType
<1> HIDE DEF r
<1>10. Selected(r)
  BY <1>4, <1>5, <1>6, <1>8, <1>9 DEF Selected
<1>11. Reselected(r, cs)
  BY <1>3, <1>7, <1>9, <1>10 DEF Reselected
<1> QED BY <1>11 DEF r

LEMMA SetHexSelectionIs ==
  ASSUME NEW cs \in ColumnsType, SelOK(cs.dump.sel, 0), NEW p, NEW stray
  PROVE  Reselected(SetHexSelection(cs, p, stray), cs)
<1> DEFINE dump == SetMousePos(cs.dump, FALSE, p, stray)
           f == <<3 * dump.sel.front[1], dump.sel.front[2]>>
           P == {<<3 * q[1] + i, q[2]>> : q \in dump.sel.pts, i \in 0 .. 2}
           s == [front |-> f, pts |-> P]
           hex == [cs.hex EXCEPT !.sel = s]
           r == SetHexSelection(cs, p, stray)
<1>1. cs.addr \in ColumnType /\ cs.hex \in ColumnType /\ cs.dump \in ColumnType
  BY DEF ColumnsType
<1>2. r = [cs EXCEPT !.dump = dump, !.hex = hex]
  BY DEF SetHexSelection, SetCaretPos
<1>3. Resel(dump, cs.dump, 0)
  BY <1>1, HitDump, MouseOK
<1> HIDE DEF dump
<1>4. dump \in ColumnType /\ SelOK(dump.sel, 0)
  BY <1>1, <1>3, ReselIs
<1>5. /\ dump.sel.front[1] \in Int /\ dump.sel.front[2] \in Int
      /\ \A q \in dump.sel.pts : q \in Point /\ q[1] \in Nat /\ q[2] \in Int /\ q = <<q[1], q[2]>>
  BY <1>4 DEF SelOK, SelType, Point
<1>6. f \in Point
  BY <1>5 DEF Point
<1>7. ASSUME NEW q \in dump.sel.pts, NEW i \in 0 .. 2
      PROVE  /\ <<3 * q[1] + i, q[2]>> \in Point /\ 3 * q[1] + i >= -2
             /\ ByteOf(<<3 * q[1] + i, q[2]>>) = q
  <2>1. q[1] \in Nat /\ q[2] \in Int /\ q = <<q[1], q[2]>> /\ 3 * q[1] + i \in Nat
    BY <1>5
  <2>2. Third(3 * q[1] + i) = q[1]
    BY <2>1, ThirdIs
  <2> QED BY <2>1, <2>2 DEF Point, ByteOf
<1>8. ASSUME NEW z \in P
      PROVE  z \in Point /\ z[1] >= -2 /\ ByteOf(z) \in dump.sel.pts
  <2>1. PICK q \in dump.sel.pts, i \in 0 .. 2 : z = <<3 * q[1] + i, q[2]>>
    OBVIOUS
  <2> HIDE DEF P
  <2> QED BY <1>7, <2>1
<1>9. ASSUME NEW q \in dump.sel.pts PROVE q \in {ByteOf(z) : z \in P}
  <2>1. PICK i \in 0 .. 2 : i = 0
    OBVIOUS
  <2>2. <<3 * q[1] + i, q[2]>> \in P
    OBVIOUS
  <2> HIDE DEF P
  <2> QED BY <1>7, <2>2
<1> HIDE DEF f, P
<1>10. s.pts = P /\ SelOK(s, -2)
  <2>1. P \in SUBSET Point
    BY <1>8
  <2> QED BY <1>6, <1>8, <2>1 DEF SelOK, SelType
<1>11. dump.sel.pts = {ByteOf(z) : z \in s.pts}
  BY <1>8, <1>9, <1>10
<1> HIDE DEF s
<1>12. Resel(hex, cs.hex, -2)
  BY <1>10 DEF Resel
<1>13. hex \in ColumnType /\ hex.sel = s
  <2>1. hex \in ColumnType
    BY <1>1, <1>12, ReselIs
  <2> QED BY <1>1, <2>1 DEF ColumnType
<1> HIDE DEF hex
<1>14. r \in ColumnsType /\ r.addr = cs.addr /\ r.hex = hex /\ r.dump = dump
  BY <1>2, <1>4, <1>13 DEF ColumnsType
<1> HIDE DEF r
<1>15. Selected(r)
  BY <1>4, <1>10, <1>11, <1>13, <1>14 DEF Selected
<1>16. Reselected(r, cs)
  BY <1>3, <1>12, <1>14, <1>15 DEF Reselected
<1> QED BY <1>16 DEF r

LEMMA ClearSelectionsIs ==
  ASSUME NEW cs \in ColumnsType
  PROVE  Reselected(ClearSelections(cs), cs)
<1> DEFINE hex == [cs.hex EXCEPT !.sel = NoSel]
           dump == [cs.dump EXCEPT !.sel = NoSel]
           r == ClearSelections(cs)
<1>1. cs.addr \in ColumnType /\ cs.hex \in ColumnType /\ cs.dump \in ColumnType
  BY DEF ColumnsType
<1>2. r = [cs EXCEPT !.hex = hex, !.dump = dump]
  BY <1>1 DEF ClearSelections, ColumnsType
<1>3. Resel(hex, cs.hex, -2) /\ Resel(dump, cs.dump, 0)
  BY NoSelOK DEF Resel
<1>4. hex \in ColumnType /\ dump \in ColumnType
  BY <1>1, <1>3, ReselIs
<1>5. hex.sel = NoSel /\ dump.sel = NoSel
  BY <1>1, <1>4 DEF ColumnType
<1> HIDE DEF hex, dump
<1>6. r \in ColumnsType /\ r.addr = cs.addr /\ r.hex = hex /\ r.dump = dump
  BY <1>2, <1>4 DEF ColumnsType
<1> HIDE DEF r
<1>7. Selected(r)
  BY <1>5, <1>6, NoSelOK DEF Selected, NoSel
<1>8. Reselected(r, cs)
  BY <1>3, <1>6, <1>7 DEF Reselected
<1> QED BY <1>8 DEF r

LEMMA ReselectedTwice ==
  ASSUME NEW cs \in ColumnsType, NEW r, Reselected(r, cs), NEW q, Reselected(q, r)
  PROVE  Reselected(q, cs)
<1>1. cs.hex \in ColumnType /\ cs.dump \in ColumnType
  BY DEF ColumnsType
<1> QED BY <1>1, ReselTwice DEF Reselected

-----------------------------------------------------------------------------
\* The actions.

\* Selections made in columns cs, which are as good as those before.
LEMMA ReselectedInv ==
  ASSUME MemInv, NEW cs \in ColumnsType, Reselected(col', cs),
         OneDump(cs, m_scrollCur), Adjacent(cs), cs.dump.yChars = col.dump.yChars,
         UNCHANGED <<m_scrollLines, m_scrollCur, m_yChars, height>>
  PROVE  MemInv'
<1> DEFINE r == col'
<1>1. cs.addr \in ColumnType /\ cs.hex \in ColumnType /\ cs.dump \in ColumnType
  BY DEF ColumnsType
<1>2. r \in ColumnsType /\ Selected(r) /\ r.addr = cs.addr
  BY DEF Reselected
<1>3. /\ r.hex.xStart = cs.hex.xStart /\ r.hex.xEnd = cs.hex.xEnd
      /\ (r.hex.xChanged <=> cs.hex.xChanged) /\ r.hex.xChars = cs.hex.xChars
      /\ r.hex.scrollCur = cs.hex.scrollCur /\ r.hex.text = cs.hex.text
      /\ (r.hex.isAddr <=> cs.hex.isAddr)
  BY <1>1, ReselIs DEF Reselected
<1>4. /\ r.dump.xStart = cs.dump.xStart /\ r.dump.xChars = cs.dump.xChars
      /\ r.dump.yChars = cs.dump.yChars
      /\ r.dump.scrollCur = cs.dump.scrollCur /\ r.dump.text = cs.dump.text
      /\ (r.dump.isAddr <=> cs.dump.isAddr)
  BY <1>1, ReselIs DEF Reselected
<1> HIDE DEF r
<1>5. OneDump(r, m_scrollCur)
  BY <1>2, <1>3, <1>4 DEF OneDump
<1>6. Adjacent(r)
  BY <1>2, <1>3, <1>4 DEF Adjacent
<1>7. MemType'
  BY <1>2 DEF MemInv, MemType, r
<1>8. ScrollInv'
  <2>1. Shown' <=> Shown
    BY <1>4 DEF Shown, r
  <2>2. Chars(height)' = Chars(height)
    BY DEF Chars
  <2> QED BY <2>1, <2>2 DEF MemInv, ScrollInv
<1>9. (OneDump(col, m_scrollCur))' /\ (Adjacent(col))' /\ (Selected(col))'
  BY <1>2, <1>5, <1>6 DEF r, OneDump, Adjacent, Selected, SelOK
<1> QED BY <1>7, <1>8, <1>9 DEF MemInv

LEMMA LDownInv ==
  ASSUME MemInv, NEW p, NEW stray, OnMouseLDown(p, stray)
  PROVE  MemInv'
<1> DEFINE clear == ClearSelections(col)
<1>1. col \in ColumnsType
  BY DEF MemInv, MemType
<1>2. Reselected(clear, col)
  BY <1>1, ClearSelectionsIs
<1>3. UNCHANGED <<m_scrollLines, m_scrollCur, m_yChars, height>>
  BY DEF OnMouseLDown
<1>4. col' \in {SetHexSelection(clear, p, stray), SetDumpSelection(clear, p, stray), clear}
  BY DEF OnMouseLDown
<1> HIDE DEF clear
<1>5. clear \in ColumnsType /\ SelOK(clear.hex.sel, -2) /\ SelOK(clear.dump.sel, 0)
  BY <1>2 DEF Reselected, Selected
<1>6. Reselected(col', col)
  BY <1>1, <1>2, <1>4, <1>5, SetHexSelectionIs, SetDumpSelectionIs, ReselectedTwice
<1> QED BY <1>1, <1>3, <1>6, ReselectedInv DEF MemInv

LEMMA RDownInv ==
  ASSUME MemInv, OnMouseRDown
  PROVE  MemInv'
<1>1. col \in ColumnsType
  BY DEF MemInv, MemType
<1>2. Reselected(col', col)
  BY <1>1, ClearSelectionsIs DEF OnMouseRDown
<1> QED BY <1>1, <1>2, ReselectedInv DEF MemInv, OnMouseRDown

\* A border is dragged.
LEMMA SetEndPosIs ==
  ASSUME NEW k \in ColumnType, NEW x \in Int, NEW r, r = SetEndPos(k, x)
  PROVE  /\ r \in ColumnType /\ r.xChanged /\ r.xStart = k.xStart /\ r.xChars = k.xChars
         /\ r.yChars = k.yChars /\ r.scrollCur = k.scrollCur
         /\ (r.isAddr <=> k.isAddr) /\ r.text = k.text /\ r.sel = k.sel
<1> HIDE DEF SelType, TextType
<1>1. x - k.xEnd \in Int
  BY DEF ColumnType
<1>2. r = [[[k EXCEPT !.xDelta = x - k.xEnd] EXCEPT !.xEnd = x] EXCEPT !.xChanged = TRUE]
  BY DEF SetEndPos, ColumnType
<1>3. r \in ColumnType
  BY <1>1, <1>2 DEF ColumnType
<1> QED BY <1>2, <1>3 DEF ColumnType

LEMMA MoveInv ==
  ASSUME MemInv, NEW p, p[1] \in Int, NEW stray, OnMouseMove(p, stray)
  PROVE  MemInv'
<1> DEFINE dragged == [c \in Cols |-> IF c \in Dragged /\ Width > p[1]
                                      THEN SetEndPos(col[c], p[1]) ELSE col[c]]
           fromDump == IF "dumpSel" \in flags THEN SetHexSelection(dragged, p, stray) ELSE dragged
<1>1. /\ col \in ColumnsType /\ col.addr \in ColumnType /\ col.hex \in ColumnType
      /\ col.dump \in ColumnType /\ Selected(col) /\ OneDump(col, m_scrollCur) /\ Adjacent(col)
  BY DEF MemInv, MemType, ColumnsType
<1>2. /\ UNCHANGED <<m_scrollLines, m_scrollCur, m_yChars, height>>
      /\ col' = IF "hexSel" \in flags THEN SetDumpSelection(fromDump, p, stray) ELSE fromDump
  BY DEF OnMouseMove
<1>3. /\ dragged.addr = col.addr \/ dragged.addr = SetEndPos(col.addr, p[1])
      /\ dragged.hex = col.hex \/ dragged.hex = SetEndPos(col.hex, p[1])
      /\ dragged.dump = col.dump \/ dragged.dump = SetEndPos(col.dump, p[1])
      /\ dragged = [addr |-> dragged.addr, hex |-> dragged.hex, dump |-> dragged.dump]
  BY DEF Cols
<1> HIDE DEF dragged
<1>4. /\ dragged.addr \in ColumnType /\ dragged.hex \in ColumnType /\ dragged.dump \in ColumnType
      /\ dragged.hex.sel = col.hex.sel /\ dragged.dump.sel = col.dump.sel
      /\ dragged.dump.yChars = col.dump.yChars
  BY <1>1, <1>3, SetEndPosIs
<1>5. dragged \in ColumnsType /\ Selected(dragged)
  BY <1>1, <1>3, <1>4 DEF ColumnsType, Selected
<1>6. OneDump(dragged, m_scrollCur)
  <2>1. /\ dragged.addr.scrollCur = col.addr.scrollCur /\ dragged.addr.text = col.addr.text
        /\ (dragged.addr.isAddr <=> col.addr.isAddr)
    BY <1>1, <1>3, SetEndPosIs
  <2>2. /\ dragged.hex.scrollCur = col.hex.scrollCur /\ dragged.hex.text = col.hex.text
        /\ dragged.hex.xChars = col.hex.xChars /\ (dragged.hex.isAddr <=> col.hex.isAddr)
    BY <1>1, <1>3, SetEndPosIs
  <2>3. /\ dragged.dump.scrollCur = col.dump.scrollCur /\ dragged.dump.text = col.dump.text
        /\ dragged.dump.xChars = col.dump.xChars /\ (dragged.dump.isAddr <=> col.dump.isAddr)
    BY <1>1, <1>3, SetEndPosIs
  <2> QED BY <1>1, <2>1, <2>2, <2>3 DEF OneDump
<1>7. Adjacent(dragged)
  <2>1. dragged.hex.xStart = col.hex.xStart /\ dragged.dump.xStart = col.dump.xStart
    BY <1>1, <1>3, SetEndPosIs
  <2>2. ~dragged.addr.xChanged => dragged.addr = col.addr
    BY <1>1, <1>3, SetEndPosIs
  <2>3. ~dragged.hex.xChanged => dragged.hex = col.hex
    BY <1>1, <1>3, SetEndPosIs
  <2> QED BY <1>1, <2>1, <2>2, <2>3 DEF Adjacent
<1>8. fromDump = dragged \/ Reselected(fromDump, dragged)
  BY <1>5, SetHexSelectionIs DEF Selected
<1> HIDE DEF fromDump
<1>9. fromDump \in ColumnsType /\ SelOK(fromDump.hex.sel, -2)
  BY <1>5, <1>8 DEF Reselected, Selected
<1>10. Reselected(dragged, dragged)
  <2>1. /\ dragged.hex = [dragged.hex EXCEPT !.sel = dragged.hex.sel]
        /\ dragged.dump = [dragged.dump EXCEPT !.sel = dragged.dump.sel]
    BY <1>4 DEF ColumnType
  <2> QED BY <1>5, <2>1 DEF Reselected, Resel, Selected
<1>11. Reselected(fromDump, dragged)
  BY <1>8, <1>10
<1>12. Reselected(col', dragged)
  BY <1>2, <1>5, <1>9, <1>11, SetDumpSelectionIs, ReselectedTwice
<1> QED BY <1>2, <1>4, <1>5, <1>6, <1>7, <1>12, ReselectedInv

\* All columns are scrolled to cur.
LEMMA ScrolledInv ==
  ASSUME MemInv, NEW cur \in Int, SetScrollColumns(cur), m_scrollCur' = cur,
         m_yChars' \in Nat, m_yChars' = Chars(height), UNCHANGED <<m_scrollLines, height>>
  PROVE  MemInv'
<1> DEFINE S(k) == [k EXCEPT !.scrollCur = cur]
<1>1. ASSUME NEW k \in ColumnType, NEW r, r = S(k)
      PROVE  /\ r \in ColumnType /\ r.xStart = k.xStart /\ r.xEnd = k.xEnd
             /\ (r.xChanged <=> k.xChanged) /\ r.xChars = k.xChars
             /\ r.yChars = k.yChars /\ r.scrollCur = cur
             /\ (r.isAddr <=> k.isAddr) /\ r.text = k.text /\ r.sel = k.sel
  <2> HIDE DEF SelType, TextType
  <2>1. r \in ColumnType
    BY <1>1 DEF ColumnType
  <2> QED BY <1>1, <2>1 DEF ColumnType
<1>2. /\ col \in ColumnsType /\ col.addr \in ColumnType /\ col.hex \in ColumnType
      /\ col.dump \in ColumnType /\ Selected(col) /\ OneDump(col, m_scrollCur) /\ Adjacent(col)
  BY DEF MemInv, MemType, ColumnsType
<1>3. /\ col'.addr = S(col.addr) /\ col'.hex = S(col.hex) /\ col'.dump = S(col.dump)
      /\ col' = [addr |-> col'.addr, hex |-> col'.hex, dump |-> col'.dump]
  BY DEF SetScrollColumns, SetScrollCursor, Cols
<1> HIDE DEF S
<1>4. col'.addr \in ColumnType /\ col'.hex \in ColumnType /\ col'.dump \in ColumnType
  BY <1>1, <1>2, <1>3
<1>5. col' \in ColumnsType
  BY <1>3, <1>4 DEF ColumnsType
<1>6. /\ col'.addr.scrollCur = cur /\ col'.addr.text = col.addr.text
      /\ (col'.addr.isAddr <=> col.addr.isAddr) /\ col'.addr.xEnd = col.addr.xEnd
      /\ (col'.addr.xChanged <=> col.addr.xChanged)
  BY <1>1, <1>2, <1>3
<1>7. /\ col'.hex.scrollCur = cur /\ col'.hex.text = col.hex.text
      /\ col'.hex.xChars = col.hex.xChars /\ col'.hex.xEnd = col.hex.xEnd
      /\ (col'.hex.xChanged <=> col.hex.xChanged) /\ col'.hex.xStart = col.hex.xStart
      /\ col'.hex.sel = col.hex.sel /\ (col'.hex.isAddr <=> col.hex.isAddr)
  BY <1>1, <1>2, <1>3
<1>8. /\ col'.dump.scrollCur = cur /\ col'.dump.text = col.dump.text
      /\ col'.dump.xChars = col.dump.xChars /\ col'.dump.xStart = col.dump.xStart
      /\ col'.dump.sel = col.dump.sel /\ (col'.dump.isAddr <=> col.dump.isAddr)
  BY <1>1, <1>2, <1>3
<1>9. (OneDump(col, m_scrollCur))'
  BY <1>2, <1>6, <1>7, <1>8 DEF OneDump
<1>10. (Adjacent(col))' /\ (Selected(col))'
  BY <1>2, <1>6, <1>7, <1>8 DEF Adjacent, Selected, SelOK
<1>11. MemType' /\ ScrollInv'
  <2>1. Chars(height)' = Chars(height)
    BY DEF Chars
  <2> QED BY <1>5, <2>1 DEF MemInv, MemType, ScrollInv
<1> QED BY <1>9, <1>10, <1>11 DEF MemInv

LEMMA CharsIs ==
  ASSUME NEW h \in Heights
  PROVE  Chars(h) \in Nat /\ Chars(h) >= 1 /\ (h - 10) \div FontH \in Nat
<1> DEFINE n == (h - 10) \div FontH
<1>1. n \in Nat /\ h \in Int
  <2>1. h \in Nat /\ h >= 10 /\ FontH \in Nat /\ FontH > 0
    BY MemAssumption
  <2>2. PICK d \in Nat : d = h - 10
    BY <2>1
  <2>3. d \div FontH \in Nat
    BY <2>1, <2>2
  <2> QED BY <2>1, <2>2, <2>3
<1>2. h - 2 * Margin = h - 10
  BY <1>1 DEF Margin
<1> HIDE DEF n
<1> QED BY <1>1, <1>2 DEF Chars, n

\* Where a scroll or a key leads.
LEMMA ScrollTo ==
  ASSUME MemInv, OnScroll \/ OnChar
  PROVE  /\ m_scrollCur' \in {Up, Down, 0, m_scrollLines - m_yChars} \cup 0 .. m_scrollLines - 1
         /\ m_scrollCur' \in Int /\ m_yChars = Chars(height) /\ m_yChars' = m_yChars
         /\ UNCHANGED <<m_scrollLines, height>> /\ SetScrollColumns(m_scrollCur')
<1>1. /\ m_scrollLines \in Nat /\ m_scrollCur \in Int /\ m_yChars \in Nat /\ height \in Heights
      /\ m_yChars = Chars(height)
  BY DEF MemInv, MemType, ScrollInv, OnScroll, OnChar, Input
<1>2. UNCHANGED <<m_scrollLines, height>> /\ SetScrollColumns(m_scrollCur')
  BY DEF OnScroll, OnChar
<1>3. m_scrollCur' \in {Up, Down, 0, m_scrollLines - m_yChars} \cup 0 .. m_scrollLines - 1
  BY DEF OnScroll, OnChar
<1>4. Up \in Int /\ Down \in Int
  BY <1>1 DEF Up, Down
<1>5. m_scrollCur' \in Int
  BY <1>1, <1>3, <1>4
<1>6. m_yChars' = m_yChars
  BY <1>1 DEF OnScroll, OnChar, UpdateWindowSize
<1> QED BY <1>1, <1>2, <1>3, <1>5, <1>6

LEMMA ScrollSteps ==
  ASSUME MemInv, OnScroll \/ OnChar
  PROVE  MemInv'
<1>1. PICK cur \in Int : cur = m_scrollCur'
  BY ScrollTo
<1>2. SetScrollColumns(cur)
  BY <1>1, ScrollTo DEF SetScrollColumns
<1>3. m_yChars' \in Nat /\ m_yChars' = Chars(height)
  BY ScrollTo DEF MemInv, MemType
<1> QED BY <1>1, <1>2, <1>3, ScrollTo, ScrolledInv

LEMMA SameColInv ==
  ASSUME MemInv, UNCHANGED <<col, m_scrollLines, m_scrollCur>>, height' \in Heights,
         \/ UNCHANGED <<m_yChars, height>>
         \/ m_yChars' \in Nat /\ m_yChars' = Chars(height')
  PROVE  MemInv'
<1>1. Chars(height)' = Chars(height')
  BY DEF Chars
<1>2. MemType'
  BY DEF MemInv, MemType
<1>3. ScrollInv'
  <2>1. Shown' <=> Shown
    BY DEF Shown
  <2>2. CASE UNCHANGED <<m_yChars, height>>
    BY <1>1, <2>1, <2>2 DEF MemInv, ScrollInv
  <2>3. CASE m_yChars' = Chars(height')
    BY <1>1, <2>1, <2>3 DEF MemInv, ScrollInv
  <2> QED BY <2>2, <2>3
<1> QED BY <1>2, <1>3 DEF MemInv, OneDump, Adjacent, Selected, SelOK

LEMMA InitDrawingIs ==
  ASSUME NEW k \in ColumnType, height \in Heights, NEW b \in BOOLEAN, NEW r,
         r = [InitDrawing(k) EXCEPT !.xChanged = b] \/ (r = InitDrawing(k) /\ b = k.xChanged)
  PROVE  /\ r \in ColumnType /\ r.xStart = k.xStart /\ r.xEnd = k.xEnd
         /\ (r.xChanged <=> b) /\ r.xChars = k.xChars /\ r.scrollCur = k.scrollCur
         /\ (r.isAddr <=> k.isAddr) /\ r.text = k.text /\ r.sel = k.sel
<1> DEFINE y == (height - YStart) \div FontH
<1>1. y \in Int
  <2>1. height - YStart \in Int /\ FontH \in Nat /\ FontH > 0
    BY MemAssumption DEF YStart
  <2> QED BY <2>1
<1>2. InitDrawing(k) = [k EXCEPT !.yChars = y]
  BY DEF InitDrawing
<1> HIDE DEF y, SelType, TextType
<1>3. InitDrawing(k) \in ColumnType
  BY <1>1, <1>2 DEF ColumnType
<1>4. r \in ColumnType
  BY <1>3 DEF ColumnType
<1>5. CASE r = InitDrawing(k) /\ b = k.xChanged
  BY <1>2, <1>4, <1>5 DEF ColumnType
<1>6. CASE r = [InitDrawing(k) EXCEPT !.xChanged = b]
  <2>1. PICK j \in ColumnType : j = [k EXCEPT !.yChars = y]
    BY <1>2, <1>3
  <2>2. r = [j EXCEPT !.xChanged = b]
    BY <1>2, <1>6, <2>1
  <2>3. /\ j.xStart = k.xStart /\ j.xEnd = k.xEnd /\ j.xChars = k.xChars
        /\ j.scrollCur = k.scrollCur /\ j.isAddr = k.isAddr /\ j.text = k.text /\ j.sel = k.sel
    BY <2>1 DEF ColumnType
  <2>4. /\ r.xStart = j.xStart /\ r.xEnd = j.xEnd /\ r.xChars = j.xChars /\ r.xChanged = b
        /\ r.scrollCur = j.scrollCur /\ r.isAddr = j.isAddr /\ r.text = j.text /\ r.sel = j.sel
    BY <2>2 DEF ColumnType
  <2> QED BY <1>4, <2>3, <2>4
<1> QED BY <1>5, <1>6

\* DrawNextColumn.
LEMMA PushedIs ==
  ASSUME NEW c \in ColumnType, NEW k \in ColumnType, ~c.xChanged => k.xStart = c.xEnd,
         NEW r, r = Pushed(c, k)
  PROVE  /\ r \in ColumnType /\ r.xStart = c.xEnd
         /\ r.xChanged \/ (r.xStart = k.xStart /\ r.xEnd = k.xEnd /\ (r.xChanged <=> k.xChanged))
         /\ r.xChars = k.xChars /\ r.scrollCur = k.scrollCur
         /\ r.text = k.text /\ r.sel = k.sel /\ (r.isAddr <=> k.isAddr)
<1>1. CASE ~c.xChanged
  BY <1>1 DEF Pushed
<1>2. CASE c.xChanged
  <2> DEFINE e == EndOf(c.xEnd, k.xChars)
             n == SetStartPos(k, c.xEnd)
  <2>1. e \in Int
    BY MemAssumption DEF EndOf, ColumnType, Margin
  <2>2. n = [[k EXCEPT !.xStart = c.xEnd] EXCEPT !.xEnd = e]
    BY DEF SetStartPos, ColumnType
  <2> HIDE DEF e, n, SelType, TextType
  <2>3. c.xEnd \in Int /\ c.xDelta \in Int
    BY DEF ColumnType
  <2>4. n \in ColumnType
    BY <2>1, <2>2, <2>3 DEF ColumnType
  <2>5. /\ n.xStart = c.xEnd /\ n.xChars = k.xChars /\ n.scrollCur = k.scrollCur
        /\ n.text = k.text /\ n.sel = k.sel /\ (n.isAddr <=> k.isAddr)
    BY <2>2, <2>4 DEF ColumnType
  <2>6. PICK x \in Int : x = n.xEnd + c.xDelta
    BY <2>3, <2>4 DEF ColumnType
  <2>7. r = SetEndPos(n, x)
    BY <1>2, <2>6 DEF Pushed, n
  <2> QED BY <2>4, <2>5, <2>7, SetEndPosIs
<1> QED BY <1>1, <1>2

LEMMA PaintInv ==
  ASSUME MemInv, OnPaint
  PROVE  MemInv'
<1>1. /\ col \in ColumnsType /\ col.addr \in ColumnType /\ col.hex \in ColumnType
      /\ col.dump \in ColumnType /\ Selected(col) /\ OneDump(col, m_scrollCur) /\ Adjacent(col)
      /\ height \in Heights
  BY DEF MemInv, MemType, ColumnsType
<1>2. PICK hex : hex = Pushed(col.addr, col.hex)
  OBVIOUS
<1>3. PICK dump : dump = Pushed(hex, col.dump)
  OBVIOUS
<1>4. /\ col'.addr = [InitDrawing(col.addr) EXCEPT !.xChanged = FALSE]
      /\ col'.hex = [InitDrawing(hex) EXCEPT !.xChanged = FALSE]
      /\ col'.dump = InitDrawing(dump)
      /\ col' = [addr |-> col'.addr, hex |-> col'.hex, dump |-> col'.dump]
  BY <1>2, <1>3 DEF OnPaint, Drawn
<1>5. /\ m_yChars' \in Nat /\ m_yChars' = Chars(height)
      /\ UNCHANGED <<m_scrollLines, m_scrollCur, height>>
  BY <1>1, CharsIs DEF OnPaint, UpdateWindowSize
<1>6. /\ hex \in ColumnType /\ hex.xStart = col.addr.xEnd
      /\ hex.xChanged \/ (hex.xEnd = col.hex.xEnd /\ (hex.xChanged <=> col.hex.xChanged))
      /\ hex.xChars = col.hex.xChars /\ hex.scrollCur = col.hex.scrollCur
      /\ hex.text = col.hex.text /\ hex.sel = col.hex.sel /\ (hex.isAddr <=> col.hex.isAddr)
  BY <1>1, <1>2, PushedIs DEF Adjacent
<1>7. ~hex.xChanged => col.dump.xStart = hex.xEnd
  BY <1>1, <1>6 DEF Adjacent
<1>8. /\ dump \in ColumnType /\ dump.xStart = hex.xEnd
      /\ dump.xChars = col.dump.xChars /\ dump.scrollCur = col.dump.scrollCur
      /\ dump.text = col.dump.text /\ dump.sel = col.dump.sel /\ (dump.isAddr <=> col.dump.isAddr)
  BY <1>1, <1>3, <1>6, <1>7, PushedIs
<1>9. /\ col'.addr \in ColumnType /\ col'.addr.xEnd = col.addr.xEnd
      /\ col'.addr.scrollCur = col.addr.scrollCur /\ col'.addr.text = col.addr.text
      /\ (col'.addr.isAddr <=> col.addr.isAddr)
  <2>1. PICK k \in ColumnType, r \in {col'.addr} : k = col.addr /\ r = col'.addr
    BY <1>1
  <2>2. PICK b \in BOOLEAN :
          r = [InitDrawing(k) EXCEPT !.xChanged = b] \/ (r = InitDrawing(k) /\ b = k.xChanged)
    BY <1>4, <2>1 DEF ColumnType
  <2>3. /\ r \in ColumnType /\ r.xEnd = k.xEnd /\ r.scrollCur = k.scrollCur
        /\ r.text = k.text /\ (r.isAddr <=> k.isAddr)
    BY <1>1, <2>2, InitDrawingIs
  <2> QED BY <2>1, <2>3
<1>10. /\ col'.hex \in ColumnType /\ col'.hex.xStart = hex.xStart /\ col'.hex.xEnd = hex.xEnd
       /\ col'.hex.scrollCur = hex.scrollCur /\ col'.hex.text = hex.text
       /\ col'.hex.xChars = hex.xChars /\ col'.hex.sel = hex.sel
       /\ (col'.hex.isAddr <=> hex.isAddr)
  BY <1>1, <1>4, <1>6, InitDrawingIs
<1>11. /\ col'.dump \in ColumnType /\ col'.dump.xStart = dump.xStart
       /\ col'.dump.scrollCur = dump.scrollCur /\ col'.dump.text = dump.text
       /\ col'.dump.xChars = dump.xChars /\ col'.dump.sel = dump.sel
       /\ (col'.dump.isAddr <=> dump.isAddr)
  <2>1. dump.xChanged \in BOOLEAN
    BY <1>8 DEF ColumnType
  <2> QED BY <1>1, <1>4, <1>8, <2>1, InitDrawingIs
<1>12. (OneDump(col, m_scrollCur))'
  BY <1>1, <1>5, <1>6, <1>8, <1>9, <1>10, <1>11 DEF OneDump
<1>13. (Adjacent(col))'
  BY <1>6, <1>8, <1>9, <1>10, <1>11 DEF Adjacent
<1>14. (Selected(col))'
  BY <1>1, <1>6, <1>8, <1>10, <1>11 DEF Selected, SelOK
<1>15. MemType' /\ ScrollInv'
  <2>1. col' \in ColumnsType
    BY <1>4, <1>9, <1>10, <1>11 DEF ColumnsType
  <2>2. Chars(height)' = Chars(height)
    BY <1>5 DEF Chars
  <2> QED BY <1>5, <2>1, <2>2 DEF MemInv, MemType, ScrollInv
<1> QED BY <1>12, <1>13, <1>14, <1>15 DEF MemInv

LEMMA SetWidthIs ==
  ASSUME NEW k \in ColumnType, NEW n \in Nat \ {0}, NEW r, r = SetWidth(k, n)
  PROVE  /\ r \in ColumnType /\ r.xStart = k.xStart /\ r.xChars = n
         /\ (r.xChanged <=> k.xChanged) /\ r.scrollCur = k.scrollCur /\ r.sel = k.sel
         /\ (r.isAddr <=> k.isAddr)
<1> DEFINE e == EndOf(k.xStart, n)
<1>1. e \in Int
  BY MemAssumption DEF EndOf, ColumnType, Margin
<1>2. r = [[k EXCEPT !.xChars = n] EXCEPT !.xEnd = e]
  BY DEF SetWidth, ColumnType
<1> HIDE DEF e, SelType, TextType
<1>3. r \in ColumnType
  BY <1>1, <1>2 DEF ColumnType
<1> QED BY <1>2, <1>3 DEF ColumnType

LEMMA SetStartPosIs ==
  ASSUME NEW k \in ColumnType, NEW x, x \in Int, NEW r, r = SetStartPos(k, x)
  PROVE  /\ r \in ColumnType /\ r.xStart = x /\ r.xChars = k.xChars /\ r.yChars = k.yChars
         /\ r.scrollCur = k.scrollCur /\ r.sel = k.sel /\ (r.isAddr <=> k.isAddr)
<1> DEFINE e == EndOf(x, k.xChars)
<1>1. e \in Int
  BY MemAssumption DEF EndOf, ColumnType, Margin
<1>2. r = [[k EXCEPT !.xStart = x] EXCEPT !.xEnd = e]
  BY DEF SetStartPos, ColumnType
<1> HIDE DEF e, SelType, TextType
<1>3. r \in ColumnType
  BY <1>1, <1>2 DEF ColumnType
<1> QED BY <1>2, <1>3 DEF ColumnType

LEMMA SetTextIs ==
  ASSUME NEW k \in ColumnType, NEW t \in TextType, NEW r, r = [k EXCEPT !.text = t]
  PROVE  /\ r \in ColumnType /\ r.xStart = k.xStart /\ r.xEnd = k.xEnd
         /\ (r.xChanged <=> k.xChanged) /\ r.xChars = k.xChars /\ r.yChars = k.yChars
         /\ r.scrollCur = k.scrollCur /\ r.sel = k.sel /\ r.text = t
         /\ (r.isAddr <=> k.isAddr)
<1> HIDE DEF SelType, TextType
<1>1. r \in ColumnType
  BY DEF ColumnType
<1> QED BY <1>1 DEF ColumnType

LEMMA OutputMemInv ==
  ASSUME MemInv, NEW b \in Nat, OutputMemory(b)
  PROVE  MemInv'
<1>1. /\ col \in ColumnsType /\ col.addr \in ColumnType /\ col.hex \in ColumnType
      /\ col.dump \in ColumnType /\ Selected(col) /\ OneDump(col, m_scrollCur) /\ Adjacent(col)
      /\ m_scrollLines \in Nat /\ m_scrollCur \in Int /\ m_yChars \in Nat /\ height \in Heights
      /\ ScrollInv
  BY DEF MemInv, MemType, ColumnsType
<1>2. PICK ta \in TextType, th \in TextType, td \in TextType :
        /\ ta = [base |-> b, size |-> 8 * (Size \div 16)]
        /\ th = [base |-> b, size |-> 3 * Size]
        /\ td = [base |-> b, size |-> Size]
  <2>1. 8 * (Size \div 16) \in Nat /\ 3 * Size \in Nat /\ Size \in Nat
    BY MemAssumption
  <2>2. ASSUME NEW n \in Nat PROVE [base |-> b, size |-> n] \in TextType
    BY DEF TextType
  <2> QED BY <2>1, <2>2
<1>3. PICK w \in Nat \ {0} : w = 48
  OBVIOUS
<1>4. col.dump.xChars = 16
  BY <1>1 DEF OneDump
<1>5. PICK addr : addr = [col.addr EXCEPT !.text = ta]
  OBVIOUS
<1>6. PICK hex : hex = SetWidth(col.hex, w)
  OBVIOUS
<1>7. PICK dump : dump = SetStartPos(col.dump, hex.xEnd)
  OBVIOUS
<1>8. /\ col'.addr = [addr EXCEPT !.isAddr = TRUE]
      /\ col'.hex = [hex EXCEPT !.text = th]
      /\ col'.dump = [dump EXCEPT !.text = td]
      /\ col' = [addr |-> col'.addr, hex |-> col'.hex, dump |-> col'.dump]
  <2>1. PICK c1 : c1 = SetAddrValue(col, b)
    OBVIOUS
  <2>2. /\ c1 = [addr |-> c1.addr, hex |-> c1.hex, dump |-> c1.dump]
        /\ c1.addr = [addr EXCEPT !.isAddr = TRUE] /\ c1.hex = col.hex /\ c1.dump = col.dump
    BY <1>1, <1>2, <1>5, <2>1 DEF SetAddrValue, SetText, ColumnsType
  <2>3. c1.dump.xChars * 2 + 16 = w
    BY <1>3, <1>4, <2>2
  <2>4. SetDumpValue(c1, b) = [c1 EXCEPT !.hex = [hex EXCEPT !.text = th],
                                     !.dump = [dump EXCEPT !.text = td]]
    BY <1>2, <1>6, <1>7, <2>2, <2>3 DEF SetDumpValue, SetText
  <2>5. col' = SetDumpValue(c1, b)
    BY <2>1 DEF OutputMemory
  <2> QED BY <2>2, <2>4, <2>5
<1>9. /\ m_scrollLines' = Size \div 16
      /\ UNCHANGED <<m_scrollCur, m_yChars, height>>
  BY <1>2, <1>4 DEF OutputMemory
<1>10. /\ addr \in ColumnType /\ addr.xEnd = col.addr.xEnd
       /\ (addr.xChanged <=> col.addr.xChanged) /\ addr.scrollCur = col.addr.scrollCur
       /\ addr.text = ta
  BY <1>1, <1>5, SetTextIs
<1>11. /\ col'.addr \in ColumnType /\ col'.addr.xEnd = col.addr.xEnd
       /\ (col'.addr.xChanged <=> col.addr.xChanged) /\ col'.addr.scrollCur = col.addr.scrollCur
       /\ col'.addr.text = ta /\ col'.addr.isAddr
  <2> HIDE DEF SelType, TextType
  <2>1. col'.addr \in ColumnType
    BY <1>8, <1>10 DEF ColumnType
  <2> QED BY <1>8, <1>10, <2>1 DEF ColumnType
<1>12. /\ hex \in ColumnType /\ hex.xStart = col.hex.xStart /\ hex.xChars = 48
       /\ (hex.xChanged <=> col.hex.xChanged)
       /\ hex.scrollCur = col.hex.scrollCur /\ hex.sel = col.hex.sel
       /\ (hex.isAddr <=> col.hex.isAddr)
  BY <1>1, <1>3, <1>6, SetWidthIs
<1>13. /\ dump \in ColumnType /\ dump.xStart = hex.xEnd /\ dump.xChars = 16
       /\ dump.yChars = col.dump.yChars
       /\ dump.scrollCur = col.dump.scrollCur /\ dump.sel = col.dump.sel
       /\ (dump.isAddr <=> col.dump.isAddr)
  <2>1. PICK x \in Int : x = hex.xEnd
    BY <1>12 DEF ColumnType
  <2>2. dump = SetStartPos(col.dump, x)
    BY <1>7, <2>1
  <2> QED BY <1>1, <1>4, <2>1, <2>2, SetStartPosIs
<1>14. /\ col'.hex \in ColumnType /\ col'.hex.xStart = col.hex.xStart /\ col'.hex.xEnd = hex.xEnd
       /\ col'.hex.xChars = 48 /\ (col'.hex.xChanged <=> col.hex.xChanged)
       /\ col'.hex.scrollCur = col.hex.scrollCur /\ col'.hex.sel = col.hex.sel
       /\ col'.hex.text = th /\ (col'.hex.isAddr <=> col.hex.isAddr)
  BY <1>8, <1>12, SetTextIs
<1>15. /\ col'.dump \in ColumnType /\ col'.dump.xStart = hex.xEnd /\ col'.dump.xChars = 16
       /\ col'.dump.yChars = col.dump.yChars
       /\ col'.dump.scrollCur = col.dump.scrollCur /\ col'.dump.sel = col.dump.sel
       /\ col'.dump.text = td /\ (col'.dump.isAddr <=> col.dump.isAddr)
  BY <1>8, <1>13, SetTextIs
<1>16. (OneDump(col, m_scrollCur))'
  BY <1>1, <1>2, <1>9, <1>11, <1>14, <1>15 DEF OneDump
<1>17. (Adjacent(col))'
  BY <1>1, <1>11, <1>14, <1>15 DEF Adjacent
<1>18. (Selected(col))'
  BY <1>1, <1>14, <1>15 DEF Selected, SelOK
<1>19. MemType'
  <2>1. col' \in ColumnsType
    BY <1>8, <1>11, <1>14, <1>15 DEF ColumnsType
  <2> QED BY <1>1, <1>9, <2>1, MemAssumption DEF MemType
<1>20. ScrollInv'
  <2>1. Shown' <=> Shown
    BY <1>15 DEF Shown
  <2>2. Chars(height)' = Chars(height)
    BY <1>9 DEF Chars
  <2> QED BY <1>1, <1>2, <1>9, <2>1, <2>2 DEF ScrollInv
<1> QED BY <1>16, <1>17, <1>18, <1>19, <1>20 DEF MemInv

LEMMA ColumnIs ==
  ASSUME NEW start \in Int, NEW n \in Nat \ {0}, NEW junk \in BOOLEAN, NEW r,
         r = Column(start, n, junk)
  PROVE  /\ r \in ColumnType /\ r.xStart = start /\ r.xEnd = EndOf(start, n)
         /\ r.xChars = n /\ r.yChars = -1 /\ r.scrollCur = 0 /\ r.text.size = 0 /\ r.sel = NoSel
         /\ ~r.isAddr
<1>1. PICK e \in Int : e = EndOf(start, n)
  BY MemAssumption DEF EndOf, Margin
<1>2. PICK t : t = [base |-> 0, size |-> 0]
  OBVIOUS
<1>3. t \in TextType /\ t.size = 0 /\ NoSel \in SelType
  BY <1>2, NoSelOK DEF TextType, SelOK
<1>4. r = [xStart |-> start, xEnd |-> e, xDelta |-> 0, xChanged |-> junk,
           xChars |-> n, yChars |-> -1, scrollCur |-> 0, isAddr |-> FALSE,
           text |-> t, sel |-> NoSel]
  BY <1>1, <1>2 DEF Column
<1> HIDE DEF TextType, SelType, NoSel
<1>5. r \in ColumnType
  BY <1>3, <1>4 DEF ColumnType
<1> QED BY <1>1, <1>3, <1>4, <1>5

LEMMA InitInv == Init => MemInv
<1> SUFFICES ASSUME Init PROVE MemInv
  OBVIOUS
<1>1. PICK ja \in BOOLEAN, jh \in BOOLEAN, jd \in BOOLEAN :
        LET hex == EndOf(0, 10)
            dump == EndOf(hex, 10)
        IN  col = [addr |-> Column(0, 10, ja), hex |-> Column(hex, 10, jh),
                   dump |-> Column(dump, 16, jd)]
  BY DEF Init
<1>2. PICK z \in Int, ten \in Nat \ {0}, n \in Nat \ {0} : z = 0 /\ ten = 10 /\ n = 16
  OBVIOUS
<1>3. PICK h \in Int : h = EndOf(z, ten)
  BY MemAssumption DEF EndOf, Margin
<1>4. PICK d \in Int : d = EndOf(h, ten)
  BY MemAssumption DEF EndOf, Margin
<1>5. /\ col.addr = Column(z, ten, ja) /\ col.hex = Column(h, ten, jh)
      /\ col.dump = Column(d, n, jd)
      /\ col = [addr |-> col.addr, hex |-> col.hex, dump |-> col.dump]
  BY <1>1, <1>2, <1>3, <1>4
<1>6. /\ col.addr \in ColumnType /\ col.addr.xEnd = h
      /\ col.addr.scrollCur = 0 /\ col.addr.text.size = 0
  BY <1>3, <1>5, ColumnIs
<1>7. /\ col.hex \in ColumnType /\ col.hex.xStart = h /\ col.hex.xEnd = d
      /\ col.hex.scrollCur = 0 /\ col.hex.text.size = 0 /\ col.hex.sel = NoSel
      /\ ~col.hex.isAddr
  BY <1>4, <1>5, ColumnIs
<1>8. /\ col.dump \in ColumnType /\ col.dump.xStart = d /\ col.dump.xChars = 16
      /\ col.dump.yChars = -1
      /\ col.dump.scrollCur = 0 /\ col.dump.text.size = 0 /\ col.dump.sel = NoSel
      /\ ~col.dump.isAddr
  BY <1>2, <1>5, ColumnIs
<1>9. MemType
  <2>1. col \in ColumnsType
    BY <1>5, <1>6, <1>7, <1>8 DEF ColumnsType
  <2> QED BY <2>1 DEF MemType, Init
<1>10. ScrollInv
  BY <1>8 DEF Init, ScrollInv, Shown
<1>11. OneDump(col, m_scrollCur)
  <2>1. m_scrollCur = 0
    BY DEF Init
  <2> QED BY <1>6, <1>7, <1>8, <2>1 DEF OneDump
<1>12. Adjacent(col)
  BY <1>6, <1>7, <1>8 DEF Adjacent
<1>13. Selected(col)
  BY <1>7, <1>8, NoSelOK DEF Selected, NoSel
<1> QED BY <1>9, <1>10, <1>11, <1>12, <1>13 DEF MemInv

LEMMA NextInv == MemInv /\ [Next]_vars => MemInv'
<1> SUFFICES ASSUME MemInv, [Next]_vars PROVE MemInv'
  OBVIOUS
<1>1. height \in Heights
  BY DEF MemInv, MemType
<1>2. ASSUME NEW b \in Bases, OutputMemory(b) PROVE MemInv'
  BY <1>2, OutputMemInv, MemAssumption
<1>3. ASSUME NEW h \in Heights, OnSize(h) PROVE MemInv'
  <2>1. m_yChars' \in Nat /\ m_yChars' = Chars(height')
    BY <1>3, CharsIs DEF OnSize, UpdateWindowSize
  <2> QED BY <1>3, <2>1, SameColInv DEF OnSize
<1>4. CASE OnMouseLUp
  BY <1>1, <1>4, SameColInv DEF OnMouseLUp
<1>5. CASE Outside
  BY <1>1, <1>5, SameColInv DEF Outside
<1>6. CASE UNCHANGED vars
  BY <1>1, <1>6, SameColInv DEF vars
<1>7. ASSUME NEW p, p \in MouseX \X MouseY, NEW stray \in Stray,
             OnMouseLDown(p, stray) \/ OnMouseMove(p, stray)
      PROVE  MemInv'
  <2>1. p[1] \in MouseX
    BY <1>7
  <2>2. MouseX \subseteq 0 .. Width - 1
    BY MemAssumption
  <2>3. PICK x : x = p[1]
    OBVIOUS
  <2>4. x \in 0 .. Width - 1
    BY <2>1, <2>2, <2>3
  <2>5. p[1] \in Int
    BY <2>3, <2>4
  <2> QED BY <1>7, <2>5, LDownInv, MoveInv
<1> QED BY <1>2, <1>3, <1>4, <1>5, <1>6, <1>7, PaintInv, ScrollSteps, RDownInv DEF Next

LEMMA InductiveInv == Spec => []MemInv
BY InitInv, NextInv, PTL DEF Spec

-----------------------------------------------------------------------------
\* Rows of the screen and of the dump.

LEMMA RowsAlignedInv == MemInv => RowsAligned
<1> SUFFICES ASSUME MemInv, NEW y \in 0 .. col.dump.yChars - 1
             PROVE  /\ DrawTextBuffer("addr", y) = DrawTextBuffer("dump", y)
                    /\ DrawTextBuffer("hex", y) = DrawTextBuffer("dump", y)
  BY DEF RowsAligned
<1>1. /\ col.addr \in ColumnType /\ col.hex \in ColumnType /\ col.dump \in ColumnType
      /\ OneDump(col, m_scrollCur) /\ m_scrollCur \in Int
  BY DEF MemInv, MemType, ColumnsType
<1>2. PICK r \in Int : r = y + m_scrollCur
  BY <1>1
<1>3. PICK K \in Nat : Size = 16 * K /\ Size \div 16 = K
  BY MemAssumption
<1>4. PICK ca \in Nat, ch \in Nat :
        /\ ca = IF col.addr.isAddr THEN 8 ELSE col.addr.xChars
        /\ ch = col.hex.xChars
  BY <1>1 DEF ColumnType
<1>5. DrawTextBuffer("addr", y) =
        IF 0 <= ca * r /\ ca * r < col.addr.text.size
        THEN col.addr.text.base + 16 * ((ca * r) \div 8) ELSE -1
  BY <1>1, <1>2, <1>4 DEF DrawTextBuffer, OneDump
<1>6. DrawTextBuffer("hex", y) =
        IF 0 <= ch * r /\ ch * r < col.hex.text.size
        THEN col.hex.text.base + (ch * r) \div 3 ELSE -1
  BY <1>1, <1>2, <1>4 DEF DrawTextBuffer, OneDump
<1>7. DrawTextBuffer("dump", y) =
        IF 0 <= 16 * r /\ 16 * r < col.dump.text.size
        THEN col.dump.text.base + 16 * r ELSE -1
  BY <1>1, <1>2 DEF DrawTextBuffer, OneDump
<1>8. CASE col.addr.text.size = 0 /\ col.hex.text.size = 0 /\ col.dump.text.size = 0
  BY <1>4, <1>5, <1>6, <1>7, <1>8
<1>9. CASE /\ ca = 8 /\ ch = 48
           /\ col.addr.text.size = 8 * K
           /\ col.hex.text.size = 48 * K /\ col.dump.text.size = 16 * K
           /\ col.hex.text.base = col.addr.text.base
           /\ col.dump.text.base = col.addr.text.base
  <2>1. (8 * r) \div 8 = r /\ (48 * r) \div 3 = 16 * r
    OBVIOUS
  <2>2. /\ (0 <= 8 * r /\ 8 * r < 8 * K) <=> (0 <= 16 * r /\ 16 * r < 16 * K)
        /\ (0 <= 48 * r /\ 48 * r < 48 * K) <=> (0 <= 16 * r /\ 16 * r < 16 * K)
    OBVIOUS
  <2> QED BY <1>5, <1>6, <1>7, <1>9, <2>1, <2>2
<1> QED BY <1>1, <1>3, <1>4, <1>8, <1>9 DEF OneDump

\* The three columns of the memory control stand side by side, and every row
\* of the screen is blank in all of them or shows the same bytes in all of
\* them, after any sequence of dumps, resizes, paints, scrolls and drags
\* (Column::DrawTextBuffer, DrawNextColumn, MemoryControl::SetDumpValue).
THEOREM ColumnsAreAligned == Spec => []ColumnsAlign
<1>1. MemInv => ColumnsAdjacent
  BY DEF MemInv, Adjacent, ColumnsAdjacent
<1> QED BY <1>1, InductiveInv, RowsAlignedInv, PTL DEF ColumnsAlign

LEMMA InWindow ==
  ASSUME NEW lines \in Nat, lines > 0, NEW cur \in Int, NEW rows \in Nat, rows >= 1
  PROVE  (\E y \in 0 .. rows - 1 : cur + y \in 0 .. lines - 1)
           <=> cur <= lines - 1 /\ cur + rows >= 1
<1>1. ASSUME cur <= lines - 1, cur + rows >= 1
      PROVE  \E y \in 0 .. rows - 1 : cur + y \in 0 .. lines - 1
  <2>1. PICK y \in Int : y = IF cur < 0 THEN -cur ELSE 0
    OBVIOUS
  <2>2. y \in 0 .. rows - 1 /\ cur + y \in 0 .. lines - 1
    BY <1>1, <2>1
  <2> QED BY <2>2
<1> QED BY <1>1

\* A dump that is in the window stays in it, through every scroll, key, resize
\* and new dump, but for the line past the last one that a window of one row
\* can be scrolled to and the rows before the first one that END can leave in
\* a window that is then made smaller (ListTextCtrl::OnScroll, OnChar, OnSize).
THEOREM DumpIsKept == Spec => DataKept
<1> DEFINE Kept == \/ m_yChars = 1 /\ m_scrollCur' = m_scrollLines
                   \/ m_scrollCur < 0 /\ m_yChars' < m_yChars
<1>1. MemInv /\ [Next]_vars => [Visible /\ ~Visible' => Kept]_vars
  <2> SUFFICES ASSUME MemInv, [Next]_vars, Visible, ~Visible' PROVE Kept
    OBVIOUS
  <2>1. /\ m_scrollLines \in Nat /\ m_scrollCur \in Int /\ m_yChars \in Nat
        /\ m_scrollLines > 0 /\ m_scrollLines = Size \div 16 /\ col.dump.xChars = 16
        /\ height \in Heights /\ m_yChars \in {0, Chars(height)}
    BY DEF MemInv, MemType, ScrollInv, OneDump, Visible
  <2>2. m_yChars >= 1 /\ m_yChars = Chars(height)
    BY <2>1 DEF Visible
  <2>3. m_scrollCur <= m_scrollLines - 1 /\ m_scrollCur + m_yChars >= 1
    BY <2>1, <2>2, InWindow DEF Visible
  <2>4. m_scrollLines' = m_scrollLines
    BY <2>1 DEF Next, OutputMemory, OnSize, OnPaint, OnScroll, OnChar, OnMouseLUp,
                OnMouseRDown, Outside, OnMouseLDown, OnMouseMove, vars
  <2>5. ASSUME NEW cur \in Int, NEW rows \in Nat, rows >= 1,
               cur = m_scrollCur', rows = m_yChars'
        PROVE  ~(cur <= m_scrollLines - 1 /\ cur + rows >= 1)
    <3>1. ~(\E y \in 0 .. rows - 1 : cur + y \in 0 .. m_scrollLines - 1)
      BY <2>1, <2>4, <2>5 DEF Visible
    <3> QED BY <2>1, <2>5, <3>1, InWindow
  <2>6. ASSUME UNCHANGED <<m_scrollCur, m_yChars>> PROVE FALSE
    BY <2>1, <2>2, <2>3, <2>5, <2>6
  <2>7. ASSUME NEW h \in Heights, OnSize(h) PROVE Kept
    <3>1. /\ m_yChars' = Chars(h) /\ m_scrollCur' = m_scrollCur
      BY <2>7 DEF OnSize, UpdateWindowSize
    <3>2. Chars(h) \in Nat /\ Chars(h) >= 1
      BY CharsIs
    <3> QED BY <2>1, <2>2, <2>3, <2>5, <3>1, <3>2
  <2>8. CASE OnScroll \/ OnChar
    <3>1. /\ m_scrollCur' \in {Up, Down, 0, m_scrollLines - m_yChars} \cup 0 .. m_scrollLines - 1
          /\ m_scrollCur' \in Int /\ m_yChars' = m_yChars
      BY <2>8, ScrollTo
    <3>2. Up <= m_scrollLines - 1 /\ Up + m_yChars >= 1 /\ Up \in Int
      BY <2>1, <2>2, <2>3 DEF Up
    <3>3. /\ Down + m_yChars >= 1 /\ Down \in Int
          /\ Down <= m_scrollLines - 1 \/ (m_yChars = 1 /\ Down = m_scrollLines)
      <4>1. CASE m_scrollCur <= m_scrollLines - m_yChars
        <5>1. Down = m_scrollCur + 1
          BY <4>1 DEF Down
        <5> QED BY <2>1, <2>2, <2>3, <4>1, <5>1
      <4>2. CASE ~(m_scrollCur <= m_scrollLines - m_yChars)
        <5>1. Down = m_scrollCur
          BY <4>2 DEF Down
        <5> QED BY <2>1, <2>2, <2>3, <5>1
      <4> QED BY <4>1, <4>2
    <3>4. ~(m_scrollCur' <= m_scrollLines - 1 /\ m_scrollCur' + m_yChars >= 1)
      BY <2>1, <2>2, <2>5, <3>1
    <3>5. m_scrollCur' = Down
      BY <2>1, <2>2, <3>1, <3>2, <3>4
    <3> QED BY <3>3, <3>4, <3>5
  <2>9. CASE OnPaint
    <3>1. UNCHANGED <<m_scrollCur, m_yChars>>
      BY <2>2, <2>9 DEF OnPaint, UpdateWindowSize
    <3> QED BY <2>6, <3>1
  <2>10. CASE UNCHANGED <<m_scrollCur, m_yChars>>
    BY <2>6, <2>10
  <2> HIDE DEF Kept
  <2> QED BY <2>7, <2>8, <2>9, <2>10 DEF Next, OutputMemory, OnMouseLUp, OnMouseRDown,
          Outside, OnMouseLDown, OnMouseMove, vars
<1> QED BY <1>1, InductiveInv, PTL DEF Spec, DataKept

\* Where the rectangles of a selection are, in character cells.
LEMMA CellIs ==
  ASSUME NEW x \in Int, NEW a \in Int, NEW d, d = x + a * FontW + Margin
  PROVE  (d - x - Margin) \div FontW = a
<1>1. FontW \in Nat /\ FontW > 0
  BY MemAssumption
<1>2. PICK n \in Int : n = a * FontW
  BY <1>1
<1>3. d - x - Margin = n
  BY <1>2 DEF Margin
<1>4. n \div FontW = a
  BY <1>1, <1>2
<1> QED BY <1>2, <1>3, <1>4

\* The bytes that are grey in the hex column are those that are grey in the
\* dump column, whichever of the two the mouse selected them in
\* (MemoryControl::SetHexSelection, SetDumpSelection, Column::DrawSelection).
THEOREM SelectionsAreAgreed == Spec => []SelectionsAgree
<1>1. MemInv => SelectionsAgree
  <2> SUFFICES ASSUME MemInv PROVE SelectionsAgree
    OBVIOUS
  <2> DEFINE cells(k) == {<<(r[1] - k.xStart - Margin) \div FontW, r[2]>> : r \in DrawSelection(k)}
             row(n) == (n - m_scrollCur) * FontH + YStart + Margin
  <2>1. /\ col.hex \in ColumnType /\ col.dump \in ColumnType
        /\ col.hex.scrollCur = m_scrollCur /\ col.dump.scrollCur = m_scrollCur
        /\ col.hex.sel \in SelType /\ col.dump.sel \in SelType
        /\ col.dump.sel.pts = {ByteOf(q) : q \in col.hex.sel.pts}
    BY DEF MemInv, MemType, ColumnsType, OneDump, Selected, SelOK
  <2>2. ASSUME NEW k \in ColumnType, k.scrollCur = m_scrollCur
        PROVE  cells(k) = {<<q[1], row(q[2])>> : q \in k.sel.pts}
    <3>1. k.xStart \in Int /\ k.sel.pts \in SUBSET Point
      BY DEF ColumnType, SelType
    <3>2. DrawSelection(k) = {<<k.xStart + q[1] * FontW + Margin, row(q[2])>> : q \in k.sel.pts}
      BY <2>2 DEF DrawSelection, GraphicalCharToDeviceCoords
    <3> HIDE DEF row
    <3>3. ASSUME NEW q \in k.sel.pts, NEW d, d = k.xStart + q[1] * FontW + Margin
          PROVE  (d - k.xStart - Margin) \div FontW = q[1]
      <4>1. PICK a \in Int, x \in Int : a = q[1] /\ x = k.xStart
        BY <3>1 DEF Point
      <4>2. d = x + a * FontW + Margin
        BY <3>3, <4>1
      <4>3. (d - x - Margin) \div FontW = a
        BY <4>2, CellIs
      <4> QED BY <4>1, <4>3
    <3>4. ASSUME NEW c \in cells(k) PROVE \E q \in k.sel.pts : c = <<q[1], row(q[2])>>
      <4>1. PICK r \in DrawSelection(k) : c = <<(r[1] - k.xStart - Margin) \div FontW, r[2]>>
        OBVIOUS
      <4>2. PICK q \in k.sel.pts : r = <<k.xStart + q[1] * FontW + Margin, row(q[2])>>
        BY <3>2
      <4>3. r[1] = k.xStart + q[1] * FontW + Margin /\ r[2] = row(q[2])
        BY <4>2
      <4>4. (r[1] - k.xStart - Margin) \div FontW = q[1]
        BY <3>3, <4>3
      <4> QED BY <4>1, <4>3, <4>4
    <3>5. ASSUME NEW q \in k.sel.pts PROVE <<q[1], row(q[2])>> \in cells(k)
      <4>1. PICK r \in DrawSelection(k) : r = <<k.xStart + q[1] * FontW + Margin, row(q[2])>>
        BY <3>2
      <4>2. r[1] = k.xStart + q[1] * FontW + Margin /\ r[2] = row(q[2])
        BY <4>1
      <4>3. <<(r[1] - k.xStart - Margin) \div FontW, r[2]>> = <<q[1], row(q[2])>>
        <5>1. (r[1] - k.xStart - Margin) \div FontW = q[1]
          BY <3>3, <4>2
        <5> QED BY <4>2, <5>1
      <4>4. <<(r[1] - k.xStart - Margin) \div FontW, r[2]>> \in cells(k)
        OBVIOUS
      <4> QED BY <4>3, <4>4
    <3> HIDE DEF cells
    <3> QED BY <3>4, <3>5
  <2> HIDE DEF row
  <2>3. cells(col.hex) = {<<q[1], row(q[2])>> : q \in col.hex.sel.pts}
    BY <2>1, <2>2
  <2>4. cells(col.dump) = {<<q[1], row(q[2])>> : q \in col.dump.sel.pts}
    BY <2>1, <2>2
  <2> HIDE DEF cells
  <2>5. \A q : ByteOf(<<q[1], row(q[2])>>) = <<ByteOf(q)[1], row(ByteOf(q)[2])>>
    BY DEF ByteOf
  <2>6. ASSUME NEW b
        PROVE  b \in {ByteOf(q) : q \in cells(col.hex)} <=> b \in cells(col.dump)
    <3>1. b \in {ByteOf(q) : q \in cells(col.hex)}
            <=> \E q \in col.hex.sel.pts : b = ByteOf(<<q[1], row(q[2])>>)
      BY <2>3
    <3>2. b \in cells(col.dump)
            <=> \E q \in col.hex.sel.pts : b = <<ByteOf(q)[1], row(ByteOf(q)[2])>>
      BY <2>1, <2>4
    <3> QED BY <2>5, <3>1, <3>2
  <2>7. {ByteOf(q) : q \in cells(col.hex)} = cells(col.dump)
    BY <2>6
  <2> QED BY <2>7 DEF SelectionsAgree, cells
<1> QED BY <1>1, InductiveInv, PTL

-----------------------------------------------------------------------------
\* The anchor of a drag.

LEMMA VisitedFirst ==
  ASSUME NEW a \in Int, NEW b \in Int
  PROVE  1 \in DOMAIN Visited(a, b) /\ Visited(a, b)[1] = a
<1>1. CASE a <= b
  <2>1. PICK n \in Nat : n >= 1 /\ n = b - a + 1
    BY <1>1
  <2>2. Visited(a, b) = [i \in 1 .. n |-> a + i - 1]
    BY <1>1, <2>1 DEF Visited
  <2> QED BY <2>1, <2>2
<1>2. CASE ~(a <= b)
  <2>1. PICK n \in Nat : n >= 1 /\ n = a - b + 1
    BY <1>2
  <2>2. Visited(a, b) = [i \in 1 .. n |-> a - i + 1]
    BY <1>2, <2>1 DEF Visited
  <2> QED BY <2>1, <2>2
<1> QED BY <1>1, <1>2

\* The first point a drag over several rows selects is that of its first cell.
LEMMA HexLinesFront ==
  ASSUME NEW k \in ColumnType, NEW sel, SelOK(sel, -2), NEW x \in Nat, NEW y \in Int, NEW stray,
         NEW row, row = y + k.scrollCur,
         NEW pos, pos = sel.front[1] + k.xChars * sel.front[2],
         NEW end, end = x + k.xChars * row,
         NEW xs, xs = pos % k.xChars, NEW ys, ys = pos \div k.xChars,
         NEW r, r = SelectHexLines(k, sel, x, y, stray)
  PROVE  \/ sel.front[2] = row /\ r = sel
         \/ sel.front[2] # row /\ (pos <= end) # (sel.front[2] < row) /\ r = NoSel
         \/ /\ sel.front[2] # row /\ (pos <= end) = (sel.front[2] < row) /\ r.front \in r.pts
            /\ \/ r.front = <<xs, ys>>
               \/ r.front = <<xs + 1, ys>> /\ ~IsSpace(k, xs, ys, stray)
<1> DEFINE row0 == y + k.scrollCur
           pos0 == sel.front[1] + k.xChars * sel.front[2]
           end0 == x + k.xChars * row0
           down == sel.front[2] < y + k.scrollCur
           At(u, v) ==
             LET space == IsSpace(k, u, v, stray)
             IN  IF down
                 THEN [i \in 1 .. IF space THEN 3 ELSE 2 |-> <<u + i - 1, v>>]
                 ELSE [i \in 1 .. 3 |-> <<u + (IF space THEN 1 ELSE 2) - i, v>>]
           cells == Visited(pos0, end0)
           pts(i) == At(cells[i] % k.xChars, cells[i] \div k.xChars)
           U == UNION {{pts(i)[j] : j \in DOMAIN pts(i)} : i \in DOMAIN cells}
<1>1. /\ pos \in Int /\ end \in Int /\ k.xChars \in Nat /\ k.xChars > 0 /\ xs \in Int /\ ys \in Int
  BY FrontIs DEF SelOK, ColumnType
<1>2. r = IF sel.front[2] = row0 THEN sel
          ELSE IF (pos0 <= end0) # (sel.front[2] < row0) THEN NoSel
          ELSE [front |-> pts(1)[1], pts |-> U]
  BY DEF SelectHexLines, Lines
<1>3. 1 \in DOMAIN cells /\ cells[1] = pos
  BY <1>1, VisitedFirst
<1>4. /\ 1 \in DOMAIN At(xs, ys)
      /\ \/ At(xs, ys)[1] = <<xs, ys>>
         \/ At(xs, ys)[1] = <<xs + 1, ys>> /\ ~IsSpace(k, xs, ys, stray)
  <2> DEFINE space == IsSpace(k, xs, ys, stray)
  <2>0. PICK n \in Nat : n = 3 \/ n = 2
    OBVIOUS
  <2>1. CASE down
    <3>1. PICK m \in 2 .. 3 : m = IF space THEN 3 ELSE 2
      OBVIOUS
    <3>2. At(xs, ys) = [i \in 1 .. m |-> <<xs + i - 1, ys>>]
      BY <2>1, <3>1
    <3> HIDE DEF At
    <3>3. 1 \in 1 .. m /\ xs + 1 - 1 = xs
      BY <1>1
    <3> QED BY <3>2, <3>3
  <2>2. CASE ~down
    <3>1. PICK m \in 1 .. 2 : m = IF space THEN 1 ELSE 2
      OBVIOUS
    <3>2. At(xs, ys) = [i \in 1 .. 3 |-> <<xs + m - i, ys>>]
      BY <2>2, <3>1
    <3> HIDE DEF At
    <3>3. At(xs, ys)[1] = <<xs + m - 1, ys>> /\ 1 \in DOMAIN At(xs, ys)
      BY <3>2
    <3>4. m = 1 \/ (m = 2 /\ ~space)
      BY <3>1
    <3>5. xs + 1 - 1 = xs /\ xs + 2 - 1 = xs + 1
      BY <1>1
    <3> QED BY <3>3, <3>4, <3>5
  <2> QED BY <2>1, <2>2
<1> HIDE DEF At, cells
<1>5. pts(1) = At(xs, ys)
  BY <1>3
<1>6. pts(1)[1] \in U
  <2>1. pts(1)[1] \in {pts(1)[j] : j \in DOMAIN pts(1)}
    BY <1>4, <1>5
  <2> QED BY <1>3, <2>1
<1>7. row0 = row /\ pos0 = pos /\ end0 = end
  OBVIOUS
<1> HIDE DEF pts, U, row0, pos0, end0
<1> QED BY <1>2, <1>4, <1>5, <1>6, <1>7

LEMMA DumpLinesFront ==
  ASSUME NEW k \in ColumnType, NEW sel, SelOK(sel, 0), NEW x \in Nat, NEW y \in Int,
         NEW row, row = y + k.scrollCur,
         NEW pos, pos = sel.front[1] + k.xChars * sel.front[2],
         NEW end, end = x + k.xChars * row,
         NEW xs, xs = pos % k.xChars, NEW ys, ys = pos \div k.xChars,
         NEW r, r = SelectDumpLines(k, sel, x, y)
  PROVE  \/ sel.front[2] = row /\ r = sel
         \/ sel.front[2] # row /\ (pos <= end) # (sel.front[2] < row) /\ r = NoSel
         \/ /\ sel.front[2] # row /\ (pos <= end) = (sel.front[2] < row) /\ r.front \in r.pts
            /\ r.front = <<xs, ys>>
<1> DEFINE At(u, v) == <<<<u, v>>>>
           cells == Visited(pos, end)
           pts(i) == At(cells[i] % k.xChars, cells[i] \div k.xChars)
           U == UNION {{pts(i)[j] : j \in DOMAIN pts(i)} : i \in DOMAIN cells}
<1>1. /\ pos \in Int /\ end \in Int /\ k.xChars \in Nat /\ k.xChars > 0 /\ xs \in Int /\ ys \in Int
  BY FrontIs DEF SelOK, ColumnType
<1>2. r = IF sel.front[2] = row THEN sel
          ELSE IF (pos <= end) # (sel.front[2] < row) THEN NoSel
          ELSE [front |-> pts(1)[1], pts |-> U]
  BY DEF SelectDumpLines, Lines
<1>3. 1 \in DOMAIN cells /\ cells[1] = pos
  BY <1>1, VisitedFirst
<1>4. 1 \in DOMAIN At(xs, ys) /\ At(xs, ys)[1] = <<xs, ys>>
  OBVIOUS
<1> HIDE DEF At, cells
<1>5. pts(1) = At(xs, ys)
  BY <1>3
<1>6. pts(1)[1] \in U
  <2>1. pts(1)[1] \in {pts(1)[j] : j \in DOMAIN pts(1)}
    BY <1>4, <1>5
  <2> QED BY <1>3, <2>1
<1> HIDE DEF pts, U
<1> QED BY <1>2, <1>4, <1>5, <1>6

\* The hex column before the first dump and after it, and the first point of a
\* selection in it: in the dump, a character of its row.
HexKind(k) == \/ k.xChars = 10 /\ k.text.size = 0
              \/ k.xChars = 48 /\ k.text.size = 3 * Size
HexFront(f) == f[1] \in 0 .. 48 /\ (InText(f) => f[1] <= 47)
DumpFront(f) == f[1] \in 0 .. 16 /\ (InText(f) => f[1] <= 15)

\* A selection r made in column k has the anchor of selection s.
HexHeld(k, s, r) ==
  k.text.size > 0 /\ s.pts # {} /\ InText(s.front) =>
    r.pts # {} /\ ByteOf(r.front) = ByteOf(s.front)
DumpHeld(s, r) ==
  s.pts # {} /\ InText(s.front) => r.pts # {} /\ r.front = s.front

LEMMA SizeIs == \E m \in Nat : Size = 16 * m /\ Size \div 16 = m
<1>1. Size \in Nat /\ Size % 16 = 0
  BY MemAssumption
<1>2. PICK m : m = Size \div 16
  OBVIOUS
<1> QED BY <1>1, <1>2

\* The drag over several rows.
LEMMA HexLinesAnchor ==
  ASSUME NEW k \in ColumnType, HexKind(k), NEW sel, SelOK(sel, -2), HexFront(sel.front),
         NEW x \in 0 .. k.xChars - 1, NEW y \in Int, NEW stray,
         NEW r, r = SelectHexLines(k, sel, x, y, stray)
  PROVE  HexFront(r.front) /\ HexHeld(k, sel, r)
<1>1. PICK f1 \in Int, f2 \in Int : f1 = sel.front[1] /\ f2 = sel.front[2]
  BY FrontIs DEF SelOK
<1>2. PICK row \in Int : row = y + k.scrollCur
  BY DEF ColumnType
<1>3. PICK xc \in {10, 48} : xc = k.xChars
  BY DEF HexKind
<1>4. PICK pos \in Int, end \in Int : pos = f1 + xc * f2 /\ end = x + xc * row
  BY <1>3
<1>5. PICK xs \in 0 .. xc - 1, ys \in Int :
        xs = pos % xc /\ ys = pos \div xc /\ pos = xc * ys + xs
  BY <1>3, <1>4
<1>6. PICK m \in Nat : Size = 16 * m /\ Size \div 16 = m
  BY SizeIs
<1>7. /\ f1 \in 0 .. 48 /\ (f2 \in 0 .. m - 1 => f1 <= 47)
      /\ InText(sel.front) <=> f2 \in 0 .. m - 1
  BY <1>1, <1>6 DEF HexFront, InText
<1>8. x \in Nat /\ x \in 0 .. xc - 1
  BY <1>3
<1>9. \/ f2 = row /\ r = sel
      \/ f2 # row /\ (pos <= end) # (f2 < row) /\ r = NoSel
      \/ /\ f2 # row /\ (pos <= end) = (f2 < row) /\ r.front \in r.pts
         /\ \/ r.front = <<xs, ys>>
            \/ r.front = <<xs + 1, ys>> /\ ~IsSpace(k, xs, ys, stray)
  <2>1. /\ pos = sel.front[1] + k.xChars * sel.front[2] /\ end = x + k.xChars * row
        /\ xs = pos % k.xChars /\ ys = pos \div k.xChars
    BY <1>1, <1>3, <1>4, <1>5
  <2>2. \/ sel.front[2] = row /\ r = sel
        \/ sel.front[2] # row /\ (pos <= end) # (sel.front[2] < row) /\ r = NoSel
        \/ /\ sel.front[2] # row /\ (pos <= end) = (sel.front[2] < row) /\ r.front \in r.pts
           /\ \/ r.front = <<xs, ys>>
              \/ r.front = <<xs + 1, ys>> /\ ~IsSpace(k, xs, ys, stray)
    BY <1>2, <1>8, <2>1, HexLinesFront
  <2> QED BY <1>1, <2>2
<1>10. CASE f2 = row /\ r = sel
  BY <1>10 DEF HexHeld
<1>11. CASE f2 # row /\ (pos <= end) # (f2 < row) /\ r = NoSel
  <2>1. HexFront(r.front)
    BY <1>11 DEF NoSel, HexFront
  <2>2. ~(k.text.size > 0 /\ InText(sel.front))
    <3>1. SUFFICES ASSUME k.text.size > 0, f2 \in 0 .. m - 1 PROVE FALSE
      BY <1>7
    <3>2. xc = 48
      BY <1>3, <3>1 DEF HexKind
    <3>3. pos <= end <=> f2 < row
      BY <1>4, <1>7, <1>8, <1>11, <3>1, <3>2
    <3> QED BY <1>11, <3>3
  <2> QED BY <2>1, <2>2 DEF HexHeld
<1>12. CASE /\ f2 # row /\ (pos <= end) = (f2 < row) /\ r.front \in r.pts
            /\ \/ r.front = <<xs, ys>>
               \/ r.front = <<xs + 1, ys>> /\ ~IsSpace(k, xs, ys, stray)
  <2>1. PICK d \in 0 .. 1 : r.front = <<xs + d, ys>> /\ (d = 1 => ~IsSpace(k, xs, ys, stray))
    <3>1. CASE r.front = <<xs, ys>>
      <4>1. xs + 0 = xs
        BY <1>5
      <4> QED BY <3>1, <4>1
    <3>2. CASE r.front = <<xs + 1, ys>> /\ ~IsSpace(k, xs, ys, stray)
      BY <3>2
    <3> QED BY <1>12, <3>1, <3>2
  <2>2. ASSUME xc = 48, ys \in 0 .. m - 1, d = 1 PROVE xs % 3 # 2
    <3>1. k.text.size = 3 * Size
      BY <1>3, <2>2 DEF HexKind
    <3>2. PICK z \in Int : z = xs + 48 * ys
      OBVIOUS
    <3>3. z \in 0 .. k.text.size - 1 /\ z % 3 = xs % 3
      <4>1. z >= 0 /\ z <= 48 * m - 1
        BY <1>5, <2>2, <3>2
      <4>2. z % 3 = xs % 3
        BY <1>5, <2>2, <3>2
      <4> QED BY <1>6, <3>1, <4>1, <4>2
    <3>4. IsSpace(k, xs, ys, stray) <=> z % 3 = 2
      BY <1>3, <2>2, <3>2, <3>3 DEF IsSpace
    <3> QED BY <2>1, <2>2, <3>3, <3>4
  <2>3. r.front[1] = xs + d /\ r.front[2] = ys
    BY <2>1
  <2>4. InText(r.front) <=> ys \in 0 .. m - 1
    BY <1>6, <2>3 DEF InText
  <2>5. HexFront(r.front)
    <3>0. xs \in Int /\ 0 <= xs /\ xs <= 47 /\ (xc = 10 => xs <= 9)
      <4>1. CASE xc = 10
        BY <4>1
      <4>2. CASE xc = 48
        BY <4>2
      <4> QED BY <4>1, <4>2
    <3>1. xs + d \in 0 .. 48
      BY <3>0
    <3>2. ASSUME ys \in 0 .. m - 1 PROVE xs + d <= 47
      <4>1. CASE xc = 10
        BY <3>0, <4>1
      <4>2. CASE xc = 48
        BY <2>2, <3>0, <3>2, <4>2
      <4> QED BY <4>1, <4>2
    <3> QED BY <2>3, <2>4, <3>1, <3>2 DEF HexFront
  <2>6. HexHeld(k, sel, r)
    <3> SUFFICES ASSUME k.text.size > 0, f2 \in 0 .. m - 1
                 PROVE  r.pts # {} /\ ByteOf(r.front) = ByteOf(sel.front)
      BY <1>7 DEF HexHeld
    <3>1. xc = 48
      BY <1>3 DEF HexKind
    <3>2. xs = f1 /\ ys = f2
      BY <1>4, <1>5, <1>7, <3>1
    <3>3. Third(xs + d) = Third(f1)
      <4>1. xs \in 0 .. 47 /\ (d = 0 \/ (d = 1 /\ xs % 3 # 2))
        BY <1>5, <2>1, <2>2, <3>1, <3>2
      <4>2. PICK e \in Nat, i \in 0 .. 2 : xs = 3 * e + i
        BY <4>1
      <4>3. i + d \in 0 .. 2 /\ xs + d = 3 * e + (i + d) /\ xs + d \in Int
        BY <4>1, <4>2
      <4>4. Third(xs) = e /\ Third(xs + d) = e
        BY <4>1, <4>2, <4>3, ThirdIs
      <4> QED BY <3>2, <4>4
    <3> QED BY <1>1, <1>12, <2>3, <3>2, <3>3 DEF ByteOf
  <2> QED BY <2>5, <2>6
<1> QED BY <1>9, <1>10, <1>11, <1>12

LEMMA DumpLinesAnchor ==
  ASSUME NEW k \in ColumnType, k.xChars = 16, NEW sel, SelOK(sel, 0), DumpFront(sel.front),
         NEW x \in 0 .. k.xChars - 1, NEW y \in Int,
         NEW r, r = SelectDumpLines(k, sel, x, y)
  PROVE  DumpFront(r.front) /\ DumpHeld(sel, r)
<1>1. PICK f1 \in Int, f2 \in Int : f1 = sel.front[1] /\ f2 = sel.front[2]
  BY FrontIs DEF SelOK
<1>2. PICK row \in Int : row = y + k.scrollCur
  BY DEF ColumnType
<1>3. sel.front = <<f1, f2>>
  BY <1>1 DEF SelOK, SelType, Point
<1>4. PICK pos \in Int, end \in Int : pos = f1 + k.xChars * f2 /\ end = x + k.xChars * row
  OBVIOUS
<1>5. PICK xs \in 0 .. 15, ys \in Int :
        xs = pos % k.xChars /\ ys = pos \div k.xChars /\ pos = 16 * ys + xs
  BY <1>4
<1>6. PICK m \in Nat : Size = 16 * m /\ Size \div 16 = m
  BY SizeIs
<1>7. /\ f1 \in 0 .. 16 /\ (f2 \in 0 .. m - 1 => f1 <= 15)
      /\ InText(sel.front) <=> f2 \in 0 .. m - 1
  BY <1>1, <1>6 DEF DumpFront, InText
<1>8. x \in Nat /\ x \in 0 .. 15
  OBVIOUS
<1>9. \/ f2 = row /\ r = sel
      \/ f2 # row /\ (pos <= end) # (f2 < row) /\ r = NoSel
      \/ /\ f2 # row /\ (pos <= end) = (f2 < row) /\ r.front \in r.pts
         /\ r.front = <<xs, ys>>
  <2>1. /\ pos = sel.front[1] + k.xChars * sel.front[2] /\ end = x + k.xChars * row
        /\ xs = pos % k.xChars /\ ys = pos \div k.xChars
    BY <1>1, <1>4, <1>5
  <2>2. \/ sel.front[2] = row /\ r = sel
        \/ sel.front[2] # row /\ (pos <= end) # (sel.front[2] < row) /\ r = NoSel
        \/ /\ sel.front[2] # row /\ (pos <= end) = (sel.front[2] < row) /\ r.front \in r.pts
           /\ r.front = <<xs, ys>>
    BY <1>2, <1>8, <2>1, DumpLinesFront
  <2> QED BY <1>1, <2>2
<1>10. CASE f2 = row /\ r = sel
  BY <1>10 DEF DumpHeld
<1>11. CASE f2 # row /\ (pos <= end) # (f2 < row) /\ r = NoSel
  <2>1. DumpFront(r.front)
    BY <1>11 DEF NoSel, DumpFront
  <2>2. ~InText(sel.front)
    <3>1. SUFFICES ASSUME f2 \in 0 .. m - 1 PROVE FALSE
      BY <1>7
    <3>2. pos <= end <=> f2 < row
      BY <1>4, <1>7, <1>8, <1>11, <3>1
    <3> QED BY <1>11, <3>2
  <2> QED BY <2>1, <2>2 DEF DumpHeld
<1>12. CASE /\ f2 # row /\ (pos <= end) = (f2 < row) /\ r.front \in r.pts
            /\ r.front = <<xs, ys>>
  <2>1. DumpFront(r.front)
    <3>1. r.front[1] = xs /\ xs \in 0 .. 16 /\ xs <= 15
      BY <1>5, <1>12
    <3> QED BY <3>1 DEF DumpFront
  <2>2. DumpHeld(sel, r)
    <3> SUFFICES ASSUME f2 \in 0 .. m - 1 PROVE r.pts # {} /\ r.front = sel.front
      BY <1>7 DEF DumpHeld
    <3>1. xs = f1 /\ ys = f2
      BY <1>4, <1>5, <1>7
    <3> QED BY <1>3, <1>12, <3>1
  <2> QED BY <2>1, <2>2
<1> QED BY <1>9, <1>10, <1>11, <1>12

\* Points added to a selection: it has its first point still, or for the first
\* time.
LEMMA PushBackFront ==
  ASSUME NEW sel, NEW s, 1 \in DOMAIN s, NEW r, r = PushBack(sel, s)
  PROVE  r.pts # {} /\ r.front = IF sel.pts = {} THEN s[1] ELSE sel.front
<1>1. s[1] \in {s[i] : i \in DOMAIN s}
  OBVIOUS
<1> QED BY <1>1 DEF PushBack

LEMMA HexPointFront ==
  ASSUME NEW k, NEW x, NEW y, NEW stray, NEW r, r = SelectHexPoint(k, x, y, stray)
  PROVE  r.pts # {} /\ r.front = IF k.sel.pts = {} THEN <<x, y + k.scrollCur>> ELSE k.sel.front
<1> DEFINE row == y + k.scrollCur
           a == <<<<x, row>>, <<x + 1, row>>>>
           b == <<<<x, row>>, <<x - 1, row>>>>
           c == <<<<x, row>>>>
<1>1. PICK s \in {a, b, c} : r = PushBack(k.sel, s)
  BY DEF SelectHexPoint
<1>2. 1 \in DOMAIN s /\ s[1] = <<x, y + k.scrollCur>>
  <2> HIDE DEF row
  <2>1. CASE s = a BY <2>1 DEF row
  <2>2. CASE s = b BY <2>2 DEF row
  <2>3. CASE s = c BY <2>3 DEF row
  <2> QED BY <2>1, <2>2, <2>3
<1> HIDE DEF a, b, c
<1> QED BY <1>1, <1>2, PushBackFront

LEMMA HexLineFront ==
  ASSUME NEW k \in ColumnType, NEW sel, sel.pts # {}, NEW x \in Nat, NEW y \in Int, NEW stray,
         NEW r, r = SelectHexLine(k, sel, x, y, stray)
  PROVE  r.pts # {} /\ r.front = sel.front
<1> DEFINE row == y + k.scrollCur
           step == IF sel.front[1] < x THEN 1 ELSE -1
           n == IF IsSpace(k, x, row, stray) THEN 3 ELSE 2
           s == [i \in 1 .. n |-> <<x + step * (i - 1), row>>]
<1>1. r = IF sel.front[1] = x THEN sel ELSE PushBack(sel, s)
  BY DEF SelectHexLine
<1>2. n \in {2, 3}
  OBVIOUS
<1> HIDE DEF n
<1>3. 1 \in DOMAIN s
  BY <1>2
<1> HIDE DEF s
<1> QED BY <1>1, <1>3, PushBackFront

LEMMA HexHitAnchor ==
  ASSUME NEW k \in ColumnType, HexKind(k), SelOK(k.sel, -2), HexFront(k.sel.front),
         NEW x \in 0 .. k.xChars - 1, NEW y \in Int, NEW stray,
         NEW r, r = Hit(k, TRUE, x, y, stray)
  PROVE  HexFront(r.sel.front) /\ HexHeld(k, k.sel, r.sel)
<1>1. PICK y2 \in Int : y2 = y + k.scrollCur
  BY DEF ColumnType
<1>2. PICK a : a = SelectHexPoint(k, x, y2, stray)
  OBVIOUS
<1>3. PICK b : b = SelectHexLine(k, a, x, y, stray)
  OBVIOUS
<1>4. PICK c : c = SelectHexLines(k, b, x, y, stray)
  OBVIOUS
<1>5. r.sel = c
  BY <1>1, <1>2, <1>3, <1>4 DEF Hit, ColumnType
<1>6. x \in Nat /\ x \in 0 .. 47
  BY DEF HexKind
<1>7. SelOK(a, -2) /\ a.pts # {}
      /\ a.front = IF k.sel.pts = {} THEN <<x, y2 + k.scrollCur>> ELSE k.sel.front
  BY <1>2, <1>6, HexPointOK, HexPointFront
<1>8. HexFront(a.front)
  <2>1. CASE k.sel.pts = {}
    <3>1. a.front[1] = x
      BY <1>7, <2>1
    <3> QED BY <1>6, <3>1 DEF HexFront
  <2>2. CASE k.sel.pts # {}
    BY <1>7, <2>2
  <2> QED BY <2>1, <2>2
<1>9. SelOK(b, -2) /\ b.pts # {} /\ b.front = a.front
  <2>1. SelOK(b, -2)
    BY <1>3, <1>6, <1>7, HexLineOK
  <2>2. a.pts # {}
    BY <1>7
  <2>3. b.pts # {} /\ b.front = a.front
    BY <1>3, <1>6, <2>2, HexLineFront
  <2> QED BY <2>1, <2>3
<1>10. HexFront(c.front) /\ HexHeld(k, b, c)
  BY <1>4, <1>8, <1>9, HexLinesAnchor
<1> QED BY <1>5, <1>7, <1>9, <1>10 DEF HexHeld

LEMMA DumpHitAnchor ==
  ASSUME NEW k \in ColumnType, k.xChars = 16, SelOK(k.sel, 0), DumpFront(k.sel.front),
         NEW x \in 0 .. k.xChars - 1, NEW y \in Int, NEW stray,
         NEW r, r = Hit(k, FALSE, x, y, stray)
  PROVE  DumpFront(r.sel.front) /\ DumpHeld(k.sel, r.sel)
<1>1. PICK y2 \in Int : y2 = y + k.scrollCur
  BY DEF ColumnType
<1>2. PICK a : a = SelectDumpPoint(k, x, y2)
  OBVIOUS
<1>3. PICK b : b = SelectDumpLines(k, a, x, y)
  OBVIOUS
<1>4. r.sel = b
  BY <1>1, <1>2, <1>3 DEF Hit, ColumnType
<1>5. x \in Nat /\ x \in 0 .. 15
  OBVIOUS
<1>6. PICK s : s = <<<<x, y2 + k.scrollCur>>>>
  OBVIOUS
<1>7. 1 \in DOMAIN s /\ s[1] = <<x, y2 + k.scrollCur>> /\ a = PushBack(k.sel, s)
  BY <1>2, <1>6 DEF SelectDumpPoint
<1>8. SelOK(a, 0) /\ a.pts # {} /\ a.front = IF k.sel.pts = {} THEN s[1] ELSE k.sel.front
  <2>1. SelOK(a, 0)
    BY <1>2, <1>5, DumpPointOK
  <2>2. a.pts # {} /\ a.front = IF k.sel.pts = {} THEN s[1] ELSE k.sel.front
    BY <1>7, PushBackFront, Zenon
  <2> QED BY <2>1, <2>2
<1>9. DumpFront(a.front)
  <2>1. CASE k.sel.pts = {}
    <3>1. a.front[1] = x
      BY <1>7, <1>8, <2>1
    <3> QED BY <1>5, <3>1 DEF DumpFront
  <2>2. CASE k.sel.pts # {}
    BY <1>8, <2>2
  <2> QED BY <2>1, <2>2
<1>10. DumpFront(b.front) /\ DumpHeld(a, b)
  BY <1>3, <1>8, <1>9, DumpLinesAnchor
<1> QED BY <1>4, <1>8, <1>10 DEF DumpHeld

\* SetMousePos is no hit, one, or two.
Clicked(r, k, hex, stray) ==
  \/ r = k
  \/ \E x, v \in 0 .. k.xChars - 1, y \in Nat :
       \/ r = Hit(k, hex, x, y, stray)
       \/ r = Hit(Hit(k, hex, x, y, stray), hex, v, y, stray)

LEMMA MouseIs ==
  ASSUME NEW hex \in BOOLEAN, NEW p, NEW stray, NEW k \in ColumnType
  PROVE  Clicked(SetMousePos(k, hex, p, stray), k, hex, stray)
<1>0. PICK r : r = SetMousePos(k, hex, p, stray)
  OBVIOUS
<1> DEFINE xs == {x \in 0 .. k.xChars - 1 :
                    LET l == x * FontW + k.xStart + Margin IN l <= p[1] /\ p[1] <= l + FontW}
           ys == {y \in 0 .. k.yChars :
                    LET t == y * FontH + Margin IN t <= p[2] /\ p[2] <= t + FontH}
           once == Hit(k, hex, Min(xs), Min(ys), stray)
<1>1. r = IF xs = {} \/ ys = {} THEN k
          ELSE IF Cardinality(xs) = 1 THEN once
          ELSE Hit(once, hex, Max(xs), Min(ys), stray)
  BY <1>0 DEF SetMousePos
<1>2. k.xChars - 1 \in Nat /\ xs \in SUBSET (0 .. k.xChars - 1) /\ k.yChars \in Int
      /\ ys \in SUBSET (0 .. k.yChars)
  BY DEF ColumnType
<1> HIDE DEF xs, ys
<1>3. CASE xs = {} \/ ys = {}
  BY <1>0, <1>1, <1>3 DEF Clicked
<1>4. CASE xs # {} /\ ys # {}
  <2>1. Min(xs) \in 0 .. k.xChars - 1 /\ Max(xs) \in 0 .. k.xChars - 1
    <3>1. PICK n \in Nat : n = k.xChars - 1
      BY <1>2
    <3>2. Min(xs) \in xs /\ Max(xs) \in xs
      BY <1>2, <1>4, <3>1, MinMax
    <3> QED BY <1>2, <3>2
  <2>2. Min(ys) \in Nat
    <3>1. PICK n : n = k.yChars
      OBVIOUS
    <3>2. PICK y \in ys : TRUE
      BY <1>4
    <3>3. n \in Int /\ y \in 0 .. n
      BY <1>2, <3>1, <3>2
    <3>4. n \in Nat
      BY <3>3
    <3>5. Min(ys) \in ys
      BY <1>2, <1>4, <3>1, <3>4, MinMax
    <3>6. \A v \in ys : v \in 0 .. n
      BY <1>2, <3>1
    <3> QED BY <3>5, <3>6
  <2>3. PICK x \in 0 .. k.xChars - 1, v \in 0 .. k.xChars - 1, y \in Nat :
          x = Min(xs) /\ v = Max(xs) /\ y = Min(ys)
    BY <2>1, <2>2
  <2>4. r = Hit(k, hex, x, y, stray) \/ r = Hit(Hit(k, hex, x, y, stray), hex, v, y, stray)
    BY <1>1, <1>4, <2>3
  <2> QED BY <1>0, <2>4 DEF Clicked
<1> QED BY <1>3, <1>4

LEMMA HexMouseAnchor ==
  ASSUME NEW k \in ColumnType, HexKind(k), SelOK(k.sel, -2), HexFront(k.sel.front),
         NEW p, NEW stray, NEW r, r = SetMousePos(k, TRUE, p, stray)
  PROVE  HexFront(r.sel.front) /\ HexHeld(k, k.sel, r.sel)
<1>1. CASE r = k
  BY <1>1 DEF HexHeld
<1>2. ASSUME NEW x \in 0 .. k.xChars - 1, NEW v \in 0 .. k.xChars - 1, NEW y \in Nat,
             \/ r = Hit(k, TRUE, x, y, stray)
             \/ r = Hit(Hit(k, TRUE, x, y, stray), TRUE, v, y, stray)
      PROVE  HexFront(r.sel.front) /\ HexHeld(k, k.sel, r.sel)
  <2>1. PICK q : q = Hit(k, TRUE, x, y, stray)
    OBVIOUS
  <2>0. y \in Int
    OBVIOUS
  <2>2. HexFront(q.sel.front) /\ HexHeld(k, k.sel, q.sel)
    BY <2>0, <2>1, HexHitAnchor, Zenon
  <2>3. Resel(q, k, -2)
    <3>1. x \in Nat
      OBVIOUS
    <3> QED BY <2>0, <2>1, <3>1, HitHex, Zenon
  <2>4. q \in ColumnType /\ SelOK(q.sel, -2) /\ q.xChars = k.xChars /\ q.text = k.text
    BY <2>3, ReselIs
  <2>5. CASE r = q
    BY <2>2, <2>5
  <2>6. CASE r = Hit(q, TRUE, v, y, stray)
    <3>1. HexKind(q) /\ v \in 0 .. q.xChars - 1
      BY <2>4 DEF HexKind
    <3>2. HexFront(r.sel.front) /\ HexHeld(q, q.sel, r.sel)
      BY <2>0, <2>2, <2>4, <2>6, <3>1, HexHitAnchor, Zenon
    <3>3. HexHeld(k, k.sel, r.sel)
      <4> SUFFICES ASSUME k.text.size > 0, k.sel.pts # {}, InText(k.sel.front)
                   PROVE  r.sel.pts # {} /\ ByteOf(r.sel.front) = ByteOf(k.sel.front)
        BY DEF HexHeld
      <4>1. q.sel.pts # {} /\ ByteOf(q.sel.front) = ByteOf(k.sel.front)
        BY <2>2 DEF HexHeld
      <4>2. ByteOf(q.sel.front)[2] = q.sel.front[2] /\ ByteOf(k.sel.front)[2] = k.sel.front[2]
        BY DEF ByteOf
      <4>3. InText(q.sel.front)
        BY <4>1, <4>2 DEF InText
      <4> QED BY <2>4, <3>2, <4>1, <4>3 DEF HexHeld
    <3> QED BY <3>2, <3>3
  <2> QED BY <1>2, <2>1, <2>5, <2>6
<1>3. \/ r = k
      \/ \E x, v \in 0 .. k.xChars - 1, y \in Nat :
           \/ r = Hit(k, TRUE, x, y, stray)
           \/ r = Hit(Hit(k, TRUE, x, y, stray), TRUE, v, y, stray)
  <2>1. Clicked(r, k, TRUE, stray)
    BY MouseIs
  <2> QED BY <2>1 DEF Clicked
<1> QED BY <1>1, <1>2, <1>3

LEMMA DumpMouseAnchor ==
  ASSUME NEW k \in ColumnType, k.xChars = 16, SelOK(k.sel, 0), DumpFront(k.sel.front),
         NEW p, NEW stray, NEW r, r = SetMousePos(k, FALSE, p, stray)
  PROVE  DumpFront(r.sel.front) /\ DumpHeld(k.sel, r.sel)
<1>1. CASE r = k
  BY <1>1 DEF DumpHeld
<1>2. ASSUME NEW x \in 0 .. k.xChars - 1, NEW v \in 0 .. k.xChars - 1, NEW y \in Nat,
             \/ r = Hit(k, FALSE, x, y, stray)
             \/ r = Hit(Hit(k, FALSE, x, y, stray), FALSE, v, y, stray)
      PROVE  DumpFront(r.sel.front) /\ DumpHeld(k.sel, r.sel)
  <2>1. PICK q : q = Hit(k, FALSE, x, y, stray)
    OBVIOUS
  <2>0. y \in Int
    OBVIOUS
  <2>2. DumpFront(q.sel.front) /\ DumpHeld(k.sel, q.sel)
    BY <2>0, <2>1, DumpHitAnchor, Zenon
  <2>3. Resel(q, k, 0)
    <3>1. x \in Nat
      OBVIOUS
    <3> QED BY <2>0, <2>1, <3>1, HitDump, Zenon
  <2>4. q \in ColumnType /\ SelOK(q.sel, 0) /\ q.xChars = 16
    BY <2>3, ReselIs
  <2>5. CASE r = q
    BY <2>2, <2>5
  <2>6. CASE r = Hit(q, FALSE, v, y, stray)
    <3>1. v \in 0 .. q.xChars - 1
      BY <2>4
    <3>2. DumpFront(r.sel.front) /\ DumpHeld(q.sel, r.sel)
      BY <2>0, <2>2, <2>4, <2>6, <3>1, DumpHitAnchor, Zenon
    <3>3. DumpHeld(k.sel, r.sel)
      BY <2>2, <3>2 DEF DumpHeld
    <3> QED BY <3>2, <3>3
  <2> QED BY <1>2, <2>1, <2>5, <2>6
<1>3. \/ r = k
      \/ \E x, v \in 0 .. k.xChars - 1, y \in Nat :
           \/ r = Hit(k, FALSE, x, y, stray)
           \/ r = Hit(Hit(k, FALSE, x, y, stray), FALSE, v, y, stray)
  <2>1. Clicked(r, k, FALSE, stray)
    BY MouseIs
  <2> QED BY <2>1 DEF Clicked
<1> QED BY <1>1, <1>2, <1>3

\* The first points of the two selections are of one byte.
Anchored(cs) ==
  /\ HexKind(cs.hex) /\ HexFront(cs.hex.sel.front)
  /\ cs.dump.sel.front = ByteOf(cs.hex.sel.front)

\* Columns r have the anchor of columns cs.
AnchorHeld(cs, r) ==
  cs.hex.text.size > 0 /\ cs.dump.sel.pts # {} /\ InText(cs.dump.sel.front) =>
    r.dump.sel.pts # {} /\ r.dump.sel.front = cs.dump.sel.front

LEMMA BytePoint ==
  ASSUME NEW f \in Point
  PROVE  /\ InText(ByteOf(f)) <=> InText(f)
         /\ HexFront(f) => DumpFront(ByteOf(f))
<1>1. PICK f1 \in Int, f2 \in Int : f = <<f1, f2>>
  BY DEF Point
<1>2. PICK g : g = ByteOf(f)
  OBVIOUS
<1>3. g[1] = Third(f1) /\ g[2] = f2 /\ f[1] = f1 /\ f[2] = f2
  BY <1>1, <1>2 DEF ByteOf
<1>4. InText(g) <=> InText(f)
  BY <1>3 DEF InText
<1>5. ASSUME HexFront(f) PROVE DumpFront(g)
  <2>1. f1 \in 0 .. 48 /\ (InText(g) => f1 <= 47)
    BY <1>3, <1>4, <1>5 DEF HexFront
  <2>2. Third(f1) = f1 \div 3
    BY <2>1 DEF Third
  <2>3. Third(f1) \in 0 .. 16 /\ (f1 <= 47 => Third(f1) <= 15)
    BY <2>1, <2>2
  <2> QED BY <1>3, <2>1, <2>3 DEF DumpFront
<1> QED BY <1>2, <1>4, <1>5

\* A drag in the hex column.
LEMMA SetDumpAnchor ==
  ASSUME NEW cs \in ColumnsType, Selected(cs), Anchored(cs), NEW p, NEW stray,
         NEW r, r = SetDumpSelection(cs, p, stray)
  PROVE  Anchored(r) /\ AnchorHeld(cs, r)
<1>1. cs.addr \in ColumnType /\ cs.hex \in ColumnType /\ cs.dump \in ColumnType
  BY DEF ColumnsType
<1>2. PICK h : h = SetMousePos(cs.hex, TRUE, p, stray)
  OBVIOUS
<1>3. SelOK(cs.hex.sel, -2)
  BY DEF Selected
<1>4. Resel(h, cs.hex, -2)
  BY <1>1, <1>2, <1>3, HitHex, MouseOK
<1>5. h.xChars = cs.hex.xChars /\ h.text = cs.hex.text
  BY <1>1, <1>4, ReselIs
<1>6. HexFront(h.sel.front) /\ HexHeld(cs.hex, cs.hex.sel, h.sel)
  BY <1>1, <1>2, <1>3, HexMouseAnchor DEF Anchored
<1>7. r.hex = h /\ r.dump.sel = [front |-> ByteOf(h.sel.front), pts |-> {ByteOf(q) : q \in h.sel.pts}]
  BY <1>1, <1>2 DEF SetDumpSelection, SetCaretPos, ColumnsType, ColumnType
<1>8. r.dump.sel.front = ByteOf(h.sel.front) /\ r.dump.sel.pts = {ByteOf(q) : q \in h.sel.pts}
  BY <1>7
<1>9. Anchored(r)
  BY <1>5, <1>6, <1>7, <1>8 DEF Anchored, HexKind
<1>10. AnchorHeld(cs, r)
  <2> SUFFICES ASSUME cs.hex.text.size > 0, cs.dump.sel.pts # {}, InText(cs.dump.sel.front)
               PROVE  r.dump.sel.pts # {} /\ r.dump.sel.front = cs.dump.sel.front
    BY DEF AnchorHeld
  <2>1. cs.hex.sel.pts # {}
    BY DEF Selected
  <2>2. cs.hex.sel.front \in Point
    BY <1>3 DEF SelOK, SelType
  <2>3. InText(cs.hex.sel.front)
    BY <2>2, BytePoint DEF Anchored
  <2>4. h.sel.pts # {} /\ ByteOf(h.sel.front) = ByteOf(cs.hex.sel.front)
    BY <1>6, <2>1, <2>3 DEF HexHeld
  <2> QED BY <1>8, <2>4 DEF Anchored
<1> QED BY <1>9, <1>10

\* A drag in the dump.
LEMMA SetHexAnchor ==
  ASSUME NEW cs \in ColumnsType, Selected(cs), Anchored(cs), cs.dump.xChars = 16,
         NEW p, NEW stray, NEW r, r = SetHexSelection(cs, p, stray)
  PROVE  Anchored(r) /\ AnchorHeld(cs, r)
<1>1. cs.addr \in ColumnType /\ cs.hex \in ColumnType /\ cs.dump \in ColumnType
  BY DEF ColumnsType
<1>2. PICK d : d = SetMousePos(cs.dump, FALSE, p, stray)
  OBVIOUS
<1>3. SelOK(cs.dump.sel, 0) /\ SelOK(cs.hex.sel, -2)
  BY DEF Selected
<1>4. Resel(d, cs.dump, 0)
  BY <1>1, <1>2, <1>3, HitDump, MouseOK
<1>5. SelOK(d.sel, 0)
  BY <1>1, <1>4, ReselIs
<1>6. DumpFront(cs.dump.sel.front)
  <2>1. cs.hex.sel.front \in Point
    BY <1>3 DEF SelOK, SelType
  <2> QED BY <2>1, BytePoint DEF Anchored
<1>7. DumpFront(d.sel.front) /\ DumpHeld(cs.dump.sel, d.sel)
  BY <1>1, <1>2, <1>3, <1>6, DumpMouseAnchor
<1>8. PICK a \in Int, b \in Int : d.sel.front = <<a, b>>
  BY <1>5 DEF SelOK, SelType, Point
<1> DEFINE s == [front |-> <<3 * d.sel.front[1], d.sel.front[2]>>,
                 pts |-> {<<3 * q[1] + i, q[2]>> : q \in d.sel.pts, i \in 0 .. 2}]
<1>9. s.front = <<3 * d.sel.front[1], d.sel.front[2]>>
  OBVIOUS
<1>10. r.dump = d /\ r.hex = [cs.hex EXCEPT !.sel = s]
  BY <1>1, <1>2 DEF SetHexSelection, SetCaretPos, ColumnsType
<1> HIDE DEF s
<1>11. r.hex.sel.front = <<3 * a, b>> /\ r.hex.xChars = cs.hex.xChars /\ r.hex.text = cs.hex.text
  BY <1>1, <1>8, <1>9, <1>10 DEF ColumnType
<1>12. a \in 0 .. 16 /\ (InText(d.sel.front) => a <= 15)
  BY <1>7, <1>8 DEF DumpFront
<1>13. HexFront(r.hex.sel.front)
  <2>1. r.hex.sel.front[1] = 3 * a /\ r.hex.sel.front[2] = b /\ d.sel.front[2] = b
    BY <1>8, <1>11
  <2>2. 3 * a \in 0 .. 48 /\ (a <= 15 => 3 * a <= 47)
    BY <1>12
  <2> QED BY <1>12, <2>1, <2>2 DEF HexFront, InText
<1>14. ByteOf(r.hex.sel.front) = d.sel.front
  <2>1. PICK i \in 0 .. 2 : i = 0
    OBVIOUS
  <2>2. a \in Nat /\ 3 * a = 3 * a + i /\ 3 * a \in Int
    BY <1>12, <2>1
  <2>3. Third(3 * a) = a
    BY <2>2, ThirdIs
  <2>4. r.hex.sel.front[1] = 3 * a /\ r.hex.sel.front[2] = b
    BY <1>11
  <2> QED BY <1>8, <2>3, <2>4 DEF ByteOf
<1>15. Anchored(r)
  BY <1>10, <1>11, <1>13, <1>14 DEF Anchored, HexKind
<1>16. AnchorHeld(cs, r)
  BY <1>7, <1>10 DEF AnchorHeld, DumpHeld
<1> QED BY <1>15, <1>16

\* Columns whose text and selections are those of cs.
LEMMA AnchorSame ==
  ASSUME NEW cs, Anchored(cs), NEW r, r.hex.sel = cs.hex.sel, r.dump.sel = cs.dump.sel,
         HexKind(r.hex)
  PROVE  Anchored(r) /\ AnchorHeld(cs, r)
BY DEF Anchored, AnchorHeld

\* What a step that leads to columns r does with the anchor.
AnchorStep(r) ==
  Anchored(r) /\ (left /\ left' /\ r.dump.sel.pts # {} => AnchorHeld(col, r))

LEMMA OutputAnchor ==
  ASSUME MemInv, Anchored(col), NEW b \in Nat, OutputMemory(b), NEW r, r = col'
  PROVE  AnchorStep(r)
<1>1. /\ col \in ColumnsType /\ col.addr \in ColumnType /\ col.hex \in ColumnType
      /\ col.dump \in ColumnType /\ OneDump(col, m_scrollCur)
  BY DEF MemInv, MemType, ColumnsType
<1>2. PICK th \in TextType, td \in TextType :
        /\ th = [base |-> b, size |-> 3 * Size] /\ td = [base |-> b, size |-> Size]
  <2>1. 3 * Size \in Nat /\ Size \in Nat
    BY MemAssumption
  <2>2. ASSUME NEW n \in Nat PROVE [base |-> b, size |-> n] \in TextType
    BY DEF TextType
  <2> QED BY <2>1, <2>2
<1>3. PICK w \in Nat \ {0} : w = 48
  OBVIOUS
<1>4. col.dump.xChars = 16
  BY <1>1 DEF OneDump
<1>5. PICK hex : hex = SetWidth(col.hex, w)
  OBVIOUS
<1>6. PICK dump : dump = SetStartPos(col.dump, hex.xEnd)
  OBVIOUS
<1>7. r.hex = [hex EXCEPT !.text = th] /\ r.dump = [dump EXCEPT !.text = td]
  <2>1. PICK c1 : c1 = SetAddrValue(col, b)
    OBVIOUS
  <2>2. /\ c1 = [addr |-> c1.addr, hex |-> c1.hex, dump |-> c1.dump]
        /\ c1.hex = col.hex /\ c1.dump = col.dump
    BY <1>1, <2>1 DEF SetAddrValue, SetText, ColumnsType
  <2>3. c1.dump.xChars * 2 + 16 = w
    BY <1>3, <1>4, <2>2
  <2>4. SetDumpValue(c1, b) = [c1 EXCEPT !.hex = [hex EXCEPT !.text = th],
                                     !.dump = [dump EXCEPT !.text = td]]
    BY <1>2, <1>5, <1>6, <2>2, <2>3 DEF SetDumpValue, SetText
  <2>5. r = SetDumpValue(c1, b)
    BY <2>1 DEF OutputMemory
  <2> QED BY <2>2, <2>4, <2>5
<1>8. hex \in ColumnType /\ hex.xChars = 48 /\ hex.sel = col.hex.sel
  BY <1>1, <1>3, <1>5, SetWidthIs
<1>9. dump \in ColumnType /\ dump.sel = col.dump.sel
  <2>1. PICK x \in Int : x = hex.xEnd
    BY <1>8 DEF ColumnType
  <2>2. dump = SetStartPos(col.dump, x)
    BY <1>6, <2>1
  <2> QED BY <1>1, <2>1, <2>2, SetStartPosIs
<1>10. r.hex.xChars = 48 /\ r.hex.sel = col.hex.sel /\ r.hex.text = th
  BY <1>7, <1>8, SetTextIs
<1>11. r.dump.sel = col.dump.sel
  BY <1>7, <1>9, SetTextIs
<1>12. HexKind(r.hex)
  BY <1>2, <1>10 DEF HexKind
<1> QED BY <1>10, <1>11, <1>12, AnchorSame DEF AnchorStep

LEMMA PaintAnchor ==
  ASSUME MemInv, Anchored(col), OnPaint, NEW r, r = col'
  PROVE  AnchorStep(r)
<1>1. /\ col \in ColumnsType /\ col.addr \in ColumnType /\ col.hex \in ColumnType
      /\ col.dump \in ColumnType /\ Adjacent(col) /\ height \in Heights
  BY DEF MemInv, MemType, ColumnsType
<1>2. PICK hex : hex = Pushed(col.addr, col.hex)
  OBVIOUS
<1>3. PICK dump : dump = Pushed(hex, col.dump)
  OBVIOUS
<1>4. /\ r.hex = [InitDrawing(hex) EXCEPT !.xChanged = FALSE]
      /\ r.dump = InitDrawing(dump)
  BY <1>2, <1>3 DEF OnPaint, Drawn
<1>5. /\ hex \in ColumnType
      /\ hex.xChanged \/ (hex.xEnd = col.hex.xEnd /\ (hex.xChanged <=> col.hex.xChanged))
      /\ hex.xChars = col.hex.xChars /\ hex.text = col.hex.text /\ hex.sel = col.hex.sel
  BY <1>1, <1>2, PushedIs DEF Adjacent
<1>6. ~hex.xChanged => col.dump.xStart = hex.xEnd
  BY <1>1, <1>5 DEF Adjacent
<1>7. dump \in ColumnType /\ dump.sel = col.dump.sel
  BY <1>1, <1>3, <1>5, <1>6, PushedIs
<1>8. r.hex.text = hex.text /\ r.hex.xChars = hex.xChars /\ r.hex.sel = hex.sel
  BY <1>1, <1>4, <1>5, InitDrawingIs
<1>9. r.dump.sel = dump.sel
  <2>1. dump.xChanged \in BOOLEAN
    BY <1>7 DEF ColumnType
  <2> QED BY <1>1, <1>4, <1>7, <2>1, InitDrawingIs
<1>10. HexKind(r.hex)
  BY <1>5, <1>8 DEF HexKind, Anchored
<1> QED BY <1>5, <1>7, <1>8, <1>9, <1>10, AnchorSame DEF AnchorStep

LEMMA ScrollAnchor ==
  ASSUME MemInv, Anchored(col), NEW cur, SetScrollColumns(cur), NEW r, r = col'
  PROVE  AnchorStep(r)
<1>1. col.hex \in ColumnType /\ col.dump \in ColumnType
  BY DEF MemInv, MemType, ColumnsType
<1>2. r.hex = [col.hex EXCEPT !.scrollCur = cur] /\ r.dump = [col.dump EXCEPT !.scrollCur = cur]
  BY DEF SetScrollColumns, SetScrollCursor, Cols
<1>3. /\ r.hex.text = col.hex.text /\ r.hex.xChars = col.hex.xChars /\ r.hex.sel = col.hex.sel
      /\ r.dump.sel = col.dump.sel
  <2> HIDE DEF SelType, TextType
  <2> QED BY <1>1, <1>2 DEF ColumnType
<1>4. HexKind(r.hex)
  BY <1>3 DEF HexKind, Anchored
<1> QED BY <1>3, <1>4, AnchorSame DEF AnchorStep

\* Without a selection the anchors are the corner of the text.
LEMMA ClearAnchor ==
  ASSUME NEW cs \in ColumnsType, Anchored(cs), NEW r, r = ClearSelections(cs)
  PROVE  Anchored(r) /\ r.dump.sel.pts = {}
<1>1. cs.hex \in ColumnType /\ cs.dump \in ColumnType
  BY DEF ColumnsType
<1>2. r.hex = [cs.hex EXCEPT !.sel = NoSel] /\ r.dump = [cs.dump EXCEPT !.sel = NoSel]
  BY <1>1 DEF ClearSelections, ColumnsType
<1>3. /\ r.hex.sel = NoSel /\ r.dump.sel = NoSel
      /\ r.hex.xChars = cs.hex.xChars /\ r.hex.text = cs.hex.text
  <2> HIDE DEF SelType, TextType, NoSel
  <2> QED BY <1>1, <1>2 DEF ColumnType
<1>4. HexFront(NoSel.front) /\ NoSel.front = ByteOf(NoSel.front) /\ NoSel.pts = {}
  <2>1. NoSel.front = <<0, 0>> /\ NoSel.pts = {}
    BY DEF NoSel
  <2>2. PICK f : f = <<0, 0>>
    OBVIOUS
  <2>3. f[1] = 0 /\ f[2] = 0
    BY <2>2
  <2>4. HexFront(f)
    BY <2>3 DEF HexFront
  <2>5. Third(0) = 0
    BY DEF Third
  <2>6. ByteOf(f) = f
    BY <2>2, <2>3, <2>5 DEF ByteOf
  <2> QED BY <2>1, <2>2, <2>4, <2>6
<1>5. HexKind(r.hex)
  BY <1>3 DEF HexKind, Anchored
<1> QED BY <1>3, <1>4, <1>5 DEF Anchored

LEMMA LDownAnchor ==
  ASSUME MemInv, Anchored(col), NEW p, NEW stray, OnMouseLDown(p, stray), NEW r, r = col'
  PROVE  AnchorStep(r)
<1>1. col \in ColumnsType /\ col.dump \in ColumnType /\ col.dump.xChars = 16 /\ ~left
  BY DEF MemInv, MemType, ColumnsType, OneDump, OnMouseLDown
<1>2. PICK clear : clear = ClearSelections(col)
  OBVIOUS
<1>3. Reselected(clear, col) /\ Anchored(clear)
  BY <1>1, <1>2, ClearSelectionsIs, ClearAnchor
<1>4. clear \in ColumnsType /\ Selected(clear) /\ clear.dump.xChars = 16
  BY <1>1, <1>3, ReselIs DEF Reselected
<1>5. r \in {SetHexSelection(clear, p, stray), SetDumpSelection(clear, p, stray), clear}
  BY <1>2 DEF OnMouseLDown
<1>6. Anchored(r)
  <2>1. CASE r = SetHexSelection(clear, p, stray)
    BY <1>3, <1>4, <2>1, SetHexAnchor
  <2>2. CASE r = SetDumpSelection(clear, p, stray)
    BY <1>3, <1>4, <2>2, SetDumpAnchor
  <2> QED BY <1>3, <1>5, <2>1, <2>2
<1> QED BY <1>1, <1>6 DEF AnchorStep

LEMMA MoveAnchor ==
  ASSUME MemInv, Anchored(col), NEW p, p[1] \in Int, NEW stray, OnMouseMove(p, stray),
         NEW r, r = col'
  PROVE  AnchorStep(r)
<1> DEFINE dragged == [c \in Cols |-> IF c \in Dragged /\ Width > p[1]
                                      THEN SetEndPos(col[c], p[1]) ELSE col[c]]
           fromDump == IF "dumpSel" \in flags THEN SetHexSelection(dragged, p, stray) ELSE dragged
<1>1. /\ col \in ColumnsType /\ col.addr \in ColumnType /\ col.hex \in ColumnType
      /\ col.dump \in ColumnType /\ Selected(col) /\ col.dump.xChars = 16
  BY DEF MemInv, MemType, ColumnsType, OneDump
<1>2. r = IF "hexSel" \in flags THEN SetDumpSelection(fromDump, p, stray) ELSE fromDump
  BY DEF OnMouseMove
<1>3. /\ dragged.addr = col.addr \/ dragged.addr = SetEndPos(col.addr, p[1])
      /\ dragged.hex = col.hex \/ dragged.hex = SetEndPos(col.hex, p[1])
      /\ dragged.dump = col.dump \/ dragged.dump = SetEndPos(col.dump, p[1])
      /\ dragged = [addr |-> dragged.addr, hex |-> dragged.hex, dump |-> dragged.dump]
  BY DEF Cols
<1>4. PICK d : d = dragged
  OBVIOUS
<1>5. PICK e : e = fromDump
  OBVIOUS
<1>6. e = IF "dumpSel" \in flags THEN SetHexSelection(d, p, stray) ELSE d
  BY <1>4, <1>5
<1>7. r = IF "hexSel" \in flags THEN SetDumpSelection(e, p, stray) ELSE e
  BY <1>2, <1>5
<1> HIDE DEF dragged, fromDump
<1>8. /\ d.addr \in ColumnType /\ d.hex \in ColumnType /\ d.dump \in ColumnType
      /\ d.hex.sel = col.hex.sel /\ d.dump.sel = col.dump.sel
      /\ d.hex.text = col.hex.text /\ d.hex.xChars = col.hex.xChars /\ d.dump.xChars = 16
  BY <1>1, <1>3, <1>4, SetEndPosIs
<1>9. d \in ColumnsType /\ Selected(d)
  BY <1>1, <1>3, <1>4, <1>8 DEF ColumnsType, Selected
<1>10. HexKind(d.hex)
  BY <1>8 DEF HexKind, Anchored
<1>11. Anchored(d) /\ AnchorHeld(col, d)
  BY <1>8, <1>10, AnchorSame
<1>12. /\ e \in ColumnsType /\ Selected(e) /\ e.hex.text = d.hex.text
       /\ Anchored(e) /\ AnchorHeld(d, e)
  <2>1. CASE e = d
    BY <1>9, <1>11, <2>1 DEF AnchorHeld
  <2>2. CASE e = SetHexSelection(d, p, stray)
    <3>1. Reselected(e, d)
      BY <1>9, <2>2, SetHexSelectionIs DEF Selected
    <3>2. e \in ColumnsType /\ Selected(e) /\ e.hex.text = d.hex.text
      BY <1>8, <3>1, ReselIs DEF Reselected
    <3>3. Anchored(e) /\ AnchorHeld(d, e)
      BY <1>8, <1>9, <1>11, <2>2, SetHexAnchor
    <3> QED BY <3>2, <3>3
  <2> QED BY <1>6, <2>1, <2>2
<1>13. Anchored(r) /\ AnchorHeld(e, r)
  <2>1. CASE r = e
    BY <1>12, <2>1 DEF AnchorHeld
  <2>2. CASE r = SetDumpSelection(e, p, stray)
    BY <1>12, <2>2, SetDumpAnchor
  <2> QED BY <1>7, <2>1, <2>2
<1>14. AnchorHeld(col, r)
  BY <1>8, <1>11, <1>12, <1>13 DEF AnchorHeld
<1> QED BY <1>13, <1>14 DEF AnchorStep

LEMMA NextAnchor ==
  ASSUME MemInv, Anchored(col), [Next]_vars, NEW r, r = col'
  PROVE  AnchorStep(r)
<1>1. ASSUME NEW b \in Bases, OutputMemory(b) PROVE AnchorStep(r)
  BY <1>1, OutputAnchor, MemAssumption
<1>2. CASE col' = col
  <2>1. HexKind(r.hex)
    BY <1>2 DEF Anchored
  <2> QED BY <1>2, <2>1, AnchorSame DEF AnchorStep
<1>3. CASE OnPaint
  BY <1>3, PaintAnchor
<1>4. CASE OnScroll \/ OnChar
  <2>1. PICK cur : cur = m_scrollCur'
    OBVIOUS
  <2>2. SetScrollColumns(m_scrollCur')
    BY <1>4 DEF OnScroll, OnChar
  <2>3. SetScrollColumns(cur)
    BY <2>1, <2>2 DEF SetScrollColumns
  <2> QED BY <2>3, ScrollAnchor
<1>5. CASE OnMouseRDown
  <2>1. col \in ColumnsType
    BY DEF MemInv, MemType
  <2>2. r = ClearSelections(col)
    BY <1>5 DEF OnMouseRDown
  <2> QED BY <2>1, <2>2, ClearAnchor DEF AnchorStep
<1>6. ASSUME NEW p, p \in MouseX \X MouseY, NEW stray \in Stray,
             OnMouseLDown(p, stray) \/ OnMouseMove(p, stray)
      PROVE  AnchorStep(r)
  <2>1. p[1] \in MouseX
    BY <1>6
  <2>2. MouseX \subseteq 0 .. Width - 1
    BY MemAssumption
  <2>3. PICK x : x = p[1]
    OBVIOUS
  <2>4. x \in 0 .. Width - 1
    BY <2>1, <2>2, <2>3
  <2>5. p[1] \in Int
    BY <2>3, <2>4
  <2> QED BY <1>6, <2>5, LDownAnchor, MoveAnchor
<1>7. ASSUME \/ \E h \in Heights : OnSize(h)
             \/ OnMouseLUp \/ Outside \/ UNCHANGED vars
      PROVE  AnchorStep(r)
  <2>1. col' = col
    BY <1>7 DEF OnSize, OnMouseLUp, Outside, vars
  <2> QED BY <1>2, <2>1
<1> QED BY <1>1, <1>3, <1>4, <1>5, <1>6, <1>7 DEF Next

LEMMA InitAnchor == Init => Anchored(col)
<1> SUFFICES ASSUME Init PROVE Anchored(col)
  OBVIOUS
<1>1. PICK jh \in BOOLEAN, jd \in BOOLEAN :
        LET hex == EndOf(0, 10)
            dump == EndOf(hex, 10)
        IN  col.hex = Column(hex, 10, jh) /\ col.dump = Column(dump, 16, jd)
  BY DEF Init
<1>2. /\ col.hex.xChars = 10 /\ col.hex.text.size = 0
      /\ col.hex.sel = NoSel /\ col.dump.sel = NoSel
  BY <1>1 DEF Column
<1>3. HexFront(NoSel.front) /\ NoSel.front = ByteOf(NoSel.front)
  <2>1. PICK f : f = <<0, 0>>
    OBVIOUS
  <2>2. f[1] = 0 /\ f[2] = 0 /\ NoSel.front = f
    BY <2>1 DEF NoSel
  <2>3. HexFront(f)
    BY <2>2 DEF HexFront
  <2>4. Third(0) = 0
    BY DEF Third
  <2>5. ByteOf(f) = f
    BY <2>1, <2>2, <2>4 DEF ByteOf
  <2> QED BY <2>2, <2>3, <2>5
<1> QED BY <1>2, <1>3 DEF Anchored, HexKind

\* The byte where a drag begins stays its anchor while the button is down,
\* with moves that change column, moves up and down that rebuild the selection
\* from its first point, dumps that arrive and borders that are dragged, as
\* long as it is a byte of the dump (Column::SelectHexLines, SelectDumpLines,
\* MemoryControl::SetHexSelection, SetDumpSelection).
THEOREM AnchorsAreKept == Spec => AnchorKept
<1>1. MemInv /\ Anchored(col) /\ [Next]_vars => (Anchored(col))'
  <2> SUFFICES ASSUME MemInv, Anchored(col), [Next]_vars PROVE (Anchored(col))'
    OBVIOUS
  <2>1. PICK r : r = col'
    OBVIOUS
  <2>2. Anchored(r)
    BY <2>1, NextAnchor DEF AnchorStep
  <2> QED BY <2>1, <2>2 DEF Anchored, HexKind
<1>2. MemInv /\ Anchored(col) /\ [Next]_vars =>
        [(left /\ left' /\ col.dump.sel.pts # {} /\ col'.dump.sel.pts # {}
          /\ col.hex.text.size > 0 /\ InText(col.dump.sel.front))
         => col'.dump.sel.front = col.dump.sel.front]_vars
  <2> SUFFICES ASSUME MemInv, Anchored(col), [Next]_vars, left, left', col.dump.sel.pts # {},
                      col'.dump.sel.pts # {}, col.hex.text.size > 0, InText(col.dump.sel.front)
               PROVE  col'.dump.sel.front = col.dump.sel.front
    OBVIOUS
  <2>1. PICK r : r = col'
    OBVIOUS
  <2>2. AnchorHeld(col, r)
    BY <2>1, NextAnchor DEF AnchorStep
  <2> QED BY <2>1, <2>2 DEF AnchorHeld
<1> QED BY <1>1, <1>2, InitAnchor, InductiveInv, PTL DEF Spec, AnchorKept
=============================================================================
