------------------------------ MODULE MemCtrl -------------------------------
(***************************************************************************)
(* The memory control (memctrl.cpp, column.cpp): three columns of text,    *)
(* addresses, hex dump and characters, that scroll together, whose borders *)
(* can be dragged and whose selections follow each other; filled by        *)
(* MemFrame and StackFrame::OutputMemory.                                  *)
(*                                                                         *)
(* Positions are pixels and character cells as in the code.  The text of a *)
(* column is abstracted to the address it starts at and its length (in the *)
(* hex column every third character is a space), a selection to its first  *)
(* point, which anchors a drag, and the set of its points.                 *)
(***************************************************************************)
EXTENDS Integers, Sequences, FiniteSets, FiniteSetsExt

CONSTANTS
  FontW, FontH,   \* size of a character
  Size,           \* szMemRegion, the bytes read for a dump (1024 in the code)
  Bases,          \* addresses a dump is read from
  Heights,        \* client heights the window can have
  Width,          \* window width
  MouseX, MouseY, \* where the mouse can be
  MaxInputs,      \* bound: keys, scrolls, clicks and moves of the user
  Stray           \* what a read past the text can find: spaces by position % 3

\* The client area holds at least the margins.
ASSUME MemAssumption ==
  /\ FontW \in Nat \ {0} /\ FontH \in Nat \ {0}
  /\ Size \in Nat /\ Size % 16 = 0
  /\ MaxInputs \in Nat /\ Bases \subseteq Nat /\ Heights \subseteq Nat /\ Width \in Nat
  /\ \A h \in Heights : h >= 10
  /\ MouseX \subseteq 0 .. Width - 1 /\ MouseY \subseteq Nat
  /\ Stray \subseteq [0 .. 2 -> BOOLEAN]

COLUMN_LINE_DELTA == 3
Margin == 5
YStart == 10
Cols == {"addr", "hex", "dump"}

VARIABLES
  col,          \* the three Columns
  m_scrollLines, m_scrollCur, m_yChars,
  flags,        \* m_isAddrDown, m_isHexDown, m_isDumpDown, m_isHexSel, m_isDumpSel
  height,       \* client height
  left,         \* the left button is down, wherever it was pressed
  inputs        \* inputs of the user so far

vars == <<col, m_scrollLines, m_scrollCur, m_yChars, flags, height, left, inputs>>

NoSel == [front |-> <<0, 0>>, pts |-> {}]

\* Column::Init.
EndOf(start, chars) == FontW * chars + 2 * Margin + start

\* The constructor leaves m_xChanged and m_yChars uninitialised; the latter is
\* set by the first paint.
Column(start, chars, junk) ==
  [xStart |-> start, xEnd |-> EndOf(start, chars), xDelta |-> 0, xChanged |-> junk,
   xChars |-> chars, yChars |-> -1, scrollCur |-> 0, isAddr |-> FALSE,
   text |-> [base |-> 0, size |-> 0], sel |-> NoSel]

Init ==
  /\ \E ja, jh, jd \in BOOLEAN :
       LET hex == EndOf(0, 10)
           dump == EndOf(hex, 10)
       IN  col = [addr |-> Column(0, 10, ja), hex |-> Column(hex, 10, jh),
                  dump |-> Column(dump, 16, jd)]   \* SetWidth(16)
  /\ m_scrollLines = 0 /\ m_scrollCur = 0 /\ m_yChars = 0
  /\ flags = {} /\ height \in Heights /\ left = FALSE /\ inputs = 0

-----------------------------------------------------------------------------
(***************************************************************************)
(* Columns.                                                                *)
(***************************************************************************)
SetStartPos(c, pos) == [c EXCEPT !.xStart = pos, !.xEnd = EndOf(pos, c.xChars)]

\* Mutant: the border moves and its neighbour is not told.
SetEndPosQuiet(c, pos) == [c EXCEPT !.xDelta = pos - c.xEnd, !.xEnd = pos]

SetEndPos(c, pos) ==
  [c EXCEPT !.xDelta = pos - c.xEnd, !.xEnd = pos, !.xChanged = TRUE]

SetWidth(c, chars) == [c EXCEPT !.xChars = chars, !.xEnd = EndOf(c.xStart, chars)]

SetText(c, base, size) == [c EXCEPT !.text = [base |-> base, size |-> size]]
SetScrollCursor(c, pos) == [c EXCEPT !.scrollCur = pos]
SetCaretPos(c, front, pts) == [c EXCEPT !.sel = [front |-> front, pts |-> pts]]

\* DrawNextColumn: a border that was moved pushes the next column along.
Pushed(c, next) ==
  IF c.xChanged
  THEN LET n == SetStartPos(next, c.xEnd) IN SetEndPos(n, n.xEnd + c.xDelta)
  ELSE next

InitDrawing(c) == [c EXCEPT !.yChars = (height - YStart) \div FontH]

\* Column::Draw of the address column draws the other two after it.
Drawn ==
  LET hex == Pushed(col.addr, col.hex)
      dump == Pushed(hex, col.dump)
  IN  [addr |-> [InitDrawing(col.addr) EXCEPT !.xChanged = FALSE],
       hex |-> [InitDrawing(hex) EXCEPT !.xChanged = FALSE],
       dump |-> InitDrawing(dump)]

\* DrawTextBuffer: offset of the byte that starts row y of a column on the
\* screen, -1 for a blank row.  An address stands for 16 bytes, three
\* characters of the hex dump for one.
DrawTextBuffer(c, y) ==
  LET k == col[c]
      chars == IF k.isAddr THEN 8 ELSE k.xChars
      pos == chars * (y + k.scrollCur)
  IN  IF 0 <= pos /\ pos < k.text.size
      THEN k.text.base + CASE c = "addr" -> 16 * (pos \div 8)
                           [] c = "hex" -> pos \div 3 [] OTHER -> pos
      ELSE -1

-----------------------------------------------------------------------------
(***************************************************************************)
(* Selections.                                                             *)
(***************************************************************************)
\* m_selPoint.push_back of the points of s.
PushBack(sel, s) ==
  [front |-> IF sel.pts = {} THEN s[1] ELSE sel.front,
   pts |-> sel.pts \cup {s[i] : i \in DOMAIN s}]

\* wxT(' ') == CharAt(x, y) in the hex column; past the text there is no
\* telling what is read.
IsSpace(k, x, y, stray) ==
  LET pos == x + k.xChars * y
  IN  IF pos \in 0 .. k.text.size - 1 THEN pos % 3 = 2 ELSE stray[pos % 3]

SelectHexPoint(k, x, y, stray) ==
  LET row == y + k.scrollCur
      S(i) == IsSpace(k, i, row, stray)
  IN  PushBack(k.sel, CASE ~S(x) /\ ~S(x + 1) -> <<<<x, row>>, <<x + 1, row>>>>
                        [] ~S(x) /\ S(x + 1) -> <<<<x, row>>, <<x - 1, row>>>>
                        [] OTHER -> <<<<x, row>>>>)

SelectHexLine(k, sel, x, y, stray) ==
  LET row == y + k.scrollCur
      step == IF sel.front[1] < x THEN 1 ELSE -1
      n == IF IsSpace(k, x, row, stray) THEN 3 ELSE 2
  IN  IF sel.front[1] = x THEN sel
      ELSE PushBack(sel, [i \in 1 .. n |-> <<x + step * (i - 1), row>>])

\* The cells from position a to position b, in the order in which a drag
\* that leads from a to b visits them.
Visited(a, b) ==
  IF a <= b THEN [i \in 1 .. b - a + 1 |-> a + i - 1]
            ELSE [i \in 1 .. a - b + 1 |-> a - i + 1]

\* The points a drag over several rows selects, given what it adds at each
\* cell: the selection starts again at its first point.
Lines(k, sel, x, y, At(_, _)) ==
  LET row == y + k.scrollCur
      posEnd == x + k.xChars * row
      pos == sel.front[1] + k.xChars * sel.front[2]
      cells == Visited(pos, posEnd)
      pts(i) == At(cells[i] % k.xChars, cells[i] \div k.xChars)
  IN  IF sel.front[2] = row THEN sel
      ELSE IF (pos <= posEnd) # (sel.front[2] < row) THEN NoSel
      ELSE [front |-> pts(1)[1],
            pts |-> UNION {{pts(i)[j] : j \in DOMAIN pts(i)} : i \in DOMAIN cells}]

\* Mutant: a drag upwards takes the cell ahead of a space too.
SelectHexLinesAhead(k, sel, x, y, stray) ==
  LET At(xs, ys) ==
        IF sel.front[2] < y + k.scrollCur
        THEN [i \in 1 .. IF IsSpace(k, xs, ys, stray) THEN 3 ELSE 2 |-> <<xs + i - 1, ys>>]
        ELSE [i \in 1 .. 3 |-> <<xs + 2 - i, ys>>]
  IN  Lines(k, sel, x, y, At)

SelectHexLines(k, sel, x, y, stray) ==
  LET At(xs, ys) ==
        LET space == IsSpace(k, xs, ys, stray)
        IN  IF sel.front[2] < y + k.scrollCur
            THEN [i \in 1 .. IF space THEN 3 ELSE 2 |-> <<xs + i - 1, ys>>]
            ELSE [i \in 1 .. 3 |-> <<xs + (IF space THEN 1 ELSE 2) - i, ys>>]
  IN  Lines(k, sel, x, y, At)

SelectDumpPoint(k, x, y) == PushBack(k.sel, <<<<x, y + k.scrollCur>>>>)

SelectDumpLines(k, sel, x, y) ==
  LET At(xs, ys) == <<<<xs, ys>>>> IN Lines(k, sel, x, y, At)

\* One cell under the mouse.  The row handed to Select...Point has the scroll
\* position added, and these add it again.
Hit(k, hex, x, y, stray) ==
  [k EXCEPT !.sel =
    IF hex
    THEN SelectHexLines(k, SelectHexLine(k, SelectHexPoint(k, x, y + k.scrollCur, stray),
                                         x, y, stray), x, y, stray)
    ELSE SelectDumpLines(k, SelectDumpPoint(k, x, y + k.scrollCur), x, y)]

\* SetMousePos: cells share their borders, so two columns of cells can be
\* hit; only the first row counts.
SetMousePos(k, hex, p, stray) ==
  LET xs == {x \in 0 .. k.xChars - 1 :
               LET l == x * FontW + k.xStart + Margin IN l <= p[1] /\ p[1] <= l + FontW}
      ys == {y \in 0 .. k.yChars :
               LET t == y * FontH + Margin IN t <= p[2] /\ p[2] <= t + FontH}
      once == Hit(k, hex, Min(xs), Min(ys), stray)
  IN  IF xs = {} \/ ys = {} THEN k
      ELSE IF Cardinality(xs) = 1 THEN once
      ELSE Hit(once, hex, Max(xs), Min(ys), stray)

\* C division truncates towards 0.
Third(x) == IF x < 0 THEN -((-x) \div 3) ELSE x \div 3
ByteOf(pt) == <<Third(pt[1]), pt[2]>>

\* Mutant: the hex column selects the byte after the one in the dump.
SetHexSelectionNarrow(cs, p, stray) ==
  LET dump == SetMousePos(cs.dump, FALSE, p, stray)
  IN  [cs EXCEPT !.dump = dump,
                 !.hex.sel = [front |-> <<3 * dump.sel.front[1], dump.sel.front[2]>>,
                              pts |-> {<<3 * q[1] + 3, q[2]>> : q \in dump.sel.pts}]]

SetHexSelection(cs, p, stray) ==
  LET dump == SetMousePos(cs.dump, FALSE, p, stray)
  IN  [cs EXCEPT !.dump = dump,
                 !.hex = SetCaretPos(@, <<3 * dump.sel.front[1], dump.sel.front[2]>>,
                           {<<3 * q[1] + i, q[2]>> : q \in dump.sel.pts, i \in 0 .. 2})]

SetDumpSelection(cs, p, stray) ==
  LET hex == SetMousePos(cs.hex, TRUE, p, stray)
  IN  [cs EXCEPT !.hex = hex,
                 !.dump = SetCaretPos(@, ByteOf(hex.sel.front), {ByteOf(q) : q \in hex.sel.pts})]

\* Where on the screen a point of a selection is, and the corners of the grey
\* rectangles drawn for one.
GraphicalCharToDeviceCoords(k, pt) == <<pt[1] * FontW, (pt[2] - k.scrollCur) * FontH>>

DrawSelection(k) ==
  {LET ptDev == GraphicalCharToDeviceCoords(k, pt)
   IN  <<k.xStart + ptDev[1] + Margin, ptDev[2] + YStart + Margin>> : pt \in k.sel.pts}

ClearSelections(cs) == [cs EXCEPT !.hex.sel = NoSel, !.dump.sel = NoSel]

-----------------------------------------------------------------------------
(***************************************************************************)
(* ListTextCtrl.                                                           *)
(***************************************************************************)
Chars(h) == LET n == (h - 2 * Margin) \div FontH IN IF n = 0 THEN 1 ELSE n
UpdateWindowSize(h) == m_yChars' = Chars(h)

\* Mutant: the dump column stays where it was when the hex column widens.
SetDumpValueStays(cs, base) ==
  LET hex == SetWidth(cs.hex, cs.dump.xChars * 2 + 16)
  IN  [cs EXCEPT !.hex = [hex EXCEPT !.text = [base |-> base, size |-> 3 * Size]],
                 !.dump.text = [base |-> base, size |-> Size]]

\* Two digits and a space for each byte.
SetDumpValue(cs, base) ==
  LET hex == SetWidth(cs.hex, cs.dump.xChars * 2 + 16)
  IN  [cs EXCEPT !.hex = SetText(hex, base, 3 * Size),
                 !.dump = SetText(SetStartPos(cs.dump, hex.xEnd), base, Size)]

\* Eight digits for every 16 bytes.
SetAddrValue(cs, base) ==
  [cs EXCEPT !.addr = [SetText(@, base, 8 * (Size \div 16)) EXCEPT !.isAddr = TRUE]]

\* MemFrame and StackFrame::OutputMemory: the bytes read become characters,
\* one for one; a dump keeps the scroll position and the selections.
OutputMemory(base) ==
  /\ col' = SetDumpValue(SetAddrValue(col, base), base)
  /\ m_scrollLines' = Size \div col.dump.xChars
  /\ UNCHANGED <<m_scrollCur, m_yChars, flags, height, left, inputs>>

OnSize(h) ==
  /\ height' = h /\ UpdateWindowSize(h)
  /\ UNCHANGED <<col, m_scrollLines, m_scrollCur, flags, left, inputs>>

OnPaint ==
  /\ col' = Drawn /\ UpdateWindowSize(height)
  /\ UNCHANGED <<m_scrollLines, m_scrollCur, flags, height, left, inputs>>

\* The user sees the control: it has been painted.
Shown == col.dump.yChars # -1
Input == Shown /\ inputs < MaxInputs /\ inputs' = inputs + 1

\* Mutant: the hex column is forgotten.
SetScrollColumnsTwo(pos) ==
  col' = [c \in Cols |-> IF c = "hex" THEN col[c] ELSE [col[c] EXCEPT !.scrollCur = pos]]

SetScrollColumns(pos) ==
  col' = [c \in Cols |-> SetScrollCursor(col[c], pos)]

Up == IF m_scrollCur >= 1 THEN m_scrollCur - 1 ELSE m_scrollCur

\* Mutant: the view scrolls as long as there are lines.
DownAll == IF m_scrollCur <= m_scrollLines THEN m_scrollCur + 1 ELSE m_scrollCur

Down == IF m_scrollCur <= m_scrollLines - m_yChars THEN m_scrollCur + 1 ELSE m_scrollCur

\* LINEUP, LINEDOWN, or the thumb dragged to a line.
OnScroll ==
  /\ Input
  /\ m_scrollCur' \in {Up, Down} \cup 0 .. m_scrollLines - 1
  /\ UpdateWindowSize(height) /\ SetScrollColumns(m_scrollCur')
  /\ UNCHANGED <<m_scrollLines, flags, height, left>>

\* PAGEUP and UP, PAGEDOWN and DOWN, HOME, END.
OnChar ==
  /\ Input
  /\ m_scrollCur' \in {Up, Down, 0, m_scrollLines - m_yChars}
  /\ SetScrollColumns(m_scrollCur')
  /\ UNCHANGED <<m_scrollLines, m_yChars, flags, height, left>>

Near(c, x) == x - col[c].xEnd \in -COLUMN_LINE_DELTA .. COLUMN_LINE_DELTA

\* The first border, from the left, that the mouse is near.
Grabbed(x) ==
  CASE Near("addr", x) -> {"addrDown"} [] Near("hex", x) -> {"hexDown"}
    [] Near("dump", x) -> {"dumpDown"} [] OTHER -> {}

OnMouseLDown(p, stray) ==
  LET clear == ClearSelections(col)
  IN  /\ Input /\ ~left /\ left' = TRUE
      /\ CASE col.hex.xEnd < p[1] ->
                /\ flags' = flags \cup Grabbed(p[1]) \cup {"dumpSel"}
                /\ col' = SetHexSelection(clear, p, stray)
           [] col.addr.xEnd <= p[1] /\ p[1] <= col.hex.xEnd ->
                /\ flags' = flags \cup Grabbed(p[1]) \cup {"hexSel"}
                /\ col' = SetDumpSelection(clear, p, stray)
           [] OTHER -> flags' = flags \cup Grabbed(p[1]) /\ col' = clear
      /\ UNCHANGED <<m_scrollLines, m_scrollCur, m_yChars, height>>

\* The border that is dragged.
Dragged ==
  CASE "addrDown" \in flags -> {"addr"} [] "hexDown" \in flags -> {"hex"}
    [] "dumpDown" \in flags -> {"dump"} [] OTHER -> {}

OnMouseMove(p, stray) ==
  LET dragged == [c \in Cols |-> IF c \in Dragged /\ Width > p[1]
                                 THEN SetEndPos(col[c], p[1]) ELSE col[c]]
      fromDump == IF "dumpSel" \in flags THEN SetHexSelection(dragged, p, stray) ELSE dragged
  IN  /\ Input /\ left
      /\ col' = IF "hexSel" \in flags THEN SetDumpSelection(fromDump, p, stray) ELSE fromDump
      /\ UNCHANGED <<m_scrollLines, m_scrollCur, m_yChars, flags, height, left>>

\* m_isHexSel stays set.
OnMouseLUp ==
  /\ Input /\ left /\ left' = FALSE
  /\ flags' = flags \cap {"hexSel"}
  /\ UNCHANGED <<col, m_scrollLines, m_scrollCur, m_yChars, height>>

OnMouseRDown ==
  /\ Input
  /\ col' = ClearSelections(col)
  /\ UNCHANGED <<m_scrollLines, m_scrollCur, m_yChars, flags, height, left>>

\* The mouse is not captured: the button may be pressed or released outside
\* the control, which is not told.
Outside ==
  /\ Input /\ left' = ~left
  /\ UNCHANGED <<col, m_scrollLines, m_scrollCur, m_yChars, flags, height>>

Next ==
  \/ \E b \in Bases : OutputMemory(b)
  \/ \E h \in Heights : OnSize(h)
  \/ OnPaint \/ OnScroll \/ OnChar \/ OnMouseLUp \/ OnMouseRDown \/ Outside
  \/ \E p \in MouseX \X MouseY, stray \in Stray :
       OnMouseLDown(p, stray) \/ OnMouseMove(p, stray)

Spec == Init /\ [][Next]_vars

-----------------------------------------------------------------------------
(***************************************************************************)
(* Properties.                                                             *)
(***************************************************************************)
\* The three columns show the same bytes: in every row of the screen the
\* address, the digits and the characters start at one offset, or all three
\* rows are blank.
RowsAligned ==
  \A y \in 0 .. col.dump.yChars - 1 :
    /\ DrawTextBuffer("addr", y) = DrawTextBuffer("dump", y)
    /\ DrawTextBuffer("hex", y) = DrawTextBuffer("dump", y)

\* Some row of the dump is in the window.
Visible ==
  /\ m_scrollLines > 0
  /\ \E y \in 0 .. m_yChars - 1 : m_scrollCur + y \in 0 .. m_scrollLines - 1

\* A dump that is on the screen does not leave it altogether, whatever the user
\* scrolls, resizes and reads next, but in two ways.  In a window of one row
\* LINEDOWN and DOWN, whose guard compares with <=, go one line past the last.
\* And END goes before the first line when there are fewer lines than rows,
\* from where a window that gets smaller loses the dump.  (Likewise a dump read
\* after an END on the empty control need not come to the screen.)
DataKept ==
  [][Visible /\ ~Visible' => \/ m_yChars = 1 /\ m_scrollCur' = m_scrollLines
                             \/ m_scrollCur < 0 /\ m_yChars' < m_yChars]_vars

\* A column starts where the one before it ends, unless that border has been
\* moved since the last paint, which will push it along.
ColumnsAdjacent ==
  /\ ~col.addr.xChanged => col.hex.xStart = col.addr.xEnd
  /\ ~col.hex.xChanged => col.dump.xStart = col.hex.xEnd

\* The three columns stand side by side and show the same bytes.
ColumnsAlign == RowsAligned /\ ColumnsAdjacent

\* The hex column and the dump column have the same bytes grey on the screen,
\* whichever of them the mouse is in, with drags that change from one to the
\* other, flags left over from a button released outside the control, borders
\* that are moved and a view that is scrolled.
SelectionsAgree ==
  LET cells(k) == {<<(r[1] - k.xStart - Margin) \div FontW, r[2]>> : r \in DrawSelection(k)}
  IN  {ByteOf(q) : q \in cells(col.hex)} = cells(col.dump)

InText(pt) == pt[2] \in 0 .. Size \div 16 - 1

\* The byte where a drag began is its anchor until the button goes up: moves
\* up and down, which rebuild the selection from its first point, keep it.
AnchorKept ==
  [][(left /\ left' /\ col.dump.sel.pts # {} /\ col'.dump.sel.pts # {}
      /\ col.hex.text.size > 0 /\ InText(col.dump.sel.front))
     => col'.dump.sel.front = col.dump.sel.front]_vars

=============================================================================
