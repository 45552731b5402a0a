----------------------------- MODULE GuiProofs ------------------------------
(***************************************************************************)
(* Proofs about Gui: what ngdbg.ini gives back, for any number of          *)
(* debuggers, panes, starts and changes, and what the CPU and the          *)
(* breakpoint frame show, for any code and any number of threads, stops    *)
(* and requests.                                                           *)
(***************************************************************************)
EXTENDS Gui, SequenceTheorems, WellFoundedInduction, TLAPS

WidthsType == [Lists -> Widths]
WinType == [place : Places, iconized : BOOLEAN, shown : SUBSET Panes, width : WidthsType]
ConfigType == [main : Places \cup {Missing}, child : (SUBSET Panes) \cup {Missing},
               width : [Lists -> Widths \cup {Missing}]]
LayoutType ==
  /\ win \in [Guis -> WinType]
  /\ config \in [Guis -> ConfigType]
  /\ ini \in ConfigType
  /\ last = Missing \/ last \in [shown : SUBSET Panes, width : WidthsType]

\* ngdbg.ini has what the latest orderly exit had on the screen.
Saved ==
  IF last = Missing
  THEN ini.child = Missing /\ ini.width = [l \in Lists |-> Missing]
  ELSE ini.child = last.shown /\ ini.width = last.width

LayoutInv == LayoutType /\ Saved

-----------------------------------------------------------------------------
LEMMA LoadParamsIs ==
  ASSUME NEW c \in ConfigType
  PROVE  /\ LoadParams(c) \in WidthsType
         /\ \A l \in Lists : LoadParams(c)[l] = Read(c.width[l], Default)
BY LayoutAssumption DEF LoadParams, CPULoadParams, BPLoadParams, ModLoadParams, Read,
   ConfigType, WidthsType, Lists

LEMMA LoadLayoutIs ==
  ASSUME NEW c \in ConfigType
  PROVE  LoadLayout(c) \in WinType
<1>1. LoadParams(c) \in WidthsType
  BY LoadParamsIs
<1>2. Read(c.main, Default) \in Places /\ Read(c.child, ShowUsableWindows) \in SUBSET Panes
  BY LayoutAssumption DEF Read, ConfigType, ShowUsableWindows
<1> QED BY <1>1, <1>2 DEF LoadLayout, WinType

LEMMA SaveParamsIs ==
  ASSUME NEW c \in ConfigType, NEW w \in WinType
  PROVE  /\ SaveParams(c, w) \in ConfigType
         /\ SaveParams(c, w).child = c.child /\ SaveParams(c, w).main = c.main
         /\ SaveParams(c, w).width = w.width
<1> DEFINE c1 == CPUSaveParams(c, w)
           c2 == BPSaveParams(c1, w)
           c3 == ModSaveParams(c2, w)
<1>0. /\ "cpu" \in Lists /\ "bp" \in Lists /\ "mod" \in Lists
      /\ w.width \in [Lists -> Widths]
      /\ \A l \in Lists : w.width[l] \in Widths \cup {Missing}
  BY DEF WinType, WidthsType, Lists
<1>1. /\ c1 \in ConfigType /\ c1.child = c.child /\ c1.main = c.main
      /\ c1.width = [c.width EXCEPT !["cpu"] = w.width["cpu"]]
  BY <1>0 DEF CPUSaveParams, ConfigType
<1> HIDE DEF c1
<1>2. /\ c2 \in ConfigType /\ c2.child = c1.child /\ c2.main = c1.main
      /\ c2.width = [c1.width EXCEPT !["bp"] = w.width["bp"]]
  BY <1>0, <1>1 DEF BPSaveParams, ConfigType
<1> HIDE DEF c2
<1>3. /\ c3 \in ConfigType /\ c3.child = c2.child /\ c3.main = c2.main
      /\ c3.width = [c2.width EXCEPT !["mod"] = w.width["mod"]]
  BY <1>0, <1>2 DEF ModSaveParams, ConfigType
<1> HIDE DEF c3
<1>4. c.width \in [Lists -> Widths \cup {Missing}]
  BY DEF ConfigType
<1>5. c3.width = w.width
  BY <1>0, <1>1, <1>2, <1>3, <1>4 DEF Lists
<1>6. SaveParams(c, w) = c3
  BY DEF SaveParams, c1, c2, c3
<1> QED BY <1>1, <1>2, <1>3, <1>5, <1>6

LEMMA DestroyedIs ==
  ASSUME NEW c \in ConfigType, NEW w \in WinType
  PROVE  /\ Destroyed(c, w) \in ConfigType
         /\ Destroyed(c, w).child = w.shown /\ Destroyed(c, w).width = w.width
<1> DEFINE s == SaveLayout(c, w)
<1>1. s \in ConfigType /\ s.child = w.shown
  BY LayoutAssumption DEF SaveLayout, GetPosition, Read, ConfigType, WinType
<1> HIDE DEF s
<1>2. Destroyed(c, w) = SaveParams(s, w)
  BY DEF Destroyed, s
<1> QED BY <1>1, <1>2, SaveParamsIs

\* An exit in order, of window w with config c.
LEMMA SavedAtExit ==
  ASSUME NEW c \in ConfigType, NEW w \in WinType,
         ini' = Destroyed(c, w), last' = [shown |-> w.shown, width |-> w.width]
  PROVE  ini' \in ConfigType /\ last' \in [shown : SUBSET Panes, width : WidthsType] /\ Saved'
<1>1. w.shown \in SUBSET Panes /\ w.width \in WidthsType
  BY DEF WinType
<1>2. last' # Missing
  BY <1>1, LayoutAssumption DEF WidthsType
<1> QED BY <1>1, <1>2, DestroyedIs DEF Saved

LEMMA HiddenIs == Hidden \in WinType /\ Empty \in ConfigType
BY LayoutAssumption DEF Hidden, Empty, WinType, ConfigType, WidthsType

LEMMA LayoutStep == LayoutInv /\ [Next]_vars => LayoutInv'
<1> SUFFICES ASSUME LayoutInv, [Next]_vars PROVE LayoutInv'
  OBVIOUS
<1> USE DEF LayoutInv
<1>1. ASSUME NEW g \in Guis, NEW ok \in BOOLEAN, OnInit(g, ok) PROVE LayoutInv'
  <2>1. PICK w \in WinType : w = LoadLayout(ini)
    BY LoadLayoutIs DEF LayoutType
  <2>2. /\ win' = [win EXCEPT ![g] = w] /\ config' = [config EXCEPT ![g] = ini]
        /\ UNCHANGED <<ini, last>>
    BY <1>1, <2>1 DEF OnInit
  <2> QED BY <2>2 DEF LayoutType, Saved
<1>2. ASSUME NEW g \in Guis, Exit(g) PROVE LayoutInv'
  <2>1. win[g] \in WinType /\ config[g] \in ConfigType
    BY DEF LayoutType
  <2>2. ini' \in ConfigType /\ last' \in [shown : SUBSET Panes, width : WidthsType] /\ Saved'
    BY <1>2, <2>1, SavedAtExit DEF Exit
  <2> QED BY <1>2, <2>2, HiddenIs DEF Exit, LayoutType
<1>3. ASSUME NEW g \in Guis, Kill(g) PROVE LayoutInv'
  BY <1>3, HiddenIs DEF Kill, LayoutType, Saved
<1>4. ASSUME NEW g \in Guis, NEW w \in WinType, win' = [win EXCEPT ![g] = w],
             UNCHANGED <<config, ini, last>>
      PROVE  LayoutInv'
  BY <1>4 DEF LayoutType, Saved
<1>5. ASSUME NEW g \in Guis, User(g) PROVE LayoutInv'
  <2>0. win[g] \in WinType /\ win \in [Guis -> WinType]
    BY DEF LayoutType
  <2>1. ASSUME NEW p \in Panes, OnFrame(g, p) PROVE LayoutInv'
    <3> DEFINE w == [win[g] EXCEPT !.shown = IF p \in @ THEN @ \ {p} ELSE @ \cup {p}]
    <3>1. w \in WinType
      BY <2>0 DEF WinType
    <3>2. win' = [win EXCEPT ![g] = w] /\ UNCHANGED <<config, ini, last>>
      BY <2>1 DEF OnFrame
    <3> QED BY <1>4, <3>1, <3>2
  <2>2. ASSUME NEW p \in Places, Move(g, p) PROVE LayoutInv'
    <3> DEFINE w == [win[g] EXCEPT !.place = p]
    <3>1. w \in WinType
      BY <2>0 DEF WinType
    <3>2. win' = [win EXCEPT ![g] = w] /\ UNCHANGED <<config, ini, last>>
      BY <2>2 DEF Move
    <3> QED BY <1>4, <3>1, <3>2
  <2>3. ASSUME Iconize(g) PROVE LayoutInv'
    <3> DEFINE w == [win[g] EXCEPT !.iconized = ~@]
    <3>1. w \in WinType
      BY <2>0 DEF WinType
    <3>2. win' = [win EXCEPT ![g] = w] /\ UNCHANGED <<config, ini, last>>
      BY <2>3 DEF Iconize
    <3> QED BY <1>4, <3>1, <3>2
  <2>4. ASSUME NEW l \in Lists, NEW v \in Widths, SizeColumn(g, l, v) PROVE LayoutInv'
    <3> DEFINE w == [win[g] EXCEPT !.width[l] = v]
    <3>1. w \in WinType
      <4>1. [win[g].width EXCEPT ![l] = v] \in WidthsType
        BY <2>0 DEF WinType, WidthsType
      <4> QED BY <2>0, <4>1 DEF WinType
    <3>2. win' = [win EXCEPT ![g] = w] /\ UNCHANGED <<config, ini, last>>
      BY <2>4 DEF SizeColumn
    <3> QED BY <1>4, <3>1, <3>2
  <2> QED BY <1>5, <2>1, <2>2, <2>3, <2>4 DEF User
<1>6. CASE UNCHANGED layout
  BY <1>6 DEF layout, LayoutType, Saved
<1>7. ASSUME NEW g \in Guis, Process(g) PROVE LayoutInv'
  BY <1>1, <1>2, <1>3, <1>7 DEF Process, InitDebugger, OnQuit, BoxAnswered
<1> QED BY <1>5, <1>6, <1>7 DEF Next, Debug, vars

LEMMA LayoutInvariant == Spec => []LayoutInv
<1>1. Init => LayoutInv
  BY HiddenIs DEF Init, LayoutInit, LayoutInv, LayoutType, Saved, Empty
<1> QED BY <1>1, LayoutStep, PTL DEF Spec

\* Any number of debuggers in one directory, killed or closed in any order: a
\* debugger starts with the panes and the column widths of the latest orderly
\* exit, and never at the coordinates of an iconized window.
THEOREM LayoutIsRestored == Spec => LayoutRestored
<1> DEFINE A == \A g \in Guis : g \in up' \ up =>
                  /\ win'[g].place # Offscreen
                  /\ IF last = Missing
                       THEN win'[g].shown = Usable /\ win'[g].width = [l \in Lists |-> Default]
                       ELSE win'[g].shown = last.shown /\ win'[g].width = last.width
<1>1. LayoutInv /\ [Next]_vars => [A]_layout
  <2> SUFFICES ASSUME LayoutInv, [Next]_vars, NEW g \in Guis, g \in up' \ up,
                      layout' # layout
               PROVE  /\ win'[g].place # Offscreen
                      /\ IF last = Missing
                           THEN win'[g].shown = Usable /\ win'[g].width = [l \in Lists |-> Default]
                           ELSE win'[g].shown = last.shown /\ win'[g].width = last.width
    OBVIOUS
  <2>1. PICK h \in Guis : Process(h) \/ User(h)
    BY DEF Next, Debug, vars
  <2>2. ~User(h)
    BY DEF User, OnFrame, Move, Iconize, SizeColumn
  <2>3. ~OnQuit(h) /\ ~BoxAnswered(h) /\ ~Kill(h)
    BY DEF OnQuit, BoxAnswered, Exit, Kill
  <2>4. PICK ok \in BOOLEAN : OnInit(h, ok)
    BY <2>1, <2>2, <2>3 DEF Process, InitDebugger
  <2> DEFINE w == LoadLayout(ini)
  <2>5. g = h /\ win'[g] = w
    BY <2>4 DEF OnInit, LayoutInv, LayoutType
  <2>6. ini \in ConfigType /\ w \in WinType
    BY LoadLayoutIs DEF LayoutInv, LayoutType
  <2>7. w.place # Offscreen
    BY <2>6, LayoutAssumption DEF WinType
  <2>8. w.shown = Read(ini.child, Usable) /\ w.width = LoadParams(ini)
    BY DEF LoadLayout, ShowUsableWindows
  <2>9. /\ LoadParams(ini) \in [Lists -> Widths]
        /\ \A l \in Lists : LoadParams(ini)[l] = Read(ini.width[l], Default)
    BY <2>6, LoadParamsIs DEF WidthsType
  <2>10. CASE last = Missing
    <3>1. ini.child = Missing /\ ini.width = [l \in Lists |-> Missing]
      BY <2>10 DEF LayoutInv, Saved
    <3>2. LoadParams(ini) = [l \in Lists |-> Default]
      BY <2>9, <3>1 DEF Read
    <3> QED BY <2>5, <2>7, <2>8, <2>10, <3>1, <3>2 DEF Read
  <2>11. CASE last # Missing
    <3>1. /\ ini.child = last.shown /\ ini.width = last.width
          /\ last.shown \in SUBSET Panes /\ last.width \in [Lists -> Widths]
      BY <2>11 DEF LayoutInv, LayoutType, Saved, WidthsType
    <3>2. ini.child # Missing /\ \A l \in Lists : ini.width[l] # Missing
      BY <3>1, LayoutAssumption
    <3>3. LoadParams(ini) = last.width
      BY <2>9, <3>1, <3>2 DEF Read
    <3> QED BY <2>5, <2>7, <2>8, <2>11, <3>1, <3>2, <3>3 DEF Read
  <2> QED BY <2>10, <2>11
<1> QED BY <1>1, LayoutInvariant, PTL DEF Spec, LayoutRestored

-----------------------------------------------------------------------------
\* Induction over the natural numbers, for a set, and what follows for the
\* recursive functions of the disassembly: each satisfies its equation.

LEMMA SetInduction ==
  ASSUME NEW S, 0 \in S, \A n \in Nat : n \in S => n + 1 \in S
  PROVE  \A n \in Nat : n \in S
<1> DEFINE T == {n \in Nat : n \notin S}
<1>1. SUFFICES ASSUME T # {} PROVE FALSE
  OBVIOUS
<1>2. PICK n \in T : \A y \in T : ~(<<y, n>> \in OpToRel(<, Nat))
  BY <1>1, WFMin, NatLessThanWellFounded
<1>3. \A y \in T : ~(y < n)
  BY <1>2 DEF OpToRel
<1>4. n \in Nat /\ n # 0
  OBVIOUS
<1>5. n - 1 \in Nat /\ n - 1 < n /\ (n - 1) + 1 = n
  BY <1>4
<1>6. n - 1 \in S
  BY <1>3, <1>5
<1> QED BY <1>5, <1>6

\* The lengths GetCmdCount adds up.
Added(addr, x) == x + InstrDecode[addr + x]
Sums(addr, g, D) == g = [k \in D |-> IF k = 0 THEN 0 ELSE Added(addr, g[k - 1])]

LEMMA SumsExist ==
  ASSUME NEW addr
  PROVE  \E g : Sums(addr, g, Nat)
<1> DEFINE S == {n \in Nat : \E g : Sums(addr, g, 0 .. n)}
<1>1. 0 \in S
  <2>1. [k \in 0 .. 0 |-> 0] = [k \in 0 .. 0 |-> IF k = 0 THEN 0 ELSE Added(addr, [j \in 0 .. 0 |-> 0][k - 1])]
    OBVIOUS
  <2> QED BY <2>1 DEF Sums
<1>2. ASSUME NEW n \in Nat, n \in S PROVE n + 1 \in S
  <2>1. PICK g : Sums(addr, g, 0 .. n)
    BY <1>2
  <2> DEFINE h == [k \in 0 .. n + 1 |-> IF k = n + 1 THEN Added(addr, g[n]) ELSE g[k]]
  <2>2. ASSUME NEW k \in 0 .. n + 1
        PROVE  h[k] = IF k = 0 THEN 0 ELSE Added(addr, h[k - 1])
    <3>1. CASE k = n + 1
      <4>1. k # 0 /\ k - 1 = n /\ n \in 0 .. n + 1 /\ n # n + 1
        BY <3>1
      <4>2. h[n] = g[n]
        BY <4>1
      <4> QED BY <3>1, <4>1, <4>2
    <3>2. CASE k # n + 1
      <4>1. k \in 0 .. n /\ h[k] = g[k]
        BY <3>2
      <4>2. g[k] = IF k = 0 THEN 0 ELSE Added(addr, g[k - 1])
        BY <2>1, <4>1 DEF Sums
      <4>3. k # 0 => h[k - 1] = g[k - 1]
        BY <4>1
      <4> QED BY <4>1, <4>2, <4>3
    <3> QED BY <3>1, <3>2
  <2>3. h = [k \in 0 .. n + 1 |-> h[k]]
    OBVIOUS
  <2> HIDE DEF h
  <2>4. Sums(addr, h, 0 .. n + 1)
    BY <2>2, <2>3 DEF Sums
  <2> QED BY <2>4
<1>3. \A n \in Nat : n \in S
  <2> HIDE DEF S
  <2> QED BY <1>1, <1>2, SetInduction
<1>4. ASSUME NEW m \in Nat, NEW n \in Nat, NEW g, NEW h, Sums(addr, g, 0 .. m), Sums(addr, h, 0 .. n)
      PROVE  \A k \in Nat : k <= m /\ k <= n => g[k] = h[k]
  <2> DEFINE E == {k \in Nat : k <= m /\ k <= n => g[k] = h[k]}
  <2>1. 0 \in E
    BY <1>4 DEF Sums
  <2>2. ASSUME NEW k \in Nat, k \in E PROVE k + 1 \in E
    <3>1. SUFFICES ASSUME k + 1 <= m, k + 1 <= n PROVE g[k + 1] = h[k + 1]
      OBVIOUS
    <3>2. g[k] = h[k]
      BY <2>2, <3>1
    <3>3. k + 1 \in 0 .. m /\ k + 1 \in 0 .. n /\ k + 1 # 0 /\ (k + 1) - 1 = k
      BY <3>1
    <3>4. g[k + 1] = Added(addr, g[k]) /\ h[k + 1] = Added(addr, h[k])
      BY <1>4, <3>3 DEF Sums
    <3> QED BY <3>2, <3>4
  <2>3. \A k \in Nat : k \in E
    <3> HIDE DEF E
    <3> QED BY <2>1, <2>2, SetInduction
  <2> QED BY <2>3
<1> DEFINE G(n) == CHOOSE g : Sums(addr, g, 0 .. n)
           f == [k \in Nat |-> G(k)[k]]
<1>5. \A n \in Nat : Sums(addr, G(n), 0 .. n)
  BY <1>3
<1> HIDE DEF G
<1>6. ASSUME NEW k \in Nat PROVE f[k] = IF k = 0 THEN 0 ELSE Added(addr, f[k - 1])
  <2>1. f[k] = G(k)[k] /\ k \in 0 .. k
    OBVIOUS
  <2>2. G(k)[k] = IF k = 0 THEN 0 ELSE Added(addr, G(k)[k - 1])
    BY <1>5, <2>1 DEF Sums
  <2>3. ASSUME k # 0 PROVE G(k)[k - 1] = f[k - 1]
    <3>1. k - 1 \in Nat /\ k - 1 <= k /\ k - 1 <= k - 1
      BY <2>3
    <3>2. G(k)[k - 1] = G(k - 1)[k - 1]
      BY <1>4, <1>5, <3>1
    <3> QED BY <3>1, <3>2
  <2> QED BY <2>1, <2>2, <2>3
<1>7. f = [k \in Nat |-> f[k]]
  OBVIOUS
<1> HIDE DEF f
<1>8. Sums(addr, f, Nat)
  BY <1>6, <1>7 DEF Sums
<1> QED BY <1>8

\* What the first pass of the disassembly at e has counted, n instructions:
\* each begins among the bytes asked for and has a length, so all of them are
\* in the bytes that were read.
Counted(e, g, n) ==
  /\ Sums(e, g, Nat) /\ n \in Nat
  /\ \A j \in 0 .. n - 1 : g[j] < Size /\ InstrDecode[e + g[j]] > 0

LEMMA CountedIs ==
  ASSUME NEW e
  PROVE  \E g : Counted(e, g, GetCmdCount(e, Size + Slack))
<1> DEFINE i == Offset(e)
           size == Size + Slack
           n == GetCmdCount(e, size)
<1>1. Sums(e, i, Nat)
  BY SumsExist DEF Sums, Added, Offset
<1>2. n = 0 \/ n \in Counts(e, size)
  BY DEF GetCmdCount
<1> HIDE DEF i, n
<1>3. size - Slack = Size /\ size \in Nat
  BY CpuAssumption
<1>4. CASE n = 0
  BY <1>1, <1>4 DEF Counted, n
<1>5. CASE n \in Counts(e, size)
  <2>1. n \in Nat /\ \A j \in 0 .. n - 1 : i[j] < Size /\ InstrDecode[e + i[j]] > 0
    BY <1>3, <1>5 DEF Counts, i
  <2> QED BY <1>1, <2>1 DEF Counted, n
<1> QED BY <1>2, <1>4, <1>5

\* The instructions that were counted lie in the bytes that were read.
LEMMA CountedInMemory ==
  ASSUME NEW e \in Eips, NEW g, NEW n, Counted(e, g, n)
  PROVE  \A k \in 0 .. n :
           /\ g[k] \in Nat /\ g[k] < Size + Slack /\ e + g[k] \in Memory
           /\ k < n => g[k] < Size /\ InstrDecode[e + g[k]] \in 1 .. Slack
           /\ k < n => g[k + 1] = g[k] + InstrDecode[e + g[k]]
<1> DEFINE P(k) == k <= n => g[k] \in Nat /\ g[k] < Size + Slack
           S == {k \in Nat : P(k)}
<1> USE CpuAssumption
<1>0. n \in Nat /\ e \in Nat /\ \A x \in Nat : x < Size + Slack => e + x \in Memory
  <2>1. n \in Nat /\ e \in Nat
    BY DEF Counted
  <2>2. ASSUME NEW x \in Nat, x < Size + Slack PROVE e + x \in Memory
    <3>1. e + x \in e .. e + Size + Slack - 1
      BY <2>1, <2>2
    <3> QED BY <3>1
  <2> QED BY <2>1, <2>2
<1>1. g[0] = 0 /\ \A k \in Nat : g[k + 1] = Added(e, g[k])
  <2>1. \A k \in Nat : g[k] = IF k = 0 THEN 0 ELSE Added(e, g[k - 1])
    BY DEF Counted, Sums
  <2>2. ASSUME NEW k \in Nat PROVE g[k + 1] = Added(e, g[k])
    <3>1. k + 1 \in Nat /\ k + 1 # 0 /\ (k + 1) - 1 = k
      OBVIOUS
    <3> QED BY <2>1, <3>1
  <2> QED BY <2>1, <2>2
<1>2. ASSUME NEW k \in Nat, k < n, g[k] \in Nat, g[k] < Size + Slack
      PROVE  g[k] < Size /\ InstrDecode[e + g[k]] \in 1 .. Slack
             /\ g[k + 1] = g[k] + InstrDecode[e + g[k]]
  <2>1. k \in 0 .. n - 1 /\ e + g[k] \in Memory
    BY <1>0, <1>2
  <2>2. g[k] < Size /\ InstrDecode[e + g[k]] > 0
    BY <2>1 DEF Counted
  <2>3. InstrDecode[e + g[k]] \in 0 .. Slack
    BY <2>1
  <2> QED BY <1>1, <2>2, <2>3 DEF Added
<1>3. 0 \in S
  BY <1>1
<1>4. ASSUME NEW k \in Nat, k \in S PROVE k + 1 \in S
  <2>1. SUFFICES ASSUME k + 1 <= n PROVE g[k + 1] \in Nat /\ g[k + 1] < Size + Slack
    OBVIOUS
  <2>2. k < n /\ g[k] \in Nat /\ g[k] < Size + Slack
    BY <1>0, <1>4, <2>1
  <2> HIDE DEF P, S
  <2>3. PICK l \in 1 .. Slack : l = InstrDecode[e + g[k]]
    BY <1>2, <2>2
  <2>4. g[k] < Size /\ g[k + 1] = g[k] + l
    BY <1>2, <2>2, <2>3
  <2> QED BY <2>2, <2>4
<1>5. \A k \in Nat : k \in S
  <2> HIDE DEF S
  <2> QED BY <1>3, <1>4, SetInduction
<1>6. ASSUME NEW k \in 0 .. n PROVE k \in Nat /\ g[k] \in Nat /\ g[k] < Size + Slack
  BY <1>0, <1>5
<1> HIDE DEF S, P
<1> QED BY <1>0, <1>2, <1>6

\* The loop of the disassembly satisfies its equation.
DasmStart(addr, left) == [rows |-> << >>, left |-> left, at |-> addr]
Turns(addr, left, d, n) ==
  d = [k \in 0 .. n |-> IF k = 0 THEN DasmStart(addr, left) ELSE DasmTurn(d[k - 1])]

LEMMA TurnsExist ==
  ASSUME NEW addr, NEW left
  PROVE  \A n \in Nat : \E d : Turns(addr, left, d, n)
<1> DEFINE S == {n \in Nat : \E d : Turns(addr, left, d, n)}
<1>1. 0 \in S
  <2> DEFINE d == [k \in 0 .. 0 |-> DasmStart(addr, left)]
  <2>1. d = [k \in 0 .. 0 |-> IF k = 0 THEN DasmStart(addr, left) ELSE DasmTurn(d[k - 1])]
    OBVIOUS
  <2> QED BY <2>1 DEF Turns
<1>2. ASSUME NEW n \in Nat, n \in S PROVE n + 1 \in S
  <2>1. PICK g : Turns(addr, left, g, n)
    BY <1>2
  <2> DEFINE h == [k \in 0 .. n + 1 |-> IF k = n + 1 THEN DasmTurn(g[n]) ELSE g[k]]
  <2>2. ASSUME NEW k \in 0 .. n + 1
        PROVE  h[k] = IF k = 0 THEN DasmStart(addr, left) ELSE DasmTurn(h[k - 1])
    <3>1. CASE k = n + 1
      <4>1. k # 0 /\ k - 1 = n /\ n \in 0 .. n + 1 /\ n # n + 1
        BY <3>1
      <4>2. h[n] = g[n]
        BY <4>1
      <4> QED BY <3>1, <4>1, <4>2
    <3>2. CASE k # n + 1
      <4>1. k \in 0 .. n /\ h[k] = g[k]
        BY <3>2
      <4>2. g[k] = IF k = 0 THEN DasmStart(addr, left) ELSE DasmTurn(g[k - 1])
        BY <2>1, <4>1 DEF Turns
      <4>3. k # 0 => h[k - 1] = g[k - 1]
        BY <4>1
      <4> QED BY <4>1, <4>2, <4>3
    <3> QED BY <3>1, <3>2
  <2>3. h = [k \in 0 .. n + 1 |-> h[k]]
    OBVIOUS
  <2> HIDE DEF h
  <2>4. Turns(addr, left, h, n + 1)
    BY <2>2, <2>3 DEF Turns
  <2> QED BY <2>4
<1> HIDE DEF S
<1>3. \A n \in Nat : n \in S
  BY <1>1, <1>2, SetInduction
<1> QED BY <1>3 DEF S

LEMMA DasmLoopIs ==
  ASSUME NEW addr, NEW left, NEW n \in Nat
  PROVE  /\ DasmLoop(addr, left, n)[0] = DasmStart(addr, left)
         /\ \A k \in 1 .. n : DasmLoop(addr, left, n)[k] = DasmTurn(DasmLoop(addr, left, n)[k - 1])
<1> DEFINE d == DasmLoop(addr, left, n)
<1>1. Turns(addr, left, d, n)
  BY TurnsExist DEF Turns, DasmLoop, DasmStart
<1> HIDE DEF d
<1>2. \A k \in 0 .. n : d[k] = IF k = 0 THEN DasmStart(addr, left) ELSE DasmTurn(d[k - 1])
  BY <1>1 DEF Turns
<1> QED BY <1>2 DEF d

\* One instruction.
Bare == {a \in Memory : ~HasSpace[a]}
Row == {Disasm(a, l).row : a \in Memory, l \in Seq(Bare)}

LEMMA DisasmIs ==
  ASSUME NEW a \in Memory, NEW l \in Seq(Bare)
  PROVE  /\ Disasm(a, l).row \in Row
         /\ Disasm(a, l).row.of = a /\ Disasm(a, l).row.len = InstrDecode[a]
         /\ Disasm(a, l).row.text = Format(a)
         /\ OwnText(Disasm(a, l).row)
         /\ l = << >> => Len(Disasm(a, l).row.hex) <= 1
         /\ Disasm(a, l).left \in Seq(Bare)
         /\ HasSpace[a] => Disasm(a, l).left = << >>
<1> DEFINE r == Disasm(a, l).row
           h == Append(l, a)
<1>1. Disasm(a, l).row \in Row
  BY DEF Row
<1>2. << >> \in Seq(Bare) /\ Len(<< >>) = 0
  OBVIOUS
<1>3. r.of = a /\ r.len = InstrDecode[a] /\ r.text = Format(a)
  BY DEF Disasm
<1>4. CASE HasSpace[a]
  <2>1. r.hex = h /\ Disasm(a, l).left = << >>
    BY <1>4 DEF Disasm
  <2>2. /\ Len(l) \in Nat /\ Len(h) = Len(l) + 1 /\ h[Len(l) + 1] = a /\ h # << >>
        /\ \A j \in 1 .. Len(l) : h[j] = l[j] /\ l[j] \in Bare
        /\ l = << >> => Len(l) = 0
    OBVIOUS
  <2> HIDE DEF r, h
  <2>3. \A j \in 1 .. Len(h) - 1 : ~HasSpace[h[j]]
    BY <2>2 DEF Bare
  <2>4. OwnText(r)
    BY <1>3, <1>4, <2>1, <2>2, <2>3 DEF OwnText
  <2> QED BY <1>1, <1>2, <1>3, <2>1, <2>2, <2>4 DEF r
<1>5. CASE ~HasSpace[a]
  <2>1. r.hex = << >> /\ Disasm(a, l).left = h
    BY <1>5 DEF Disasm
  <2>2. h \in Seq(Bare)
    BY <1>5 DEF Bare
  <2> HIDE DEF r
  <2>3. OwnText(r)
    BY <1>3, <1>5, <2>1 DEF OwnText
  <2> QED BY <1>1, <1>2, <1>3, <1>5, <2>1, <2>2, <2>3 DEF r
<1> QED BY <1>4, <1>5

\* What k turns of the disassembly at e have made, where g are the lengths
\* that were counted.
Texts(rs, j) ==
  OwnText(rs[j]) /\ (j > 1 /\ HasSpace[rs[j - 1].of] => Len(rs[j].hex) <= 1)
Done(e, g, d, k) ==
  /\ d.at = e + g[k]
  /\ d.left \in Seq(Bare)
  /\ k > 0 /\ HasSpace[e + g[k - 1]] => d.left = << >>
  /\ d.rows \in Seq(Row) /\ Len(d.rows) = k
  /\ \A j \in 1 .. k : /\ d.rows[j].of = e + g[j - 1]
                       /\ d.rows[j].len = InstrDecode[e + g[j - 1]]
                       /\ Texts(d.rows, j)

LEMMA TurnDone ==
  ASSUME NEW e \in Eips, NEW g, NEW n \in Nat, Counted(e, g, n), NEW k \in 0 .. n, k < n,
         NEW d, Done(e, g, d, k)
  PROVE  Done(e, g, DasmTurn(d), k + 1)
<1> DEFINE a == e + g[k]
           l == d.left
           one == Disasm(a, l)
           r == one.row
           rs == Append(d.rows, r)
           t == DasmTurn(d)
<1>1. a \in Memory /\ l \in Seq(Bare) /\ d.at = a /\ d.rows \in Seq(Row) /\ Len(d.rows) = k
  BY CountedInMemory DEF Done
<1>2. k \in Nat /\ (k + 1) - 1 = k /\ k + 1 > 0
  OBVIOUS
<1>3. g[k] \in Nat /\ e \in Nat /\ InstrDecode[a] \in Nat /\ g[k + 1] = g[k] + InstrDecode[a]
  BY CountedInMemory, CpuAssumption
<1>4. t.rows = rs /\ t.left = one.left /\ t.at = a + r.len
  BY <1>1 DEF DasmTurn
<1>5. /\ r \in Row /\ r.of = a /\ r.len = InstrDecode[a]
      /\ one.left \in Seq(Bare) /\ (HasSpace[a] => one.left = << >>)
      /\ OwnText(r) /\ (l = << >> => Len(r.hex) <= 1)
  BY <1>1, DisasmIs
<1> HIDE DEF r, one, t, Row
<1>6. /\ rs \in Seq(Row) /\ Len(rs) = k + 1 /\ rs[k + 1] = r
      /\ \A j \in 1 .. k : rs[j] = d.rows[j]
  BY <1>1, <1>2, <1>5, AppendProperties
<1> HIDE DEF rs
<1>7. t.at = e + g[k + 1]
  <2>1. t.at = (e + g[k]) + InstrDecode[a]
    BY <1>4, <1>5
  <2> HIDE DEF a
  <2> QED BY <1>3, <2>1
<1>9. ASSUME NEW j \in 1 .. k
      PROVE  rs[j].of = e + g[j - 1] /\ rs[j].len = InstrDecode[e + g[j - 1]] /\ Texts(rs, j)
  <2>1. rs[j] = d.rows[j] /\ (j > 1 => j - 1 \in 1 .. k /\ rs[j - 1] = d.rows[j - 1])
    BY <1>6
  <2>2. d.rows[j].of = e + g[j - 1] /\ d.rows[j].len = InstrDecode[e + g[j - 1]] /\ Texts(d.rows, j)
    BY DEF Done
  <2> HIDE DEF a, l
  <2> QED BY <2>1, <2>2 DEF Texts
<1>10. rs[k + 1].of = e + g[k] /\ rs[k + 1].len = InstrDecode[e + g[k]]
  BY <1>5, <1>6
<1>11. Texts(rs, k + 1)
  <2>1. SUFFICES ASSUME k + 1 > 1, HasSpace[rs[k + 1 - 1].of] PROVE l = << >>
    BY <1>5, <1>6 DEF Texts
  <2>2. k > 0 /\ k \in 1 .. k /\ k + 1 - 1 = k
    BY <1>2, <2>1
  <2>3. rs[k].of = e + g[k - 1]
    BY <1>9, <2>2
  <2> QED BY <2>1, <2>2, <2>3 DEF Done
<1>12. \A j \in 1 .. k + 1 : rs[j].of = e + g[j - 1] /\ rs[j].len = InstrDecode[e + g[j - 1]] /\ Texts(rs, j)
  <2>1. \A j \in 1 .. k + 1 : j \in 1 .. k \/ j = k + 1
    OBVIOUS
  <2> QED BY <1>2, <1>9, <1>10, <1>11, <2>1
<1>13. HasSpace[e + g[k + 1 - 1]] => t.left = << >>
  BY <1>2, <1>4, <1>5
<1> QED BY <1>2, <1>4, <1>5, <1>6, <1>7, <1>12, <1>13 DEF Done, t

LEMMA DasmDone ==
  ASSUME NEW e \in Eips, NEW left \in Seq(Bare)
  PROVE  \E g, n : Counted(e, g, n) /\ Done(e, g, DasmDisasmCmd(e, left), n)
<1> DEFINE n == GetCmdCount(e, Size + Slack)
           d == DasmLoop(e, left, n)
<1>1. PICK g : Counted(e, g, n)
  BY CountedIs
<1>2. n \in Nat /\ g[0] = 0 /\ e \in Nat
  BY <1>1, CpuAssumption DEF Counted, Sums
<1>3. DasmDisasmCmd(e, left) = d[n]
  BY DEF DasmDisasmCmd
<1> HIDE DEF n
<1>4. d[0] = DasmStart(e, left) /\ \A k \in 1 .. n : d[k] = DasmTurn(d[k - 1])
  BY <1>2, DasmLoopIs
<1> HIDE DEF d
<1> DEFINE S == {k \in Nat : k <= n => Done(e, g, d[k], k)}
<1>5. 0 \in S
  <2>1. << >> \in Seq(Row) /\ Len(<< >>) = 0
    OBVIOUS
  <2> HIDE DEF Row
  <2>2. d[0].at = e /\ d[0].left = left /\ d[0].rows = << >>
    BY <1>4 DEF DasmStart
  <2>3. Done(e, g, d[0], 0)
    BY <1>2, <2>1, <2>2 DEF Done
  <2> QED BY <2>3
<1>6. ASSUME NEW k \in Nat, k \in S PROVE k + 1 \in S
  <2>1. SUFFICES ASSUME k + 1 <= n PROVE Done(e, g, d[k + 1], k + 1)
    OBVIOUS
  <2>2. k < n /\ k \in 0 .. n /\ k + 1 \in 1 .. n /\ (k + 1) - 1 = k
    BY <1>2, <2>1
  <2>3. Done(e, g, d[k], k)
    BY <1>6, <2>2
  <2>4. d[k + 1] = DasmTurn(d[k])
    BY <1>4, <2>2
  <2> HIDE DEF S
  <2> QED BY <1>1, <1>2, <2>2, <2>3, <2>4, TurnDone
<1>7. \A k \in Nat : k \in S
  <2> HIDE DEF S
  <2> QED BY <1>5, <1>6, SetInduction
<1>8. Done(e, g, d[n], n)
  BY <1>2, <1>7
<1> QED BY <1>1, <1>3, <1>8

\* RowsAreCode, of rows rs.
Code(rs) ==
  /\ rs # << >> =>
       /\ rs[1].of \in Eips
       /\ \A i \in 1 .. Len(rs) - 1 : rs[i + 1].of = rs[i].of + rs[i].len
       /\ \A i \in DOMAIN rs : rs[i].len > 0
       /\ rs[Len(rs)].of + rs[Len(rs)].len - rs[1].of <= Size + Slack
  /\ \A i \in DOMAIN rs : Texts(rs, i)

LEMMA DoneIsCode ==
  ASSUME NEW e \in Eips, NEW g, NEW n, Counted(e, g, n), NEW d, Done(e, g, d, n), NEW rs, rs = d.rows
  PROVE  Code(rs)
<1>1. n \in Nat /\ e \in Nat /\ rs \in Seq(Row) /\ Len(rs) = n /\ DOMAIN rs = 1 .. n
  BY CpuAssumption DEF Counted, Done
<1> HIDE DEF Row
<1>2. ASSUME NEW j \in 1 .. n
      PROVE  /\ j - 1 \in 0 .. n /\ g[j - 1] \in Nat /\ g[j - 1] < Size
             /\ InstrDecode[e + g[j - 1]] \in 1 .. Slack
             /\ g[j] = g[j - 1] + InstrDecode[e + g[j - 1]]
             /\ rs[j].of = e + g[j - 1] /\ rs[j].len = InstrDecode[e + g[j - 1]]
  <2>1. j - 1 \in 0 .. n /\ j - 1 < n /\ (j - 1) + 1 = j
    BY <1>1
  <2>2. rs[j].of = e + g[j - 1] /\ rs[j].len = InstrDecode[e + g[j - 1]]
    BY DEF Done
  <2>3. PICK k \in 0 .. n : k = j - 1
    BY <2>1
  <2>4. /\ g[k] \in Nat /\ g[k] < Size /\ InstrDecode[e + g[k]] \in 1 .. Slack
        /\ g[k + 1] = g[k] + InstrDecode[e + g[k]]
    BY <2>1, <2>3, CountedInMemory
  <2> QED BY <2>1, <2>2, <2>3, <2>4
<1>3. \A i \in DOMAIN rs : Texts(rs, i)
  BY <1>1 DEF Done
<1>4. ASSUME NEW i \in 1 .. n - 1 PROVE rs[i + 1].of = rs[i].of + rs[i].len
  <2>1. i \in 1 .. n /\ i + 1 \in 1 .. n /\ (i + 1) - 1 = i
    BY <1>1
  <2>2. PICK x \in Nat, l \in 1 .. Slack :
          x = g[i - 1] /\ l = InstrDecode[e + g[i - 1]] /\ g[i] = x + l
          /\ rs[i].of = e + x /\ rs[i].len = l
    BY <1>2, <2>1
  <2>3. rs[i + 1].of = e + g[i]
    BY <1>2, <2>1
  <2> QED BY <1>1, <2>2, <2>3
<1>5. \A i \in 1 .. n : rs[i].len > 0
  <2> SUFFICES ASSUME NEW i \in 1 .. n PROVE rs[i].len > 0
    OBVIOUS
  <2>1. rs[i].len \in 1 .. Slack
    BY <1>2
  <2> QED BY <2>1, CpuAssumption
<1>6. n > 0 => rs[1].of = e /\ rs[n].of + rs[n].len - rs[1].of <= Size + Slack
  <2> SUFFICES ASSUME n > 0
               PROVE  rs[1].of = e /\ rs[n].of + rs[n].len - rs[1].of <= Size + Slack
    OBVIOUS
  <2>1. n \in 1 .. n /\ 1 \in 1 .. n /\ 1 - 1 = 0
    BY <1>1
  <2>2. PICK x \in Nat, l \in 1 .. Slack : x < Size /\ rs[n].of = e + x /\ rs[n].len = l
    BY <1>2, <2>1
  <2>3. g[0] = 0
    BY DEF Counted, Sums
  <2>4. rs[1].of = e
    BY <1>1, <1>2, <2>1, <2>3
  <2> QED BY <1>1, <2>2, <2>4, CpuAssumption
<1>7. rs # << >> => n > 0
  BY <1>1
<1> QED BY <1>1, <1>3, <1>4, <1>5, <1>6, <1>7 DEF Code

LEMMA NoRowsAreCode == rows = << >> => RowsAreCode
BY DEF RowsAreCode, DecodeInBuffer, RowsOwnText

\* What waits in the CPU frame's queue.
Stops == [tid : TIDs, eip : Eips, sid : Nat, mod : BOOLEAN]

\* The rows are code, the text that is left is that of instructions without a
\* space, and the stops to be shown are stops.
CodeInv ==
  /\ RowsAreCode
  /\ str_hex \in Seq(Bare)
  /\ posted \in Seq(Stops) /\ sid \in Nat

LEMMA CodeStep == CodeInv /\ [Next]_vars => CodeInv'
<1> SUFFICES ASSUME CodeInv, [Next]_vars PROVE CodeInv'
  OBVIOUS
<1>1. CASE UNCHANGED <<rows, str_hex, posted>> /\ sid' \in Nat
  BY <1>1 DEF CodeInv, RowsAreCode, DecodeInBuffer, RowsOwnText, OwnText
<1>2. CASE CpuReset
  <2>1. rows' = << >> /\ str_hex' = << >> /\ posted' = << >> /\ sid' = 0
    BY <1>2 DEF CpuReset
  <2>2. << >> \in Seq(Bare) /\ << >> \in Seq(Stops)
    OBVIOUS
  <2>3. RowsAreCode'
    BY <2>1 DEF RowsAreCode, DecodeInBuffer, RowsOwnText
  <2> QED BY <2>1, <2>2, <2>3 DEF CodeInv
<1>3. ASSUME NEW t \in TIDs, NEW e \in Eips, NEW m \in BOOLEAN, Stop(t, e, m) PROVE CodeInv'
  <2>1. PICK v \in Stops : v = event'
    BY <1>3 DEF Stop, Stops, CodeInv
  <2>2. posted' = Append(posted, v) /\ UNCHANGED <<rows, str_hex, sid>>
    BY <1>3, <2>1 DEF Stop
  <2>3. posted' \in Seq(Stops)
    BY <2>2, AppendProperties DEF CodeInv
  <2>4. RowsAreCode'
    BY <2>2 DEF CodeInv, RowsAreCode, DecodeInBuffer, RowsOwnText, OwnText
  <2> QED BY <2>2, <2>3, <2>4 DEF CodeInv
<1>4. ASSUME NEW r \in BOOLEAN, AddItem(r) PROVE CodeInv'
  <2>1. Head(posted) \in Stops /\ posted' \in Seq(Stops) /\ sid' = sid
    BY <1>4, HeadTailProperties DEF AddItem, CodeInv
  <2>2. PICK e \in Eips : e = Head(posted).eip
    BY <2>1 DEF Stops
  <2> DEFINE read == r /\ Known(Head(posted).sid)
  <2>3. CASE read
    <3>1. PICK d : d = DasmDisasmCmd(e, str_hex)
      OBVIOUS
    <3>2. rows' = d.rows /\ str_hex' = d.left
      BY <1>4, <2>2, <2>3, <3>1 DEF AddItem
    <3>3. PICK g, n : Counted(e, g, n) /\ Done(e, g, d, n)
      BY <3>1, DasmDone DEF CodeInv
    <3>4. Code(rows')
      BY <3>2, <3>3, DoneIsCode
    <3>5. RowsAreCode'
      BY <3>4 DEF Code, Texts, OwnText, RowsAreCode, DecodeInBuffer, RowsOwnText
    <3>6. str_hex' \in Seq(Bare)
      BY <3>2, <3>3 DEF Done
    <3> QED BY <2>1, <3>5, <3>6 DEF CodeInv
  <2>4. CASE ~read
    <3>1. rows' = << >> /\ str_hex' = str_hex
      BY <1>4, <2>4 DEF AddItem
    <3>2. RowsAreCode'
      BY <3>1 DEF RowsAreCode, DecodeInBuffer, RowsOwnText
    <3> QED BY <2>1, <3>1, <3>2 DEF CodeInv
  <2> QED BY <2>3, <2>4
<1>5. CASE OnOpenModule
  <2>1. UNCHANGED <<rows, str_hex, posted>> /\ sid' \in Nat
    BY <1>5 DEF OnOpenModule, CodeInv
  <2> QED BY <1>1, <2>1
<1>6. CASE UNCHANGED <<rows, str_hex, posted, sid>>
  BY <1>1, <1>6 DEF CodeInv
<1>7. CASE CpuNext
  BY <1>3, <1>4, <1>5, <1>6, <1>7
     DEF CpuNext, OnRightClick, OnToggleBP, Dismiss, OnMsgBP, OnAddBP, Terminate
<1>8. ASSUME NEW g \in Guis, Process(g) \/ User(g) PROVE CodeInv'
  BY <1>2, <1>6, <1>8 DEF Process, User, cpu
<1> QED BY <1>6, <1>7, <1>8 DEF Next, Debug, vars, cpu

\* Any code, any number of bytes asked for, any number of stops: the second
\* decoding pass of DasmDisasmCmd, which trusts the count of GetCmdCount, stays
\* in the bytes that were read, its rows begin at a stop and follow each other
\* without a gap, and each shows its own hex digits, after those of
\* instructions without a space only.
THEOREM RowsAreTheCode == Spec => []RowsAreCode
<1>1. Init => CodeInv
  <2> SUFFICES ASSUME Init PROVE CodeInv
    OBVIOUS
  <2>1. rows = << >> /\ str_hex = << >> /\ posted = << >> /\ sid = 0
    BY DEF Init, CpuInit
  <2>2. << >> \in Seq(Bare) /\ << >> \in Seq(Stops)
    OBVIOUS
  <2> QED BY <2>1, <2>2, NoRowsAreCode DEF CodeInv
<1>2. CodeInv => RowsAreCode
  BY DEF CodeInv
<1> QED BY <1>1, <1>2, CodeStep, PTL DEF Spec

-----------------------------------------------------------------------------
\* The digits of an address.

\* A recursive function over the natural numbers satisfies its equation, for a
\* step that is a function on a set.
Iterates(d, D, x0, F) == d = [k \in D |-> IF k = 0 THEN x0 ELSE F[<<k, d[k - 1]>>]]

LEMMA IteratesExist ==
  ASSUME NEW X, NEW x0 \in X, NEW F \in [Nat \X X -> X]
  PROVE  \E d \in [Nat -> X] : Iterates(d, Nat, x0, F)
<1> DEFINE Seg(g, n) == g \in [0 .. n -> X] /\ Iterates(g, 0 .. n, x0, F)
           S == {n \in Nat : \E g : Seg(g, n)}
<1>1. 0 \in S
  <2> DEFINE g == [k \in 0 .. 0 |-> x0]
  <2>1. g \in [0 .. 0 -> X] /\ g = [k \in 0 .. 0 |-> IF k = 0 THEN x0 ELSE F[<<k, g[k - 1]>>]]
    OBVIOUS
  <2> QED BY <2>1 DEF Iterates
<1>2. ASSUME NEW n \in Nat, n \in S PROVE n + 1 \in S
  <2>1. PICK g : Seg(g, n)
    BY <1>2
  <2> DEFINE h == [k \in 0 .. n + 1 |-> IF k = n + 1 THEN F[<<n + 1, g[n]>>] ELSE g[k]]
  <2>2. \A k \in 0 .. n : g[k] \in X /\ g[k] = IF k = 0 THEN x0 ELSE F[<<k, g[k - 1]>>]
    BY <2>1 DEF Iterates
  <2>3. n \in 0 .. n /\ n + 1 \in Nat /\ n + 1 # 0 /\ n + 1 - 1 = n
    OBVIOUS
  <2>4. F[<<n + 1, g[n]>>] \in X
    BY <2>2, <2>3
  <2>5. ASSUME NEW k \in 0 .. n + 1
        PROVE  h[k] \in X /\ h[k] = IF k = 0 THEN x0 ELSE F[<<k, h[k - 1]>>]
    <3>1. CASE k = n + 1
      <4>1. h[n] = g[n] /\ h[k] = F[<<k, g[n]>>] /\ k # 0 /\ k - 1 = n
        BY <2>3, <3>1
      <4> HIDE DEF h
      <4> QED BY <2>4, <3>1, <4>1
    <3>2. CASE k # n + 1
      <4>1. k \in 0 .. n /\ h[k] = g[k] /\ (k # 0 => h[k - 1] = g[k - 1])
        BY <3>2
      <4> HIDE DEF h
      <4> QED BY <2>2, <4>1
    <3> QED BY <3>1, <3>2
  <2>6. h = [k \in 0 .. n + 1 |-> h[k]]
    OBVIOUS
  <2> HIDE DEF h
  <2>7. h \in [0 .. n + 1 -> X]
    BY <2>5, <2>6
  <2>8. Iterates(h, 0 .. n + 1, x0, F)
    BY <2>5, <2>6 DEF Iterates
  <2> QED BY <2>7, <2>8
<1>3. \A n \in Nat : n \in S
  <2> HIDE DEF S
  <2> QED BY <1>1, <1>2, SetInduction
<1>4. ASSUME NEW m \in Nat, NEW n \in Nat, NEW g, NEW h, Seg(g, m), Seg(h, n)
      PROVE  \A k \in Nat : k <= m /\ k <= n => g[k] = h[k]
  <2> DEFINE E == {k \in Nat : k <= m /\ k <= n => g[k] = h[k]}
  <2>1. 0 \in E
    BY <1>4 DEF Iterates
  <2>2. ASSUME NEW k \in Nat, k \in E PROVE k + 1 \in E
    <3>1. SUFFICES ASSUME k + 1 <= m, k + 1 <= n PROVE g[k + 1] = h[k + 1]
      OBVIOUS
    <3>2. g[k] = h[k]
      BY <2>2, <3>1
    <3>3. k + 1 \in 0 .. m /\ k + 1 \in 0 .. n /\ k + 1 # 0 /\ (k + 1) - 1 = k
      BY <3>1
    <3>4. g[k + 1] = F[<<k + 1, g[k]>>] /\ h[k + 1] = F[<<k + 1, h[k]>>]
      BY <1>4, <3>3 DEF Iterates
    <3> QED BY <3>2, <3>4
  <2>3. \A k \in Nat : k \in E
    <3> HIDE DEF E
    <3> QED BY <2>1, <2>2, SetInduction
  <2> QED BY <2>3
<1> DEFINE G(n) == CHOOSE g : Seg(g, n)
           f == [k \in Nat |-> G(k)[k]]
<1>5. \A n \in Nat : Seg(G(n), n)
  BY <1>3
<1> HIDE DEF G
<1>6. ASSUME NEW k \in Nat PROVE f[k] \in X /\ f[k] = IF k = 0 THEN x0 ELSE F[<<k, f[k - 1]>>]
  <2>1. f[k] = G(k)[k] /\ k \in 0 .. k
    OBVIOUS
  <2>2. G(k)[k] \in X /\ G(k)[k] = IF k = 0 THEN x0 ELSE F[<<k, G(k)[k - 1]>>]
    BY <1>5, <2>1 DEF Iterates
  <2>3. ASSUME k # 0 PROVE G(k)[k - 1] = f[k - 1]
    <3>1. k - 1 \in Nat /\ k - 1 <= k /\ k - 1 <= k - 1
      BY <2>3
    <3> HIDE DEF Seg
    <3>2. G(k)[k - 1] = G(k - 1)[k - 1]
      BY <1>4, <1>5, <3>1
    <3> QED BY <3>1, <3>2
  <2> HIDE DEF f, Seg
  <2> QED BY <2>1, <2>2, <2>3
<1>7. f = [k \in Nat |-> f[k]]
  OBVIOUS
<1> HIDE DEF f
<1>8. Iterates(f, Nat, x0, F)
  BY <1>6, <1>7 DEF Iterates
<1>9. f \in [Nat -> X]
  BY <1>6, <1>7
<1> QED BY <1>8, <1>9

LEMMA Pow16Is ==
  /\ Pow16 \in [Nat -> Nat] /\ Pow16[0] = 1
  /\ \A n \in Nat : Pow16[n + 1] = 16 * Pow16[n] /\ Pow16[n] > 0
<1> DEFINE F == [p \in Nat \X Nat |-> 16 * p[2]]
<1>1. PICK d \in [Nat -> Nat] : Iterates(d, Nat, 1, F)
  <2>1. PICK one \in Nat : one = 1
    OBVIOUS
  <2>2. F \in [Nat \X Nat -> Nat]
    OBVIOUS
  <2> HIDE DEF F
  <2> QED BY <2>1, <2>2, IteratesExist
<1>2. \A k \in Nat : k # 0 => F[<<k, d[k - 1]>>] = 16 * d[k - 1]
  OBVIOUS
<1>3. d = [k \in Nat |-> IF k = 0 THEN 1 ELSE 16 * d[k - 1]]
  <2> HIDE DEF F
  <2> QED BY <1>1, <1>2 DEF Iterates
<1>4. Pow16 = [k \in Nat |-> IF k = 0 THEN 1 ELSE 16 * Pow16[k - 1]]
  BY <1>3 DEF Pow16
<1>5. Pow16[0] = 1 /\ \A n \in Nat : Pow16[n + 1] = 16 * Pow16[n]
  BY <1>4
<1> DEFINE S == {n \in Nat : Pow16[n] \in Nat /\ Pow16[n] > 0}
<1>6. 0 \in S /\ \A n \in Nat : n \in S => n + 1 \in S
  BY <1>5
<1>7. \A n \in Nat : n \in S
  <2> HIDE DEF S
  <2> QED BY <1>6, SetInduction
<1> QED BY <1>4, <1>5, <1>7

LEMMA Product ==
  ASSUME NEW b \in Nat, NEW m \in Nat
  PROVE  b * m \in Nat /\ (m > 0 => b * m >= b)
<1>1. CASE m = 0
  BY <1>1
<1>2. CASE m > 0
  <2>1. PICK j \in Nat : m = j + 1
    <3>1. m - 1 \in Nat /\ m = (m - 1) + 1
      BY <1>2
    <3> QED BY <3>1
  <2>2. b * m = b * j + b /\ b * j >= 0
    BY <2>1
  <2> QED BY <2>2
<1> QED BY <1>1, <1>2

LEMMA Quotient ==
  ASSUME NEW b \in Nat \ {0}, NEW q \in Nat, NEW r \in Nat, r < b
  PROVE  (b * q + r) \div b = q
<1> DEFINE a == b * q + r
           x == a \div b
           y == a % b
<1>1. a \in Nat
  BY Product
<1>2. x \in Int /\ y \in 0 .. b - 1 /\ a = b * x + y
  <2> HIDE DEF a
  <2> QED BY <1>1
<1>3. b * q - b * x = y - r /\ y - r < b /\ r - y < b
  <2> HIDE DEF x, y
  <2>1. PICK u \in Int, v \in Int : u = b * q /\ v = b * x
    BY <1>2
  <2> QED BY <1>2, <2>1
<1> HIDE DEF x, y, a
<1>4. b * q - b * x = b * (q - x)
  BY <1>2
<1>5. ~(q > x)
  <2> SUFFICES ASSUME q > x PROVE FALSE
    OBVIOUS
  <2>1. q - x \in Nat /\ q - x > 0
    BY <1>2
  <2>2. b * (q - x) >= b
    BY <2>1, Product
  <2> QED BY <1>2, <1>3, <1>4, <2>2
<1>6. ~(x > q)
  <2> SUFFICES ASSUME x > q PROVE FALSE
    OBVIOUS
  <2>1. x - q \in Nat /\ x - q > 0
    BY <1>2
  <2>2. b * (x - q) >= b
    BY <2>1, Product
  <2>3. b * (x - q) = b * x - b * q
    BY <1>2
  <2> QED BY <1>2, <1>3, <2>2, <2>3
<1> QED BY <1>2, <1>5, <1>6 DEF x, a

LEMMA Divided ==
  ASSUME NEW a \in Nat, NEW b \in Nat \ {0}
  PROVE  /\ a \div b \in Nat /\ a \div b <= a
         /\ a % b \in 0 .. b - 1 /\ a = b * (a \div b) + (a % b)
<1> DEFINE x == a \div b
           y == a % b
<1> SUFFICES x \in Nat /\ x <= a /\ y \in 0 .. b - 1 /\ a = b * x + y
  OBVIOUS
<1>1. b \in Int /\ b > 0 /\ a \in Int
  OBVIOUS
<1>2. x \in Int /\ y \in 0 .. b - 1 /\ a = b * x + y
  BY <1>1
<1> HIDE DEF x, y
<1>3. x >= 0
  <2> SUFFICES ASSUME x < 0 PROVE FALSE
    BY <1>2
  <2>1. 0 - x \in Nat /\ 0 - x > 0
    BY <1>2
  <2>2. b * (0 - x) >= b /\ b * (0 - x) = 0 - b * x
    BY <1>2, <2>1, Product
  <2> QED BY <1>2, <2>2
<1>4. x <= a
  <2>1. b - 1 \in Nat /\ x \in Nat
    BY <1>2, <1>3
  <2>2. (b - 1) * x \in Nat
    BY <2>1, Product
  <2>3. b * x = (b - 1) * x + x
    BY <2>1
  <2> QED BY <1>2, <2>2, <2>3
<1> QED BY <1>2, <1>3, <1>4

LEMMA NextDigit ==
  ASSUME NEW a \in Nat, NEW b \in Nat \ {0}
  PROVE  (a \div (16 * b)) * 16 + ((a \div b) % 16) = a \div b
<1> DEFINE x == a \div b
           r == a % b
           y == x \div 16
           s == x % 16
           z == a \div (16 * b)
<1> SUFFICES z * 16 + s = x
  OBVIOUS
<1>1. x \in Nat /\ r \in 0 .. b - 1 /\ a = b * x + r
  BY Divided
<1>2. y \in Nat /\ s \in 0 .. 15 /\ x = 16 * y + s
  BY <1>1
<1> HIDE DEF x, r, y, s, z
<1>3. b * x = (16 * b) * y + b * s
  BY <1>1, <1>2
<1>4. b * s \in Nat /\ b * s + r < 16 * b
  <2>1. b * s \in Nat
    BY <1>2, Product
  <2>2. 15 - s \in Nat
    BY <1>2
  <2>3. b * (15 - s) \in Nat /\ b * (15 - s) = 15 * b - b * s
    BY <1>2, <2>2, Product
  <2> QED BY <1>1, <2>1, <2>3
<1>5. PICK t \in Nat, c \in Nat \ {0} : t = b * s + r /\ c = 16 * b
  <2>1. b * s + r \in Nat /\ 16 * b \in Nat \ {0}
    BY <1>1, <1>4
  <2> QED BY <2>1
<1>6. a = c * y + t /\ t < c
  <2>1. PICK u \in Int : u = (16 * b) * y
    BY <1>2
  <2>2. c * y = u
    BY <1>5, <2>1
  <2> QED BY <1>1, <1>3, <1>4, <1>5, <2>1, <2>2
<1>7. a \div c = y
  BY <1>2, <1>6, Quotient
<1>8. z = y
  BY <1>5, <1>7 DEF z
<1>9. y * 16 + s = x
  BY <1>2
<1> QED BY <1>8, <1>9

\* One digit of sprintf, read by htodw.
LEMMA NibbleIs ==
  ASSUME NEW n \in 0 .. 15
  PROVE  Nibble(IF n < 10 THEN 48 + n ELSE 55 + n) = n
BY DEF Nibble

LEMMA Remainder ==
  ASSUME NEW b \in Nat \ {0}, NEW x \in Nat, x < b
  PROVE  x \div b = 0 /\ x % b = x
<1>1. PICK z \in Nat : z = 0
  OBVIOUS
<1>2. (b * z + x) \div b = z
  BY Quotient
<1>3. b * z + x = x
  BY <1>1
<1>4. x \div b = 0
  BY <1>1, <1>2, <1>3
<1>5. x = b * (x \div b) + (x % b) /\ x % b \in 0 .. b - 1
  BY Divided
<1> QED BY <1>4, <1>5

\* The digits of a number below 16 to the Digits.
LEMMA FormatIs ==
  ASSUME NEW a \in Nat
  PROVE  /\ Format(a) \in Seq(Int) /\ Len(Format(a)) = Digits
         /\ \A k \in 1 .. Digits : Nibble(Format(a)[k]) = (a \div Pow16[Digits - k]) % 16
<1> DEFINE n(k) == (a \div Pow16[Digits - k]) % 16
           c(k) == IF n(k) < 10 THEN 48 + n(k) ELSE 55 + n(k)
<1>1. ASSUME NEW k \in 1 .. Digits PROVE n(k) \in 0 .. 15
  <2>1. Digits - k \in Nat
    BY CpuAssumption
  <2>2. PICK b \in Nat \ {0} : b = Pow16[Digits - k]
    BY <2>1, Pow16Is
  <2>3. PICK x \in Nat : x = a \div b
    BY Divided
  <2>4. x % 16 \in 0 .. 15
    OBVIOUS
  <2> QED BY <2>2, <2>3, <2>4
<1>2. Format(a) = [k \in 1 .. Digits |-> c(k)]
  BY DEF Format
<1> HIDE DEF n
<1>3. ASSUME NEW k \in 1 .. Digits PROVE c(k) \in Int /\ Nibble(c(k)) = n(k)
  BY <1>1, NibbleIs
<1> HIDE DEF c
<1>4. Digits \in Nat
  BY CpuAssumption
<1>5. Format(a) \in Seq(Int) /\ Len(Format(a)) = Digits
  BY <1>2, <1>3, <1>4
<1>6. \A k \in 1 .. Digits : Nibble(Format(a)[k]) = n(k)
  BY <1>2, <1>3
<1> QED BY <1>5, <1>6 DEF n

\* The digits that sprintf makes of an address are read back as that address.
LEMMA HtodwInvertsFormat ==
  ASSUME NEW a \in Nat, a < Pow16[Digits]
  PROVE  htodw(Format(a)) = a
<1> DEFINE text == Format(a)
           M == Pow16[Digits]
           edx[k \in 0 .. Len(text)] ==
             IF k = 0 THEN 0 ELSE (edx[k - 1] * 16 + Nibble(text[k])) % Pow16[Digits]
<1>1. htodw(text) = edx[Len(text)]
  BY DEF htodw
<1> HIDE DEF text
<1>2. /\ text \in Seq(Int) /\ Len(text) = Digits /\ Digits \in Nat
      /\ \A k \in 1 .. Digits : /\ Nibble(text[k]) \in 0 .. 15
                                /\ Nibble(text[k]) = (a \div Pow16[Digits - k]) % 16
  <2>1. \A k \in 1 .. Digits : Nibble(text[k]) = (a \div Pow16[Digits - k]) % 16
    BY FormatIs DEF text
  <2>2. text \in Seq(Int) /\ Len(text) = Digits /\ Digits \in Nat
    BY FormatIs, CpuAssumption DEF text
  <2>3. ASSUME NEW k \in 1 .. Digits PROVE (a \div Pow16[Digits - k]) % 16 \in 0 .. 15
    <3>0. Digits - k \in Nat
      BY <2>2
    <3>1. PICK b \in Nat \ {0} : b = Pow16[Digits - k]
      BY <3>0, Pow16Is
    <3>2. PICK x \in Nat : x = a \div b
      BY Divided
    <3>3. x % 16 \in 0 .. 15
      OBVIOUS
    <3> QED BY <3>1, <3>2, <3>3
  <2> QED BY <2>1, <2>2, <2>3
<1>3. M \in Nat \ {0}
  BY <1>2, Pow16Is
<1>4. edx = [k \in 0 .. Len(text) |->
              IF k = 0 THEN 0 ELSE (edx[k - 1] * 16 + Nibble(text[k])) % Pow16[Digits]]
  <2> DEFINE F == [p \in Nat \X Int |->
                    IF p[1] \in 1 .. Digits THEN (p[2] * 16 + Nibble(text[p[1]])) % M ELSE 0]
  <2>1. F \in [Nat \X Int -> Int]
    <3>1. ASSUME NEW k \in Nat, NEW x \in Int, k \in 1 .. Digits
          PROVE  (x * 16 + Nibble(text[k])) % M \in Int
      <4>0. PICK z \in 0 .. 15 : z = Nibble(text[k])
        BY <1>2, <3>1
      <4>1. PICK y \in Int : y = x * 16 + Nibble(text[k])
        BY <4>0
      <4>2. PICK m \in Nat \ {0} : m = M
        BY <1>3
      <4>3. y % m \in Int
        OBVIOUS
      <4> QED BY <4>1, <4>2, <4>3
    <3> HIDE DEF M
    <3> QED BY <3>1
  <2>2. PICK zero \in Int : zero = 0
    OBVIOUS
  <2>3. \A k \in 1 .. Digits, x \in Int : F[<<k, x>>] = (x * 16 + Nibble(text[k])) % M
    OBVIOUS
  <2> HIDE DEF F
  <2>4. PICK d \in [Nat -> Int] : Iterates(d, Nat, zero, F)
    BY <2>1, IteratesExist
  <2> DEFINE h == [k \in 0 .. Digits |-> d[k]]
  <2>5. ASSUME NEW k \in 0 .. Digits
        PROVE  h[k] = IF k = 0 THEN 0 ELSE (h[k - 1] * 16 + Nibble(text[k])) % M
    <3>1. k \in Nat /\ h[k] = d[k] /\ d[k] = IF k = 0 THEN 0 ELSE F[<<k, d[k - 1]>>]
      BY <2>2, <2>4 DEF Iterates
    <3>2. k # 0 => k \in 1 .. Digits /\ d[k - 1] \in Int /\ h[k - 1] = d[k - 1]
      BY <1>2
    <3> HIDE DEF h, M
    <3> QED BY <2>3, <3>1, <3>2
  <2>6. h = [k \in 0 .. Digits |-> h[k]]
    OBVIOUS
  <2> HIDE DEF h
  <2>7. h = [k \in 0 .. Len(text) |->
              IF k = 0 THEN 0 ELSE (h[k - 1] * 16 + Nibble(text[k])) % Pow16[Digits]]
    BY <1>2, <2>5, <2>6
  <2> QED BY <2>7
<1> HIDE DEF edx
<1>5. edx[0] = 0 /\ \A k \in 1 .. Digits : edx[k] = (edx[k - 1] * 16 + Nibble(text[k])) % M
  BY <1>2, <1>4
<1> DEFINE S == {k \in Nat : k <= Digits => edx[k] = a \div Pow16[Digits - k]}
<1>6. 0 \in S
  <2>1. a \div M = 0
    BY <1>3, Remainder
  <2>2. Digits - 0 = Digits
    BY <1>2
  <2> QED BY <1>5, <2>1, <2>2
<1>7. ASSUME NEW k \in Nat, k \in S PROVE k + 1 \in S
  <2>1. SUFFICES ASSUME k + 1 <= Digits PROVE edx[k + 1] = a \div Pow16[Digits - (k + 1)]
    OBVIOUS
  <2>2. /\ k + 1 \in 1 .. Digits /\ (k + 1) - 1 = k /\ k <= Digits
        /\ Digits - (k + 1) \in Nat /\ Digits - k = (Digits - (k + 1)) + 1
    BY <1>2, <2>1
  <2>3. PICK b \in Nat \ {0} : b = Pow16[Digits - (k + 1)]
    BY <2>2, Pow16Is
  <2>4. Pow16[Digits - k] = 16 * b
    BY <2>2, <2>3, Pow16Is
  <2>5. edx[k] = a \div (16 * b)
    BY <1>7, <2>2, <2>4
  <2>6. edx[k + 1] = (edx[k] * 16 + Nibble(text[k + 1])) % M
    BY <1>5, <2>2
  <2>7. Nibble(text[k + 1]) = (a \div b) % 16
    BY <1>2, <2>2, <2>3
  <2> HIDE DEF S, M
  <2>8. edx[k + 1] = (a \div b) % M
    <3>1. (a \div (16 * b)) * 16 + ((a \div b) % 16) = a \div b
      BY NextDigit
    <3>2. PICK u, v, w : u = a \div (16 * b) /\ v = (a \div b) % 16 /\ w = a \div b
      OBVIOUS
    <3>3. u * 16 + v = w
      BY <3>1, <3>2
    <3>4. edx[k + 1] = (u * 16 + v) % M
      BY <2>5, <2>6, <2>7, <3>2
    <3> QED BY <3>2, <3>3, <3>4
  <2>9. a \div b \in Nat /\ a \div b <= a
    BY Divided
  <2>10. PICK w \in Nat : w = a \div b /\ w < M
    BY <1>3, <2>9 DEF M
  <2>11. w % M = w
    BY <1>3, <2>10, Remainder
  <2> QED BY <2>3, <2>8, <2>10, <2>11
<1>8. \A k \in Nat : k \in S
  <2> HIDE DEF S
  <2> QED BY <1>6, <1>7, SetInduction
<1>9. edx[Digits] = a \div Pow16[Digits - Digits]
  BY <1>2, <1>8
<1>10. Digits - Digits = 0 /\ Pow16[0] = 1 /\ a \div 1 = a
  BY <1>2, Pow16Is
<1>11. edx[Digits] = a
  BY <1>9, <1>10
<1> QED BY <1>1, <1>2, <1>11 DEF text

\* An event that m_trc_debug can hold in the n-th session.
EventType(n) == [tid : TIDs \cup {-1}, eip : Eips \cup {-1}, sid : 0 .. n, mod : BOOLEAN]

\* The texts of the rows, of the row the menu is open for and of the requests
\* are the digits of their addresses, and no event is of a session to come.
Request(n) ==
  {[to |-> t, text |-> Format(a), of |-> a, evt |-> v] :
     t \in {"main", "bp"}, a \in Memory, v \in EventType(n)}
RequestInv ==
  /\ CodeInv
  /\ rows \in Seq(Row)
  /\ menu.open => menu.of \in Memory /\ menu.text = Format(menu.of)
  /\ event \in EventType(sid)
  /\ queue \in Seq(Request(sid))
  /\ \A b \in bps : b.addr = UCHAR(b.of)

LEMMA RowIs ==
  ASSUME NEW r \in Row
  PROVE  r.of \in Memory /\ r.text = Format(r.of)
<1>1. PICK a \in Memory, l \in Seq(Bare) : r = Disasm(a, l).row
  BY DEF Row
<1> HIDE DEF Row
<1> QED BY <1>1, DisasmIs

LEMMA RequestIs ==
  ASSUME NEW n \in Nat, NEW t \in {"main", "bp"}, NEW a \in Memory, NEW v \in EventType(n)
  PROVE  [to |-> t, text |-> Format(a), of |-> a, evt |-> v] \in Request(n)
BY DEF Request

\* The address that htodw reads from a request is that of its row.
LEMMA RequestNames ==
  ASSUME NEW n \in Nat, NEW q \in Request(n)
  PROVE  htodw(q.text) = q.of /\ q.evt \in EventType(n)
<1>1. PICK t \in {"main", "bp"}, a \in Memory, v \in EventType(n) :
        q = [to |-> t, text |-> Format(a), of |-> a, evt |-> v]
  BY DEF Request
<1>2. q.text = Format(a) /\ q.of = a /\ q.evt = v
  BY <1>1
<1>3. a \in Nat /\ a < Pow16[Digits]
  <2>1. PICK m \in Nat : m = Pow16[Digits]
    BY Pow16Is, CpuAssumption
  <2>2. a \in 0 .. m - 1
    BY <2>1, CpuAssumption
  <2> QED BY <2>1, <2>2
<1> QED BY <1>2, <1>3, HtodwInvertsFormat

LEMMA RequestStep == RequestInv /\ [Next]_vars => RequestInv'
<1> SUFFICES ASSUME RequestInv, [Next]_vars PROVE RequestInv'
  OBVIOUS
<1> DEFINE I == /\ rows \in Seq(Row)
                /\ menu.open => menu.of \in Memory /\ menu.text = Format(menu.of)
                /\ event \in EventType(sid)
                /\ queue \in Seq(Request(sid))
                /\ \A b \in bps : b.addr = UCHAR(b.of)
<1>0. CodeInv' /\ I /\ sid \in Nat
  BY CodeStep DEF RequestInv, CodeInv
<1> SUFFICES I'
  BY <1>0 DEF RequestInv
<1>1. ASSUME NEW n \in Nat, n = sid', rows' \in Seq(Row),
             menu'.open => menu'.of \in Memory /\ menu'.text = Format(menu'.of),
             event' \in EventType(n), queue' \in Seq(Request(n)),
             \A b \in bps' : b.addr = UCHAR(b.of)
      PROVE  I'
  <2>1. EventType(n) = EventType(sid)' /\ Request(n) = Request(sid)' /\ Row = Row'
    BY <1>1 DEF EventType, Request, Row
  <2> HIDE DEF EventType, Request, Row
  <2> QED BY <1>1, <2>1 DEF UCHAR
<1>2. CASE UNCHANGED <<rows, menu, event, queue, sid>> /\ bps' \in {bps, {}}
  <2>1. /\ rows' \in Seq(Row) /\ event' \in EventType(sid) /\ queue' \in Seq(Request(sid))
        /\ sid' = sid /\ (menu'.open => menu'.of \in Memory /\ menu'.text = Format(menu'.of))
    BY <1>0, <1>2
  <2>2. \A b \in bps' : b.addr = UCHAR(b.of)
    BY <1>0, <1>2
  <2> HIDE DEF I
  <2> QED BY <1>0, <1>1, <2>1, <2>2
<1>3. CASE CpuReset
  <2>1. PICK n \in Nat : n = 0
    OBVIOUS
  <2>2. << >> \in Seq(Row) /\ << >> \in Seq(Request(n))
    OBVIOUS
  <2>3. rows' = << >> /\ ~menu'.open /\ event' = NoStop /\ queue' = << >> /\ sid' = n /\ bps' = {}
    BY <1>3, <2>1 DEF CpuReset, Closed
  <2>4. NoStop \in EventType(n)
    BY <2>1 DEF NoStop, EventType
  <2> HIDE DEF I
  <2> QED BY <1>1, <2>2, <2>3, <2>4
<1>4. CASE OnOpenModule
  <2>1. PICK n \in Nat : n = sid + 1
    BY <1>0
  <2>2. UNCHANGED <<rows, menu, event, queue>> /\ sid' = n /\ bps' = {}
    BY <1>4, <2>1 DEF OnOpenModule
  <2>3. 0 .. sid \subseteq 0 .. n
    BY <1>0, <2>1
  <2>4. EventType(sid) \subseteq EventType(n)
    BY <2>3 DEF EventType
  <2>5. Request(sid) \subseteq Request(n)
    BY <2>4 DEF Request
  <2>6. queue \in Seq(Request(n)) /\ event \in EventType(n)
    <3> HIDE DEF Request, EventType
    <3> QED BY <1>0, <2>4, <2>5
  <2>7. /\ rows' \in Seq(Row) /\ event' \in EventType(n) /\ queue' \in Seq(Request(n))
        /\ (menu'.open => menu'.of \in Memory /\ menu'.text = Format(menu'.of))
    BY <1>0, <2>2, <2>6
  <2> HIDE DEF I
  <2> QED BY <1>1, <2>2, <2>7
<1>5. ASSUME NEW t \in TIDs, NEW e \in Eips, NEW m \in BOOLEAN, Stop(t, e, m) PROVE I'
  <2>1. event' = [tid |-> t, eip |-> e, sid |-> sid, mod |-> m]
        /\ UNCHANGED <<rows, menu, queue, sid, bps>>
    BY <1>5 DEF Stop
  <2>2. sid \in 0 .. sid
    BY <1>0
  <2>3. event' \in EventType(sid)
    BY <2>1, <2>2 DEF EventType
  <2>4. /\ rows' \in Seq(Row) /\ queue' \in Seq(Request(sid)) /\ sid' = sid
        /\ (menu'.open => menu'.of \in Memory /\ menu'.text = Format(menu'.of))
        /\ \A b \in bps' : b.addr = UCHAR(b.of)
    BY <1>0, <2>1
  <2> HIDE DEF I
  <2> QED BY <1>0, <1>1, <2>3, <2>4
<1>6. ASSUME NEW r \in BOOLEAN, AddItem(r) PROVE I'
  <2>1. Head(posted) \in Stops
    BY <1>6, HeadTailProperties DEF AddItem, RequestInv, CodeInv
  <2>2. PICK e \in Eips : e = Head(posted).eip
    BY <2>1 DEF Stops
  <2>3. UNCHANGED <<menu, event, queue, sid, bps>>
    BY <1>6 DEF AddItem
  <2>4. rows' \in Seq(Row)
    <3> DEFINE read == r /\ Known(Head(posted).sid)
    <3>1. CASE read
      <4>1. PICK d : d = DasmDisasmCmd(e, str_hex)
        OBVIOUS
      <4>2. rows' = d.rows
        BY <1>6, <2>2, <3>1, <4>1 DEF AddItem
      <4>3. d.rows \in Seq(Row)
        BY <4>1, DasmDone DEF RequestInv, CodeInv, Done
      <4> QED BY <4>2, <4>3
    <3>2. CASE ~read
      <4>1. rows' = << >>
        BY <1>6, <3>2 DEF AddItem
      <4> QED BY <4>1
    <3> QED BY <3>1, <3>2
  <2>5. /\ event' \in EventType(sid) /\ queue' \in Seq(Request(sid)) /\ sid' = sid
        /\ (menu'.open => menu'.of \in Memory /\ menu'.text = Format(menu'.of))
        /\ \A b \in bps' : b.addr = UCHAR(b.of)
    BY <1>0, <2>3
  <2> HIDE DEF I
  <2> QED BY <1>0, <1>1, <2>4, <2>5
<1>7. ASSUME NEW i \in 1 .. Len(rows), OnRightClick(i) PROVE I'
  <2>1. rows[i] \in Row
    BY <1>0
  <2>2. rows[i].of \in Memory /\ rows[i].text = Format(rows[i].of)
    BY <2>1, RowIs
  <2>3. /\ menu' = [open |-> TRUE, text |-> rows[i].text, of |-> rows[i].of]
        /\ UNCHANGED <<rows, event, queue, sid, bps>>
    BY <1>7 DEF OnRightClick
  <2>4. menu'.of \in Memory /\ menu'.text = Format(menu'.of)
    BY <2>2, <2>3
  <2>5. /\ rows' \in Seq(Row) /\ event' \in EventType(sid) /\ queue' \in Seq(Request(sid))
        /\ sid' = sid /\ \A b \in bps' : b.addr = UCHAR(b.of)
    BY <1>0, <2>3
  <2> HIDE DEF I
  <2> QED BY <1>0, <1>1, <2>4, <2>5
<1>8. CASE OnToggleBP
  <2>1. PICK a \in Memory : a = menu.of /\ menu.text = Format(a) /\ menu.open
    BY <1>0, <1>8 DEF OnToggleBP
  <2>2. PICK q : q = GuiProcEvent("main", menu.text, menu.of, NoStop)
    OBVIOUS
  <2>3. q \in Request(sid)
    <3>1. NoStop \in EventType(sid)
      BY <1>0 DEF NoStop, EventType
    <3>2. PICK t \in {"main", "bp"}, v \in EventType(sid) : t = "main" /\ v = NoStop
      BY <3>1
    <3>3. q = [to |-> t, text |-> Format(a), of |-> a, evt |-> v]
      BY <2>1, <2>2, <3>2 DEF GuiProcEvent
    <3> QED BY <1>0, <3>3, RequestIs
  <2>4. queue' = Append(queue, q) /\ ~menu'.open /\ UNCHANGED <<rows, event, sid, bps>>
    BY <1>8, <2>1, <2>2 DEF OnToggleBP
  <2>5. queue' \in Seq(Request(sid))
    <3> HIDE DEF Request
    <3> QED BY <1>0, <2>3, <2>4, AppendProperties
  <2>6. /\ rows' \in Seq(Row) /\ event' \in EventType(sid) /\ sid' = sid
        /\ \A b \in bps' : b.addr = UCHAR(b.of)
    BY <1>0, <2>4
  <2> HIDE DEF I
  <2> QED BY <1>0, <1>1, <2>4, <2>5, <2>6
<1>9. CASE Dismiss
  <2>1. ~menu'.open /\ UNCHANGED <<rows, event, queue, sid, bps>>
    BY <1>9 DEF Dismiss
  <2>2. /\ rows' \in Seq(Row) /\ event' \in EventType(sid) /\ queue' \in Seq(Request(sid))
        /\ sid' = sid /\ \A b \in bps' : b.addr = UCHAR(b.of)
    BY <1>0, <2>1
  <2> HIDE DEF I
  <2> QED BY <1>0, <1>1, <2>1, <2>2
<1>10. CASE OnMsgBP
  <2>1. Head(queue) \in Request(sid) /\ Tail(queue) \in Seq(Request(sid))
    BY <1>0, <1>10, HeadTailProperties DEF OnMsgBP
  <2>2. PICK t \in {"main", "bp"}, a \in Memory, v \in EventType(sid) :
          Head(queue) = [to |-> t, text |-> Format(a), of |-> a, evt |-> v]
    BY <2>1 DEF Request
  <2>3. PICK q : q = setDebugEvent([Head(queue) EXCEPT !.to = "bp"], event)
    OBVIOUS
  <2>4. PICK u \in {"main", "bp"}, w \in EventType(sid) : u = "bp" /\ w = event
    BY <1>0
  <2>5. q \in Request(sid)
    <3>1. PICK f : f = Format(a)
      OBVIOUS
    <3>2. [Head(queue) EXCEPT !.to = "bp"] = [to |-> u, text |-> f, of |-> a, evt |-> v]
      BY <2>2, <2>4, <3>1
    <3>3. q = [to |-> u, text |-> f, of |-> a, evt |-> w]
      BY <2>3, <2>4, <3>2 DEF setDebugEvent
    <3> QED BY <1>0, <3>1, <3>3, RequestIs
  <2>6. queue' = Append(Tail(queue), q) /\ UNCHANGED <<rows, menu, event, sid>>
    BY <1>10, <2>3 DEF OnMsgBP
  <2>7. queue' \in Seq(Request(sid))
    <3> HIDE DEF Request
    <3> QED BY <2>1, <2>5, <2>6, AppendProperties
  <2>8. \A b \in bps' : b.addr = UCHAR(b.of)
    <3>1. htodw(Head(queue).text) = Head(queue).of
      BY <1>0, <2>1, RequestNames
    <3>2. PICK b : b = [tid |-> UCHAR(event.tid), of |-> Head(queue).of,
                        addr |-> UCHAR(htodw(getAddrBP(Head(queue))))]
      OBVIOUS
    <3>3. b.addr = UCHAR(b.of)
      BY <3>1, <3>2 DEF getAddrBP
    <3>4. bps' \in {bps, bps \cup {b}}
      BY <1>10, <3>2 DEF OnMsgBP
    <3> QED BY <1>0, <3>3, <3>4
  <2>9. /\ rows' \in Seq(Row) /\ event' \in EventType(sid) /\ sid' = sid
        /\ (menu'.open => menu'.of \in Memory /\ menu'.text = Format(menu'.of))
    BY <1>0, <2>6
  <2> HIDE DEF I
  <2> QED BY <1>0, <1>1, <2>7, <2>8, <2>9
<1>11. CASE OnAddBP
  <2>1. queue' \in Seq(Request(sid)) /\ UNCHANGED <<rows, menu, event, sid, bps>>
    BY <1>0, <1>11, HeadTailProperties DEF OnAddBP
  <2>2. /\ rows' \in Seq(Row) /\ event' \in EventType(sid) /\ sid' = sid
        /\ (menu'.open => menu'.of \in Memory /\ menu'.text = Format(menu'.of))
        /\ \A b \in bps' : b.addr = UCHAR(b.of)
    BY <1>0, <2>1
  <2> HIDE DEF I
  <2> QED BY <1>0, <1>1, <2>1, <2>2
<1>12. CASE Terminate
  <2>1. UNCHANGED <<rows, menu, event, queue, sid>> /\ bps' \in {bps, {}}
    BY <1>12 DEF Terminate
  <2> QED BY <1>2, <2>1
<1> HIDE DEF I
<1>13. CASE CpuNext
  BY <1>4, <1>5, <1>6, <1>7, <1>8, <1>9, <1>10, <1>11, <1>12, <1>13 DEF CpuNext
<1>14. CASE UNCHANGED cpu
  BY <1>2, <1>14 DEF cpu
<1>15. ASSUME NEW g \in Guis, Process(g) \/ User(g) PROVE I'
  BY <1>3, <1>14, <1>15 DEF Process, User
<1> QED BY <1>13, <1>14, <1>15 DEF Next, Debug, vars

LEMMA RequestInvariant == Spec => []RequestInv
<1>1. Init => RequestInv
  <2> SUFFICES ASSUME Init PROVE RequestInv
    OBVIOUS
  <2>1. /\ rows = << >> /\ str_hex = << >> /\ posted = << >> /\ queue = << >>
        /\ ~menu.open /\ event = NoStop /\ sid = 0 /\ bps = {}
    BY DEF Init, CpuInit, Closed
  <2>2. /\ << >> \in Seq(Bare) /\ << >> \in Seq(Stops) /\ << >> \in Seq(Row)
        /\ << >> \in Seq(Request(0))
    OBVIOUS
  <2>3. CodeInv
    BY <2>1, <2>2, NoRowsAreCode DEF CodeInv
  <2>4. NoStop \in EventType(0)
    BY DEF NoStop, EventType
  <2> QED BY <2>1, <2>2, <2>3, <2>4 DEF RequestInv
<1> QED BY <1>1, RequestStep, PTL DEF Spec

\* Any number of digits, sessions, stops and clicks: the address that htodw
\* reads from a request is that of the row that was clicked, whatever has
\* replaced the rows meanwhile, and the breakpoint that comes of it is at the
\* last eight bits of that address (MainFrame::OnMsgBP).
THEOREM RequestsNameTheirRow == Spec => []RequestedRow
<1>1. RequestInv => RequestedRow
  <2> SUFFICES ASSUME RequestInv, NEW k \in DOMAIN queue
               PROVE  htodw(queue[k].text) = queue[k].of
    BY DEF RequestedRow, RequestInv
  <2>1. queue[k] \in Request(sid) /\ sid \in Nat
    BY DEF RequestInv, CodeInv
  <2> QED BY <2>1, RequestNames
<1> QED BY <1>1, RequestInvariant, PTL

-----------------------------------------------------------------------------
\* The breakpoint frame: its rows are not of a session to come.
BpInv == BpRowsCurrent /\ bpRows.sid \in 0 .. sid

LEMMA AppendIsNotEmpty ==
  ASSUME NEW S, NEW q \in Seq(S), NEW e
  PROVE  Append(q, e) # << >>
<1>1. q \in Seq(S \cup {e})
  OBVIOUS
<1>2. Append(q, e) \in Seq(S \cup {e}) /\ Len(Append(q, e)) = Len(q) + 1 /\ Len(q) \in Nat
  BY <1>1, AppendProperties
<1> QED BY <1>2

LEMMA BpStep == RequestInv /\ BpInv /\ [Next]_vars => BpInv'
<1> SUFFICES ASSUME RequestInv, BpInv, [Next]_vars PROVE BpInv'
  OBVIOUS
<1>0. sid \in Nat /\ queue \in Seq(Request(sid))
  BY DEF RequestInv, CodeInv
<1>1. CASE UNCHANGED <<queue, bps, bpRows, sid, ses>>
  BY <1>1 DEF BpInv, BpRowsCurrent, BpList
<1>2. CASE CpuReset
  <2>1. bpRows'.sid = 0 /\ sid' = 0 /\ ses' = "over"
    BY <1>2 DEF CpuReset, NoRows
  <2> QED BY <2>1 DEF BpInv, BpRowsCurrent
<1>3. CASE OnOpenModule
  <2>1. sid' = sid + 1 /\ bpRows' = bpRows
    BY <1>3 DEF OnOpenModule
  <2>2. bpRows.sid \in 0 .. sid
    BY DEF BpInv
  <2>3. bpRows'.sid # sid' /\ bpRows'.sid \in 0 .. sid'
    BY <1>0, <2>1, <2>2
  <2> QED BY <2>3 DEF BpInv, BpRowsCurrent
<1>4. ASSUME queue' # << >>, UNCHANGED <<sid, bpRows>> PROVE BpInv'
  BY <1>4 DEF BpInv, BpRowsCurrent
<1>5. CASE OnToggleBP
  <2>1. PICK q : queue' = Append(queue, q) /\ UNCHANGED <<sid, bpRows>>
    BY <1>5 DEF OnToggleBP
  <2> QED BY <1>0, <1>4, <2>1, AppendIsNotEmpty
<1>6. CASE OnMsgBP
  <2>1. PICK q : queue' = Append(Tail(queue), q) /\ UNCHANGED <<sid, bpRows>>
    BY <1>6 DEF OnMsgBP
  <2>2. Tail(queue) \in Seq(Request(sid))
    BY <1>0, <1>6, HeadTailProperties DEF OnMsgBP
  <2> QED BY <1>4, <2>1, <2>2, AppendIsNotEmpty
<1>7. CASE OnAddBP
  <2>1. PICK tid, s : tid = Head(queue).evt.tid /\ s = Head(queue).evt.sid
    OBVIOUS
  <2>2. /\ bps' = bps /\ sid' = sid
        /\ \/ bpRows' = [sid |-> s, tid |-> tid, addrs |-> BpList(tid)]
           \/ bpRows' = bpRows /\ ses' = "crashed"
    BY <1>7, <2>1 DEF OnAddBP, getDebugEvent
  <2>3. s \in 0 .. sid
    <3>1. Head(queue) \in Request(sid)
      BY <1>0, <1>7, HeadTailProperties DEF OnAddBP
    <3>2. Head(queue).evt \in EventType(sid)
      BY <1>0, <3>1, RequestNames
    <3> QED BY <2>1, <3>2 DEF EventType
  <2>4. BpList(tid)' = BpList(tid)
    BY <2>2 DEF BpList
  <2>5. CASE bpRows' = [sid |-> s, tid |-> tid, addrs |-> BpList(tid)]
    <3>1. bpRows'.sid = s /\ bpRows'.tid = tid /\ bpRows'.addrs = BpList(tid)
      BY <2>5
    <3>2. BpList(bpRows.tid)' = BpList(tid)
      BY <2>2, <3>1 DEF BpList
    <3> QED BY <2>2, <2>3, <3>1, <3>2 DEF BpInv, BpRowsCurrent
  <2>6. CASE bpRows' = bpRows /\ ses' = "crashed"
    BY <2>2, <2>6 DEF BpInv, BpRowsCurrent
  <2> QED BY <2>2, <2>5, <2>6
<1>8. CASE Terminate
  BY <1>8 DEF Terminate, BpInv, BpRowsCurrent
<1>9. CASE CpuNext
  BY <1>1, <1>3, <1>5, <1>6, <1>7, <1>8, <1>9
     DEF CpuNext, Stop, AddItem, OnRightClick, Dismiss
<1>10. ASSUME NEW g \in Guis, Process(g) \/ User(g) PROVE BpInv'
  BY <1>1, <1>2, <1>10 DEF Process, User, cpu
<1> QED BY <1>1, <1>9, <1>10 DEF Next, Debug, vars, cpu

\* Any number of sessions, threads, stops, requests and restarts: when every
\* request for a breakpoint has been handled, the breakpoint frame lists what
\* the tracer has for the thread it shows, or it still shows a session that
\* has been closed since (BPFrame::OnAddBP, MainFrame::OnOpenModule).
THEOREM BpRowsAreCurrent == Spec => []BpRowsCurrent
<1>1. Init => BpInv
  BY DEF Init, CpuInit, NoRows, BpInv, BpRowsCurrent
<1>2. BpInv => BpRowsCurrent
  BY DEF BpInv
<1> QED BY <1>1, <1>2, BpStep, RequestInvariant, PTL DEF Spec
=============================================================================
