-------------------------------- MODULE Gui ---------------------------------
(***************************************************************************)
(* Debuggers as processes: the layout of each, and the CPU and breakpoint  *)
(* frames of one of them, whose state, and whose breakpoints, begin and    *)
(* end with the process.  A crash of its frames is an exit that saves      *)
(* nothing.                                                                *)
(***************************************************************************)
EXTENDS Layout, CpuView

CONSTANT Me   \* the debugger whose frames are modelled

ASSUME MeAssumption == Me \in Guis

vars == <<layout, cpu>>

Init == LayoutInit /\ CpuInit

\* The application starts or ends: the frames of Me are as new.
Process(g) ==
  /\ IF g = Me THEN CpuReset ELSE UNCHANGED cpu
  /\ \/ \E ok \in InitDebugger : OnInit(g, ok)
     \/ (g = Me => ~menu.open /\ ses # "crashed") /\ OnQuit(g)
     \/ BoxAnswered(g)
     \/ Kill(g)

\* Menus and windows do not react while a context menu is open.
User(g) ==
  /\ (g = Me => ~menu.open /\ ses # "crashed") /\ UNCHANGED cpu
  /\ \/ \E p \in Panes : OnFrame(g, p)
     \/ \E p \in Places : Move(g, p)
     \/ Iconize(g)
     \/ \E l \in Lists, w \in Widths : SizeColumn(g, l, w)

Debug == Me \in up \ failed /\ CpuNext /\ UNCHANGED layout

Next == (\E g \in Guis : Process(g) \/ User(g)) \/ Debug

Spec == Init /\ [][Next]_vars

-----------------------------------------------------------------------------
=============================================================================
