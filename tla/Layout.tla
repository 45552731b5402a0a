------------------------------- MODULE Layout -------------------------------
(***************************************************************************)
(* What the graphical debugger keeps between its runs (mainframe.cpp and   *)
(* the SaveParams and LoadParams of the frames): which panes are shown,    *)
(* where the main window is and how wide the columns of the lists are.     *)
(* wxFileConfig reads ngdbg.ini at the start and writes it at the exit, so *)
(* that a killed debugger saves nothing and two debuggers started in one   *)
(* directory overwrite each other's settings.                              *)
(*                                                                         *)
(* The perspective string of wxAuiManager is abstracted to the panes it    *)
(* shows, coordinates to a place, the columns of a list to one width.      *)
(***************************************************************************)
EXTENDS Naturals

CONSTANTS
  Guis,       \* running debuggers
  Panes,      \* the eight frames
  Usable,     \* the panes ShowUsableWindows shows
  Places,     \* where a window can be put on the screen
  Offscreen,  \* where GetPosition says an iconized window is
  Widths,
  Default,    \* the default place and width
  MaxStarts,  \* bound: starts of a debugger
  MaxChanges, \* bound: changes of the layout by the user
  Missing     \* no such entry

Lists == {"cpu", "bp", "mod"}   \* the frames that save column widths

ASSUME LayoutAssumption ==
  /\ MaxStarts \in Nat /\ MaxChanges \in Nat
  /\ Usable \subseteq Panes
  /\ Default \in Places /\ Default \in Widths
  /\ Offscreen \notin Places
  /\ Missing \notin Places \cup Widths \cup {Offscreen}
  /\ \A s \in SUBSET Panes :
       s # Missing /\ \A w \in [Lists -> Widths] : [shown |-> s, width |-> w] # Missing

VARIABLES
  up,      \* debuggers that run
  failed,  \* those whose message box says that the driver was not found
  win,     \* per debugger: place, iconized, panes shown, column widths
  config,  \* per debugger: its wxConfig
  ini,     \* ngdbg.ini
  last,    \* panes and widths at the latest orderly exit
  starts, changes

layout == <<up, failed, win, config, ini, last, starts, changes>>

Empty == [main |-> Missing, child |-> Missing, width |-> [l \in Lists |-> Missing]]
Hidden == [place |-> Default, iconized |-> FALSE, shown |-> {},
           width |-> [l \in Lists |-> Default]]

LayoutInit ==
  /\ up = {} /\ failed = {} /\ win = [g \in Guis |-> Hidden] /\ config = [g \in Guis |-> Empty]
  /\ ini = Empty /\ last = Missing /\ starts = 0 /\ changes = 0

\* wxConfig::Read with a default.
Read(entry, default) == IF entry = Missing THEN default ELSE entry

\* LoadParams and SaveParams of the frames, each with keys of its own.  The
\* other frames save and load nothing (SaveWinCoord and LoadWinCoord are
\* commented out).
CPULoadParams(c) == Read(c.width["cpu"], Default)
BPLoadParams(c) == Read(c.width["bp"], Default)
ModLoadParams(c) == Read(c.width["mod"], Default)
CPUSaveParams(c, w) == [c EXCEPT !.width["cpu"] = w.width["cpu"]]
BPSaveParams(c, w) == [c EXCEPT !.width["bp"] = w.width["bp"]]
ModSaveParams(c, w) == [c EXCEPT !.width["mod"] = w.width["mod"]]

LoadParams(c) ==
  [cpu |-> CPULoadParams(c), bp |-> BPLoadParams(c), mod |-> ModLoadParams(c)]
SaveParams(c, w) == ModSaveParams(BPSaveParams(CPUSaveParams(c, w), w), w)

ShowUsableWindows == Usable

\* LoadLayout: the place, and the perspective or else the usual windows; the
\* empty perspective that is loaded after them is refused and changes nothing.
LoadLayout(c) ==
  [place |-> Read(c.main, Default), iconized |-> FALSE,
   shown |-> Read(c.child, ShowUsableWindows), width |-> LoadParams(c)]

GetPosition(w) == IF w.iconized THEN Offscreen ELSE w.place

\* Mutant: an iconized window's own coordinates are saved.
SaveLayoutIconized(c, w) == [c EXCEPT !.main = GetPosition(w), !.child = w.shown]

\* SaveLayout: an iconized window keeps the coordinates of the config.
SaveLayout(c, w) ==
  [c EXCEPT !.main = IF w.iconized THEN Read(c.main, Default) ELSE GetPosition(w),
            !.child = w.shown]

\* The destructors of MainFrame and of its frames, then wxFileConfig's.
Destroyed(c, w) == SaveParams(SaveLayout(c, w), w)

\* trc_init, which loads the driver, succeeds or not.
InitDebugger == BOOLEAN

\* App::OnInit loads the layout.  Without the driver a message box stays in
\* front of the hidden frame until the user answers it.
OnInit(g, ok) ==
  /\ g \notin up /\ starts < MaxStarts /\ starts' = starts + 1 /\ UNCHANGED changes
  /\ up' = up \cup {g} /\ failed' = IF ok THEN failed ELSE failed \cup {g}
  /\ win' = [win EXCEPT ![g] = LoadLayout(ini)] /\ config' = [config EXCEPT ![g] = ini]
  /\ UNCHANGED <<ini, last>>

Change(g) == g \in up \ failed /\ changes < MaxChanges /\ changes' = changes + 1

\* OnCPUFrame .. OnStackFrame, and the close button of a pane.
OnFrame(g, p) ==
  /\ Change(g)
  /\ win' = [win EXCEPT ![g].shown = IF p \in @ THEN @ \ {p} ELSE @ \cup {p}]
  /\ UNCHANGED <<up, failed, config, ini, last, starts>>

\* The user moves, iconizes or restores the main window, sizes a column.
Move(g, place) ==
  /\ Change(g) /\ ~win[g].iconized /\ place # win[g].place
  /\ win' = [win EXCEPT ![g].place = place]
  /\ UNCHANGED <<up, failed, config, ini, last, starts>>

Iconize(g) ==
  /\ Change(g)
  /\ win' = [win EXCEPT ![g].iconized = ~@]
  /\ UNCHANGED <<up, failed, config, ini, last, starts>>

SizeColumn(g, l, w) ==
  /\ Change(g) /\ w # win[g].width[l]
  /\ win' = [win EXCEPT ![g].width[l] = w]
  /\ UNCHANGED <<up, failed, config, ini, last, starts>>

\* Mutant: the frames are destroyed without SaveParams.
ExitNoParams(g) ==
  /\ up' = up \ {g} /\ failed' = failed \ {g}
  /\ ini' = SaveLayout(config[g], win[g])
  /\ last' = [shown |-> win[g].shown, width |-> win[g].width]
  /\ win' = [win EXCEPT ![g] = Hidden] /\ config' = [config EXCEPT ![g] = Empty]
  /\ UNCHANGED <<starts, changes>>

\* The frame is closed and destroyed, and with it the application.
Exit(g) ==
  /\ up' = up \ {g} /\ failed' = failed \ {g}
  /\ ini' = Destroyed(config[g], win[g])
  /\ last' = [shown |-> win[g].shown, width |-> win[g].width]
  /\ win' = [win EXCEPT ![g] = Hidden] /\ config' = [config EXCEPT ![g] = Empty]
  /\ UNCHANGED <<starts, changes>>

\* OnQuit and OnClose.
OnQuit(g) == g \in up \ failed /\ Exit(g)

\* The message box of OnInit is answered: frame->Close() saves what was loaded
\* at the start, over what other debuggers have saved since.
BoxAnswered(g) == g \in failed /\ Exit(g)

\* The debugger crashes or is killed: nothing is written.
Kill(g) ==
  /\ g \in up /\ up' = up \ {g} /\ failed' = failed \ {g}
  /\ win' = [win EXCEPT ![g] = Hidden] /\ config' = [config EXCEPT ![g] = Empty]
  /\ UNCHANGED <<ini, last, starts, changes>>

-----------------------------------------------------------------------------
(***************************************************************************)
(* Properties.                                                             *)
(***************************************************************************)
\* A debugger starts with the panes and the column widths of the latest
\* orderly exit, whatever was killed since and whichever of several debuggers
\* exited last, and with the usual windows and widths when there was none; and
\* never at the coordinates of an iconized window, where nobody could see it.
LayoutRestored ==
  [][\A g \in Guis : g \in up' \ up =>
       /\ win'[g].place # Offscreen
       /\ IF last = Missing
            THEN win'[g].shown = Usable /\ win'[g].width = [l \in Lists |-> Default]
            ELSE win'[g].shown = last.shown /\ win'[g].width = last.width]_layout

=============================================================================
