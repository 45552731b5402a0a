------------------------------ MODULE CpuView -------------------------------
(***************************************************************************)
(* The CPU frame and the breakpoint frame: sessions that are opened, ended *)
(* and replaced (MainFrame::OnOpenModule), the disassembly of a stop       *)
(* (disasm.cpp, CPUFrame::AddItem), the context menu that asks for a       *)
(* breakpoint (cpulistview.cpp) and the way of that request through        *)
(* MainFrame::OnMsgBP and the tracer to BPFrame::OnAddBP.                  *)
(*                                                                         *)
(* External, modelled from its use here: the tracer (sessions, memory,     *)
(* breakpoints per thread, the record of a thread, which it keeps as long  *)
(* as its session) and the decoder of cadt.h.  An instruction is the       *)
(* address it stands at: its text, hex digits, a separating space and a    *)
(* mnemonic, is the address as the owner of each part.                     *)
(***************************************************************************)
EXTENDS Integers, Sequences, FiniteSets, SequencesExt

CONSTANTS
  InstrDecode,  \* length of the instruction at an address, 0 if there is none
  HasSpace,     \* whether its text has a space after the hex digits
  Eips,         \* where the debuggee can stop
  TIDs,         \* its threads
  Size,         \* bytes a disassembly asks for (0x30 in the code)
  Slack,        \* bytes read beyond them (16 in the code)
  Digits,       \* digits of an address, nibbles of a register (8 in the code)
  MaxSessions,  \* bound: sessions a process opens
  MaxStops,     \* bound: stops
  MaxClicks     \* bound: breakpoints asked for

Memory == DOMAIN InstrDecode

\* 16 to the n: how much n nibbles hold.
Pow16[n \in Nat] == IF n = 0 THEN 1 ELSE 16 * Pow16[n - 1]

ASSUME CpuAssumption ==
  /\ Size \in Nat \ {0} /\ Slack \in Nat /\ Digits \in Nat \ {0}
  /\ Memory \subseteq 0 .. Pow16[Digits] - 1 /\ InstrDecode \in [Memory -> 0 .. Slack]
  /\ HasSpace \in [Memory -> BOOLEAN]
  /\ Eips \subseteq Nat /\ \A e \in Eips : e .. e + Size + Slack - 1 \subseteq Memory
  /\ TIDs \subseteq Nat
  /\ MaxSessions \in Nat /\ MaxStops \in Nat /\ MaxClicks \in Nat

VARIABLES
  event,     \* m_trc_debug: thread, Eip and session of the latest stop, and
             \* whether it has a CurrentModule
  posted,    \* debug events that wait in the CPU frame's queue
  rows,      \* the rows of the CPU list
  str_hex,   \* Disasm's static string: owners of the text left in it
  menu,      \* m_address and the address of the row it is from; the menu is open
  queue,     \* GuiProcEvents on their way to MainFrame and BPFrame
  bps,       \* the tracer's breakpoints: thread and address, and the address
             \* of the row that was clicked for it
  bpRows,    \* the session, the thread and the rows BPFrame shows
  sid,       \* the session, counted as the process opens them; 0 before
  ses,       \* whether it is "open" or "over", or the frames have "crashed"
  stops, clicks

cpu == <<event, posted, rows, str_hex, menu, queue, bps, bpRows, sid, ses, stops, clicks>>

Closed == [open |-> FALSE, text |-> << >>, of |-> -1]

NoStop == [tid |-> -1, eip |-> -1, sid |-> 0, mod |-> FALSE]
NoRows == [sid |-> 0, tid |-> -1, addrs |-> << >>]

CpuInit ==
  /\ event = NoStop /\ posted = << >>
  /\ rows = << >> /\ str_hex = << >> /\ menu = Closed
  /\ queue = << >> /\ bps = {} /\ bpRows = NoRows
  /\ sid = 0 /\ ses = "over" /\ stops = 0 /\ clicks = 0

\* The process ends or begins: all of this is as new.
CpuReset ==
  /\ event' = NoStop /\ posted' = << >>
  /\ rows' = << >> /\ str_hex' = << >> /\ menu' = Closed
  /\ queue' = << >> /\ bps' = {} /\ bpRows' = NoRows
  /\ sid' = 0 /\ ses' = "over" /\ UNCHANGED <<stops, clicks>>

-----------------------------------------------------------------------------
(***************************************************************************)
(* Disassembly.                                                            *)
(***************************************************************************)
\* The lengths of the first k instructions at addr, added up: i of GetCmdCount.
Offset(addr) ==
  LET i[k \in Nat] == IF k = 0 THEN 0 ELSE i[k - 1] + InstrDecode[addr + i[k - 1]]
  IN  i

\* Mutant: instructions are counted to the end of the buffer.
CountsAll(addr, size) ==
  {k \in 1 .. size :
     /\ \A j \in 0 .. k - 1 : Offset(addr)[j] < size /\ InstrDecode[addr + Offset(addr)[j]] > 0
     /\ Offset(addr)[k] >= size \/ InstrDecode[addr + Offset(addr)[k]] = 0}

\* Where the loop of GetCmdCount ends: at the first instruction that cannot be
\* decoded or that is beyond the bytes asked for (origSize, the slack left off).
Counts(addr, size) ==
  LET origSize == size - Slack
      i == Offset(addr)
  IN  {k \in 1 .. size :
         /\ \A j \in 0 .. k - 1 : i[j] < origSize /\ InstrDecode[addr + i[j]] > 0
         /\ i[k] >= origSize \/ InstrDecode[addr + i[k]] = 0}

GetCmdCount(addr, size) ==
  IF Counts(addr, size) = {} THEN 0 ELSE CHOOSE k \in Counts(addr, size) : TRUE

\* The digits of sprintf("%0.8X"), as character codes.
Format(addr) ==
  [d \in 1 .. Digits |->
    LET n == (addr \div Pow16[Digits - d]) % 16 IN IF n < 10 THEN 48 + n ELSE 55 + n]

\* Mutant: what is left in str_hex after the hex digits is not cleared.
DisasmUncleared(addr, left) ==
  IF HasSpace[addr]
  THEN [row |-> [text |-> Format(addr), of |-> addr, hex |-> Append(left, addr),
                 asm |-> <<addr>>, len |-> InstrDecode[addr]],
        left |-> Append(left, addr)]
  ELSE [row |-> [text |-> Format(addr), of |-> addr, hex |-> << >>, asm |-> <<addr>>,
                 len |-> InstrDecode[addr]],
        left |-> Append(left, addr)]

\* Disasm: the text up to its first space goes to the hex dump, after what was
\* left in str_hex, the rest to the mnemonic.  Without a space the bytes that
\* were copied stay in the hex dump and all of the text stays in str_hex.
Disasm(addr, left) ==
  IF HasSpace[addr]
  THEN [row |-> [text |-> Format(addr), of |-> addr, hex |-> Append(left, addr),
                 asm |-> <<addr>>, len |-> InstrDecode[addr]],
        left |-> << >>]
  ELSE [row |-> [text |-> Format(addr), of |-> addr, hex |-> << >>, asm |-> <<addr>>,
                 len |-> InstrDecode[addr]],
        left |-> Append(left, addr)]

\* One turn of the loop of DasmDisasmCmd.
DasmTurn(d) ==
  LET one == Disasm(d.at, d.left)
  IN  [rows |-> Append(d.rows, one.row), left |-> one.left, at |-> d.at + one.row.len]

\* The loop of DasmDisasmCmd, n turns.
DasmLoop(addr, left, n) ==
  LET d[k \in 0 .. n] ==
        IF k = 0 THEN [rows |-> << >>, left |-> left, at |-> addr] ELSE DasmTurn(d[k - 1])
  IN  d

\* DasmDisasmCmd: Size + 16 bytes are read and as many instructions
\* disassembled as GetCmdCount has counted.
DasmDisasmCmd(addr, left) ==
  LET n == GetCmdCount(addr, Size + Slack) IN DasmLoop(addr, left, n)[n]

-----------------------------------------------------------------------------
\* The tracer knows session s.
Known(s) == s = sid /\ ses = "open"

\* OnOpenModule, when its file dialog has been answered: the session there was,
\* if any, is closed, and the tracer forgets it; the frames are not told.
OnOpenModule ==
  /\ ~menu.open /\ sid < MaxSessions
  /\ sid' = sid + 1 /\ ses' = "open" /\ bps' = {}
  /\ UNCHANGED <<event, posted, rows, str_hex, menu, queue, bpRows, stops, clicks>>

\* The debuggee stops, in a module or outside of all (mod): thunk_dbg_event
\* keeps the event and posts it.
Stop(tid, eip, mod) ==
  /\ ses = "open" /\ stops < MaxStops /\ stops' = stops + 1
  /\ event' = [tid |-> tid, eip |-> eip, sid |-> sid, mod |-> mod]
  /\ posted' = Append(posted, event')
  /\ UNCHANGED <<rows, str_hex, menu, queue, bps, bpRows, sid, ses, clicks>>

\* The debuggee ends, and the tracer forgets the session.
Terminate ==
  /\ ses = "open" /\ ses' = "over" /\ bps' = {}
  /\ UNCHANGED <<event, posted, rows, str_hex, menu, queue, bpRows, sid, stops, clicks>>

\* CPUFrame::AddItem of a breakpoint or a single step.  When the memory cannot
\* be read the list is left empty.
AddItem(readable) ==
  /\ posted # << >> /\ posted' = Tail(posted)
  /\ LET d == DasmDisasmCmd(Head(posted).eip, str_hex)
     IN  IF readable /\ Known(Head(posted).sid)
         THEN rows' = d.rows /\ str_hex' = d.left
         ELSE rows' = << >> /\ UNCHANGED str_hex
  /\ UNCHANGED <<event, menu, queue, bps, bpRows, sid, ses, stops, clicks>>

\* OnRightClick remembers the texts of the row and pops the menu up, which
\* dispatches other events while it is open.
OnRightClick(i) ==
  /\ ~menu.open /\ clicks < MaxClicks /\ i \in DOMAIN rows
  /\ clicks' = clicks + 1
  /\ menu' = [open |-> TRUE, text |-> rows[i].text, of |-> rows[i].of]
  /\ UNCHANGED <<event, posted, rows, str_hex, queue, bps, bpRows, sid, ses, stops>>

\* A request on its way to a frame; `of` is the address its text was made from.
GuiProcEvent(to, text, of, evt) == [to |-> to, text |-> text, of |-> of, evt |-> evt]
getAddrBP(e) == e.text
getDebugEvent(e) == e.evt
setDebugEvent(e, evt) == [e EXCEPT !.evt = evt]

\* Mutant: the address is read from the first row again.
OnToggleBPFirst ==
  /\ menu.open /\ menu' = [menu EXCEPT !.open = FALSE] /\ rows # << >>
  /\ queue' = Append(queue, GuiProcEvent("main", rows[1].text, menu.of, NoStop))
  /\ UNCHANGED <<event, posted, rows, str_hex, bps, bpRows, sid, ses, stops, clicks>>

\* OnToggleBP posts GUI_MSG_ADD_BP, whether there is a breakpoint or not.
OnToggleBP ==
  /\ menu.open /\ menu' = [menu EXCEPT !.open = FALSE]
  /\ queue' = Append(queue, GuiProcEvent("main", menu.text, menu.of, NoStop))
  /\ UNCHANGED <<event, posted, rows, str_hex, bps, bpRows, sid, ses, stops, clicks>>

\* The menu is closed without a choice.
Dismiss ==
  /\ menu.open /\ menu' = [menu EXCEPT !.open = FALSE]
  /\ UNCHANGED <<event, posted, rows, str_hex, queue, bps, bpRows, sid, ses, stops, clicks>>

\* One digit of htodw: al is the character less '0', less 0x27 when that is
\* above 9, plus 0x20 when that is negative.  Digits only: their nibbles make
\* the xor an addition.
Nibble(ch) ==
  LET al == ch - 48
  IN  IF al <= 9 THEN al ELSE IF al - 39 >= 0 THEN al - 39 ELSE al - 39 + 32

htodw(text) ==
  LET edx[k \in 0 .. Len(text)] ==
        IF k = 0 THEN 0 ELSE (edx[k - 1] * 16 + Nibble(text[k])) % Pow16[Digits]
  IN  edx[Len(text)]

UCHAR(n) == n % 256

\* OnMsgBP: address and thread id pass through a UCHAR on their way to
\* trc_set_bp; session and thread are those of the latest stop.  When the
\* session is over, CurrentThread points to what the tracer has freed.  The
\* case for GUI_MSG_DEL_BP is left out: no view posts that.
OnMsgBP ==
  /\ queue # << >> /\ Head(queue).to = "main"
  /\ bps' = IF Known(event.sid) /\ UCHAR(event.tid) \in TIDs
            THEN bps \cup {[tid |-> UCHAR(event.tid), of |-> Head(queue).of,
                            addr |-> UCHAR(htodw(getAddrBP(Head(queue))))]}
            ELSE bps
  /\ queue' = Append(Tail(queue), setDebugEvent([Head(queue) EXCEPT !.to = "bp"], event))
  /\ ses' \in IF Known(event.sid) THEN {ses} ELSE {ses, "crashed"}
  /\ UNCHANGED <<event, posted, rows, str_hex, menu, bpRows, sid, stops, clicks>>

\* trc_get_bp_list of a thread, in an order of the tracer's.
BpList(tid) == SetToSeq({b.addr : b \in {c \in bps : c.tid = tid}})

\* Mutant: the old rows are not deleted.
OnAddBPKept ==
  /\ queue # << >> /\ Head(queue).to = "bp" /\ queue' = Tail(queue)
  /\ LET e == getDebugEvent(Head(queue))
     IN  bpRows' = [sid |-> e.sid, tid |-> e.tid, addrs |-> BpList(e.tid) \o bpRows.addrs]
  /\ UNCHANGED <<event, posted, rows, str_hex, menu, bps, sid, ses, stops, clicks>>

\* BPFrame::OnAddBP lists the thread's breakpoints anew.  When the session is
\* over the list is NULL, and each row dereferences CurrentModule, which may be
\* NULL too.
OnAddBP ==
  /\ queue # << >> /\ Head(queue).to = "bp" /\ queue' = Tail(queue)
  /\ LET e == getDebugEvent(Head(queue))
         list == BpList(e.tid)
     IN  IF Known(e.sid) /\ (e.mod \/ list = << >>)
         THEN bpRows' = [sid |-> e.sid, tid |-> e.tid, addrs |-> list] /\ UNCHANGED ses
         ELSE ses' = "crashed" /\ UNCHANGED bpRows
  /\ UNCHANGED <<event, posted, rows, str_hex, menu, bps, sid, stops, clicks>>

CpuNext ==
  /\ ses # "crashed"
  /\ \/ \E t \in TIDs, e \in Eips, m \in BOOLEAN : Stop(t, e, m)
     \/ \E r \in BOOLEAN : AddItem(r)
     \/ \E i \in 1 .. Len(rows) : OnRightClick(i)
     \/ OnOpenModule \/ OnToggleBP \/ Dismiss \/ OnMsgBP \/ OnAddBP \/ Terminate

-----------------------------------------------------------------------------
(***************************************************************************)
(* Properties.                                                             *)
(***************************************************************************)
\* The rows of a disassembly begin where a debuggee stopped, follow each other
\* without a gap, decode at least one byte each, and together stay in the
\* Size + 16 bytes that were read: the second decoding pass, which trusts the
\* count of the first, does not run past the buffer.
DecodeInBuffer ==
  rows # << >> =>
    /\ rows[1].of \in Eips
    /\ \A i \in 1 .. Len(rows) - 1 : rows[i + 1].of = rows[i].of + rows[i].len
    /\ \A i \in DOMAIN rows : rows[i].len > 0
    /\ rows[Len(rows)].of + rows[Len(rows)].len - rows[1].of <= Size + Slack

\* The hex digits of a row are its own, after those of instructions without a
\* space that were left in str_hex; a row without a space has none.
OwnText(r) ==
  IF HasSpace[r.of]
  THEN /\ r.hex # << >> /\ r.hex[Len(r.hex)] = r.of
       /\ \A j \in 1 .. Len(r.hex) - 1 : ~HasSpace[r.hex[j]]
  ELSE r.hex = << >>

\* Every row shows its own hex digits, although the string they are taken from
\* is static, and nothing else after a row whose text has a space.
RowsOwnText ==
  \A i \in DOMAIN rows :
    OwnText(rows[i]) /\ (i > 1 /\ HasSpace[rows[i - 1].of] => Len(rows[i].hex) <= 1)

\* The rows are the code at a stop, read whole and each with its own text.
RowsAreCode == DecodeInBuffer /\ RowsOwnText

\* A request for a breakpoint names the row that was clicked until it comes to
\* MainFrame, also when a stop or another session has replaced the rows while
\* the menu was open: digits and htodw are inverse.  There the address is cut
\* to a UCHAR, and the breakpoint is set at what is left of it, which is not
\* the row's address when that is above 255.
RequestedRow ==
  /\ \A k \in DOMAIN queue : htodw(queue[k].text) = queue[k].of
  /\ \A b \in bps : b.addr = UCHAR(b.of)

\* Once every request is handled, the breakpoint frame shows exactly what the
\* tracer has for the thread it shows, although a truncated thread id can
\* place a breakpoint in another thread.  (Rows of a session that has been
\* closed stay until a breakpoint is asked for in the next one: OnOpenModule
\* does not clear them.)
BpRowsCurrent ==
  ses = "open" /\ queue = << >> /\ bpRows.sid = sid => bpRows.addrs = BpList(bpRows.tid)

=============================================================================
