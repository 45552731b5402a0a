# A TLA+ verification project for opendbg

opendbg is a debugger for 32-bit Windows. A kernel driver hooks the exception
dispatcher and the thread and process system services, turns what happens in a
debugged process into *events*, and holds the thread that caused an event until
the debugger has answered it. A user library calls the driver; a wxWidgets
program is the user interface. This project models the driver, the library and
the interface, checks them with TLC on small instances, and proves with TLAPS,
for every instance, the safety properties of all of them except what depends on
the bytes of the code (section 12).

Source paths below are relative to the repository.

## 1. Inventory

| component | source | state it keeps | operations |
|---|---|---|---|
| channel | `src/kernel/sys/channel.c` | `state`, `thread`, `released`, `waiters`, four notification events, one message buffer | `channel_alloc`, `_send_recv`, `_recv`, `_send`, `_release`, `_free` |
| session list | `src/kernel/sys/dbg_item.c` | doubly linked list of `dbg_item` under `dbg_item_lock`; per item `active`, `ref_count`, debugger, debuggee, channel, filter | `dbg_new_item`, `_find_item`, `_deref_item`, `_delete_item` |
| debug calls and hooks | `src/kernel/sys/debug.c` | none of its own | attach, filter, get message, continue, terminate, open; hooks on `KiDispatchException`, `NtCreateThread`, `NtTerminateThread`, `NtTerminateProcess`, and the image notification |
| dispatcher | `src/kernel/sys/syscall.c` | table of calls, access key | the hooked `NtTerminateProcess` with a magic argument |
| code patching | `src/kernel/sys/code_hook.c` | DPC barrier, hook descriptors | `global_lock`, `global_unlock`, `hot_patch`, `hook_code`, `set_hook` |
| length decoder | `src/kernel/sys/ldasm.c` | none | `size_of_code` |
| helpers | `src/kernel/sys/misc.c` | none | locking of user buffers, kernel base, `start_system_thread` |
| registry | `src/kernel/sys/regio.c` | none | read and write of values |
| driver entry | `src/kernel/sys/driver.c` | none | `DriverEntry` |
| service table hook | `src/kernel/sys/sdt_hook.c` | none | unused |
| user library | `src/kernel/dbgapi/dbgapi.c` | the access key | wrappers of the calls |
| test tool | `src/kernel/test/test.cpp` | none | attach, filter, then get message and continue in a loop |
| UI debug loop | `src/ui/src/mainframe.cpp`, `debugger.cpp`, `events.cpp` | trace mode, the event being shown, the user's answer, a condition variable | tracer callbacks, step, run, exception dialog |
| UI views | `src/ui/src/*frame.cpp`, `cpulistview.cpp`, `listview.cpp` | what they show: code, registers, memory, threads, modules, breakpoints; panes and column widths, kept in `ngdbg.ini` | event handlers, `SaveParams`, `LoadParams` |
| memory control | `src/ui/src/memctrl/*.cpp` | caret, selection, scroll position | key, mouse and scroll handlers |
| UI helpers | `src/ui/src/utils.cpp`, `disasm.cpp` | none | `htodw`, formatting of instructions |

How they interact. The user library passes a call number and buffers through
the hooked `NtTerminateProcess` to the dispatcher, which runs a handler of
`debug.c` in the calling thread. A handler looks a session up with
`dbg_find_item` (which takes a reference), uses its channel, and drops the
reference. A hook runs in a thread of the debugged process (or of whoever acts
on it), looks the session up in the same way, and waits in
`channel_send_recv`. Sessions end through `dbg_process_terminated`, which is
reached from three places and calls itself again through the hook when it
terminates the processes that the ending process debugs; a system thread
delivers the last event, `DBG_TERMINATED`, and deletes the session.

The library also brings the driver into the kernel: it creates a service,
writes the addresses and offsets the driver needs to the service's registry key,
starts and deletes the service. `DriverEntry` reads the values and hooks five
functions with `code_hook.c`, which decodes their prologues with `ldasm.c`.

The user interface does not use `dbgapi` but a tracer library outside the repository. Its
threads call the three *thunks* of `MainFrame`, which post events to the frames
and wait on a condition that the GUI thread signals when the user gives a
command or answers a dialog.

What is hard. Everything above runs at once in threads of several processes;
the channel and the reference counts use interlocked operations and hand-made
events, and hardly any locks. A thread can be terminated in any of its waits.
Session deletion races with attaching, with pending calls and with other
deletions. Nothing times out. Code is patched while other processors run it.
Processes that load the driver race with each other and may be killed half
way. The tracer threads and the GUI thread share fields without a lock.

What makes the components correct:

* channel: an event is taken once, by one debugger thread, its answer reaches its
  reporter and nobody else; buffers are not shared; nobody waits for ever;
  the memory outlives its users;
* sessions: reference counts are exact; no item is used after it is freed; a
  deleted session is freed; no session outlives its debugger; only what is
  terminated is reported as terminated;
* dispatcher: only holders of the key get through; user buffers stay locked
  exactly as long as a handler uses them;
* patching: no processor runs the code being changed; every processor is let go;
* decoder: the length of every instruction is right, and so is the place of
  its displacement;
* driver entry: the values are there, a failure leaves no hook behind, and who
  was told that the driver works can call it;
* UI loop: the frames show the stop the debuggee is at, and it goes on when the
  user says so;
* views: the rows are the code at the stop, a request is for the row that was
  clicked, the three columns of the memory control agree, settings survive.

`PROJECT.json` lists the places where each of these can go wrong (`hazards`).

## 2. Modules and plan

| module | models | composed of | status |
|---|---|---|---|
| `Channel` | `channel.c`, step by step | | checked, proved in `ChannelProofs` |
| `Rendezvous`, `ChannelRefinement` | what the channel promises, and the refinement mapping | `Channel` | checked, proved in `RefinementProofs` |
| `Session` | `dbg_item.c`, the handlers and hooks of `debug.c` | the channel as open or released | checked, proved in `SessionProofs` |
| `CodeHook` | `code_hook.c` against running processors | | checked, proved in `CodeHookProofs` |
| `Ldasm` | `ldasm.c` | | checked against an opcode map |
| `Loader` | `dbg_initialize_api`, service manager, `DriverEntry`, `init_debug`, `init_syscall` | | in `Syscall` |
| `Syscall` | the library's calls, the dispatcher, buffer locks | extends `Loader` | checked, proved in `SyscallProofs` |
| `UiLoop` | thunks, conditions, GUI thread, register editor | | checked, proved in `UiLoopProofs` |
| `MemCtrl` | `memctrl.cpp`, `column.cpp` | | checked, proved in `MemCtrlProofs` |
| `CpuView` | disassembly rows, breakpoint requests | | in `Gui` |
| `Layout` | panes, coordinates and columns in `ngdbg.ini` | | in `Gui` |
| `Gui` | debuggers as processes | extends `Layout` and `CpuView` | checked, proved in `GuiProofs` |

Each `MC...` module instantiates the module of that name for TLC. Each
`...Proofs` module extends the module it is about and has one inductive
invariant, a conjunction of named parts; the sections below give its parts and
say why they are needed. Left to do: the links of the session list. No module
uses a `RECURSIVE` operator.

## 3. Channel

One action is one access to shared memory or one kernel call. `pc` says where a
thread stands: `s_` steps are `channel_send_recv`, `r_` steps `channel_recv`,
`a_` steps `channel_send`. `ev` holds the four events `send`, `recv`, `rcvd`,
`repl`; `snd` and `rcv` are the two halves of the buffer. A message is the pair
of its reporter and a number, and an answer is the message it answers, so a
wrong answer can be told from a right one. `closing` follows `dbg_delete_item`
through `channel_release` to `channel_free`. `held` is the message the debugger
thread has received and not yet answered (its user-mode variable).

Two points in which the model follows the code rather than its look:

* `channel_send_recv` is `do { } while (0)`, so the `continue` after a lost
  compare-exchange leaves it (`SendCas`); the other two calls do loop;
* a wait in user mode by a thread that is being terminated returns
  `STATUS_USER_APC`. The sender then skips the assignment of `succs` and still
  copies and resets the channel.

A call that has found the session but not yet incremented `waiters` is kept
safe by its reference, which `Session` models; `channel_free` here has that as
a conjunct.

### Runs

| run | instance | checks |
|---|---|---|
| `channel_safety` | 2 senders, 2 events each, 1 debugger thread that calls in any order, release, nobody killed, fair | `TypeOK`, `ReplyMatches`, `TakerOwnsTransaction`, `BufferUnshared`, `ImplementsRendezvous`, `ReleaseDrains` |
| `channel_kill` | everyone killable, release | `OneTransaction`, `NoUseAfterFree` |
| `channel_live` | 2 senders, 2 debugger threads, nobody killed or released, fair | `OneOwner`, `EventAnswered` |
| `channel_dropped` | violated: two senders | `EventDelivered` |

Bounds. Two events per sender are enough for a step of one transaction to meet
the next transaction of the same and of the other sender, which is where every
counterexample found lies. `channel_safety` kills nobody, so that it can check
liveness as well; a debugger that is killed in any wait is in `channel_kill`, and
in the proofs of all of its safety properties. A third sender adds only one more loser of the
compare-exchange. The proofs below remove the bounds for the safety properties.

Fairness. Each thread inside a call is strongly fair. Threads in the kernel
keep being scheduled; that alone is weak fairness. It is strong because
`KeSetEvent` on a notification event satisfies all waits in progress at that
moment: a thread whose event is set again and again does leave its wait, even
if another thread clears the event before it is scheduled. The debugger's loop
of get message and continue (`test.cpp`) is part of the fairness of the
debugger threads; kills, new events and the decision to delete the session are
not.

Deadlock checking is off: a session in which nothing more happens stops.

`ReleaseDrains` says who is let out by a release with several threads in the
channel: a reporter that has won the channel before `channel_release` signals
`repl_event`, and the debugger thread when there is one. That *everybody* is let
out does not hold, and TLC finds why: A is woken by the release, B has passed the
check of `released`; A resets the channel and clears `repl_event`; B wins the
compare-exchange and waits for `repl_event` for ever, and `channel_free` polls
for ever. A debugger thread that clears `recv_event` does the same to a second
one. `Session` therefore assumes no fairness of leaving a channel.

### Refinement

`Rendezvous` is what a caller may rely on: a reporter asks, gets the channel for
its event alone or goes away with nothing, one debugger thread takes the event
and answers it, the reporter goes on with the answer to its own event; only a
closed channel or a killed reporter end a transaction without an answer. It has nine small actions
and no events, counters or buffers. `ChannelRefinement` reads the phase of a
reporter off its program counter and the answer from the buffers, and
`channel_safety` checks `ImplementsRendezvous`: every one of the channel's
single steps is a step of `Rendezvous` or changes nothing there. That the loser of the
compare-exchange goes away with nothing is part of the abstract specification
too, because the code does so (section 10).

### Proofs

`ChannelProofs` proves, for every finite set of senders and debugger threads and every
bound, with killing and release unless said otherwise:

* `TypeCorrect`: `Spec => []TypeOK`. That `waiters` is a natural number is not
  a typing matter: it needs `FreeInv`, whose core is `WaitersCount`
  (`waiters` is the number of threads inside the calls; lemmas `Count*`
  about cardinalities);
* `FreeIsSafe`: `NoUseAfterFree`, from the same `FreeInv`;
* `TransactionsExclude`: `OneTransaction`, which is inductive with the types;
* `OwnersExclude`: `OneOwner`, when no sender is killable. `OneOwner` is not
  inductive: `OwnerInv` adds when `rcvd_event` and `repl_event` can be
  signalled, and that a debugger thread between its two compare-exchanges is
  alone there;
* `AnswersAreOwn`, `TakersOwn`, `BuffersUnshared`: `ReplyMatches`,
  `TakerOwnsTransaction`, `BufferUnshared`, when no sender is killable and there
  is one debugger thread. `AnswerInv` says where the event and its answer are
  while the reporter waits.

`RefinementProofs` proves `ChannelImplements`: `ImplementsRendezvous`, under the
same two assumptions, with release and with a debugger that may be killed. The
mapping reads a reporter's phase off its program counter, so a step is mapped
right only in states in which the counter, the events and the buffers agree.
That takes three invariants: `ChannelInv` (`TransactionInv`, `OwnerInv` and
`AnswerInv` from above), `PastInv` (an event that is or was in a buffer, or that the debugger
holds, has been let out by its reporter, so a new event is new to the
abstract one), and `PromiseInv` (an event that is being taken has no answer yet, its taker holds
no other, and only the release ends a call without an answer). The proof goes action by action: each is one action of `Rendezvous` or leaves
the mapped variables alone.

The extra assumptions are needed: the stale answer and the early take of
section 10 are counterexamples without them. The assumptions on
constants are `ThreadsAssumption` and `BoundsAssumption`.

Only model-checked: `EventAnswered`, `ReleaseDrains` (liveness is outside the
prover).

## 4. Session

Each thread has a stack of frames, innermost first; a frame has its place
(`pc`), the process it is about, the item it works on, whether it will call the
original `NtTerminateProcess` (`kill`) and where it goes after dropping its
reference (`next`). One action is one call of `dbg_item.c`, one write to an
item, or one call of the kernel. The channel is open or released; being in it is the
place `chan`, which a thread may leave when answered, raced out, released, or
when its process is terminated. The event mask is one bit that matters for control
(`DBG_TERMINATED`); for other events the choice is free. The list is a
sequence, its operations are atomic.

`leaked` and `deletes` are history variables: references nobody will drop any
more, and how often the list's reference was dropped.

Leaks the code has, which `RefsExact` therefore accounts for: a thread that
terminates its own process in a nested call never returns to the outer frames
(`ExitSelf`); `start_system_thread` returns an uninitialised value on failure
(`ReportLost`).

Failures are modelled with what the code does then. An attach that is invalid or
refused reaches its cleanup with `chan` unassigned and may free it (`wild`).
`open_process_by_ptr` ignores the status of `ObOpenObjectByPointer`: the handle
is then whatever was on the stack, no process or any (`KillStray`). The last
thread of a process may be terminated by a thread of another process
(`LastThreadExit`).

### Runs

The run `session` has a debugger with two threads of which one attaches, a
debuggee with one, one item, one worker, one termination of either process by
user code, and a handle value that is the debuggee's process id. It checks
`TypeOK`, `RefsExact`, `NoDanglingItem`, `ChannelPresent` and, under fairness,
`SessionEnds`.

Bounds. One termination by user code already nests: terminating the debugger
terminates the debuggee, where the worker and the outer call may delete the one
item at the same time. `MaxDepth` bounds the frames of a thread, as the kernel
stack does: a call for which there is no room is not made. Three frames are what
the longest nesting of the run takes, `dbg_terminate_process` of the debugger.

Mutual debugging. When two processes debug each other, terminating either
recurses for as long as there is stack, because a session is deleted only after
the nested call returns. So no property says that the recursion ends. The run,
where one process attaches, does not reach this case; the theorems `RefsAreExact`
and `NoneDangling` below do, for any depth.

Fairness is weak fairness of each thread inside the driver, outside of channels.
That a debugger answers is *not* assumed, nor that a released channel lets
everyone out (section 3). `SessionEnds` therefore starts from the deletion: a
deleted session is freed, unless a reference leaked or some thread stays in its
channel for ever.

`NoDanglingItem` is about items that are deleted once, because a double
deletion is reachable: the termination of a debugger deletes its sessions in a
loop, while the nested termination of the debuggee starts a system thread that
deletes the same session; each drops the list's reference. Two terminations of
one process do the same.

Other behaviour seen while modelling, on which no run is spent: two
threads that attach at once make two active sessions for one process; with
`DBG_TERMINATED` masked, the session of a terminated debuggee stays active and
a pending get message does not return; a debugger that creates a thread in its
debuggee waits for its own answer; `RemoveEntryList` runs outside
`dbg_item_lock`; `NewNtTerminateProcess` passes `NtCurrentProcess` on where its
caller passed `NULL`.

### Proofs

`SessionProofs`, for any finite sets of threads, workers and items, any processes and
any number of terminations: `SessionsHaveTypes`, `RefsAreExact`, `NoneDangling`,
`ChannelsArePresent`. The inductive invariant is `SessionInv`:

* `SessionType`, `ItemInv`: an item that is not in use has no history, an active
  one has a channel and was not deleted;
* `FrameInv`: what each frame knows of its item at each place;
* `CreateInv`: `dbg_attach_call` has a new item for itself until it activates it;
* `CountInv`: `RefsExact`, and that the set of holders is finite;
* `DeadInv`: an item deleted once whose count is zero has no holder, before it
  is destroyed and after;
* `ListInv`: the list has an item once, and destroyed ones not at all.

`RefsExact` counts frames of all stacks. A stack grows and shrinks at its head,
which renumbers every frame; the proof therefore numbers them from the outermost
one (`Outer`), where a call or a return touches one number only, and each action adds or
removes one holder (the lemmas about `Holders`). `ExitSelf`, which throws a stack
away, is the one action that removes many; there `leaked` grows by as many.

Only model-checked: `SessionEnds`.

## 5. Loader and Syscall

`Loader`: each client runs `dbg_initialize_api` as steps (ask for the version,
create or open the service, open the key, one step per symbol, the key, start,
delete, close). The service manager is external: a deleted service lives until
its last handle is closed, and a start runs `DriverEntry` once. `DriverEntry`
is a step per value and per hook, each of which may fail; `hooks` are the
functions that are patched. A driver that fails is unloaded, its hooks are not.

Its last hook done, `init_debug` registers the image notification (`notify`).

`Syscall` extends it with the library's functions. Each is a record of what it
opens first and of the one other call it makes; `pc` is its place (`open`, `body`,
`close`), and `Continue` says where it goes after each call, successful or not.
`h_proc` is its local handle, `open` counts the handles that are open.
The dispatcher (`disp`) goes through the probe of the caller's structure and its
limits (one step that may fail), the lock of either buffer in its three steps,
the handler and the cleanup; `held` is what the two buffer locks hold, `refs` the
process references of the handlers. A client may be killed anywhere; a thread
inside the driver goes on until it is back in user mode. A client that has the
driver terminate its own process does not come back (`HandlerEnds`, `disp` is
`ended`): its input buffer stays locked.

The run `syscall` has two interchangeable clients with the same key, three
initialisations and one library call each. It shows

* `StartSound`: whatever the other client deletes or leaves behind, a driver
  that is started finds every value it reads (`ValuesPresent`), and hooks into
  an unloaded driver come only from a `set_hook` that refused a function, never
  from a missing value (`CleanFailure`);
* `InitMeansUsable`: who got 1 from `dbg_initialize_api` is served. This needs
  one key: otherwise a client may overwrite the other's `sc_key` between its
  steps and its start;
* `NothingHeld`: every way back from a system call has unlocked both buffers and
  dropped the reference, and one that does not come back leaves at most its input
  buffer locked;
* `HandlesClosed`: by whichever exit a library function returns, its handles are
  closed, none twice.

Two clients are enough for a deletion between any two steps of the other, three
initialisations for a retry after both.

`SyscallProofs` proves all four for any number of clients and calls, killed anywhere:
`StartIsSound` from `LoadInv` (`LoadType`; `StoredInv`: a client with a handle
keeps what it has stored from being deleted; `EntryInv`: how many functions are
hooked at each step of `DriverEntry`); `InitIsUsable`, with
the hypothesis `SameKeys` that the run has too, from `KeyInv` added to it;
`NothingStaysHeld` and `HandlesAreClosed` from `CallInv`, which says what is held
at each step of the dispatcher (`LocksAt`) and how many handles are open at each
place of a library function (`HandlesAt`). The assumption is `LoaderAssumption`: no client's
key is the value that stands for no key.

Seen on the way: `dbg_detach_debugger` does nothing, so that a session ends
only with a process; the header declares `dbg_continue_event`, the library
defines `dbg_countinue_event`; an exit status equal to `sc_key` is taken for a
call.

## 6. CodeHook and Ldasm

`CodeHook`: `mem` maps addresses to bytes, each of which knows the instruction
it is part of, so that a jump of which only a part is written can be told from a
whole one. The patching processor runs `set_hook` (`hot_patch`, then
`hook_code`), one store per action. Other processors call the function, one
instruction per action, and take the DPC at any moment between two; `trace` and
`seen` record what a call executed and which hooks it passed. The barrier has
the code's counters and one action per access to them.

The run `code_hook` has two other processors with one call each, a function
hooked twice (as `NtTerminateProcess` is), and six functions that take every
way: hot patch with and without a buffer, too short a first instruction,
splicing, a relative jump to correct, one that cannot be moved. It shows
`PatchAlone`, `PoolExact` and `AllReleased` of the barrier, `NoTorn`,
`Transparent` and `HooksRun` of the code. `NoTorn` has one exception, which the
code leaves open: a processor that was interrupted *inside* the prologue resumes in the
middle of the new jump. Left out by `CodeHookAssumption`: a padded function that
begins with a short jump, which `hot_patch` copies uncorrected, and relative
branches with a prefix, of which `hook_code` corrects the wrong bytes (it expects
the displacement after one or two bytes). Otherwise a
function is any sequence of instructions of 1 to 15 bytes. The function begins
at address 0 and hook `h` has its buffer and its procedure at `-100 * h` and
below, so that they never overlap. On a machine with one processor nobody frees the DPC array (`PoolExact` says `Cpus # {}`).

Fairness: weak fairness of the patching processor and of a processor in its
DPC, which nothing can interrupt.

`CodeHookProofs` proves all five invariants for any finite set of processors,
functions of any length and any number of hooks. `PatchesAlone` and
`PoolIsExact` rest on `BarrierInv`: what `global_lock` sees are counters. It is `BarrierType`; `CountInv`, which
makes each counter the size of a set of processors (`Pending`, `ToRefs`, `ToOut`);
`HoldInv`, where those are at each step of `set_hook`; and `PoolInv`. A second
`global_lock` sets the counters anew, which is right only because `global_unlock`
has waited for `out_dpcs`: outside of the lock `ToOut` is empty.

`NothingTorn`, `CallsTransparent` and `HooksAllRun` rest on `CodeInv`, which is
inductive together with `BarrierInv` (a processor that executes is in no DPC, so
no prologue is half overwritten, `NotSplicing`). Its parts:

* `BytesInv`, the function's bytes at each step of `set_hook`: from `Width` on
  (2 for a hot patch, 5 for a splice) they are the original ones; as long as no
  hook is in place all are; once one is, the newest hook's jump is whole;
* `ChainInv`, where `old_proc` of each hook leads: the oldest one's behind the
  dropped `mov edi, edi` or to the moved prologue, every other one's to the hook
  set before it, directly or through a moved jump;
* `PlaceInv`, where a processor may be, with what it has executed by then and
  which hooks it has passed and still owes: at the beginning, at the jump in the
  padding, at a hook procedure, at a moved jump, in a moved prologue, in the
  function, or stranded in the prologue.

Its lemmas go from bytes to instructions: `OffDef` and `OffOrder` (offsets of the
instructions, by induction over a set of numbers), `OriginalIs` (an address
belongs to one instruction), `InstrDecode` and `JumpDecode` (bytes that are in
place decode to their instruction), `BufferStored`, `FreshCount` (`hook_code` moves
5 to 19 bytes, so its buffer of 64 is large enough), `MovedBytes` (what is moved
has its old targets). Then there is one lemma for each step of `set_hook`, and one
for each place a processor may execute from.

`Ldasm` has the decoder with its packed table and, as the reference, the 32-bit
opcode map by classes. The state is one input; `ldasm` tries all opcodes the
table's generation knows (`Uncovered` lists the others) with five prefix
sequences, ModRM bytes with every `mod`, every `rm` that matters and
two values of `reg`, and SIB bytes with and without a base. `Relocatable` is for
instructions without a prefix: `x_code_flags` skips none.

## 7. UiLoop

A tracer thread per session is in one of the thunks of `MainFrame` (`pc`: `d_`
debug event, `e_` exception, `p_` process event), one action per field it
writes, event it posts, or step of the wait. wxCondition, posted events and the
tracer are external: `cond` is the pair of counters of a wxWidgets condition,
`queue` the posted events, `valid` the sessions the tracer still knows. `gui`
is the stack of handlers the GUI thread is in: the exception dialog and the
register editor pump events while they are open. The file dialog does so too, but
`OnOpenModule` has done nothing before it, so that events handled in it are events
handled before the action `OpenClose`.

The run `ui_loop` has two sessions opened one after the other, two stops each, two
threads and one register edit. It shows `ViewsShowStop`, `ResumedByCommand`,
`NoCrashWhileOpen` and `StopLeft`. The first two exclude
overlapping sessions, where they fail: opening a module does not wait for the
tracer thread of the session it closes, and both then use `m_trc_debug` and the
one condition.

The liveness property `StopLeft` includes overlapping sessions: commands let a
stopped debuggee go. With overlap its tracer thread is woken, but it may block
for ever on `m_debug_mutex`: the thread that is woken first owns the mutex when its
wait returns, and the thunk does not unlock it. `StopLeft` says that this is the
only way not to be let go, and that it takes an overlap.

Fairness: weak fairness of the tracer threads and of the GUI thread handling
posted events; that dialogs are closed (weak) and that the user gives commands
again and again (strong: a command can be given only while no dialog is
open). The last is an assumption about the user. It is needed because a command given before the thread waits
is lost. An answer to an exception cannot be repeated, and may be lost in the same
way; so no liveness property is stated for it.

`UiLoopProofs` proves `ViewsAreCurrent`, `StopsAreLeftOnCommand` and
`OpenSessionsAreSafe` for any number of sessions, stops, threads and edits. `UiInv`
is `UiType`; `SessionInv` (the tracer knows the current session or none, and
while sessions do not overlap only its thread is in a thunk); `ClosedInv` (why an
event can be of a session that is over); `CommandInv` and `ResumeInv` (the
condition has one waiter or one permit, and a permit means a command);
`DebugInv` (`m_trc_debug` from the thunk to the frames); `ViewInv` (each frame
shows the stop, or an event on its way to it or a handler at work will make it).
`ViewInv` is the hard one: the register editor writes to the debuggee while
its dialog pumps the events of the next stop. The assumption is `UiAssumption`.

Modelled and worth knowing: the answer of the exception dialog is compared with
`wxID_YES` where the function returns `wxYES`, so it is always "not handled".

## 8. MemCtrl

The three columns with the code's pixel and character arithmetic; a text is
its base address and length, a selection its first point and the set of its
points. The actions are the event handlers, the dump that `MemFrame` and
`StackFrame` put in, and the paint. A border moved is pushed on at the next
paint. A read past the end of a text may find anything (`Stray`).

The run `mem_ctrl`: three rows of sixteen bytes, windows of one to three rows, four
inputs, mouse positions on both borders and in cells of both columns. Four
inputs are a press, two moves and a release or a scroll between them. It shows
`ColumnsAlign` (`RowsAligned` and `ColumnsAdjacent`), `DataKept`,
`SelectionsAgree` and `AnchorKept`. `DataKept` is an action property: a dump that is
on the screen leaves it in two ways only, both of which TLC reaches. In a window of
one row, to which `UpdateWindowSize` clamps, `LINEDOWN` and `DOWN` go one line past
the last; and `END` with fewer lines than rows makes the position negative, from
where a smaller window shows none of the lines.

`MemCtrlProofs` proves all four (`DataKept` as `DumpIsKept`, from `ScrollInv`) for any font, dump size, window sizes, mouse
positions and number of inputs. `MemInv` is `MemType`; `ScrollInv`; `OneDump`
(the columns are scrolled alike and have no text or one dump, 16 bytes to a
row); `Adjacent`; and `Selected`: the bytes of the two selections are the same, and a
selection in the hex column begins at most two characters before its row. The last
is what makes the truncating division by three right: `SelectHexPoint` and
`SelectHexLines` can select the cell left of the first one. `AnchorKept` needs
`Anchored` besides: the first points of the two selections are one byte, and
in the dump that of the hex column is a character of its row, so that a drag that
rebuilds the selection row by row starts at the same byte. The minimum and maximum of the cells
under the mouse come from well-founded induction on sets (`MinMax`). `MemAssumption` says that
a dump is a number of rows of 16 bytes, as the code's 1024, and that a window
has a height of at least 10 pixels.

## 9. Gui: CpuView and Layout

`CpuView`: a stop disassembles 0x30 bytes and 16 more in two passes; a right
click remembers a row; the menu's command posts the text of its address, which
`OnMsgBP` turns back into a number, cuts to eight bits and passes to the
tracer; `OnAddBP` shows the tracer's list. Stops arrive while the menu is open.
`OnOpenModule` closes the session (`sid`, `ses`) and opens the next; the tracer
then forgets its breakpoints, while the rows, the menu's text and the posted events
of the old one stay. A stop is in a module or outside of all: `OnAddBP`
dereferences `CurrentModule` for each row, and the list of a session that may be
over, and crashes when either is NULL.
`Layout`: `ngdbg.ini` is read at the start and written at an orderly exit. A
debugger that does not find the driver shows a message box (`failed`), and saves
what it has loaded when the box is answered; others may save in between.
`Gui` composes them: the frames of one debugger begin and end with its process.

The run `gui_cpu`: one debugger started twice, two sessions, two stops at two
places that differ by 256 in threads that do so too, two requests. It shows
`RowsAreCode` (`DecodeInBuffer` and `RowsOwnText`), `RequestedRow` and
`BpRowsCurrent`. The code at one stop has two instructions whose text has no space,
at the other one that does not decode. The run `gui_layout`: two debuggers, four
starts, kills, two changes of the layout. It shows `LayoutRestored`.

`RequestedRow` has two parts: until `OnMsgBP` a request's text is the address of the
row that was clicked, and a breakpoint is at that address modulo 256. So for every
address above 255 the breakpoint is at another place: that is what the code does.
`BpRowsCurrent` is about rows of the session that is open. Rows of a session that
was closed stay in the breakpoint frame until the next request, although the tracer
has no such breakpoints.

Address digits are four instead of
eight, the buffer is 4 + 3 bytes instead of 48 + 16 (instructions of three
bytes instead of fifteen); both keep the boundary cases.

`GuiProofs` proves `LayoutIsRestored`, an action property, for any number of debuggers,
panes, starts and changes, from `LayoutInv` (`LayoutType` and `Saved`: the file
has what the latest orderly exit had on the screen), and `BpRowsAreCurrent` for
any number of sessions, threads, stops and requests, where the
property is inductive with `BpInv` (a breakpoint is
set by the same step that passes the request on to the frame). `LayoutAssumption`
only says that the value that stands for a missing entry is no entry. The order
of the tracer's list is left open (`SetToSeq`).

It also proves, for any code, any number of bytes asked for and any sequence of
stops, `RowsAreTheCode`, and for any number of digits `RequestsNameTheirRow`.
Both are about recursive functions, and rest on induction stated for a set instead of
a predicate (`SetInduction`, from the library's well-founded induction), which the
provers can use. From it follow that each recursive function satisfies its equation
(`SumsExist`, `TurnsExist`, `IteratesExist`); that the instructions `GetCmdCount` has
counted begin among the bytes asked for (`CountedInMemory`: the last can end at most
`Slack` bytes later, as no instruction is longer); that after k turns the second pass stands where
the first had counted to (`Done`, with the text left in `str_hex`); and that after
k digits `htodw` has the address divided by 16 to the `Digits` - k (`HtodwInvertsFormat`).
`CodeInv` adds to `RowsAreCode` that text is left only of an instruction without a space and
that the posted stops are stops; `RequestInv` that the texts of rows, menu and
requests are digits of their addresses. `CpuAssumption` says that an address has
`Digits` digits, that an instruction is at most `Slack` bytes long (15 in the
processor, 16 in the code) and that the bytes after a stop can be read; `AddItem`
covers the case that they cannot.

Modelled and worth knowing: because of the cut the breakpoint is set at another
address; the menu item is called "Toggle" and only ever adds; a request after
the session is over crashes on a NULL list, or earlier on the freed record of the
thread.

In the runs of sections 5 to 9 the bounds stop the system, so that deadlock
checking is off.

## 10. Findings

One violation run is kept. `channel_dropped`: the callers of
`channel_send_recv` say "send debug event and wait replay" (`debug.c:467`), but
a sender that loses the compare-exchange returns without having sent.

Other disagreements TLC finds when an instance of section 3 or 4 is widened:

* early take: with two debugger threads, one that was woken for an earlier event takes the
  next transaction before its data is in the channel (`Debuggers` with two
  threads, `TakerOwnsTransaction`);
* stale answer: a reporter killed in its wait leaves before the debugger
  signals; the next reporter takes that answer for its own (`Killable` with a
  sender, `ReplyMatches`);
* the debugger's `channel_send` for a killed reporter loops for ever;
* an attach between `dbg_find_item` and `active = 1` while its process is
  terminated leaves an active session without a debugger;
* `dbg_terminate_process` looks a handle up as a process id and reports that
  process as terminated.

## 11. Mutants

Each property has a mutant: a fault operator in its module (under "Plausible
faults" or "Mutant") that replaces one mapped step, and with which the
property fails in its own run. `Next` uses none of them.

## 12. Only model-checked, and not modelled

Of the properties of the passing runs these have no theorem:

* liveness, which is outside the prover: `EventAnswered`, `ReleaseDrains`,
  `SessionEnds`, `AllReleased`, `StopLeft`;
* `LengthMatches` and `Relocatable` of `Ldasm`: a table of 512 entries against
  an opcode map, for which the run tries the inputs one by one.

Everything else is proved for every value of the constants that satisfies the
assumption of its module, which TLC evaluates for the values of the runs. No
assumption restricts what the threads, users or processors do, except the
hypotheses written in the theorems: no reporter is terminated (`OwnersExclude`), and also one
debugger thread (`AnswersAreOwn`, `TakersOwn`, `BuffersUnshared`,
`ChannelImplements`), one key (`InitIsUsable`).

Not modelled:

* code that is never called: `sdt_hook.c`, `new_zw_term_proc`, the registry
  functions that create, set, enumerate and delete, the console helpers in
  `debugger.cpp`, most handlers of `listview.cpp` and `cpulistview.cpp` (empty
  or commented out), the stubs at the end of `dbgapi.c`;
* drawing, captions, fonts, tool bars, menus and window decoration;
* message contents, the loop over the exception filters (it has no effect), the
  links of the session list;
* `DllMain` and privileges; `mem_open` and `mem_close`, which change only the
  patching processor;
* the tracer library, the disassembler library, wxWidgets, the kernel and the service
  manager, except as the code uses them (marked external in `PROJECT.json`);
* declarations: `ntdll.h`, `pedef.h`, `extdef.h`, `pdbparser.h`.
