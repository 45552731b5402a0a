--------------------------- MODULE SyscallProofs ----------------------------
(***************************************************************************)
(* Theorems about Loader and Syscall for every set of clients and every    *)
(* bound: the start of the driver and what a library call gives back.      *)
(***************************************************************************)
EXTENDS Syscall, SequenceTheorems, TLAPS

-----------------------------------------------------------------------------
\* Loading the driver.

\* The values dbg_build_start_params stores.
Symbols == {req_symbols[k] : k \in 1 .. 9}
Values == Symbols \cup {"sc_key"}

\* How many functions DriverEntry has hooked when it is at this step.
HookedAt(n) == IF n <= 4 THEN 0 ELSE IF n <= 8 THEN n - 4 ELSE 4

LibPC == {"idle", "version", "create", "open", "params", "symbol", "key", "start",
          "starting", "delete", "close", "thrown"}

LoadType ==
  /\ svc \in {"none", "live", "marked"} /\ handles \subseteq Clients
  /\ drv \in {"absent", "entry", "loaded", "failed"} /\ at \in 0 .. 9
  /\ refused \in BOOLEAN /\ notify \in BOOLEAN
  /\ hooks \in Seq(Values)
  /\ lib \in [Clients -> LibPC] /\ sym \in [Clients -> 1 .. 9]
  /\ result \in [Clients -> 0 .. 1]

\* A client between dbg_install_sc and CloseServiceHandle has a handle, which
\* keeps the values it has stored in the registry, and those of a client that
\* has begun to start the driver are all there.
StoredInv ==
  /\ \A c \in Clients :
       lib[c] \in {"params", "symbol", "key", "start"} => c \in handles
  /\ \A c \in Clients : lib[c] = "symbol" =>
       \A k \in 1 .. sym[c] - 1 : req_symbols[k] \in reg
  /\ \A c \in Clients : lib[c] = "key" => Symbols \subseteq reg
  /\ \A c \in Clients : lib[c] = "start" => Values \subseteq reg
  /\ drv = "entry" => Values \subseteq reg

\* What DriverEntry has done so far.
EntryInv ==
  /\ drv = "absent" => hooks = << >>
  /\ drv = "entry" => Len(hooks) = HookedAt(at) /\ ~refused
  /\ drv # "loaded" => Len(hooks) < 5
  /\ notify => hooks # << >>
  /\ CleanFailure

LoadInv == LoadType /\ StoredInv /\ EntryInv

\* With one key for all clients: the registry, and after step 8 the driver,
\* have that key.  Only a loaded driver makes dbg_initialize_api return 1.
SameKeys == \A c, d \in Clients : Key[c] = Key[d]
KeyInv ==
  /\ "sc_key" \in reg => \A c \in Clients : regkey = Key[c]
  /\ drv = "entry" /\ at = 9 => \A c \in Clients : sc_key = Key[c]
  /\ drv = "loaded" => Len(hooks) = 5 /\ \A c \in Clients : sc_key = Key[c]
  /\ \A c \in Clients : result[c] = 1 => drv = "loaded"

LEMMA StepsAre ==
  /\ Len(Steps) = 8
  /\ \A k \in 1 .. 8 : Steps[k].name \in Values /\ Steps[k].hook \in BOOLEAN
  /\ \A k \in 1 .. 8 : Steps[k].hook <=> k \in {3, 4, 5, 6, 8}
  /\ \A k \in 1 .. 8 : Steps[k].name = "sc_key" <=> k = 7
  /\ \A k \in 1 .. 8 : Steps[k].name = "KiDispatchException" => k = 6
<1> DEFINE S == {Read(n) : n \in Values} \cup {Hook(n) : n \in Values}
<1>1. {"ThreadListEntry", "NtResumeThread", "NtTerminateProcess", "NtTerminateThread",
       "NtCreateThread", "KiDispatchException", "sc_key"} \subseteq Values
  <2>1. /\ "ThreadListEntry" = req_symbols[9] /\ "NtResumeThread" = req_symbols[5]
        /\ "NtTerminateProcess" = req_symbols[4] /\ "NtTerminateThread" = req_symbols[7]
        /\ "NtCreateThread" = req_symbols[6] /\ "KiDispatchException" = req_symbols[8]
    BY DEF req_symbols
  <2> QED BY <2>1 DEF Symbols, Values
<1>2. init_debug \in Seq(S) /\ Len(init_debug) = 6
  BY <1>1 DEF init_debug
<1>3. init_syscall \in Seq(S) /\ Len(init_syscall) = 2
  BY <1>1 DEF init_syscall
<1> HIDE DEF S
<1>4. /\ Len(Steps) = 8
      /\ \A k \in 1 .. 8 : Steps[k] = IF k <= 6 THEN init_debug[k] ELSE init_syscall[k - 6]
  <2>1. /\ Len(Steps) = Len(init_debug) + Len(init_syscall)
        /\ \A k \in 1 .. Len(init_debug) + Len(init_syscall) :
             Steps[k] = IF k <= Len(init_debug) THEN init_debug[k]
                                                ELSE init_syscall[k - Len(init_debug)]
    BY <1>2, <1>3, ConcatProperties DEF Steps
  <2> QED BY <1>2, <1>3, <2>1
<1>5. /\ Steps[1] = Read("ThreadListEntry") /\ Steps[2] = Read("NtResumeThread")
      /\ Steps[3] = Hook("NtTerminateProcess") /\ Steps[4] = Hook("NtTerminateThread")
      /\ Steps[5] = Hook("NtCreateThread") /\ Steps[6] = Hook("KiDispatchException")
      /\ Steps[7] = Read("sc_key") /\ Steps[8] = Hook("NtTerminateProcess")
  BY <1>4 DEF init_debug, init_syscall
<1>6. \A k \in 1 .. 8 : k \in {1, 2, 3, 4, 5, 6, 7, 8}
  OBVIOUS
<1>7. \A k \in 1 .. 8 : Steps[k].name \in Values
  BY <1>1, <1>5, <1>6 DEF Read, Hook
<1>8. \A k \in 1 .. 8 : Steps[k].hook \in BOOLEAN /\ (Steps[k].hook <=> k \in {3, 4, 5, 6, 8})
  <2>1. /\ Steps[1].hook = FALSE /\ Steps[2].hook = FALSE /\ Steps[3].hook = TRUE
        /\ Steps[4].hook = TRUE /\ Steps[5].hook = TRUE /\ Steps[6].hook = TRUE
        /\ Steps[7].hook = FALSE /\ Steps[8].hook = TRUE
    BY <1>5 DEF Read, Hook
  <2> QED BY <1>6, <2>1
<1>9. \A k \in 1 .. 8 : /\ Steps[k].name = "sc_key" <=> k = 7
                        /\ Steps[k].name = "KiDispatchException" => k = 6
  BY <1>5, <1>6 DEF Read, Hook
<1> QED BY <1>4, <1>7, <1>8, <1>9

LEMMA SymbolsAre == Len(req_symbols) = 9
BY DEF req_symbols

LEMMA LoadInvInit == LoadInit => LoadInv
<1> SUFFICES ASSUME LoadInit PROVE LoadInv
    OBVIOUS
<1>1. hooks \in Seq(Values) /\ Len(hooks) = 0
  BY DEF LoadInit
<1>2. /\ lib \in [Clients -> LibPC] /\ sym \in [Clients -> 1 .. 9]
      /\ result \in [Clients -> 0 .. 1]
  BY DEF LoadInit, LibPC
<1>3. refused \in BOOLEAN /\ notify \in BOOLEAN /\ ~notify
  BY DEF LoadInit
<1>4. LoadType
  BY <1>1, <1>2, <1>3 DEF LoadInit, LoadType
<1> QED BY <1>1, <1>3, <1>4 DEF LoadInit, LoadInv, StoredInv, EntryInv, CleanFailure, Dangling

\* The values of a client that has stored them outlive a handle that is closed:
\* its own is still open.
LEMMA ClosedKeeps ==
  ASSUME LoadInv, NEW c \in Clients, Closed(c), UNCHANGED drv
  PROVE  /\ handles' = handles \ {c} /\ svc' \in {"none", "live", "marked"}
         /\ \/ UNCHANGED <<svc, reg, regkey>>
            \/ /\ drv # "entry" /\ reg' = {} /\ svc' = "none"
               /\ \A d \in Clients \ {c} : d \notin handles
BY DEF LoadInv, LoadType, Closed, Running

LEMMA LoadClient ==
  ASSUME LoadInv, ~Dangling, NEW c \in Clients, dbg_initialize_api(c)
  PROVE  LoadInv'
<1> USE SymbolsAre
    DEF LoadInv, LoadType, StoredInv, EntryInv, CleanFailure, Dangling, Step, LibPC,
        kernel, service, client, Symbols, Values
<1>1. CASE Initialize(c) BY <1>1 DEF Initialize
<1>2. CASE Version(c) 
  <2>1. UNCHANGED <<kernel, service, sym>>
    BY <1>2 DEF Version
  <2>2. PICK to \in {"idle", "create"}, v \in 0 .. 1 :
          lib' = [lib EXCEPT ![c] = to] /\ result' = [result EXCEPT ![c] = v]
    BY <1>2 DEF Version
  <2>3. /\ lib' \in [Clients -> LibPC] /\ result' \in [Clients -> 0 .. 1]
        /\ \A d \in Clients : lib'[d] = lib[d] \/ lib'[d] \in {"idle", "create"}
    BY <2>2
  <2> QED BY <2>1, <2>3
<1>3. CASE CreateService(c)
  <2>1. UNCHANGED <<kernel, reg, regkey, sym, result>>
    BY <1>3 DEF CreateService
  <2>2. CASE svc = "none"
    <3>1. lib' = [lib EXCEPT ![c] = "params"] /\ svc' = "live" /\ handles' = handles \cup {c}
      BY <1>3, <2>2 DEF CreateService
    <3>2. LoadType' BY <2>1, <3>1
    <3>3. StoredInv' /\ EntryInv' BY <2>1, <3>1
    <3> QED BY <3>2, <3>3
  <2>3. CASE svc # "none"
    <3>1. lib' = [lib EXCEPT ![c] = "open"] /\ svc' = svc /\ handles' = handles
      BY <1>3, <2>3 DEF CreateService
    <3>2. LoadType' BY <2>1, <3>1
    <3>3. StoredInv' /\ EntryInv' BY <2>1, <3>1
    <3> QED BY <3>2, <3>3
  <2> QED BY <2>2, <2>3
<1>4. CASE OpenService(c) BY <1>4 DEF OpenService
<1>5. CASE InstallFailed(c) BY <1>5 DEF InstallFailed
<1>6. CASE OpenKey(c) BY <1>6 DEF OpenKey
<1>7. CASE WriteSymbol(c)
  <2>1. /\ UNCHANGED <<kernel, svc, handles, regkey, result>> /\ lib[c] = "symbol"
        /\ reg' = reg \cup {req_symbols[sym[c]]} /\ sym[c] \in 1 .. 9
    BY <1>7 DEF WriteSymbol
  <2>2. EntryInv'
    BY <2>1
  <2>3. CASE sym[c] < 9
    <3>1. sym' = [sym EXCEPT ![c] = @ + 1] /\ lib' = lib
      BY <1>7, <2>3 DEF WriteSymbol
    <3>2. LoadType' BY <2>1, <2>3, <3>1
    <3>3. \A k \in 1 .. sym'[c] - 1 : req_symbols[k] \in reg'
      <4>1. sym'[c] - 1 = sym[c] /\ \A k \in 1 .. sym[c] : k \in 1 .. sym[c] - 1 \/ k = sym[c]
        BY <2>1, <3>1
      <4> QED BY <2>1, <4>1
    <3>4. \A d \in Clients \ {c} : sym'[d] = sym[d]
      BY <3>1
    <3>5. StoredInv' BY <2>1, <3>1, <3>3, <3>4
    <3> QED BY <2>2, <3>2, <3>5
  <2>4. CASE ~(sym[c] < 9)
    <3>1. sym' = sym /\ lib' = [lib EXCEPT ![c] = "key"] /\ sym[c] = 9
      BY <1>7, <2>1, <2>4 DEF WriteSymbol
    <3>2. LoadType' BY <2>1, <3>1
    <3>3. Symbols \subseteq reg'
      <4>1. \A k \in 1 .. 9 : k \in 1 .. sym[c] - 1 \/ k = sym[c]
        BY <3>1
      <4> QED BY <2>1, <4>1
    <3>4. StoredInv' BY <2>1, <3>1, <3>3
    <3> QED BY <2>2, <3>2, <3>4
  <2> QED BY <2>3, <2>4
<1>8. CASE WriteKey(c) BY <1>8 DEF WriteKey
<1>9. CASE ParamsFailed(c) BY <1>9 DEF ParamsFailed
<1>10. CASE get_symbols_callback(c) BY <1>10 DEF get_symbols_callback
<1>11. CASE StartService(c) 
  <2>2. lib' \in [Clients -> LibPC] /\ lib'[c] \in {"starting", "delete"}
    BY <1>11 DEF StartService
  <2>3. \A d \in Clients \ {c} : lib'[d] = lib[d]
    BY <1>11 DEF StartService
  <2>4. UNCHANGED <<hooks, notify, sc_key, service, sym, result>>
    BY <1>11 DEF StartService
  <2>5. CASE svc = "live" /\ ~Running
    <3>1. drv' = "entry" /\ at' = 0 /\ refused' = FALSE
      BY <1>11, <2>5 DEF StartService
    <3>2. Values \subseteq reg
      BY <1>11 DEF StartService
    <3>3. Len(hooks) = 0
      BY <2>5 DEF Running
    <3>4. LoadType'
      <4>1. refused' \in BOOLEAN BY <3>1
      <4> QED BY <2>2, <2>4, <3>1, <4>1
    <3>5. StoredInv' BY <2>2, <2>3, <2>4, <3>1, <3>2
    <3>6. EntryInv' BY <2>4, <3>1, <3>3 DEF HookedAt
    <3> QED BY <3>4, <3>5, <3>6
  <2>6. CASE ~(svc = "live" /\ ~Running)
    BY <1>11, <2>2, <2>3, <2>4, <2>6 DEF StartService
  <2> QED BY <2>5, <2>6
<1>12. CASE DeleteService(c) BY <1>12 DEF DeleteService
<1>13. CASE CloseServiceHandle(c) BY <1>13, ClosedKeeps DEF CloseServiceHandle
<1>14. CASE KillClient(c) BY <1>14, ClosedKeeps DEF KillClient
<1> QED BY <1>1, <1>2, <1>3, <1>4, <1>5, <1>6, <1>7, <1>8, <1>9, <1>10, <1>11,
           <1>12, <1>13, <1>14 DEF dbg_initialize_api

\* The end of DriverEntry, whatever its status: the registry key goes only when
\* no client has a handle.
LEMMA FinishKeeps ==
  ASSUME LoadInv, drv = "entry", NEW status \in {0, 1}, Finish(status),
         UNCHANGED <<handles, sym>>
  PROVE  /\ StoredInv'
         /\ drv' = IF status = 1 THEN "loaded" ELSE "failed"
         /\ svc' \in {"none", "live", "marked"}
         /\ lib' \in [Clients -> LibPC] /\ result' \in [Clients -> 0 .. 1]
<1> USE DEF LoadInv, LoadType, LibPC
<1>1. /\ drv' = IF status = 1 THEN "loaded" ELSE "failed"
      /\ svc' \in {"none", "live", "marked"}
  BY DEF Finish
<1>2. lib' \in [Clients -> LibPC] /\ result' \in [Clients -> 0 .. 1]
  BY DEF Finish
<1>3. \A c \in Clients : lib'[c] = lib[c] \/ lib'[c] = "delete"
  BY DEF Finish
<1>4. reg' = reg \/ handles = {}
  BY DEF Finish
<1> QED BY <1>1, <1>2, <1>3, <1>4 DEF StoredInv

\* The value DriverEntry is about to read.
LEMMA NowIs ==
  ASSUME LoadInv, drv = "entry", at > 1
  PROVE  /\ at - 1 \in 1 .. 8 /\ Now.name \in Values /\ Now.name \in reg
         /\ Now.hook \in BOOLEAN /\ (Now.hook <=> at \in {4, 5, 6, 7, 9})
         /\ Now.name = "sc_key" <=> at = 8
         /\ Now.name = "KiDispatchException" => at = 7
<1>1. at - 1 \in 1 .. 8
  BY DEF LoadInv, LoadType
<1>2. Values \subseteq reg
  BY DEF LoadInv, StoredInv
<1> QED BY <1>1, <1>2, StepsAre DEF Now

LEMMA LoadDriver ==
  ASSUME LoadInv, DriverEntry
  PROVE  LoadInv'
<1>1. CASE reg_open_key \/ get_kernel_base
  <2>1. drv = "entry" /\ at \in {0, 1} /\ UNCHANGED <<refused, hooks, notify, handles, sym>>
    BY <1>1 DEF reg_open_key, get_kernel_base, service, client
  <2>2. CASE at' = at + 1 /\ UNCHANGED <<drv, service, client>>
    BY <2>1, <2>2 DEF LoadInv, LoadType, StoredInv, EntryInv, CleanFailure, Dangling,
       HookedAt, service, client
  <2>3. CASE Finish(0) /\ UNCHANGED at
    <3>1. Len(hooks) = 0 /\ hooks = << >>
      BY <2>1 DEF LoadInv, LoadType, EntryInv, HookedAt
    <3> QED BY <2>1, <2>3, <3>1, FinishKeeps DEF LoadInv, LoadType, EntryInv, CleanFailure,
               Dangling
  <2> QED BY <1>1, <2>2, <2>3 DEF reg_open_key, get_kernel_base
<1>2. CASE ReadValue
  <2>1. drv = "entry" /\ at > 1 /\ UNCHANGED <<refused, handles, sym>>
    BY <1>2 DEF ReadValue
  <2>2. /\ hooks' = IF Now.hook THEN Append(hooks, Now.name) ELSE hooks
        /\ \/ /\ at < 9 /\ at' = at + 1
              /\ UNCHANGED <<drv, svc, reg, regkey, lib, result>>
           \/ at = 9 /\ Finish(1) /\ UNCHANGED at
    BY <1>2, <2>1, NowIs, StepsAre DEF ReadValue, reg_query_val, LoadInv, LoadType
  <2>6. notify' \in BOOLEAN /\ (notify' => notify \/ Now.hook)
    BY <1>2, <2>1, NowIs DEF ReadValue, reg_query_val, LoadInv, LoadType
  <2>7. notify' => hooks' # << >>
    BY <2>1, <2>2, <2>6, NowIs DEF LoadInv, LoadType, EntryInv
  <2>3. hooks' \in Seq(Values) /\ Len(hooks') = IF at \in {4, 5, 6, 7, 9}
                                               THEN Len(hooks) + 1 ELSE Len(hooks)
    BY <2>1, <2>2, NowIs DEF LoadInv, LoadType
  <2>4. CASE at < 9
    BY <2>1, <2>2, <2>3, <2>4, <2>6, <2>7 DEF LoadInv, LoadType, StoredInv, EntryInv,
       CleanFailure, Dangling, HookedAt
  <2>5. CASE at = 9
    BY <2>1, <2>2, <2>3, <2>5, <2>6, <2>7, FinishKeeps DEF LoadInv, LoadType, EntryInv, CleanFailure,
       Dangling
  <2> QED BY <2>1, <2>4, <2>5 DEF LoadInv, LoadType
<1>3. CASE HookRefused
  <2>1. /\ drv = "entry" /\ refused' = TRUE /\ Finish(0)
        /\ UNCHANGED <<at, hooks, notify, handles, sym>>
    BY <1>3 DEF HookRefused
  <2> QED BY <2>1, FinishKeeps DEF LoadInv, LoadType, EntryInv, CleanFailure, Dangling
<1> QED BY <1>1, <1>2, <1>3 DEF DriverEntry

LEMMA LoadStep == LoadInv /\ [Next]_vars => LoadInv'
<1> SUFFICES ASSUME LoadInv, [Next]_vars PROVE LoadInv'
    OBVIOUS
<1>1. CASE Load
  BY <1>1, LoadClient, LoadDriver DEF Load, LoadNext
<1>2. CASE UNCHANGED loadVars
  BY <1>2 DEF LoadInv, LoadType, StoredInv, EntryInv, CleanFailure, Dangling, loadVars,
     kernel, service, client
<1>3. ASSUME NEW c \in Clients, CallerGone(c) PROVE LoadInv'
  <2>1. result' \in [Clients -> 0 .. 1] /\ UNCHANGED <<kernel, service, lib, sym>>
    BY <1>3 DEF CallerGone, LoadInv, LoadType
  <2> QED BY <2>1 DEF LoadInv, LoadType, StoredInv, EntryInv, CleanFailure, Dangling, kernel,
             service
<1>4. ASSUME NEW c \in Clients, Caller(c), ~CallerGone(c) PROVE UNCHANGED loadVars
  BY <1>4 DEF Caller, CallLibrary, CallWin32, dbg_syscall, LibraryReturns, new_nt_term_proc,
     Probe, LockBuffer, HandlerBegin, HandlerDone, HandlerEnds, Unlock, KillCaller
<1> QED BY <1>1, <1>2, <1>3, <1>4 DEF Next, vars

LEMMA LoadInvariant == Spec => []LoadInv
<1>1. Init => LoadInv
  BY LoadInvInit DEF Init
<1> QED BY <1>1, LoadStep, PTL DEF Spec

\* Any number of clients, killed anywhere and deleting the service under each
\* other: DriverEntry finds every value it reads, and one that fails leaves no
\* hook behind unless set_hook itself has refused a function.
THEOREM StartIsSound == Spec => []StartSound
<1>1. LoadInv => StartSound
  BY NowIs DEF StartSound, ValuesPresent, LoadInv, EntryInv
<1> QED BY <1>1, LoadInvariant, PTL

-----------------------------------------------------------------------------
\* The access key.

LEMMA KeyStep ==
  ASSUME SameKeys, LoadInv, KeyInv, [Next]_vars
  PROVE  KeyInv'
<1> USE DEF SameKeys, LoadInv, LoadType, KeyInv
<1>1. CASE UNCHANGED loadVars
  BY <1>1 DEF loadVars, kernel, service, client
<1>2. ASSUME NEW c \in Clients, Caller(c) PROVE KeyInv'
  <2>1. CASE CallerGone(c)
    BY <2>1 DEF CallerGone, kernel, service
  <2>2. CASE ~CallerGone(c)
    BY <1>1, <1>2, <2>2 DEF Caller, CallLibrary, CallWin32, dbg_syscall, LibraryReturns,
       new_nt_term_proc, Probe, LockBuffer, HandlerBegin, HandlerDone, HandlerEnds, Unlock,
       KillCaller
  <2> QED BY <2>1, <2>2
<1>3. ASSUME NEW c \in Clients, ~Dangling, dbg_initialize_api(c) PROVE KeyInv'
  <2> USE DEF kernel, service, client, Step
  <2>1. CASE Initialize(c) \/ CreateService(c) \/ OpenService(c) \/ InstallFailed(c)
             \/ OpenKey(c) \/ ParamsFailed(c) \/ get_symbols_callback(c) \/ DeleteService(c)
    BY <2>1 DEF Initialize, CreateService, OpenService, InstallFailed, OpenKey, ParamsFailed,
       get_symbols_callback, DeleteService
  <2>2. CASE Version(c)
    <3>1. UNCHANGED <<kernel, service>>
      BY <2>2 DEF Version
    <3>2. \A d \in Clients : result'[d] = 1 => result[d] = 1 \/ Len(hooks) = 5
      BY <2>2 DEF Version, Answers
    <3>3. Len(hooks) = 5 => drv = "loaded"
      BY DEF EntryInv
    <3> QED BY <3>1, <3>2, <3>3
  <2>3. CASE WriteSymbol(c)
    <3>1. req_symbols[sym[c]] # "sc_key"
      <4>1. \A k \in 1 .. 9 : req_symbols[k] # "sc_key"
        BY DEF req_symbols
      <4> QED BY <4>1
    <3> QED BY <2>3, <3>1 DEF WriteSymbol
  <2>4. CASE WriteKey(c)
    BY <2>4 DEF WriteKey
  <2>5. CASE StartService(c)
    BY <2>5 DEF StartService, Running
  <2>6. CASE CloseServiceHandle(c)
    BY <2>6 DEF CloseServiceHandle, Closed
  <2>7. CASE KillClient(c)
    BY <2>7 DEF KillClient, Closed
  <2> QED BY <1>3, <2>1, <2>2, <2>3, <2>4, <2>5, <2>6, <2>7 DEF dbg_initialize_api
<1>4. CASE DriverEntry
  <2>1. drv = "entry" /\ \A c \in Clients : result[c] # 1
    BY <1>4 DEF DriverEntry, reg_open_key, get_kernel_base, ReadValue, HookRefused
  <2>2. CASE reg_open_key \/ get_kernel_base
    BY <2>1, <2>2 DEF reg_open_key, get_kernel_base, Finish, service, client
  <2>3. CASE HookRefused
    BY <2>1, <2>3 DEF HookRefused, Finish
  <2>4. CASE ReadValue
    <3>1. Now.name \in reg /\ (Now.name = "sc_key" <=> at = 8)
          /\ Now.hook \in BOOLEAN /\ (Now.hook <=> at \in {4, 5, 6, 7, 9})
      BY <2>1, <2>4, NowIs DEF ReadValue
    <3>2. sc_key' = IF at = 8 THEN regkey ELSE sc_key
      BY <2>4, <3>1 DEF ReadValue, reg_query_val
    <3>3. CASE at < 9
      <4>1. at' = at + 1 /\ UNCHANGED <<drv, reg, regkey, result>>
        BY <2>4, <3>1, <3>3, StepsAre DEF ReadValue, reg_query_val
      <4> QED BY <2>1, <3>1, <3>2, <3>3, <4>1
    <3>4. CASE at = 9
      <4>1. Finish(1) /\ hooks' = Append(hooks, Now.name) /\ UNCHANGED <<at, sc_key>>
        BY <2>4, <3>1, <3>2, <3>4, StepsAre DEF ReadValue, reg_query_val
      <4>2. Len(hooks') = 5
        BY <2>1, <3>4, <4>1 DEF EntryInv, HookedAt
      <4> QED BY <2>1, <3>4, <4>1, <4>2 DEF Finish
    <3> QED BY <3>3, <3>4
  <2> QED BY <1>4, <2>2, <2>3, <2>4 DEF DriverEntry
<1> QED BY <1>1, <1>2, <1>3, <1>4 DEF Next, Load, LoadNext, vars

\* Any number of clients with one key: dbg_initialize_api returns 1 only to a
\* client whose calls the driver takes, for ever after.
THEOREM InitIsUsable ==
  ASSUME SameKeys
  PROVE  Spec => []InitMeansUsable
<1>1. Init => KeyInv
  BY DEF Init, LoadInit, KeyInv
<1>2. LoadInv /\ KeyInv /\ [Next]_vars => KeyInv'
  BY KeyStep
<1>3. KeyInv => InitMeansUsable
  BY DEF KeyInv, InitMeansUsable, Answers
<1> QED BY <1>1, <1>2, <1>3, LoadInvariant, PTL DEF Spec

-----------------------------------------------------------------------------
\* What a call holds.

Dispatcher == {"user", "probe", "lock_in", "lock_out", "handler", "work", "unlock", "ended"}
Parts == {{}, {"mdl"}, {"mdl", "pages"}, Locked}

CallType ==
  /\ fn \in [Clients -> Library]
  /\ pc \in [Clients -> {"out", "open", "body", "close", "close_thread"}]
  /\ disp \in [Clients -> Dispatcher]
  /\ held \in [Clients -> [{"in", "out"} -> Parts]]
  /\ refs \in [Clients -> 0 .. 1]
  /\ h_proc \in [Clients -> {"null", "real", "wild"}] /\ open \in [Clients -> Int]
  /\ succs \in [Clients -> BOOLEAN] /\ dying \in [Clients -> BOOLEAN]

\* What a thread at this place of the dispatcher holds: a buffer is locked in
\* parts only while dbg_lock_um_buff is at it, one the call does not pass never,
\* and only a handler at work has a reference.
LocksAt(where, in, out, r, call) ==
  /\ where # "work" => r = 0
  /\ where \in {"user", "probe"} => in = {} /\ out = {}
  /\ where = "lock_in" => in # Locked /\ out = {}
  /\ where = "lock_out" => out # Locked
  /\ where # "lock_in" => in \in {{}, Locked}
  /\ where # "lock_out" => out \in {{}, Locked}
  /\ "in" \notin Buffers(call) => in = {}
  /\ "out" \notin Buffers(call) => out = {}
  /\ where = "ended" => out = {}

\* How many handles a function has open at this place, by its local handle.  The
\* driver sets that handle just before the open call comes back.
HandlesAt(where, f, step, h, n) ==
  /\ where # "user" => step \in {"open", "body"}
  /\ where = "unlock" /\ step = "open" => f.opens = "open_process"
  /\ where \notin {"user", "ended"} =>
       (IF step = "open" THEN f.opens ELSE f.body) \in syscall_table
  /\ step = "out" => n = 0
  /\ step = "open" /\ where # "unlock" => n = 0 /\ h = "null"
  /\ step = "body" => f.opens # "create_process"
  /\ step \in {"open", "body"} => n = IF h = "real" THEN 1 ELSE 0
  /\ step = "close" /\ f.opens # "create_process" => n = IF h = "real" THEN 1 ELSE 0
  /\ step = "close" /\ f.opens = "create_process" => h = "real" /\ n = 2
  /\ step = "close_thread" => h = "real" /\ n = 1 /\ f.opens = "create_process"

CallAt(c) ==
  /\ LocksAt(disp[c], held[c]["in"], held[c]["out"], refs[c], Call(c))
  /\ HandlesAt(disp[c], fn[c], pc[c], h_proc[c], open[c])
CallInv == CallType /\ \A c \in Clients : CallAt(c)

LEMMA LibraryIs ==
  \A f \in Library :
    /\ f.opens \in {"none", "open_process", "open_thread", "create_process"}
    /\ f.opens \in {"open_process", "open_thread"} => f.body # "none"
    /\ f.opens = "create_process" => f.body = "none"
BY DEF Library, Function, dbg_open_process, dbg_drv_version, dbg_terminate_process,
   dbg_attach_debugger, dbg_get_msg_event, dbg_countinue_event, dbg_set_filter,
   dbg_read_memory, dbg_write_memory, dbg_get_context, dbg_set_context, dbg_create_process,
   Thunk, Stub

\* A step of one client leaves the others alone.
Others(c) ==
  \A d \in Clients \ {c} :
    /\ fn'[d] = fn[d] /\ pc'[d] = pc[d] /\ disp'[d] = disp[d] /\ held'[d] = held[d]
    /\ refs'[d] = refs[d] /\ h_proc'[d] = h_proc[d] /\ open'[d] = open[d]

LEMMA CallFrame ==
  ASSUME CallInv, NEW c \in Clients, CallType', Others(c), CallAt(c)'
  PROVE  CallInv'
BY DEF CallInv, CallAt, Others, Call

LEMMA CallStepLibrary ==
  ASSUME CallInv, NEW c \in Clients,
         CallLibrary(c) \/ CallWin32(c) \/ dbg_syscall(c) \/ LibraryReturns(c)
  PROVE  CallInv'
<1> USE DEF CallInv, CallType, At, Goto, Return, Got
<1>1. CASE CallLibrary(c)
  <2>1. PICK f \in Library :
          /\ fn' = [fn EXCEPT ![c] = f]
          /\ pc' = [pc EXCEPT ![c] = IF f.opens # "none" THEN "open" ELSE "body"]
    BY <1>1 DEF CallLibrary
  <2>2. /\ h_proc' = [h_proc EXCEPT ![c] = "null"] /\ disp[c] = "user" /\ pc[c] = "out"
        /\ UNCHANGED <<disp, held, refs, open, succs, dying>>
    BY <1>1 DEF CallLibrary
  <2>3. CallType' /\ Others(c)
    BY <2>1, <2>2 DEF Others
  <2>4. CallAt(c)
    OBVIOUS
  <2>5. CallAt(c)'
    BY <2>1, <2>2, <2>4 DEF CallAt, LocksAt, HandlesAt
  <2> QED BY <2>3, <2>5, CallFrame
<1>2. CASE CallWin32(c)
  <2>1. PICK ok \in BOOLEAN :
          /\ pc' = [pc EXCEPT ![c] = Continue(fn[c], @, ok)]
          /\ CASE ok /\ Call(c) = "open_thread"    -> Got(c, "real", 1)
               [] ok /\ Call(c) = "create_process" -> Got(c, "real", 2)
               [] OTHER -> UNCHANGED <<h_proc, open>>
    BY <1>2 DEF CallWin32
  <2>2. /\ disp[c] = "user" /\ pc[c] \in {"open", "body"} /\ Call(c) \notin syscall_table
        /\ UNCHANGED <<fn, disp, held, refs, succs, dying>>
    BY <1>2 DEF CallWin32
  <2>3. /\ h_proc' \in [Clients -> {"null", "real", "wild"}] /\ open' \in [Clients -> Int]
        /\ \A d \in Clients \ {c} : h_proc'[d] = h_proc[d] /\ open'[d] = open[d]
        /\ ok /\ Call(c) = "open_thread" => h_proc'[c] = "real" /\ open'[c] = open[c] + 1
        /\ ok /\ Call(c) = "create_process" => h_proc'[c] = "real" /\ open'[c] = open[c] + 2
        /\ ~(ok /\ Call(c) \in {"open_thread", "create_process"}) =>
             h_proc'[c] = h_proc[c] /\ open'[c] = open[c]
    BY <2>1
  <2>4. /\ pc' \in [Clients -> {"out", "open", "body", "close", "close_thread"}]
        /\ \A d \in Clients \ {c} : pc'[d] = pc[d]
        /\ pc'[c] = Continue(fn[c], pc[c], ok)
    BY <2>1 DEF Continue
  <2>5. CallType' /\ Others(c)
    BY <2>2, <2>3, <2>4 DEF Others
  <2>6. CallAt(c) /\ fn[c] \in Library
    OBVIOUS
  <2>7. LocksAt(disp[c], held[c]["in"], held[c]["out"], refs[c], Call(c))'
    BY <2>2, <2>6 DEF CallAt, LocksAt
  <2>8. HandlesAt(disp[c], fn[c], pc[c], h_proc[c], open[c])'
    <3>1. CASE pc[c] = "open"
      <4>1. Call(c) = fn[c].opens /\ open[c] = 0 /\ h_proc[c] = "null"
        BY <2>2, <2>6, <3>1 DEF Call, CallAt, HandlesAt
      <4>2. fn[c].opens \in {"none", "open_thread", "create_process"}
        BY <2>2, <2>6, <4>1, LibraryIs DEF syscall_table
      <4> QED BY <2>2, <2>3, <2>4, <2>6, <3>1, <4>1, <4>2, LibraryIs
              DEF Continue, HandlesAt
    <3>2. CASE pc[c] = "body"
      <4>1. Call(c) = fn[c].body /\ fn[c].opens # "create_process"
            /\ open[c] = IF h_proc[c] = "real" THEN 1 ELSE 0
        BY <2>6, <3>2 DEF Call, CallAt, HandlesAt
      <4>2. fn[c].body \in syscall_table \cup {"win32", "none"}
        BY <2>6 DEF Library, Function, dbg_open_process, dbg_drv_version,
           dbg_terminate_process, dbg_attach_debugger, dbg_get_msg_event,
           dbg_countinue_event, dbg_set_filter, dbg_read_memory, dbg_write_memory,
           dbg_get_context, dbg_set_context, dbg_create_process, Thunk, Stub, syscall_table
      <4>3. h_proc'[c] = h_proc[c] /\ open'[c] = open[c] /\ pc'[c] = "close"
        BY <2>2, <2>3, <2>4, <3>2, <4>1, <4>2 DEF Continue, syscall_table
      <4> QED BY <2>2, <4>1, <4>3 DEF HandlesAt
    <3> QED BY <2>2, <3>1, <3>2
  <2> QED BY <2>5, <2>7, <2>8, CallFrame DEF CallAt
<1>3. CASE dbg_syscall(c)
  <2>1. /\ disp[c] = "user" /\ pc[c] \in {"open", "body"} /\ Call(c) \in syscall_table
        /\ succs' = [succs EXCEPT ![c] = FALSE]
        /\ UNCHANGED <<fn, held, refs, h_proc, open, dying>>
        /\ \/ disp' = [disp EXCEPT ![c] = "probe"] /\ UNCHANGED pc
           \/ pc' = [pc EXCEPT ![c] = Continue(fn[c], @, FALSE)] /\ UNCHANGED disp
    BY <1>3 DEF dbg_syscall
  <2>2. CallAt(c) /\ fn[c] \in Library
    OBVIOUS
  <2>3. Continue(fn[c], pc[c], FALSE) = "close"
    BY <2>1, <2>2, LibraryIs DEF Continue, CallAt, HandlesAt, Call, syscall_table
  <2>4. CallType' /\ Others(c)
    BY <2>1, <2>3 DEF Others, Dispatcher
  <2>5. CASE disp' = [disp EXCEPT ![c] = "probe"] /\ UNCHANGED pc
    <3>1. CallAt(c)'
      BY <2>1, <2>2, <2>5 DEF CallAt, LocksAt, HandlesAt, Call
    <3> QED BY <2>4, <3>1, CallFrame
  <2>6. CASE pc' = [pc EXCEPT ![c] = "close"] /\ UNCHANGED disp
    <3>1. fn[c].opens # "create_process"
      BY <2>1, <2>2, LibraryIs DEF CallAt, HandlesAt, Call, syscall_table
    <3>2. CallAt(c)'
      BY <2>1, <2>2, <2>6, <3>1 DEF CallAt, LocksAt, HandlesAt
    <3> QED BY <2>4, <3>2, CallFrame
  <2> QED BY <2>1, <2>3, <2>5, <2>6
<1>4. CASE LibraryReturns(c)
  <2>1. /\ disp[c] = "user" /\ pc[c] \in {"close", "close_thread"}
        /\ open' = [open EXCEPT ![c] = IF h_proc[c] = "real" THEN @ - 1 ELSE @]
        /\ pc' = [pc EXCEPT ![c] = IF @ = "close" /\ fn[c].opens = "create_process"
                                     THEN "close_thread" ELSE "out"]
        /\ UNCHANGED <<fn, disp, held, refs, h_proc, succs, dying>>
    BY <1>4 DEF LibraryReturns, CloseHandle
  <2>2. CallType' /\ Others(c)
    BY <2>1 DEF Others
  <2>3. CallAt(c)
    OBVIOUS
  <2>4. CallAt(c)'
    BY <2>1, <2>3 DEF CallAt, LocksAt, HandlesAt
  <2> QED BY <2>2, <2>4, CallFrame
<1> QED BY <1>1, <1>2, <1>3, <1>4

LEMMA CallStepLock ==
  ASSUME CallInv, NEW c \in Clients,
         \/ LockBuffer(c, "in", "lock_in", "lock_out")
         \/ LockBuffer(c, "out", "lock_out", "handler")
  PROVE  CallInv'
<1>1. PICK b \in {"in", "out"}, from \in {"lock_in", "lock_out"}, to \in {"lock_out", "handler"} :
        /\ LockBuffer(c, b, from, to)
        /\ \/ b = "in" /\ from = "lock_in" /\ to = "lock_out"
           \/ b = "out" /\ from = "lock_out" /\ to = "handler"
  OBVIOUS
<1>2. disp[c] = from /\ UNCHANGED <<fn, pc, refs, h_proc, open, succs, dying>>
  BY <1>1 DEF LockBuffer, At
<1>3. CallAt(c) /\ held[c] \in [{"in", "out"} -> Parts] /\ disp \in [Clients -> Dispatcher]
      /\ held \in [Clients -> [{"in", "out"} -> Parts]]
  BY DEF CallInv, CallType
<1>4. PICK got \in Parts, next \in {from, to, "unlock"} :
        /\ held' = [held EXCEPT ![c][b] = got] /\ disp' = [disp EXCEPT ![c] = next]
        /\ IF next = from THEN got # Locked ELSE got \in {{}, Locked}
        /\ b \notin Buffers(Call(c)) => got = held[c][b]
  <2>1. CASE b \in Buffers(Call(c))
    <3>1. held[c][b] # Locked
      BY <1>1, <1>2, <1>3 DEF CallAt, LocksAt
    <3>2. Cleanup(held[c][b]) = {} /\ dbg_lock_um_buff(held[c][b]) \in Parts
      BY <1>3, <3>1 DEF Cleanup, Parts, Locked, dbg_lock_um_buff
    <3>3. \/ /\ held' = [held EXCEPT ![c][b] = dbg_lock_um_buff(held[c][b])]
             /\ disp' = [disp EXCEPT ![c] =
                          IF dbg_lock_um_buff(held[c][b]) = Locked THEN to ELSE from]
          \/ /\ held' = [held EXCEPT ![c][b] = Cleanup(@)]
             /\ disp' = [disp EXCEPT ![c] = "unlock"]
      BY <1>1, <2>1 DEF LockBuffer, Goto
    <3>4. {} \in Parts
      BY DEF Parts
    <3>5. CASE /\ held' = [held EXCEPT ![c][b] = dbg_lock_um_buff(held[c][b])]
               /\ disp' = [disp EXCEPT ![c] =
                            IF dbg_lock_um_buff(held[c][b]) = Locked THEN to ELSE from]
      <4>1. from # to
        BY <1>1
      <4> USE <3>2
      <4>2. WITNESS dbg_lock_um_buff(held[c][b]) \in Parts,
                    (IF dbg_lock_um_buff(held[c][b]) = Locked THEN to ELSE from)
                      \in {from, to, "unlock"}
      <4> QED BY <2>1, <3>5, <4>1
    <3>6. CASE /\ held' = [held EXCEPT ![c][b] = {}]
               /\ disp' = [disp EXCEPT ![c] = "unlock"]
      <4>1. from # "unlock"
        BY <1>1
      <4>2. WITNESS {} \in Parts, "unlock" \in {from, to, "unlock"}
      <4> QED BY <2>1, <3>6, <4>1
    <3>7. held' = [held EXCEPT ![c][b] = Cleanup(@)] => held' = [held EXCEPT ![c][b] = {}]
      BY <3>2
    <3> QED BY <3>3, <3>5, <3>6, <3>7
  <2>2. CASE b \notin Buffers(Call(c))
    <3>1. held' = held /\ disp' = [disp EXCEPT ![c] = to]
      BY <1>1, <2>2 DEF LockBuffer, Goto
    <3>2. held' = [held EXCEPT ![c][b] = held[c][b]]
      BY <1>3, <3>1
    <3>3. held[c][b] = {}
      BY <1>1, <1>3, <2>2 DEF CallAt, LocksAt
    <3>4. {} \in Parts
      BY DEF Parts
    <3>5. from # to
      BY <1>1
    <3>6. WITNESS {} \in Parts, to \in {from, to, "unlock"}
    <3> QED BY <3>1, <3>2, <3>3, <3>5
  <2> QED BY <2>1, <2>2
<1>5. CallType' /\ Others(c)
  BY <1>1, <1>2, <1>3, <1>4 DEF CallInv, CallType, Others, Dispatcher
<1>7. {} # Locked
  BY DEF Locked
<1>8. /\ disp'[c] = next /\ held'[c][b] = got
      /\ \A e \in {"in", "out"} \ {b} : held'[c][e] = held[c][e]
  BY <1>3, <1>4
<1>9. fn[c].opens \in syscall_table => fn[c].opens = "open_process"
  BY LibraryIs DEF CallInv, CallType, syscall_table
<1>10. LocksAt(disp[c], held[c]["in"], held[c]["out"], refs[c], Call(c))'
  <2>1. CASE b = "in"
    BY <1>1, <1>2, <1>3, <1>4, <1>7, <1>8, <2>1 DEF CallAt, LocksAt, Call
  <2>2. CASE b = "out"
    BY <1>1, <1>2, <1>3, <1>4, <1>7, <1>8, <2>2 DEF CallAt, LocksAt, Call
  <2> QED BY <2>1, <2>2
<1>11. HandlesAt(disp[c], fn[c], pc[c], h_proc[c], open[c])'
  BY <1>1, <1>2, <1>3, <1>4, <1>8, <1>9 DEF CallAt, HandlesAt
<1>6. CallAt(c)'
  BY <1>10, <1>11 DEF CallAt
<1> QED BY <1>5, <1>6, CallFrame

LEMMA CallStep == CallInv /\ [Next]_vars => CallInv'
<1> SUFFICES ASSUME CallInv, [Next]_vars PROVE CallInv'
    OBVIOUS
<1>1. CASE UNCHANGED callVars
  BY <1>1 DEF CallInv, CallType, CallAt, Call, callVars
<1>2. ASSUME NEW c \in Clients, Caller(c) PROVE CallInv'
  <2>1. CASE CallLibrary(c) \/ CallWin32(c) \/ dbg_syscall(c) \/ LibraryReturns(c)
    BY <2>1, CallStepLibrary
  <2>2. CASE \/ LockBuffer(c, "in", "lock_in", "lock_out")
             \/ LockBuffer(c, "out", "lock_out", "handler")
    BY <2>2, CallStepLock
  <2>3. CASE Probe(c)
    <3>1. PICK next \in {"lock_in", "unlock"} : disp' = [disp EXCEPT ![c] = next]
      BY <2>3 DEF Probe, Goto
    <3>2. disp[c] = "probe" /\ UNCHANGED <<fn, pc, held, refs, h_proc, open, succs, dying>>
      BY <2>3 DEF Probe, At
    <3>3. CallType' /\ Others(c)
      BY <3>1, <3>2 DEF CallInv, CallType, Others, Dispatcher
    <3>4. /\ CallAt(c) /\ disp'[c] = next
          /\ fn[c].opens \in syscall_table => fn[c].opens = "open_process"
      BY <3>1, LibraryIs DEF CallInv, CallType, syscall_table
    <3>6. {} # Locked
      BY DEF Locked
    <3>5. CallAt(c)'
      BY <3>2, <3>4, <3>6 DEF CallAt, LocksAt, HandlesAt, Call
    <3> QED BY <3>3, <3>5, CallFrame
  <2>6. CASE HandlerBegin(c)
    <3>1. PICK to \in {"work", "unlock"}, n \in {refs[c], 1} :
            /\ disp' = [disp EXCEPT ![c] = to] /\ refs' = [refs EXCEPT ![c] = n]
            /\ disp[c] = "handler" /\ (to = "unlock" => n = refs[c])
            /\ UNCHANGED <<fn, pc, held, h_proc, open, succs, dying>>
      BY <2>6 DEF HandlerBegin, At, Goto, CallInv, CallType
    <3>2. CallAt(c) /\ refs[c] = 0 /\ n \in 0 .. 1
      BY <3>1 DEF CallInv, CallAt, LocksAt
    <3>3. CallType' /\ Others(c) /\ disp'[c] = to /\ refs'[c] = n
      BY <3>1, <3>2 DEF CallInv, CallType, Others, Dispatcher
    <3>4. fn[c].opens \in syscall_table => fn[c].opens = "open_process"
      BY LibraryIs DEF CallInv, CallType, syscall_table
    <3>5. CallAt(c)'
      BY <3>1, <3>2, <3>3, <3>4 DEF CallAt, LocksAt, HandlesAt, Call
    <3> QED BY <3>3, <3>5, CallFrame
  <2>7. CASE HandlerDone(c)
    <3>1. PICK v \in BOOLEAN, h \in {"null", "real", "wild"}, n \in 0 .. 1 :
            /\ disp' = [disp EXCEPT ![c] = "unlock"] /\ refs' = [refs EXCEPT ![c] = 0]
            /\ succs' = [succs EXCEPT ![c] = v]
            /\ h_proc' = [h_proc EXCEPT ![c] = h] /\ open' = [open EXCEPT ![c] = @ + n]
            /\ disp[c] = "work" /\ UNCHANGED <<fn, pc, held, dying>>
            /\ \/ h = h_proc[c] /\ n = 0
               \/ Call(c) = "open_process" /\ n = IF h = "real" THEN 1 ELSE 0
      <4>1. /\ disp' = [disp EXCEPT ![c] = "unlock"] /\ refs' = [refs EXCEPT ![c] = 0]
            /\ disp[c] = "work" /\ UNCHANGED <<fn, pc, held, dying>>
        BY <2>7 DEF HandlerDone, At, Goto
      <4>2. PICK ok \in BOOLEAN :
              /\ succs' = [succs EXCEPT ![c] = ok]
              /\ IF ok /\ Call(c) = "open_process"
                   THEN Got(c, "real", 1) \/ Got(c, "wild", 0)
                   ELSE UNCHANGED <<h_proc, open>>
        BY <2>7 DEF HandlerDone, Return
      <4>3. CASE UNCHANGED <<h_proc, open>>
        <5>1. /\ h_proc' = [h_proc EXCEPT ![c] = h_proc[c]] /\ h_proc[c] \in {"null", "real", "wild"}
              /\ open' = [open EXCEPT ![c] = @ + 0]
          BY <4>3 DEF CallInv, CallType
        <5> USE <5>1
        <5>2. WITNESS ok \in BOOLEAN, h_proc[c] \in {"null", "real", "wild"}, 0 \in 0 .. 1
        <5> QED BY <4>1, <4>2, <5>1
      <4>4. CASE Call(c) = "open_process" /\ Got(c, "real", 1)
        <5>1. WITNESS ok \in BOOLEAN, "real" \in {"null", "real", "wild"}, 1 \in 0 .. 1
        <5> QED BY <4>1, <4>2, <4>4 DEF Got
      <4>5. CASE Call(c) = "open_process" /\ Got(c, "wild", 0)
        <5>1. WITNESS ok \in BOOLEAN, "wild" \in {"null", "real", "wild"}, 0 \in 0 .. 1
        <5> QED BY <4>1, <4>2, <4>5 DEF Got
      <4> QED BY <4>2, <4>3, <4>4, <4>5
    <3>2. CallAt(c) /\ open[c] \in Int
      BY DEF CallInv, CallType
    <3>3. /\ CallType' /\ Others(c)
          /\ disp'[c] = "unlock" /\ refs'[c] = 0 /\ h_proc'[c] = h /\ open'[c] = open[c] + n
      BY <3>1 DEF CallInv, CallType, Others, Dispatcher
    <3>4. fn[c].opens \in syscall_table => fn[c].opens = "open_process"
      BY LibraryIs DEF CallInv, CallType, syscall_table
    <3>5. fn[c].body # "open_process"
      BY DEF CallInv, CallType, Library, Function, dbg_open_process, dbg_drv_version,
         dbg_terminate_process, dbg_attach_debugger, dbg_get_msg_event, dbg_countinue_event,
         dbg_set_filter, dbg_read_memory, dbg_write_memory, dbg_get_context, dbg_set_context,
         dbg_create_process, Thunk, Stub
    <3>6. LocksAt(disp[c], held[c]["in"], held[c]["out"], refs[c], Call(c))'
      BY <3>1, <3>2, <3>3 DEF CallAt, LocksAt, Call
    <3>7. HandlesAt(disp[c], fn[c], pc[c], h_proc[c], open[c])'
      BY <3>1, <3>2, <3>3, <3>4, <3>5 DEF CallAt, HandlesAt, Call
    <3> QED BY <3>3, <3>6, <3>7, CallFrame DEF CallAt
  <2>8. CASE HandlerEnds(c)
    <3>1. /\ disp[c] = "work" /\ Call(c) = "terminate_process"
          /\ disp' = [disp EXCEPT ![c] = "ended"] /\ refs' = [refs EXCEPT ![c] = 0]
          /\ UNCHANGED <<fn, pc, held, h_proc, open, succs, dying>>
      BY <2>8 DEF HandlerEnds, At, Goto
    <3>2. CallType' /\ Others(c) /\ disp'[c] = "ended" /\ refs'[c] = 0 /\ CallAt(c)
      BY <3>1 DEF CallInv, CallType, Others, Dispatcher
    <3>3. "out" \notin Buffers("terminate_process")
      BY DEF Buffers
    <3>4. CallAt(c)'
      BY <3>1, <3>2, <3>3 DEF CallAt, LocksAt, HandlesAt, Call
    <3> QED BY <3>2, <3>4, CallFrame
  <2>9. CASE Unlock(c)
    <3>1. /\ disp[c] = "unlock" /\ disp' = [disp EXCEPT ![c] = "user"]
          /\ held' = [held EXCEPT ![c] = Unlocked(@)]
          /\ pc' = [pc EXCEPT ![c] = Continue(fn[c], @, succs[c])]
          /\ UNCHANGED <<fn, refs, h_proc, open, succs, dying>>
      BY <2>9 DEF Unlock, At, Goto
    <3>2. CallAt(c) /\ fn[c] \in Library /\ succs[c] \in BOOLEAN
      BY DEF CallInv, CallType
    <3>3. Unlocked(held[c]) = [b \in {"in", "out"} |-> {}]
      BY <3>1, <3>2 DEF CallAt, LocksAt, Unlocked, Locked
    <3>4. Continue(fn[c], pc[c], succs[c]) \in {"body", "close"}
      BY <3>1, <3>2, LibraryIs DEF Continue, CallAt, HandlesAt
    <3>5. CallType' /\ Others(c)
      BY <3>1, <3>3, <3>4 DEF CallInv, CallType, Others, Dispatcher, Parts
    <3>6. /\ disp'[c] = "user" /\ held'[c]["in"] = {} /\ held'[c]["out"] = {}
          /\ pc'[c] \in {"body", "close"}
      BY <3>1, <3>3, <3>4 DEF CallInv, CallType
    <3>7. fn[c].opens # "create_process"
      BY <3>1, <3>2, LibraryIs DEF CallAt, HandlesAt, syscall_table
    <3>8. LocksAt(disp[c], held[c]["in"], held[c]["out"], refs[c], Call(c))'
      BY <3>1, <3>2, <3>6 DEF CallAt, LocksAt
    <3>9. HandlesAt(disp[c], fn[c], pc[c], h_proc[c], open[c])'
      BY <3>1, <3>2, <3>6, <3>7 DEF CallAt, HandlesAt
    <3> QED BY <3>5, <3>8, <3>9, CallFrame DEF CallAt
  <2>10. CASE KillCaller(c)
    BY <2>10 DEF KillCaller, CallInv, CallType, CallAt, Call
  <2>11. CASE CallerGone(c)
    <3>1. /\ disp[c] = "user" /\ dying' = [dying EXCEPT ![c] = FALSE]
          /\ pc' = [pc EXCEPT ![c] = "out"] /\ open' = [open EXCEPT ![c] = 0]
          /\ UNCHANGED <<fn, disp, held, refs, h_proc, succs>>
      BY <2>11 DEF CallerGone, At
    <3>2. CallType' /\ Others(c) /\ CallAt(c) /\ pc'[c] = "out" /\ open'[c] = 0
      BY <3>1 DEF CallInv, CallType, Others
    <3>3. CallAt(c)'
      BY <3>1, <3>2 DEF CallAt, LocksAt, HandlesAt
    <3> QED BY <3>2, <3>3, CallFrame
  <2> QED BY <1>2, <2>1, <2>2, <2>3, <2>6, <2>7, <2>8, <2>9, <2>10, <2>11
          DEF Caller, new_nt_term_proc
<1> QED BY <1>1, <1>2 DEF Next, Load, vars

LEMMA CallInvariant == Spec => []CallInv
<1>1. Init => CallInv
  <2> SUFFICES ASSUME Init PROVE CallInv
      OBVIOUS
  <2>1. Stub \in Library
    BY DEF Library
  <2>2. CallType
    BY <2>1 DEF Init, CallType, Dispatcher, Parts
  <2>3. \A c \in Clients : CallAt(c)
    BY DEF Init, CallAt, LocksAt, HandlesAt
  <2> QED BY <2>2, <2>3 DEF CallInv
<1> QED BY <1>1, CallStep, PTL DEF Spec

\* However a system call fails, whoever is killed in it: a thread that is back
\* in user mode has left no page locked and no process referenced, and one that
\* has ended its own process in it has left its input buffer at most.
THEOREM NothingStaysHeld == Spec => []NothingHeld
<1>1. CallInv => NothingHeld
  BY DEF CallInv, CallAt, LocksAt, NothingHeld
<1> QED BY <1>1, CallInvariant, PTL

\* Every handle a library function has opened is closed when it has returned, by
\* whichever exit.
THEOREM HandlesAreClosed == Spec => []HandlesClosed
<1>1. CallInv => HandlesClosed
  BY DEF CallInv, CallType, CallAt, HandlesAt, HandlesClosed
<1> QED BY <1>1, CallInvariant, PTL

=============================================================================
