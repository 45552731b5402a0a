------------------------------- MODULE Loader -------------------------------
(***************************************************************************)
(* How the driver gets into the kernel: dbg_initialize_api of the user     *)
(* library (dbgapi.c), called by several processes that may be killed on   *)
(* the way, the service manager and registry between them (external), and  *)
(* DriverEntry (driver.c) with init_debug and init_syscall, whose steps    *)
(* each may fail.                                                          *)
(***************************************************************************)
EXTENDS Naturals, Sequences, FiniteSets

CONSTANTS
  Clients,   \* processes that use the library
  Key,       \* the access key each passes to dbg_initialize_api
  NoKey,     \* sc_key before init_syscall has read it
  MaxInits   \* bound: calls of dbg_initialize_api

ASSUME LoaderAssumption ==
  /\ IsFiniteSet(Clients) /\ MaxInits \in Nat
  /\ \A c \in Clients : Key[c] # NoKey

VARIABLES
  svc,      \* the service entry: "none", "live" or "marked" (for deletion)
  handles,  \* clients with an open handle to it
  reg,      \* names of the values under its registry key
  regkey,   \* the value sc_key there
  drv,      \* the driver: "absent", "entry", "loaded" or "failed"
  at,       \* step of DriverEntry
  refused,  \* a set_hook of this DriverEntry has returned 0
  hooks,    \* functions hooked, oldest first
  notify,   \* load_image_notify_routine is registered with the kernel
  sc_key,   \* the driver's access key
  lib,      \* where each client stands in dbg_initialize_api
  sym,      \* its position in req_symbols
  result,   \* what its dbg_initialize_api returned last
  inits     \* calls made

kernel   == <<drv, at, refused, hooks, notify, sc_key>>
service  == <<svc, handles, reg, regkey>>
client   == <<lib, sym, result, inits>>
loadVars == <<kernel, service, client>>

\* req_symbols, in the order they are stored.
req_symbols ==
  <<"ZwTerminateProcess", "ZwCreateThread", "ZwTerminateThread",
    "NtTerminateProcess", "NtResumeThread", "NtCreateThread",
    "NtTerminateThread", "KiDispatchException", "ThreadListEntry">>

\* What init_debug and init_syscall read from the registry, in order, and
\* whether they hook the function of that name.
Read(name) == [name |-> name, hook |-> FALSE]
Hook(name) == [name |-> name, hook |-> TRUE]
init_debug ==
  <<Read("ThreadListEntry"), Read("NtResumeThread"), Hook("NtTerminateProcess"),
    Hook("NtTerminateThread"), Hook("NtCreateThread"), Hook("KiDispatchException")>>
init_syscall == <<Read("sc_key"), Hook("NtTerminateProcess")>>
Steps == init_debug \o init_syscall
Now == Steps[at - 1]

LoadInit ==
  /\ svc = "none" /\ handles = {} /\ reg = {} /\ regkey = NoKey
  /\ drv = "absent" /\ at = 0 /\ refused = FALSE
  /\ hooks = << >> /\ notify = FALSE /\ sc_key = NoKey
  /\ lib = [c \in Clients |-> "idle"] /\ sym = [c \in Clients |-> 1]
  /\ result = [c \in Clients |-> 0] /\ inits = 0

Step(c, from, to) == lib[c] = from /\ lib' = [lib EXCEPT ![c] = to]
Running == drv \in {"entry", "loaded"}

\* A call with this client's key reaches the dispatcher: both hooks of
\* NtTerminateProcess are in place and the keys agree.
Answers(c) == Len(hooks) = 5 /\ sc_key = Key[c]

-----------------------------------------------------------------------------
\* Plausible faults of single steps.  LoadNext uses none of them.

WriteKeySkipped(c) ==                   \* sc_key not saved
  /\ Step(c, "key", "start")
  /\ UNCHANGED <<kernel, service, sym, result, inits>>

StartServiceBlind(c) ==                 \* its return value ignored
  /\ Step(c, "start", "delete") /\ result' = [result EXCEPT ![c] = 1]
  /\ UNCHANGED <<kernel, service, sym, inits>>

-----------------------------------------------------------------------------
\* dbg_initialize_api

Initialize(c) ==
  /\ Step(c, "idle", "version") /\ inits < MaxInits /\ inits' = inits + 1
  /\ UNCHANGED <<kernel, service, sym, result>>

\* dbg_drv_version() != 0: some client has loaded the driver with our key.
\* The call itself may fail for lack of memory.
Version(c) ==
  /\ \/ Answers(c) /\ Step(c, "version", "idle") /\ result' = [result EXCEPT ![c] = 1]
     \/ Step(c, "version", "create") /\ result' = [result EXCEPT ![c] = 0]
  /\ UNCHANGED <<kernel, service, sym, inits>>

\* dbg_install_sc: CreateService, and OpenService when it fails.
CreateService(c) ==
  /\ IF svc = "none"
       THEN /\ Step(c, "create", "params")
            /\ svc' = "live" /\ handles' = handles \cup {c}
       ELSE Step(c, "create", "open") /\ UNCHANGED <<svc, handles>>
  /\ UNCHANGED <<kernel, reg, regkey, sym, result, inits>>

OpenService(c) ==
  /\ svc # "none" /\ Step(c, "open", "params") /\ handles' = handles \cup {c}
  /\ UNCHANGED <<kernel, svc, reg, regkey, sym, result, inits>>

\* No access to the service manager, or the entry is gone: return 0.
InstallFailed(c) ==
  /\ Step(c, "create", "idle") \/ Step(c, "open", "idle")
  /\ UNCHANGED <<kernel, service, sym, result, inits>>

\* dbg_build_start_params: one value per symbol, then the access key.
OpenKey(c) ==
  /\ Step(c, "params", "symbol") /\ sym' = [sym EXCEPT ![c] = 1]
  /\ UNCHANGED <<kernel, service, result, inits>>

WriteSymbol(c) ==
  /\ lib[c] = "symbol" /\ reg' = reg \cup {req_symbols[sym[c]]}
  /\ IF sym[c] < Len(req_symbols)
       THEN sym' = [sym EXCEPT ![c] = @ + 1] /\ UNCHANGED lib
       ELSE Step(c, "symbol", "key") /\ UNCHANGED sym
  /\ UNCHANGED <<kernel, svc, handles, regkey, result, inits>>

WriteKey(c) ==
  /\ Step(c, "key", "start") /\ reg' = reg \cup {"sc_key"} /\ regkey' = Key[c]
  /\ UNCHANGED <<kernel, svc, handles, sym, result, inits>>

\* The key cannot be opened, a symbol is not found or a value not written.
ParamsFailed(c) ==
  /\ \E from \in {"params", "symbol", "key"} : Step(c, from, "delete")
  /\ UNCHANGED <<kernel, service, sym, result, inits>>

\* The pdb file is opened, and the symbols but the numbers of system calls are
\* looked up in it, by the callback of the client.  When that fails the pdb
\* parser throws, past DeleteService and CloseServiceHandle, and the client
\* (the test tool) sleeps for ever.
NtApiNumbers == {"ZwTerminateProcess", "ZwCreateThread", "ZwTerminateThread"}
get_symbols_callback(c) ==
  /\ \/ Step(c, "params", "thrown")
     \/ Step(c, "symbol", "thrown") /\ req_symbols[sym[c]] \notin NtApiNumbers
  /\ UNCHANGED <<kernel, service, sym, result, inits>>

\* StartService runs DriverEntry and waits for it, unless the driver runs
\* already or the entry is marked for deletion.
StartService(c) ==
  /\ IF svc = "live" /\ ~Running
       THEN /\ Step(c, "start", "starting")
            /\ drv' = "entry" /\ at' = 0 /\ refused' = FALSE
       ELSE Step(c, "start", "delete") /\ UNCHANGED <<drv, at, refused>>
  /\ UNCHANGED <<hooks, notify, sc_key, service, sym, result, inits>>

DeleteService(c) ==
  /\ Step(c, "delete", "close") /\ svc' = "marked"
  /\ UNCHANGED <<kernel, handles, reg, regkey, sym, result, inits>>

\* A marked entry goes away with its registry key when its last handle is
\* closed and the driver does not run.
Closed(c) ==
  /\ handles' = handles \ {c}
  /\ IF svc = "marked" /\ handles' = {} /\ ~Running
       THEN svc' = "none" /\ reg' = {} /\ regkey' = NoKey
       ELSE UNCHANGED <<svc, reg, regkey>>

CloseServiceHandle(c) ==
  /\ Step(c, "close", "idle") /\ Closed(c)
  /\ UNCHANGED <<kernel, sym, result, inits>>

\* The client is killed anywhere in the call; its handle is closed.  A new
\* process may start over.
KillClient(c) ==
  /\ lib[c] # "idle" /\ lib' = [lib EXCEPT ![c] = "idle"] /\ Closed(c)
  /\ result' = [result EXCEPT ![c] = 0]
  /\ UNCHANGED <<kernel, sym, inits>>

dbg_initialize_api(c) ==
  \/ Initialize(c) \/ Version(c) \/ CreateService(c) \/ OpenService(c)
  \/ InstallFailed(c) \/ OpenKey(c) \/ WriteSymbol(c) \/ WriteKey(c)
  \/ ParamsFailed(c) \/ get_symbols_callback(c) \/ StartService(c) \/ DeleteService(c)
  \/ CloseServiceHandle(c) \/ KillClient(c)

-----------------------------------------------------------------------------
\* DriverEntry

\* Its status ends the StartService that waits for it.
Finish(status) ==
  /\ drv' = IF status = 1 THEN "loaded" ELSE "failed"
  /\ lib' = [c \in Clients |-> IF lib[c] = "starting" THEN "delete" ELSE lib[c]]
  /\ result' = [c \in Clients |-> IF lib[c] = "starting" THEN status ELSE result[c]]
  /\ IF status = 0 /\ svc = "marked" /\ handles = {}
       THEN svc' = "none" /\ reg' = {} /\ regkey' = NoKey
       ELSE UNCHANGED <<svc, reg, regkey>>

\* The service's key is opened, for the reads below ...
reg_open_key ==
  /\ drv = "entry" /\ at = 0
  /\ \/ at' = 1 /\ UNCHANGED <<drv, service, client>>
     \/ Finish(0) /\ UNCHANGED <<at, handles, sym, inits>>
  /\ UNCHANGED <<refused, hooks, notify, sc_key>>

\* ... and the kernel found, which may fail for lack of memory.  Then
\* init_hook_list and init_dbg_item, which cannot fail.
get_kernel_base ==
  /\ drv = "entry" /\ at = 1
  /\ \/ at' = 2 /\ UNCHANGED <<drv, service, client>>
     \/ Finish(0) /\ UNCHANGED <<at, handles, sym, inits>>
  /\ UNCHANGED <<refused, hooks, notify, sc_key>>

\* reg_query_val fails when there is no such value.
reg_query_val(name) == name \in reg

\* One value is read, and the hook set that goes with it.  After its last hook
\* init_debug registers its notify routine, ignoring the status.
ReadValue ==
  /\ drv = "entry" /\ at > 1
  /\ IF reg_query_val(Now.name)
       THEN /\ hooks' = IF Now.hook THEN Append(hooks, Now.name) ELSE hooks
            /\ sc_key' = IF Now.name = "sc_key" THEN regkey ELSE sc_key
            /\ notify' = (notify \/ Now.name = "KiDispatchException")
            /\ IF at - 1 < Len(Steps)
                 THEN at' = at + 1 /\ UNCHANGED <<drv, svc, reg, regkey, lib, result>>
                 ELSE Finish(1) /\ UNCHANGED at
       ELSE Finish(0) /\ UNCHANGED <<at, hooks, notify, sc_key>>
  /\ UNCHANGED <<refused, handles, sym, inits>>

HookRefused ==
  /\ drv = "entry" /\ at > 1 /\ Now.hook /\ reg_query_val(Now.name)
  /\ refused' = TRUE /\ Finish(0)
  /\ UNCHANGED <<at, hooks, notify, sc_key, handles, sym, inits>>

DriverEntry == reg_open_key \/ get_kernel_base \/ ReadValue \/ HookRefused

\* A driver that failed is unloaded.  Once a hook or the kernel's list of notify
\* routines points to where it was, nothing that happens can be predicted.
Dangling == drv = "failed" /\ (hooks # << >> \/ notify)
LoadNext == /\ ~Dangling
            /\ DriverEntry \/ \E c \in Clients : dbg_initialize_api(c)

-----------------------------------------------------------------------------
\* Whoever starts the driver, and whoever is killed or deletes the service
\* meanwhile: every value DriverEntry reads has been stored by then, so it does
\* not stop half way for lack of one.
ValuesPresent == drv = "entry" /\ at > 1 => Now.name \in reg

\* A DriverEntry that fails leaves hooks or the notify routine in the unloaded
\* driver only when set_hook itself has refused a function.
CleanFailure == Dangling => refused

\* A start of the driver depends on nothing that clients can spoil meanwhile.
StartSound == ValuesPresent /\ CleanFailure

\* When every client uses the same key, dbg_initialize_api returns 1 only to
\* clients whose calls the driver takes from then on.
InitMeansUsable == \A c \in Clients : result[c] = 1 => Answers(c)
=============================================================================
