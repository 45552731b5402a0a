----------------------------- MODULE MCSyscall -----------------------------
(***************************************************************************)
(* Two clients that initialise the library with the same key, as the test  *)
(* tool and any other user of the driver would.                            *)
(***************************************************************************)
EXTENDS Syscall, TLC

SameKey == [c \in Clients |-> "0x1234"]
ClientSymmetry == Permutations(Clients)
=============================================================================
