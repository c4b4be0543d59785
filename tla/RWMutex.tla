------------------------------ MODULE RWMutex ------------------------------
(***************************************************************************)
(* Go's sync.RWMutex, as MemStorage uses its field mu.                     *)
(*                                                                         *)
(* A writer first takes the writer slot (the inner mutex of the RWMutex,   *)
(* one process at a time) and by that announces itself; it holds the lock  *)
(* when the readers that were inside have left.  A reader that arrives     *)
(* while a writer has announced itself is parked, and Unlock lets every    *)
(* parked reader in before the next writer can announce itself.            *)
(***************************************************************************)
CONSTANTS Proc, None

ASSUME NoneAssumption == None \notin Proc

VARIABLES
  slot,     \* the process in the writer slot, or None
  readers,  \* the processes that hold the lock for reading
  parked    \* the processes blocked in RLock behind the writer in the slot

muVars == <<slot, readers, parked>>

MuTypeOK ==
  /\ slot \in Proc \cup {None}
  /\ readers \subseteq Proc
  /\ parked \subseteq Proc

MuInit ==
  /\ slot = None
  /\ readers = {}
  /\ parked = {}

WriteHeld(p) == slot = p /\ readers = {}
ReadHeld(p)  == p \in readers

\* The first half of Lock(); the second half is the wait for WriteHeld(p).
Announce(p) ==
  /\ slot = None
  /\ slot' = p
  /\ UNCHANGED <<readers, parked>>

Unlock(p) ==
  /\ slot = p
  /\ slot' = None
  /\ readers' = readers \cup parked
  /\ parked' = {}

\* RLock() returns at once or leaves p parked; p may read when ReadHeld(p).
RLock(p) ==
  /\ IF slot = None
       THEN readers' = readers \cup {p} /\ UNCHANGED parked
       ELSE parked' = parked \cup {p} /\ UNCHANGED readers
  /\ UNCHANGED slot

RUnlock(p) ==
  /\ p \in readers
  /\ readers' = readers \ {p}
  /\ UNCHANGED <<slot, parked>>
=============================================================================
