----------------------------- MODULE MemStorage -----------------------------
(***************************************************************************)
(* internal/service/storage.go: the store that every HTTP handler, gRPC    *)
(* handler and the dumper goroutine share, with its RWMutex, and the rows  *)
(* it saves in PostgreSQL through RetryDB (internal/service/retry.go).     *)
(*                                                                         *)
(* A process is a goroutine inside one call of the store.  The two halves  *)
(* of "counters[name] += delta", the walk of json.Marshal over the two     *)
(* maps and every attempt of the INSERT are steps of their own: what keeps *)
(* other goroutines out between them is the mutex and nothing else.        *)
(***************************************************************************)
EXTENDS Metrics, RWMutex, Sequences

CONSTANTS
  MaxRetry,   \* ms.maxRetry
  MaxUpdates  \* bound: how many update calls a behaviour has

ASSUME MemStorageAssumption ==
  /\ MaxRetry \in Nat
  /\ MaxUpdates \in Nat

VARIABLES
  db,        \* whether initDB returned a connection (ms.db # nil)
  gauges,    \* ms.gauges
  counters,  \* ms.counters
  table,     \* the rows of table metrics, in insertion order
  pc,        \* where each process is
  call,      \* the call each process is in, or None
  loaded,    \* the counter value an update of it has loaded
  encoded,   \* the gauges a snapshot of it has encoded, or None
  attempt,   \* the loop variable i of RetryDB
  failed,    \* whether the update it is in will return an error
  answer,    \* what the read it is in will return
  updates,   \* history: the number of update calls so far
  base,      \* history: the contents restored at startup
  unsaved    \* history: names with an update that returned an error

storeVars == <<gauges, counters>>
localVars == <<call, loaded, encoded, attempt, failed, answer>>
fixedVars == <<db, base>>
histVars  == <<updates, unsaved, fixedVars>>
vars == <<db, gauges, counters, table, pc, call, loaded, encoded, attempt,
          failed, answer, updates, base, unsaved, slot, readers, parked>>

Row == [name : GaugeName \cup CounterName, value : GaugeValue \cup Delta]

WriterPC == {"load", "add", "save", "sleep", "unlock"}
ReaderPC == {"read", "encode", "runlock"}
PC == {"idle", "lock"} \cup WriterPC \cup ReaderPC

TypeOK ==
  /\ MuTypeOK
  /\ db \in BOOLEAN
  /\ gauges \in GaugeMap
  /\ counters \in CounterMap
  /\ table \in Seq(Row)
  /\ pc \in [Proc -> PC]
  /\ call \in [Proc -> Call \cup {None}]
  /\ loaded \in [Proc -> Word]
  /\ encoded \in [Proc -> GaugeMap \cup {None}]
  /\ attempt \in [Proc -> Nat]
  /\ failed \in [Proc -> BOOLEAN]
  /\ answer \in [Proc -> Answer \cup {None}]
  /\ updates \in Nat
  /\ base \in Snapshot
  /\ unsaved \subseteq GaugeName \cup CounterName

Init ==
  /\ MuInit
  /\ db \in BOOLEAN
  /\ base \in Restored
  /\ gauges = base.gauges
  /\ counters = base.counters
  /\ table = <<>>
  /\ pc = [p \in Proc |-> "idle"]
  /\ call = [p \in Proc |-> None]
  /\ loaded = [p \in Proc |-> 0]
  /\ encoded = [p \in Proc |-> None]
  /\ attempt = [p \in Proc |-> 1]
  /\ failed = [p \in Proc |-> FALSE]
  /\ answer = [p \in Proc |-> None]
  /\ updates = 0
  /\ unsaved = {}

Goto(p, from, to) == pc[p] = from /\ pc' = [pc EXCEPT ![p] = to]

-----------------------------------------------------------------------------
(* Updates: Lock, change the map, saveDB, and the deferred Unlock.         *)

CallUpdate(p) ==
  /\ updates < MaxUpdates
  /\ updates' = updates + 1
  /\ Goto(p, "idle", "lock")
  /\ \E c \in UpdateCall : call' = [call EXCEPT ![p] = c]
  /\ UNCHANGED <<storeVars, table, loaded, encoded, attempt, failed, answer,
                 unsaved, fixedVars, muVars>>

Lock(p) ==
  /\ Goto(p, "lock", "load")
  /\ Announce(p)
  /\ UNCHANGED <<storeVars, table, localVars, histVars>>

StoreGauge(p) ==
  /\ WriteHeld(p)
  /\ call[p] \in UpdateGaugeCall
  /\ Goto(p, "load", "save")
  /\ gauges' = [gauges EXCEPT ![call[p].name] = call[p].value]
  /\ UNCHANGED <<counters, table, localVars, histVars, muVars>>

\* Mutation: the counter is read before the lock is held.
LoadCounterUnlocked(p) ==
  /\ call[p] \in UpdateCounterCall
  /\ Goto(p, "load", "add")
  /\ loaded' = [loaded EXCEPT ![p] = ValueOf(counters[call[p].name])]
  /\ UNCHANGED <<storeVars, table, call, encoded, attempt, failed, answer,
                 histVars, muVars>>

LoadCounter(p) ==
  /\ WriteHeld(p)
  /\ call[p] \in UpdateCounterCall
  /\ Goto(p, "load", "add")
  /\ loaded' = [loaded EXCEPT ![p] = ValueOf(counters[call[p].name])]
  /\ UNCHANGED <<storeVars, table, call, encoded, attempt, failed, answer,
                 histVars, muVars>>

\* Mutation: the sum is kept without the wrap-around of int64.
StoreCounterExact(p) ==
  /\ Goto(p, "add", "save")
  /\ counters' = [counters EXCEPT ![call[p].name] = loaded[p] + call[p].value]
  /\ loaded' = [loaded EXCEPT ![p] = 0]
  /\ UNCHANGED <<gauges, table, call, encoded, attempt, failed, answer,
                 histVars, muVars>>

StoreCounter(p) ==
  /\ Goto(p, "add", "save")
  /\ counters' = [counters EXCEPT ![call[p].name] =
                    AddWord(loaded[p], call[p].value)]
  /\ loaded' = [loaded EXCEPT ![p] = 0]
  /\ UNCHANGED <<gauges, table, call, encoded, attempt, failed, answer,
                 histVars, muVars>>

SkipSave(p) ==
  /\ ~db
  /\ Goto(p, "save", "unlock")
  /\ UNCHANGED <<storeVars, table, localVars, histVars, muVars>>

MayTry(p) == attempt[p] < MaxRetry

RowOf(c) == [name |-> c.name, value |-> c.value]

\* The INSERT succeeds.
Inserted(p) ==
  /\ db /\ MayTry(p)
  /\ Goto(p, "save", "unlock")
  /\ table' = Append(table, RowOf(call[p]))
  /\ UNCHANGED <<storeVars, localVars, histVars, muVars>>

\* Mutation: RetryDB also tries again after an error that is not a PgError.
RetryAnyError(p) ==
  /\ db /\ MayTry(p)
  /\ Goto(p, "save", "sleep")
  /\ table' \in {table, Append(table, RowOf(call[p]))}
  /\ UNCHANGED <<storeVars, localVars, histVars, muVars>>

\* One of the three SQL states that RetryDB tries again; nothing is inserted.
RetryableError(p) ==
  /\ db /\ MayTry(p)
  /\ Goto(p, "save", "sleep")
  /\ UNCHANGED <<storeVars, table, localVars, histVars, muVars>>

\* time.Sleep(delay), then i++.
Sleep(p) ==
  /\ Goto(p, "sleep", "save")
  /\ attempt' = [attempt EXCEPT ![p] = @ + 1]
  /\ UNCHANGED <<storeVars, table, call, loaded, encoded, failed, answer,
                 histVars, muVars>>

\* Any other SQL state: the statement had no effect.  An error that is not a
\* PgError (a connection lost after the statement went out) leaves it open
\* whether the row is there.
FinalError(p) ==
  /\ db /\ MayTry(p)
  /\ Goto(p, "save", "unlock")
  /\ table' \in {table, Append(table, RowOf(call[p]))}
  /\ failed' = [failed EXCEPT ![p] = TRUE]
  /\ UNCHANGED <<storeVars, call, loaded, encoded, attempt, answer, histVars,
                 muVars>>

\* The loop ran out: "after %d attempts, last error".
GiveUp(p) ==
  /\ db /\ ~MayTry(p)
  /\ Goto(p, "save", "unlock")
  /\ failed' = [failed EXCEPT ![p] = TRUE]
  /\ UNCHANGED <<storeVars, table, call, loaded, encoded, attempt, answer,
                 histVars, muVars>>

\* Mutation: the Unlock is not deferred and an error return misses it.
ReleaseUnlessFailed(p) ==
  IF failed[p] THEN UNCHANGED muVars ELSE Unlock(p)

Release(p) == Unlock(p)  \* defer ms.mu.Unlock()

ReturnUpdate(p) ==
  /\ Goto(p, "unlock", "idle")
  /\ Release(p)
  /\ unsaved' = IF failed[p] THEN unsaved \cup {call[p].name} ELSE unsaved
  /\ call' = [call EXCEPT ![p] = None]
  /\ attempt' = [attempt EXCEPT ![p] = 1]
  /\ failed' = [failed EXCEPT ![p] = FALSE]
  /\ UNCHANGED <<storeVars, table, loaded, encoded, answer, updates, fixedVars>>

-----------------------------------------------------------------------------
(* Reads: RLock, look up or encode, and the deferred RUnlock.              *)

CallRead(p) ==
  /\ Goto(p, "idle", "read")
  /\ RLock(p)
  /\ \E c \in ReadCall : call' = [call EXCEPT ![p] = c]
  /\ UNCHANGED <<storeVars, table, loaded, encoded, attempt, failed, answer,
                 histVars>>

Get(p) ==
  /\ ReadHeld(p)
  /\ Goto(p, "read", "runlock")
  /\ \/ /\ call[p] \in GetGaugeCall
        /\ answer' = [answer EXCEPT ![p] = [found |-> gauges[call[p].name]]]
     \/ /\ call[p] \in GetCounterCall
        /\ answer' = [answer EXCEPT ![p] = [found |-> counters[call[p].name]]]
  /\ UNCHANGED <<storeVars, table, call, loaded, encoded, attempt, failed,
                 histVars, muVars>>

\* Mutation: MarshalJSON does not wait for the lock.
EncodeGaugesUnlocked(p) ==
  /\ call[p] \in MarshalCall
  /\ Goto(p, "read", "encode")
  /\ encoded' = [encoded EXCEPT ![p] = gauges]
  /\ UNCHANGED <<storeVars, table, call, loaded, attempt, failed, answer,
                 histVars, muVars>>

\* json.Marshal encodes the fields of dto in order: the gauges ...
EncodeGauges(p) ==
  /\ ReadHeld(p)
  /\ call[p] \in MarshalCall
  /\ Goto(p, "read", "encode")
  /\ encoded' = [encoded EXCEPT ![p] = gauges]
  /\ UNCHANGED <<storeVars, table, call, loaded, attempt, failed, answer,
                 histVars, muVars>>

\* ... then the counters.
EncodeCounters(p) ==
  /\ Goto(p, "encode", "runlock")
  /\ answer' = [answer EXCEPT ![p] =
                  [gauges |-> encoded[p], counters |-> counters]]
  /\ encoded' = [encoded EXCEPT ![p] = None]
  /\ UNCHANGED <<storeVars, table, call, loaded, attempt, failed, histVars,
                 muVars>>

ReturnRead(p) ==
  /\ Goto(p, "runlock", "idle")
  /\ RUnlock(p)
  /\ call' = [call EXCEPT ![p] = None]
  /\ answer' = [answer EXCEPT ![p] = None]
  /\ UNCHANGED <<storeVars, table, loaded, encoded, attempt, failed,
                 histVars>>

-----------------------------------------------------------------------------
UpdateStep(p) ==
  \/ StoreGauge(p) \/ LoadCounter(p) \/ StoreCounter(p)
  \/ SkipSave(p) \/ Sleep(p) \/ GiveUp(p) \/ ReturnUpdate(p)

DBAnswer(p) == Inserted(p) \/ RetryableError(p) \/ FinalError(p)

ReadStep(p) ==
  Get(p) \/ EncodeGauges(p) \/ EncodeCounters(p) \/ ReturnRead(p)

Next ==
  \E p \in Proc :
    \/ CallUpdate(p) \/ CallRead(p)
    \/ Lock(p) \/ UpdateStep(p) \/ DBAnswer(p) \/ ReadStep(p)

Spec == Init /\ [][Next]_vars

\* Goroutines run; the inner mutex hands itself over in arrival order once a
\* waiter has starved for a millisecond; the database answers every INSERT.
Fairness ==
  \A p \in Proc :
    /\ WF_vars(UpdateStep(p))
    /\ WF_vars(DBAnswer(p))
    /\ WF_vars(ReadStep(p))
    /\ SF_vars(Lock(p))

FairSpec == Spec /\ Fairness

-----------------------------------------------------------------------------
(* Properties.                                                             *)

\* A goroutine that changes the maps is alone with them, from the load to the
\* end of saveDB: nobody else is inside a change or a read.  A Go map that is
\* read and written at once stops the program with a fatal error, and rows
\* saved outside the lock could be inserted in another order than the writes.
Changing(p) == pc[p] \in {"add", "save", "sleep", "unlock"}
Looking(p)  == pc[p] \in {"encode", "runlock"}

NoConcurrentMapAccess ==
  \A p, q \in Proc : p # q /\ Changing(p) => ~Changing(q) /\ ~Looking(q)

\* The inductive invariant behind the theorems of MemStorageProofs: who is
\* where in the lock follows from the program counters, and what a goroutine
\* has read inside its critical section is still what the maps hold.
MutexInv ==
  /\ \A p \in Proc : pc[p] \in WriterPC <=> slot = p
  /\ \A p \in Proc : pc[p] \in ReaderPC <=> p \in readers \cup parked
  /\ \A p \in Proc : Looking(p) => p \in readers
  /\ \A p \in Proc : Changing(p) => readers = {}
  /\ readers \cap parked = {}
  /\ slot = None => parked = {}

CallInv ==
  \A p \in Proc :
    /\ pc[p] = "idle" => call[p] = None /\ answer[p] = None
    /\ pc[p] \in WriterPC \cup {"lock"} =>
         call[p] \in UpdateCall /\ answer[p] = None
    /\ pc[p] \in {"read", "encode"} => answer[p] = None
    /\ pc[p] \in ReaderPC => call[p] \in ReadCall
    /\ pc[p] = "add" => call[p] \in UpdateCounterCall
    /\ pc[p] = "encode" => call[p] \in MarshalCall

StillCurrent ==
  \A p \in Proc :
    /\ pc[p] = "add" => loaded[p] = ValueOf(counters[call[p].name])
    /\ pc[p] = "encode" => encoded[p] = gauges

IInv == TypeOK /\ MutexInv /\ CallInv /\ StillCurrent

\* The store is linearizable: every call of UpdateGauge, UpdateCounter,
\* GetGauge, GetCounter and MarshalJSON takes effect at one instant between
\* its invocation and its return, whatever the database answers.
Phase(p) ==
  CASE pc[p] = "idle" -> "idle"
    [] pc[p] \in {"save", "sleep", "unlock", "runlock"} -> "applied"
    [] OTHER -> "pending"

Atomic == INSTANCE AtomicStore WITH phase <- [p \in Proc |-> Phase(p)]

Linearizable == Atomic!Spec

\* The rows rebuild the store.  When no update is between its map write and
\* its row, replaying the table over the restored contents, in insertion
\* order, gives the maps: the last row of a gauge, the wrapped sum of the rows
\* of a counter.  Names for which an update returned an error are excused, and
\* those used with both kinds: a row does not tell its kind.  after[i] is what
\* the first i rows make of the restored entry.
ReplaysGauge(n, after) ==
  /\ after[0] = base.gauges[n]
  /\ \A i \in 1 .. Len(table) :
       after[i] = IF table[i].name = n THEN table[i].value ELSE after[i - 1]

ReplaysCounter(n, after) ==
  /\ after[0] = base.counters[n]
  /\ \A i \in 1 .. Len(table) :
       after[i] = IF table[i].name = n
                    THEN AddWord(ValueOf(after[i - 1]), table[i].value)
                    ELSE after[i - 1]

AtRest == \A p \in Proc : pc[p] \notin {"save", "sleep", "unlock"}

TableRebuildsStore ==
  db /\ AtRest =>
    /\ \A n \in GaugeName \ (CounterName \cup unsaved) :
         \E after \in [0 .. Len(table) -> GaugeValue \cup {Absent}] :
           ReplaysGauge(n, after) /\ after[Len(table)] = gauges[n]
    /\ \A n \in CounterName \ (GaugeName \cup unsaved) :
         \E after \in [0 .. Len(table) -> Word \cup {Absent}] :
           ReplaysCounter(n, after) /\ after[Len(table)] = counters[n]

\* Every call returns, also the writer that arrives in a stream of readers
\* and the reader parked behind a writer that sleeps between two attempts.
EveryCallReturns == \A p \in Proc : pc[p] # "idle" ~> pc[p] = "idle"
=============================================================================
