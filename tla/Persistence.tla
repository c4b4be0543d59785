---------------------------- MODULE Persistence ----------------------------
(***************************************************************************)
(* The metrics file of the server: FlushToFile and ReadFromFile            *)
(* (internal/service/storage.go), the dumper goroutine, start, stop and    *)
(* exit of the process (cmd/server/main.go), and the update handlers that  *)
(* flush when STORE_INTERVAL is 0 (internal/handler/handler.go).           *)
(*                                                                         *)
(* The store is taken as AtomicStore describes it: an update and a         *)
(* snapshot are one step each.  Its contents are the set of updates they   *)
(* reflect, numbered in the order of the requests.                         *)
(***************************************************************************)
EXTENDS Integers

CONSTANTS
  Handler,         \* goroutines of the HTTP server, each in one request
  Dumper,          \* the goroutine of runMetricDumper
  StoreIntervals,  \* the values of STORE_INTERVAL to consider
  Routes,          \* the update routes clients use
  MaxUpdates,      \* bound: update requests in a behaviour
  MaxStarts,       \* bound: starts of the process
  MaxFaults        \* bound: file operations that fail

ASSUME PersistenceAssumption ==
  /\ Dumper \notin Handler
  /\ StoreIntervals \subseteq Int
  /\ Routes \subseteq {"json", "plain", "batch"}
  /\ MaxUpdates \in Nat /\ MaxStarts \in Nat /\ MaxFaults \in Nat

VARIABLES
  storeInterval,  \* flags.StoreInterval
  restore,        \* flags.Restore
  phase,          \* "down", "up", or "stopping" once ctx is done
  serving,        \* the listener accepts requests
  mem,            \* contents of the store
  nan,            \* a gauge holds NaN or an infinity: json.Marshal fails
  file,           \* the file at FileStorePath
  pc,             \* where each flusher is
  route,          \* the route of the request a handler is in
  mine,           \* the update of that request
  data,           \* the encoded snapshot a flusher is about to write
  last,           \* the dumper is in the flush it makes on ctx.Done
  requests,       \* history: number of update requests so far
  starts,         \* history: number of starts
  faults,         \* history: number of failed file operations
  acked,          \* history: updates answered with 200
  ackedJSON,      \* history: those of them that came by the flushing route
  promised,       \* history: updates answered before the process was stopped
  saved,          \* history: updates a complete write has put in the file
  finalOK,        \* history: the dumper's last flush returned nil
  exited,         \* history: the process went down by returning from main
  damage          \* history: what has happened to the file

memVars    == <<mem, nan>>
configVars == <<storeInterval, restore>>
lifeVars   == <<phase, serving, starts, exited, promised>>
localVars  == <<route, mine>>
ackVars    == <<acked, ackedJSON>>
flushVars  == <<file, data, last, saved, finalOK, damage, faults>>
vars == <<storeInterval, restore, phase, serving, mem, nan, file, pc, route,
          mine, data, last, requests, starts, faults, acked, ackedJSON,
          promised, saved, finalOK, exited, damage>>

Flusher == Handler \cup {Dumper}
Update  == 1 .. MaxUpdates
FlushPC   == {"marshal", "open", "write"}
HandlerPC == {"idle", "update", "reply"} \cup FlushPC
DumperPC  == {"wait", "returned"} \cup FlushPC

\* What the file is: absent, truncated, no JSON document (cut short, or two
\* documents over each other), or a snapshot.
Missing == [kind |-> "missing", holds |-> {}]
Empty   == [kind |-> "empty", holds |-> {}]
Corrupt == [kind |-> "corrupt", holds |-> {}]
JSON(s) == [kind |-> "json", holds |-> s]

TypeOK ==
  /\ storeInterval \in StoreIntervals
  /\ restore \in BOOLEAN
  /\ phase \in {"down", "up", "stopping"}
  /\ serving \in BOOLEAN
  /\ mem \subseteq Update
  /\ nan \in BOOLEAN
  /\ file \in {Missing, Empty, Corrupt} \cup {JSON(s) : s \in SUBSET Update}
  /\ pc \in [Flusher -> HandlerPC \cup DumperPC]
  /\ pc[Dumper] \in DumperPC
  /\ \A h \in Handler : pc[h] \in HandlerPC
  /\ route \in [Handler -> {"json", "plain", "batch"}]
  /\ mine \in [Handler -> Update \cup {0}]
  /\ data \in [Flusher -> SUBSET Update]
  /\ last \in BOOLEAN
  /\ requests \in 0 .. MaxUpdates
  /\ starts \in 0 .. MaxStarts
  /\ faults \in 0 .. MaxFaults
  /\ ackedJSON \subseteq acked /\ acked \subseteq Update
  /\ promised \subseteq acked
  /\ saved \subseteq Update
  /\ finalOK \in BOOLEAN
  /\ exited \in BOOLEAN
  /\ damage \subseteq {"fault", "torn", "overlap", "skipped"}

Init ==
  /\ storeInterval \in StoreIntervals
  /\ restore \in BOOLEAN
  /\ phase = "down" /\ serving = FALSE
  /\ mem = {} /\ nan = FALSE
  /\ file = Missing
  /\ pc = [f \in Flusher |-> IF f = Dumper THEN "returned" ELSE "idle"]
  /\ route = [h \in Handler |-> "plain"]
  /\ mine = [h \in Handler |-> 0]
  /\ data = [f \in Flusher |-> {}]
  /\ last = FALSE
  /\ requests = 0 /\ starts = 0 /\ faults = 0
  /\ acked = {} /\ ackedJSON = {} /\ promised = {} /\ saved = {}
  /\ finalOK = FALSE /\ exited = FALSE
  /\ damage = {}

-----------------------------------------------------------------------------
(* Start, stop and exit.                                                   *)

\* Mutation: the restore is forgotten.
RestoredNothing == {}

\* ReadFromFile when the flag asks for it; an error is logged and the server
\* starts empty.
Restored == IF restore THEN file.holds ELSE {}

\* runMetricDumper returns at once unless the interval is positive.
DumperStart == IF storeInterval <= 0 THEN "returned" ELSE "wait"

StartWith(contents) ==
  /\ phase = "down"
  /\ starts < MaxStarts
  /\ phase' = "up" /\ serving' = TRUE
  /\ starts' = starts + 1
  /\ mem' = contents /\ nan' = FALSE
  /\ pc' = [pc EXCEPT ![Dumper] = DumperStart]
  /\ last' = FALSE /\ finalOK' = FALSE /\ exited' = FALSE
  /\ promised' = {}

Start ==
  /\ StartWith(Restored)
  /\ UNCHANGED <<configVars, file, localVars, data, requests, faults, ackVars,
                 saved, damage>>

\* os.ReadFile fails on a file that is there: the same message, and the next
\* flush replaces a file that was never read.
StartUnread ==
  /\ restore /\ file # Missing
  /\ faults < MaxFaults
  /\ StartWith({})
  /\ faults' = faults + 1
  /\ damage' = damage \cup {"fault"}
  /\ UNCHANGED <<configVars, file, localVars, data, requests, ackVars, saved>>

\* A signal, or the HTTP server fails: the errgroup's context is done.
Stop ==
  /\ phase = "up"
  /\ phase' = "stopping"
  /\ promised' = acked \cap mem
  /\ UNCHANGED <<configVars, memVars, file, pc, localVars, data, last, serving,
                 requests, starts, faults, ackVars, saved, finalOK, exited,
                 damage>>

\* srv.Shutdown closes the listener and ListenAndServe returns: so does
\* runHTTPServer, which looks for Shutdown's result but does not wait for it.
CloseListener ==
  /\ phase = "stopping" /\ serving
  /\ serving' = FALSE
  /\ UNCHANGED <<configVars, phase, memVars, file, pc, localVars, data, last,
                 requests, starts, faults, ackVars, promised, saved, finalOK,
                 exited, damage>>

\* The process goes away with whatever its goroutines were doing.
Writing(f) == pc[f] = "write"

Die ==
  /\ phase' = "down" /\ serving' = FALSE
  /\ mem' = {} /\ nan' = FALSE
  /\ pc' = [f \in Flusher |-> IF f = Dumper THEN "returned" ELSE "idle"]
  /\ data' = [f \in Flusher |-> {}]
  /\ route' = [h \in Handler |-> "plain"]
  /\ mine' = [h \in Handler |-> 0]
  /\ IF \E f \in Flusher : Writing(f)
       THEN /\ file' \in {file, Corrupt}
            /\ damage' = damage \cup {"torn"}
       ELSE UNCHANGED <<file, damage>>
  /\ UNCHANGED <<configVars, last, requests, starts, faults, ackVars, promised,
                 saved, finalOK>>

\* Mutation: the dumper is started with "go" and g.Wait does not wait for it.
ServerReturned == ~serving

\* g.Wait() waits for the dumper and for runHTTPServer, not for handlers.
GroupReturned == ~serving /\ pc[Dumper] = "returned"

Exit ==
  /\ phase = "stopping"
  /\ GroupReturned
  /\ Die
  /\ exited' = TRUE

Crash ==
  /\ phase # "down"
  /\ Die
  /\ exited' = FALSE

-----------------------------------------------------------------------------
(* FlushToFile, by the dumper and by the handlers of the flushing route.   *)

AfterFlush(f) ==
  IF f # Dumper THEN "reply" ELSE IF last THEN "returned" ELSE "wait"

\* Mutation: whoever cannot flush answers the request.
AfterFailedFlushReplies(f) == "reply"

\* Mutation: the dumper returns the error instead of logging it.
AfterFailedFlushReturns(f) == IF f # Dumper THEN "reply" ELSE "returned"

AfterFailedFlush(f) == AfterFlush(f)

EndFlush(f, ok) ==
  /\ pc' = [pc EXCEPT ![f] = IF ok THEN AfterFlush(f) ELSE AfterFailedFlush(f)]
  /\ data' = [data EXCEPT ![f] = {}]
  /\ finalOK' = (ok /\ f = Dumper)

Flushing(f) == pc[f] \in {"open", "write"}

\* json.MarshalIndent: a snapshot of the store, or the error of a NaN.
Marshal(f) ==
  /\ pc[f] = "marshal"
  /\ IF nan
       THEN EndFlush(f, FALSE) /\ damage' = damage \cup {"skipped"}
       ELSE /\ pc' = [pc EXCEPT ![f] = "open"]
            /\ data' = [data EXCEPT ![f] = mem]
            /\ damage' = IF \E g \in Flusher : Flushing(g)
                           THEN damage \cup {"overlap"} ELSE damage
            /\ UNCHANGED finalOK
  /\ UNCHANGED <<configVars, lifeVars, memVars, localVars, requests, ackVars,
                 file, last, saved, faults>>

\* os.WriteFile opens with O_TRUNC ...
Open(f) ==
  /\ pc[f] = "open"
  /\ file' = Empty
  /\ pc' = [pc EXCEPT ![f] = "write"]
  /\ UNCHANGED <<configVars, lifeVars, memVars, localVars, requests, ackVars,
                 data, last, saved, finalOK, damage, faults>>

\* ... and writes from offset 0.  Over another flusher's document that makes
\* the new document, or garbage when the new one is the shorter of the two.
Over(new) ==
  IF file \in {Empty, JSON(new)} THEN {JSON(new)} ELSE {JSON(new), Corrupt}

Write(f) ==
  /\ pc[f] = "write"
  /\ file' \in Over(data[f])
  /\ saved' = IF file'.kind = "json" THEN saved \cup data[f] ELSE saved
  /\ EndFlush(f, TRUE)
  /\ UNCHANGED <<configVars, lifeVars, memVars, localVars, requests, ackVars,
                 last, damage, faults>>

\* The file cannot be opened, or the write fails part of the way.
FileError(f) ==
  /\ Flushing(f)
  /\ faults < MaxFaults
  /\ faults' = faults + 1
  /\ damage' = damage \cup {"fault"}
  /\ file' \in {file} \cup (IF Writing(f) THEN {Corrupt} ELSE {})
  /\ EndFlush(f, FALSE)
  /\ UNCHANGED <<configVars, lifeVars, memVars, localVars, requests, ackVars,
                 last, saved>>

-----------------------------------------------------------------------------
(* The dumper's select.                                                    *)

BeginDump(final) ==
  /\ pc[Dumper] = "wait"
  /\ last' = final
  /\ pc' = [pc EXCEPT ![Dumper] = "marshal"]
  /\ UNCHANGED <<configVars, lifeVars, memVars, file, localVars, data,
                 requests, faults, ackVars, saved, finalOK, damage>>

Tick == phase # "down" /\ BeginDump(FALSE)

Done == phase = "stopping" /\ BeginDump(TRUE)

-----------------------------------------------------------------------------
(* Requests.                                                               *)

Request(h) ==
  /\ serving
  /\ requests < MaxUpdates
  /\ pc[h] = "idle"
  /\ requests' = requests + 1
  /\ mine' = [mine EXCEPT ![h] = requests + 1]
  /\ \E r \in Routes : route' = [route EXCEPT ![h] = r]
  /\ pc' = [pc EXCEPT ![h] = "update"]
  /\ UNCHANGED <<configVars, lifeVars, memVars, ackVars, flushVars>>

\* Mutation: the single-metric route forgets the flush as the others do.
FlushesNever(h) == FALSE

\* Only UpdateMetrics flushes, and only with dumpToFile.
Flushes(h) == route[h] = "json" /\ storeInterval = 0

\* The update of the store.  A JSON body cannot carry NaN, the path of the
\* plain route can; any finite value for the same gauge puts it right again.
Apply(h) ==
  /\ pc[h] = "update"
  /\ mem' = mem \cup {mine[h]}
  /\ nan' \in {nan, FALSE} \cup (IF route[h] = "plain" THEN {TRUE} ELSE {})
  /\ pc' = [pc EXCEPT ![h] = IF Flushes(h) THEN "marshal" ELSE "reply"]
  /\ UNCHANGED <<configVars, lifeVars, localVars, requests, ackVars,
                 flushVars>>

Reply(h) ==
  /\ pc[h] = "reply"
  /\ acked' = acked \cup {mine[h]}
  /\ ackedJSON' = IF route[h] = "json" THEN ackedJSON \cup {mine[h]}
                                       ELSE ackedJSON
  /\ pc' = [pc EXCEPT ![h] = "idle"]
  /\ mine' = [mine EXCEPT ![h] = 0]
  /\ route' = [route EXCEPT ![h] = "plain"]
  /\ UNCHANGED <<configVars, lifeVars, memVars, requests, flushVars>>

-----------------------------------------------------------------------------
FlushStep(f) == Marshal(f) \/ Open(f) \/ Write(f)

HandlerStep(h) == Apply(h) \/ Reply(h) \/ FlushStep(h)

DumperStep == Tick \/ Done \/ FlushStep(Dumper)

Next ==
  \/ Start \/ StartUnread \/ Stop \/ CloseListener \/ Exit \/ Crash
  \/ \E h \in Handler : Request(h) \/ HandlerStep(h)
  \/ DumperStep
  \/ \E f \in Flusher : FileError(f)

Spec == Init /\ [][Next]_vars

\* The ticker fires again and again and the goroutines run.
FairSpec == Spec /\ WF_vars(DumperStep)

-----------------------------------------------------------------------------
(* Properties.                                                             *)

\* An update that a complete write has put in the file is never lost again,
\* through any number of stops, crashes and restarts: the file is readable or
\* being written, holds it, and a restored server knows it.  The excuses are
\* exactly what can damage the file: an I/O error, a process that dies
\* between O_TRUNC and the write, and two flushes at the same time.
SavedStaysSaved ==
  restore /\ damage \subseteq {"skipped"} =>
    /\ phase # "down" => saved \subseteq mem
    /\ \/ file = Missing /\ saved = {}
       \/ file.kind = "json" /\ saved \subseteq file.holds
       \/ \E f \in Flusher : Writing(f)

\* With a dumper, main does not return before every update answered up to the
\* stop is in the file, if the dumper's last flush returned nil: neither a
\* request that runs into the shutdown nor the tick's own flush is in its way.
GracefulStopSaves ==
  exited /\ storeInterval > 0 /\ finalOK /\ phase = "down" =>
    file.kind = "json" /\ promised \subseteq file.holds

\* With STORE_INTERVAL 0 a JSON update is answered only after a write that
\* included it, unless a flush failed or two of them overlapped.
SyncAckIsSaved ==
  storeInterval = 0 /\ damage \subseteq {"torn"} => ackedJSON \subseteq saved

\* With a dumper every answered update reaches the file while the server
\* stays up, also after failed writes, unless a gauge stays at NaN.
EventuallySaved ==
  <>[]~nan =>
    \A u \in Update :
      storeInterval > 0 /\ phase = "up" /\ u \in acked \cap mem
        ~> u \in file.holds \/ phase # "up"

\* What TestMemStorage_FlushToFile_and_ReadFromFile says of one goroutine: a
\* file that FlushToFile has written reads back as the store.  Claimed here
\* of a server that flushes on every update, when no flush is under way.
FlushedFileReadsBack ==
  /\ storeInterval = 0 /\ phase = "up" /\ mem # {}
  /\ \A f \in Flusher : pc[f] \notin FlushPC
  => file = JSON(mem)
=============================================================================
