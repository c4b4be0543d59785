------------------------- MODULE PersistenceProofs -------------------------
(***************************************************************************)
(* Machine-checked proofs about Persistence, for any number of handlers,   *)
(* any set of intervals, and any number of updates, starts and faults.     *)
(***************************************************************************)
EXTENDS Persistence, TLAPS

-----------------------------------------------------------------------------
(* The inductive invariant.                                                *)

\* Nothing of the process is left when it is down.
DownInv ==
  phase = "down" =>
    /\ ~serving /\ mem = {}
    /\ pc = [f \in Flusher |-> IF f = Dumper THEN "returned" ELSE "idle"]

\* A handler past the update has put it in the store, flushes only on the
\* flushing route, and then writes a document with its update.
HandlerOK(h) ==
  /\ pc[h] # "idle" => mine[h] \in Update
  /\ pc[h] \in FlushPC \cup {"reply"} => mine[h] \in mem
  /\ pc[h] \in FlushPC => Flushes(h)
  /\ Flushing(h) => mine[h] \in data[h]

HandlerInv == \A h \in Handler : HandlerOK(h)

\* Unless two flushes have overlapped, one flusher at most has the file open
\* and finds it empty; with a dumper nobody else flushes at all.
FlushInv ==
  /\ \A f \in Flusher : Flushing(f) => data[f] \subseteq mem
  /\ "overlap" \notin damage =>
       /\ \A f, g \in Flusher : Flushing(f) /\ Flushing(g) => f = g
       /\ \A f \in Flusher : Writing(f) => file = Empty
  /\ storeInterval > 0 => "overlap" \notin damage

\* Without damage a flusher has a snapshot that is not older than the file.
SnapshotInv ==
  restore /\ damage \subseteq {"skipped"} =>
    \A f \in Flusher : Flushing(f) => saved \subseteq data[f]

\* A handler that replies on the flushing route has its update in the file.
ReplyInv ==
  storeInterval = 0 /\ damage \subseteq {"torn"} =>
    \A h \in Handler : pc[h] = "reply" /\ route[h] = "json" => mine[h] \in saved

\* The dumper's last flush comes after the stop, is of a store that has all
\* that was promised, and its result is what finalOK says when it returns.
FinalOK ==
  /\ phase = "stopping" => promised \subseteq mem
  /\ last => phase = "stopping"
  /\ last /\ Flushing(Dumper) => promised \subseteq data[Dumper]
  /\ pc[Dumper] = "returned" => last
  /\ pc[Dumper] = "returned" /\ finalOK =>
       file.kind = "json" /\ promised \subseteq file.holds

FinalInv == storeInterval > 0 /\ phase # "down" => FinalOK

IInv ==
  /\ TypeOK /\ DownInv /\ HandlerInv /\ FlushInv /\ SnapshotInv
  /\ ReplyInv /\ FinalInv
  /\ SavedStaysSaved /\ SyncAckIsSaved /\ GracefulStopSaves

-----------------------------------------------------------------------------
(* What a step does to the flushers.                                       *)

\* A handler is not the dumper.
LEMMA Flushers ==
  /\ Dumper \in Flusher /\ Handler \subseteq Flusher
  /\ \A h \in Handler : h # Dumper
  /\ \A f \in Flusher : f # Dumper => f \in Handler
  BY PersistenceAssumption DEF Flusher

\* After a flush, whatever came of it, a handler replies and the dumper waits
\* again, or returns if it was the flush it makes when the server stops.
LEMMA EndFlushEffect ==
  ASSUME TypeOK, NEW f \in Flusher, NEW ok \in BOOLEAN, EndFlush(f, ok)
  PROVE  /\ pc'[f] = AfterFlush(f) /\ data'[f] = {}
         /\ \A g \in Flusher : g # f => pc'[g] = pc[g] /\ data'[g] = data[g]
         /\ finalOK' = (ok /\ f = Dumper)
         /\ f # Dumper => AfterFlush(f) = "reply"
         /\ f = Dumper => AfterFlush(f) = IF last THEN "returned" ELSE "wait"
         /\ pc' \in [Flusher -> HandlerPC \cup DumperPC]
         /\ pc'[Dumper] \in DumperPC
         /\ \A h \in Handler : pc'[h] \in HandlerPC
         /\ data' \in [Flusher -> SUBSET Update]
<1>1. pc' = [pc EXCEPT ![f] = AfterFlush(f)]
  BY DEF EndFlush, AfterFailedFlush
<1>2. data' = [data EXCEPT ![f] = {}] /\ finalOK' = (ok /\ f = Dumper)
  BY DEF EndFlush
<1>3. /\ f # Dumper => AfterFlush(f) = "reply"
      /\ f = Dumper => AfterFlush(f) = IF last THEN "returned" ELSE "wait"
  BY DEF AfterFlush
<1>4. AfterFlush(f) \in HandlerPC \cup DumperPC
  BY <1>3 DEF HandlerPC, DumperPC
<1>5. /\ pc'[f] = AfterFlush(f) /\ data'[f] = {}
      /\ \A g \in Flusher : g # f => pc'[g] = pc[g] /\ data'[g] = data[g]
      /\ pc' \in [Flusher -> HandlerPC \cup DumperPC]
      /\ data' \in [Flusher -> SUBSET Update]
  BY <1>1, <1>2, <1>4 DEF TypeOK
<1>6. pc'[Dumper] \in DumperPC
  BY <1>3, <1>5, Flushers DEF TypeOK, DumperPC
<1>7. \A h \in Handler : pc'[h] \in HandlerPC
  BY <1>3, <1>5, Flushers DEF TypeOK, HandlerPC
<1> QED
  BY <1>2, <1>3, <1>5, <1>6, <1>7

\* The places of a handler and of the dumper in their own code.
LEMMA Places ==
  ASSUME TypeOK
  PROVE  /\ \A h \in Handler : pc[h] \in
              {"idle", "update", "reply", "marshal", "open", "write"}
         /\ pc[Dumper] \in {"wait", "returned", "marshal", "open", "write"}
  BY DEF TypeOK, HandlerPC, DumperPC, FlushPC

\* What Die leaves: nothing but the file.
LEMMA DieEffect ==
  ASSUME TypeOK, Die
  PROVE  /\ phase' = "down" /\ ~serving' /\ mem' = {}
         /\ pc' = [f \in Flusher |-> IF f = Dumper THEN "returned" ELSE "idle"]
         /\ \A f \in Flusher : ~Flushing(f)'
         /\ \A h \in Handler : pc'[h] = "idle"
         /\ file' \in {file, Corrupt} /\ damage \subseteq damage'
         /\ damage' \subseteq damage \cup {"torn"}
         /\ "torn" \notin damage' => UNCHANGED file /\ \A f \in Flusher : ~Writing(f)
         /\ (\A f \in Flusher : ~Writing(f)) => UNCHANGED <<file, damage>>
         /\ UNCHANGED <<configVars, last, requests, starts, faults, ackVars,
                        promised, saved, finalOK>>
<1>1. pc' = [f \in Flusher |-> IF f = Dumper THEN "returned" ELSE "idle"]
  BY DEF Die
<1>2. \A f \in Flusher : ~Flushing(f)'
  BY <1>1 DEF Flushing
<1>3. \A h \in Handler : pc'[h] = "idle"
  BY <1>1, Flushers
<1> QED
  BY <1>1, <1>2, <1>3 DEF Die

\* The flags never change, and damage is never undone.
LEMMA Monotone ==
  ASSUME [Next]_vars
  PROVE  UNCHANGED <<storeInterval, restore>> /\ damage \subseteq damage'
<1>1. UNCHANGED <<storeInterval, restore>>
  BY DEF Next, HandlerStep, DumperStep, FlushStep, Start, StartUnread, Stop,
     CloseListener, Exit, Crash, Die, Request, Apply, Reply, Marshal, Open, Write,
     FileError, Tick, Done, BeginDump, configVars, vars
<1>2. damage \subseteq damage'
  BY DEF Next, HandlerStep, DumperStep, FlushStep, Start, StartUnread, Stop,
     CloseListener, Exit, Crash, Die, Request, Apply, Reply, Marshal, Open, Write,
     FileError, Tick, Done, BeginDump, flushVars, vars
<1> QED
  BY <1>1, <1>2

-----------------------------------------------------------------------------
(* The invariant is inductive.                                             *)

LEMMA InitIInv == Init => IInv
<1> SUFFICES ASSUME Init PROVE IInv
  OBVIOUS
<1>1. /\ \A f \in Flusher : ~Flushing(f) /\ ~Writing(f)
      /\ \A h \in Handler : pc[h] = "idle"
      /\ pc[Dumper] = "returned"
  BY Flushers DEF Init, Flushing, Writing
<1>2. TypeOK
  <2>1. /\ pc \in [Flusher -> HandlerPC \cup DumperPC]
        /\ pc[Dumper] \in DumperPC
        /\ \A h \in Handler : pc[h] \in HandlerPC
    BY <1>1 DEF Init, HandlerPC, DumperPC
  <2>2. /\ requests \in 0 .. MaxUpdates /\ starts \in 0 .. MaxStarts
        /\ faults \in 0 .. MaxFaults
    BY PersistenceAssumption DEF Init
  <2> QED
    BY <2>1, <2>2 DEF Init, TypeOK
<1>3. DownInv
  BY DEF Init, DownInv
<1>4. HandlerInv
  BY <1>1, Flushers DEF HandlerInv, HandlerOK, Flushing, FlushPC
<1>5. FlushInv
  BY <1>1 DEF Init, FlushInv
<1>6. SnapshotInv /\ ReplyInv /\ FinalInv
  BY <1>1 DEF Init, SnapshotInv, ReplyInv, FinalInv, FinalOK
<1>7. SavedStaysSaved /\ SyncAckIsSaved /\ GracefulStopSaves
  BY DEF Init, SavedStaysSaved, SyncAckIsSaved, GracefulStopSaves, JSON
<1> QED
  BY <1>2, <1>3, <1>4, <1>5, <1>6, <1>7 DEF IInv

LEMMA NextTypeOK ==
  ASSUME IInv, [Next]_vars
  PROVE  TypeOK'
<1>0. TypeOK /\ HandlerInv /\ Dumper \in Flusher
  BY Flushers DEF IInv
<1>a. file.holds \subseteq Update
  BY <1>0 DEF TypeOK, Missing, Empty, Corrupt, JSON
<1>1. ASSUME NEW c \in SUBSET Update, StartWith(c)
      PROVE  /\ phase' = "up" /\ serving' = TRUE /\ mem' = c /\ nan' = FALSE
             /\ starts' \in 0 .. MaxStarts
             /\ pc' \in [Flusher -> HandlerPC \cup DumperPC]
             /\ pc'[Dumper] \in DumperPC
             /\ \A h \in Handler : pc'[h] \in HandlerPC
             /\ last' = FALSE /\ finalOK' = FALSE /\ exited' = FALSE
             /\ promised' = {}
  BY <1>0, <1>1, Flushers, PersistenceAssumption
     DEF StartWith, TypeOK, DumperStart, DumperPC
<1>2. ASSUME Start PROVE TypeOK'
  <2>1. Restored \in SUBSET Update /\ StartWith(Restored)
    BY <1>2, <1>a DEF Restored, Start
  <2> QED
    BY <1>0, <1>1, <1>2, <2>1 DEF Start, TypeOK, configVars, localVars, ackVars
<1>3. ASSUME StartUnread PROVE TypeOK'
  <2>1. StartWith({}) /\ faults' \in 0 .. MaxFaults
    BY <1>0, <1>3, PersistenceAssumption DEF StartUnread, TypeOK
  <2> QED
    BY <1>0, <1>1, <1>3, <2>1 DEF StartUnread, TypeOK, configVars, localVars, ackVars
<1>4. ASSUME Stop PROVE TypeOK'
  BY <1>0, <1>4 DEF Stop, TypeOK, configVars, memVars, localVars, ackVars
<1>5. ASSUME CloseListener PROVE TypeOK'
  BY <1>0, <1>5 DEF CloseListener, TypeOK, configVars, memVars, localVars, ackVars
<1>6. ASSUME Die, exited' \in BOOLEAN PROVE TypeOK'
  <2>1. /\ pc' \in [Flusher -> HandlerPC \cup DumperPC]
        /\ pc'[Dumper] \in DumperPC
        /\ \A h \in Handler : pc'[h] \in HandlerPC
    BY <1>6, Flushers DEF Die, HandlerPC, DumperPC
  <2>2. /\ data' \in [Flusher -> SUBSET Update]
        /\ route' \in [Handler -> {"json", "plain", "batch"}]
        /\ mine' \in [Handler -> Update \cup {0}]
        /\ mem' \subseteq Update /\ nan' \in BOOLEAN
        /\ phase' \in {"down", "up", "stopping"} /\ serving' \in BOOLEAN
    BY <1>6 DEF Die
  <2>3. /\ file' \in {file, Corrupt} /\ damage' \subseteq damage \cup {"torn"}
        /\ UNCHANGED <<configVars, last, requests, starts, faults, ackVars,
                       promised, saved, finalOK>>
    BY <1>0, <1>6, DieEffect
  <2> QED
    BY <1>0, <1>6, <2>1, <2>2, <2>3 DEF TypeOK, configVars, ackVars
<1>7. ASSUME NEW h \in Handler, Request(h) PROVE TypeOK'
  <2>1. /\ requests' \in 0 .. MaxUpdates /\ requests + 1 \in Update
    BY <1>0, <1>7, PersistenceAssumption DEF Request, TypeOK, Update
  <2>2. /\ mine' \in [Handler -> Update \cup {0}]
        /\ route' \in [Handler -> {"json", "plain", "batch"}]
    BY <1>0, <1>7, <2>1, PersistenceAssumption DEF Request, TypeOK
  <2>3. /\ pc' \in [Flusher -> HandlerPC \cup DumperPC]
        /\ pc'[Dumper] \in DumperPC
        /\ \A g \in Handler : pc'[g] \in HandlerPC
    BY <1>0, <1>7, Flushers DEF Request, TypeOK, HandlerPC
  <2> QED
    BY <1>0, <1>7, <2>1, <2>2, <2>3
    DEF Request, TypeOK, configVars, lifeVars, memVars, ackVars, flushVars
<1>8. ASSUME NEW h \in Handler, Apply(h) PROVE TypeOK'
  <2>1. mem' \subseteq Update /\ nan' \in BOOLEAN
    BY <1>0, <1>8 DEF Apply, TypeOK, HandlerInv, HandlerOK
  <2>2. /\ pc' \in [Flusher -> HandlerPC \cup DumperPC]
        /\ pc'[Dumper] \in DumperPC
        /\ \A g \in Handler : pc'[g] \in HandlerPC
    BY <1>0, <1>8, Flushers DEF Apply, TypeOK, HandlerPC, FlushPC
  <2> QED
    BY <1>0, <1>8, <2>1, <2>2
    DEF Apply, TypeOK, configVars, lifeVars, localVars, ackVars, flushVars
<1>9. ASSUME NEW h \in Handler, Reply(h) PROVE TypeOK'
  <2>1. mine[h] \in Update
    BY <1>0, <1>9 DEF Reply, HandlerInv, HandlerOK
  <2>2. /\ ackedJSON' \subseteq acked' /\ acked' \subseteq Update
        /\ promised \subseteq acked'
    BY <1>0, <1>9, <2>1 DEF Reply, TypeOK
  <2>3. /\ pc' \in [Flusher -> HandlerPC \cup DumperPC]
        /\ pc'[Dumper] \in DumperPC
        /\ \A g \in Handler : pc'[g] \in HandlerPC
    BY <1>0, <1>9, Flushers DEF Reply, TypeOK, HandlerPC
  <2>4. /\ mine' \in [Handler -> Update \cup {0}]
        /\ route' \in [Handler -> {"json", "plain", "batch"}]
    BY <1>0, <1>9 DEF Reply, TypeOK
  <2> QED
    BY <1>0, <1>9, <2>2, <2>3, <2>4
    DEF Reply, TypeOK, configVars, lifeVars, memVars, flushVars
<1>10. ASSUME NEW f \in Flusher, Marshal(f) PROVE TypeOK'
  <2>1. /\ pc' \in [Flusher -> HandlerPC \cup DumperPC]
        /\ pc'[Dumper] \in DumperPC
        /\ \A h \in Handler : pc'[h] \in HandlerPC
        /\ data' \in [Flusher -> SUBSET Update] /\ finalOK' \in BOOLEAN
    <3>1. CASE nan
      BY <1>0, <1>10, <3>1, EndFlushEffect DEF Marshal
    <3>2. CASE ~nan
      <4>1. /\ pc' = [pc EXCEPT ![f] = "open"]
            /\ data' = [data EXCEPT ![f] = mem] /\ finalOK' = finalOK
        BY <1>10, <3>2 DEF Marshal
      <4> QED
        BY <1>0, <4>1, Flushers DEF TypeOK, HandlerPC, DumperPC, FlushPC
    <3> QED
      BY <3>1, <3>2
  <2>2. damage' \subseteq {"fault", "torn", "overlap", "skipped"}
    BY <1>0, <1>10 DEF Marshal, TypeOK
  <2> QED
    BY <1>0, <1>10, <2>1, <2>2
    DEF Marshal, TypeOK, configVars, lifeVars, memVars, localVars, ackVars
<1>11. ASSUME NEW f \in Flusher, Open(f) PROVE TypeOK'
  <2>1. /\ pc' \in [Flusher -> HandlerPC \cup DumperPC]
        /\ pc'[Dumper] \in DumperPC
        /\ \A h \in Handler : pc'[h] \in HandlerPC
    BY <1>0, <1>11, Flushers DEF Open, TypeOK, HandlerPC, DumperPC, FlushPC
  <2> QED
    BY <1>0, <1>11, <2>1
    DEF Open, TypeOK, configVars, lifeVars, memVars, localVars, ackVars
<1>12. ASSUME NEW f \in Flusher, Write(f) PROVE TypeOK'
  <2>1. /\ pc' \in [Flusher -> HandlerPC \cup DumperPC]
        /\ pc'[Dumper] \in DumperPC
        /\ \A h \in Handler : pc'[h] \in HandlerPC
        /\ data' \in [Flusher -> SUBSET Update] /\ finalOK' \in BOOLEAN
    BY <1>0, <1>12, EndFlushEffect DEF Write
  <2>2. data[f] \in SUBSET Update /\ file' \in {JSON(data[f]), Corrupt}
    BY <1>0, <1>12 DEF Write, TypeOK, Over
  <2>3. /\ file' \in {Missing, Empty, Corrupt} \cup {JSON(s) : s \in SUBSET Update}
        /\ saved' \subseteq Update
    BY <1>0, <1>12, <2>2 DEF Write, TypeOK
  <2> QED
    BY <1>0, <1>12, <2>1, <2>3
    DEF Write, TypeOK, configVars, lifeVars, memVars, localVars, ackVars
<1>13. ASSUME NEW f \in Flusher, FileError(f) PROVE TypeOK'
  <2>1. /\ pc' \in [Flusher -> HandlerPC \cup DumperPC]
        /\ pc'[Dumper] \in DumperPC
        /\ \A h \in Handler : pc'[h] \in HandlerPC
        /\ data' \in [Flusher -> SUBSET Update] /\ finalOK' \in BOOLEAN
    BY <1>0, <1>13, EndFlushEffect DEF FileError
  <2>2. /\ faults' \in 0 .. MaxFaults /\ file' \in {file, Corrupt}
        /\ damage' \subseteq {"fault", "torn", "overlap", "skipped"}
    BY <1>0, <1>13, PersistenceAssumption DEF FileError, TypeOK
  <2> QED
    BY <1>0, <1>13, <2>1, <2>2
    DEF FileError, TypeOK, configVars, lifeVars, memVars, localVars, ackVars
<1>14. ASSUME NEW final \in BOOLEAN, BeginDump(final) PROVE TypeOK'
  <2>1. /\ pc' \in [Flusher -> HandlerPC \cup DumperPC]
        /\ pc'[Dumper] \in DumperPC
        /\ \A h \in Handler : pc'[h] \in HandlerPC
    BY <1>0, <1>14, Flushers DEF BeginDump, TypeOK, HandlerPC, DumperPC, FlushPC
  <2> QED
    BY <1>0, <1>14, <2>1
    DEF BeginDump, TypeOK, configVars, lifeVars, memVars, localVars, ackVars
<1>15. CASE UNCHANGED vars
  BY <1>0, <1>15 DEF vars, TypeOK
<1>16. ASSUME Exit \/ Crash PROVE TypeOK'
  BY <1>6, <1>16 DEF Exit, Crash
<1>17. ASSUME Tick \/ Done PROVE TypeOK'
  BY <1>14, <1>17 DEF Tick, Done
<1> QED
  BY <1>2, <1>3, <1>4, <1>5, <1>7, <1>8, <1>9, <1>10, <1>11, <1>12, <1>13, <1>15,
     <1>16, <1>17, Flushers DEF Next, HandlerStep, DumperStep, FlushStep

LEMMA NextDownInv ==
  ASSUME IInv, [Next]_vars
  PROVE  DownInv'
<1>0. TypeOK /\ DownInv
  BY DEF IInv
<1>1. ASSUME Exit \/ Crash PROVE DownInv'
  BY <1>0, <1>1, DieEffect DEF Exit, Crash, DownInv
<1>2. ASSUME Start \/ StartUnread \/ Stop \/ CloseListener PROVE DownInv'
  BY <1>2 DEF Start, StartUnread, StartWith, Stop, CloseListener, DownInv
\* When the process is down no goroutine takes a step.
<1>3. ASSUME phase = "down"
      PROVE  /\ \A f \in Flusher : ~Marshal(f) /\ ~Open(f) /\ ~Write(f) /\ ~FileError(f)
             /\ \A h \in Handler : ~Request(h) /\ ~Apply(h) /\ ~Reply(h)
             /\ ~Tick /\ ~Done
  <2>1. \A f \in Flusher : pc[f] \in {"returned", "idle"}
    BY <1>0, <1>3 DEF DownInv
  <2>2. ~serving /\ \A h \in Handler : pc[h] = "idle"
    BY <1>0, <1>3, Flushers DEF DownInv
  <2> QED
    BY <1>3, <2>1, <2>2
    DEF Marshal, Open, Write, FileError, Flushing, Request, Apply, Reply, Tick, Done
<1>4. ASSUME phase' = phase, phase # "down" PROVE DownInv'
  BY <1>4 DEF DownInv
<1>5. ASSUME NEW f \in Flusher, Marshal(f) \/ Open(f) \/ Write(f) \/ FileError(f)
      PROVE  DownInv'
  BY <1>3, <1>4, <1>5 DEF Marshal, Open, Write, FileError, lifeVars
<1>6. ASSUME NEW h \in Handler, Request(h) \/ Apply(h) \/ Reply(h) PROVE DownInv'
  BY <1>3, <1>4, <1>6 DEF Request, Apply, Reply, lifeVars
<1>7. ASSUME Tick \/ Done PROVE DownInv'
  BY <1>3, <1>4, <1>7 DEF Tick, Done, BeginDump, lifeVars
<1>8. CASE UNCHANGED vars
  BY <1>0, <1>8 DEF vars, DownInv
<1> QED
  BY <1>1, <1>2, <1>5, <1>6, <1>7, <1>8, Flushers
  DEF Next, HandlerStep, DumperStep, FlushStep

LEMMA NextHandlerInv ==
  ASSUME IInv, [Next]_vars
  PROVE  HandlerInv'
<1>0. TypeOK /\ DownInv /\ HandlerInv
  BY DEF IInv
\* A step that leaves handler h alone keeps what it knows, unless the process
\* goes down.
<1>1. ASSUME NEW h \in Handler, pc'[h] = pc[h], mine'[h] = mine[h],
             route'[h] = route[h], data'[h] = data[h], mem \subseteq mem'
      PROVE  HandlerOK(h)'
  BY <1>0, <1>1, Monotone DEF HandlerInv, HandlerOK, Flushes, Flushing
<1>2. ASSUME NEW h \in Handler, pc'[h] = "idle" PROVE HandlerOK(h)'
  BY <1>2 DEF HandlerOK, Flushing, FlushPC
<1>3. ASSUME Exit \/ Crash PROVE HandlerInv'
  BY <1>0, <1>2, <1>3, DieEffect DEF Exit, Crash, HandlerInv
<1>4. ASSUME Start \/ StartUnread PROVE HandlerInv'
  <2>1. \A h \in Handler : pc[h] = "idle" /\ pc'[h] = pc[h]
    BY <1>0, <1>4, Flushers DEF Start, StartUnread, StartWith, DownInv, TypeOK
  <2> QED
    BY <1>2, <2>1 DEF HandlerInv
<1>5. ASSUME Stop \/ CloseListener PROVE HandlerInv'
  BY <1>1, <1>5 DEF Stop, CloseListener, memVars, localVars, HandlerInv
<1>6. ASSUME Tick \/ Done PROVE HandlerInv'
  <2>1. \A h \in Handler : pc'[h] = pc[h]
    BY <1>0, <1>6, Flushers DEF Tick, Done, BeginDump, TypeOK
  <2> QED
    BY <1>1, <1>6, <2>1 DEF Tick, Done, BeginDump, memVars, localVars, HandlerInv
<1>7. ASSUME NEW h \in Handler, Request(h) PROVE HandlerInv'
  <2> SUFFICES ASSUME NEW g \in Handler PROVE HandlerOK(g)'
    BY DEF HandlerInv
  <2>1. CASE g # h
    BY <1>0, <1>1, <1>7, <2>1, Flushers DEF Request, memVars, flushVars, TypeOK
  <2>2. CASE g = h
    <3>1. pc'[h] = "update" /\ mine'[h] = requests + 1
      BY <1>0, <1>7, Flushers DEF Request, TypeOK
    <3>2. requests + 1 \in Update
      BY <1>0, <1>7, PersistenceAssumption DEF Request, TypeOK, Update
    <3> QED
      BY <2>2, <3>1, <3>2 DEF HandlerOK, Flushing, FlushPC
  <2> QED
    BY <2>1, <2>2
<1>8. ASSUME NEW h \in Handler, Apply(h) PROVE HandlerInv'
  <2> SUFFICES ASSUME NEW g \in Handler PROVE HandlerOK(g)'
    BY DEF HandlerInv
  <2>1. mem \subseteq mem' /\ mine[h] \in mem' /\ mine[h] \in Update
    BY <1>0, <1>8 DEF Apply, HandlerInv, HandlerOK
  <2>2. CASE g # h
    BY <1>0, <1>1, <1>8, <2>1, <2>2, Flushers DEF Apply, localVars, flushVars, TypeOK
  <2>3. CASE g = h
    <3>1. /\ pc'[h] = IF Flushes(h) THEN "marshal" ELSE "reply"
          /\ mine' = mine /\ route' = route
      BY <1>0, <1>8, Flushers DEF Apply, TypeOK, localVars
    <3>2. Flushes(h)' = Flushes(h)
      BY <3>1, Monotone DEF Flushes
    <3> QED
      BY <2>1, <2>3, <3>1, <3>2 DEF HandlerOK, Flushing, FlushPC
  <2> QED
    BY <2>2, <2>3
<1>9. ASSUME NEW h \in Handler, Reply(h) PROVE HandlerInv'
  <2> SUFFICES ASSUME NEW g \in Handler PROVE HandlerOK(g)'
    BY DEF HandlerInv
  <2>1. CASE g # h
    BY <1>0, <1>1, <1>9, <2>1, Flushers DEF Reply, memVars, flushVars, TypeOK
  <2>2. CASE g = h
    BY <1>0, <1>2, <1>9, <2>2, Flushers DEF Reply, TypeOK
  <2> QED
    BY <2>1, <2>2
<1>10. ASSUME NEW f \in Flusher, EndFlush(f, TRUE) \/ EndFlush(f, FALSE),
              pc[f] \in FlushPC, UNCHANGED <<memVars, localVars>>
       PROVE  HandlerInv'
  <2> SUFFICES ASSUME NEW g \in Handler PROVE HandlerOK(g)'
    BY DEF HandlerInv
  <2>1. CASE g # f
    BY <1>0, <1>1, <1>10, <2>1, Flushers, EndFlushEffect DEF memVars, localVars
  <2>2. CASE g = f
    <3>1. pc'[g] = "reply"
      BY <1>0, <1>10, <2>2, Flushers, EndFlushEffect
    <3> QED
      BY <1>0, <1>10, <2>2, <3>1
      DEF HandlerInv, HandlerOK, memVars, localVars, Flushing, FlushPC
  <2> QED
    BY <2>1, <2>2
<1>11. ASSUME NEW f \in Flusher, Marshal(f) PROVE HandlerInv'
  <2>1. CASE nan
    BY <1>10, <1>11, <2>1 DEF Marshal, FlushPC
  <2>2. CASE ~nan
    <3> SUFFICES ASSUME NEW g \in Handler PROVE HandlerOK(g)'
      BY DEF HandlerInv
    <3>1. /\ pc' = [pc EXCEPT ![f] = "open"] /\ data' = [data EXCEPT ![f] = mem]
          /\ pc[f] = "marshal" /\ UNCHANGED <<memVars, localVars>>
      BY <1>11, <2>2 DEF Marshal
    <3>2. CASE g # f
      BY <1>0, <1>1, <3>1, <3>2, Flushers DEF memVars, localVars, TypeOK
    <3>3. CASE g = f
      <4>1. HandlerOK(g) /\ pc'[g] = "open" /\ data'[g] = mem
        BY <1>0, <3>1, <3>3, Flushers DEF HandlerInv, TypeOK
      <4>2. Flushes(g)' = Flushes(g)
        BY <3>1, Monotone DEF Flushes, localVars
      <4> QED
        BY <3>1, <3>3, <4>1, <4>2 DEF HandlerOK, memVars, localVars, Flushing, FlushPC
    <3> QED
      BY <3>2, <3>3
  <2> QED
    BY <2>1, <2>2
<1>12. ASSUME NEW f \in Flusher, Open(f) PROVE HandlerInv'
  <2> SUFFICES ASSUME NEW g \in Handler PROVE HandlerOK(g)'
    BY DEF HandlerInv
  <2>1. CASE g # f
    BY <1>0, <1>1, <1>12, <2>1, Flushers DEF Open, memVars, localVars, TypeOK
  <2>2. CASE g = f
    <3>1. /\ HandlerOK(g) /\ pc[g] = "open" /\ pc'[g] = "write"
          /\ UNCHANGED <<mem, mine, route, data>>
      BY <1>0, <1>12, <2>2, Flushers DEF HandlerInv, TypeOK, Open, memVars, localVars
    <3>2. Flushes(g)' = Flushes(g)
      BY <3>1, Monotone DEF Flushes
    <3> QED
      BY <3>1, <3>2 DEF HandlerOK, Flushing, FlushPC
  <2> QED
    BY <2>1, <2>2
<1>13. ASSUME NEW f \in Flusher, Write(f) \/ FileError(f) PROVE HandlerInv'
  <2>1. /\ EndFlush(f, TRUE) \/ EndFlush(f, FALSE)
        /\ pc[f] \in FlushPC
        /\ UNCHANGED <<memVars, localVars>>
    BY <1>13 DEF Write, FileError, Flushing, FlushPC
  <2> QED
    BY <1>10, <2>1
<1>14. CASE UNCHANGED vars
  BY <1>1, <1>14 DEF vars, HandlerInv
<1> QED
  BY <1>3, <1>4, <1>5, <1>6, <1>7, <1>8, <1>9, <1>11, <1>12, <1>13, <1>14, Flushers
  DEF Next, HandlerStep, DumperStep, FlushStep

LEMMA NextFlushInv ==
  ASSUME IInv, [Next]_vars
  PROVE  FlushInv'
<1>0. TypeOK /\ DownInv /\ HandlerInv /\ FlushInv
  BY DEF IInv
<1>1. ASSUME Exit \/ Crash PROVE FlushInv'
  <2>1. /\ \A f \in Flusher : ~Flushing(f)'
        /\ damage' \subseteq damage \cup {"torn"}
        /\ storeInterval' = storeInterval
    BY <1>0, <1>1, DieEffect, Monotone DEF Exit, Crash
  <2> QED
    BY <1>0, <2>1 DEF FlushInv, Flushing, Writing
<1>2. ASSUME Start \/ StartUnread PROVE FlushInv'
  <2>1. \A f \in Flusher : ~Flushing(f)'
    BY <1>0, <1>2, Flushers
    DEF Start, StartUnread, StartWith, DownInv, DumperStart, Flushing
  <2>2. damage' \subseteq damage \cup {"fault"} /\ storeInterval' = storeInterval
    BY <1>2, Monotone DEF Start, StartUnread
  <2> QED
    BY <1>0, <2>1, <2>2 DEF FlushInv, Flushing, Writing
\* Nobody opens or closes the file, and the store only grows.
<1>3. ASSUME \A f \in Flusher : pc'[f] = pc[f] \/ (~Flushing(f)' /\ ~Writing(f)'),
             UNCHANGED <<file, data, damage, storeInterval>>, mem \subseteq mem'
      PROVE  FlushInv'
  <2>1. \A f \in Flusher : /\ Flushing(f)' => Flushing(f)
                           /\ Writing(f)' => Writing(f)
    BY <1>3 DEF Flushing, Writing
  <2> QED
    BY <1>0, <1>3, <2>1 DEF FlushInv
<1>4. ASSUME Stop \/ CloseListener PROVE FlushInv'
  BY <1>3, <1>4, Monotone DEF Stop, CloseListener, memVars
<1>5. ASSUME Tick \/ Done PROVE FlushInv'
  <2>1. /\ pc' = [pc EXCEPT ![Dumper] = "marshal"]
        /\ UNCHANGED <<file, data, damage, mem>>
    BY <1>5 DEF Tick, Done, BeginDump, memVars
  <2> QED
    BY <1>0, <1>3, <2>1, Monotone DEF TypeOK, Flushing, Writing
<1>6. ASSUME NEW h \in Handler, Request(h) \/ Apply(h) \/ Reply(h) PROVE FlushInv'
  <2>1. /\ \E to \in {"idle", "update", "reply", "marshal"} : pc' = [pc EXCEPT ![h] = to]
        /\ UNCHANGED <<file, data, damage>> /\ mem \subseteq mem'
    BY <1>6 DEF Request, Apply, Reply, memVars, flushVars
  <2> QED
    BY <1>0, <1>3, <2>1, Monotone, Flushers DEF TypeOK, Flushing, Writing
\* The file is left by a flusher that has had it open.
<1>7. ASSUME NEW f \in Flusher, EndFlush(f, TRUE) \/ EndFlush(f, FALSE),
             "overlap" \notin damage => \/ UNCHANGED file
                                        \/ Flushing(f),
             damage' \subseteq damage \cup {"fault", "skipped"}, mem' = mem
      PROVE  FlushInv'
  <2>1. /\ pc'[f] \in {"reply", "returned", "wait"}
        /\ \A g \in Flusher : g # f => pc'[g] = pc[g] /\ data'[g] = data[g]
    BY <1>0, <1>7, EndFlushEffect
  <2>2. \A g \in Flusher : /\ Flushing(g)' => g # f /\ Flushing(g) /\ data'[g] = data[g]
                           /\ Writing(g)' => g # f /\ Writing(g) /\ Flushing(g)
    BY <2>1 DEF Flushing, Writing
  <2>3. "overlap" \notin damage' <=> "overlap" \notin damage
    BY <1>7, Monotone
  <2>4. ASSUME "overlap" \notin damage, NEW g \in Flusher, Writing(g)'
        PROVE  file' = Empty
    BY <1>0, <1>7, <2>2, <2>4 DEF FlushInv
  <2> QED
    BY <1>0, <1>7, <2>2, <2>3, <2>4, Monotone DEF FlushInv
<1>8. ASSUME NEW f \in Flusher, Marshal(f) PROVE FlushInv'
  <2>1. CASE nan
    BY <1>7, <1>8, <2>1 DEF Marshal, memVars
  <2>2. CASE ~nan
    <3>1. /\ pc' = [pc EXCEPT ![f] = "open"] /\ data' = [data EXCEPT ![f] = mem]
          /\ pc[f] = "marshal" /\ UNCHANGED <<mem, file>>
          /\ damage' = IF \E g \in Flusher : Flushing(g)
                         THEN damage \cup {"overlap"} ELSE damage
      BY <1>8, <2>2 DEF Marshal, memVars
    <3>2. /\ pc'[f] = "open" /\ data'[f] = mem
          /\ \A g \in Flusher : g # f => pc'[g] = pc[g] /\ data'[g] = data[g]
      BY <1>0, <3>1 DEF TypeOK
    <3>3. \A g \in Flusher : /\ Flushing(g)' => g = f \/ Flushing(g)
                             /\ Writing(g)' => Writing(g) /\ Flushing(g)
      BY <3>2 DEF Flushing, Writing
    <3>4. \A g \in Flusher : Flushing(g)' => data'[g] \subseteq mem'
      BY <1>0, <3>1, <3>2, <3>3 DEF FlushInv
    <3>5. "overlap" \notin damage' =>
             /\ \A g, h \in Flusher : Flushing(g)' /\ Flushing(h)' => g = h
             /\ \A g \in Flusher : Writing(g)' => file' = Empty
      BY <3>1, <3>3
    \* With a dumper only the dumper is here.
    <3>6. storeInterval > 0 => "overlap" \notin damage'
      <4> SUFFICES ASSUME storeInterval > 0 PROVE "overlap" \notin damage'
        OBVIOUS
      <4>1. storeInterval \in Int
        BY <1>0, PersistenceAssumption DEF TypeOK
      <4>2. \A h \in Handler : pc[h] \notin FlushPC
        BY <1>0, <4>1 DEF HandlerInv, HandlerOK, Flushes
      <4>3. f = Dumper
        BY <3>1, <4>2, Flushers DEF FlushPC
      <4>4. \A g \in Flusher : ~Flushing(g)
        BY <3>1, <4>2, <4>3, Flushers DEF Flushing, FlushPC
      <4> QED
        BY <1>0, <3>1, <4>4 DEF FlushInv
    <3> QED
      BY <3>4, <3>5, <3>6, Monotone DEF FlushInv
  <2> QED
    BY <2>1, <2>2
<1>9. ASSUME NEW f \in Flusher, Open(f) PROVE FlushInv'
  <2>1. /\ pc' = [pc EXCEPT ![f] = "write"] /\ pc[f] = "open" /\ file' = Empty
        /\ UNCHANGED <<mem, data, damage>>
    BY <1>9 DEF Open, memVars
  <2>2. \A g \in Flusher : Flushing(g)' <=> Flushing(g)
    BY <1>0, <2>1 DEF TypeOK, Flushing
  <2> QED
    BY <1>0, <2>1, <2>2, Monotone DEF FlushInv
<1>10. ASSUME NEW f \in Flusher, Write(f) \/ FileError(f) PROVE FlushInv'
  <2>1. /\ EndFlush(f, TRUE) \/ EndFlush(f, FALSE)
        /\ Flushing(f) /\ mem' = mem
        /\ damage' \subseteq damage \cup {"fault", "skipped"}
    BY <1>10 DEF Write, FileError, Flushing, memVars
  <2> QED
    BY <1>7, <2>1
<1>11. CASE UNCHANGED vars
  BY <1>3, <1>11 DEF vars
<1> QED
  BY <1>1, <1>2, <1>4, <1>5, <1>6, <1>8, <1>9, <1>10, <1>11, Flushers
  DEF Next, HandlerStep, DumperStep, FlushStep

\* A complete write without overlap leaves the writer's snapshot.
LEMMA WriteEffect ==
  ASSUME TypeOK, FlushInv, NEW f \in Flusher, Write(f)
  PROVE  /\ EndFlush(f, TRUE) /\ pc[f] = "write" /\ Flushing(f)
         /\ "overlap" \notin damage =>
              /\ file' = JSON(data[f]) /\ saved' = saved \cup data[f]
              /\ \A g \in Flusher : ~Flushing(g)'
         /\ saved \subseteq saved' /\ damage' = damage
<1>1. EndFlush(f, TRUE) /\ pc[f] = "write" /\ Flushing(f) /\ Writing(f)
  BY DEF Write, Flushing, Writing
<1>2. saved \subseteq saved' /\ damage' = damage
  BY DEF Write
<1>3. ASSUME "overlap" \notin damage
      PROVE  /\ file' = JSON(data[f]) /\ saved' = saved \cup data[f]
             /\ \A g \in Flusher : ~Flushing(g)'
  <2>1. file = Empty /\ \A g \in Flusher : Flushing(g) => g = f
    BY <1>1, <1>3 DEF FlushInv
  <2>2. file' = JSON(data[f])
    BY <2>1 DEF Write, Over
  <2>3. saved' = saved \cup data[f]
    BY <2>2 DEF Write, JSON
  <2>4. \A g \in Flusher : ~Flushing(g)'
    BY <1>1, <2>1, EndFlushEffect DEF Flushing
  <2> QED
    BY <2>2, <2>3, <2>4
<1> QED
  BY <1>1, <1>2, <1>3

\* A flusher is at work only while the process is up.
LEMMA FlushersAreUp ==
  ASSUME DownInv, NEW f \in Flusher, pc[f] \in FlushPC
  PROVE  phase # "down"
  BY DEF DownInv, FlushPC

LEMMA NextSnapshotInv ==
  ASSUME IInv, [Next]_vars
  PROVE  SnapshotInv'
<1>0. TypeOK /\ DownInv /\ FlushInv /\ SnapshotInv /\ SavedStaysSaved
  BY DEF IInv
<1> SUFFICES ASSUME restore, damage' \subseteq {"skipped"}
             PROVE  \A f \in Flusher : Flushing(f)' => saved' \subseteq data'[f]
  BY Monotone DEF SnapshotInv
<1>a. damage \subseteq {"skipped"}
  BY Monotone
<1>b. \A f \in Flusher : Flushing(f) => saved \subseteq data[f]
  BY <1>0, <1>a DEF SnapshotInv
<1>1. ASSUME saved' = saved,
             \A f \in Flusher : Flushing(f)' => Flushing(f) /\ data'[f] = data[f]
      PROVE  \A f \in Flusher : Flushing(f)' => saved' \subseteq data'[f]
  BY <1>b, <1>1
<1>2. ASSUME Exit \/ Crash
      PROVE  \A f \in Flusher : Flushing(f)' => saved' \subseteq data'[f]
  BY <1>0, <1>2, DieEffect DEF Exit, Crash
<1>3. ASSUME Start \/ StartUnread
      PROVE  \A f \in Flusher : Flushing(f)' => saved' \subseteq data'[f]
  BY <1>0, <1>3 DEF Start, StartUnread, StartWith, DownInv, DumperStart, Flushing
<1>4. ASSUME Stop \/ CloseListener
      PROVE  \A f \in Flusher : Flushing(f)' => saved' \subseteq data'[f]
  BY <1>1, <1>4 DEF Stop, CloseListener, Flushing
<1>5. ASSUME Tick \/ Done
      PROVE  \A f \in Flusher : Flushing(f)' => saved' \subseteq data'[f]
  BY <1>0, <1>1, <1>5 DEF Tick, Done, BeginDump, Flushing, TypeOK
<1>6. ASSUME NEW h \in Handler, Request(h) \/ Apply(h) \/ Reply(h)
      PROVE  \A f \in Flusher : Flushing(f)' => saved' \subseteq data'[f]
  BY <1>0, <1>1, <1>6 DEF Request, Apply, Reply, flushVars, Flushing, TypeOK
<1>7. ASSUME NEW f \in Flusher, Marshal(f)
      PROVE  \A g \in Flusher : Flushing(g)' => saved' \subseteq data'[g]
  <2>1. CASE nan
    <3>1. EndFlush(f, FALSE) /\ saved' = saved
      BY <1>7, <2>1 DEF Marshal
    <3> QED
      BY <1>0, <1>1, <3>1, EndFlushEffect DEF Flushing
  <2>2. CASE ~nan
    <3>1. /\ pc' = [pc EXCEPT ![f] = "open"] /\ data' = [data EXCEPT ![f] = mem]
          /\ saved' = saved
      BY <1>7, <2>2 DEF Marshal
    <3>2. phase # "down"
      BY <1>0, <1>7, FlushersAreUp DEF Marshal, FlushPC
    <3>3. saved \subseteq mem
      BY <1>0, <1>a, <3>2 DEF SavedStaysSaved
    <3> QED
      BY <1>0, <1>b, <3>1, <3>3 DEF Flushing, TypeOK
  <2> QED
    BY <2>1, <2>2
<1>8. ASSUME NEW f \in Flusher, Open(f)
      PROVE  \A g \in Flusher : Flushing(g)' => saved' \subseteq data'[g]
  BY <1>0, <1>1, <1>8 DEF Open, Flushing, TypeOK
<1>9. ASSUME NEW f \in Flusher, Write(f)
      PROVE  \A g \in Flusher : Flushing(g)' => saved' \subseteq data'[g]
  BY <1>0, <1>a, <1>9, WriteEffect
<1>10. ASSUME NEW f \in Flusher, FileError(f)
       PROVE  \A g \in Flusher : Flushing(g)' => saved' \subseteq data'[g]
  BY <1>10 DEF FileError
<1>11. ASSUME UNCHANGED vars
       PROVE  \A f \in Flusher : Flushing(f)' => saved' \subseteq data'[f]
  BY <1>1, <1>11 DEF vars, Flushing
<1> QED
  BY <1>2, <1>3, <1>4, <1>5, <1>6, <1>7, <1>8, <1>9, <1>10, <1>11, Flushers
  DEF Next, HandlerStep, DumperStep, FlushStep

LEMMA NextSavedStaysSaved ==
  ASSUME IInv, [Next]_vars
  PROVE  SavedStaysSaved'
<1>0. /\ TypeOK /\ DownInv /\ FlushInv /\ SnapshotInv /\ SavedStaysSaved
  BY DEF IInv
<1> SUFFICES ASSUME restore, damage' \subseteq {"skipped"}
             PROVE  /\ phase' # "down" => saved' \subseteq mem'
                    /\ \/ file' = Missing /\ saved' = {}
                       \/ file'.kind = "json" /\ saved' \subseteq file'.holds
                       \/ \E f \in Flusher : Writing(f)'
  BY Monotone DEF SavedStaysSaved, Missing
<1> DEFINE Goal == /\ phase' # "down" => saved' \subseteq mem'
                   /\ \/ file' = Missing /\ saved' = {}
                      \/ file'.kind = "json" /\ saved' \subseteq file'.holds
                      \/ \E f \in Flusher : Writing(f)'
<1>a. damage \subseteq {"skipped"}
  BY Monotone
<1>b. /\ phase # "down" => saved \subseteq mem
      /\ \/ file = Missing /\ saved = {}
         \/ file.kind = "json" /\ saved \subseteq file.holds
         \/ \E f \in Flusher : Writing(f)
  BY <1>0, <1>a DEF SavedStaysSaved
<1>1. ASSUME UNCHANGED <<file, saved>>, phase' # "down" => phase # "down",
             mem \subseteq mem', \A f \in Flusher : Writing(f) => Writing(f)'
      PROVE  Goal
  BY <1>b, <1>1
<1>2. ASSUME Exit \/ Crash PROVE Goal
  <2>1. Die
    BY <1>2 DEF Exit, Crash
  <2>2. phase' = "down" /\ "torn" \notin damage' /\ saved' = saved
    BY <1>0, <2>1, DieEffect
  <2>3. file' = file /\ \A f \in Flusher : ~Writing(f)
    BY <1>0, <2>1, <2>2, DieEffect
  <2> QED
    BY <1>b, <2>2, <2>3
<1>3. ASSUME Start PROVE Goal
  <2>1. \A f \in Flusher : ~Writing(f)
    BY <1>0, <1>3 DEF Start, StartWith, DownInv, Writing
  <2>2. mem' = file.holds /\ UNCHANGED <<file, saved>>
    BY <1>3 DEF Start, StartWith, Restored
  <2> QED
    BY <1>b, <2>1, <2>2 DEF Missing
<1>4. ASSUME StartUnread PROVE Goal
  BY <1>4 DEF StartUnread
<1>5. ASSUME Stop \/ CloseListener PROVE Goal
  BY <1>1, <1>5 DEF Stop, CloseListener, memVars, Writing
<1>6. ASSUME Tick \/ Done PROVE Goal
  BY <1>0, <1>1, <1>6 DEF Tick, Done, BeginDump, lifeVars, memVars, Writing, TypeOK
<1>7. ASSUME NEW h \in Handler, Request(h) \/ Apply(h) \/ Reply(h) PROVE Goal
  <2>1. /\ \E to : pc' = [pc EXCEPT ![h] = to]
        /\ pc[h] # "write"
        /\ UNCHANGED <<file, saved, phase>> /\ mem \subseteq mem'
    BY <1>7 DEF Request, Apply, Reply, lifeVars, memVars, flushVars
  <2>2. \A f \in Flusher : Writing(f) => Writing(f)'
    BY <1>0, <2>1 DEF Writing, TypeOK
  <2> QED
    BY <1>1, <2>1, <2>2
<1>8. ASSUME NEW f \in Flusher, Marshal(f) PROVE Goal
  <2>1. UNCHANGED <<file, saved, phase, mem>>
    BY <1>8 DEF Marshal, lifeVars, memVars
  <2>2. \A g \in Flusher : g # f => pc'[g] = pc[g]
    BY <1>0, <1>8, EndFlushEffect DEF Marshal, TypeOK
  <2>3. \A g \in Flusher : Writing(g) => Writing(g)'
    BY <1>8, <2>2 DEF Marshal, Writing
  <2> QED
    BY <1>1, <2>1, <2>3
<1>9. ASSUME NEW f \in Flusher, Open(f) PROVE Goal
  <2>1. Writing(f)' /\ UNCHANGED <<saved, phase, mem>>
    BY <1>0, <1>9 DEF Open, lifeVars, memVars, Writing, TypeOK
  <2> QED
    BY <1>b, <2>1
<1>10. ASSUME NEW f \in Flusher, Write(f) PROVE Goal
  <2>1. file' = JSON(data[f]) /\ saved' = saved \cup data[f] /\ Flushing(f)
    BY <1>0, <1>a, <1>10, WriteEffect
  <2>2. saved \subseteq data[f] /\ data[f] \subseteq mem
    BY <1>0, <1>a, <2>1 DEF SnapshotInv, FlushInv
  <2>3. UNCHANGED <<phase, mem>>
    BY <1>10 DEF Write, lifeVars, memVars
  <2> QED
    BY <1>b, <2>1, <2>2, <2>3 DEF JSON
<1>11. ASSUME NEW f \in Flusher, FileError(f) PROVE Goal
  BY <1>11 DEF FileError
<1>12. CASE UNCHANGED vars
  BY <1>1, <1>12 DEF vars, Writing
<1> QED
  BY <1>2, <1>3, <1>4, <1>5, <1>6, <1>7, <1>8, <1>9, <1>10, <1>11, <1>12, Flushers
  DEF Next, HandlerStep, DumperStep, FlushStep

\* Replies and acknowledgements on the flushing route, together.
LEMMA NextSync ==
  ASSUME IInv, [Next]_vars
  PROVE  ReplyInv' /\ SyncAckIsSaved'
<1>0. TypeOK /\ DownInv /\ HandlerInv /\ FlushInv /\ ReplyInv /\ SyncAckIsSaved
  BY DEF IInv
<1> DEFINE Replies == \A h \in Handler :
                        pc'[h] = "reply" /\ route'[h] = "json" => mine'[h] \in saved'
           Goal == Replies /\ ackedJSON' \subseteq saved'
<1> SUFFICES ASSUME storeInterval = 0, damage' \subseteq {"torn"} PROVE Goal
  BY Monotone DEF ReplyInv, SyncAckIsSaved
<1>a. damage \subseteq {"torn"}
  BY Monotone
<1>b. /\ \A h \in Handler : pc[h] = "reply" /\ route[h] = "json" => mine[h] \in saved
      /\ ackedJSON \subseteq saved
  BY <1>0, <1>a DEF ReplyInv, SyncAckIsSaved
<1>1. ASSUME saved \subseteq saved', ackedJSON' = ackedJSON,
             \A h \in Handler : pc'[h] = "reply" =>
               pc[h] = "reply" /\ mine'[h] = mine[h] /\ route'[h] = route[h]
      PROVE  Goal
  BY <1>b, <1>1
<1>2. ASSUME Exit \/ Crash PROVE Goal
  BY <1>0, <1>1, <1>2, DieEffect DEF Exit, Crash, ackVars
<1>3. ASSUME Start \/ StartUnread PROVE Goal
  BY <1>0, <1>1, <1>3, Flushers DEF Start, StartUnread, StartWith, ackVars, localVars, TypeOK
<1>4. ASSUME Stop \/ CloseListener PROVE Goal
  BY <1>1, <1>4 DEF Stop, CloseListener, ackVars, localVars
<1>5. ASSUME Tick \/ Done PROVE Goal
  BY <1>0, <1>1, <1>5, Flushers DEF Tick, Done, BeginDump, ackVars, localVars, TypeOK
<1>6. ASSUME NEW h \in Handler, Request(h) PROVE Goal
  <2>1. \A g \in Handler : pc'[g] = "reply" =>
          pc[g] = "reply" /\ mine'[g] = mine[g] /\ route'[g] = route[g]
    BY <1>0, <1>6, Flushers DEF Request, TypeOK
  <2> QED
    BY <1>1, <1>6, <2>1 DEF Request, ackVars, flushVars
<1>7. ASSUME NEW h \in Handler, Apply(h) PROVE Goal
  <2>1. /\ pc' = [pc EXCEPT ![h] = IF Flushes(h) THEN "marshal" ELSE "reply"]
        /\ UNCHANGED <<route, mine, saved, ackedJSON>>
    BY <1>7 DEF Apply, localVars, ackVars, flushVars
  <2>2. pc'[h] = "reply" => route[h] # "json"
    BY <1>0, <2>1, Flushers DEF Flushes, TypeOK
  <2>3. \A g \in Handler : g # h => pc'[g] = pc[g]
    BY <1>0, <2>1, Flushers DEF TypeOK
  <2> QED
    BY <1>b, <2>1, <2>2, <2>3
<1>8. ASSUME NEW h \in Handler, Reply(h) PROVE Goal
  <2>1. ackedJSON' \subseteq saved' /\ saved' = saved
    BY <1>b, <1>8 DEF Reply, flushVars
  <2>2. \A g \in Handler : pc'[g] = "reply" =>
          pc[g] = "reply" /\ mine'[g] = mine[g] /\ route'[g] = route[g]
    BY <1>0, <1>8, Flushers DEF Reply, TypeOK
  <2> QED
    BY <1>b, <2>1, <2>2
<1>9. ASSUME NEW f \in Flusher, Marshal(f) PROVE Goal
  <2>1. ~nan
    <3>1. nan => "skipped" \in damage'
      BY <1>9 DEF Marshal
    <3> QED
      BY <3>1
  <2>2. /\ pc' = [pc EXCEPT ![f] = "open"]
        /\ UNCHANGED <<route, mine, saved, ackedJSON>>
    BY <1>9, <2>1 DEF Marshal, localVars, ackVars
  <2> QED
    BY <1>0, <1>1, <2>2, Flushers DEF TypeOK
<1>10. ASSUME NEW f \in Flusher, Open(f) PROVE Goal
  BY <1>0, <1>1, <1>10, Flushers DEF Open, localVars, ackVars, TypeOK
<1>11. ASSUME NEW f \in Flusher, Write(f) PROVE Goal
  <2>1. /\ EndFlush(f, TRUE) /\ Flushing(f) /\ saved' = saved \cup data[f]
    BY <1>0, <1>a, <1>11, WriteEffect
  <2>2. UNCHANGED <<route, mine, ackedJSON>>
    BY <1>11 DEF Write, localVars, ackVars
  <2>3. \A h \in Handler : h # f => pc'[h] = pc[h]
    BY <1>0, <2>1, EndFlushEffect, Flushers
  <2>4. f \in Handler => mine[f] \in data[f]
    BY <1>0, <2>1 DEF HandlerInv, HandlerOK
  <2> QED
    BY <1>b, <2>1, <2>2, <2>3, <2>4
<1>12. ASSUME NEW f \in Flusher, FileError(f) PROVE Goal
  BY <1>12 DEF FileError
<1>13. CASE UNCHANGED vars
  BY <1>1, <1>13 DEF vars
<1> QED
  BY <1>2, <1>3, <1>4, <1>5, <1>6, <1>7, <1>8, <1>9, <1>10, <1>11, <1>12, <1>13, Flushers
  DEF Next, HandlerStep, DumperStep, FlushStep

LEMMA NextFinalInv ==
  ASSUME IInv, [Next]_vars
  PROVE  FinalInv'
<1>0. TypeOK /\ DownInv /\ HandlerInv /\ FlushInv /\ FinalInv
  BY DEF IInv
<1> SUFFICES ASSUME storeInterval > 0, phase' # "down" PROVE FinalOK'
  BY Monotone DEF FinalInv
\* The dumper alone flushes, and never overlaps with itself.
<1>a. /\ \A h \in Handler : pc[h] \notin FlushPC
      /\ "overlap" \notin damage
  <2>1. storeInterval \in Int
    BY <1>0, PersistenceAssumption DEF TypeOK
  <2> QED
    BY <1>0, <2>1 DEF HandlerInv, HandlerOK, Flushes, FlushInv
<1>b. \A f \in Flusher : pc[f] \in FlushPC => f = Dumper
  BY <1>a, Flushers
<1>c. phase # "down" => FinalOK
  BY <1>0 DEF FinalInv
<1>1. ASSUME Start \/ StartUnread PROVE FinalOK'
  <2>1. /\ phase' = "up" /\ last' = FALSE /\ pc' = [pc EXCEPT ![Dumper] = DumperStart]
        /\ storeInterval \in Int
    BY <1>0, <1>1, PersistenceAssumption DEF Start, StartUnread, StartWith, TypeOK
  <2>2. pc'[Dumper] = "wait"
    BY <1>0, <2>1, Flushers DEF DumperStart, TypeOK
  <2> QED
    BY <2>1, <2>2 DEF FinalOK
<1>2. ASSUME Stop PROVE FinalOK'
  <2>1. /\ phase = "up" /\ phase' = "stopping" /\ promised' \subseteq mem'
        /\ UNCHANGED <<pc, last>>
    BY <1>2 DEF Stop, memVars
  <2>2. ~last /\ pc[Dumper] # "returned"
    BY <1>c, <2>1 DEF FinalOK
  <2> QED
    BY <2>1, <2>2 DEF FinalOK
<1>3. ASSUME phase' = phase, UNCHANGED <<promised, last, file, finalOK>>, mem \subseteq mem',
             pc'[Dumper] = pc[Dumper], data'[Dumper] = data[Dumper]
      PROVE  FinalOK'
  BY <1>c, <1>3 DEF FinalOK, Flushing
<1>4. ASSUME CloseListener PROVE FinalOK'
  BY <1>3, <1>4 DEF CloseListener, memVars
<1>5. ASSUME NEW h \in Handler, Request(h) \/ Apply(h) \/ Reply(h) PROVE FinalOK'
  BY <1>0, <1>3, <1>5, Flushers
  DEF Request, Apply, Reply, lifeVars, memVars, flushVars, TypeOK
<1>6. ASSUME NEW final \in BOOLEAN, BeginDump(final), phase # "down",
             final => phase = "stopping"
      PROVE  FinalOK'
  <2>1. pc'[Dumper] = "marshal" /\ last' = final
    BY <1>0, <1>6, Flushers DEF BeginDump, TypeOK
  <2>2. UNCHANGED <<phase, promised, mem>>
    BY <1>6 DEF BeginDump, lifeVars, memVars
  <2> QED
    BY <1>c, <1>6, <2>1, <2>2 DEF FinalOK, Flushing
<1>7. ASSUME Tick \/ Done PROVE FinalOK'
  BY <1>6, <1>7 DEF Tick, Done
<1>8. ASSUME NEW f \in Flusher, Marshal(f) PROVE FinalOK'
  <2>1. f = Dumper /\ UNCHANGED <<phase, promised, mem, last, file>>
    BY <1>b, <1>8 DEF Marshal, FlushPC, lifeVars, memVars
  <2>2. CASE nan
    <3>1. /\ finalOK' = FALSE
          /\ pc'[Dumper] = IF last THEN "returned" ELSE "wait"
      BY <1>0, <1>8, <2>1, <2>2, EndFlushEffect DEF Marshal
    <3> QED
      BY <1>c, <2>1, <3>1 DEF FinalOK, Flushing
  <2>3. CASE ~nan
    <3>1. pc'[Dumper] = "open" /\ data'[Dumper] = mem
      BY <1>0, <1>8, <2>1, <2>3, Flushers DEF Marshal, TypeOK
    <3> QED
      BY <1>c, <2>1, <3>1 DEF FinalOK
  <2> QED
    BY <2>2, <2>3
<1>9. ASSUME NEW f \in Flusher, Open(f) PROVE FinalOK'
  <2>1. /\ f = Dumper /\ UNCHANGED <<phase, promised, mem, last, data>>
        /\ pc[Dumper] = "open"
    BY <1>b, <1>9 DEF Open, FlushPC, lifeVars, memVars
  <2>2. pc'[Dumper] = "write"
    BY <1>0, <1>9, <2>1, Flushers DEF Open, TypeOK
  <2> QED
    BY <1>c, <2>1, <2>2 DEF FinalOK, Flushing
<1>10. ASSUME NEW f \in Flusher, Write(f) PROVE FinalOK'
  <2>1. f = Dumper /\ UNCHANGED <<phase, promised, mem, last>>
    BY <1>b, <1>10 DEF Write, FlushPC, lifeVars, memVars
  <2>2. EndFlush(f, TRUE) /\ Flushing(f) /\ file' = JSON(data[f])
    BY <1>0, <1>a, <1>10, WriteEffect
  <2>3. pc'[Dumper] = IF last THEN "returned" ELSE "wait"
    BY <1>0, <2>1, <2>2, EndFlushEffect
  <2> QED
    BY <1>c, <2>1, <2>2, <2>3 DEF FinalOK, Flushing, JSON
<1>11. ASSUME NEW f \in Flusher, FileError(f) PROVE FinalOK'
  <2>1. f = Dumper /\ UNCHANGED <<phase, promised, mem, last>>
    BY <1>b, <1>11 DEF FileError, FlushPC, Flushing, lifeVars, memVars
  <2>2. finalOK' = FALSE /\ pc'[Dumper] = IF last THEN "returned" ELSE "wait"
    BY <1>0, <1>11, <2>1, EndFlushEffect DEF FileError
  <2> QED
    BY <1>c, <2>1, <2>2 DEF FinalOK, Flushing
<1>12. ASSUME Exit \/ Crash PROVE FALSE
  BY <1>12 DEF Exit, Crash, Die
<1>13. CASE UNCHANGED vars
  BY <1>3, <1>13 DEF vars
<1> QED
  BY <1>1, <1>2, <1>4, <1>5, <1>7, <1>8, <1>9, <1>10, <1>11, <1>12, <1>13, Flushers
  DEF Next, HandlerStep, DumperStep, FlushStep

\* Main returns only after the dumper has, and then nobody has the file open.
LEMMA NextGracefulStopSaves ==
  ASSUME IInv, [Next]_vars
  PROVE  GracefulStopSaves'
<1>0. TypeOK /\ DownInv /\ HandlerInv /\ FinalInv /\ GracefulStopSaves
  BY DEF IInv
<1> SUFFICES ASSUME exited', storeInterval > 0, finalOK', phase' = "down"
             PROVE  file'.kind = "json" /\ promised' \subseteq file'.holds
  BY Monotone DEF GracefulStopSaves
<1>1. ASSUME Exit
      PROVE  file'.kind = "json" /\ promised' \subseteq file'.holds
  <2>1. /\ phase = "stopping" /\ pc[Dumper] = "returned" /\ Die
        /\ storeInterval \in Int
    BY <1>0, <1>1, PersistenceAssumption DEF Exit, GroupReturned, TypeOK
  <2>2. \A f \in Flusher : ~Writing(f)
    BY <1>0, <2>1, Flushers DEF HandlerInv, HandlerOK, Flushes, Writing, FlushPC
  <2>3. UNCHANGED <<file, promised, finalOK>>
    BY <1>0, <2>1, <2>2, DieEffect
  <2> QED
    BY <1>0, <2>1, <2>3 DEF FinalInv, FinalOK
<1>2. ASSUME UNCHANGED <<phase, exited, finalOK, file, promised>>
      PROVE  file'.kind = "json" /\ promised' \subseteq file'.holds
  BY <1>0, <1>2 DEF GracefulStopSaves
<1>3. ASSUME Crash PROVE FALSE
  BY <1>3 DEF Crash
<1>4. ASSUME Start \/ StartUnread \/ Stop \/ CloseListener PROVE FALSE
  BY <1>4 DEF Start, StartUnread, StartWith, Stop, CloseListener
<1>5. ASSUME NEW f \in Flusher, Marshal(f) \/ Open(f) \/ Write(f) \/ FileError(f)
      PROVE  FALSE
  <2>1. phase = "down" /\ pc[f] \in FlushPC
    BY <1>5 DEF Marshal, Open, Write, FileError, Flushing, FlushPC, lifeVars
  <2> QED
    BY <1>0, <2>1, FlushersAreUp
<1>6. ASSUME NEW h \in Handler, Request(h) \/ Apply(h) \/ Reply(h)
      PROVE  file'.kind = "json" /\ promised' \subseteq file'.holds
  BY <1>2, <1>6 DEF Request, Apply, Reply, lifeVars, flushVars
<1>7. ASSUME Tick \/ Done
      PROVE  file'.kind = "json" /\ promised' \subseteq file'.holds
  BY <1>2, <1>7 DEF Tick, Done, BeginDump, lifeVars
<1>8. ASSUME UNCHANGED vars
      PROVE  file'.kind = "json" /\ promised' \subseteq file'.holds
  BY <1>2, <1>8 DEF vars
<1> QED
  BY <1>1, <1>3, <1>4, <1>5, <1>6, <1>7, <1>8, Flushers
  DEF Next, HandlerStep, DumperStep, FlushStep

-----------------------------------------------------------------------------
(* The theorems.                                                           *)

\* The invariant is inductive.
LEMMA NextIInv == IInv /\ [Next]_vars => IInv'
<1> SUFFICES ASSUME IInv, [Next]_vars PROVE IInv'
  OBVIOUS
<1> QED
  BY NextTypeOK, NextDownInv, NextHandlerInv, NextFlushInv, NextSnapshotInv,
     NextSavedStaysSaved, NextSync, NextFinalInv, NextGracefulStopSaves DEF IInv

\* Every reachable state satisfies the inductive invariant, through any
\* number of starts, stops, crashes and file errors.
THEOREM Invariance == Spec => []IInv
  BY InitIInv, NextIInv, PTL DEF Spec

\* The server, its flushers and the file keep their types.
THEOREM TypeCorrect == Spec => []TypeOK
<1>1. IInv => TypeOK
  BY DEF IInv
<1> QED
  BY <1>1, Invariance, PTL

\* What a complete write has put in the file survives every stop, crash and
\* restart with restore, but for the three things that can damage the file.
THEOREM FileKeepsWhatItHas == Spec => []SavedStaysSaved
<1>1. IInv => SavedStaysSaved
  BY DEF IInv
<1> QED
  BY <1>1, Invariance, PTL

\* With a dumper, main returns after what was promised is in the file, unless
\* the dumper's last flush failed.
THEOREM ShutdownSaves == Spec => []GracefulStopSaves
<1>1. IInv => GracefulStopSaves
  BY DEF IInv
<1> QED
  BY <1>1, Invariance, PTL

\* With STORE_INTERVAL 0 the answer to a JSON update comes after its write,
\* whatever the other handlers do.
THEOREM SyncAcknowledgement == Spec => []SyncAckIsSaved
<1>1. IInv => SyncAckIsSaved
  BY DEF IInv
<1> QED
  BY <1>1, Invariance, PTL
=============================================================================
