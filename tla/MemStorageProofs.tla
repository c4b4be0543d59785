--------------------------- MODULE MemStorageProofs ---------------------------
(***************************************************************************)
(* Machine-checked proofs about MemStorage, for any number of goroutines,  *)
(* names, values and retries, and any contents restored at startup.        *)
(***************************************************************************)
EXTENDS MemStorage, TLAPS

\* int64 addition stays in range: operator AddWord, Go's += on the counter map.
LEMMA AddWordType ==
  ASSUME NEW x \in Word, NEW y \in Word
  PROVE  AddWord(x, y) \in Word
BY HalfAssumption DEF Word, AddWord

\* What "counters[name]" reads is an int64 word, also for a missing key.
LEMMA ValueOfType ==
  ASSUME NEW m \in CounterMap, NEW n \in CounterName
  PROVE  ValueOf(m[n]) \in Word
BY HalfAssumption DEF ValueOf, CounterMap, Word

\* The fields of the calls of each kind.
LEMMA CallFields ==
  ASSUME NEW c \in Call
  PROVE  /\ c \in UpdateGaugeCall => /\ c.name \in GaugeName
                                     /\ c.value \in GaugeValue
         /\ c \in UpdateCounterCall => /\ c.name \in CounterName
                                       /\ c.value \in Word
         /\ c \in UpdateCall => RowOf(c) \in Row
         /\ c \in GetGaugeCall => c.name \in GaugeName
         /\ c \in GetCounterCall => c.name \in CounterName
BY DeltaAssumption
   DEF Call, UpdateCall, ReadCall, UpdateGaugeCall, UpdateCounterCall,
       GetGaugeCall, GetCounterCall, MarshalCall, RowOf, Row

\* The five kinds of call exclude each other.
LEMMA CallKinds ==
  ASSUME NEW c \in Call
  PROVE  /\ c \in UpdateCall <=> c \in UpdateGaugeCall \/ c \in UpdateCounterCall
         /\ c \in ReadCall <=> c \in GetGaugeCall \/ c \in GetCounterCall
                               \/ c \in MarshalCall
         /\ ~(c \in UpdateGaugeCall /\ c \in UpdateCounterCall)
BY DEF Call, UpdateCall, ReadCall, UpdateGaugeCall, UpdateCounterCall,
       GetGaugeCall, GetCounterCall, MarshalCall
-----------------------------------------------------------------------------
\* The initial states satisfy the invariant.
LEMMA InitIInv == Init => IInv
<1> SUFFICES ASSUME Init PROVE IInv
  OBVIOUS
<1> USE DEF Init, MuInit
<1>1. TypeOK
  BY RestoredAssumption, HalfAssumption
  DEF TypeOK, MuTypeOK, Snapshot, PC, Word
<1>2. MutexInv
  BY NoneAssumption DEF MutexInv, WriterPC, ReaderPC, Looking, Changing
<1>3. CallInv
  BY DEF CallInv, WriterPC, ReaderPC
<1>4. StillCurrent
  BY DEF StillCurrent
<1> QED
  BY <1>1, <1>2, <1>3, <1>4 DEF IInv

\* Every step preserves the invariant.
LEMMA NextIInv == IInv /\ [Next]_vars => IInv'
<1> SUFFICES ASSUME IInv, [Next]_vars PROVE IInv'
  OBVIOUS
<1> USE DEF IInv, localVars, storeVars, histVars, fixedVars, muVars
<1>1. ASSUME NEW p \in Proc, CallUpdate(p) PROVE IInv'
  <2> USE <1>1 DEF CallUpdate, Goto
  <2>1. TypeOK'
    <3>1. UpdateCall \subseteq Call
      BY DEF Call
    <3> QED
      BY <3>1 DEF TypeOK, MuTypeOK, PC, WriterPC, ReaderPC
  <2>2. MutexInv'
    BY NoneAssumption
    DEF TypeOK, MuTypeOK, MutexInv, WriterPC, ReaderPC, Changing, Looking
  <2>3. CallInv'
    BY CallKinds DEF TypeOK, CallInv, WriterPC, ReaderPC
  <2>4. StillCurrent'
    BY CallKinds
    DEF TypeOK, MutexInv, CallInv, StillCurrent, WriterPC, Changing, Looking
  <2> QED
    BY <2>1, <2>2, <2>3, <2>4
<1>2. ASSUME NEW p \in Proc, Lock(p) PROVE IInv'
  <2> USE <1>2 DEF Lock, Goto, Announce
  <2>1. TypeOK'
    BY DEF TypeOK, MuTypeOK, PC, WriterPC, ReaderPC
  <2>2. MutexInv'
    BY NoneAssumption
    DEF TypeOK, MuTypeOK, MutexInv, WriterPC, ReaderPC, Changing, Looking
  <2>3. CallInv'
    BY CallKinds DEF TypeOK, CallInv, WriterPC, ReaderPC
  <2>4. StillCurrent'
    BY CallKinds
    DEF TypeOK, MutexInv, CallInv, StillCurrent, WriterPC, Changing, Looking
  <2> QED
    BY <2>1, <2>2, <2>3, <2>4
<1>3. ASSUME NEW p \in Proc, StoreGauge(p) PROVE IInv'
  <2> USE <1>3 DEF StoreGauge, Goto, WriteHeld
  <2>1. TypeOK'
    <3>1. call[p].name \in GaugeName /\ call[p].value \in GaugeValue
      BY DEF UpdateGaugeCall
    <3>2. gauges' \in GaugeMap
      BY <3>1 DEF TypeOK, GaugeMap
    <3> QED
      BY <3>2 DEF TypeOK, MuTypeOK, PC, WriterPC, ReaderPC
  <2>2. MutexInv'
    BY NoneAssumption
    DEF TypeOK, MuTypeOK, MutexInv, WriterPC, ReaderPC, Changing, Looking
  <2>3. CallInv'
    BY CallKinds DEF TypeOK, CallInv, WriterPC, ReaderPC
  <2>4. StillCurrent'
    BY CallKinds
    DEF TypeOK, MutexInv, CallInv, StillCurrent, WriterPC, Changing, Looking
  <2> QED
    BY <2>1, <2>2, <2>3, <2>4
<1>4. ASSUME NEW p \in Proc, LoadCounter(p) PROVE IInv'
  <2> USE <1>4 DEF LoadCounter, Goto, WriteHeld
  <2>1. TypeOK'
    <3>1. call[p].name \in CounterName
      BY DEF UpdateCounterCall
    <3>2. ValueOf(counters[call[p].name]) \in Word
      BY <3>1, ValueOfType DEF TypeOK
    <3> QED
      BY <3>2 DEF TypeOK, MuTypeOK, PC, WriterPC, ReaderPC
  <2>2. MutexInv'
    BY NoneAssumption
    DEF TypeOK, MuTypeOK, MutexInv, WriterPC, ReaderPC, Changing, Looking
  <2>3. CallInv'
    BY CallKinds DEF TypeOK, CallInv, WriterPC, ReaderPC
  <2>4. StillCurrent'
    BY CallKinds
    DEF TypeOK, MutexInv, CallInv, StillCurrent, WriterPC, Changing, Looking
  <2> QED
    BY <2>1, <2>2, <2>3, <2>4
<1>5. ASSUME NEW p \in Proc, StoreCounter(p) PROVE IInv'
  <2> USE <1>5 DEF StoreCounter, Goto
  <2>1. TypeOK'
    <3>1. call[p] \in UpdateCounterCall
      BY DEF CallInv
    <3>2. call[p].name \in CounterName /\ call[p].value \in Word
      BY <3>1, DeltaAssumption DEF UpdateCounterCall
    <3>3. AddWord(loaded[p], call[p].value) \in Word
      BY <3>2, AddWordType DEF TypeOK
    <3>4. counters' \in CounterMap
      BY <3>2, <3>3 DEF TypeOK, CounterMap
    <3>5. 0 \in Word
      BY HalfAssumption DEF Word
    <3> QED
      BY <3>4, <3>5 DEF TypeOK, MuTypeOK, PC, WriterPC, ReaderPC
  <2>2. MutexInv'
    BY NoneAssumption
    DEF TypeOK, MuTypeOK, MutexInv, WriterPC, ReaderPC, Changing, Looking
  <2>3. CallInv'
    BY CallKinds DEF TypeOK, CallInv, WriterPC, ReaderPC
  <2>4. StillCurrent'
    BY CallKinds
    DEF TypeOK, MutexInv, CallInv, StillCurrent, WriterPC, Changing, Looking
  <2> QED
    BY <2>1, <2>2, <2>3, <2>4
<1>6. ASSUME NEW p \in Proc, SkipSave(p) PROVE IInv'
  <2> USE <1>6 DEF SkipSave, Goto
  <2>1. TypeOK'
    BY DEF TypeOK, MuTypeOK, PC, WriterPC, ReaderPC
  <2>2. MutexInv'
    BY NoneAssumption
    DEF TypeOK, MuTypeOK, MutexInv, WriterPC, ReaderPC, Changing, Looking
  <2>3. CallInv'
    BY CallKinds DEF TypeOK, CallInv, WriterPC, ReaderPC
  <2>4. StillCurrent'
    BY CallKinds
    DEF TypeOK, MutexInv, CallInv, StillCurrent, WriterPC, Changing, Looking
  <2> QED
    BY <2>1, <2>2, <2>3, <2>4
<1>7. ASSUME NEW p \in Proc, Inserted(p) PROVE IInv'
  <2> USE <1>7 DEF Inserted, Goto
  <2>1. TypeOK'
    <3>1. RowOf(call[p]) \in Row
      BY CallFields DEF CallInv, TypeOK, WriterPC, UpdateCall, Call
    <3>2. table' \in Seq(Row)
      BY <3>1 DEF TypeOK
    <3> QED
      BY <3>2 DEF TypeOK, MuTypeOK, PC, WriterPC, ReaderPC
  <2>2. MutexInv'
    BY NoneAssumption
    DEF TypeOK, MuTypeOK, MutexInv, WriterPC, ReaderPC, Changing, Looking
  <2>3. CallInv'
    BY CallKinds DEF TypeOK, CallInv, WriterPC, ReaderPC
  <2>4. StillCurrent'
    BY CallKinds
    DEF TypeOK, MutexInv, CallInv, StillCurrent, WriterPC, Changing, Looking
  <2> QED
    BY <2>1, <2>2, <2>3, <2>4
<1>8. ASSUME NEW p \in Proc, RetryableError(p) PROVE IInv'
  <2> USE <1>8 DEF RetryableError, Goto
  <2>1. TypeOK'
    BY DEF TypeOK, MuTypeOK, PC, WriterPC, ReaderPC
  <2>2. MutexInv'
    BY NoneAssumption
    DEF TypeOK, MuTypeOK, MutexInv, WriterPC, ReaderPC, Changing, Looking
  <2>3. CallInv'
    BY CallKinds DEF TypeOK, CallInv, WriterPC, ReaderPC
  <2>4. StillCurrent'
    BY CallKinds
    DEF TypeOK, MutexInv, CallInv, StillCurrent, WriterPC, Changing, Looking
  <2> QED
    BY <2>1, <2>2, <2>3, <2>4
<1>9. ASSUME NEW p \in Proc, Sleep(p) PROVE IInv'
  <2> USE <1>9 DEF Sleep, Goto
  <2>1. TypeOK'
    BY DEF TypeOK, MuTypeOK, PC, WriterPC, ReaderPC
  <2>2. MutexInv'
    BY NoneAssumption
    DEF TypeOK, MuTypeOK, MutexInv, WriterPC, ReaderPC, Changing, Looking
  <2>3. CallInv'
    BY CallKinds DEF TypeOK, CallInv, WriterPC, ReaderPC
  <2>4. StillCurrent'
    BY CallKinds
    DEF TypeOK, MutexInv, CallInv, StillCurrent, WriterPC, Changing, Looking
  <2> QED
    BY <2>1, <2>2, <2>3, <2>4
<1>10. ASSUME NEW p \in Proc, FinalError(p) PROVE IInv'
  <2> USE <1>10 DEF FinalError, Goto
  <2>1. TypeOK'
    <3>1. RowOf(call[p]) \in Row
      BY CallFields DEF CallInv, TypeOK, WriterPC, UpdateCall, Call
    <3>2. Append(table, RowOf(call[p])) \in Seq(Row)
      BY <3>1 DEF TypeOK
    <3>3. table' \in Seq(Row)
      BY <3>2 DEF TypeOK
    <3> QED
      BY <3>3 DEF TypeOK, MuTypeOK, PC, WriterPC, ReaderPC
  <2>2. MutexInv'
    BY NoneAssumption
    DEF TypeOK, MuTypeOK, MutexInv, WriterPC, ReaderPC, Changing, Looking
  <2>3. CallInv'
    BY CallKinds DEF TypeOK, CallInv, WriterPC, ReaderPC
  <2>4. StillCurrent'
    BY CallKinds
    DEF TypeOK, MutexInv, CallInv, StillCurrent, WriterPC, Changing, Looking
  <2> QED
    BY <2>1, <2>2, <2>3, <2>4
<1>11. ASSUME NEW p \in Proc, GiveUp(p) PROVE IInv'
  <2> USE <1>11 DEF GiveUp, Goto
  <2>1. TypeOK'
    BY DEF TypeOK, MuTypeOK, PC, WriterPC, ReaderPC
  <2>2. MutexInv'
    BY NoneAssumption
    DEF TypeOK, MuTypeOK, MutexInv, WriterPC, ReaderPC, Changing, Looking
  <2>3. CallInv'
    BY CallKinds DEF TypeOK, CallInv, WriterPC, ReaderPC
  <2>4. StillCurrent'
    BY CallKinds
    DEF TypeOK, MutexInv, CallInv, StillCurrent, WriterPC, Changing, Looking
  <2> QED
    BY <2>1, <2>2, <2>3, <2>4
<1>12. ASSUME NEW p \in Proc, ReturnUpdate(p) PROVE IInv'
  <2> USE <1>12 DEF ReturnUpdate, Goto, Release, Unlock
  <2>1. TypeOK'
    <3>1. call[p] \in UpdateCall
      BY DEF CallInv, WriterPC
    <3>2. call[p].name \in GaugeName \cup CounterName
      BY <3>1 DEF UpdateCall, UpdateGaugeCall, UpdateCounterCall
    <3>3. unsaved' \subseteq GaugeName \cup CounterName
      BY <3>2 DEF TypeOK
    <3>4. MuTypeOK'
      BY DEF TypeOK, MuTypeOK
    <3> QED
      BY <3>3, <3>4 DEF TypeOK, PC, WriterPC, ReaderPC
  <2>2. MutexInv'
    BY NoneAssumption
    DEF TypeOK, MuTypeOK, MutexInv, WriterPC, ReaderPC, Changing, Looking
  <2>3. CallInv'
    BY CallKinds DEF TypeOK, CallInv, WriterPC, ReaderPC
  <2>4. StillCurrent'
    BY CallKinds
    DEF TypeOK, MutexInv, CallInv, StillCurrent, WriterPC, Changing, Looking
  <2> QED
    BY <2>1, <2>2, <2>3, <2>4
<1>13. ASSUME NEW p \in Proc, CallRead(p) PROVE IInv'
  <2> USE <1>13 DEF CallRead, Goto, RLock
  <2>1. TypeOK'
    <3>1. ReadCall \subseteq Call
      BY DEF Call
    <3> QED
      BY <3>1 DEF TypeOK, MuTypeOK, PC, WriterPC, ReaderPC
  <2>2. MutexInv'
    BY NoneAssumption
    DEF TypeOK, MuTypeOK, MutexInv, WriterPC, ReaderPC, Changing, Looking
  <2>3. CallInv'
    BY CallKinds DEF TypeOK, CallInv, WriterPC, ReaderPC
  <2>4. StillCurrent'
    BY CallKinds
    DEF TypeOK, MutexInv, CallInv, StillCurrent, WriterPC, Changing, Looking
  <2> QED
    BY <2>1, <2>2, <2>3, <2>4
<1>14. ASSUME NEW p \in Proc, Get(p) PROVE IInv'
  <2> USE <1>14 DEF Get, Goto, ReadHeld
  <2>1. TypeOK'
    <3>1. answer'[p] \in Lookup
      BY DEF TypeOK, Lookup, GetGaugeCall, GetCounterCall, GaugeMap, CounterMap
    <3>2. answer' \in [Proc -> Answer \cup {None}]
      BY <3>1 DEF TypeOK, Answer
    <3> QED
      BY <3>2 DEF TypeOK, MuTypeOK, PC, WriterPC, ReaderPC
  <2>2. MutexInv'
    BY NoneAssumption
    DEF TypeOK, MuTypeOK, MutexInv, WriterPC, ReaderPC, Changing, Looking
  <2>3. CallInv'
    BY CallKinds DEF TypeOK, CallInv, WriterPC, ReaderPC
  <2>4. StillCurrent'
    BY CallKinds
    DEF TypeOK, MutexInv, CallInv, StillCurrent, WriterPC, Changing, Looking
  <2> QED
    BY <2>1, <2>2, <2>3, <2>4
<1>15. ASSUME NEW p \in Proc, EncodeGauges(p) PROVE IInv'
  <2> USE <1>15 DEF EncodeGauges, Goto, ReadHeld
  <2>1. TypeOK'
    BY DEF TypeOK, MuTypeOK, PC, WriterPC, ReaderPC
  <2>2. MutexInv'
    BY NoneAssumption
    DEF TypeOK, MuTypeOK, MutexInv, WriterPC, ReaderPC, Changing, Looking
  <2>3. CallInv'
    BY CallKinds DEF TypeOK, CallInv, WriterPC, ReaderPC
  <2>4. StillCurrent'
    BY CallKinds
    DEF TypeOK, MutexInv, CallInv, StillCurrent, WriterPC, Changing, Looking
  <2> QED
    BY <2>1, <2>2, <2>3, <2>4
<1>16. ASSUME NEW p \in Proc, EncodeCounters(p) PROVE IInv'
  <2> USE <1>16 DEF EncodeCounters, Goto
  <2>1. TypeOK'
    <3>1. encoded[p] \in GaugeMap
      BY DEF StillCurrent, TypeOK
    <3>2. [gauges |-> encoded[p], counters |-> counters] \in Answer
      BY <3>1 DEF TypeOK, Answer, Snapshot
    <3> QED
      BY <3>2 DEF TypeOK, MuTypeOK, PC, WriterPC, ReaderPC
  <2>2. MutexInv'
    BY NoneAssumption
    DEF TypeOK, MuTypeOK, MutexInv, WriterPC, ReaderPC, Changing, Looking
  <2>3. CallInv'
    BY CallKinds DEF TypeOK, CallInv, WriterPC, ReaderPC
  <2>4. StillCurrent'
    BY CallKinds
    DEF TypeOK, MutexInv, CallInv, StillCurrent, WriterPC, Changing, Looking
  <2> QED
    BY <2>1, <2>2, <2>3, <2>4
<1>17. ASSUME NEW p \in Proc, ReturnRead(p) PROVE IInv'
  <2> USE <1>17 DEF ReturnRead, Goto, RUnlock
  <2>1. TypeOK'
    BY DEF TypeOK, MuTypeOK, PC, WriterPC, ReaderPC
  <2>2. MutexInv'
    BY NoneAssumption
    DEF TypeOK, MuTypeOK, MutexInv, WriterPC, ReaderPC, Changing, Looking
  <2>3. CallInv'
    BY CallKinds DEF TypeOK, CallInv, WriterPC, ReaderPC
  <2>4. StillCurrent'
    BY CallKinds
    DEF TypeOK, MutexInv, CallInv, StillCurrent, WriterPC, Changing, Looking
  <2> QED
    BY <2>1, <2>2, <2>3, <2>4
<1>18. CASE UNCHANGED vars
  BY <1>18
  DEF vars, TypeOK, MuTypeOK, MutexInv, CallInv, StillCurrent, Looking, Changing
<1> QED
  BY <1>1, <1>2, <1>3, <1>4, <1>5, <1>6, <1>7, <1>8, <1>9,
     <1>10, <1>11, <1>12, <1>13, <1>14, <1>15, <1>16, <1>17, <1>18
  DEF Next, UpdateStep, DBAnswer, ReadStep

\* The inductive invariant holds in every reachable state: the lock of
\* MemStorage and the critical sections of its methods work as intended.
THEOREM Invariance == Spec => []IInv
<1> QED
  BY InitIInv, NextIInv, PTL DEF Spec

\* The maps, the table and every local of a call keep their types; for the
\* counters that is the int64 range, which += can leave only by wrapping.
THEOREM TypeCorrect == Spec => []TypeOK
<1>1. IInv => TypeOK
  BY DEF IInv
<1> QED
  BY <1>1, Invariance, PTL

\* Mutual exclusion on the maps: nobody reads or changes them while another
\* goroutine is between the start of its change and the end of its saveDB.
THEOREM MutualExclusion == Spec => []NoConcurrentMapAccess
<1>1. IInv => NoConcurrentMapAccess
  <2> SUFFICES ASSUME IInv, NEW p \in Proc, NEW q \in Proc,
                      p # q, Changing(p)
               PROVE  ~Changing(q) /\ ~Looking(q)
    BY DEF NoConcurrentMapAccess
  <2>1. slot = p /\ readers = {}
    BY DEF IInv, MutexInv, Changing, WriterPC
  <2>2. ~Changing(q)
    BY <2>1 DEF IInv, MutexInv, Changing, WriterPC
  <2>3. ~Looking(q)
    BY <2>1 DEF IInv, MutexInv
  <2> QED
    BY <2>2, <2>3
<1> QED
  BY <1>1, Invariance, PTL
-----------------------------------------------------------------------------
(* MemStorage implements AtomicStore.                                      *)

\* A change of p's program counter changes the phase of p alone.
LEMMA PhaseStep ==
  ASSUME pc \in [Proc -> PC], NEW p \in Proc, NEW to \in PC,
         pc' = [pc EXCEPT ![p] = to]
  PROVE  [q \in Proc |-> Phase(q)]' =
           [[q \in Proc |-> Phase(q)] EXCEPT ![p] =
              CASE to = "idle" -> "idle"
                [] to \in {"save", "sleep", "unlock", "runlock"} -> "applied"
                [] OTHER -> "pending"]
BY DEF Phase

\* The abstract store speaks of the same calls and the same arithmetic.
LEMMA SameVocabulary ==
  /\ Atomic!UpdateGaugeCall = UpdateGaugeCall
  /\ Atomic!UpdateCounterCall = UpdateCounterCall
  /\ Atomic!GetGaugeCall = GetGaugeCall
  /\ Atomic!GetCounterCall = GetCounterCall
  /\ Atomic!MarshalCall = MarshalCall
  /\ Atomic!Call = Call
  /\ \A e : Atomic!ValueOf(e) = ValueOf(e)
  /\ \A u, v : Atomic!AddWord(u, v) = AddWord(u, v)
BY DEF Atomic!UpdateGaugeCall, UpdateGaugeCall, Atomic!UpdateCounterCall,
       UpdateCounterCall, Atomic!GetGaugeCall, GetGaugeCall,
       Atomic!GetCounterCall, GetCounterCall, Atomic!MarshalCall, MarshalCall,
       Atomic!UpdateCall, UpdateCall, Atomic!ReadCall, ReadCall,
       Atomic!Call, Call, Atomic!ValueOf, ValueOf, Atomic!AddWord, AddWord

\* The restored store is an initial state of the abstract one.
LEMMA InitAtomic == Init => Atomic!Init
BY DEF Init, Atomic!Init, Phase

\* Every step is a step of the abstract store or leaves it unchanged.
LEMMA NextAtomic == IInv /\ [Next]_vars => [Atomic!Next]_Atomic!vars
<1> SUFFICES ASSUME IInv, [Next]_vars PROVE [Atomic!Next]_Atomic!vars
  OBVIOUS
<1> USE DEF IInv, localVars, storeVars, histVars, fixedVars, muVars
<1>0. pc \in [Proc -> PC]
  BY DEF TypeOK
<1> DEFINE Stutter == UNCHANGED Atomic!vars
<1>1. ASSUME NEW p \in Proc, CallUpdate(p) PROVE Atomic!Next
  <2>1. PICK c \in UpdateCall : call' = [call EXCEPT ![p] = c]
    BY <1>1 DEF CallUpdate
  <2>2. Atomic!Invoke(p, c)
    BY <1>1, <1>0, <2>1, PhaseStep
    DEF CallUpdate, Goto, Atomic!Invoke, Phase, PC, WriterPC, ReaderPC
  <2> QED
    BY <2>1, <2>2, SameVocabulary DEF Atomic!Next, Call
<1>2. ASSUME NEW p \in Proc, CallRead(p) PROVE Atomic!Next
  <2>1. PICK c \in ReadCall : call' = [call EXCEPT ![p] = c]
    BY <1>2 DEF CallRead
  <2>2. Atomic!Invoke(p, c)
    BY <1>2, <1>0, <2>1, PhaseStep
    DEF CallRead, Goto, Atomic!Invoke, Phase, PC, WriterPC, ReaderPC
  <2> QED
    BY <2>1, <2>2, SameVocabulary DEF Atomic!Next, Call
<1>3. ASSUME NEW p \in Proc, StoreGauge(p) PROVE Atomic!Next
  <2>1. Atomic!SetGauge(p)
    BY <1>3, <1>0, PhaseStep, SameVocabulary
    DEF StoreGauge, Goto, Atomic!SetGauge, Atomic!TakesEffect, Phase, PC, WriterPC,
        ReaderPC, CallInv
  <2> QED
    BY <2>1 DEF Atomic!Next
<1>4. ASSUME NEW p \in Proc, StoreCounter(p) PROVE Atomic!Next
  <2>1. Atomic!AddCounter(p)
    BY <1>4, <1>0, PhaseStep, SameVocabulary
    DEF StoreCounter, Goto, Atomic!AddCounter, Atomic!TakesEffect, Phase, PC, WriterPC,
        ReaderPC, CallInv, StillCurrent
  <2> QED
    BY <2>1 DEF Atomic!Next
<1>5. ASSUME NEW p \in Proc, Get(p) PROVE Atomic!Next
  <2>1. Atomic!Read(p)
    BY <1>5, <1>0, PhaseStep, SameVocabulary
    DEF Get, Goto, Atomic!Read, Atomic!TakesEffect, Phase, PC, WriterPC,
        ReaderPC, CallInv
  <2> QED
    BY <2>1 DEF Atomic!Next
<1>6. ASSUME NEW p \in Proc, EncodeCounters(p) PROVE Atomic!Next
  <2>1. Atomic!Read(p)
    BY <1>6, <1>0, PhaseStep, SameVocabulary
    DEF EncodeCounters, Goto, Atomic!Read, Atomic!TakesEffect, Phase, PC, WriterPC,
        ReaderPC, CallInv, StillCurrent
  <2> QED
    BY <2>1 DEF Atomic!Next
<1>7. ASSUME NEW p \in Proc, ReturnUpdate(p) PROVE Atomic!Next
  <2>1. Atomic!Return(p)
    BY <1>7, <1>0, PhaseStep, SameVocabulary
    DEF ReturnUpdate, Goto, Atomic!Return, Atomic!TakesEffect, Phase, PC, WriterPC,
        ReaderPC, CallInv, TypeOK
  <2> QED
    BY <2>1 DEF Atomic!Next
<1>8. ASSUME NEW p \in Proc, ReturnRead(p) PROVE Atomic!Next
  <2>1. Atomic!Return(p)
    BY <1>8, <1>0, PhaseStep, SameVocabulary
    DEF ReturnRead, Goto, Atomic!Return, Atomic!TakesEffect, Phase, PC, WriterPC,
        ReaderPC, CallInv
  <2> QED
    BY <2>1 DEF Atomic!Next
<1>9. ASSUME NEW p \in Proc, Lock(p) PROVE Stutter
  BY <1>9, <1>0, PhaseStep
  DEF Lock, Goto, Atomic!vars, Phase, PC, WriterPC, ReaderPC
<1>10. ASSUME NEW p \in Proc, LoadCounter(p) PROVE Stutter
  BY <1>10, <1>0, PhaseStep
  DEF LoadCounter, Goto, Atomic!vars, Phase, PC, WriterPC, ReaderPC
<1>11. ASSUME NEW p \in Proc, SkipSave(p) PROVE Stutter
  BY <1>11, <1>0, PhaseStep
  DEF SkipSave, Goto, Atomic!vars, Phase, PC, WriterPC, ReaderPC
<1>12. ASSUME NEW p \in Proc, Inserted(p) PROVE Stutter
  BY <1>12, <1>0, PhaseStep
  DEF Inserted, Goto, Atomic!vars, Phase, PC, WriterPC, ReaderPC
<1>13. ASSUME NEW p \in Proc, RetryableError(p) PROVE Stutter
  BY <1>13, <1>0, PhaseStep
  DEF RetryableError, Goto, Atomic!vars, Phase, PC, WriterPC, ReaderPC
<1>14. ASSUME NEW p \in Proc, Sleep(p) PROVE Stutter
  BY <1>14, <1>0, PhaseStep
  DEF Sleep, Goto, Atomic!vars, Phase, PC, WriterPC, ReaderPC
<1>15. ASSUME NEW p \in Proc, FinalError(p) PROVE Stutter
  BY <1>15, <1>0, PhaseStep
  DEF FinalError, Goto, Atomic!vars, Phase, PC, WriterPC, ReaderPC
<1>16. ASSUME NEW p \in Proc, GiveUp(p) PROVE Stutter
  BY <1>16, <1>0, PhaseStep
  DEF GiveUp, Goto, Atomic!vars, Phase, PC, WriterPC, ReaderPC
<1>17. ASSUME NEW p \in Proc, EncodeGauges(p) PROVE Stutter
  BY <1>17, <1>0, PhaseStep
  DEF EncodeGauges, Goto, Atomic!vars, Phase, PC, WriterPC, ReaderPC
<1>18. CASE UNCHANGED vars
  BY <1>18 DEF vars, Atomic!vars, Phase
<1> QED
  BY <1>1, <1>2, <1>3, <1>4, <1>5, <1>6, <1>7, <1>8, <1>9,
     <1>10, <1>11, <1>12, <1>13, <1>14, <1>15, <1>16, <1>17, <1>18
  DEF Next, UpdateStep, DBAnswer, ReadStep

\* The store is linearizable for any number of goroutines and any answers of
\* the database: the specification of MemStorage implements AtomicStore.
THEOREM Refinement == Spec => Linearizable
<1> QED
  BY InitAtomic, NextAtomic, Invariance, PTL
  DEF Spec, Linearizable, Atomic!Spec

-----------------------------------------------------------------------------
(* The table.  A replay is given by its intermediate results: one more row *)
(* extends it by one, so that no induction over the table is needed.       *)

\* An update of n whose row is still to come ...
Pending(p, n) == pc[p] \in {"save", "sleep"} /\ call[p].name = n

\* ... or has not come, or may not have.
Missing(p, n) ==
  Pending(p, n) \/ (pc[p] = "unlock" /\ failed[p] /\ call[p].name = n)

\* The rows and the update under way, if there is one, give the entry of n.
GaugeRows(n) ==
  \E after \in [0 .. Len(table) -> GaugeValue \cup {Absent}] :
    /\ ReplaysGauge(n, after)
    /\ \A p \in Proc : Pending(p, n) => gauges[n] = call[p].value
    /\ (\A p \in Proc : ~Missing(p, n)) => gauges[n] = after[Len(table)]

CounterRows(n) ==
  \E after \in [0 .. Len(table) -> Word \cup {Absent}] :
    /\ ReplaysCounter(n, after)
    /\ \A p \in Proc : Pending(p, n) =>
         counters[n] = AddWord(ValueOf(after[Len(table)]), call[p].value)
    /\ (\A p \in Proc : ~Missing(p, n)) => counters[n] = after[Len(table)]

\* The inductive part of TableRebuildsStore, for names used with one kind.
TableInv ==
  db => /\ \A n \in GaugeName \ (CounterName \cup unsaved) : GaugeRows(n)
        /\ \A n \in CounterName \ (GaugeName \cup unsaved) : CounterRows(n)

\* One more row replays on top of the rows before it.
LEMMA GaugeRow ==
  ASSUME TypeOK, NEW n, NEW after \in [0 .. Len(table) -> GaugeValue \cup {Absent}],
         ReplaysGauge(n, after), NEW row \in Row, row.name = n => row.value \in GaugeValue,
         table' = Append(table, row), UNCHANGED base
  PROVE  \E next \in [0 .. Len(table') -> GaugeValue \cup {Absent}] :
           /\ ReplaysGauge(n, next)'
           /\ next[Len(table')] = IF row.name = n THEN row.value ELSE after[Len(table)]
<1> DEFINE m == Len(table)
           value == IF row.name = n THEN row.value ELSE after[m]
<1>1. m \in Nat /\ m \in 0 .. m /\ table \in Seq(Row)
  BY DEF TypeOK
<1>2. Len(table') = m + 1 /\ table'[m + 1] = row /\ \A i \in 1 .. m : table'[i] = table[i]
  BY <1>1
<1>3. value \in GaugeValue \cup {Absent}
  BY <1>1
<1> DEFINE next == [i \in 0 .. m + 1 |-> IF i = m + 1 THEN value ELSE after[i]]
<1>4. /\ next \in [0 .. m + 1 -> GaugeValue \cup {Absent}]
      /\ \A i \in 0 .. m : next[i] = after[i]
      /\ next[m + 1] = value
  <2>1. \A i \in 0 .. m + 1 : i = m + 1 \/ i \in 0 .. m
    BY <1>1
  <2>2. \A i \in 0 .. m : i \in 0 .. m + 1 /\ i # m + 1
    BY <1>1
  <2>3. \A i \in 0 .. m : after[i] \in GaugeValue \cup {Absent}
    OBVIOUS
  <2>4. m + 1 \in 0 .. m + 1
    BY <1>1
  <2> HIDE DEF m, value
  <2> QED
    BY <1>3, <2>1, <2>2, <2>3, <2>4
<1> HIDE DEF next
<1>5. next[0] = base'.gauges[n]
  BY <1>1, <1>4 DEF ReplaysGauge
<1>6. \A i \in 1 .. m : i \in 0 .. m /\ i - 1 \in 0 .. m
  BY <1>1
<1>7. \A i \in 1 .. m :
        next[i] = IF table'[i].name = n THEN table'[i].value ELSE next[i - 1]
  BY <1>2, <1>4, <1>6 DEF ReplaysGauge
<1>8. next[m + 1] = IF table'[m + 1].name = n THEN table'[m + 1].value ELSE next[(m + 1) - 1]
  BY <1>1, <1>2, <1>4
<1>9. \A i \in 1 .. m + 1 : i \in 1 .. m \/ i = m + 1
  BY <1>1
<1>10. \A i \in 1 .. Len(table') :
         next[i] = IF table'[i].name = n THEN table'[i].value ELSE next[i - 1]
  BY <1>2, <1>7, <1>8, <1>9
<1> QED
  BY <1>2, <1>4, <1>5, <1>10 DEF ReplaysGauge

\* The same for the row of a counter, which adds to what was there.
LEMMA CounterRow ==
  ASSUME TypeOK, NEW n, NEW after \in [0 .. Len(table) -> Word \cup {Absent}],
         ReplaysCounter(n, after), NEW row \in Row, row.name = n => row.value \in Word,
         table' = Append(table, row), UNCHANGED base
  PROVE  \E next \in [0 .. Len(table') -> Word \cup {Absent}] :
           /\ ReplaysCounter(n, next)'
           /\ next[Len(table')] = IF row.name = n
                                    THEN AddWord(ValueOf(after[Len(table)]), row.value)
                                    ELSE after[Len(table)]
<1> DEFINE m == Len(table)
           value == IF row.name = n THEN AddWord(ValueOf(after[m]), row.value) ELSE after[m]
<1>1. m \in Nat /\ m \in 0 .. m /\ table \in Seq(Row)
  BY DEF TypeOK
<1>2. Len(table') = m + 1 /\ table'[m + 1] = row /\ \A i \in 1 .. m : table'[i] = table[i]
  BY <1>1
<1>3. value \in Word \cup {Absent}
  <2>1. after[m] \in Word \cup {Absent}
    BY <1>1
  <2>2. ValueOf(after[m]) \in Word
    BY <2>1, HalfAssumption DEF ValueOf, Word
  <2>3. row.name = n => AddWord(ValueOf(after[m]), row.value) \in Word
    BY <2>2, AddWordType
  <2> QED
    BY <2>1, <2>3
<1> DEFINE next == [i \in 0 .. m + 1 |-> IF i = m + 1 THEN value ELSE after[i]]
<1>4. /\ next \in [0 .. m + 1 -> Word \cup {Absent}]
      /\ \A i \in 0 .. m : next[i] = after[i]
      /\ next[m + 1] = value
  <2>1. \A i \in 0 .. m + 1 : i = m + 1 \/ i \in 0 .. m
    BY <1>1
  <2>2. \A i \in 0 .. m : i \in 0 .. m + 1 /\ i # m + 1
    BY <1>1
  <2>3. \A i \in 0 .. m : after[i] \in Word \cup {Absent}
    OBVIOUS
  <2>4. m + 1 \in 0 .. m + 1
    BY <1>1
  <2> HIDE DEF m, value
  <2> QED
    BY <1>3, <2>1, <2>2, <2>3, <2>4
<1> HIDE DEF next
<1>5. next[0] = base'.counters[n]
  BY <1>1, <1>4 DEF ReplaysCounter
<1>6. \A i \in 1 .. m : i \in 0 .. m /\ i - 1 \in 0 .. m
  BY <1>1
<1>7. \A i \in 1 .. m :
        next[i] = IF table'[i].name = n
                    THEN AddWord(ValueOf(next[i - 1]), table'[i].value)
                    ELSE next[i - 1]
  BY <1>2, <1>4, <1>6 DEF ReplaysCounter
<1>8. next[m + 1] = IF table'[m + 1].name = n
                      THEN AddWord(ValueOf(next[(m + 1) - 1]), table'[m + 1].value)
                      ELSE next[(m + 1) - 1]
  BY <1>1, <1>2, <1>4
<1>9. \A i \in 1 .. m + 1 : i \in 1 .. m \/ i = m + 1
  BY <1>1
<1>10. \A i \in 1 .. Len(table') :
         next[i] = IF table'[i].name = n
                     THEN AddWord(ValueOf(next[i - 1]), table'[i].value)
                     ELSE next[i - 1]
  BY <1>2, <1>7, <1>8, <1>9
<1> QED
  BY <1>2, <1>4, <1>5, <1>10 DEF ReplaysCounter

\* A writer is the only one whose row can be missing.
LEMMA Alone ==
  ASSUME IInv, NEW p \in Proc, pc[p] \in WriterPC, NEW q \in Proc, q # p, NEW n
  PROVE  ~Missing(q, n) /\ ~Pending(q, n)
BY NoneAssumption DEF IInv, MutexInv, WriterPC, Missing, Pending

\* What a step of another kind leaves alone, per name.
Quiet(n) ==
  /\ UNCHANGED <<table, base>>
  /\ \A q \in Proc : Pending(q, n)' => Pending(q, n) /\ call'[q] = call[q]
  /\ \A q \in Proc : Missing(q, n) => Missing(q, n)'

\* Every step but a write to the map or the table is quiet about a name.
LEMMA QuietStep ==
  ASSUME IInv, [Next]_vars, db, NEW n, n \notin unsaved'
  PROVE  \/ Quiet(n) /\ UNCHANGED <<gauges, counters>>
         \/ \E p \in Proc :
              \/ StoreGauge(p) \/ StoreCounter(p) \/ Inserted(p)
              \/ FinalError(p) /\ table' = Append(table, RowOf(call[p]))
<1> USE DEF IInv, localVars, storeVars, histVars, fixedVars, muVars, Goto
<1>1. /\ pc \in [Proc -> PC] /\ failed \in [Proc -> BOOLEAN]
      /\ call \in [Proc -> Call \cup {None}]
  BY DEF TypeOK
<1> USE DEF Quiet, Missing, Pending
<1>2. ASSUME NEW p \in Proc, CallUpdate(p) \/ CallRead(p)
      PROVE  Quiet(n) /\ UNCHANGED <<gauges, counters>>
  BY <1>1, <1>2 DEF CallUpdate, CallRead
<1>3. ASSUME NEW p \in Proc, Lock(p) \/ LoadCounter(p) \/ SkipSave(p)
      PROVE  Quiet(n) /\ UNCHANGED <<gauges, counters>>
  BY <1>1, <1>3 DEF Lock, LoadCounter, SkipSave
<1>4. ASSUME NEW p \in Proc, Sleep(p) \/ RetryableError(p)
      PROVE  Quiet(n) /\ UNCHANGED <<gauges, counters>>
  BY <1>1, <1>4 DEF Sleep, RetryableError
<1>5. ASSUME NEW p \in Proc, GiveUp(p) \/ (FinalError(p) /\ table' = table)
      PROVE  Quiet(n) /\ UNCHANGED <<gauges, counters>>
  BY <1>1, <1>5 DEF GiveUp, FinalError
<1>6. ASSUME NEW p \in Proc, ReturnUpdate(p)
      PROVE  Quiet(n) /\ UNCHANGED <<gauges, counters>>
  <2>1. failed[p] => call[p].name # n
    BY <1>6 DEF ReturnUpdate
  <2> QED
    BY <1>1, <1>6, <2>1 DEF ReturnUpdate
<1>7. ASSUME NEW p \in Proc, ReadStep(p)
      PROVE  Quiet(n) /\ UNCHANGED <<gauges, counters>>
  BY <1>1, <1>7 DEF ReadStep, Get, EncodeGauges, EncodeCounters, ReturnRead
<1>8. ASSUME UNCHANGED vars
      PROVE  Quiet(n) /\ UNCHANGED <<gauges, counters>>
  BY <1>8 DEF vars
<1>9. \A p \in Proc : FinalError(p) =>
        table' = table \/ table' = Append(table, RowOf(call[p]))
  BY DEF FinalError
<1> QED
  BY <1>2, <1>3, <1>4, <1>5, <1>6, <1>7, <1>8, <1>9 DEF Next, UpdateStep, DBAnswer

\* A row is the call of its writer, which then has no row to come.
LEMMA RowStep ==
  ASSUME IInv, IInv', NEW p \in Proc,
         Inserted(p) \/ (FinalError(p) /\ table' = Append(table, RowOf(call[p])))
  PROVE  /\ pc[p] = "save" /\ pc'[p] = "unlock" /\ call[p] \in UpdateCall
         /\ \A q \in Proc : q # p => pc'[q] = pc[q]
         /\ RowOf(call[p]) \in Row /\ table' = Append(table, RowOf(call[p]))
         /\ RowOf(call[p]).name = call[p].name /\ RowOf(call[p]).value = call[p].value
         /\ UNCHANGED <<gauges, counters, base, call>>
<1> USE DEF IInv, localVars, storeVars, histVars, fixedVars, Goto
<1>1. /\ pc[p] = "save" /\ pc'[p] = "unlock" /\ table' = Append(table, RowOf(call[p]))
      /\ \A q \in Proc : q # p => pc'[q] = pc[q]
      /\ UNCHANGED <<gauges, counters, base, call>>
  BY DEF Inserted, FinalError, TypeOK
<1>2. call[p] \in UpdateCall /\ call[p] \in Call
  BY <1>1 DEF CallInv, WriterPC, UpdateCall, Call
<1> QED
  BY <1>1, <1>2, CallFields DEF RowOf

\* A step keeps the rows of a gauge in line with the map ...
LEMMA GaugeRowsNext ==
  ASSUME IInv, IInv', [Next]_vars, db,
         NEW n \in GaugeName \ (CounterName \cup unsaved'), GaugeRows(n)
  PROVE  GaugeRows(n)'
<1> USE DEF localVars, storeVars, histVars, fixedVars, Goto
<1>1. PICK after \in [0 .. Len(table) -> GaugeValue \cup {Absent}] :
        /\ ReplaysGauge(n, after)
        /\ \A p \in Proc : Pending(p, n) => gauges[n] = call[p].value
        /\ (\A p \in Proc : ~Missing(p, n)) => gauges[n] = after[Len(table)]
  BY DEF GaugeRows
<1>2. ASSUME Quiet(n), gauges'[n] = gauges[n]
      PROVE  GaugeRows(n)'
  <2>1. ReplaysGauge(n, after)' /\ after \in [0 .. Len(table') -> GaugeValue \cup {Absent}]
    BY <1>1, <1>2 DEF Quiet, ReplaysGauge
  <2>2. \A p \in Proc : Pending(p, n)' => gauges'[n] = call'[p].value
    BY <1>1, <1>2 DEF Quiet
  <2>3. (\A p \in Proc : ~Missing(p, n)') => gauges'[n] = after[Len(table')]
    BY <1>1, <1>2 DEF Quiet
  <2> QED
    BY <2>1, <2>2, <2>3 DEF GaugeRows
<1>3. ASSUME NEW p \in Proc, StoreCounter(p) PROVE GaugeRows(n)'
  <2>1. call[p].name # n
    BY <1>3 DEF StoreCounter, IInv, CallInv, UpdateCounterCall
  <2>2. Quiet(n)
    BY <1>3, <2>1 DEF StoreCounter, Quiet, Pending, Missing, IInv, TypeOK
  <2> QED
    BY <1>2, <1>3, <2>2 DEF StoreCounter
<1>4. ASSUME NEW p \in Proc, StoreGauge(p) PROVE GaugeRows(n)'
  <2>1. /\ pc[p] = "load" /\ pc' = [pc EXCEPT ![p] = "save"]
        /\ UNCHANGED <<table, base, call, failed>>
        /\ gauges' = [gauges EXCEPT ![call[p].name] = call[p].value]
    BY <1>4 DEF StoreGauge
  <2>2. gauges \in GaugeMap /\ pc \in [Proc -> PC]
    BY DEF IInv, TypeOK
  <2>3. CASE call[p].name # n
    <3>1. Quiet(n)
      BY <2>1, <2>2, <2>3 DEF Quiet, Pending, Missing
    <3> QED
      BY <1>2, <2>1, <2>2, <2>3, <3>1 DEF GaugeMap
  <2>4. CASE call[p].name = n
    <3>1. gauges'[n] = call'[p].value
      BY <2>1, <2>2, <2>4 DEF GaugeMap
    <3>2. pc'[p] = "save" /\ Missing(p, n)'
      BY <2>1, <2>2, <2>4 DEF Missing, Pending
    <3>3. \A q \in Proc : q # p => ~Pending(q, n)
      BY <2>1, Alone DEF WriterPC
    <3>4. \A q \in Proc : q # p => ~Pending(q, n)'
      BY <2>1, <2>2, <3>3 DEF Pending
    <3>5. ReplaysGauge(n, after)' /\ after \in [0 .. Len(table') -> GaugeValue \cup {Absent}]
      BY <1>1, <2>1 DEF ReplaysGauge
    <3> QED
      BY <3>1, <3>2, <3>4, <3>5 DEF GaugeRows
  <2> QED
    BY <2>3, <2>4
<1>5. ASSUME NEW p \in Proc,
             Inserted(p) \/ (FinalError(p) /\ table' = Append(table, RowOf(call[p])))
      PROVE  GaugeRows(n)'
  <2> DEFINE row == RowOf(call[p])
  <2>1. /\ pc[p] = "save" /\ pc'[p] = "unlock" /\ call[p] \in UpdateCall
        /\ \A q \in Proc : q # p => pc'[q] = pc[q]
        /\ row \in Row /\ table' = Append(table, row)
        /\ row.name = call[p].name /\ row.value = call[p].value
        /\ UNCHANGED <<gauges, counters, base, call>>
    BY <1>5, RowStep
  <2>2. row.name = n => row.value \in GaugeValue
    BY <2>1 DEF UpdateCall, UpdateGaugeCall, UpdateCounterCall
  <2> HIDE DEF row
  <2>3. PICK next \in [0 .. Len(table') -> GaugeValue \cup {Absent}] :
          /\ ReplaysGauge(n, next)'
          /\ next[Len(table')] = IF row.name = n THEN row.value ELSE after[Len(table)]
    BY <1>1, <2>1, <2>2, GaugeRow DEF IInv
  <2>4. \A q \in Proc : ~Pending(q, n)'
    <3>1. \A q \in Proc : q # p => ~Pending(q, n)'
      BY <2>1, Alone DEF WriterPC, Pending
    <3> QED
      BY <2>1, <3>1 DEF Pending
  <2>5. gauges'[n] = next[Len(table')]
    <3>1. CASE row.name = n
      BY <1>1, <2>1, <2>3, <3>1 DEF Pending
    <3>2. CASE row.name # n
      <4>1. \A q \in Proc : ~Missing(q, n)
        BY <2>1, <3>2, Alone DEF WriterPC, Missing, Pending
      <4> QED
        BY <1>1, <2>1, <2>3, <3>2, <4>1
    <3> QED
      BY <3>1, <3>2
  <2> QED
    BY <2>3, <2>4, <2>5 DEF GaugeRows
<1> QED
  BY <1>2, <1>3, <1>4, <1>5, QuietStep

\* ... and those of a counter: what was loaded is what the rows give.
LEMMA CounterRowsNext ==
  ASSUME IInv, IInv', [Next]_vars, db,
         NEW n \in CounterName \ (GaugeName \cup unsaved'), CounterRows(n)
  PROVE  CounterRows(n)'
<1> USE DEF localVars, storeVars, histVars, fixedVars, Goto
<1>1. PICK after \in [0 .. Len(table) -> Word \cup {Absent}] :
        /\ ReplaysCounter(n, after)
        /\ \A p \in Proc : Pending(p, n) =>
             counters[n] = AddWord(ValueOf(after[Len(table)]), call[p].value)
        /\ (\A p \in Proc : ~Missing(p, n)) => counters[n] = after[Len(table)]
  BY DEF CounterRows
<1>2. ASSUME Quiet(n), counters'[n] = counters[n]
      PROVE  CounterRows(n)'
  <2>1. ReplaysCounter(n, after)' /\ after \in [0 .. Len(table') -> Word \cup {Absent}]
    BY <1>1, <1>2 DEF Quiet, ReplaysCounter
  <2>2. \A p \in Proc : Pending(p, n)' =>
          counters'[n] = AddWord(ValueOf(after[Len(table')]), call'[p].value)
    BY <1>1, <1>2 DEF Quiet
  <2>3. (\A p \in Proc : ~Missing(p, n)') => counters'[n] = after[Len(table')]
    BY <1>1, <1>2 DEF Quiet
  <2> QED
    BY <2>1, <2>2, <2>3 DEF CounterRows
<1>3. ASSUME NEW p \in Proc, StoreGauge(p) PROVE CounterRows(n)'
  <2>1. call[p].name # n
    BY <1>3 DEF StoreGauge, UpdateGaugeCall
  <2>2. Quiet(n)
    BY <1>3, <2>1 DEF StoreGauge, Quiet, Pending, Missing, IInv, TypeOK
  <2> QED
    BY <1>2, <1>3, <2>2 DEF StoreGauge
<1>4. ASSUME NEW p \in Proc, StoreCounter(p) PROVE CounterRows(n)'
  <2>1. /\ pc[p] = "add" /\ pc' = [pc EXCEPT ![p] = "save"]
        /\ UNCHANGED <<table, base, call, failed>>
        /\ counters' = [counters EXCEPT ![call[p].name] = AddWord(loaded[p], call[p].value)]
    BY <1>4 DEF StoreCounter
  <2>2. counters \in CounterMap /\ pc \in [Proc -> PC]
    BY DEF IInv, TypeOK
  <2>3. CASE call[p].name # n
    <3>1. Quiet(n)
      BY <2>1, <2>2, <2>3 DEF Quiet, Pending, Missing
    <3> QED
      BY <1>2, <2>1, <2>2, <2>3, <3>1 DEF CounterMap
  <2>4. CASE call[p].name = n
    <3>1. \A q \in Proc : ~Missing(q, n)
      BY <2>1, Alone DEF WriterPC, Missing, Pending
    <3>2. loaded[p] = ValueOf(counters[n])
      BY <2>1, <2>4 DEF IInv, StillCurrent
    <3>3. counters'[n] = AddWord(ValueOf(after[Len(table')]), call'[p].value)
      BY <1>1, <2>1, <2>2, <2>4, <3>1, <3>2 DEF CounterMap
    <3>4. pc'[p] = "save" /\ Missing(p, n)'
      BY <2>1, <2>2, <2>4 DEF Missing, Pending
    <3>5. \A q \in Proc : q # p => ~Pending(q, n)'
      BY <2>1, <2>2, <3>1 DEF Pending, Missing
    <3>6. ReplaysCounter(n, after)' /\ after \in [0 .. Len(table') -> Word \cup {Absent}]
      BY <1>1, <2>1 DEF ReplaysCounter
    <3> QED
      BY <3>3, <3>4, <3>5, <3>6 DEF CounterRows
  <2> QED
    BY <2>3, <2>4
<1>5. ASSUME NEW p \in Proc,
             Inserted(p) \/ (FinalError(p) /\ table' = Append(table, RowOf(call[p])))
      PROVE  CounterRows(n)'
  <2> DEFINE row == RowOf(call[p])
  <2>1. /\ pc[p] = "save" /\ pc'[p] = "unlock" /\ call[p] \in UpdateCall
        /\ \A q \in Proc : q # p => pc'[q] = pc[q]
        /\ row \in Row /\ table' = Append(table, row)
        /\ row.name = call[p].name /\ row.value = call[p].value
        /\ UNCHANGED <<gauges, counters, base, call>>
    BY <1>5, RowStep
  <2>2. row.name = n => row.value \in Word
    BY <2>1, DeltaAssumption DEF UpdateCall, UpdateGaugeCall, UpdateCounterCall
  <2> HIDE DEF row
  <2>3. PICK next \in [0 .. Len(table') -> Word \cup {Absent}] :
          /\ ReplaysCounter(n, next)'
          /\ next[Len(table')] = IF row.name = n
                                   THEN AddWord(ValueOf(after[Len(table)]), row.value)
                                   ELSE after[Len(table)]
    BY <1>1, <2>1, <2>2, CounterRow DEF IInv
  <2>4. \A q \in Proc : ~Pending(q, n)'
    <3>1. \A q \in Proc : q # p => ~Pending(q, n)'
      BY <2>1, Alone DEF WriterPC, Pending
    <3> QED
      BY <2>1, <3>1 DEF Pending
  <2>5. counters'[n] = next[Len(table')]
    <3>1. CASE row.name = n
      BY <1>1, <2>1, <2>3, <3>1 DEF Pending
    <3>2. CASE row.name # n
      <4>1. \A q \in Proc : ~Missing(q, n)
        BY <2>1, <3>2, Alone DEF WriterPC, Missing, Pending
      <4> QED
        BY <1>1, <2>1, <2>3, <3>2, <4>1
    <3> QED
      BY <3>1, <3>2
  <2> QED
    BY <2>3, <2>4, <2>5 DEF CounterRows
<1> QED
  BY <1>2, <1>3, <1>4, <1>5, QuietStep

\* A step keeps all rows in line.
LEMMA TableNext ==
  ASSUME IInv, IInv', TableInv, [Next]_vars
  PROVE  TableInv'
<1> SUFFICES ASSUME db' PROVE TableInv'
  BY DEF TableInv
<1>1. db /\ unsaved \subseteq unsaved'
  BY DEF Next, CallUpdate, CallRead, Lock, UpdateStep, StoreGauge, LoadCounter, StoreCounter,
         SkipSave, Sleep, GiveUp, ReturnUpdate, DBAnswer, Inserted, RetryableError,
         FinalError, ReadStep, Get, EncodeGauges, EncodeCounters, ReturnRead, histVars,
         fixedVars, vars
<1>2. \A n \in GaugeName \ (CounterName \cup unsaved') : GaugeRows(n)'
  BY <1>1, GaugeRowsNext DEF TableInv
<1>3. \A n \in CounterName \ (GaugeName \cup unsaved') : CounterRows(n)'
  BY <1>1, CounterRowsNext DEF TableInv
<1> QED
  BY <1>2, <1>3 DEF TableInv

\* Without a row, the restored contents are the maps.
LEMMA InitTable ==
  ASSUME Init
  PROVE  TableInv
<1>1. /\ table = <<>> /\ gauges = base.gauges /\ counters = base.counters
      /\ gauges \in GaugeMap /\ counters \in CounterMap
      /\ \A p \in Proc : pc[p] = "idle"
  BY RestoredAssumption DEF Init, Snapshot
<1>2. Len(table) = 0 /\ 0 .. 0 = {0} /\ 1 .. 0 = {}
  BY <1>1
<1>3. ASSUME NEW n \in GaugeName PROVE GaugeRows(n)
  <2> DEFINE after == [i \in 0 .. Len(table) |-> gauges[n]]
  <2>1. after \in [0 .. Len(table) -> GaugeValue \cup {Absent}]
    BY <1>1 DEF GaugeMap
  <2>2. after[0] = gauges[n] /\ after[Len(table)] = gauges[n]
    BY <1>2
  <2> HIDE DEF after
  <2>3. ReplaysGauge(n, after)
    BY <1>1, <1>2, <2>2 DEF ReplaysGauge
  <2> QED
    BY <1>1, <2>1, <2>2, <2>3 DEF GaugeRows, Pending
<1>4. ASSUME NEW n \in CounterName PROVE CounterRows(n)
  <2> DEFINE after == [i \in 0 .. Len(table) |-> counters[n]]
  <2>1. after \in [0 .. Len(table) -> Word \cup {Absent}]
    BY <1>1 DEF CounterMap
  <2>2. after[0] = counters[n] /\ after[Len(table)] = counters[n]
    BY <1>2
  <2> HIDE DEF after
  <2>3. ReplaysCounter(n, after)
    BY <1>1, <1>2, <2>2 DEF ReplaysCounter
  <2> QED
    BY <1>1, <2>1, <2>2, <2>3 DEF CounterRows, Pending
<1> QED
  BY <1>3, <1>4 DEF TableInv

\* The rows of table metrics rebuild the maps, for any number of goroutines and
\* rows: saveDB inserts one row per update, in the order of the map writes, and
\* RetryDB never inserts a row twice.
THEOREM RowsRebuild == Spec => []TableRebuildsStore
<1>1. Init => IInv /\ TableInv
  BY InitIInv, InitTable
<1>2. IInv /\ TableInv /\ [Next]_vars => (IInv /\ TableInv)'
  BY NextIInv, TableNext
<1>3. IInv /\ TableInv => TableRebuildsStore
  <2> SUFFICES ASSUME IInv, TableInv, db, AtRest PROVE TableRebuildsStore
    BY DEF TableRebuildsStore
  <2>1. \A p \in Proc : \A n : ~Missing(p, n)
    BY DEF AtRest, Missing, Pending
  <2> QED
    BY <2>1 DEF TableInv, GaugeRows, CounterRows, TableRebuildsStore
<1> QED
  BY <1>1, <1>2, <1>3, PTL DEF Spec
===============================================================================
