----------------------------- MODULE AgentProofs -----------------------------
(***************************************************************************)
(* Machine-checked proofs about Agent, for any number of senders, any      *)
(* capacity of the channel, any number of gauges and any number of polls.  *)
(***************************************************************************)
EXTENDS Agent, TLAPS

-----------------------------------------------------------------------------
(* Sequences: the channel and the batches.                                 *)

\* Nothing is in an empty channel or batch.
LEMMA NothingInEmpty ==
  ASSUME NEW q, q = <<>>
  PROVE  ToSet(q) = {} /\ IsInjective(q) /\ Ascending(q)
<1>1. DOMAIN q = {}
  OBVIOUS
<1>2. ToSet(q) = {}
  BY <1>1 DEF ToSet
<1>3. IsInjective(q)
  BY <1>1 DEF IsInjective
<1>4. Ascending(q)
  BY <1>1 DEF Ascending
<1> QED
  BY <1>2, <1>3, <1>4

\* "metricChan <- m" and "batch = append(batch, m)" add m, at the end.
LEMMA AppendSeq ==
  ASSUME NEW q \in Seq(Metric), NEW m \in Metric
  PROVE  /\ Append(q, m) \in Seq(Metric)
         /\ ToSet(Append(q, m)) = ToSet(q) \cup {m}
         /\ m \notin ToSet(q) /\ IsInjective(q) => IsInjective(Append(q, m))
         /\ Ascending(q) /\ (\A n \in ToSet(q) : Newer(m, n))
              => Ascending(Append(q, m))
<1> DEFINE r == Append(q, m)
<1>1. /\ r \in Seq(Metric) /\ Len(r) = Len(q) + 1
      /\ DOMAIN r = 1 .. Len(q) + 1 /\ DOMAIN q = 1 .. Len(q)
      /\ \A i \in 1 .. Len(q) : r[i] = q[i]
      /\ r[Len(q) + 1] = m /\ Len(q) \in Nat
  OBVIOUS
<1> HIDE DEF r
<1>2. ToSet(r) = ToSet(q) \cup {m}
  <2>1. \A i \in DOMAIN r : r[i] \in ToSet(q) \cup {m}
    BY <1>1 DEF ToSet
  <2>2. \A i \in DOMAIN q : q[i] \in ToSet(r)
    BY <1>1 DEF ToSet
  <2>3. m \in ToSet(r)
    BY <1>1 DEF ToSet
  <2> QED
    BY <2>1, <2>2, <2>3 DEF ToSet
<1>3. ASSUME m \notin ToSet(q), IsInjective(q)
      PROVE  IsInjective(r)
  BY <1>1, <1>3 DEF IsInjective, ToSet
<1>4. ASSUME Ascending(q), \A n \in ToSet(q) : Newer(m, n)
      PROVE  Ascending(r)
  BY <1>1, <1>4 DEF Ascending, ToSet
<1> QED
  BY <1>1, <1>2, <1>3, <1>4 DEF r

\* "m := <-metricChan" takes the oldest metric and leaves the others.
LEMMA TailSeq ==
  ASSUME NEW q \in Seq(Metric), q # <<>>
  PROVE  /\ Head(q) \in Metric /\ Tail(q) \in Seq(Metric)
         /\ Len(Tail(q)) = Len(q) - 1
         /\ ToSet(q) = ToSet(Tail(q)) \cup {Head(q)}
         /\ IsInjective(q) => /\ IsInjective(Tail(q))
                              /\ Head(q) \notin ToSet(Tail(q))
         /\ Ascending(q) => /\ Ascending(Tail(q))
                            /\ \A n \in ToSet(Tail(q)) : Newer(n, Head(q))
<1> DEFINE r == Tail(q)
           h == Head(q)
<1>1. /\ h \in Metric /\ r \in Seq(Metric) /\ Len(r) = Len(q) - 1
      /\ Len(q) \in Nat \ {0} /\ h = q[1]
      /\ DOMAIN r = 1 .. Len(q) - 1 /\ DOMAIN q = 1 .. Len(q)
      /\ \A i \in 1 .. Len(q) - 1 : r[i] = q[i + 1]
  OBVIOUS
<1> HIDE DEF r, h
<1>2. ToSet(q) = ToSet(r) \cup {h}
  <2>1. \A i \in DOMAIN q : q[i] \in ToSet(r) \cup {h}
    <3> SUFFICES ASSUME NEW i \in DOMAIN q, i # 1 PROVE q[i] \in ToSet(r)
      BY <1>1
    <3>1. i - 1 \in DOMAIN r /\ r[i - 1] = q[i]
      BY <1>1
    <3> QED
      BY <3>1 DEF ToSet
  <2>2. \A i \in DOMAIN r : r[i] \in ToSet(q)
    BY <1>1 DEF ToSet
  <2>3. h \in ToSet(q)
    BY <1>1 DEF ToSet
  <2> QED
    BY <2>1, <2>2, <2>3 DEF ToSet
<1>3. ASSUME IsInjective(q)
      PROVE  IsInjective(r) /\ h \notin ToSet(r)
  <2>1. \A i \in DOMAIN r : i + 1 \in DOMAIN q /\ i + 1 # 1 /\ r[i] = q[i + 1]
    BY <1>1
  <2>2. h = q[1] /\ 1 \in DOMAIN q
    BY <1>1
  <2>3. IsInjective(r)
    <3> SUFFICES ASSUME NEW a \in DOMAIN r, NEW b \in DOMAIN r, r[a] = r[b]
                 PROVE  a = b
      BY DEF IsInjective
    <3>1. a + 1 = b + 1
      BY <2>1, <1>3 DEF IsInjective
    <3>2. a \in Int /\ b \in Int
      BY <1>1
    <3> QED
      BY <3>1, <3>2
  <2>4. \A i \in DOMAIN r : r[i] # h
    BY <2>1, <2>2, <1>3 DEF IsInjective
  <2> QED
    BY <2>3, <2>4 DEF ToSet
<1>4. ASSUME Ascending(q)
      PROVE  Ascending(r) /\ \A n \in ToSet(r) : Newer(n, h)
  <2>1. \A i \in DOMAIN r : i + 1 \in DOMAIN q /\ 1 < i + 1 /\ r[i] = q[i + 1]
    BY <1>1
  <2>2. h = q[1] /\ 1 \in DOMAIN q
    BY <1>1
  <2>3. Ascending(r)
    <3> SUFFICES ASSUME NEW j \in DOMAIN r, NEW i \in DOMAIN r, i < j
                 PROVE  Newer(r[j], r[i])
      BY DEF Ascending
    <3>1. i + 1 < j + 1
      BY <1>1
    <3> QED
      BY <3>1, <2>1, <1>4 DEF Ascending
  <2>4. \A i \in DOMAIN r : Newer(r[i], h)
    BY <2>1, <2>2, <1>4 DEF Ascending
  <2> QED
    BY <2>3, <2>4 DEF ToSet
<1> QED
  BY <1>1, <1>2, <1>3, <1>4 DEF r, h

\* A sender holds metrics in order, and the channel only newer ones, exactly
\* if both follow each other in order.
LEMMA AscendingConcat ==
  ASSUME NEW p \in Seq(Metric), NEW q \in Seq(Metric)
  PROVE  Ascending(p \o q) <=>
           /\ Ascending(p) /\ Ascending(q)
           /\ \A m \in ToSet(p), n \in ToSet(q) : Newer(n, m)
<1> DEFINE r == p \o q
<1>1. /\ Len(p) \in Nat /\ Len(q) \in Nat
      /\ DOMAIN r = 1 .. Len(p) + Len(q)
      /\ DOMAIN p = 1 .. Len(p) /\ DOMAIN q = 1 .. Len(q)
      /\ \A i \in 1 .. Len(p) : r[i] = p[i]
      /\ \A i \in 1 .. Len(q) : r[Len(p) + i] = q[i]
  OBVIOUS
<1> HIDE DEF r
<1>2. \A i \in DOMAIN r : i \in DOMAIN p \/ i - Len(p) \in DOMAIN q
  BY <1>1
<1>3. ASSUME Ascending(r)
      PROVE  /\ Ascending(p) /\ Ascending(q)
             /\ \A m \in ToSet(p), n \in ToSet(q) : Newer(n, m)
  <2>1. \A i \in DOMAIN p : i \in DOMAIN r /\ r[i] = p[i]
    BY <1>1
  <2>2. \A i \in DOMAIN q : Len(p) + i \in DOMAIN r /\ r[Len(p) + i] = q[i]
    BY <1>1
  <2>3. Ascending(p)
    BY <2>1, <1>3 DEF Ascending
  <2>4. Ascending(q)
    <3> SUFFICES ASSUME NEW j \in DOMAIN q, NEW i \in DOMAIN q, i < j
                 PROVE  Newer(q[j], q[i])
      BY DEF Ascending
    <3>1. Len(p) + i < Len(p) + j
      BY <1>1
    <3> QED
      BY <3>1, <2>2, <1>3 DEF Ascending
  <2>5. \A i \in DOMAIN p, j \in DOMAIN q : Newer(q[j], p[i])
    <3> SUFFICES ASSUME NEW i \in DOMAIN p, NEW j \in DOMAIN q
                 PROVE  Newer(q[j], p[i])
      OBVIOUS
    <3>1. i < Len(p) + j
      BY <1>1
    <3> QED
      BY <3>1, <2>1, <2>2, <1>3 DEF Ascending
  <2> QED
    BY <2>3, <2>4, <2>5 DEF ToSet
<1>4. ASSUME Ascending(p), Ascending(q),
             \A m \in ToSet(p), n \in ToSet(q) : Newer(n, m)
      PROVE  Ascending(r)
  <2> SUFFICES ASSUME NEW j \in DOMAIN r, NEW i \in DOMAIN r, i < j
               PROVE  Newer(r[j], r[i])
    BY DEF Ascending
  <2>1. CASE j \in DOMAIN p
    BY <2>1, <1>1, <1>4 DEF Ascending
  <2>2. CASE i \notin DOMAIN p
    <3>1. /\ i - Len(p) \in DOMAIN q /\ j - Len(p) \in DOMAIN q
          /\ r[i] = q[i - Len(p)] /\ r[j] = q[j - Len(p)]
      BY <2>2, <1>1
    <3> QED
      BY <3>1, <1>1, <1>4 DEF Ascending
  <2>3. CASE i \in DOMAIN p /\ j \notin DOMAIN p
    <3>1. /\ j - Len(p) \in DOMAIN q
          /\ r[i] = p[i] /\ r[j] = q[j - Len(p)]
      BY <2>3, <1>1
    <3> QED
      BY <3>1, <2>3, <1>4 DEF ToSet
  <2> QED
    BY <2>1, <2>2, <2>3
<1> QED
  BY <1>3, <1>4 DEF r

\* What is in the channel or in a batch is a metric.
LEMMA ElementsAreMetrics ==
  ASSUME NEW q \in Seq(Metric)
  PROVE  ToSet(q) \subseteq Metric
BY DEF ToSet

-----------------------------------------------------------------------------
(* The agent.                                                              *)

\* The fields of a metric.
LEMMA MetricFields ==
  ASSUME NEW m \in Metric
  PROVE  /\ m.from \in Collector /\ m.poll \in 1 .. MaxPolls
         /\ m.place \in 1 .. CountPlace
         /\ m.poll \in Int /\ m.place \in Int
BY DEF Metric

\* The initial states satisfy the invariant.
LEMMA InitIInv == Init => IInv
<1> SUFFICES ASSUME Init PROVE IInv
  OBVIOUS
<1> USE AgentAssumption DEF Init
<1>1. ToSet(channel) = {} /\ IsInjective(channel) /\ Ascending(channel)
  BY NothingInEmpty
<1>2. \A s \in Sender : ToSet(batch[s]) = {} /\ IsInjective(batch[s])
                        /\ batch[s] \o channel = <<>>
  BY NothingInEmpty
<1>3. TypeOK
  <2>1. channel \in Seq(Metric) /\ Len(channel) <= Cap
    OBVIOUS
  <2>2. batch \in [Sender -> Seq(Metric)]
    OBVIOUS
  <2>3. /\ polls \in [Collector -> 0 .. MaxPolls]
        /\ next \in [Collector -> 1 .. CountPlace]
        /\ pollCounter \in 0 .. MaxPolls
        /\ pollValue \in [1 .. MaxPolls -> 0 .. MaxPolls]
    BY DEF CountPlace
  <2>4. wg \in 0 .. 2
    BY DEF Added
  <2> QED
    BY <2>1, <2>2, <2>3, <2>4 DEF TypeOK
<1>4. CollectorInv
  BY DEF CollectorInv, Collector, CountPlace
<1>5. \A m \in Metric : ~WasSent(m)
  BY MetricFields DEF WasSent
<1>6. NothingLost
  BY <1>1, <1>2, <1>5 DEF NothingLost, InHands
<1>7. TakenInOrder
  BY <1>1, <1>2, NothingInEmpty DEF TakenInOrder
<1> QED
  BY <1>3, <1>4, <1>6, <1>7
  DEF IInv, NoSendOnClosed, PollCountInRange, WaitGroupInv, Running, Collector,
      Added

\* A step that neither moves a metric nor sends one keeps NothingLost and
\* TakenInOrder.
LEMMA NothingMoved ==
  ASSUME NothingLost, TakenInOrder, UNCHANGED <<channel, batch, handed>>,
         \A m \in Metric : WasSent(m)' <=> WasSent(m)
  PROVE  NothingLost' /\ TakenInOrder'
BY DEF NothingLost, TakenInOrder, InHands

\* Everything in the channel, with a sender or given away is a metric that was
\* sent.
LEMMA HeldWasSent ==
  ASSUME TypeOK, NothingLost
  PROVE  /\ \A m \in ToSet(channel) \cup handed : m \in Metric /\ WasSent(m)
         /\ \A s \in Sender : \A m \in ToSet(batch[s]) :
              m \in Metric /\ WasSent(m)
BY ElementsAreMetrics DEF TypeOK, NothingLost, InHands

\* A PollCount that was sent is not ahead of the counter it points to.
LEMMA SentIsCounted ==
  ASSUME TypeOK, CollectorInv, NEW m \in Metric, WasSent(m), IsPollCount(m)
  PROVE  m.poll <= pollCounter
<1>1. /\ Runtime \in Collector /\ m.from = Runtime
      /\ cpc[Runtime] \in {"select", "send", "count", "returned"}
      /\ polls[Runtime] \in Int /\ next[Runtime] \in Int /\ pollCounter \in Int
      /\ m.poll \in Int /\ m.place = CountPlace /\ CountPlace \in Int
  BY AgentAssumption, MetricFields
  DEF WasSent, IsPollCount, Collector, TypeOK, CountPlace
<1>2. CASE m.poll < polls[Runtime]
  BY <1>1, <1>2 DEF CollectorInv
<1>3. CASE m.poll = polls[Runtime] /\ cpc[Runtime] \notin {"send", "count"}
  BY <1>1, <1>3 DEF CollectorInv
<1>4. CASE m.poll = polls[Runtime] /\ m.place < next[Runtime]
  BY <1>1, <1>4 DEF TypeOK
<1> QED
  BY <1>1, <1>2, <1>3, <1>4 DEF WasSent

\* Poll: a ticker fires, the collector starts on the metrics of a new poll.
LEMMA PollIInv ==
  ASSUME IInv, NEW c \in Collector, Poll(c)
  PROVE  IInv'
<1> USE AgentAssumption DEF IInv, Poll, mainVars, senderVars
<1>1. /\ polls[c] \in Int /\ polls'[c] = polls[c] + 1 /\ next'[c] = 1
      /\ cpc[c] = "select" /\ cpc'[c] = "send"
      /\ \A d \in Collector \ {c} : /\ polls'[d] = polls[d] /\ next'[d] = next[d]
                                    /\ cpc'[d] = cpc[d]
  BY DEF TypeOK
<1>2. TypeOK'
  BY DEF TypeOK, CountPlace
<1>3. CollectorInv'
  BY <1>1 DEF TypeOK, CollectorInv, Collector, CountPlace
<1>4. NoSendOnClosed' /\ WaitGroupInv'
  <2>1. \A d \in Collector : Running(d)' = Running(d)
    BY <1>1 DEF Running
  <2> QED
    BY <2>1 DEF NoSendOnClosed, WaitGroupInv, Collector
<1>5. NothingLost' /\ TakenInOrder'
  <2>1. \A m \in Metric : WasSent(m)' <=> WasSent(m)
    BY <1>1, MetricFields DEF WasSent, IsPollCount
  <2> QED
    BY <2>1, NothingMoved
<1>6. PollCountInRange'
  BY DEF PollCountInRange
<1> QED
  BY <1>2, <1>3, <1>4, <1>5, <1>6

\* CollectorDone: the context is cancelled, the collector returns.
LEMMA CollectorDoneIInv ==
  ASSUME IInv, NEW c \in Collector, CollectorDone(c)
  PROVE  IInv'
<1> USE DEF IInv, CollectorDone, mainVars, senderVars
<1>1. /\ cpc[c] = "select" /\ cpc'[c] = "returned"
      /\ \A d \in Collector \ {c} : cpc'[d] = cpc[d]
  BY DEF TypeOK
<1>2. TypeOK'
  <2>1. wg' \in 0 .. 2
    BY <1>1, AgentAssumption DEF WaitGroupInv, Running, Collector
  <2> QED
    BY <2>1 DEF TypeOK
<1>3. CollectorInv'
  BY <1>1, AgentAssumption DEF TypeOK, CollectorInv, Collector
<1>4. NoSendOnClosed' /\ WaitGroupInv'
  <2>1. wg = Running(Runtime) + Running(Gopsutil)
    BY DEF WaitGroupInv
  <2>2. wg' = Running(Runtime)' + Running(Gopsutil)'
    BY <1>1, <2>1, AgentAssumption DEF Running, Collector
  <2>3. wg # 0
    BY <1>1, <2>1 DEF Running, Collector
  <2> QED
    BY <2>2, <2>3 DEF NoSendOnClosed, WaitGroupInv
<1>5. NothingLost' /\ TakenInOrder'
  <2>1. \A m \in Metric : WasSent(m)' <=> WasSent(m)
    BY <1>1, MetricFields DEF WasSent, IsPollCount
  <2> QED
    BY <2>1, NothingMoved
<1>6. PollCountInRange'
  BY DEF PollCountInRange
<1> QED
  BY <1>2, <1>3, <1>4, <1>5, <1>6

\* Count: "pollCounter++", before PollCount is sent.
LEMMA CountIInv ==
  ASSUME IInv, Count
  PROVE  IInv'
<1> USE AgentAssumption DEF IInv, Count, mainVars, senderVars
<1>1. /\ Runtime \in Collector /\ cpc[Runtime] = "count"
      /\ cpc'[Runtime] = "send"
      /\ \A d \in Collector \ {Runtime} : cpc'[d] = cpc[d]
  BY DEF TypeOK, Collector
<1>2. /\ polls[Runtime] \in 0 .. MaxPolls /\ pollCounter \in 0 .. MaxPolls
      /\ polls[Runtime] = pollCounter + 1
      /\ pollCounter' \in 0 .. MaxPolls
  BY <1>1 DEF TypeOK, CollectorInv
<1>3. TypeOK'
  BY <1>2 DEF TypeOK
<1>4. CollectorInv'
  BY <1>1, <1>2 DEF TypeOK, CollectorInv, Collector
<1>5. NoSendOnClosed' /\ WaitGroupInv'
  <2>1. \A d \in Collector : Running(d)' = Running(d)
    BY <1>1 DEF Running
  <2> QED
    BY <2>1 DEF NoSendOnClosed, WaitGroupInv, Collector
<1>6. NothingLost' /\ TakenInOrder'
  <2>1. \A m \in Metric : WasSent(m)' <=> WasSent(m)
    BY <1>1, MetricFields DEF WasSent, IsPollCount
  <2> QED
    BY <2>1, NothingMoved
<1>7. PollCountInRange'
  <2> SUFFICES ASSUME NEW m \in handed, IsPollCount(m)
               PROVE  pollValue[m.poll] \in m.poll .. pollCounter + 1
    BY DEF PollCountInRange, IsPollCount
  <2>1. m \in Metric /\ m.poll \in 1 .. MaxPolls
    BY MetricFields DEF TypeOK
  <2>2. pollValue[m.poll] \in m.poll .. pollCounter
    BY DEF PollCountInRange
  <2> QED
    BY <1>2, <2>1, <2>2
<1> QED
  BY <1>3, <1>4, <1>5, <1>6, <1>7

\* Send: a metric enters the channel.  It is newer than everything its
\* collector has sent so far, so it was nowhere before.
LEMMA SendIInv ==
  ASSUME IInv, NEW c \in Collector, Send(c)
  PROVE  IInv'
<1> USE AgentAssumption DEF IInv
<1> DEFINE m0 == [from |-> c, poll |-> polls[c], place |-> next[c]]
<1>0. ~closed
  <2>1. cpc[c] = "send"
    BY DEF Send
  <2> QED
    BY <2>1 DEF WaitGroupInv, Running, Collector
<1>1. /\ cpc[c] = "send" /\ cpc' = [cpc EXCEPT ![c] = AfterSend(c)]
      /\ polls' = polls /\ pollCounter' = pollCounter
      /\ next' = [next EXCEPT ![c] = IF @ < CountPlace THEN @ + 1 ELSE 1]
      /\ channel' = Append(channel, m0) /\ Len(channel) < Cap
      /\ batch' = batch /\ handed' = handed /\ pollValue' = pollValue
      /\ UNCHANGED <<batchUpdate, closed, ctxDone, wg, main, spc>>
  BY <1>0 DEF Send, HasRoom, mainVars, senderVars
<1>2. /\ polls[c] \in 1 .. MaxPolls /\ next[c] \in 1 .. CountPlace
      /\ next'[c] = (IF next[c] < CountPlace THEN next[c] + 1 ELSE 1)
      /\ cpc'[c] = AfterSend(c)
      /\ \A d \in Collector \ {c} : cpc'[d] = cpc[d] /\ next'[d] = next[d]
  BY <1>1 DEF TypeOK, CollectorInv
<1>3. m0 \in Metric
  BY <1>2 DEF Metric
<1>4. /\ m0.from = c /\ m0.poll = polls[c] /\ m0.place = next[c]
      /\ c # Runtime => next[c] < CountPlace
  BY <1>1 DEF CollectorInv, Collector
<1> HIDE DEF m0
<1>5. \A n \in Metric : WasSent(n) => Newer(m0, n)
  BY <1>1, <1>2, <1>4, MetricFields DEF WasSent, Newer
<1>6. ~WasSent(m0)
  BY <1>1, <1>2, <1>4 DEF WasSent
<1>7. \A n \in Metric : WasSent(n)' <=> WasSent(n) \/ n = m0
  <2> SUFFICES ASSUME NEW n \in Metric
               PROVE  WasSent(n)' <=> WasSent(n) \/ n = m0
    OBVIOUS
  <2>1. CASE n.from # c
    BY <1>1, <1>2, <1>4, <2>1, MetricFields DEF WasSent, IsPollCount
  <2>2. CASE n.from = c
    <3>1. n = m0 <=> n.poll = polls[c] /\ n.place = next[c]
      BY <2>2 DEF Metric, m0
    <3>2. /\ n.poll \in Int /\ n.place \in 1 .. CountPlace
          /\ next[c] \in Int /\ polls[c] \in Int /\ CountPlace = Gauges + 1
          /\ Gauges \in Nat
      BY <1>2, MetricFields DEF CountPlace
    <3>3. CASE next[c] < Gauges
      BY <1>1, <1>2, <2>2, <3>1, <3>2, <3>3 DEF WasSent, IsPollCount, AfterSend
    <3>4. CASE next[c] = Gauges
      BY <1>1, <1>2, <2>2, <3>1, <3>2, <3>4 DEF WasSent, IsPollCount, AfterSend
    <3>5. CASE next[c] = CountPlace
      BY <1>1, <1>2, <1>4, <2>2, <3>1, <3>2, <3>5
      DEF WasSent, IsPollCount, AfterSend
    <3> QED
      BY <1>2, <3>2, <3>3, <3>4, <3>5
  <2> QED
    BY <2>1, <2>2
<1>8. /\ channel \in Seq(Metric) /\ channel' \in Seq(Metric)
      /\ ToSet(channel') = ToSet(channel) \cup {m0}
      /\ \A s \in Sender : batch[s] \in Seq(Metric)
  BY <1>1, <1>3, AppendSeq DEF TypeOK
<1>9. /\ m0 \notin ToSet(channel) \cup handed
      /\ \A s \in Sender : m0 \notin ToSet(batch[s])
      /\ \A n \in ToSet(channel) \cup handed : Newer(m0, n)
      /\ \A s \in Sender : \A n \in ToSet(batch[s]) : Newer(m0, n)
  BY <1>5, <1>6, HeldWasSent
<1>10. TypeOK'
  <2>1. Len(channel') <= Cap
    BY <1>1, <1>8 DEF TypeOK
  <2>2. cpc' \in [Collector -> {"select", "send", "count", "returned"}]
    BY <1>1 DEF TypeOK, AfterSend
  <2>3. next' \in [Collector -> 1 .. CountPlace]
    BY <1>1, <1>2 DEF TypeOK, CountPlace
  <2> QED
    BY <1>1, <1>8, <2>1, <2>2, <2>3 DEF TypeOK
<1>11. CollectorInv'
  <2>1. /\ Gauges \in Nat \ {0} /\ CountPlace = Gauges + 1
        /\ pollCounter \in Int /\ polls[Runtime] \in Int
        /\ Runtime \in Collector /\ Gopsutil \in Collector
    BY DEF CountPlace, Collector, TypeOK
  <2>2. \A d \in Collector : cpc'[d] \in {"send", "count"} => polls'[d] > 0
    BY <1>1, <1>2 DEF CollectorInv
  <2>3. CASE c = Runtime
    <3>1. cpc'[Gopsutil] = cpc[Gopsutil] /\ next'[Gopsutil] = next[Gopsutil]
      BY <1>2, <2>1, <2>3
    <3>2. CASE next[c] < Gauges
      BY <1>1, <1>2, <2>1, <2>2, <2>3, <3>1, <3>2 DEF CollectorInv, AfterSend
    <3>3. CASE next[c] = Gauges
      BY <1>1, <1>2, <2>1, <2>2, <2>3, <3>1, <3>3 DEF CollectorInv, AfterSend
    <3>4. CASE next[c] = CountPlace
      BY <1>1, <1>2, <2>1, <2>2, <2>3, <3>1, <3>4 DEF CollectorInv, AfterSend
    <3> QED
      BY <1>2, <2>1, <3>2, <3>3, <3>4
  <2>4. CASE c = Gopsutil
    <3>1. cpc'[Runtime] = cpc[Runtime] /\ next'[Runtime] = next[Runtime]
      BY <1>2, <2>1, <2>4
    <3> QED
      BY <1>1, <1>2, <1>4, <2>1, <2>2, <2>4, <3>1 DEF CollectorInv, AfterSend
  <2> QED
    BY <2>3, <2>4 DEF Collector
<1>12. NoSendOnClosed' /\ WaitGroupInv'
  <2>1. \A d \in Collector : Running(d)' = Running(d)
    BY <1>1, <1>2 DEF Running, AfterSend
  <2> QED
    BY <1>1, <2>1 DEF NoSendOnClosed, WaitGroupInv, Collector
<1>13. NothingLost'
  <2>1. IsInjective(channel')
    BY <1>1, <1>3, <1>8, <1>9, AppendSeq DEF NothingLost
  <2>2. ToSet(channel') \cap handed' = {}
    BY <1>1, <1>8, <1>9 DEF NothingLost
  <2>3. \A s \in Sender : ToSet(batch'[s]) \cap (ToSet(channel') \cup handed') = {}
    BY <1>1, <1>8, <1>9 DEF NothingLost
  <2>4. \A m \in Metric :
          WasSent(m)' <=> m \in ToSet(channel') \/ InHands(m)' \/ m \in handed'
    BY <1>1, <1>7, <1>8 DEF NothingLost, InHands
  <2> QED
    BY <1>1, <2>1, <2>2, <2>3, <2>4 DEF NothingLost
<1>14. TakenInOrder'
  <2>1. \A s \in Sender : Ascending(batch'[s] \o channel')
    <3> SUFFICES ASSUME NEW s \in Sender PROVE Ascending(batch[s] \o channel')
      BY <1>1
    <3>1. /\ Ascending(batch[s]) /\ Ascending(channel)
          /\ \A m \in ToSet(batch[s]), n \in ToSet(channel) : Newer(n, m)
      BY <1>8, AscendingConcat DEF TakenInOrder
    <3>2. Ascending(channel')
      BY <1>1, <1>3, <1>8, <1>9, <3>1, AppendSeq
    <3> QED
      BY <1>8, <1>9, <3>1, <3>2, AscendingConcat
  <2>2. \A m \in ToSet(channel'), n \in handed' : Newer(m, n)
    BY <1>1, <1>8, <1>9 DEF TakenInOrder
  <2> QED
    BY <2>1, <2>2 DEF TakenInOrder
<1>15. PollCountInRange'
  BY <1>1 DEF PollCountInRange
<1> QED
  BY <1>10, <1>11, <1>12, <1>13, <1>14, <1>15

\* Receive: the oldest metric goes from the channel to the end of a batch.
LEMMA ReceiveIInv ==
  ASSUME IInv, NEW s \in Sender, Receive(s)
  PROVE  IInv'
<1> USE DEF IInv
<1> DEFINE h == Head(channel)
<1>1. /\ channel # <<>> /\ channel' = Tail(channel)
      /\ batch' = [batch EXCEPT ![s] = Append(@, h)]
      /\ \E l \in {"drain", "call"} : spc' = [spc EXCEPT ![s] = l]
      /\ UNCHANGED <<batchUpdate, closed, ctxDone, wg, main, cpc, polls, next,
                     pollCounter, handed, pollValue>>
  BY DEF Receive, SenderGoto, mainVars, collectorVars
<1>2. /\ channel \in Seq(Metric) /\ \A t \in Sender : batch[t] \in Seq(Metric)
      /\ batch'[s] = Append(batch[s], h)
      /\ \A t \in Sender \ {s} : batch'[t] = batch[t]
  BY <1>1 DEF TypeOK
<1>3. /\ h \in Metric /\ channel' \in Seq(Metric)
      /\ Len(channel') = Len(channel) - 1
      /\ ToSet(channel) = ToSet(channel') \cup {h}
      /\ h \notin ToSet(channel') /\ IsInjective(channel')
  BY <1>1, <1>2, TailSeq DEF NothingLost
<1>4. /\ h \in ToSet(channel) /\ h \notin handed
      /\ \A t \in Sender : h \notin ToSet(batch[t])
  BY <1>3 DEF NothingLost
<1> HIDE DEF h
<1>5. /\ batch'[s] \in Seq(Metric)
      /\ ToSet(batch'[s]) = ToSet(batch[s]) \cup {h}
      /\ IsInjective(batch'[s])
  BY <1>2, <1>3, <1>4, AppendSeq DEF NothingLost
<1>6. TypeOK'
  <2>1. Len(channel') <= Cap
    BY <1>2, <1>3, AgentAssumption DEF TypeOK
  <2>2. batch' \in [Sender -> Seq(Metric)]
    BY <1>1, <1>2, <1>5 DEF TypeOK
  <2> QED
    BY <1>1, <1>3, <2>1, <2>2 DEF TypeOK
<1>7. NothingLost'
  <2>1. \A m \in Metric :
          WasSent(m)' <=> m \in ToSet(channel') \/ InHands(m)' \/ m \in handed'
    <3>1. \A m \in Metric : WasSent(m)' <=> WasSent(m)
      BY <1>1 DEF WasSent
    <3>2. \A m \in Metric : InHands(m)' <=> InHands(m) \/ m = h
      BY <1>2, <1>5 DEF InHands
    <3> QED
      BY <1>1, <1>3, <3>1, <3>2 DEF NothingLost
  <2>2. ToSet(channel') \cap handed' = {}
    BY <1>1, <1>3 DEF NothingLost
  <2>3. \A t \in Sender :
          /\ ToSet(batch'[t]) \cap (ToSet(channel') \cup handed') = {}
          /\ IsInjective(batch'[t])
    BY <1>1, <1>2, <1>3, <1>4, <1>5 DEF NothingLost
  <2>4. \A t \in Sender : \A u \in Sender \ {t} :
          ToSet(batch'[t]) \cap ToSet(batch'[u]) = {}
    <3> SUFFICES ASSUME NEW t \in Sender, NEW u \in Sender \ {t}
                 PROVE  ToSet(batch'[t]) \cap ToSet(batch'[u]) = {}
      OBVIOUS
    <3>0. ASSUME NEW v \in Sender \ {s}
          PROVE  ToSet(batch'[s]) \cap ToSet(batch'[v]) = {}
      <4>1. batch'[v] = batch[v] /\ h \notin ToSet(batch[v])
        BY <1>2, <1>4
      <4>2. ToSet(batch[s]) \cap ToSet(batch[v]) = {}
        BY DEF NothingLost
      <4> QED
        BY <1>5, <4>1, <4>2
    <3>1. CASE t = s
      BY <3>0, <3>1
    <3>2. CASE u = s
      BY <3>0, <3>2
    <3>3. CASE t # s /\ u # s
      BY <1>2, <3>3 DEF NothingLost
    <3> QED
      BY <3>1, <3>2, <3>3
  <2> QED
    BY <1>3, <2>1, <2>2, <2>3, <2>4 DEF NothingLost
<1>8. TakenInOrder'
  <2>1. \A t \in Sender : /\ Ascending(batch[t]) /\ Ascending(channel)
                          /\ \A m \in ToSet(batch[t]), n \in ToSet(channel) :
                               Newer(n, m)
    BY <1>2, AscendingConcat DEF TakenInOrder
  <2>2. /\ Ascending(channel')
        /\ \A n \in ToSet(channel') : Newer(n, h)
    BY <1>1, <1>2, <2>1, TailSeq DEF h
  <2>3. Ascending(batch'[s])
    BY <1>2, <1>3, <1>4, <2>1, AppendSeq
  <2>4. \A t \in Sender : Ascending(batch'[t] \o channel')
    <3>1. CASE s \in Sender
      <4> SUFFICES ASSUME NEW t \in Sender
                   PROVE  Ascending(batch'[t] \o channel')
        OBVIOUS
      <4>1. /\ Ascending(batch'[t]) /\ batch'[t] \in Seq(Metric)
            /\ \A m \in ToSet(batch'[t]), n \in ToSet(channel') : Newer(n, m)
        BY <1>2, <1>3, <1>5, <2>1, <2>2, <2>3
      <4> QED
        BY <1>3, <2>2, <4>1, AscendingConcat
    <3> QED
      BY <3>1
  <2>5. \A m \in ToSet(channel'), n \in handed' : Newer(m, n)
    BY <1>1, <1>3 DEF TakenInOrder
  <2> QED
    BY <2>4, <2>5 DEF TakenInOrder
<1>9. /\ CollectorInv' /\ NoSendOnClosed' /\ WaitGroupInv'
      /\ PollCountInRange'
  BY <1>1 DEF CollectorInv, NoSendOnClosed, WaitGroupInv, Running,
              PollCountInRange
<1> QED
  BY <1>6, <1>7, <1>8, <1>9

\* Call: a batch becomes the client's, which reads the counter for every
\* PollCount in it.
LEMMA CallIInv ==
  ASSUME IInv, NEW s \in Sender, Call(s)
  PROVE  IInv'
<1> USE DEF IInv
<1> DEFINE metrics == ToSet(batch[s])
           counts  == {m.poll : m \in {n \in metrics : IsPollCount(n)}}
<1>1. /\ handed' = handed \cup metrics
      /\ pollValue' = [k \in DOMAIN pollValue |->
                         IF k \in counts THEN pollCounter ELSE pollValue[k]]
      /\ batch' = [batch EXCEPT ![s] = <<>>]
      /\ \E l \in {"select", "drain", "returned"} : spc' = [spc EXCEPT ![s] = l]
      /\ UNCHANGED <<batchUpdate, channel, closed, ctxDone, wg, main, cpc, polls,
                     next, pollCounter>>
  BY DEF Call, SenderGoto, mainVars, collectorVars, ToSet
<1>2. /\ channel \in Seq(Metric) /\ \A t \in Sender : batch[t] \in Seq(Metric)
      /\ batch'[s] = <<>>
      /\ \A t \in Sender \ {s} : batch'[t] = batch[t]
  BY <1>1 DEF TypeOK
<1>3. /\ batch'[s] \in Seq(Metric) /\ ToSet(batch'[s]) = {}
      /\ IsInjective(batch'[s]) /\ Ascending(batch'[s])
  BY <1>2, NothingInEmpty
<1>4. metrics \subseteq Metric
  BY <1>2, ElementsAreMetrics
<1>5. TypeOK'
  <2>1. batch' \in [Sender -> Seq(Metric)]
    BY <1>1 DEF TypeOK
  <2>2. pollValue' \in [1 .. MaxPolls -> 0 .. MaxPolls]
    BY <1>1 DEF TypeOK
  <2> QED
    BY <1>1, <1>4, <2>1, <2>2 DEF TypeOK
<1>6. NothingLost'
  <2>1. \A m \in Metric :
          WasSent(m)' <=> m \in ToSet(channel') \/ InHands(m)' \/ m \in handed'
    <3>1. \A m \in Metric : WasSent(m)' <=> WasSent(m)
      BY <1>1 DEF WasSent
    <3>2. \A m \in Metric : InHands(m) <=> InHands(m)' \/ m \in metrics
      BY <1>2, <1>3 DEF InHands
    <3> QED
      BY <1>1, <3>1, <3>2 DEF NothingLost
  <2>2. ToSet(channel') \cap handed' = {}
    BY <1>1 DEF NothingLost
  <2>3. \A t \in Sender :
          /\ ToSet(batch'[t]) \cap (ToSet(channel') \cup handed') = {}
          /\ IsInjective(batch'[t])
          /\ \A u \in Sender \ {t} : ToSet(batch'[t]) \cap ToSet(batch'[u]) = {}
    BY <1>1, <1>2, <1>3 DEF NothingLost
  <2> QED
    BY <1>1, <2>1, <2>2, <2>3 DEF NothingLost
<1>7. TakenInOrder'
  <2>1. \A t \in Sender : /\ Ascending(batch[t]) /\ Ascending(channel)
                          /\ \A m \in ToSet(batch[t]), n \in ToSet(channel) :
                               Newer(n, m)
    BY <1>2, AscendingConcat DEF TakenInOrder
  <2>2. \A t \in Sender : Ascending(batch'[t] \o channel')
    BY <1>1, <1>2, <1>3, <2>1, AscendingConcat
  <2>3. \A m \in ToSet(channel'), n \in handed' : Newer(m, n)
    BY <1>1, <2>1 DEF TakenInOrder
  <2> QED
    BY <2>2, <2>3 DEF TakenInOrder
<1>8. PollCountInRange'
  <2> SUFFICES ASSUME NEW m \in handed', IsPollCount(m)
               PROVE  pollValue'[m.poll] \in m.poll .. pollCounter'
    BY DEF PollCountInRange, IsPollCount
  <2>1. /\ m \in Metric /\ m.poll \in 1 .. MaxPolls
        /\ DOMAIN pollValue = 1 .. MaxPolls /\ pollCounter \in Int
    BY <1>1, <1>4, MetricFields DEF TypeOK
  <2>2. CASE m.poll \in counts
    <3>1. PICK n \in metrics : IsPollCount(n) /\ n.poll = m.poll
      BY <2>2
    <3>2. n \in Metric /\ WasSent(n)
      BY <3>1, HeldWasSent
    <3>3. m.poll <= pollCounter
      BY <3>1, <3>2, SentIsCounted
    <3> QED
      BY <1>1, <2>1, <2>2, <3>3
  <2>3. CASE m.poll \notin counts
    <3>1. m \notin metrics
      BY <2>3
    <3>2. m \in handed
      BY <1>1, <3>1
    <3> QED
      BY <1>1, <2>1, <2>3, <3>2 DEF PollCountInRange
  <2> QED
    BY <2>2, <2>3
<1>9. CollectorInv' /\ NoSendOnClosed' /\ WaitGroupInv'
  BY <1>1 DEF CollectorInv, NoSendOnClosed, WaitGroupInv, Running
<1> QED
  BY <1>5, <1>6, <1>7, <1>8, <1>9

\* The steps of senders and of main that move no metric.
LEMMA OtherIInv ==
  ASSUME IInv,
         \/ \E s \in Sender : \/ Report(s) \/ Drained(s) \/ ChannelClosed(s)
                              \/ SenderDone(s)
         \/ Signal \/ Close \/ Exit
         \/ UNCHANGED vars
  PROVE  IInv'
<1> USE DEF IInv
<1>1. /\ UNCHANGED <<batchUpdate, channel, cpc, polls, next, pollCounter, batch,
                     handed, pollValue>>
      /\ \/ UNCHANGED closed
         \/ closed' = TRUE /\ wg = 0
      /\ wg' = wg
      /\ main' # "panicked" \/ main' = main
  BY DEF Report, Drained, ChannelClosed, SenderDone, Signal, Close, Exit, vars,
         mainVars, collectorVars, senderVars, WaitGroupDone
<1>2. TypeOK'
  <2>1. \A s \in Sender :
          Report(s) \/ Drained(s) \/ ChannelClosed(s) \/ SenderDone(s) => TypeOK'
    BY <1>1 DEF Report, Drained, ChannelClosed, SenderDone, SenderGoto, TypeOK,
                mainVars
  <2>2. Signal \/ Close \/ Exit \/ UNCHANGED vars => TypeOK'
    BY <1>1 DEF Signal, Close, Exit, vars, senderVars, TypeOK
  <2> QED
    BY <2>1, <2>2
<1>3. /\ CollectorInv' /\ NoSendOnClosed' /\ WaitGroupInv'
      /\ PollCountInRange'
  BY <1>1 DEF CollectorInv, NoSendOnClosed, WaitGroupInv, Running,
              PollCountInRange
<1>4. NothingLost' /\ TakenInOrder'
  BY <1>1, NothingMoved DEF WasSent
<1> QED
  BY <1>2, <1>3, <1>4

\* Every step preserves the invariant.
LEMMA NextIInv == IInv /\ [Next]_vars => IInv'
<1> SUFFICES ASSUME IInv, [Next]_vars PROVE IInv'
  OBVIOUS
<1>1. CASE \E c \in Collector : CollectorStep(c)
  BY <1>1, PollIInv, CollectorDoneIInv, SendIInv, CountIInv DEF CollectorStep
<1>2. CASE \E s \in Sender : SenderStep(s) \/ SenderDone(s)
  BY <1>2, ReceiveIInv, CallIInv, OtherIInv DEF SenderStep
<1>3. CASE Signal \/ Close \/ Exit \/ UNCHANGED vars
  BY <1>3, OtherIInv
<1> QED
  BY <1>1, <1>2, <1>3 DEF Next

-----------------------------------------------------------------------------
\* The invariant holds in every state of the agent.
THEOREM Invariance == Spec => []IInv
<1>1. Init => IInv
  BY InitIInv
<1>2. IInv /\ [Next]_vars => IInv'
  BY NextIInv
<1> QED
  BY <1>1, <1>2, PTL DEF Spec

\* Every variable keeps its type; in particular the channel never holds more
\* than its capacity.
THEOREM TypeCorrect == Spec => []TypeOK
<1>1. IInv => TypeOK
  BY DEF IInv
<1> QED
  BY <1>1, Invariance, PTL

\* A shutdown never panics, whatever the collectors and senders are doing: the
\* WaitGroup's counter stays the number of collectors still running, so main
\* does not close the channel before the last of them has made its last send.
THEOREM NeverSendsOnClosed == Spec => []NoSendOnClosed
<1>1. IInv => NoSendOnClosed
  BY DEF IInv
<1> QED
  BY <1>1, Invariance, PTL

\* Every metric that was sent, and no other, is in exactly one place: the
\* channel, one batch, or handed to the client.
THEOREM ExactlyOnce == Spec => []NothingLost
<1>1. IInv => NothingLost
  BY DEF IInv
<1> QED
  BY <1>1, Invariance, PTL

\* The channel and the batches keep the metrics of a collector in the order in
\* which it sent them, for any number of senders.
THEOREM Ordered == Spec => []TakenInOrder
<1>1. IInv => TakenInOrder
  BY DEF IInv
<1> QED
  BY <1>1, Invariance, PTL

\* The late read of the PollCount pointer never yields less than the count of
\* the poll, nor more than the counter.
THEOREM PollCountBounded == Spec => []PollCountInRange
<1>1. IInv => PollCountInRange
  BY DEF IInv
<1> QED
  BY <1>1, Invariance, PTL
=============================================================================
