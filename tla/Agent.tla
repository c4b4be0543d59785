------------------------------- MODULE Agent -------------------------------
(***************************************************************************)
(* The agent process (cmd/agent/main.go): two collectors that put metrics  *)
(* into a bounded channel, RateLimit senders that drain it on every report *)
(* tick and hand the metrics to the client, and main, which on a signal    *)
(* cancels the context, waits for the collectors, closes the channel and   *)
(* returns.                                                                *)
(*                                                                         *)
(* A metric is known by its collector, the poll that made it and its place *)
(* in that poll; the last place of a poll of the runtime collector is      *)
(* PollCount, whose Delta points to the collector's own counter.           *)
(***************************************************************************)
EXTENDS Integers, FiniteSets, SequencesExt

CONSTANTS
  Sender,   \* the RateLimit goroutines of runSender
  Runtime,  \* the goroutine of runRuntimeCollector
  Gopsutil, \* the goroutine of runGopsutilCollector
  Cap,      \* capacity of metricChan, 1000 in the code
  Gauges,   \* gauges in one poll
  MaxPolls  \* bound: polls of each collector

ASSUME AgentAssumption ==
  /\ Runtime # Gopsutil
  /\ Cap \in Nat \ {0} /\ Gauges \in Nat \ {0} /\ MaxPolls \in Nat

VARIABLES
  batchUpdate,  \* flags.BatchUpdate
  channel,      \* the metrics in metricChan
  closed,       \* metricChan is closed
  ctxDone,      \* the context is cancelled
  wg,           \* the counter of main's WaitGroup
  main,         \* where main is
  cpc,          \* where each collector is
  polls,        \* the poll each collector is in
  next,         \* place of the metric it sends next
  pollCounter,  \* the local of runRuntimeCollector that Delta points to
  spc,          \* where each sender is
  batch,        \* the metrics a sender has taken out of the channel
  handed,       \* history: the metrics given to the client
  pollValue     \* history: the Delta the client read for PollCount, per poll

collectorVars == <<cpc, polls, next, pollCounter>>
senderVars    == <<spc, batch, handed, pollValue>>
mainVars      == <<closed, ctxDone, wg, main>>
vars == <<batchUpdate, channel, closed, ctxDone, wg, main, cpc, polls, next,
          pollCounter, spc, batch, handed, pollValue>>

Collector == {Runtime, Gopsutil}
CountPlace == Gauges + 1
Metric == [from : Collector, poll : 1 .. MaxPolls, place : 1 .. CountPlace]

IsPollCount(m) == m.place = CountPlace

TypeOK ==
  /\ batchUpdate \in BOOLEAN
  /\ channel \in Seq(Metric) /\ Len(channel) <= Cap
  /\ closed \in BOOLEAN /\ ctxDone \in BOOLEAN
  /\ wg \in 0 .. 2  \* Done panics below 0
  /\ main \in {"running", "waiting", "closed", "exited", "panicked"}
  /\ cpc \in [Collector -> {"select", "send", "count", "returned"}]
  /\ polls \in [Collector -> 0 .. MaxPolls]
  /\ next \in [Collector -> 1 .. CountPlace]
  /\ pollCounter \in 0 .. MaxPolls
  /\ spc \in [Sender -> {"select", "drain", "call", "lastcall", "returned"}]
  /\ batch \in [Sender -> Seq(Metric)]
  /\ handed \subseteq Metric
  /\ pollValue \in [1 .. MaxPolls -> 0 .. MaxPolls]

\* Mutation: one of the two collectors is not counted.
AddedOne == 1

\* Mutation: three are counted, two call Done.
AddedThree == 3

\* wg.Add before the collectors are started.
Added == 2

Init ==
  /\ batchUpdate \in BOOLEAN
  /\ channel = <<>> /\ closed = FALSE /\ ctxDone = FALSE
  /\ wg = Added /\ main = "running"
  /\ cpc = [c \in Collector |-> "select"]
  /\ polls = [c \in Collector |-> 0]
  /\ next = [c \in Collector |-> 1]
  /\ pollCounter = 0
  /\ spc = [s \in Sender |-> "select"]
  /\ batch = [s \in Sender |-> <<>>]
  /\ handed = {}
  /\ pollValue = [k \in 1 .. MaxPolls |-> 0]

\* When main returns, or any goroutine panics, all of them are gone.
Alive == main \notin {"exited", "panicked"}

-----------------------------------------------------------------------------
(* Collectors.                                                             *)

Poll(c) ==
  /\ Alive /\ cpc[c] = "select"
  /\ polls[c] < MaxPolls
  /\ polls' = [polls EXCEPT ![c] = @ + 1]
  /\ next' = [next EXCEPT ![c] = 1]
  /\ cpc' = [cpc EXCEPT ![c] = "send"]
  /\ UNCHANGED <<batchUpdate, channel, pollCounter, mainVars, senderVars>>

\* The collector returns; its goroutine has deferred wg.Done.
CollectorDone(c) ==
  /\ Alive /\ cpc[c] = "select"
  /\ ctxDone
  /\ cpc' = [cpc EXCEPT ![c] = "returned"]
  /\ wg' = wg - 1
  /\ UNCHANGED <<batchUpdate, channel, polls, next, pollCounter, closed, ctxDone,
                 main, senderVars>>

\* Where a collector goes after "metricChan <- m".
AfterSend(c) ==
  IF next[c] < Gauges THEN "send"
  ELSE IF c = Runtime /\ next[c] = Gauges THEN "count"
  ELSE "select"

\* Mutation: one metric more than the channel takes.
HasRoomForOneMore == Len(channel) <= Cap

HasRoom == Len(channel) < Cap

\* The send blocks while the channel is full and does not look at ctx; on a
\* closed channel it panics, full or not.
Send(c) ==
  /\ Alive /\ cpc[c] = "send"
  /\ IF closed
     THEN main' = "panicked" /\ UNCHANGED <<channel, cpc, next>>
     ELSE /\ HasRoom
          /\ channel' = Append(channel,
                          [from |-> c, poll |-> polls[c], place |-> next[c]])
          /\ cpc' = [cpc EXCEPT ![c] = AfterSend(c)]
          /\ next' = [next EXCEPT ![c] = IF @ < CountPlace THEN @ + 1 ELSE 1]
          /\ UNCHANGED main
  /\ UNCHANGED <<batchUpdate, polls, pollCounter, closed, ctxDone, wg,
                 senderVars>>

\* Mutation: ":=" instead of "=", the increment is of a shadow.
CountShadow ==
  /\ Alive /\ cpc[Runtime] = "count"
  /\ cpc' = [cpc EXCEPT ![Runtime] = "send"]
  /\ UNCHANGED <<batchUpdate, channel, polls, next, pollCounter, mainVars,
                 senderVars>>

Count ==
  /\ Alive /\ cpc[Runtime] = "count"
  /\ pollCounter' = pollCounter + 1
  /\ cpc' = [cpc EXCEPT ![Runtime] = "send"]
  /\ UNCHANGED <<batchUpdate, channel, polls, next, mainVars, senderVars>>

-----------------------------------------------------------------------------
(* Senders.                                                                *)

SenderGoto(s, from, to) ==
  Alive /\ spc[s] = from /\ spc' = [spc EXCEPT ![s] = to]

Report(s) ==
  /\ SenderGoto(s, "select", "drain")
  /\ UNCHANGED <<batchUpdate, channel, mainVars, collectorVars, batch, handed,
                 pollValue>>

SenderDone(s) ==
  /\ ctxDone
  /\ SenderGoto(s, "select", "returned")
  /\ UNCHANGED <<batchUpdate, channel, mainVars, collectorVars, batch, handed,
                 pollValue>>

\* Mutation: a goroutine per metric, so that one may overtake another.
ReceiveAny(s) ==
  /\ SenderGoto(s, "drain", IF batchUpdate THEN "drain" ELSE "call")
  /\ \E i \in DOMAIN channel :
       /\ channel' = RemoveAt(channel, i)
       /\ batch' = [batch EXCEPT ![s] = Append(@, channel[i])]
  /\ UNCHANGED <<batchUpdate, mainVars, collectorVars, handed, pollValue>>

Receive(s) ==
  /\ SenderGoto(s, "drain", IF batchUpdate THEN "drain" ELSE "call")
  /\ channel # <<>>
  /\ channel' = Tail(channel)
  /\ batch' = [batch EXCEPT ![s] = Append(@, Head(channel))]
  /\ UNCHANGED <<batchUpdate, mainVars, collectorVars, handed, pollValue>>

\* Mutation: "break" without the label leaves the select, not the loop.
DrainedKeepsOn(s) ==
  /\ channel = <<>> /\ ~closed
  /\ SenderGoto(s, "drain", "drain")
  /\ UNCHANGED <<batchUpdate, channel, mainVars, collectorVars, batch, handed,
                 pollValue>>

\* The select's default: nothing in the channel now.
Drained(s) ==
  /\ channel = <<>> /\ ~closed
  /\ SenderGoto(s, "drain", IF batch[s] = <<>> THEN "select" ELSE "call")
  /\ UNCHANGED <<batchUpdate, channel, mainVars, collectorVars, batch, handed,
                 pollValue>>

\* Mutation: "return" without sending what was collected so far.
ClosedBatchDropped(s) ==
  /\ channel = <<>> /\ closed
  /\ SenderGoto(s, "drain", "returned")
  /\ batch' = [batch EXCEPT ![s] = <<>>]
  /\ UNCHANGED <<batchUpdate, channel, mainVars, collectorVars, handed,
                 pollValue>>

ChannelClosed(s) ==
  /\ channel = <<>> /\ closed
  /\ SenderGoto(s, "drain", IF batch[s] = <<>> THEN "returned" ELSE "lastcall")
  /\ UNCHANGED <<batchUpdate, channel, mainVars, collectorVars, batch, handed,
                 pollValue>>

\* client.UpdateMetric(s): the client reads the Delta pointers when it encodes
\* the request; its error is dropped.
Call(s) ==
  /\ \/ SenderGoto(s, "call", IF batchUpdate THEN "select" ELSE "drain")
     \/ SenderGoto(s, "lastcall", "returned")
  /\ LET metrics == {batch[s][i] : i \in DOMAIN batch[s]}
         counts  == {m.poll : m \in {n \in metrics : IsPollCount(n)}}
     IN  /\ handed' = handed \cup metrics
         /\ pollValue' = [k \in DOMAIN pollValue |->
                            IF k \in counts THEN pollCounter ELSE pollValue[k]]
  /\ batch' = [batch EXCEPT ![s] = <<>>]
  /\ UNCHANGED <<batchUpdate, channel, mainVars, collectorVars>>

-----------------------------------------------------------------------------
(* main.                                                                   *)

Signal ==
  /\ main = "running"
  /\ main' = "waiting"
  /\ ctxDone' = TRUE
  /\ UNCHANGED <<batchUpdate, channel, closed, wg, collectorVars, senderVars>>

\* wg.Wait looks at the counter only.
WaitGroupDone == wg = 0

Close ==
  /\ main = "waiting"
  /\ WaitGroupDone
  /\ main' = "closed"
  /\ closed' = TRUE
  /\ UNCHANGED <<batchUpdate, channel, ctxDone, wg, collectorVars, senderVars>>

Exit ==
  /\ main = "closed"
  /\ main' = "exited"
  /\ UNCHANGED <<batchUpdate, channel, closed, ctxDone, wg, collectorVars,
                 senderVars>>

CollectorStep(c) ==
  Poll(c) \/ CollectorDone(c) \/ Send(c) \/ (c = Runtime /\ Count)

SenderStep(s) ==
  Report(s) \/ Receive(s) \/ Drained(s) \/ ChannelClosed(s) \/ Call(s)

Next ==
  \/ \E c \in Collector : CollectorStep(c)
  \/ \E s \in Sender : SenderStep(s) \/ SenderDone(s)
  \/ Signal \/ Close \/ Exit

Spec == Init /\ [][Next]_vars

\* Goroutines run and tickers tick.  A cancelled context is always ready in a
\* sender's select and a tick only now and then, so it is taken in the end.
\* Nobody has to send a signal.
Fairness ==
  /\ \A c \in Collector : WF_vars(CollectorStep(c))
  /\ \A s \in Sender : WF_vars(SenderStep(s)) /\ SF_vars(SenderDone(s))
  /\ WF_vars(Close) /\ WF_vars(Exit)

FairSpec == Spec /\ Fairness

-----------------------------------------------------------------------------
(* Properties.                                                             *)

\* No collector ever sends on the closed channel, which would panic: wg.Add,
\* the deferred calls of wg.Done and wg.Wait keep main's close(metricChan)
\* behind the last send, although a send may have started before the signal and
\* waits for room without looking at the context.
NoSendOnClosed == main # "panicked"

\* The counter of the WaitGroup is the number of collectors that have not
\* returned, and it is 0 before the channel is closed.
Running(c) == IF cpc[c] = "returned" THEN 0 ELSE 1

WaitGroupInv ==
  /\ wg = Running(Runtime) + Running(Gopsutil)
  /\ closed => wg = 0

\* Every metric a collector has put into the channel, and no other, is in
\* exactly one place: the channel, the hands of one sender, or given to the
\* client, also when the channel is closed in the middle of a drain.
WasSent(m) ==
  /\ IsPollCount(m) => m.from = Runtime
  /\ \/ m.poll < polls[m.from]
     \/ /\ m.poll = polls[m.from]
        /\ cpc[m.from] \in {"send", "count"} => m.place < next[m.from]

InHands(m) == \E s \in Sender : m \in ToSet(batch[s])

NothingLost ==
  /\ \A m \in Metric :
       WasSent(m) <=> m \in ToSet(channel) \/ InHands(m) \/ m \in handed
  /\ ToSet(channel) \cap handed = {}
  /\ IsInjective(channel)
  /\ \A s \in Sender :
       /\ ToSet(batch[s]) \cap (ToSet(channel) \cup handed) = {}
       /\ IsInjective(batch[s])
       /\ \A t \in Sender \ {s} : ToSet(batch[s]) \cap ToSet(batch[t]) = {}

\* Senders take the metrics of a collector in the order it sent them: what is
\* in the channel is newer than what any sender holds or has handed over, and
\* one sender holds them in order.  Only two senders can overtake each other.
Newer(m, n) ==
  m.from = n.from => \/ m.poll > n.poll
                     \/ m.poll = n.poll /\ m.place > n.place

Ascending(q) == \A j \in DOMAIN q, i \in DOMAIN q : i < j => Newer(q[j], q[i])

TakenInOrder ==
  /\ \A s \in Sender : Ascending(batch[s] \o channel)
  /\ \A m \in ToSet(channel), n \in handed : Newer(m, n)

\* PollCount is never behind the poll that announced it, nor ahead of the
\* counter: the pointer is read late, not torn or early.
PollCountInRange ==
  \A m \in handed :
    IsPollCount(m) => pollValue[m.poll] \in m.poll .. pollCounter

\* Where a collector is tells which metrics of its poll it still has to send,
\* and how its counter stands to the poll: the runtime collector counts a poll
\* between the last gauge and PollCount, the other one never counts.
CollectorInv ==
  /\ \A c \in Collector : cpc[c] \in {"send", "count"} => polls[c] > 0
  /\ cpc[Gopsutil] # "count"
  /\ cpc[Gopsutil] = "send" => next[Gopsutil] < CountPlace
  /\ cpc[Runtime] = "count" => next[Runtime] = CountPlace
  /\ polls[Runtime] =
       IF \/ cpc[Runtime] = "count"
          \/ cpc[Runtime] = "send" /\ next[Runtime] < CountPlace
       THEN pollCounter + 1 ELSE pollCounter

\* The inductive invariant from which AgentProofs derives the safety of the
\* agent: what is claimed of its channel, and CollectorInv.
IInv == /\ TypeOK /\ CollectorInv /\ WaitGroupInv /\ NoSendOnClosed
        /\ NothingLost /\ TakenInOrder /\ PollCountInRange

\* What is in the channel does not stay there: once the collectors pause, the
\* senders empty it and, with NothingLost, everything reaches the client,
\* unless a shutdown begins.
BacklogDrains ==
  channel # <<>> ~> \/ ctxDone
                    \/ channel = <<>> /\ \A s \in Sender : batch[s] = <<>>

\* After a signal the agent exits, unless every sender has left, the channel
\* is full and a collector waits for room in it: that is the only way to hang.
Wedged ==
  /\ \A s \in Sender : spc[s] = "returned"
  /\ Len(channel) = Cap
  /\ \E c \in Collector : cpc[c] = "send"

ExitsOrWedges == ctxDone ~> main = "exited" \/ Wedged

\* cmd/README.md says that main handles the termination signals: after one of
\* them the agent exits.
ShutdownCompletes == ctxDone ~> main = "exited"

\* The pointers of models.Metrics only tell 0 from unset (model/metrics.go):
\* the client reads for each PollCount the count of the poll that sent it.
PollCountAsCollected ==
  \A k \in 1 .. MaxPolls : pollValue[k] \in {0, k}
=============================================================================
