---------------------------- MODULE AtomicStore ----------------------------
(***************************************************************************)
(* What the Storage interface promises its callers: every call takes       *)
(* effect at one instant between its invocation and its return.  A read    *)
(* answers with the maps of that instant, a snapshot with both maps of the *)
(* same instant.  An update takes effect exactly once, also when the call  *)
(* later reports that the database refused the row.                        *)
(***************************************************************************)
EXTENDS Metrics

CONSTANTS Proc, None

VARIABLES
  gauges,    \* the gauge map
  counters,  \* the counter map
  phase,     \* per caller: "idle", "pending" or "applied"
  call,      \* per caller: the call it is in, or None
  answer     \* per caller: what an applied read will return, or None

vars == <<gauges, counters, phase, call, answer>>

Init ==
  /\ \E s \in Restored : gauges = s.gauges /\ counters = s.counters
  /\ phase = [p \in Proc |-> "idle"]
  /\ call = [p \in Proc |-> None]
  /\ answer = [p \in Proc |-> None]

Invoke(p, c) ==
  /\ phase[p] = "idle"
  /\ phase' = [phase EXCEPT ![p] = "pending"]
  /\ call' = [call EXCEPT ![p] = c]
  /\ UNCHANGED <<gauges, counters, answer>>

TakesEffect(p) ==
  /\ phase[p] = "pending"
  /\ phase' = [phase EXCEPT ![p] = "applied"]
  /\ UNCHANGED call

SetGauge(p) ==
  /\ call[p] \in UpdateGaugeCall
  /\ TakesEffect(p)
  /\ gauges' = [gauges EXCEPT ![call[p].name] = call[p].value]
  /\ UNCHANGED <<counters, answer>>

AddCounter(p) ==
  /\ call[p] \in UpdateCounterCall
  /\ TakesEffect(p)
  /\ counters' = [counters EXCEPT ![call[p].name] =
                    AddWord(ValueOf(@), call[p].value)]
  /\ UNCHANGED <<gauges, answer>>

Read(p) ==
  /\ TakesEffect(p)
  /\ \/ /\ call[p] \in GetGaugeCall
        /\ answer' = [answer EXCEPT ![p] = [found |-> gauges[call[p].name]]]
     \/ /\ call[p] \in GetCounterCall
        /\ answer' = [answer EXCEPT ![p] = [found |-> counters[call[p].name]]]
     \/ /\ call[p] \in MarshalCall
        /\ answer' = [answer EXCEPT ![p] =
                        [gauges |-> gauges, counters |-> counters]]
  /\ UNCHANGED <<gauges, counters>>

Return(p) ==
  /\ phase[p] = "applied"
  /\ phase' = [phase EXCEPT ![p] = "idle"]
  /\ call' = [call EXCEPT ![p] = None]
  /\ answer' = [answer EXCEPT ![p] = None]
  /\ UNCHANGED <<gauges, counters>>

Next ==
  \E p \in Proc :
    \/ \E c \in Call : Invoke(p, c)
    \/ SetGauge(p)
    \/ AddCounter(p)
    \/ Read(p)
    \/ Return(p)

Spec == Init /\ [][Next]_vars
=============================================================================
