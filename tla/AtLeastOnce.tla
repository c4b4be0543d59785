---------------------------- MODULE AtLeastOnce ----------------------------
(***************************************************************************)
(* What an agent may assume of a call of UpdateMetric or UpdateMetrics.    *)
(* The metrics of a call are applied in order, possibly again and again up *)
(* to limit times, possibly after the call has returned.  A call that      *)
(* returns nil has had all of its metrics applied, and saved in the        *)
(* database if it went through a route that reports a failed save.  A call *)
(* that returns an error promises nothing.                                 *)
(***************************************************************************)
EXTENDS Integers, Sequences

CONSTANTS
  Id,        \* identities of calls
  Bodies     \* the sequences of metrics a call may carry

VARIABLES
  limit,      \* how often a metric may be applied; never changes
  reporting,  \* whether failed saves are reported; never changes
  body,       \* per call: its metrics, or << >> before it begins
  outcome,    \* per call: "none", "nil" or "error"
  applied,    \* per call and place: how often the metric was applied
  saved       \* per call and place: how often its row was inserted

fixedVars == <<limit, reporting>>
vars == <<limit, reporting, body, outcome, applied, saved>>

Init ==
  /\ limit \in Nat /\ reporting \in BOOLEAN
  /\ body = [i \in Id |-> <<>>]
  /\ outcome = [i \in Id |-> "none"]
  /\ applied = [i \in Id |-> <<>>]
  /\ saved = [i \in Id |-> <<>>]

Zeros(b) == [k \in DOMAIN b |-> 0]

Begin(i) ==
  /\ body[i] = <<>>
  /\ \E b \in Bodies :
       /\ body' = [body EXCEPT ![i] = b]
       /\ applied' = [applied EXCEPT ![i] = Zeros(b)]
       /\ saved' = [saved EXCEPT ![i] = Zeros(b)]
  /\ UNCHANGED <<fixedVars, outcome>>

\* Place k is applied once more; the place before it is ahead of it.
Apply(i, k) ==
  /\ k \in DOMAIN body[i]
  /\ applied[i][k] < limit
  /\ k > 1 => applied[i][k - 1] > applied[i][k]
  /\ applied' = [applied EXCEPT ![i][k] = @ + 1]
  /\ \/ saved' = [saved EXCEPT ![i][k] = @ + 1]
     \/ UNCHANGED saved
  /\ UNCHANGED <<fixedVars, body, outcome>>

ReturnNil(i) ==
  /\ body[i] # <<>> /\ outcome[i] = "none"
  /\ \A k \in DOMAIN body[i] :
       applied[i][k] > 0 /\ (reporting => saved[i][k] > 0)
  /\ outcome' = [outcome EXCEPT ![i] = "nil"]
  /\ UNCHANGED <<fixedVars, body, applied, saved>>

ReturnError(i) ==
  /\ body[i] # <<>> /\ outcome[i] = "none"
  /\ outcome' = [outcome EXCEPT ![i] = "error"]
  /\ UNCHANGED <<fixedVars, body, applied, saved>>

Next ==
  \E i \in Id :
    \/ Begin(i) \/ ReturnNil(i) \/ ReturnError(i)
    \/ \E k \in 1 .. Len(body[i]) : Apply(i, k)

Spec == Init /\ [][Next]_vars
=============================================================================
