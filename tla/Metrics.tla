------------------------------ MODULE Metrics ------------------------------
(***************************************************************************)
(* The vocabulary of the store: metric names and values, the two maps and  *)
(* the calls of the Storage interface (internal/service/storage.go).       *)
(***************************************************************************)
EXTENDS Int64

CONSTANTS
  GaugeName,    \* keys used with gauges
  CounterName,  \* keys used with counters
  GaugeValue,   \* float64 values, told apart only by identity
  Delta,        \* increments callers pass
  Absent,       \* what a lookup of a missing key finds
  Restored      \* the contents ReadFromFile may leave in the maps at startup

ASSUME DeltaAssumption == Delta \subseteq Word

GaugeMap   == [GaugeName -> GaugeValue \cup {Absent}]
CounterMap == [CounterName -> Word \cup {Absent}]

\* Go's zero value: "counters[name] += delta" starts a missing key at 0.
ValueOf(entry) == IF entry = Absent THEN 0 ELSE entry

UpdateGaugeCall ==
  [kind : {"UpdateGauge"}, name : GaugeName, value : GaugeValue]
UpdateCounterCall ==
  [kind : {"UpdateCounter"}, name : CounterName, value : Delta]
GetGaugeCall      == [kind : {"GetGauge"}, name : GaugeName]
GetCounterCall    == [kind : {"GetCounter"}, name : CounterName]
MarshalCall       == [kind : {"MarshalJSON"}]

UpdateCall == UpdateGaugeCall \cup UpdateCounterCall
ReadCall   == GetGaugeCall \cup GetCounterCall \cup MarshalCall
Call       == UpdateCall \cup ReadCall

Snapshot == [gauges : GaugeMap, counters : CounterMap]
ASSUME RestoredAssumption == Restored \subseteq Snapshot

Lookup   == [found : GaugeValue \cup Word \cup {Absent}]
Answer   == Lookup \cup Snapshot
=============================================================================
