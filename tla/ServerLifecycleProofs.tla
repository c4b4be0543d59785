----------------------- MODULE ServerLifecycleProofs -----------------------
(***************************************************************************)
(* Machine-checked proofs about ServerLifecycle, for both protocols, any   *)
(* interval and any number of profile captures.                            *)
(***************************************************************************)
EXTENDS ServerLifecycle, TLAPS

-----------------------------------------------------------------------------
(* The inductive invariant of the group.                                   *)

\* Who is running, by where main is and which transport was asked for.
StartInv ==
  /\ main \in {"db", "restore"} => dumper = "off" /\ server = "off"
  /\ server \in {"off", "prepare"} => shutter = "off"
  /\ main = "wait" => dumper # "off"
  /\ server \in {"prepare", "listen", "serving", "closed"} => flags.protocol = "http"
  /\ server = "register" => flags.protocol = "grpc"

\* Nobody leaves on his own account: what has left has seen the context
\* cancelled, but for the gRPC branch.
LeaveInv ==
  /\ listener = "returned" => CtxDone
  /\ dumper = "final" => CtxDone
  /\ ShuttingDown \/ server = "closed" => CtxDone
  /\ server = "returned" => CtxDone \/ (flags.protocol = "grpc" /\ flags.valid)
  /\ dumper = "returned" /\ flags.interval > 0 => flushed

\* Whose error the errgroup keeps.
ErrorInv ==
  /\ groupErr = "canceled" => signalled
  /\ groupErr \in {"listen", "subnet", "timeout"} => failed
  /\ failed => server = "returned" /\ groupErr # "none"

-----------------------------------------------------------------------------
(* The inductive invariant of the captures.                                *)

\* A capture that writes its profile, or will, or has.
Accepted(c) == capture[c].at \in {"sample", "head", "rest", "ok"}

\* One was under way when the other began.
Overlap(c, d) == c \in during[d] \/ d \in during[c]

AnyCut == \E c \in Capture : capture[c].at = "cut"

\* A heap profile is written at once.
KindInv ==
  \A c \in Capture :
    capture[c].at \in {"start", "sample", "refused", "cut"} => KindOf(c) = "cpu"

\* The runtime works for a CPU profile that has been accepted.
ProfilingInv ==
  profiling # NoCapture =>
    /\ KindOf(profiling) = "cpu"
    /\ capture[profiling].at \in {"sample", "head", "rest", "cut"}

\* Captures under way at the same time overlap.
UnderWayInv ==
  \A k \in Kinds : \A c, d \in UnderWay(k) : c # d => Overlap(c, d)

\* Another capture of that kind has written, or may write, to the same file.
Rival(c) ==
  \E d \in Capture :
    /\ d # c /\ KindOf(d) = KindOf(c)
    /\ Accepted(d) /\ Overlap(c, d)

\* One that waits for StopCPUProfile may have truncated the file.
Waiter(c) ==
  \E d \in Capture :
    d # c /\ KindOf(d) = KindOf(c) /\ capture[d].at = "start" /\ Overlap(c, d)

\* A capture without a rival finds the file empty and its own piece in it.
FileOK(c) ==
  /\ capture[c].at \in {"start", "sample", "head"} =>
       profile[KindOf(c)] = Plain("empty") \/ Rival(c) \/ AnyCut
  /\ capture[c].at = "rest" =>
       profile[KindOf(c)] = [is |-> "part", of |-> c] \/ Rival(c) \/ Waiter(c) \/ AnyCut

FileInv == \A c \in Capture : FileOK(c)

CaptureInv == KindInv /\ ProfilingInv /\ UnderWayInv /\ FileInv /\ ProfilesReadable

IInv ==
  /\ TypeOK /\ StartInv /\ LeaveInv /\ ErrorInv /\ LastFlushMade /\ ExitStatusTells
  /\ CaptureInv

-----------------------------------------------------------------------------
(* The initial states and the frame of a step.                             *)

LEMMA InitIInv == Init => IInv
<1> SUFFICES ASSUME Init PROVE IInv
  OBVIOUS
<1>1. TypeOK
  BY DEF Init, TypeOK, Kinds, Content, Plain
<1>2. StartInv /\ LeaveInv /\ ErrorInv /\ LastFlushMade /\ ExitStatusTells
  BY DEF Init, StartInv, LeaveInv, ErrorInv, LastFlushMade, ExitStatusTells,
         ShuttingDown
<1>3. \A c \in Capture : capture[c].at = "idle"
  BY DEF Init
<1>4. \A k \in Kinds : UnderWay(k) = {}
  BY <1>3 DEF UnderWay
<1>5. KindInv /\ ProfilingInv /\ UnderWayInv /\ FileInv
  BY <1>3, <1>4 DEF KindInv, ProfilingInv, UnderWayInv, FileInv, FileOK, Init
<1>6. ProfilesReadable
  BY DEF Init, ProfilesReadable, Plain
<1> QED
  BY <1>1, <1>2, <1>5, <1>6 DEF IInv, CaptureInv

\* The context is never un-cancelled, the group keeps its first error, and
\* nothing happens to a process that has gone.
LEMMA Cancelled ==
  ASSUME TypeOK, [Next]_vars
  PROVE  /\ UNCHANGED flags
         /\ signalled => signalled'
         /\ groupErr # "none" => groupErr' = groupErr
         /\ CtxDone => CtxDone'
<1> DEFINE Kept == /\ UNCHANGED flags
                   /\ signalled => signalled'
                   /\ groupErr # "none" => groupErr' = groupErr
<1>1. Kept
  <2>1. CASE UNCHANGED vars
    BY <2>1 DEF vars
  <2>2. CASE MainStep \/ Signal
    BY <2>2 DEF MainStep, OpenDB, MigrationError, StartGroup, Exit, Signal, groupVars
  <2>3. CASE Tick \/ TickFlushed \/ DumperDone \/ LastFlush
    BY <2>3 DEF Tick, TickFlushed, DumperDone, LastFlush, Dump, GroupKeeps
  <2>4. CASE ServerStep \/ ListenError
    BY <2>4 DEF ServerStep, RegisterGrpc, Prepare, KeyError, Listen, ServerClosed,
                ServerLeaves, ListenError, ServerReturns, ServerGoes, GroupKeeps,
                groupVars
  <2>5. CASE CallShutdown \/ ShutdownReturns \/ RequestBegins \/ RequestEnds
    BY <2>5 DEF CallShutdown, ShutdownReturns, RequestBegins, RequestEnds,
                ShutterGoes, groupVars
  <2>6. CASE Notify \/ TakeSignal \/ ListenerDone
    BY <2>6 DEF Notify, TakeSignal, ListenerDone, ListenerGoes
  <2>7. ASSUME NEW k \in Kinds, Usr(k)
        PROVE  Kept
    BY <2>7 DEF Usr, groupVars
  <2>8. ASSUME NEW c \in Capture, CaptureStep(c)
        PROVE  Kept
    BY <2>8 DEF CaptureStep, Create, CreateError, StartProfile, CutOff, Elapsed,
                WriteHead, WriteRest, CaptureGoes, groupVars
  <2> HIDE DEF Kept
  <2> QED
    BY <2>1, <2>2, <2>3, <2>4, <2>5, <2>6, <2>7, <2>8 DEF Next
<1> QED
  BY <1>1 DEF CtxDone

\* Captures are the business of CaptureStep and of TakeSignal alone.
GroupStep ==
  \/ MainStep \/ Signal
  \/ Tick \/ TickFlushed \/ DumperDone \/ LastFlush
  \/ ServerStep \/ ListenError \/ CallShutdown \/ ShutdownReturns
  \/ RequestBegins \/ RequestEnds
  \/ Notify \/ ListenerDone
  \/ \E k \in Kinds : Usr(k)

LEMMA GroupFrame ==
  ASSUME GroupStep
  PROVE  UNCHANGED captureVars
<1>1. CASE MainStep \/ Signal
  BY <1>1 DEF MainStep, OpenDB, MigrationError, StartGroup, Exit, Signal
<1>2. CASE Tick \/ TickFlushed \/ DumperDone \/ LastFlush
  BY <1>2 DEF Tick, TickFlushed, DumperDone, LastFlush, Dump
<1>3. CASE ServerStep \/ ListenError
  BY <1>3 DEF ServerStep, RegisterGrpc, Prepare, KeyError, Listen, ServerClosed,
              ServerLeaves, ListenError, ServerReturns, ServerGoes
<1>4. CASE CallShutdown \/ ShutdownReturns \/ RequestBegins \/ RequestEnds
  BY <1>4 DEF CallShutdown, ShutdownReturns, RequestBegins, RequestEnds, ShutterGoes
<1>5. CASE Notify \/ ListenerDone
  BY <1>5 DEF Notify, ListenerDone
<1>6. ASSUME NEW k \in Kinds, Usr(k)
      PROVE  UNCHANGED captureVars
  BY <1>6 DEF Usr
<1> QED
  BY <1>1, <1>2, <1>3, <1>4, <1>5, <1>6 DEF GroupStep

\* The group is the business of the other steps.
LEMMA CaptureFrame ==
  ASSUME TakeSignal \/ \E c \in Capture : CaptureStep(c)
  PROVE  UNCHANGED <<flags, main, exitBy, signalled, groupVars, httpVars>> /\ Running
<1>1. CASE TakeSignal
  BY <1>1 DEF TakeSignal, ListenerGoes, groupVars
<1>2. ASSUME NEW c \in Capture, CaptureStep(c)
      PROVE  UNCHANGED <<flags, main, exitBy, signalled, groupVars, httpVars>> /\ Running
  BY <1>2 DEF CaptureStep, Create, CreateError, StartProfile, CutOff, Elapsed,
              WriteHead, WriteRest, CaptureGoes
<1> QED
  BY <1>1, <1>2

LEMMA StepKinds ==
  ASSUME [Next]_vars
  PROVE  GroupStep \/ TakeSignal \/ (\E c \in Capture : CaptureStep(c)) \/ UNCHANGED vars
  BY DEF Next, GroupStep

-----------------------------------------------------------------------------
(* The steps keep the types.                                               *)

\* A capture goes from one place to another; nothing else moves.
LEMMA CaptureGoesEffect ==
  ASSUME TypeOK, NEW c \in Capture, NEW from, NEW to, CaptureGoes(c, from, to)
  PROVE  /\ capture[c].at = from /\ capture'[c].at = to
         /\ \A d \in Capture : d # c => capture'[d] = capture[d]
         /\ \A d \in Capture : capture'[d].kind = capture[d].kind
         /\ \A d \in Capture : KindOf(d)' = KindOf(d)
  BY DEF CaptureGoes, TypeOK, KindOf

LEMMA GroupTypes ==
  ASSUME TypeOK, StartInv, GroupStep
  PROVE  TypeOK'
<1> USE DEF TypeOK, groupVars, httpVars, captureVars
<1>1. CASE OpenDB \/ MigrationError \/ Exit
  BY <1>1 DEF OpenDB, MigrationError, Exit, ExitBy, Running
<1>10. CASE StartGroup
  BY <1>10 DEF StartGroup
<1>11. CASE Signal
  <2>1. CASE main = "db"
    BY <1>11, <2>1 DEF Signal, ExitBy
  <2>2. CASE main # "db"
    BY <1>11, <2>2 DEF Signal
  <2> QED
    BY <2>1, <2>2
<1>2. CASE Tick \/ TickFlushed \/ DumperDone \/ LastFlush
  BY <1>2 DEF Tick, TickFlushed, DumperDone, LastFlush, Dump, GroupKeeps
<1>3. CASE RegisterGrpc
  BY <1>3 DEF RegisterGrpc, ServerReturns, GroupKeeps
<1>4. CASE ServerLeaves
  BY <1>4 DEF ServerLeaves, ServerReturns, GroupKeeps
<1>5. CASE ListenError
  BY <1>5 DEF ListenError, ServerReturns, GroupKeeps
<1>6. CASE Listen \/ ServerClosed
  BY <1>6 DEF Listen, ServerClosed, ServerGoes
<1>12. CASE Prepare
  BY <1>12 DEF Prepare, ServerGoes, StartInv
<1>13. CASE KeyError
  BY <1>13 DEF KeyError, ExitBy, Running
<1>7. CASE CallShutdown \/ ShutdownReturns \/ RequestBegins \/ RequestEnds
  BY <1>7 DEF CallShutdown, ShutdownReturns, RequestBegins, RequestEnds, ShutterGoes
<1>8. CASE Notify \/ ListenerDone
  BY <1>8 DEF Notify, ListenerDone, ListenerGoes
<1>9. ASSUME NEW k \in Kinds, Usr(k)
      PROVE  TypeOK'
  BY <1>9 DEF Usr, ExitBy, Running
<1> QED
  BY <1>1, <1>2, <1>3, <1>4, <1>5, <1>6, <1>7, <1>8, <1>9, <1>10,
     <1>11, <1>12, <1>13
     DEF GroupStep, MainStep, ServerStep

\* A step of a capture sets its place, the profiler, the file of its kind and
\* what it has seen under way, each within its type.
LEMMA CaptureTypes ==
  ASSUME TypeOK, NEW c \in Capture, CaptureStep(c)
  PROVE  TypeOK'
<1>1. UNCHANGED <<flags, main, exitBy, signalled, groupVars, httpVars, pending>>
  BY DEF CaptureStep, Create, CreateError, StartProfile, CutOff, Elapsed,
         WriteHead, WriteRest, CaptureGoes
<1>2. KindOf(c) \in Kinds
  BY DEF TypeOK, KindOf
<1>3. capture' \in [Capture -> [kind : Kinds,
                                at : {"idle", "create", "start", "sample", "head",
                                      "rest", "ok", "refused", "failed", "cut"}]]
  BY DEF TypeOK, CaptureStep, Create, CreateError, StartProfile, CutOff, Elapsed,
         WriteHead, WriteRest, CaptureGoes, Accepts
<1>4. /\ profiling' \in Capture \cup {NoCapture}
      /\ during' \in [Capture -> SUBSET Capture]
  BY DEF TypeOK, CaptureStep, Create, CreateError, StartProfile, CutOff, Elapsed,
         WriteHead, WriteRest, Accepts, UnderWay
<1>5. profile' \in [Kinds -> Content]
  <2>1. CASE UNCHANGED profile
    BY <2>1 DEF TypeOK
  <2>2. CASE Create(c)
    BY <1>2, <2>2 DEF TypeOK, Create, Content, Plain
  <2>3. CASE WriteHead(c)
    BY <1>2, <2>3 DEF TypeOK, WriteHead, Content
  <2>4. CASE WriteRest(c)
    <3>1. PICK new \in Completed(c, profile[KindOf(c)]) :
            profile' = [profile EXCEPT ![KindOf(c)] = new]
      BY <2>4 DEF WriteRest
    <3>2. profile[KindOf(c)] \in Content
      BY <1>2 DEF TypeOK
    <3>3. profile[KindOf(c)].of \in Capture \cup {NoCapture}
      BY <3>2 DEF Content
    <3>4. new \in Content
      BY <3>1, <3>2, <3>3 DEF Completed, Content, Plain
    <3> QED
      BY <1>2, <3>1, <3>4 DEF TypeOK
  <2> QED
    BY <2>1, <2>2, <2>3, <2>4
       DEF CaptureStep, CreateError, StartProfile, CutOff, Elapsed
<1> QED
  BY <1>1, <1>3, <1>4, <1>5 DEF TypeOK, groupVars, httpVars

LEMMA TakeSignalTypes ==
  ASSUME TypeOK, TakeSignal
  PROVE  /\ TypeOK'
         /\ UNCHANGED <<profiling, profile, during>>
         /\ \E c \in Capture :
              /\ capture[c].at = "idle" /\ capture'[c].at = "create"
              /\ \A d \in Capture : d # c => capture'[d] = capture[d]
<1> DEFINE c == CHOOSE i \in Idle : TRUE
<1>1. c \in Capture /\ capture[c].at = "idle"
  BY DEF TakeSignal, Idle
<1>2. capture' = [capture EXCEPT ![c] = [kind |-> pending, at |-> "create"]]
  BY DEF TakeSignal
<1> HIDE DEF c
<1>3. pending \in Kinds
  BY DEF TakeSignal, TypeOK
<1>4. /\ capture'[c].at = "create"
      /\ \A d \in Capture : d # c => capture'[d] = capture[d]
      /\ capture' \in [Capture -> [kind : Kinds,
                                at : {"idle", "create", "start", "sample", "head",
                                      "rest", "ok", "refused", "failed", "cut"}]]
  BY <1>1, <1>2, <1>3 DEF TypeOK
<1>5. UNCHANGED <<profiling, profile, during>> /\ pending' = "none"
  BY DEF TakeSignal
<1>6. UNCHANGED <<flags, main, exitBy, signalled, groupVars, httpVars>>
  BY CaptureFrame
<1>7. TypeOK'
  BY <1>4, <1>5, <1>6 DEF TypeOK, groupVars, httpVars
<1> QED
  BY <1>1, <1>4, <1>5, <1>7

LEMMA TypeNext ==
  ASSUME TypeOK, StartInv, [Next]_vars
  PROVE  TypeOK'
<1>1. CASE UNCHANGED vars
  BY <1>1 DEF TypeOK, vars
<1> QED
  BY <1>1, GroupTypes, CaptureTypes, TakeSignalTypes, StepKinds

-----------------------------------------------------------------------------
(* The steps keep the invariant of the group.                              *)

LEMMA StartNext ==
  ASSUME TypeOK, StartInv, [Next]_vars
  PROVE  StartInv'
<1>1. UNCHANGED flags /\ (CtxDone => CtxDone')
  BY Cancelled
<1>2. CASE OpenDB \/ MigrationError
  BY <1>1, <1>2 DEF OpenDB, MigrationError, ExitBy, groupVars, httpVars,
                  TypeOK, Flags, StartInv
<1>3. CASE StartGroup
  BY <1>1, <1>3, LifecycleAssumption DEF StartGroup, groupVars, httpVars,
                                       TypeOK, Flags, StartInv
<1>4. CASE Exit
  BY <1>1, <1>4 DEF Exit, ExitBy, Running, GroupReturned, groupVars,
                  httpVars, TypeOK, Flags, StartInv
<1>5. CASE Signal
  BY <1>1, <1>5 DEF Signal, ExitBy, groupVars, httpVars, TypeOK, Flags,
                  StartInv
<1>6. CASE Tick \/ TickFlushed \/ DumperDone
  BY <1>1, <1>6 DEF Tick, TickFlushed, DumperDone, Dump, Running, groupVars,
                  httpVars, TypeOK, Flags, StartInv
<1>7. CASE LastFlush
  BY <1>1, <1>7 DEF LastFlush, Dump, GroupKeeps, Running, groupVars,
                  httpVars, TypeOK, Flags, StartInv
<1>8. CASE RegisterGrpc \/ ServerLeaves \/ ListenError
  BY <1>1, <1>8 DEF RegisterGrpc, ServerLeaves, ListenError, ServerReturns,
                  GroupKeeps, Running, groupVars, httpVars, TypeOK, Flags,
                  StartInv
<1>9. CASE Prepare \/ KeyError \/ Listen \/ ServerClosed
  BY <1>1, <1>9 DEF Prepare, KeyError, Listen, ServerClosed, ServerGoes,
                  ExitBy, Running, groupVars, httpVars, TypeOK, Flags,
                  StartInv
<1>10. CASE CallShutdown \/ ShutdownReturns \/ RequestBegins \/ RequestEnds
  BY <1>1, <1>10 DEF CallShutdown, ShutdownReturns, RequestBegins,
                   RequestEnds, ShutterGoes, Running, groupVars, httpVars,
                   TypeOK, Flags, StartInv
<1>11. CASE Notify \/ ListenerDone
  BY <1>1, <1>11 DEF Notify, ListenerDone, ListenerGoes, Running, groupVars,
                   httpVars, TypeOK, Flags, StartInv
<1>12. ASSUME NEW k \in Kinds, Usr(k)
      PROVE  StartInv'
  BY <1>1, <1>12 DEF Usr, ExitBy, Running, groupVars, httpVars, TypeOK,
                     Flags, StartInv
<1>13. CASE TakeSignal \/ \E c \in Capture : CaptureStep(c)
  BY <1>13, CaptureFrame DEF groupVars, httpVars, TypeOK, Flags, StartInv
<1>14. CASE UNCHANGED vars
  BY <1>14 DEF vars, groupVars, httpVars, TypeOK, Flags, StartInv
<1> QED
  BY <1>2, <1>3, <1>4, <1>5, <1>6, <1>7, <1>8, <1>9, <1>10, <1>11, <1>12,
     <1>13, <1>14, StepKinds
     DEF GroupStep, MainStep, ServerStep

\* Whatever leaves finds the context cancelled, and it stays cancelled.
LEMMA LeaveNext ==
  ASSUME TypeOK, StartInv, LeaveInv, [Next]_vars
  PROVE  LeaveInv'
<1>. flags.interval \in Int
  <2>1. flags.interval \in StoreIntervals
    BY DEF TypeOK, Flags
  <2> QED
    BY <2>1, LifecycleAssumption
<1>1. UNCHANGED flags /\ (CtxDone => CtxDone')
  BY Cancelled
<1>2. CASE OpenDB \/ MigrationError
  BY <1>1, <1>2 DEF OpenDB, MigrationError, ExitBy, groupVars, httpVars,
                  TypeOK, StartInv, LeaveInv, CtxDone, ShuttingDown
<1>3. CASE StartGroup
  BY <1>1, <1>3 DEF StartGroup, groupVars, httpVars, TypeOK, StartInv,
                  LeaveInv, CtxDone, ShuttingDown
<1>4. CASE Exit
  BY <1>1, <1>4 DEF Exit, ExitBy, Running, GroupReturned, groupVars,
                  httpVars, TypeOK, StartInv, LeaveInv, CtxDone,
                  ShuttingDown
<1>5. CASE Signal
  BY <1>1, <1>5 DEF Signal, ExitBy, groupVars, httpVars, TypeOK, StartInv,
                  LeaveInv, CtxDone, ShuttingDown
<1>6. CASE Tick \/ TickFlushed \/ DumperDone
  BY <1>1, <1>6 DEF Tick, TickFlushed, DumperDone, Dump, Running, groupVars,
                  httpVars, TypeOK, StartInv, LeaveInv, CtxDone,
                  ShuttingDown
<1>7. CASE LastFlush
  BY <1>1, <1>7 DEF LastFlush, Dump, GroupKeeps, Running, groupVars,
                  httpVars, TypeOK, StartInv, LeaveInv, CtxDone,
                  ShuttingDown
<1>8. CASE RegisterGrpc \/ ServerLeaves \/ ListenError
  BY <1>1, <1>8 DEF RegisterGrpc, ServerLeaves, ListenError, ServerReturns,
                  GroupKeeps, Running, groupVars, httpVars, TypeOK,
                  StartInv, LeaveInv, CtxDone, ShuttingDown
<1>9. CASE Prepare \/ KeyError \/ Listen \/ ServerClosed
  BY <1>1, <1>9 DEF Prepare, KeyError, Listen, ServerClosed, ServerGoes,
                  ExitBy, Running, groupVars, httpVars, TypeOK, StartInv,
                  LeaveInv, CtxDone, ShuttingDown
<1>10. CASE CallShutdown \/ ShutdownReturns \/ RequestBegins \/ RequestEnds
  BY <1>1, <1>10 DEF CallShutdown, ShutdownReturns, RequestBegins,
                   RequestEnds, ShutterGoes, Running, groupVars, httpVars,
                   TypeOK, StartInv, LeaveInv, CtxDone, ShuttingDown
<1>11. CASE Notify \/ ListenerDone
  BY <1>1, <1>11 DEF Notify, ListenerDone, ListenerGoes, Running, groupVars,
                   httpVars, TypeOK, StartInv, LeaveInv, CtxDone,
                   ShuttingDown
<1>12. ASSUME NEW k \in Kinds, Usr(k)
      PROVE  LeaveInv'
  BY <1>1, <1>12 DEF Usr, ExitBy, Running, groupVars, httpVars, TypeOK,
                     StartInv, LeaveInv, CtxDone, ShuttingDown
<1>13. CASE TakeSignal \/ \E c \in Capture : CaptureStep(c)
  BY <1>13, CaptureFrame DEF groupVars, httpVars, TypeOK, StartInv,
                              LeaveInv, CtxDone, ShuttingDown
<1>14. CASE UNCHANGED vars
  BY <1>14 DEF vars, groupVars, httpVars, TypeOK, StartInv, LeaveInv, CtxDone,
            ShuttingDown
<1> QED
  BY <1>2, <1>3, <1>4, <1>5, <1>6, <1>7, <1>8, <1>9, <1>10, <1>11, <1>12,
     <1>13, <1>14, StepKinds
     DEF GroupStep, MainStep, ServerStep

\* The dumper's error is the context's, and only a signal cancels that
\* before an error of the transport is kept.
LEMMA ErrorNext ==
  ASSUME TypeOK, StartInv, LeaveInv, ErrorInv, [Next]_vars
  PROVE  ErrorInv'
<1>1. UNCHANGED flags /\ (CtxDone => CtxDone')
  BY Cancelled
<1>2. CASE OpenDB \/ MigrationError
  BY <1>1, <1>2 DEF OpenDB, MigrationError, ExitBy, groupVars, httpVars,
                  TypeOK, StartInv, LeaveInv, ErrorInv, CtxDone
<1>3. CASE StartGroup
  BY <1>1, <1>3 DEF StartGroup, groupVars, httpVars, TypeOK, StartInv,
                  LeaveInv, ErrorInv, CtxDone
<1>4. CASE Exit
  BY <1>1, <1>4 DEF Exit, ExitBy, Running, GroupReturned, groupVars,
                  httpVars, TypeOK, StartInv, LeaveInv, ErrorInv, CtxDone
<1>5. CASE Signal
  BY <1>1, <1>5 DEF Signal, ExitBy, groupVars, httpVars, TypeOK, StartInv,
                  LeaveInv, ErrorInv, CtxDone
<1>6. CASE Tick \/ TickFlushed \/ DumperDone
  BY <1>1, <1>6 DEF Tick, TickFlushed, DumperDone, Dump, Running, groupVars,
                  httpVars, TypeOK, StartInv, LeaveInv, ErrorInv, CtxDone
<1>7. CASE LastFlush
  BY <1>1, <1>7 DEF LastFlush, Dump, GroupKeeps, Running, groupVars,
                  httpVars, TypeOK, StartInv, LeaveInv, ErrorInv, CtxDone
<1>8. CASE RegisterGrpc \/ ServerLeaves \/ ListenError
  BY <1>1, <1>8 DEF RegisterGrpc, ServerLeaves, ListenError, ServerReturns,
                  GroupKeeps, Running, groupVars, httpVars, TypeOK,
                  StartInv, LeaveInv, ErrorInv, CtxDone
<1>9. CASE Prepare \/ KeyError \/ Listen \/ ServerClosed
  BY <1>1, <1>9 DEF Prepare, KeyError, Listen, ServerClosed, ServerGoes,
                  ExitBy, Running, groupVars, httpVars, TypeOK, StartInv,
                  LeaveInv, ErrorInv, CtxDone
<1>10. CASE CallShutdown \/ ShutdownReturns \/ RequestBegins \/ RequestEnds
  BY <1>1, <1>10 DEF CallShutdown, ShutdownReturns, RequestBegins,
                   RequestEnds, ShutterGoes, Running, groupVars, httpVars,
                   TypeOK, StartInv, LeaveInv, ErrorInv, CtxDone
<1>11. CASE Notify \/ ListenerDone
  BY <1>1, <1>11 DEF Notify, ListenerDone, ListenerGoes, Running, groupVars,
                   httpVars, TypeOK, StartInv, LeaveInv, ErrorInv, CtxDone
<1>12. ASSUME NEW k \in Kinds, Usr(k)
      PROVE  ErrorInv'
  BY <1>1, <1>12 DEF Usr, ExitBy, Running, groupVars, httpVars, TypeOK,
                     StartInv, LeaveInv, ErrorInv, CtxDone
<1>13. CASE TakeSignal \/ \E c \in Capture : CaptureStep(c)
  BY <1>13, CaptureFrame DEF groupVars, httpVars, TypeOK, StartInv,
                              LeaveInv, ErrorInv, CtxDone
<1>14. CASE UNCHANGED vars
  BY <1>14 DEF vars, groupVars, httpVars, TypeOK, StartInv, LeaveInv,
            ErrorInv, CtxDone
<1> QED
  BY <1>2, <1>3, <1>4, <1>5, <1>6, <1>7, <1>8, <1>9, <1>10, <1>11, <1>12,
     <1>13, <1>14, StepKinds
     DEF GroupStep, MainStep, ServerStep

\* g.Wait returns after the dumper, which returns after its last flush.
LEMMA LastFlushNext ==
  ASSUME TypeOK, StartInv, LeaveInv, LastFlushMade, [Next]_vars
  PROVE  LastFlushMade'
<1>1. UNCHANGED flags /\ (CtxDone => CtxDone')
  BY Cancelled
<1>2. CASE OpenDB \/ MigrationError
  BY <1>1, <1>2 DEF OpenDB, MigrationError, ExitBy, groupVars, httpVars,
                  TypeOK, StartInv, LeaveInv, LastFlushMade, CtxDone
<1>3. CASE StartGroup
  BY <1>1, <1>3 DEF StartGroup, groupVars, httpVars, TypeOK, StartInv,
                  LeaveInv, LastFlushMade, CtxDone
<1>4. CASE Exit
  BY <1>1, <1>4 DEF Exit, ExitBy, Running, GroupReturned, groupVars,
                  httpVars, TypeOK, StartInv, LeaveInv, LastFlushMade,
                  CtxDone
<1>5. CASE Signal
  BY <1>1, <1>5 DEF Signal, ExitBy, groupVars, httpVars, TypeOK, StartInv,
                  LeaveInv, LastFlushMade, CtxDone
<1>6. CASE Tick \/ TickFlushed \/ DumperDone
  BY <1>1, <1>6 DEF Tick, TickFlushed, DumperDone, Dump, Running, groupVars,
                  httpVars, TypeOK, StartInv, LeaveInv, LastFlushMade,
                  CtxDone
<1>7. CASE LastFlush
  BY <1>1, <1>7 DEF LastFlush, Dump, GroupKeeps, Running, groupVars,
                  httpVars, TypeOK, StartInv, LeaveInv, LastFlushMade,
                  CtxDone
<1>8. CASE RegisterGrpc \/ ServerLeaves \/ ListenError
  BY <1>1, <1>8 DEF RegisterGrpc, ServerLeaves, ListenError, ServerReturns,
                  GroupKeeps, Running, groupVars, httpVars, TypeOK,
                  StartInv, LeaveInv, LastFlushMade, CtxDone
<1>9. CASE Prepare \/ KeyError \/ Listen \/ ServerClosed
  BY <1>1, <1>9 DEF Prepare, KeyError, Listen, ServerClosed, ServerGoes,
                  ExitBy, Running, groupVars, httpVars, TypeOK, StartInv,
                  LeaveInv, LastFlushMade, CtxDone
<1>10. CASE CallShutdown \/ ShutdownReturns \/ RequestBegins \/ RequestEnds
  BY <1>1, <1>10 DEF CallShutdown, ShutdownReturns, RequestBegins,
                   RequestEnds, ShutterGoes, Running, groupVars, httpVars,
                   TypeOK, StartInv, LeaveInv, LastFlushMade, CtxDone
<1>11. CASE Notify \/ ListenerDone
  BY <1>1, <1>11 DEF Notify, ListenerDone, ListenerGoes, Running, groupVars,
                   httpVars, TypeOK, StartInv, LeaveInv, LastFlushMade,
                   CtxDone
<1>12. ASSUME NEW k \in Kinds, Usr(k)
      PROVE  LastFlushMade'
  BY <1>1, <1>12 DEF Usr, ExitBy, Running, groupVars, httpVars, TypeOK,
                     StartInv, LeaveInv, LastFlushMade, CtxDone
<1>13. CASE TakeSignal \/ \E c \in Capture : CaptureStep(c)
  BY <1>13, CaptureFrame DEF groupVars, httpVars, TypeOK, StartInv,
                              LeaveInv, LastFlushMade, CtxDone
<1>14. CASE UNCHANGED vars
  BY <1>14 DEF vars, groupVars, httpVars, TypeOK, StartInv, LeaveInv,
            LastFlushMade, CtxDone
<1> QED
  BY <1>2, <1>3, <1>4, <1>5, <1>6, <1>7, <1>8, <1>9, <1>10, <1>11, <1>12,
     <1>13, <1>14, StepKinds
     DEF GroupStep, MainStep, ServerStep

LEMMA ExitNext ==
  ASSUME TypeOK, LeaveInv, ErrorInv, ExitStatusTells, [Next]_vars
  PROVE  ExitStatusTells'
<1>1. UNCHANGED flags /\ (CtxDone => CtxDone')
  BY Cancelled
<1>2. CASE OpenDB \/ MigrationError
  BY <1>1, <1>2 DEF OpenDB, MigrationError, ExitBy, groupVars, httpVars,
                  TypeOK, LeaveInv, ErrorInv, ExitStatusTells, CtxDone
<1>3. CASE StartGroup
  BY <1>1, <1>3 DEF StartGroup, groupVars, httpVars, TypeOK, LeaveInv,
                  ErrorInv, ExitStatusTells, CtxDone
<1>4. CASE Exit
  BY <1>1, <1>4 DEF Exit, ExitBy, Running, GroupReturned, groupVars,
                  httpVars, TypeOK, LeaveInv, ErrorInv, ExitStatusTells,
                  CtxDone
<1>5. CASE Signal
  BY <1>1, <1>5 DEF Signal, ExitBy, groupVars, httpVars, TypeOK, LeaveInv,
                  ErrorInv, ExitStatusTells, CtxDone
<1>6. CASE Tick \/ TickFlushed \/ DumperDone
  BY <1>1, <1>6 DEF Tick, TickFlushed, DumperDone, Dump, Running, groupVars,
                  httpVars, TypeOK, LeaveInv, ErrorInv, ExitStatusTells,
                  CtxDone
<1>7. CASE LastFlush
  BY <1>1, <1>7 DEF LastFlush, Dump, GroupKeeps, Running, groupVars,
                  httpVars, TypeOK, LeaveInv, ErrorInv, ExitStatusTells,
                  CtxDone
<1>8. CASE RegisterGrpc \/ ServerLeaves \/ ListenError
  BY <1>1, <1>8 DEF RegisterGrpc, ServerLeaves, ListenError, ServerReturns,
                  GroupKeeps, Running, groupVars, httpVars, TypeOK,
                  LeaveInv, ErrorInv, ExitStatusTells, CtxDone
<1>9. CASE Prepare \/ KeyError \/ Listen \/ ServerClosed
  BY <1>1, <1>9 DEF Prepare, KeyError, Listen, ServerClosed, ServerGoes,
                  ExitBy, Running, groupVars, httpVars, TypeOK, LeaveInv,
                  ErrorInv, ExitStatusTells, CtxDone
<1>10. CASE CallShutdown \/ ShutdownReturns \/ RequestBegins \/ RequestEnds
  BY <1>1, <1>10 DEF CallShutdown, ShutdownReturns, RequestBegins,
                   RequestEnds, ShutterGoes, Running, groupVars, httpVars,
                   TypeOK, LeaveInv, ErrorInv, ExitStatusTells, CtxDone
<1>11. CASE Notify \/ ListenerDone
  BY <1>1, <1>11 DEF Notify, ListenerDone, ListenerGoes, Running, groupVars,
                   httpVars, TypeOK, LeaveInv, ErrorInv, ExitStatusTells,
                   CtxDone
<1>12. ASSUME NEW k \in Kinds, Usr(k)
      PROVE  ExitStatusTells'
  BY <1>1, <1>12 DEF Usr, ExitBy, Running, groupVars, httpVars, TypeOK,
                     LeaveInv, ErrorInv, ExitStatusTells, CtxDone
<1>13. CASE TakeSignal \/ \E c \in Capture : CaptureStep(c)
  BY <1>13, CaptureFrame DEF groupVars, httpVars, TypeOK, LeaveInv,
                              ErrorInv, ExitStatusTells, CtxDone
<1>14. CASE UNCHANGED vars
  BY <1>14 DEF vars, groupVars, httpVars, TypeOK, LeaveInv, ErrorInv,
            ExitStatusTells, CtxDone
<1> QED
  BY <1>2, <1>3, <1>4, <1>5, <1>6, <1>7, <1>8, <1>9, <1>10, <1>11, <1>12,
     <1>13, <1>14, StepKinds
     DEF GroupStep, MainStep, ServerStep

-----------------------------------------------------------------------------
(* The steps keep the invariant of the captures: a step that leaves the    *)
(* captures at work alone.                                                 *)

LEMMA SameBusy ==
  ASSUME TypeOK, CaptureInv,
         UNCHANGED <<profiling, profile, during>>,
         \A c \in Capture :
           \/ capture'[c] = capture[c]
           \/ {capture[c].at, capture'[c].at} \subseteq {"idle", "create", "failed"}
  PROVE  CaptureInv'
<1>1. \A c \in Capture :
        capture[c].at \notin {"idle", "create", "failed"}
          \/ capture'[c].at \notin {"idle", "create", "failed"} =>
            capture'[c] = capture[c] /\ KindOf(c)' = KindOf(c)
  BY DEF KindOf
<1>2. \A k \in Kinds : UnderWay(k)' = UnderWay(k)
  BY <1>1 DEF UnderWay
<1>3. AnyCut' = AnyCut
  BY <1>1 DEF AnyCut
<1>4. \A c, d \in Capture : Overlap(c, d)' = Overlap(c, d)
  BY DEF Overlap
<1>5. \A c \in Capture : Accepted(c)' = Accepted(c)
  BY <1>1 DEF Accepted
<1>6. \A c \in Capture : capture[c].at \notin {"idle", "create", "failed"} =>
        Rival(c)' = Rival(c) /\ Waiter(c)' = Waiter(c)
  <2> SUFFICES ASSUME NEW c \in Capture,
                      capture[c].at \notin {"idle", "create", "failed"}
               PROVE  Rival(c)' = Rival(c) /\ Waiter(c)' = Waiter(c)
    OBVIOUS
  <2>1. KindOf(c)' = KindOf(c)
    BY <1>1
  <2>2. \A d \in Capture : Accepted(d) => KindOf(d)' = KindOf(d)
    BY <1>1 DEF Accepted
  <2>3. Rival(c)' = Rival(c)
    BY <1>4, <1>5, <2>1, <2>2 DEF Rival
  <2>4. \A d \in Capture :
          /\ (capture'[d].at = "start") <=> (capture[d].at = "start")
          /\ capture[d].at = "start" => KindOf(d)' = KindOf(d)
    BY <1>1
  <2>5. Waiter(c)' = Waiter(c)
    BY <1>4, <2>1, <2>4 DEF Waiter
  <2> QED
    BY <2>3, <2>5
<1>7. KindInv'
  BY <1>1 DEF CaptureInv, KindInv
<1>8. ProfilingInv'
  BY <1>1 DEF CaptureInv, ProfilingInv, TypeOK
<1>9. UnderWayInv'
  BY <1>2, <1>4 DEF CaptureInv, UnderWayInv, UnderWay
<1>10. FileInv'
  <2> SUFFICES ASSUME NEW c \in Capture PROVE FileOK(c)'
    BY DEF FileInv
  <2>1. CASE capture'[c].at \in {"start", "sample", "head", "rest"}
    <3>1. capture'[c] = capture[c] /\ KindOf(c)' = KindOf(c)
      BY <1>1, <2>1
    <3>2. Rival(c)' = Rival(c) /\ Waiter(c)' = Waiter(c)
      BY <1>6, <2>1, <3>1
    <3> QED
      BY <1>3, <3>1, <3>2 DEF CaptureInv, FileInv, FileOK, Plain
  <2> QED
    BY <2>1 DEF FileOK
<1>11. ProfilesReadable'
  <2>1. \A c, d \in Capture : Clash(c, d) => Clash(c, d)' /\ KindOf(c)' = KindOf(c)
    BY <1>1 DEF Clash
  <2> QED
    BY <1>2, <1>3, <2>1 DEF CaptureInv, ProfilesReadable, AnyCut
<1> QED
  BY <1>7, <1>8, <1>9, <1>10, <1>11 DEF CaptureInv

-----------------------------------------------------------------------------
(* A step of a capture.                                                    *)

\* What is so of the others, whoever moves.  A capture that has been cut off
\* stays so, and a clash is for ever.
LEMMA Moved ==
  ASSUME TypeOK, NEW c \in Capture, NEW from, NEW to, CaptureGoes(c, from, to),
         from \notin {"cut", "ok"}
  PROVE  /\ AnyCut => AnyCut'
         /\ \A d \in Capture : d # c => Accepted(d)' = Accepted(d)
         /\ \A k \in Kinds : KindOf(c) # k => UnderWay(k)' = UnderWay(k)
         /\ \A k \in Kinds : \A d \in Capture :
              d # c => (d \in UnderWay(k)' <=> d \in UnderWay(k))
         /\ UNCHANGED during =>
              /\ \A d, e \in Capture : Overlap(d, e)' = Overlap(d, e)
              /\ \A d, e \in Capture : Clash(d, e) => Clash(d, e)'
<1>1. /\ capture[c].at = from /\ capture'[c].at = to
      /\ \A d \in Capture : d # c => capture'[d] = capture[d]
      /\ \A d \in Capture : KindOf(d)' = KindOf(d)
      /\ \A d \in Capture : capture'[d].kind = capture[d].kind
  BY CaptureGoesEffect
<1>2. AnyCut => AnyCut'
  BY <1>1 DEF AnyCut
<1>3. \A d \in Capture : d # c => Accepted(d)' = Accepted(d)
  BY <1>1 DEF Accepted
<1>4. \A k \in Kinds : KindOf(c) # k => UnderWay(k)' = UnderWay(k)
  BY <1>1 DEF UnderWay, KindOf
<1>5. \A k \in Kinds : \A d \in Capture :
        d # c => (d \in UnderWay(k)' <=> d \in UnderWay(k))
  BY <1>1 DEF UnderWay
<1>6. UNCHANGED during => \A d, e \in Capture : Overlap(d, e)' = Overlap(d, e)
  BY DEF Overlap
<1>7. UNCHANGED during => \A d, e \in Capture : Clash(d, e) => Clash(d, e)'
  BY <1>1 DEF Clash
<1> QED
  BY <1>2, <1>3, <1>4, <1>5, <1>6, <1>7

\* A capture whose place among those under way, and in its file, stays what
\* it was: the timer fires.
LEMMA ElapsedKeeps ==
  ASSUME TypeOK, CaptureInv, NEW c \in Capture, Elapsed(c)
  PROVE  CaptureInv'
<1>1. /\ capture[c].at = "sample" /\ capture'[c].at = "head"
      /\ \A d \in Capture : d # c => capture'[d] = capture[d]
      /\ \A d \in Capture : capture'[d].kind = capture[d].kind
      /\ \A d \in Capture : KindOf(d)' = KindOf(d)
  BY CaptureGoesEffect DEF Elapsed
<1>2. UNCHANGED <<profiling, profile, during>>
  BY DEF Elapsed
<1>3. /\ AnyCut => AnyCut'
      /\ \A d, e \in Capture : Overlap(d, e)' = Overlap(d, e)
      /\ \A d, e \in Capture : Clash(d, e) => Clash(d, e)'
  BY <1>2, Moved DEF Elapsed
<1>4. \A d \in Capture : Accepted(d)' = Accepted(d)
  BY <1>1 DEF Accepted
<1>5. \A k \in Kinds : UnderWay(k)' = UnderWay(k)
  BY <1>1 DEF UnderWay
<1>6. KindInv' /\ ProfilingInv'
  BY <1>1, <1>2 DEF CaptureInv, KindInv, ProfilingInv, TypeOK
<1>7. UnderWayInv'
  BY <1>3, <1>5 DEF CaptureInv, UnderWayInv, UnderWay
<1>8. FileInv'
  <2> SUFFICES ASSUME NEW d \in Capture PROVE FileOK(d)'
    BY DEF FileInv
  <2>1. Rival(d) => Rival(d)'
    BY <1>1, <1>3, <1>4 DEF Rival
  <2>2. Waiter(d) => Waiter(d)'
    BY <1>1, <1>3 DEF Waiter
  <2>3. FileOK(d)
    BY DEF CaptureInv, FileInv
  <2> QED
    BY <1>1, <1>2, <1>3, <2>1, <2>2, <2>3 DEF FileOK, Plain
<1>9. ProfilesReadable'
  BY <1>1, <1>2, <1>3, <1>5 DEF CaptureInv, ProfilesReadable, AnyCut
<1> QED
  BY <1>6, <1>7, <1>8, <1>9 DEF CaptureInv

\* A capture that is cut off excuses whatever is in its file.
LEMMA CutOffKeeps ==
  ASSUME TypeOK, CaptureInv, NEW c \in Capture, CutOff(c)
  PROVE  CaptureInv'
<1>1. /\ capture[c].at = "sample" /\ capture'[c].at = "cut"
      /\ \A d \in Capture : d # c => capture'[d] = capture[d]
      /\ \A d \in Capture : KindOf(d)' = KindOf(d)
  BY CaptureGoesEffect DEF CutOff
<1>2. UNCHANGED <<profiling, profile, during>>
  BY DEF CutOff
<1>3. AnyCut'
  BY <1>1 DEF AnyCut
<1>4. KindInv' /\ ProfilingInv'
  BY <1>1, <1>2 DEF CaptureInv, KindInv, ProfilingInv, TypeOK
<1>5. \A k \in Kinds : UnderWay(k)' \subseteq UnderWay(k)
  BY <1>1 DEF UnderWay, KindOf
<1>6. \A d, e \in Capture : Overlap(d, e)' = Overlap(d, e)
  BY <1>2 DEF Overlap
<1>7. UnderWayInv'
  BY <1>5, <1>6 DEF CaptureInv, UnderWayInv, UnderWay
<1>8. FileInv' /\ ProfilesReadable'
  BY <1>1, <1>3 DEF FileInv, FileOK, ProfilesReadable, AnyCut
<1> QED
  BY <1>4, <1>7, <1>8 DEF CaptureInv

\* A capture that begins truncates the file: those that have not written yet
\* find it empty, and to those in the middle of it the new one is a waiter or
\* a rival.
LEMMA CreateKeeps ==
  ASSUME TypeOK, CaptureInv, NEW c \in Capture, Create(c)
  PROVE  CaptureInv'
<1> DEFINE to == IF KindOf(c) = "cpu" THEN "start" ELSE "head"
<1>1. /\ capture[c].at = "create" /\ capture'[c].at = to
      /\ \A d \in Capture : d # c => capture'[d] = capture[d]
      /\ \A d \in Capture : capture'[d].kind = capture[d].kind
      /\ \A d \in Capture : KindOf(d)' = KindOf(d)
  BY CaptureGoesEffect DEF Create
<1>2. KindOf(c) \in Kinds
  BY DEF KindOf, TypeOK
<1>3. /\ UNCHANGED profiling
      /\ profile'[KindOf(c)] = Plain("empty")
      /\ \A k \in Kinds : k # KindOf(c) => profile'[k] = profile[k]
      /\ during'[c] = UnderWay(KindOf(c))
      /\ \A d \in Capture : d # c => during'[d] = during[d]
  BY <1>2 DEF Create, TypeOK
<1>4. AnyCut => AnyCut'
  BY <1>1 DEF AnyCut
<1>5. /\ \A d \in Capture : d # c => Accepted(d)' = Accepted(d)
      /\ ~Accepted(c)
  BY <1>1 DEF Accepted
<1>6. \A d, e \in Capture : d # c /\ e # c => Overlap(d, e)' = Overlap(d, e)
  BY <1>3 DEF Overlap
<1>7. \A k \in Kinds :
        /\ k # KindOf(c) => UnderWay(k)' = UnderWay(k)
        /\ \A d \in Capture : d # c => (d \in UnderWay(k)' <=> d \in UnderWay(k))
        /\ c \in UnderWay(k)' <=> k = KindOf(c)
  BY <1>1 DEF UnderWay, KindOf
<1>8. \A d \in UnderWay(KindOf(c)) : d # c /\ Overlap(c, d)' /\ Overlap(d, c)'
  BY <1>1, <1>3 DEF Overlap, UnderWay
<1>9. KindInv'
  BY <1>1 DEF CaptureInv, KindInv
<1>10. ProfilingInv'
  BY <1>1, <1>3 DEF CaptureInv, ProfilingInv, TypeOK
<1>11. UnderWayInv'
  <2> SUFFICES ASSUME NEW k \in Kinds, NEW d \in UnderWay(k)', NEW e \in UnderWay(k)',
                      d # e
               PROVE  Overlap(d, e)'
    BY DEF UnderWayInv
  <2>1. d \in Capture /\ e \in Capture
    BY DEF UnderWay
  <2>2. CASE d # c /\ e # c
    BY <1>6, <1>7, <2>1, <2>2 DEF CaptureInv, UnderWayInv
  <2>3. CASE d = c \/ e = c
    BY <1>7, <1>8, <2>1, <2>3
  <2> QED
    BY <2>2, <2>3
<1>12. FileInv'
  <2> SUFFICES ASSUME NEW d \in Capture PROVE FileOK(d)'
    BY DEF FileInv
  <2>1. CASE d = c
    BY <1>1, <1>3, <2>1 DEF FileOK, Plain
  <2>2. CASE d # c
    <3>1. Rival(d) => Rival(d)'
      BY <1>1, <1>5, <1>6, <2>2 DEF Rival
    <3>2. Waiter(d) => Waiter(d)'
      BY <1>1, <1>6, <2>2 DEF Waiter
    <3>3. FileOK(d)
      BY DEF CaptureInv, FileInv
    <3>4. CASE KindOf(d) # KindOf(c)
      <4>1. KindOf(d) \in Kinds
        BY DEF KindOf, TypeOK
      <4>2. profile'[KindOf(d)] = profile[KindOf(d)]
        BY <1>3, <3>4, <4>1
      <4> QED
        BY <1>1, <1>4, <2>2, <3>1, <3>2, <3>3, <4>2 DEF FileOK, Plain
    <3>5. CASE KindOf(d) = KindOf(c) /\ capture[d].at # "rest"
      BY <1>1, <1>3, <2>2, <3>5 DEF FileOK, Plain
    <3>6. CASE KindOf(d) = KindOf(c) /\ capture[d].at = "rest"
      <4>1. d \in UnderWay(KindOf(c))
        BY <3>6 DEF UnderWay, KindOf
      <4>2. Overlap(d, c)'
        BY <1>8, <4>1
      <4>3. CASE KindOf(c) = "cpu"
        <5>1. Waiter(d)'
          BY <1>1, <2>2, <3>6, <4>2, <4>3 DEF Waiter
        <5> QED
          BY <1>1, <2>2, <3>6, <5>1 DEF FileOK
      <4>4. CASE KindOf(c) # "cpu"
        <5>1. Accepted(c)'
          BY <1>1, <4>4 DEF Accepted
        <5>2. Rival(d)'
          BY <1>1, <2>2, <3>6, <4>2, <5>1 DEF Rival
        <5> QED
          BY <1>1, <2>2, <3>6, <5>2 DEF FileOK
      <4> QED
        BY <4>3, <4>4
    <3> QED
      BY <3>4, <3>5, <3>6
  <2> QED
    BY <2>1, <2>2
<1>13. ProfilesReadable'
  <2> SUFFICES ASSUME NEW k \in Kinds
               PROVE  \/ AnyCut'
                      \/ \E d, e \in Capture : KindOf(d)' = k /\ Clash(d, e)'
                      \/ UnderWay(k)' # {}
                      \/ profile'[k].is \in {"missing", "whole"}
    BY DEF ProfilesReadable, AnyCut
  <2>1. CASE k = KindOf(c)
    BY <1>7, <2>1
  <2>2. CASE k # KindOf(c)
    <3>1. \A d, e \in Capture : Clash(d, e) => Clash(d, e)'
      BY <1>1, <1>3 DEF Clash
    <3> QED
      BY <1>1, <1>3, <1>4, <1>7, <2>2, <3>1 DEF CaptureInv, ProfilesReadable, AnyCut
  <2> QED
    BY <2>1, <2>2
<1> QED
  BY <1>9, <1>10, <1>11, <1>12, <1>13 DEF CaptureInv

\* Nobody is writing a CPU profile when another capture asks for one.  If it
\* is refused, the one it lost to is still under way, or was cut off.
LEMMA StartProfileKeeps ==
  ASSUME TypeOK, CaptureInv, NEW c \in Capture, StartProfile(c)
  PROVE  CaptureInv'
<1> DEFINE to == IF Accepts(c) THEN "sample" ELSE "refused"
<1>1. /\ capture[c].at = "start" /\ capture'[c].at = to
      /\ \A d \in Capture : d # c => capture'[d] = capture[d]
      /\ \A d \in Capture : capture'[d].kind = capture[d].kind
      /\ \A d \in Capture : KindOf(d)' = KindOf(d)
  BY CaptureGoesEffect DEF StartProfile
<1>2. /\ UNCHANGED <<profile, during>>
      /\ profiling' = IF Accepts(c) THEN c ELSE profiling
      /\ \A d \in Capture : ~Stopping(d)
  BY DEF StartProfile
<1>3. KindOf(c) = "cpu"
  BY <1>1 DEF CaptureInv, KindInv
<1>4. /\ AnyCut => AnyCut'
      /\ \A k \in Kinds : k # "cpu" => UnderWay(k)' = UnderWay(k)
      /\ \A k \in Kinds : \A d \in Capture :
           d # c => (d \in UnderWay(k)' <=> d \in UnderWay(k))
      /\ \A d, e \in Capture : Overlap(d, e)' = Overlap(d, e)
      /\ \A d, e \in Capture : Clash(d, e) => Clash(d, e)'
  <2>1. CaptureGoes(c, "start", to)
    BY DEF StartProfile
  <2> QED
    BY <1>2, <1>3, <2>1, Moved
<1>5. \A d \in Capture : Accepted(d) => Accepted(d)'
  BY <1>1 DEF Accepted
<1>6. KindInv'
  BY <1>1, <1>3 DEF CaptureInv, KindInv
<1>7. ProfilingInv'
  BY <1>1, <1>2, <1>3 DEF CaptureInv, ProfilingInv, TypeOK, Accepts
<1>8. \A k \in Kinds : UnderWay(k)' \subseteq UnderWay(k)
  BY <1>1 DEF UnderWay, KindOf
<1>9. UnderWayInv'
  BY <1>4, <1>8 DEF CaptureInv, UnderWayInv, UnderWay
<1>10. FileInv'
  <2> SUFFICES ASSUME NEW d \in Capture PROVE FileOK(d)'
    BY DEF FileInv
  <2>1. Rival(d) => Rival(d)'
    BY <1>1, <1>4, <1>5 DEF Rival
  <2>2. FileOK(d) /\ FileOK(c)
    BY DEF CaptureInv, FileInv
  <2>3. CASE capture[d].at = "rest"
    <3>1. KindOf(d) # "cpu"
      BY <1>2, <2>3 DEF Stopping
    <3>2. ~Waiter(d)
      BY <3>1 DEF Waiter, CaptureInv, KindInv
    <3> QED
      BY <1>1, <1>2, <1>4, <2>1, <2>2, <2>3, <3>2 DEF FileOK, Plain
  <2>4. CASE capture[d].at # "rest"
    BY <1>1, <1>2, <1>4, <2>1, <2>2, <2>4 DEF FileOK, Plain
  <2> QED
    BY <2>3, <2>4
<1>11. ProfilesReadable'
  <2> SUFFICES ASSUME NEW k \in Kinds
               PROVE  \/ AnyCut'
                      \/ \E d, e \in Capture : KindOf(d)' = k /\ Clash(d, e)'
                      \/ UnderWay(k)' # {}
                      \/ profile'[k].is \in {"missing", "whole"}
    BY DEF ProfilesReadable, AnyCut
  <2>1. CASE k # "cpu"
    BY <1>1, <1>2, <1>4, <2>1 DEF CaptureInv, ProfilesReadable, AnyCut
  <2>2. CASE k = "cpu" /\ Accepts(c)
    <3>1. c \in UnderWay(k)'
      BY <1>1, <1>3, <2>2 DEF UnderWay, KindOf
    <3> QED
      BY <3>1
  <2>3. CASE k = "cpu" /\ ~Accepts(c)
    <3>1. /\ profiling \in Capture /\ profiling # c
          /\ KindOf(profiling) = "cpu"
          /\ capture[profiling].at \in {"sample", "head", "rest", "cut"}
      BY <1>1, <2>3 DEF CaptureInv, ProfilingInv, Accepts, TypeOK
    <3>2. CASE capture[profiling].at = "cut"
      BY <1>1, <3>1, <3>2 DEF AnyCut
    <3>3. CASE capture[profiling].at # "cut"
      <4>1. profiling \in UnderWay(k)'
        BY <1>1, <2>3, <3>1, <3>3 DEF UnderWay, KindOf
      <4> QED
        BY <4>1
    <3> QED
      BY <3>2, <3>3
  <2> QED
    BY <2>1, <2>2, <2>3
<1> QED
  BY <1>6, <1>7, <1>9, <1>10, <1>11 DEF CaptureInv

\* The first piece goes to a file that is empty, if the capture has no rival;
\* to the others under way it is a rival itself.
LEMMA WriteHeadKeeps ==
  ASSUME TypeOK, CaptureInv, NEW c \in Capture, WriteHead(c)
  PROVE  CaptureInv'
<1>1. /\ capture[c].at = "head" /\ capture'[c].at = "rest"
      /\ \A d \in Capture : d # c => capture'[d] = capture[d]
      /\ \A d \in Capture : capture'[d].kind = capture[d].kind
      /\ \A d \in Capture : KindOf(d)' = KindOf(d)
  BY CaptureGoesEffect DEF WriteHead
<1>2. KindOf(c) \in Kinds
  BY DEF KindOf, TypeOK
<1>3. /\ UNCHANGED <<profiling, during>>
      /\ profile[KindOf(c)] = Plain("empty") =>
           profile'[KindOf(c)] = [is |-> "part", of |-> c]
      /\ \A k \in Kinds : k # KindOf(c) => profile'[k] = profile[k]
  BY <1>2 DEF WriteHead, TypeOK
<1>4. /\ AnyCut => AnyCut'
      /\ \A d, e \in Capture : Overlap(d, e)' = Overlap(d, e)
      /\ \A d, e \in Capture : Clash(d, e) => Clash(d, e)'
  BY <1>3, Moved DEF WriteHead
<1>5. Accepted(c) /\ \A d \in Capture : Accepted(d)' = Accepted(d)
  BY <1>1 DEF Accepted
<1>6. \A k \in Kinds : UnderWay(k)' = UnderWay(k)
  BY <1>1 DEF UnderWay
<1>7. c \in UnderWay(KindOf(c))
  BY <1>1 DEF UnderWay, KindOf
<1>8. KindInv' /\ ProfilingInv'
  BY <1>1, <1>3 DEF CaptureInv, KindInv, ProfilingInv, TypeOK
<1>9. UnderWayInv'
  BY <1>4, <1>6 DEF CaptureInv, UnderWayInv, UnderWay
<1>10. FileInv'
  <2> SUFFICES ASSUME NEW d \in Capture PROVE FileOK(d)'
    BY DEF FileInv
  <2>1. Rival(d) => Rival(d)'
    BY <1>1, <1>4, <1>5 DEF Rival
  <2>2. Waiter(d) => Waiter(d)'
    BY <1>1, <1>4 DEF Waiter
  <2>3. FileOK(d)
    BY DEF CaptureInv, FileInv
  <2>4. CASE d = c
    BY <1>1, <1>3, <1>4, <2>1, <2>3, <2>4 DEF FileOK
  <2>5. CASE d # c /\ KindOf(d) # KindOf(c)
    <3>1. profile'[KindOf(d)] = profile[KindOf(d)]
      BY <1>3, <2>5 DEF KindOf, TypeOK
    <3> QED
      BY <1>1, <1>4, <2>1, <2>2, <2>3, <2>5, <3>1 DEF FileOK, Plain
  <2>6. CASE d # c /\ KindOf(d) = KindOf(c)
    <3>1. CASE capture[d].at \in {"start", "sample", "head", "rest"}
      <4>1. d \in UnderWay(KindOf(c))
        BY <2>6, <3>1 DEF UnderWay, KindOf
      <4>2. Overlap(d, c)
        BY <1>2, <1>7, <2>6, <4>1 DEF CaptureInv, UnderWayInv
      <4>3. Rival(d)'
        BY <1>5, <2>1, <2>6, <4>2 DEF Rival
      <4> QED
        BY <4>3 DEF FileOK
    <3>2. CASE capture[d].at \notin {"start", "sample", "head", "rest"}
      BY <1>1, <2>6, <3>2 DEF FileOK
    <3> QED
      BY <3>1, <3>2
  <2> QED
    BY <2>4, <2>5, <2>6
<1>11. ProfilesReadable'
  <2> SUFFICES ASSUME NEW k \in Kinds
               PROVE  \/ AnyCut'
                      \/ \E d, e \in Capture : KindOf(d)' = k /\ Clash(d, e)'
                      \/ UnderWay(k)' # {}
                      \/ profile'[k].is \in {"missing", "whole"}
    BY DEF ProfilesReadable, AnyCut
  <2>1. CASE k = KindOf(c)
    BY <1>6, <1>7, <2>1
  <2>2. CASE k # KindOf(c)
    BY <1>1, <1>3, <1>4, <1>6, <2>2 DEF CaptureInv, ProfilesReadable, AnyCut
  <2> QED
    BY <2>1, <2>2
<1> QED
  BY <1>8, <1>9, <1>10, <1>11 DEF CaptureInv

\* The rest makes the profile whole, if the capture has no rival and nobody
\* is waiting; a rival is under way, or the two have clashed.
LEMMA WriteRestKeeps ==
  ASSUME TypeOK, CaptureInv, NEW c \in Capture, WriteRest(c)
  PROVE  CaptureInv'
<1>1. /\ capture[c].at = "rest" /\ capture'[c].at = "ok"
      /\ \A d \in Capture : d # c => capture'[d] = capture[d]
      /\ \A d \in Capture : capture'[d].kind = capture[d].kind
      /\ \A d \in Capture : KindOf(d)' = KindOf(d)
  BY CaptureGoesEffect DEF WriteRest
<1>2. KindOf(c) \in Kinds
  BY DEF KindOf, TypeOK
<1>3. PICK new \in Completed(c, profile[KindOf(c)]) :
        profile' = [profile EXCEPT ![KindOf(c)] = new]
  BY DEF WriteRest
<1>4. /\ profile[KindOf(c)] = [is |-> "part", of |-> c] => profile'[KindOf(c)].is = "whole"
      /\ \A k \in Kinds : k # KindOf(c) => profile'[k] = profile[k]
  <2>1. profile'[KindOf(c)] = new /\ \A k \in Kinds : k # KindOf(c) => profile'[k] = profile[k]
    BY <1>2, <1>3 DEF TypeOK
  <2>2. profile[KindOf(c)] = [is |-> "part", of |-> c] => new = [is |-> "whole", of |-> c]
    BY <1>3 DEF Completed
  <2> QED
    BY <2>1, <2>2
<1>5. /\ UNCHANGED during
      /\ profiling' = IF KindOf(c) = "cpu" THEN NoCapture ELSE profiling
  BY DEF WriteRest
<1>6. /\ AnyCut => AnyCut'
      /\ \A k \in Kinds : k # KindOf(c) => UnderWay(k)' = UnderWay(k)
      /\ \A k \in Kinds : \A d \in Capture :
           d # c => (d \in UnderWay(k)' <=> d \in UnderWay(k))
      /\ \A d, e \in Capture : Overlap(d, e)' = Overlap(d, e)
      /\ \A d, e \in Capture : Clash(d, e) => Clash(d, e)'
  BY <1>5, Moved DEF WriteRest
<1>7. Accepted(c) /\ \A d \in Capture : Accepted(d)' = Accepted(d)
  BY <1>1 DEF Accepted
<1>8. c \in UnderWay(KindOf(c))
  BY <1>1 DEF UnderWay, KindOf
<1>9. KindInv'
  BY <1>1 DEF CaptureInv, KindInv
<1>10. ProfilingInv'
  BY <1>1, <1>5 DEF CaptureInv, ProfilingInv, TypeOK
<1>11. \A k \in Kinds : UnderWay(k)' \subseteq UnderWay(k)
  BY <1>1 DEF UnderWay, KindOf
<1>12. UnderWayInv'
  BY <1>6, <1>11 DEF CaptureInv, UnderWayInv, UnderWay
<1>13. FileInv'
  <2> SUFFICES ASSUME NEW d \in Capture PROVE FileOK(d)'
    BY DEF FileInv
  <2>1. Rival(d) => Rival(d)'
    BY <1>1, <1>6, <1>7 DEF Rival
  <2>2. Waiter(d) => Waiter(d)'
    BY <1>1, <1>6 DEF Waiter
  <2>3. FileOK(d)
    BY DEF CaptureInv, FileInv
  <2>4. CASE d = c
    BY <1>1, <2>4 DEF FileOK
  <2>5. CASE d # c /\ KindOf(d) # KindOf(c)
    <3>1. profile'[KindOf(d)] = profile[KindOf(d)]
      BY <1>4, <2>5 DEF KindOf, TypeOK
    <3> QED
      BY <1>1, <1>6, <2>1, <2>2, <2>3, <2>5, <3>1 DEF FileOK, Plain
  <2>6. CASE d # c /\ KindOf(d) = KindOf(c)
    <3>1. CASE capture[d].at \in {"start", "sample", "head", "rest"}
      <4>1. d \in UnderWay(KindOf(c))
        BY <2>6, <3>1 DEF UnderWay, KindOf
      <4>2. Overlap(d, c)
        BY <1>2, <1>8, <2>6, <4>1 DEF CaptureInv, UnderWayInv
      <4>3. Rival(d)'
        BY <1>7, <2>1, <2>6, <4>2 DEF Rival
      <4> QED
        BY <4>3 DEF FileOK
    <3>2. CASE capture[d].at \notin {"start", "sample", "head", "rest"}
      BY <1>1, <2>6, <3>2 DEF FileOK
    <3> QED
      BY <3>1, <3>2
  <2> QED
    BY <2>4, <2>5, <2>6
<1>14. ProfilesReadable'
  <2> SUFFICES ASSUME NEW k \in Kinds
               PROVE  \/ AnyCut'
                      \/ \E d, e \in Capture : KindOf(d)' = k /\ Clash(d, e)'
                      \/ UnderWay(k)' # {}
                      \/ profile'[k].is \in {"missing", "whole"}
    BY DEF ProfilesReadable, AnyCut
  <2>1. CASE k # KindOf(c)
    BY <1>1, <1>4, <1>6, <2>1 DEF CaptureInv, ProfilesReadable, AnyCut
  <2>2. CASE k = KindOf(c)
    <3>1. \/ profile[KindOf(c)] = [is |-> "part", of |-> c]
          \/ Rival(c) \/ Waiter(c) \/ AnyCut
      BY <1>1 DEF CaptureInv, FileInv, FileOK
    <3>2. CASE Rival(c)
      <4>1. PICK d \in Capture : /\ d # c /\ KindOf(d) = KindOf(c)
                                 /\ Accepted(d) /\ Overlap(c, d)
        BY <3>2 DEF Rival
      <4>2. CASE capture[d].at = "ok"
        <5>1. {capture'[c].at, capture'[d].at} = {"ok"}
          BY <1>1, <4>1, <4>2
        <5>2. Clash(c, d)' \/ Clash(d, c)'
          BY <1>5, <4>1, <5>1 DEF Clash, Overlap
        <5> QED
          BY <1>1, <2>2, <4>1, <5>2
      <4>3. CASE capture[d].at # "ok"
        <5>1. d \in UnderWay(k)
          BY <2>2, <4>1, <4>3 DEF UnderWay, Accepted, KindOf
        <5> QED
          BY <1>6, <4>1, <5>1
      <4> QED
        BY <4>2, <4>3
    <3>3. CASE Waiter(c)
      <4>1. PICK d \in Capture :
              d # c /\ KindOf(d) = KindOf(c) /\ capture[d].at = "start"
        BY <3>3 DEF Waiter
      <4>2. d \in UnderWay(k)
        BY <2>2, <4>1 DEF UnderWay, KindOf
      <4> QED
        BY <1>6, <4>1, <4>2
    <3> QED
      BY <1>4, <1>6, <2>2, <3>1, <3>2, <3>3
  <2> QED
    BY <2>1, <2>2
<1> QED
  BY <1>9, <1>10, <1>12, <1>13, <1>14 DEF CaptureInv

LEMMA CaptureNext ==
  ASSUME TypeOK, CaptureInv, [Next]_vars
  PROVE  CaptureInv'
<1>1. CASE GroupStep \/ UNCHANGED vars
  <2>1. UNCHANGED captureVars
    BY <1>1, GroupFrame DEF vars, captureVars
  <2> QED
    BY <2>1, SameBusy DEF captureVars
<1>2. CASE TakeSignal
  BY <1>2, TakeSignalTypes, SameBusy
<1>3. ASSUME NEW c \in Capture, CaptureStep(c)
      PROVE  CaptureInv'
  <2>1. CASE CreateError(c)
    <3>1. /\ UNCHANGED <<profiling, profile, during>>
          /\ capture[c].at = "create" /\ capture'[c].at = "failed"
          /\ \A d \in Capture : d # c => capture'[d] = capture[d]
      BY <2>1, CaptureGoesEffect DEF CreateError
    <3> QED
      BY <3>1, SameBusy
  <2> QED
    BY <1>3, <2>1, CreateKeeps, StartProfileKeeps, CutOffKeeps, ElapsedKeeps,
       WriteHeadKeeps, WriteRestKeeps DEF CaptureStep
<1> QED
  BY <1>1, <1>2, <1>3, StepKinds

-----------------------------------------------------------------------------
(* The theorems.                                                           *)

\* The invariant holds in every reachable state of the server process.
THEOREM Invariance == Spec => []IInv
<1>1. IInv /\ [Next]_vars => IInv'
  <2> SUFFICES ASSUME IInv, [Next]_vars PROVE IInv'
    OBVIOUS
  <2> QED
    BY TypeNext, StartNext, LeaveNext, ErrorNext, LastFlushNext, ExitNext, CaptureNext
       DEF IInv
<1> QED
  BY <1>1, InitIInv, PTL DEF Spec

\* Every variable of cmd/server/main.go's model has its type.
THEOREM TypeCorrect == Spec => []TypeOK
<1>1. IInv => TypeOK
  BY DEF IInv
<1> QED
  BY <1>1, Invariance, PTL

\* However the errgroup of main ends, the dumper's last flush has been made;
\* only exits that do not pass g.Wait miss it.
THEOREM ShutdownFlushes == Spec => []LastFlushMade
<1>1. IInv => LastFlushMade
  BY DEF IInv
<1> QED
  BY <1>1, Invariance, PTL

\* main returns an error only when the transport failed, and hides such a
\* failure only when a signal had asked for the end.
THEOREM ExitTells == Spec => []ExitStatusTells
<1>1. IInv => ExitStatusTells
  BY DEF IInv
<1> QED
  BY <1>1, Invariance, PTL

\* Any number of captures, refused ones included, leave readable profiles,
\* but for two accepted ones that overlapped or one that was cut off.
THEOREM ProfilesAreReadable == Spec => []ProfilesReadable
<1>1. IInv => ProfilesReadable
  BY DEF IInv, CaptureInv
<1> QED
  BY <1>1, Invariance, PTL

\* A transport that has left without cancelling the group is the gRPC branch,
\* which returns nil and never serves.
THEOREM DeadTransport == Spec => []DeadTransportEndsGroup
<1>1. IInv => DeadTransportEndsGroup
  BY DEF IInv, LeaveInv, DeadTransportEndsGroup
<1> QED
  BY <1>1, Invariance, PTL
=============================================================================
