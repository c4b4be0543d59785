--------------------------- MODULE ServerLifecycle ---------------------------
(***************************************************************************)
(* The server process from main to its exit (cmd/server/main.go): the      *)
(* errgroup of dumper, profile listener and transport, the goroutine that  *)
(* shuts the HTTP server down, and the profile captures that signals start *)
(* (internal/pprof).  What the dumper's flushes write is the subject of    *)
(* Persistence.                                                            *)
(***************************************************************************)
EXTENDS Integers, FiniteSets

CONSTANTS
  Capture,         \* goroutines of captures, one for each profiling signal
  NoCapture,       \* none of them
  Protocols,       \* values of the protocol flag
  StoreIntervals   \* values of STORE_INTERVAL

ASSUME LifecycleAssumption ==
  /\ NoCapture \notin Capture
  /\ Protocols \subseteq {"http", "grpc"}
  /\ StoreIntervals \subseteq Int

VARIABLES
  flags,        \* what parseFlags returned
  main,         \* where main is
  exitBy,       \* how the process ended
  signalled,    \* a termination signal has cancelled the root context
  groupErr,     \* the error of the errgroup: the first one returned to it
  dumper,       \* where runMetricDumper is
  flushed,      \* history: the flush on ctx.Done has been made
  server,       \* where the transport goroutine is
  failed,       \* history: it has returned an error
  shutter,      \* where the goroutine that calls srv.Shutdown is
  shutdownErr,  \* what is in the channel of that name
  active,       \* a request is being handled
  listener,     \* where ListenSignals is
  pending,      \* the profiling signal in its channel
  capture,      \* each capture: its kind and where it is
  profiling,    \* the capture the runtime writes a CPU profile for
  profile,      \* the files of both kinds
  during        \* history: captures under way when a capture began

groupVars   == <<groupErr, dumper, flushed, server, failed, listener>>
httpVars    == <<shutter, shutdownErr, active>>
captureVars == <<capture, profiling, profile, during>>
vars == <<flags, main, exitBy, signalled, groupErr, dumper, flushed, server,
          failed, shutter, shutdownErr, active, listener, pending, capture,
          profiling, profile, during>>

Kinds == {"cpu", "heap"}
\* valid: what the protocol needs is, the private key for http (if it has one)
\* or the trusted subnet for grpc.
Flags == [protocol : Protocols, interval : StoreIntervals, valid : BOOLEAN]

\* A profile file: absent, just truncated, without a readable beginning, or
\* beginning with the first piece of a capture's profile: alone, followed by
\* something else, or followed by its rest.
Content == [is : {"missing", "empty", "garbage"}, of : {NoCapture}]
             \cup [is : {"part", "mixed", "whole"}, of : Capture]
Plain(what) == [is |-> what, of |-> NoCapture]

TypeOK ==
  /\ flags \in Flags
  /\ main \in {"db", "restore", "wait", "exited"}
  /\ exitBy \in {"none", "return", "group", "fatal", "panic", "killed"}
  /\ (main = "exited") <=> (exitBy # "none")
  /\ signalled \in BOOLEAN
  /\ groupErr \in {"none", "canceled", "listen", "subnet", "timeout"}
  /\ dumper \in {"off", "wait", "flush", "final", "returned"}
  /\ flushed \in BOOLEAN
  /\ server \in {"off", "prepare", "register", "listen", "serving", "closed",
                 "returned"}
  /\ failed \in BOOLEAN
  /\ shutter \in {"off", "wait", "closing", "done"}
  /\ shutdownErr \in {"empty", "nil", "timeout"}
  /\ (shutdownErr # "empty") <=> (shutter = "done")
  /\ active \in BOOLEAN
  /\ listener \in {"off", "begin", "select", "returned"}
  /\ pending \in Kinds \cup {"none"}
  /\ capture \in [Capture -> [kind : Kinds,
                              at : {"idle", "create", "start", "sample", "head",
                                    "rest", "ok", "refused", "failed", "cut"}]]
  /\ profiling \in Capture \cup {NoCapture}
  /\ profile \in [Kinds -> Content]
  /\ during \in [Capture -> SUBSET Capture]

Init ==
  /\ flags \in Flags
  /\ main = "db" /\ exitBy = "none" /\ signalled = FALSE /\ groupErr = "none"
  /\ dumper = "off" /\ flushed = FALSE
  /\ server = "off" /\ failed = FALSE
  /\ shutter = "off" /\ shutdownErr = "empty" /\ active = FALSE
  /\ listener = "off" /\ pending = "none"
  /\ capture = [c \in Capture |-> [kind |-> "cpu", at |-> "idle"]]
  /\ profiling = NoCapture
  /\ profile = [k \in Kinds |-> Plain("missing")]
  /\ during = [c \in Capture |-> {}]

-----------------------------------------------------------------------------
(* main.                                                                   *)

ExitBy(how) == main' = "exited" /\ exitBy' = how

\* initDB and initMigrations; then signal.NotifyContext.
OpenDB ==
  /\ main = "db"
  /\ main' = "restore"
  /\ UNCHANGED <<flags, exitBy, signalled, groupVars, httpVars, pending, captureVars>>

\* log.Fatal: the flags name a database and its migrations fail.
MigrationError ==
  /\ main = "db"
  /\ ExitBy("fatal")
  /\ UNCHANGED <<flags, signalled, groupVars, httpVars, pending, captureVars>>

\* ReadFromFile, whose error is only logged, and the goroutines of the group.
StartGroup ==
  /\ main = "restore"
  /\ main' = "wait"
  /\ dumper' = IF flags.interval <= 0 THEN "returned" ELSE "wait"
  /\ listener' = "begin"
  /\ server' = IF flags.protocol = "http" THEN "prepare" ELSE "register"
  /\ UNCHANGED <<flags, exitBy, signalled, groupErr, flushed, failed, httpVars,
                 pending, captureVars>>

\* A termination signal: before NotifyContext it kills the process.
Signal ==
  /\ ~signalled /\ main # "exited"
  /\ IF main = "db" THEN ExitBy("killed") /\ UNCHANGED signalled
                    ELSE signalled' = TRUE /\ UNCHANGED <<main, exitBy>>
  /\ UNCHANGED <<flags, groupVars, httpVars, pending, captureVars>>

Running == main = "wait"

\* Mutation: errors do not cancel the context.
SignalOnly == signalled

\* The errgroup's context: cancelled by the signal or by the first error.
CtxDone == signalled \/ groupErr # "none"

\* Mutation: the errgroup keeps the last error.
GroupKeepsLast(err) == groupErr' = IF err = "none" THEN groupErr ELSE err

\* The errgroup keeps the first error.
GroupKeeps(err) == groupErr' = IF groupErr = "none" THEN err ELSE groupErr

\* Mutation: main leaves as soon as the transport has.
ServerReturned == server = "returned"

GroupReturned ==
  /\ dumper = "returned" /\ listener = "returned" /\ server = "returned"

\* context.Canceled is what a signal makes of the dumper.
Exit ==
  /\ Running /\ GroupReturned
  /\ ExitBy(IF groupErr \in {"none", "canceled"} THEN "return" ELSE "group")
  /\ UNCHANGED <<flags, signalled, groupVars, httpVars, pending, captureVars>>

-----------------------------------------------------------------------------
(* runMetricDumper.                                                        *)

Dump(from, to) ==
  /\ Running /\ dumper = from /\ dumper' = to
  /\ UNCHANGED <<flags, main, exitBy, signalled, server, failed, httpVars,
                 listener, pending, captureVars>>

Tick == Dump("wait", "flush") /\ UNCHANGED <<groupErr, flushed>>

\* An error of the flush is logged.
TickFlushed == Dump("flush", "wait") /\ UNCHANGED <<groupErr, flushed>>

DumperDone == CtxDone /\ Dump("wait", "final") /\ UNCHANGED <<groupErr, flushed>>

\* The last flush, whose error is dropped; the dumper returns ctx.Err().
LastFlush ==
  /\ Dump("final", "returned")
  /\ flushed' = TRUE
  /\ GroupKeeps("canceled")

-----------------------------------------------------------------------------
(* The transport: runHTTPServer, or the gRPC branch of main.               *)

ServerReturns(err) ==
  /\ server' = "returned"
  /\ failed' = (err # "none")
  /\ GroupKeeps(err)
  /\ UNCHANGED <<flags, main, exitBy, signalled, dumper, flushed, listener,
                 httpVars, pending, captureVars>>

ServerGoes(to) ==
  /\ server' = to
  /\ UNCHANGED <<flags, main, exitBy, signalled, groupErr, dumper, flushed,
                 failed, listener, pending, captureVars>>

\* The interceptor and the registration; nobody calls Serve.  An invalid
\* subnet is logged and returned.
RegisterGrpc ==
  /\ Running /\ server = "register"
  /\ ServerReturns(IF ~flags.valid THEN "subnet" ELSE "none")

\* The audit publisher, the handler, and the goroutine that will shut down.
Prepare ==
  /\ Running /\ server = "prepare" /\ flags.valid
  /\ shutter' = "wait"
  /\ ServerGoes("listen")
  /\ UNCHANGED <<shutdownErr, active>>

\* readPrivateKeyFromFile fails: logger.Fatal, whatever the other goroutines
\* are doing.
KeyError ==
  /\ Running /\ server = "prepare" /\ ~flags.valid
  /\ ExitBy("fatal")
  /\ UNCHANGED <<flags, signalled, groupVars, httpVars, pending, captureVars>>

ShuttingDown == shutter \in {"closing", "done"}

\* srv.ListenAndServe ...
Listen ==
  /\ Running /\ server = "listen" /\ ~ShuttingDown
  /\ ServerGoes("serving")
  /\ UNCHANGED httpVars

\* ... which fails on the address or on Accept ...
ListenError ==
  /\ Running
  /\ server = "listen" \/ (server = "serving" /\ ~ShuttingDown)
  /\ ServerReturns("listen")

\* ... and returns ErrServerClosed as soon as Shutdown has been called.
ServerClosed ==
  /\ Running /\ server \in {"listen", "serving"} /\ ShuttingDown
  /\ ServerGoes("closed")
  /\ UNCHANGED httpVars

\* The select with a default: an error of Shutdown only if it is there yet.
ServerLeaves ==
  /\ Running /\ server = "closed"
  /\ ServerReturns(IF shutdownErr = "timeout" THEN "timeout" ELSE "none")

ShutterGoes(from, to) ==
  /\ Running /\ shutter = from /\ shutter' = to
  /\ UNCHANGED <<flags, main, exitBy, signalled, groupVars, active, pending,
                 captureVars>>

\* Mutation: the server shuts down when the requests have come to an end.
CallShutdownWhenIdle ==
  CtxDone /\ ~active /\ ShutterGoes("wait", "closing") /\ UNCHANGED shutdownErr

CallShutdown == CtxDone /\ ShutterGoes("wait", "closing") /\ UNCHANGED shutdownErr

\* Mutation: the result of Shutdown is dropped.
ShutdownReturnsNothing ==
  ShutterGoes("closing", "done") /\ UNCHANGED shutdownErr

\* Shutdown waits for requests, up to five seconds; the channel has room.
ShutdownReturns ==
  /\ ShutterGoes("closing", "done")
  /\ shutdownErr' = IF active THEN "timeout" ELSE "nil"

RequestBegins ==
  /\ Running /\ server = "serving" /\ ~ShuttingDown /\ ~active
  /\ active' = TRUE
  /\ UNCHANGED <<flags, main, exitBy, signalled, groupVars, shutter,
                 shutdownErr, pending, captureVars>>

RequestEnds ==
  /\ Running /\ active
  /\ active' = FALSE
  /\ UNCHANGED <<flags, main, exitBy, signalled, groupVars, shutter,
                 shutdownErr, pending, captureVars>>

-----------------------------------------------------------------------------
(* ListenSignals.                                                          *)

ListenerGoes(from, to) ==
  /\ Running /\ listener = from /\ listener' = to
  /\ UNCHANGED <<flags, main, exitBy, signalled, groupErr, dumper, flushed,
                 server, failed, httpVars>>

\* signal.Notify.
Notify == ListenerGoes("begin", "select") /\ UNCHANGED <<pending, captureVars>>

Idle == {c \in Capture : capture[c].at = "idle"}
UnderWay(k) == {c \in Capture : /\ capture[c].kind = k
                                /\ capture[c].at \in {"start", "sample", "head", "rest"}}

\* SIGUSR1 or SIGUSR2.  Before Notify nothing happens, a full channel drops
\* it, and a closed one, for which there is no signal.Stop, panics.
Usr(k) ==
  /\ Running /\ listener # "begin"
  /\ Idle # {}
  /\ IF listener = "returned"
       THEN ExitBy("panic") /\ UNCHANGED pending
       ELSE /\ pending = "none" /\ pending' = k
            /\ UNCHANGED <<main, exitBy>>
  /\ UNCHANGED <<flags, signalled, groupVars, httpVars, captureVars>>

\* A goroutine for the capture, for which nobody waits.
TakeSignal ==
  /\ pending # "none" /\ Idle # {}
  /\ ListenerGoes("select", "select")
  /\ LET c == CHOOSE i \in Idle : TRUE IN
       capture' = [capture EXCEPT ![c] = [kind |-> pending, at |-> "create"]]
  /\ pending' = "none"
  /\ UNCHANGED <<profiling, profile, during>>

\* return, and the deferred close of the channel.
ListenerDone ==
  /\ CtxDone
  /\ ListenerGoes("select", "returned")
  /\ pending' = "none"
  /\ UNCHANGED captureVars

-----------------------------------------------------------------------------
(* CPUCapture and Capture.                                                 *)

CaptureGoes(c, from, to) ==
  /\ Running /\ capture[c].at = from
  /\ capture' = [capture EXCEPT ![c].at = to]
  /\ UNCHANGED <<flags, main, exitBy, signalled, groupVars, httpVars, pending>>

KindOf(c) == capture[c].kind

\* Mutation: the file is opened without O_TRUNC.
CreateKeeping(c) ==
  /\ CaptureGoes(c, "create", IF KindOf(c) = "cpu" THEN "start" ELSE "head")
  /\ profile' = [profile EXCEPT ![KindOf(c)] =
                   IF @ = Plain("missing") THEN Plain("empty") ELSE @]
  /\ during' = [during EXCEPT ![c] = UnderWay(KindOf(c))]
  /\ UNCHANGED profiling

\* os.Create truncates the file, whoever is writing to it.
Create(c) ==
  /\ CaptureGoes(c, "create", IF KindOf(c) = "cpu" THEN "start" ELSE "head")
  /\ profile' = [profile EXCEPT ![KindOf(c)] = Plain("empty")]
  /\ during' = [during EXCEPT ![c] = UnderWay(KindOf(c))]
  /\ UNCHANGED profiling

\* No such directory, or, without a name, a directory.
CreateError(c) ==
  /\ CaptureGoes(c, "create", "failed")
  /\ UNCHANGED <<profiling, profile, during>>

\* StopCPUProfile holds the lock of StartCPUProfile while it writes.
Stopping(c) == KindOf(c) = "cpu" /\ capture[c].at \in {"head", "rest"}

Accepts(c) == profiling = NoCapture

\* pprof.StartCPUProfile refuses while there is a profile.
StartProfile(c) ==
  /\ \A d \in Capture : ~Stopping(d)
  /\ CaptureGoes(c, "start", IF Accepts(c) THEN "sample" ELSE "refused")
  /\ profiling' = IF Accepts(c) THEN c ELSE profiling
  /\ UNCHANGED <<profile, during>>

\* ctx.Done: the capture returns without StopCPUProfile.
CutOff(c) ==
  /\ CtxDone
  /\ CaptureGoes(c, "sample", "cut")
  /\ UNCHANGED <<profiling, profile, during>>

\* time.After, then StopCPUProfile.
Elapsed(c) ==
  /\ CaptureGoes(c, "sample", "head")
  /\ UNCHANGED <<profiling, profile, during>>

\* A profile is written when it is complete, from the start of the file, in
\* pieces: the first ...
WriteHead(c) ==
  /\ CaptureGoes(c, "head", "rest")
  /\ profile' = [profile EXCEPT ![KindOf(c)] =
                   IF @ = Plain("empty") THEN [is |-> "part", of |-> c]
                                         ELSE [is |-> "mixed", of |-> c]]
  /\ UNCHANGED <<profiling, during>>

\* ... and the rest, which may or may not cover what was there before, or
\* lands in the file of another.
Completed(c, old) ==
  CASE old = [is |-> "part", of |-> c]  -> {[is |-> "whole", of |-> c]}
    [] old = [is |-> "mixed", of |-> c] -> {[is |-> "whole", of |-> c], old}
    [] old.of \notin {c, NoCapture}     -> {[is |-> "mixed", of |-> old.of]}
    [] OTHER                            -> {Plain("garbage")}

WriteRest(c) ==
  /\ CaptureGoes(c, "rest", "ok")
  /\ \E new \in Completed(c, profile[KindOf(c)]) :
       profile' = [profile EXCEPT ![KindOf(c)] = new]
  /\ profiling' = IF KindOf(c) = "cpu" THEN NoCapture ELSE profiling
  /\ UNCHANGED during

-----------------------------------------------------------------------------
CaptureStep(c) ==
  \/ Create(c) \/ CreateError(c) \/ StartProfile(c) \/ CutOff(c) \/ Elapsed(c)
  \/ WriteHead(c) \/ WriteRest(c)

MainStep == OpenDB \/ MigrationError \/ StartGroup \/ Exit

ServerStep ==
  \/ RegisterGrpc \/ Prepare \/ KeyError \/ Listen
  \/ ServerClosed \/ ServerLeaves

Next ==
  \/ MainStep \/ Signal
  \/ Tick \/ TickFlushed \/ DumperDone \/ LastFlush
  \/ ServerStep \/ ListenError \/ CallShutdown \/ ShutdownReturns
  \/ RequestBegins \/ RequestEnds
  \/ Notify \/ TakeSignal \/ ListenerDone
  \/ \E k \in Kinds : Usr(k)
  \/ \E c \in Capture : CaptureStep(c)

Spec == Init /\ [][Next]_vars

\* Goroutines run, flushes return, the timer of Shutdown fires; the listener
\* need not fail.  Done has strong fairness in both selects: it stays ready, a
\* tick or a signal is ready now and then, and Go chooses at random.
FairSpec ==
  /\ Spec
  /\ WF_vars(MainStep)
  /\ WF_vars(TickFlushed \/ LastFlush) /\ SF_vars(DumperDone)
  /\ WF_vars(ServerStep)
  /\ WF_vars(CallShutdown) /\ WF_vars(ShutdownReturns)
  /\ WF_vars(Notify) /\ SF_vars(ListenerDone)

-----------------------------------------------------------------------------
(* Properties.                                                             *)

\* However the group ends, by a signal, by an address in use or a shutdown
\* that timed out, the last flush is made before the process goes.  Only an
\* exit that does not pass g.Wait misses it: a failure or a signal before the
\* group, an unreadable private key, and a profiling signal that arrives
\* after ListenSignals has closed its channel in a shutdown under way.
LastFlushMade ==
  main = "exited" /\ flags.interval > 0 /\ ~flushed =>
    \/ dumper = "off"
    \/ exitBy = "fatal" /\ ~flags.valid /\ flags.protocol = "http"
    \/ exitBy = "panic" /\ CtxDone

\* The exit status tells whether the transport failed, unless a signal had
\* asked the server to stop anyway.
ExitStatusTells ==
  /\ exitBy = "group" => failed
  /\ exitBy = "return" /\ failed => signalled
  /\ exitBy = "return" => CtxDone

\* A capture that StartCPUProfile refuses has truncated the file of the one
\* that is under way, and yet does no harm.  A profile file that nobody works
\* on is missing or holds one whole profile, unless a capture was cut off by
\* the shutdown, or two captures overlapped and both were accepted.
Clash(c, d) == c \in during[d] /\ {capture[c].at, capture[d].at} = {"ok"}

ProfilesReadable ==
  \A k \in Kinds :
    \/ \E c \in Capture : capture[c].at = "cut"
    \/ \E c, d \in Capture : KindOf(c) = k /\ Clash(c, d)
    \/ UnderWay(k) # {}
    \/ profile[k].is \in {"missing", "whole"}

\* A server that is told to stop, or whose transport has failed, is gone in
\* the end, whatever requests, ticks and profiling signals are under way.
StopEnds == CtxDone ~> main = "exited"

\* Nobody looks after a transport that has ended: an error or the end of the
\* HTTP server always comes with the end of the group, but the gRPC branch
\* returns nil without ever serving, and leaves a process that goes on for
\* nothing but its dumper.
DeadTransportEndsGroup ==
  Running /\ server = "returned" /\ ~CtxDone =>
    flags.protocol = "grpc" /\ flags.valid
=============================================================================
