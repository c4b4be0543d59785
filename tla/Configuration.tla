---------------------------- MODULE Configuration ----------------------------
(***************************************************************************)
(* parseFlags of both programs (cmd/server/flags.go, cmd/agent/flags.go)   *)
(* and what the program then is: where each setting comes from when a      *)
(* configuration file, the environment and the command line may each name  *)
(* it, in the order in which the code reads them.                          *)
(*                                                                         *)
(* A setting stands for all those that are read alike: the intervals for a *)
(* number and "crypto_key" for a text that the file can name, "rate_limit" *)
(* and "key" for what it cannot.  Its value is known by its source, and a  *)
(* value that is named is not 0.                                           *)
(***************************************************************************)
EXTENDS Integers, Sequences, SequencesExt

CONSTANT MaxArgs  \* bound: options on the command line

ASSUME ConfigurationAssumption == MaxArgs \in Nat

VARIABLES
  prog,        \* "server" or "agent"
  file,        \* the settings the configuration file names
  env,         \* the settings environment variables name
  args,        \* the options of the command line, in order
  configEnv,   \* CONFIG is set
  step,        \* where parseFlags is
  next,        \* the option flag.Parse has come to
  from,        \* the source of each setting so far
  readFile,    \* history: the values of a file were taken
  status       \* "starting", or what became of the program

sourceVars == <<prog, file, env, args, configEnv>>
vars == <<prog, file, env, args, configEnv, step, next, from, readFile, status>>

Settings ==
  [server |-> {"store_interval", "crypto_key", "key", "trusted_subnet", "protocol"},
   agent  |-> {"poll_interval", "report_interval", "crypto_key", "rate_limit", "protocol"}]
InFile == {"store_interval", "poll_interval", "report_interval", "crypto_key"}
Setting == Settings[prog]

ConfigOption == {"-config", "-c"}

\* The options flag.Parse knows: the server has registered neither spelling
\* of the configuration file, the agent one of them.
Known == Setting \cup (IF prog = "agent" THEN {"-config"} ELSE {})

Init ==
  /\ prog \in DOMAIN Settings
  /\ file \in SUBSET (InFile \cap Setting)
  /\ env \in SUBSET Setting
  /\ args \in BoundedSeq(Setting \cup ConfigOption, MaxArgs)
  /\ configEnv \in BOOLEAN
  /\ step = "path" /\ next = 1
  /\ from = [s \in Setting |-> "zero"]
  /\ readFile = FALSE
  /\ status = "starting"

-----------------------------------------------------------------------------
At(s) == step = s /\ status = "starting"

Goto(s) == step' = s /\ UNCHANGED <<sourceVars, status>>

Become(how) ==
  /\ status' = how
  /\ UNCHANGED <<sourceVars, step, next, from, readFile>>

\* Mutation: only the environment is asked.
PathOnlyInEnv == configEnv

\* getConfigPath parses the command line with a flag set of its own, which
\* stops at the first option that is not the configuration file.  Its path
\* comes before that of CONFIG; which of two files is read is left out.
HasPath == configEnv \/ (args # <<>> /\ args[1] \in ConfigOption)

GetConfigPath ==
  /\ At("path")
  /\ Goto(IF HasPath THEN "file" ELSE "defaults")
  /\ UNCHANGED <<next, from, readFile>>

\* Mutation: what the file does not name keeps its default.
OverDefaults(s) == IF s \in file THEN "file" ELSE "default"

\* The fields of a fresh struct: what the file does not name, or cannot, is
\* the zero value; the defaults are not set.
OfFile(s) == IF s \in file THEN "file" ELSE "zero"

LoadFile ==
  /\ At("file")
  /\ from' = [s \in Setting |-> OfFile(s)]
  /\ readFile' = TRUE
  /\ Goto("env")
  /\ UNCHANGED next

\* log.Fatalf: the file cannot be read, is no JSON, or has a bad duration.
FileError == At("file") /\ Become("fatal")

SetDefaults ==
  /\ At("defaults")
  /\ from' = [s \in Setting |-> "default"]
  /\ Goto("env")
  /\ UNCHANGED <<next, readFile>>

\* Mutation: a value that is there already is kept.
OfEnvIfUnset(s) ==
  IF s \in env /\ from[s] \in {"zero", "default"} THEN "env" ELSE from[s]

OfEnv(s) == IF s \in env THEN "env" ELSE from[s]

ParseEnv ==
  /\ At("env")
  /\ from' = [s \in Setting |-> OfEnv(s)]
  /\ Goto("register")
  /\ UNCHANGED <<next, readFile>>

\* env.Parse refuses a value that is no number, boolean or duration.
EnvError == At("env") /\ env # {} /\ Become("fatal")

\* flag.StringVar assigns the default it is given.  For most flags that is
\* the value so far; for two it is not.
Registered(s) ==
  CASE s = "protocol" -> "default"
    [] s = "trusted_subnet" ->
         IF from["crypto_key"] \in {"file", "env"} THEN "crypto_key" ELSE "default"
    [] OTHER -> from[s]

RegisterFlags ==
  /\ At("register")
  /\ from' = [s \in Setting |-> Registered(s)]
  /\ Goto("args")
  /\ UNCHANGED <<next, readFile>>

\* flag.Parse: the values of options, in order ...
ParseArg ==
  /\ At("args") /\ next <= Len(args)
  /\ args[next] \in Known
  /\ from' = [s \in Setting |-> IF s = args[next] THEN "arg" ELSE from[s]]
  /\ next' = next + 1
  /\ UNCHANGED <<sourceVars, step, readFile, status>>

\* ... and exit status 2 on one that is not defined.
UnknownArg ==
  /\ At("args") /\ next <= Len(args)
  /\ args[next] \notin Known
  /\ Become("usage")

Parsed == At("args") /\ next > Len(args)

\* An option or variable for the protocol says grpc; the default is http.
Grpc == from["protocol"] # "default"

\* The server's branch on the protocol.  The value of the crypto key, a path,
\* is not a subnet, so the interceptor is refused and the group ends.
StartServer ==
  /\ Parsed /\ prog = "server"
  /\ Become(CASE ~Grpc -> "serving"
           [] Grpc /\ from["trusted_subnet"] = "crypto_key" -> "fatal"
           [] OTHER -> "unserved")

\* The agent ends at once if the file of the public key is no such file, or
\* the protocol is neither http nor grpc.
AgentFatal ==
  /\ Parsed /\ prog = "agent"
  /\ from["crypto_key"] \notin {"zero", "default"} \/ from["protocol"] # "default"
  /\ Become("fatal")

\* Otherwise it starts two collectors and RateLimit senders.  time.NewTicker
\* panics on an interval of 0: the collectors' on the poll interval, that of
\* a sender, if there is one, on the report interval.
Running ==
  CASE from["poll_interval"] = "zero" -> "panicked"
    [] from["poll_interval"] # "zero" /\ from["rate_limit"] = "zero" -> "mute"
    [] OTHER -> IF from["report_interval"] = "zero" THEN "panicked" ELSE "sending"

StartAgent == Parsed /\ prog = "agent" /\ Become(Running)

Next ==
  \/ GetConfigPath \/ LoadFile \/ FileError \/ SetDefaults
  \/ ParseEnv \/ EnvError \/ RegisterFlags \/ ParseArg \/ UnknownArg
  \/ StartServer \/ AgentFatal \/ StartAgent

Spec == Init /\ [][Next]_vars

-----------------------------------------------------------------------------
(* Properties.                                                             *)

Started == status \notin {"starting", "fatal", "usage"}

\* Whatever is set where, a program that starts takes each setting from the
\* strongest place that names it: command line, environment, file.  Nothing
\* the file leaves out has its default once there is a file.  Two settings
\* of the environment never count: PROTOCOL, and TRUSTED_SUBNET, which turns
\* into the crypto key of the environment or the file.
Strongest(s) ==
  CASE s \in ToSet(args)                      -> "arg"
    [] s \notin ToSet(args) /\ s \in env      -> "env"
    [] s \notin ToSet(args) \cup env /\ readFile /\ s \in file -> "file"
    [] OTHER -> IF readFile THEN "zero" ELSE "default"

SettingsHaveTheirSource ==
  Started => \A s \in Setting :
    from[s] =
      CASE s \in ToSet(args)    -> "arg"
        [] s = "protocol" /\ s \notin ToSet(args) -> "default"
        [] s = "trusted_subnet" /\ s \notin ToSet(args) ->
             IF \/ "crypto_key" \in env
                \/ readFile /\ "crypto_key" \in file
               THEN "crypto_key" ELSE "default"
        [] OTHER -> Strongest(s)

\* An agent that gets as far as its collectors sends what it collects, unless
\* it has a configuration file.  With one it panics unless the poll interval
\* is named; then it has no sender, whose report interval would not matter,
\* unless the rate limit is named, which a file cannot do.
Named(s) == readFile => s \in file \cup env \cup ToSet(args)

AgentSends ==
  Started /\ prog = "agent" =>
    /\ status = "mute" <=> Named("poll_interval") /\ ~Named("rate_limit")
    /\ status = "sending" <=>
         \A s \in {"poll_interval", "report_interval", "rate_limit"} : Named(s)
    /\ status \in {"mute", "sending", "panicked"}

\* A program that starts although its command line names a configuration file
\* is an agent and names it by -config; and it has read that file, or the one
\* of CONFIG, unless another option stands before it.
FileArgument ==
  Started /\ (\E o \in ConfigOption : o \in ToSet(args)) =>
    /\ prog = "agent" /\ "-c" \notin ToSet(args)
    /\ readFile \/ args[1] # "-config"
=============================================================================
