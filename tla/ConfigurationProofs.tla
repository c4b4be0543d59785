------------------------- MODULE ConfigurationProofs -------------------------
(***************************************************************************)
(* Machine-checked proofs about Configuration, for command lines of any    *)
(* length.                                                                 *)
(***************************************************************************)
EXTENDS Configuration, TLAPS

-----------------------------------------------------------------------------
(* The inductive invariant.                                                *)

Option ==
  {"store_interval", "poll_interval", "report_interval", "crypto_key", "key",
   "rate_limit", "trusted_subnet", "protocol"} \cup ConfigOption

TypeInv ==
  /\ prog \in {"server", "agent"}
  /\ file \subseteq InFile /\ env \subseteq Setting
  /\ args \in Seq(Option)
  /\ step \in {"path", "file", "defaults", "env", "register", "args"}
  /\ next \in Nat \ {0} /\ next <= Len(args) + 1
  /\ DOMAIN from = Setting
  /\ readFile \in BOOLEAN
  /\ status \in {"starting", "fatal", "usage", "serving", "unserved", "panicked",
                 "mute", "sending"}

\* A file is read if and only if there is a path to one.
FileInv ==
  /\ step \in {"path", "file", "defaults"} => ~readFile
  /\ step = "file" => HasPath
  /\ step = "defaults" => ~HasPath
  /\ step \in {"env", "register", "args"} => (readFile <=> HasPath)

\* Where a setting is from before the environment, after it, and after its
\* flag is registered.
OfStart(s) == IF readFile THEN OfFile(s) ELSE "default"

OfStartOrEnv(s) == IF s \in env THEN "env" ELSE OfStart(s)

OfFlag(s) ==
  CASE s = "protocol" -> "default"
    [] s = "trusted_subnet" ->
         IF OfStartOrEnv("crypto_key") \in {"file", "env"}
           THEN "crypto_key" ELSE "default"
    [] OTHER -> OfStartOrEnv(s)

\* The options flag.Parse has passed.
PassedArgs == {args[i] : i \in 1 .. next - 1}

SourceInv ==
  /\ step # "args" => next = 1
  /\ \A s \in Setting :
       /\ step = "env" => from[s] = OfStart(s)
       /\ step = "register" => from[s] = OfStartOrEnv(s)
       /\ step = "args" => from[s] = IF s \in PassedArgs THEN "arg" ELSE OfFlag(s)
  /\ PassedArgs \subseteq Known

\* A program has started only with all of its command line parsed, and an
\* agent does what its settings make it do.
StartedInv ==
  Started =>
    /\ step = "args" /\ next > Len(args)
    /\ prog = "agent" => status = Running

IInv == TypeInv /\ FileInv /\ SourceInv /\ StartedInv

-----------------------------------------------------------------------------
(* Settings and options.                                                   *)

\* The settings of each program, all of them options.
LEMMA SettingIs ==
  ASSUME prog \in {"server", "agent"}
  PROVE  /\ Setting = IF prog = "server"
                        THEN {"store_interval", "crypto_key", "key", "trusted_subnet",
                              "protocol"}
                        ELSE {"poll_interval", "report_interval", "crypto_key",
                              "rate_limit", "protocol"}
         /\ Setting \subseteq Option /\ Setting \cup ConfigOption \subseteq Option
  BY DEF Setting, Settings, Option

\* The program keeps what it was started with.
LEMMA SourcesStay ==
  ASSUME [Next]_vars
  PROVE  UNCHANGED sourceVars
  BY DEF Next, GetConfigPath, LoadFile, FileError, SetDefaults, ParseEnv, EnvError,
         RegisterFlags, ParseArg, UnknownArg, StartServer, AgentFatal, StartAgent,
         Goto, Become, vars, sourceVars

\* A program that has started, or failed to, does nothing more here.
LEMMA Ends ==
  ASSUME TypeInv, [Next]_vars
  PROVE  UNCHANGED vars \/ status = "starting"
  BY DEF Next, GetConfigPath, LoadFile, FileError, SetDefaults, ParseEnv, EnvError,
         RegisterFlags, ParseArg, UnknownArg, StartServer, AgentFatal, StartAgent,
         Parsed, At

\* A program about to parse its flags.
LEMMA InitIInv == Init => IInv
<1> SUFFICES ASSUME Init PROVE IInv
  OBVIOUS
<1>1. prog \in {"server", "agent"}
  BY DEF Init, Settings
<1>2. args \in Seq(Option)
  <2>1. PICK m \in 0 .. MaxArgs : args \in [1 .. m -> Setting \cup ConfigOption]
    BY DEF Init, BoundedSeq, SeqOf
  <2>2. args \in [1 .. m -> Option]
    BY <1>1, <2>1, SettingIs
  <2> QED
    BY <2>2, ConfigurationAssumption
<1>3. 1 <= Len(args) + 1
  BY <1>2
<1>4. TypeInv
  <2>1. file \subseteq InFile /\ env \subseteq Setting /\ DOMAIN from = Setting
    BY DEF Init
  <2>2. next \in Nat \ {0} /\ next <= Len(args) + 1
    BY <1>3 DEF Init
  <2> QED
    BY <1>1, <1>2, <2>1, <2>2 DEF Init, TypeInv
<1>5. FileInv
  BY DEF Init, FileInv
<1>6. SourceInv
  BY DEF Init, SourceInv, PassedArgs
<1>7. StartedInv
  BY DEF Init, StartedInv, Started
<1> QED
  BY <1>4, <1>5, <1>6, <1>7 DEF IInv

-----------------------------------------------------------------------------
(* The steps keep the invariant.                                           *)

\* The types.
LEMMA TypeNext ==
  ASSUME TypeInv, [Next]_vars
  PROVE  TypeInv'
<1>1. UNCHANGED sourceVars /\ Setting' = Setting
  BY SourcesStay DEF sourceVars, Setting
<1>2. /\ next' \in Nat \ {0} /\ next' <= Len(args) + 1
      /\ \/ UNCHANGED next
         \/ step = "args" /\ next <= Len(args) /\ next' = next + 1 /\ ParseArg
  <2>1. \/ UNCHANGED next
        \/ ParseArg
    BY DEF Next, GetConfigPath, LoadFile, FileError, SetDefaults, ParseEnv, EnvError,
           RegisterFlags, UnknownArg, StartServer, AgentFatal, StartAgent, Become, vars
  <2>2. Len(args) \in Nat /\ next \in Nat \ {0} /\ next <= Len(args) + 1
    BY DEF TypeInv
  <2> QED
    BY <2>1, <2>2 DEF ParseArg, At
<1>3. DOMAIN from' = Setting
  BY DEF TypeInv, Next, GetConfigPath, LoadFile, FileError, SetDefaults, ParseEnv,
         EnvError, RegisterFlags, ParseArg, UnknownArg, StartServer, AgentFatal,
         StartAgent, Become, vars
<1>4. /\ step' \in {"path", "file", "defaults", "env", "register", "args"}
      /\ readFile' \in BOOLEAN
  BY DEF TypeInv, Next, GetConfigPath, LoadFile, FileError, SetDefaults, ParseEnv,
         EnvError, RegisterFlags, ParseArg, UnknownArg, StartServer, AgentFatal,
         StartAgent, Become, vars, Goto
<1>5. status' \in {"starting", "fatal", "usage", "serving", "unserved", "panicked",
                   "mute", "sending"}
  <2>1. Running \in {"panicked", "mute", "sending"}
    BY DEF Running
  <2> QED
    BY <2>1
       DEF TypeInv, Next, GetConfigPath, LoadFile, FileError, SetDefaults, ParseEnv,
           EnvError, RegisterFlags, ParseArg, UnknownArg, StartServer, AgentFatal,
           StartAgent, Become, vars, Goto
<1> QED
  BY <1>1, <1>2, <1>3, <1>4, <1>5 DEF TypeInv, sourceVars

\* The file is read where getConfigPath has found one.
LEMMA FileNext ==
  ASSUME TypeInv, FileInv, [Next]_vars
  PROVE  FileInv'
<1>1. HasPath' <=> HasPath
  BY SourcesStay DEF HasPath, sourceVars
<1>2. CASE GetConfigPath
  BY <1>1, <1>2 DEF GetConfigPath, FileInv, Goto, At
<1>3. CASE LoadFile \/ SetDefaults
  BY <1>1, <1>3 DEF LoadFile, SetDefaults, FileInv, Goto, At
<1>4. CASE ParseEnv \/ RegisterFlags
  BY <1>1, <1>4 DEF ParseEnv, RegisterFlags, FileInv, Goto, At
<1>5. CASE UNCHANGED <<step, readFile>>
  BY <1>1, <1>5 DEF FileInv
<1> QED
  BY <1>2, <1>3, <1>4, <1>5
     DEF Next, FileError, EnvError, ParseArg, UnknownArg, StartServer, AgentFatal,
         StartAgent, Become, vars

\* Each step moves the sources as its code does.
LEMMA SourceNext ==
  ASSUME TypeInv, FileInv, SourceInv, [Next]_vars
  PROVE  SourceInv'
<1>1. UNCHANGED <<prog, file, env, args>> /\ Setting' = Setting /\ Known' = Known
  BY SourcesStay DEF sourceVars, Setting, Known
<1>2. ASSUME readFile' = readFile, NEW s
      PROVE  /\ OfStart(s)' = OfStart(s)
             /\ OfStartOrEnv(s)' = OfStartOrEnv(s)
             /\ OfFlag(s)' = OfFlag(s)
  BY <1>1, <1>2 DEF OfStart, OfFile, OfStartOrEnv, OfFlag
<1>3. CASE GetConfigPath
  BY <1>1, <1>3 DEF GetConfigPath, SourceInv, PassedArgs, Goto, At
<1>4. CASE LoadFile \/ SetDefaults
  <2>1. step # "args" /\ step' = "env" /\ UNCHANGED next /\ next = 1
    BY <1>4 DEF LoadFile, SetDefaults, Goto, At, SourceInv
  <2>2. PassedArgs' = {}
    BY <2>1 DEF PassedArgs
  <2>3. \A s \in Setting : from'[s] = OfStart(s)'
    <3>1. CASE LoadFile
      BY <1>1, <3>1 DEF LoadFile, OfStart, OfFile
    <3>2. CASE SetDefaults
      BY <1>1, <3>2 DEF SetDefaults, OfStart, FileInv, At
    <3> QED
      BY <1>4, <3>1, <3>2
  <2> QED
    BY <1>1, <2>1, <2>2, <2>3 DEF SourceInv
<1>5. CASE ParseEnv
  <2>1. /\ step = "env" /\ step' = "register" /\ UNCHANGED <<next, readFile>>
        /\ next = 1
        /\ from' = [s \in Setting |-> OfEnv(s)]
    BY <1>5 DEF ParseEnv, Goto, At, SourceInv
  <2>2. PassedArgs' = {}
    BY <2>1 DEF PassedArgs
  <2>3. \A s \in Setting : from'[s] = OfStartOrEnv(s)
    BY <2>1 DEF OfEnv, OfStartOrEnv, SourceInv
  <2>4. \A s \in Setting : from'[s] = OfStartOrEnv(s)'
    BY <1>2, <2>1, <2>3
  <2> QED
    BY <1>1, <2>1, <2>2, <2>4 DEF SourceInv
<1>6. CASE RegisterFlags
  <2>1. /\ step = "register" /\ step' = "args" /\ UNCHANGED <<next, readFile>>
        /\ next = 1
        /\ from' = [s \in Setting |-> Registered(s)]
    BY <1>6 DEF RegisterFlags, Goto, At, SourceInv
  <2>2. PassedArgs' = {}
    BY <2>1 DEF PassedArgs
  <2>3. \A s \in Setting : from[s] = OfStartOrEnv(s)
    BY <2>1 DEF SourceInv
  <2>4. "crypto_key" \in Setting
    BY SettingIs DEF TypeInv
  <2>5. \A s \in Setting : from'[s] = OfFlag(s)
    BY <2>1, <2>3, <2>4 DEF Registered, OfFlag
  <2>6. \A s \in Setting : from'[s] = OfFlag(s)'
    BY <1>2, <2>1, <2>5
  <2> QED
    BY <1>1, <2>1, <2>2, <2>6 DEF SourceInv
<1>7. CASE ParseArg
  <2>1. /\ step = "args" /\ step' = "args" /\ next' = next + 1 /\ UNCHANGED readFile
        /\ args[next] \in Known
        /\ from' = [s \in Setting |-> IF s = args[next] THEN "arg" ELSE from[s]]
    BY <1>7 DEF ParseArg, At
  <2>2. PassedArgs' = PassedArgs \cup {args[next]}
    <3>1. next \in Nat \ {0}
      BY DEF TypeInv
    <3>2. 1 .. next' - 1 = (1 .. next - 1) \cup {next}
      BY <2>1, <3>1
    <3> QED
      BY <1>1, <3>2 DEF PassedArgs
  <2>3. \A s \in Setting : from'[s] = IF s \in PassedArgs' THEN "arg" ELSE OfFlag(s)
    BY <2>1, <2>2 DEF SourceInv
  <2>4. \A s \in Setting : from'[s] = IF s \in PassedArgs' THEN "arg" ELSE OfFlag(s)'
    BY <1>2, <2>1, <2>3
  <2>5. PassedArgs' \subseteq Known'
    BY <1>1, <2>1, <2>2 DEF SourceInv
  <2> QED
    BY <1>1, <2>1, <2>4, <2>5 DEF SourceInv
<1>8. CASE UNCHANGED <<step, next, from, readFile>>
  <2>1. PassedArgs' = PassedArgs
    BY <1>1, <1>8 DEF PassedArgs
  <2>2. \A s : /\ OfStart(s)' = OfStart(s)
               /\ OfStartOrEnv(s)' = OfStartOrEnv(s)
               /\ OfFlag(s)' = OfFlag(s)
    BY <1>2, <1>8
  <2> QED
    BY <1>1, <1>8, <2>1, <2>2 DEF SourceInv
<1> QED
  BY <1>3, <1>4, <1>5, <1>6, <1>7, <1>8
     DEF Next, FileError, EnvError, UnknownArg, StartServer, AgentFatal, StartAgent,
         Become, vars

\* A program starts with its command line parsed, and with its outcome.
LEMMA StartedNext ==
  ASSUME TypeInv, StartedInv, [Next]_vars
  PROVE  StartedInv'
<1>1. CASE UNCHANGED vars
  BY <1>1 DEF vars, sourceVars, StartedInv, Started, Running
<1>2. CASE status' \in {"starting", "fatal", "usage"}
  BY <1>2 DEF StartedInv, Started
<1>3. CASE StartServer
  BY <1>3 DEF StartServer, Parsed, At, Become, sourceVars, StartedInv, Started
<1>4. CASE StartAgent
  <2>1. step = "args" /\ next > Len(args) /\ UNCHANGED <<step, next, from, args>>
    BY <1>4 DEF StartAgent, Parsed, At, Become, sourceVars
  <2>2. status' = Running'
    BY <1>4, <2>1 DEF StartAgent, Become, Running
  <2> QED
    BY <2>1, <2>2 DEF StartedInv
<1> QED
  BY <1>1, <1>2, <1>3, <1>4
     DEF Next, GetConfigPath, LoadFile, FileError, SetDefaults, ParseEnv, EnvError,
         RegisterFlags, ParseArg, UnknownArg, AgentFatal, Become, Goto, At

-----------------------------------------------------------------------------
(* The theorems.                                                           *)

\* The invariant holds in every state of Spec.
THEOREM Invariance == Spec => []IInv
<1>1. Init => IInv
  BY InitIInv
<1>2. IInv /\ [Next]_vars => IInv'
  BY TypeNext, FileNext, SourceNext, StartedNext DEF IInv
<1> QED
  BY <1>1, <1>2, PTL DEF Spec

\* When a program has started, flag.Parse has passed its whole command line.
LEMMA AllParsed ==
  ASSUME IInv, Started
  PROVE  /\ PassedArgs = ToSet(args) /\ step = "args"
         /\ \A s \in Setting : from[s] = IF s \in ToSet(args) THEN "arg" ELSE OfFlag(s)
         /\ ToSet(args) \subseteq Known
<1>1. step = "args" /\ next > Len(args) /\ next <= Len(args) + 1 /\ next \in Nat
  BY DEF IInv, StartedInv, TypeInv
<1>2. args \in Seq(Option) /\ Len(args) \in Nat
  BY DEF IInv, TypeInv
<1>3. 1 .. next - 1 = 1 .. Len(args)
  BY <1>1, <1>2
<1>4. DOMAIN args = 1 .. Len(args)
  BY <1>2
<1>5. PassedArgs = ToSet(args)
  BY <1>3, <1>4 DEF PassedArgs, ToSet
<1> QED
  BY <1>1, <1>5 DEF IInv, SourceInv

\* parseFlags of both programs: for any file, environment and command line, of
\* any length, a program that starts takes each setting from the strongest
\* place that names it, with the exceptions the property spells out.
THEOREM SourceOfSettings == Spec => []SettingsHaveTheirSource
<1>1. IInv => SettingsHaveTheirSource
  <2> SUFFICES ASSUME IInv, Started, NEW s \in Setting
               PROVE  from[s] =
                        CASE s \in ToSet(args)    -> "arg"
                          [] s = "protocol" /\ s \notin ToSet(args) -> "default"
                          [] s = "trusted_subnet" /\ s \notin ToSet(args) ->
                               IF \/ "crypto_key" \in env
                                  \/ readFile /\ "crypto_key" \in file
                                 THEN "crypto_key" ELSE "default"
                          [] OTHER -> Strongest(s)
    BY DEF SettingsHaveTheirSource
  <2>1. from[s] = IF s \in ToSet(args) THEN "arg" ELSE OfFlag(s)
    BY AllParsed
  <2>2. CASE s \in ToSet(args)
    BY <2>1, <2>2
  <2>3. CASE s \notin ToSet(args) /\ s = "protocol"
    BY <2>1, <2>3 DEF OfFlag
  <2>4. CASE s \notin ToSet(args) /\ s = "trusted_subnet"
    <3>1. OfStartOrEnv("crypto_key") \in {"file", "env"}
            <=> "crypto_key" \in env \/ (readFile /\ "crypto_key" \in file)
      BY DEF OfStartOrEnv, OfStart, OfFile
    <3> QED
      BY <2>1, <2>4, <3>1 DEF OfFlag
  <2>5. CASE s \notin ToSet(args) /\ s \notin {"protocol", "trusted_subnet"}
    <3>1. from[s] = OfStartOrEnv(s)
      BY <2>1, <2>5 DEF OfFlag
    <3>2. OfStartOrEnv(s) = Strongest(s)
      BY <2>5 DEF OfStartOrEnv, OfStart, OfFile, Strongest
    <3> QED
      BY <2>5, <3>1, <3>2
  <2> QED
    BY <2>2, <2>3, <2>4, <2>5
<1> QED
  BY <1>1, Invariance, PTL

\* An agent with a configuration file sends only if both intervals and the rate
\* limit are named, the latter elsewhere, and panics or has no sender if they are
\* not; without a file it always sends.
THEOREM WhenAgentSends == Spec => []AgentSends
<1>1. IInv => AgentSends
  <2> SUFFICES ASSUME IInv, Started, prog = "agent" PROVE AgentSends
    BY DEF AgentSends
  <2>1. {"poll_interval", "report_interval", "rate_limit"} \subseteq Setting
    BY SettingIs DEF IInv, TypeInv
  <2>2. file \subseteq InFile
    BY DEF IInv, TypeInv
  <2>3. \A s \in {"poll_interval", "report_interval", "rate_limit"} :
          from[s] = "zero" <=> ~Named(s)
    <3> SUFFICES ASSUME NEW s \in {"poll_interval", "report_interval", "rate_limit"}
                 PROVE  from[s] = "zero" <=> ~Named(s)
      OBVIOUS
    <3>1. from[s] = IF s \in ToSet(args) THEN "arg" ELSE OfFlag(s)
      BY <2>1, AllParsed
    <3>2. OfFlag(s) = OfStartOrEnv(s)
      BY DEF OfFlag
    <3> QED
      BY <3>1, <3>2 DEF OfStartOrEnv, OfStart, OfFile, Named
  <2>4. status = Running
    BY DEF IInv, StartedInv
  <2> QED
    BY <2>3, <2>4 DEF AgentSends, Running
<1> QED
  BY <1>1, Invariance, PTL

\* A program that starts with a configuration file on its command line is an
\* agent that was given -config; it has read a file unless another option
\* stands before it.
THEOREM ConfigOnCommandLine == Spec => []FileArgument
<1>1. IInv => FileArgument
  <2> SUFFICES ASSUME IInv, Started, NEW o \in ConfigOption, o \in ToSet(args)
               PROVE  /\ prog = "agent" /\ "-c" \notin ToSet(args)
                      /\ readFile \/ args[1] # "-config"
    BY DEF FileArgument
  <2>1. ToSet(args) \subseteq Known /\ step = "args"
    BY AllParsed
  <2>2. prog = "agent" /\ "-c" \notin Known
    BY <2>1, SettingIs DEF Known, ConfigOption, IInv, TypeInv
  <2>3. args # <<>>
    BY DEF ToSet
  <2>4. readFile <=> HasPath
    BY <2>1 DEF IInv, FileInv
  <2> QED
    BY <2>1, <2>2, <2>3, <2>4 DEF HasPath, ConfigOption
<1> QED
  BY <1>1, Invariance, PTL
=============================================================================
