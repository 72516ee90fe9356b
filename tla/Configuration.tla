------------------------------- MODULE Configuration -------------------------------
(***************************************************************************)
(* How a configuration comes into a process and what follows it there: the *)
(* command line (framework/client_parser.cpp, command.cpp, process.cpp),   *)
(* the file that carries it to the processes of the application            *)
(* (utility/json_manager.cpp), config(), start() and stop() of the Python  *)
(* module, aclInit on a thread of its own, and what they switch: the trace *)
(* status, the analyzers, the output, the Python collectors                *)
(* (trace_manager/event_trace_manager.cpp, event_report.cpp).              *)
(*                                                                         *)
(* One Python thread of a process calls config(), start() and stop(); a    *)
(* thread without the interpreter lock calls aclInit, which stays between  *)
(* its steps and theirs.  A process may be started while the file it will  *)
(* read is written; copies of one process do not write their common file   *)
(* at the same time.                                                       *)
(***************************************************************************)
EXTENDS ClientParser, MemoryCompare

CONSTANTS Procs,         \* the processes of the application
          First,         \* the one the command runs, or that is started by hand
          CommandFile,   \* the file of the command's own process
          NoFile,        \* MSMEMSCOPE_CONFIG_ENV is not set
          Options,       \* the options a command line may have
          Dictionaries,  \* the arguments config() may be called with
          ComparedFiles, \* the pairs of files that may be compared
          Unwritable,    \* the sets of files whose directory may be one that cannot be made
          Dirs, DefaultDir, \* output directories, and the one used if none is given
          MaxOptions,    \* bound on the options of the command line
          MaxCalls       \* bound on options read, calls made and processes started

\* What an option or a key of a dictionary may be given, where the parser relies on it.
Fits(opt, param) ==
    /\ opt = "steps" => param \in Seq(Int)
    /\ opt \in {"call-stack", "call_stack"} => param \in Seq([stack : Word, depth : Int])
    /\ opt = "watch" => param \in [start : Word, colon : BOOLEAN, outputId : Int,
                                   rest : Seq(Word)]
    /\ opt = "output" => param \in [kind : {"valid", "invalid", "blank", "tooLong"},
                                    dir : Dirs]
    /\ opt = "input" => param \in [tooLong : BOOLEAN, valid : Nat]

ASSUME ConfigurationAssumption ==
    /\ \A option \in Options : Fits(option[1], option[2])
    /\ \A dictionary \in Dictionaries : \A key \in DOMAIN dictionary :
           Fits(key, dictionary[key])
    /\ First \in Procs
    /\ DefaultDir \in Dirs
    /\ CommandFile \notin Procs
    /\ NoFile \notin Procs \cup {CommandFile}
    /\ Unwritable \subseteq SUBSET (Procs \cup {CommandFile})
    /\ MaxOptions \in 0..MaxCalls
    /\ MaxCalls \in Nat

VARIABLES
    command,    \* the command line: how far it is read, and what it has said
    comparison, \* MemoryCompare::result_, and the two files it comes from
    process,    \* the processes of the application
    caller,     \* the two threads of each
    files,      \* what the files hold that a process has written
    torn,       \* the files that are being written
    writer,     \* history: the process that wrote a file last
    blocked,    \* the files whose directory cannot be made
    calls       \* counts towards MaxCalls

vars == <<command, comparison, process, caller, files, torn, writer, blocked,
          calls>>

Files   == Procs \cup {CommandFile}
Callers == {"python", "acl"}

Idle == [at |-> "idle", call |-> "none", on |-> FALSE, alone |-> TRUE]

\* A process as it is after exec, with the environment it was given.
NewProcess(p, env) ==
    [up |-> TRUE, env |-> env, project |-> p,
     loaded |-> FALSE, config |-> InitialConfig(DefaultDir), managed |-> FALSE,
     status |-> "NOT_IN_TRACING", reporting |-> FALSE, analyzers |-> {},
     dump |-> [format |-> "csv", effective |-> FALSE],
     output |-> [made |-> FALSE, dir |-> DefaultDir, effective |-> FALSE],
     aclInit |-> FALSE, torch |-> FALSE, collector |-> FALSE,
     hook |-> FALSE, lostHooks |-> 0, pyTrace |-> FALSE, logLevel |-> "warn"]

\* Either a command is typed, or the application is started by hand.
Init ==
    /\ \E byHand \in BOOLEAN :
          /\ command = [phase  |-> IF byHand THEN "none" ELSE "options",
                        config |-> InitialConfig(DefaultDir), inputs |-> 0]
          /\ process = [p \in Procs |->
                [NewProcess(p, NoFile) EXCEPT !.up = byHand /\ p = First]]
    /\ comparison = [base |-> <<>>, compare |-> <<>>, rows |-> <<>>]
    /\ caller = [p \in Procs |-> [c \in Callers |-> Idle]]
    /\ files = <<>>
    /\ torn = {}
    /\ writer = <<>>
    /\ blocked \in Unwritable
    /\ calls = 0

Counted == calls < MaxCalls /\ calls' = calls + 1

------------------------------------------------------------------------------------
\* The command line

\* ParseInputPaths: the valid paths add up, whatever option they come from.
ParseInputPaths(param, inputs, config) ==
    IF param.tooLong THEN Accept(config)
    ELSE IF inputs + param.valid # 2 THEN Reject(config)
    ELSE Accept([config EXCEPT !.inputCorrectPaths = TRUE])

\* ParseUserCommand.  The Python trace is not available here: there is no interpreter.
ParseUserCommand(opt, param, inputs, config) ==
    CASE opt = "steps"        -> ParseSelectSteps(param, config)
      [] opt = "analysis"     -> ParseAnalysis(param, config)
      [] opt = "call-stack"   -> ParseCallstack(param, config)
      [] opt = "compare"      -> Accept([config EXCEPT !.enableCompare = TRUE])
      [] opt = "watch"        -> ParseWatchConfig(param, config)
      [] opt = "input"        -> ParseInputPaths(param, inputs, config)
      [] opt = "output"       -> ParseOutputPath(param, config)
      [] opt = "level"        -> ParseDataLevel(param, config)
      [] opt = "events"       -> ParseEventTraceType(param, config)
      [] opt = "log-level"    -> ParseLogLv(param, config)
      [] opt = "data-format"  -> ParseDataFormat(param, config)
      [] opt = "device"       -> ParseDevice(param, config)
      [] opt = "collect-mode" -> ParseCollectMode(param, config)
      [] opt \in {"help", "version", "unknown"} -> Reject(config)
      [] OTHER                -> Accept(config)

\* One turn of the loop of Parse.  Help and the version end it, and with it the command.
ReadOption(opt, param) ==
    /\ command.phase = "options"
    /\ Counted /\ calls < MaxOptions
    /\ LET parsed == ParseUserCommand(opt, param, command.inputs, command.config)
       IN  command' = [phase  |-> IF parsed.ok THEN "options" ELSE "ended",
                       config |-> parsed.config,
                       inputs |-> IF opt = "input" /\ ~param.tooLong
                                  THEN command.inputs + param.valid ELSE command.inputs]
    /\ UNCHANGED <<comparison, process, caller, files, torn, writer, blocked>>

UserCommandPrecheck(config) ==
    /\ config.enableCompare = config.inputCorrectPaths
    /\ config.outputCorrectPaths

\* SetConfigImpl: the events that the chosen events and analyses need are added.
SetConfigImpl(config) == SetAnalysisDefaultConfig(SetEventDefaultConfig(config))

\* Seeded fault: the selected steps are not written into the file.
SavedWithoutSteps(config) ==
    [config EXCEPT !.inputCorrectPaths = FALSE, !.outputCorrectPaths = FALSE,
                   !.stepList = <<>>]

\* What the file keeps of a configuration; nothing reads the rest after the precheck.
Saved(config) ==
    [config EXCEPT !.inputCorrectPaths = FALSE, !.outputCorrectPaths = FALSE]

Compare(config) ==
    \E pair \in ComparedFiles, timeOver \in BOOLEAN :
        \E walked \in 0..(2 * (Len(pair.base) + Len(pair.compare)) + 2) :
            comparison' = [base |-> pair.base, compare |-> pair.compare,
                           rows |-> RunComparison(pair, config.levelType, timeOver, walked)]

\* DoUserCommand, once the options are read: SetConfig saves the configuration, and the
\* command compares two files or becomes the application (execvpe keeps the environment).
DoUserCommand ==
    /\ command.phase = "options"
    /\ LET config == SetEffectiveConfig(SetConfigImpl(command.config))
           saves  == UserCommandPrecheck(command.config) /\ CommandFile \notin blocked
       IN  /\ IF saves THEN /\ files'  = [f \in {CommandFile} |-> Saved(config)]
                             /\ writer' = [f \in {CommandFile} |-> CommandFile]
                        ELSE UNCHANGED <<files, writer>>
           /\ IF ~UserCommandPrecheck(command.config)
              THEN /\ command' = [command EXCEPT !.phase = "ended"]
                   /\ UNCHANGED <<process, comparison>>
              ELSE \/ /\ config.enableCompare
                      /\ Compare(config)
                      /\ command' = [command EXCEPT !.phase = "compared", !.config = config]
                      /\ UNCHANGED process
                   \/ /\ ~config.enableCompare
                      /\ command' = [command EXCEPT !.phase = "executed", !.config = config]
                      /\ process' = [process EXCEPT ![First] = NewProcess(First, CommandFile)]
                      /\ UNCHANGED comparison
    /\ UNCHANGED <<caller, torn, blocked, calls>>

------------------------------------------------------------------------------------
\* A process of the application

\* A file is there unless its directory could not be made or nobody has written it yet.
ReadJsonConfig(env) == files[env]

\* The first use of ConfigManager: the configuration in the file of the environment, or
\* the default one, which is not effective.  A file that is just being written is no JSON,
\* and nobody catches the exception.
ReadConfig(p) ==
    LET self == process[p]
    IN  /\ self.up /\ ~self.loaded
        /\ process' = [process EXCEPT ![p] =
              CASE self.env \in torn -> [self EXCEPT !.up = FALSE]
                [] self.env \in DOMAIN files \ torn ->
                      [self EXCEPT !.loaded = TRUE, !.config = ReadJsonConfig(self.env)]
                [] OTHER ->
                      [self EXCEPT !.loaded = TRUE,
                                   !.config = SetConfigImpl(InitialConfig(DefaultDir))]]
        /\ UNCHANGED <<command, comparison, caller, files, torn, writer, blocked, calls>>

Running(p) == process[p].up /\ process[p].loaded

\* EventTraceManager, built by its first use: InitTraceStatus.
Manage(self) ==
    IF self.managed THEN self
    ELSE [self EXCEPT !.managed = TRUE,
                      !.status = IF /\ self.config.collectMode = "immediate"
                                    /\ self.config.isEffective
                                 THEN "IN_TRACING" ELSE "NOT_IN_TRACING"]

Analyzers(config) == config.analysisType \cap {"decompose", "inefficient"}

\* FileCreateManager is built by the first save or the first line of the log, of whatever
\* level; its directory is this one for good.
MakeOutput(self) ==
    IF self.output.made THEN self
    ELSE [self EXCEPT !.output = [made |-> TRUE, dir |-> self.config.outputDir,
                                  effective |-> self.config.isEffective]]

\* EventReport, and Dump with it, whose configuration is this one for good.  It logs that it
\* is there.
Report(self) ==
    IF self.reporting THEN self
    ELSE MakeOutput([self EXCEPT !.reporting = TRUE, !.analyzers = Analyzers(self.config),
                                 !.dump = [format    |-> self.config.dataFormat,
                                           effective |-> self.config.isEffective]])

\* A call of the application that is hooked.  It is reported while tracing is on.
HookedCall(p) ==
    /\ Running(p)
    /\ LET self == Manage(process[p])
       IN  /\ process' = [process EXCEPT ![p] =
                  IF self.status = "IN_TRACING" THEN Report(self) ELSE self]
           /\ process' # process
    /\ UNCHANGED <<command, comparison, caller, files, torn, writer, blocked, calls>>

\* A line of the log from anywhere else: a hook that fails, a record that is refused.
LogLine(p) ==
    /\ Running(p) /\ ~process[p].output.made
    /\ process' = [process EXCEPT ![p] = MakeOutput(@)]
    /\ UNCHANGED <<command, comparison, caller, files, torn, writer, blocked, calls>>

\* The Python modules of the collectors are only imported once torch is (external).
ImportTorch(p) ==
    /\ process[p].up /\ ~process[p].torch
    /\ caller[p]["python"].at = "idle"
    /\ process' = [process EXCEPT ![p].torch = TRUE]
    /\ caller' = [caller EXCEPT ![p]["acl"].alone = (@ /\ caller[p]["acl"].at = "idle")]
    /\ UNCHANGED <<command, comparison, files, torn, writer, blocked, calls>>

------------------------------------------------------------------------------------
\* config(), start(), stop() and aclInit

Other(c) == CHOOSE other \in Callers : other # c

\* A call begins; two calls that overlap know it of each other.
Begin(p, c, call, at) ==
    LET free == caller[p][Other(c)].at = "idle"
    IN  caller' = [caller EXCEPT
            ![p] = [x \in Callers |->
                       IF x = c THEN [Idle EXCEPT !.at = at, !.call = call, !.alone = free]
                       ELSE [caller[p][x] EXCEPT !.alone = @ /\ free]]]

Goto(p, c, at) == caller' = [caller EXCEPT ![p][c].at = at]

Return(p, c) == caller' = [caller EXCEPT ![p][c] = Idle]

\* SaveConfigToJson: the environment is set first, whether the file can be made or not.
\* Opening it empties it; it is written in a step of its own.
OpenFile(p) ==
    /\ process[p].project \notin torn
    /\ torn' = IF process[p].project \in blocked
               THEN torn ELSE torn \cup {process[p].project}

WriteFile(p) ==
    LET file == process[p].project
    IN  /\ files' = IF file \in blocked THEN files
                    ELSE [f \in DOMAIN files \cup {file} |->
                             IF f = file THEN Saved(process[p].config) ELSE files[f]]
        /\ writer' = [f \in DOMAIN files' |-> IF f = file THEN p ELSE writer[f]]
        /\ torn' = torn \ {file}

\* What can be set once only: the command line or the first config() has the say.
ConfigPolicyTable == {"output", "data_format", "watch"}

\* GetConfigAfterInit: everything else starts from the defaults again.
GetConfigAfterInit(old) ==
    [InitialConfig(DefaultDir) EXCEPT !.collectMode = "deferred",
                                      !.isEffective = old.isEffective,
                                      !.dataFormat  = old.dataFormat,
                                      !.watchConfig = old.watchConfig,
                                      !.outputDir   = old.outputDir]

ParseEntry(key, param, config) ==
    CASE key = "call_stack"  -> ParseCallstack(param, config)
      [] key = "level"       -> ParseDataLevel(param, config)
      [] key = "events"      -> ParseEventTraceType(param, config)
      [] key = "device"      -> ParseDevice(param, config)
      [] key = "data_format" -> ParseDataFormat(param, config)
      [] key = "output"      -> ParseOutputPath(param, config)
      [] key = "analysis"    -> ParseAnalysis(param, config)
      [] key = "watch"       -> ParseWatchConfig(param, config)
      [] OTHER               -> Reject(config)

\* The keys whose entries are parsed at all, and those of them that fail.
Parsed(dictionary, old) ==
    DOMAIN dictionary \ (IF old.isEffective THEN ConfigPolicyTable ELSE {})

Failing(dictionary, old) ==
    {key \in Parsed(dictionary, old) :
        ~ParseEntry(key, dictionary[key], GetConfigAfterInit(old)).ok}

\* The configuration in which each of `changed` has written the fields it changes.
Merged(config, changed) ==
    LET by(field) == {other \in changed : other[field] # config[field]}
    IN  [field \in DOMAIN config |->
            IF by(field) = {} THEN config[field]
                              ELSE (CHOOSE other \in by(field) : TRUE)[field]]

\* SetConfig(pythonConfig): the entries come in no order, and each writes its own part.
SetConfig(dictionary, old) ==
    LET new == GetConfigAfterInit(old)
        entries == {ParseEntry(key, dictionary[key], new).config :
                       key \in Parsed(dictionary, old)}
    IN  SetEffectiveConfig(SetConfigImpl(Merged(new, entries)))

\* What the entries do to the Python trace.  If one fails, "events" may have been read
\* before it or not.
TraceAfterConfig(dictionary, old, active) ==
    IF "events" \notin DOMAIN dictionary THEN {active}
    ELSE {TraceActiveAfter(dictionary.events, active)}
         \cup (IF Failing(dictionary, old) \subseteq {"events"} THEN {} ELSE {active})

\* config(): an empty dictionary is refused before.  A failure leaves all but the trace.
Configure(p, dictionary) ==
    /\ Running(p) /\ caller[p]["python"].at = "idle"
    /\ DOMAIN dictionary # {}
    /\ Counted
    /\ LET now == process[p]
           config == SetConfig(dictionary, now.config)
       IN  \E active \in TraceAfterConfig(dictionary, now.config, now.pyTrace) :
              IF Failing(dictionary, now.config) # {}
              THEN /\ process' = [process EXCEPT ![p] = [now EXCEPT !.pyTrace = active]]
                   /\ UNCHANGED <<caller, torn>>
              ELSE /\ process' = [process EXCEPT ![p] = MakeOutput(
                         [now EXCEPT !.pyTrace = active, !.config = config,
                                     !.logLevel = config.logLevel, !.env = now.project])]
                   /\ Begin(p, "python", "config", "write")
                   /\ OpenFile(p)
    /\ UNCHANGED <<command, comparison, files, writer, blocked>>

\* start() and stop(): ReportTraceStatus, then SetTraceStatus.  Its mutex keeps out nobody
\* here: the other caller does not take it.
SetTraceStatus(p, call) ==
    /\ Running(p) /\ caller[p]["python"].at = "idle"
    /\ Counted
    /\ process' = [process EXCEPT ![p] =
           [Manage(Report(@)) EXCEPT
               !.status = IF call = "start" THEN "IN_TRACING" ELSE "NOT_IN_TRACING"]]
    /\ Begin(p, "python", call, "aten")
    /\ UNCHANGED <<command, comparison, files, torn, writer, blocked>>

\* aclInit: SetAclInitStatus, after the real one.
AclInit(p) ==
    /\ Running(p) /\ ~process[p].aclInit
    /\ Counted
    /\ process' = [process EXCEPT ![p] = [Manage(@) EXCEPT !.aclInit = TRUE]]
    /\ Begin(p, "acl", "aclInit", "aten")
    /\ UNCHANGED <<command, comparison, files, torn, writer, blocked>>

\* The file is written: before the collectors are switched by config(), after by start().
Write(p) ==
    /\ caller[p]["python"].at = "write"
    /\ WriteFile(p)
    /\ IF caller[p]["python"].call = "config" THEN Goto(p, "python", "aten")
                                              ELSE Return(p, "python")
    /\ UNCHANGED <<command, comparison, process, blocked, calls>>

Tracing(self) == self.managed /\ self.status = "IN_TRACING"

WantsCollector(self) == Tracing(self) /\ "op" \in self.config.levelType /\ self.aclInit

WantsHook(self) ==
    Tracing(self) /\ "decompose" \in self.config.analysisType /\ self.aclInit

\* HandleWithATenCollect and HandleWithDecompose: what to call is decided first ...
Decide(p, c) ==
    /\ caller[p][c].at \in {"aten", "hook"}
    /\ process' = [process EXCEPT ![p] = Manage(@)]
    /\ caller' = [caller EXCEPT ![p][c].at = IF @ = "aten" THEN "atenCall" ELSE "hookCall",
                                ![p][c].on = IF caller[p][c].at = "aten"
                                             THEN WantsCollector(Manage(process[p]))
                                             ELSE WantsHook(Manage(process[p]))]
    /\ UNCHANGED <<command, comparison, files, torn, writer, blocked, calls>>

\* ... and called with the interpreter lock, which the Python thread only gives up in a
\* Python function or after its call.
HasInterpreter(p, c) ==
    c = "python" \/ caller[p]["python"].at \in {"idle", "atenCall", "hookCall"}

\* AtenCollector: enabling and disabling it twice is the same as once.
CallAtenCollector(p, c) ==
    /\ caller[p][c].at = "atenCall" /\ HasInterpreter(p, c)
    /\ process' = [process EXCEPT ![p].collector =
           IF process[p].torch THEN caller[p][c].on ELSE @]
    /\ Goto(p, c, "hook")
    /\ UNCHANGED <<command, comparison, files, torn, writer, blocked, calls>>

\* OptimizerStepHook: enabling it once more registers one more hook, and only the last can
\* be removed.
EnableHook(self) ==
    [self EXCEPT !.hook = TRUE, !.lostHooks = IF self.hook THEN @ + 1 ELSE @]

DisableHook(self) == [self EXCEPT !.hook = FALSE]

\* Seeded fault: the hook is only ever enabled.
SwitchHookOn(self, on) == IF self.torch /\ on THEN EnableHook(self) ELSE self

SwitchHook(self, on) ==
    IF ~self.torch THEN self ELSE IF on THEN EnableHook(self) ELSE DisableHook(self)

\* Seeded fault: an analysis that is no longer asked for goes on.
UpdateAnalysisTypeAdds(self) ==
    [Report(self) EXCEPT !.analyzers = @ \cup Analyzers(self.config)]

\* UpdateAnalysisType: the analyzers follow the configuration.
UpdateAnalysisType(self) == [Report(self) EXCEPT !.analyzers = Analyzers(self.config)]

\* The second of the two calls, and what is left to do after it: start() saves the
\* configuration, config() switches the analyzers, aclInit is reported while tracing is on.
CallOptimizerHook(p, c) ==
    /\ caller[p][c].at = "hookCall" /\ HasInterpreter(p, c)
    /\ LET self == SwitchHook(process[p], caller[p][c].on)
           call == caller[p][c].call
       IN  /\ process' = [process EXCEPT ![p] =
                 CASE call = "config" -> UpdateAnalysisType(self)
                   [] call = "start"  -> MakeOutput([self EXCEPT !.env = self.project])
                   [] call = "aclInit" /\ Tracing(self) -> Report(self)
                   [] OTHER -> self]
           /\ IF call = "start" THEN Goto(p, c, "write") /\ OpenFile(p)
                                ELSE Return(p, c) /\ UNCHANGED torn
    /\ UNCHANGED <<command, comparison, files, writer, blocked, calls>>

------------------------------------------------------------------------------------
\* Processes

Unborn(q) == q # First /\ process[q] = [NewProcess(q, NoFile) EXCEPT !.up = FALSE]

\* A process starts another one: a new program with its environment, or a copy of itself,
\* whose singletons and directory are those of its parent.
Spawn(p, q) ==
    /\ process[p].up /\ Unborn(q)
    /\ Counted
    /\ process' = [process EXCEPT ![q] = NewProcess(q, process[p].env)]
    /\ UNCHANGED <<command, comparison, caller, files, torn, writer, blocked>>

Fork(p, q) ==
    /\ process[p].up /\ Unborn(q)
    /\ \A c \in Callers : caller[p][c].at = "idle"
    /\ Counted
    /\ process' = [process EXCEPT ![q] = process[p]]
    /\ UNCHANGED <<command, comparison, caller, files, torn, writer, blocked>>

Next ==
    \/ \E option \in Options : ReadOption(option[1], option[2])
    \/ DoUserCommand
    \/ \E p \in Procs :
          \/ ReadConfig(p) \/ HookedCall(p) \/ LogLine(p) \/ ImportTorch(p)
          \/ \E d \in Dictionaries : Configure(p, d)
          \/ \E call \in {"start", "stop"} : SetTraceStatus(p, call)
          \/ AclInit(p) \/ Write(p)
          \/ \E c \in Callers :
                Decide(p, c) \/ CallAtenCollector(p, c) \/ CallOptimizerHook(p, c)
          \/ \E q \in Procs : Spawn(p, q) \/ Fork(p, q)

Spec == Init /\ [][Next]_vars

------------------------------------------------------------------------------------
\* Properties

Config == [stepList : Seq(Nat), enableCompare : BOOLEAN, cStack : CallStack,
           pyStack : CallStack, inputCorrectPaths : BOOLEAN, outputCorrectPaths : BOOLEAN,
           watchConfig : [on : BOOLEAN, start : Word, outputId : Int, end : Word,
                          fullContent : BOOLEAN],
           levelType : SUBSET LevelType, eventType : SUBSET EventType,
           analysisType : SUBSET AnalysisType, logLevel : LogLv, collectMode : CollectMode,
           outputDir : Dirs, dataFormat : DataFormat, collectAllNpu : BOOLEAN,
           npuSlots : SUBSET (0..(SlotBits - 1)), isEffective : BOOLEAN]

Status == {"IN_TRACING", "NOT_IN_TRACING"}

\* The parsers and the file yield configurations: at most MaxSteps steps, depths in range,
\* slots that the bit set has; whatever the options and their order are.
TypeOK ==
    /\ command \in [phase : {"none", "options", "ended", "compared", "executed"},
                    config : Config, inputs : Nat]
    /\ Len(command.config.stepList) <= MaxSteps
    /\ \A p \in Procs :
          process[p] \in
             [up : BOOLEAN, env : Files \cup {NoFile}, project : Procs, loaded : BOOLEAN,
              config : Config, managed : BOOLEAN, status : Status, reporting : BOOLEAN,
              analyzers : SUBSET AnalysisType,
              dump : [format : DataFormat, effective : BOOLEAN],
              output : [made : BOOLEAN, dir : Dirs, effective : BOOLEAN],
              aclInit : BOOLEAN, torch : BOOLEAN, collector : BOOLEAN, hook : BOOLEAN,
              lostHooks : Nat, pyTrace : BOOLEAN, logLevel : LogLv]
    /\ caller \in [Procs -> [Callers ->
          [at : {"idle", "write", "aten", "atenCall", "hook", "hookCall"},
           call : {"none", "config", "start", "stop", "aclInit"},
           on : BOOLEAN, alone : BOOLEAN]]]
    /\ DOMAIN files = DOMAIN writer /\ DOMAIN files \subseteq Files \ blocked
    /\ \A f \in DOMAIN files : files[f] \in Config /\ writer[f] \in Files
    /\ torn \subseteq Files /\ blocked \subseteq Files
    /\ calls \in 0..MaxCalls

\* Whatever way a configuration came into a process, its events are those its analyses and
\* its other events need: an analysis never runs on half of the blocks' lives.
Complete(config) ==
    /\ "alloc" \in config.eventType <=> "free" \in config.eventType
    /\ config.analysisType # {} \/ "access" \in config.eventType
          => "alloc" \in config.eventType
    /\ "inefficient" \in config.analysisType => config.eventType = EventType

AnalysesGetTheirEvents ==
    /\ \A p \in Procs : process[p].loaded => Complete(process[p].config)
    /\ \A f \in DOMAIN files : Complete(files[f])

\* A program that reads the file of another process begins with the configuration that
\* process has at that moment: every change has reached the file, and all of it.
PresentConfig(f) == IF writer[f] = CommandFile THEN command.config
                                               ELSE process[writer[f]].config

Agree(config, other) ==
    \A field \in DOMAIN config \ {"inputCorrectPaths", "outputCorrectPaths"} :
        config[field] = other[field]

InheritsConfig ==
    [][\A q \in Procs :
          /\ process'[q].loaded /\ ~process[q].loaded
          /\ process[q].env \in DOMAIN files
          => Agree(process'[q].config, PresentConfig(process[q].env))]_vars

\* What a process builds once from its configuration stays true of it: when config() has
\* returned, the analyzers are those it names, and the format and the directory of the
\* output are those in force when they were first needed - unless the process logged or wrote
\* before anything had been configured: its files then stay in the default directory.
SingletonsFollowConfig ==
    \A p \in Procs :
        LET self == process[p]
        IN  /\ self.reporting /\ caller[p]["python"].at = "idle"
                  => self.analyzers = Analyzers(self.config)
            /\ self.reporting /\ self.dump.effective
                  => self.dump.format = self.config.dataFormat
            /\ self.output.made /\ self.output.effective
                  => self.output.dir = self.config.outputDir

\* A call that no other overlapped leaves the collector of ATen operators on exactly when
\* tracing is on, operators are wanted and acl is initialised, and the registered hook of the
\* optimizer exactly when tracing is on with an analysis that needs it.
Returns(p, c) == caller[p][c].at # "idle" /\ caller'[p][c].at = "idle"

CollectorFollowsTracing ==
    [][\A p \in Procs, c \in Callers :
          Returns(p, c) /\ caller[p][c].alone /\ process[p].torch
          => /\ process'[p].collector = WantsCollector(process'[p])
             /\ process'[p].hook = WantsHook(process'[p])]_vars

\* The rows of a device are a shortest alignment of what the two runs launched: in order,
\* every launch once, equal names side by side as often as can be.  When the time was over
\* they are the end of one.  Each shows the size of the pool's first record after the launch,
\* however late it comes and whether it is a malloc or a free - not the change that the call
\* made, which docs/zh/output_file_spec.md:51 has it show.
LongestCommon(a, b) ==
    LET lcs[i \in Nat, j \in Nat] ==
            IF i > Len(a) \/ j > Len(b) THEN 0
            ELSE IF a[i] = b[j] THEN 1 + lcs[i + 1, j + 1]
            ELSE Max({lcs[i + 1, j], lcs[i, j + 1]})
    IN  lcs[1, 1]

LaunchesOf(lines, d) ==
    LET types == (IF "op" \in command.config.levelType THEN {"ATB_END", "ATEN_END"} ELSE {})
            \cup (IF "kernel" \in command.config.levelType THEN {"KERNEL_LAUNCH"} ELSE {})
        ofDevice == SelectSeq(lines, LAMBDA line : line.device = d /\ line.type \in types)
    IN  SortSeq(ofDevice, LAMBDA a, b : a.ts < b.ts)

NextPoolSize(lines, d, launch) ==
    LET pool == {n \in DOMAIN lines : /\ lines[n].device = d
                                      /\ lines[n].type \in Frameworks
                                      /\ lines[n].ts > launch.ts}
    IN  IF pool = {} THEN 0
        ELSE LET first == CHOOSE n \in pool : \A m \in pool : lines[n].ts <= lines[m].ts
             IN  lines[first].size

DiffIsMinimal ==
    \A d \in DOMAIN comparison.rows :
        LET rows    == comparison.rows[d]
            base    == LaunchesOf(comparison.base, d)
            compare == LaunchesOf(comparison.compare, d)
            side(n) == SelectSeq([r \in DOMAIN rows |-> rows[r].of[n]], LAMBDA x : x # 0)
            both    == {r \in DOMAIN rows : 0 \notin {rows[r].of[1], rows[r].of[2]}}
            suffix(lines, s) == [n \in DOMAIN s |-> lines[s[n]].name]
            toEnd(lines, s)  == s = [n \in DOMAIN s |-> Len(lines) - Len(s) + n]
        IN  /\ toEnd(base, side(1)) /\ toEnd(compare, side(2))
            /\ \A r \in both : base[rows[r].of[1]].name = compare[rows[r].of[2]].name
            /\ Cardinality(both) = LongestCommon(suffix(base, side(1)),
                                                 suffix(compare, side(2)))
            /\ \A r \in DOMAIN rows :
                  /\ rows[r].of[1] # 0 => rows[r].base =
                        NextPoolSize(comparison.base, d, base[rows[r].of[1]])
                  /\ rows[r].of[2] # 0 => rows[r].compare =
                        NextPoolSize(comparison.compare, d, compare[rows[r].of[2]])

\* What AnalysesGetTheirEvents rests on: of a configuration that is being put together only
\* that its events and analyses are some of those there are; that nothing of a process moves before it has
\* a configuration; and that none has one before the command line is read.
Usable(config) ==
    config.eventType \subseteq EventType /\ config.analysisType \subseteq AnalysisType

ConfigurationsUsable ==
    /\ Usable(command.config)
    /\ \A p \in Procs : Usable(process[p].config)
    /\ \A f \in DOMAIN files : Usable(files[f])

CallersAreLoaded ==
    \A p \in Procs, c \in Callers : caller[p][c].at # "idle" => process[p].loaded

OptionsComeFirst ==
    command.phase = "options" => \A p \in Procs : ~process[p].up /\ ~process[p].loaded

EventsInv ==
    ConfigurationsUsable /\ AnalysesGetTheirEvents /\ CallersAreLoaded /\ OptionsComeFirst

====================================================================================
