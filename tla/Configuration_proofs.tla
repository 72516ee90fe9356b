---------------------------- MODULE Configuration_proofs ----------------------------
(***************************************************************************)
(* For any options and dictionaries, any number of them, and any number of *)
(* processes that inherit from each other: that the events of a            *)
(* configuration are those its analyses need; that what a process builds   *)
(* from its configuration, and what it switches in Python, follow it; and  *)
(* that a process inherits the configuration of the one that started it.   *)
(***************************************************************************)
EXTENDS Configuration, SequenceTheorems, WellFoundedInduction, TLAPS

\* What can be said of a configuration at every stage.
Proper(config) == {"eventType", "analysisType"} \subseteq DOMAIN config /\ Usable(config)

\* No parser adds an event that does not exist, whatever it is given and whether it fails.
LEMMA ParsersKeepProper ==
    ASSUME NEW config, Proper(config), NEW param
    PROVE  /\ Proper(ParseSelectSteps(param, config).config)
           /\ Proper(ParseAnalysis(param, config).config)
           /\ Proper(ParseCallstack(param, config).config)
           /\ Proper(ParseOutputPath(param, config).config)
           /\ Proper(ParseDataLevel(param, config).config)
           /\ Proper(ParseEventTraceType(param, config).config)
           /\ Proper(ParseWatchConfig(param, config).config)
           /\ Proper(ParseLogLv(param, config).config)
           /\ Proper(ParseDataFormat(param, config).config)
           /\ Proper(ParseCollectMode(param, config).config)
           /\ Proper(ParseDevice(param, config).config)
<1> USE DEF Proper, Usable, Accept, Reject
<1>1. Proper(ParseSelectSteps(param, config).config)
  BY DEF ParseSelectSteps
<1>2. Proper(ParseAnalysis(param, config).config)
  BY DEF ParseAnalysis
<1>3. Proper(ParseCallstack(param, config).config)
  BY DEF ParseCallstack
<1>4. Proper(ParseOutputPath(param, config).config)
  BY DEF ParseOutputPath
<1>5. Proper(ParseDataLevel(param, config).config)
  BY DEF ParseDataLevel
<1>6. Proper(ParseEventTraceType(param, config).config)
  BY DEF ParseEventTraceType
<1>7. Proper(ParseWatchConfig(param, config).config)
  BY DEF ParseWatchConfig
<1>8. Proper(ParseLogLv(param, config).config)
  BY DEF ParseLogLv
<1>9. Proper(ParseDataFormat(param, config).config)
  BY DEF ParseDataFormat
<1>10. Proper(ParseCollectMode(param, config).config)
  BY DEF ParseCollectMode
<1>11. Proper(ParseDevice(param, config).config)
  BY DEF ParseDevice
<1> QED BY <1>1, <1>2, <1>3, <1>4, <1>5, <1>6, <1>7, <1>8, <1>9, <1>10, <1>11

\* Nor does an option or an entry of a dictionary.
LEMMA OptionsKeepProper ==
    ASSUME NEW config, Proper(config), NEW param, NEW opt, NEW inputs
    PROVE  /\ Proper(ParseUserCommand(opt, param, inputs, config).config)
           /\ Proper(ParseEntry(opt, param, config).config)
<1>1. Proper(ParseInputPaths(param, inputs, config).config)
  BY DEF ParseInputPaths, Proper, Usable, Accept, Reject
<1>2. Proper(Accept([config EXCEPT !.enableCompare = TRUE]).config)
  BY DEF Proper, Usable, Accept
<1>3. Proper(Accept(config).config) /\ Proper(Reject(config).config)
  BY DEF Accept, Reject
<1>4. Proper(ParseUserCommand(opt, param, inputs, config).config)
  BY <1>1, <1>2, <1>3, ParsersKeepProper, Zenon DEF ParseUserCommand
<1>5. Proper(ParseEntry(opt, param, config).config)
  BY <1>3, ParsersKeepProper, Zenon DEF ParseEntry
<1> QED BY <1>4, <1>5

\* What a pair of a match list brings.
LEMMA PairBrings ==
    ASSUME NEW pairs, NEW types, NEW a \in types, NEW b, <<a, b>> \in pairs
    PROVE  b \in Brought(pairs, types)
<1>1. <<a, b>> \in {p \in pairs : p[1] \in types}
  OBVIOUS
<1>2. <<a, b>>[2] = b
  OBVIOUS
<1> QED BY <1>1, <1>2 DEF Brought

\* SetConfigImpl makes a configuration complete.
LEMMA ImplCompletes ==
    ASSUME NEW config, Proper(config)
    PROVE  Proper(SetConfigImpl(config)) /\ Complete(SetConfigImpl(config))
<1> DEFINE first == SetEventDefaultConfig(config)
           last  == SetAnalysisDefaultConfig(first)
           E     == config.eventType
           A     == config.analysisType
           E1    == E \cup Brought(EventsMatchLists, E)
           E2    == E1 \cup Brought(AnalysisMatchLists, A)
<1>1. /\ Proper(first) /\ first.eventType = E1 /\ first.analysisType = A
  BY DEF SetEventDefaultConfig, Proper, Usable, Brought, EventsMatchLists, EventType
<1>2. /\ Proper(last) /\ last.eventType = E2 /\ last.analysisType = A
  BY <1>1 DEF SetAnalysisDefaultConfig, Proper, Usable, Brought, AnalysisMatchLists, EventType
<1>3. Complete(last)
  <2>1. E2 \subseteq EventType /\ A \subseteq AnalysisType
    BY <1>2 DEF Proper, Usable
  <2>2. "alloc" \in E \/ "free" \in E \/ "access" \in E => {"alloc", "free"} \subseteq E2
    <3>1. /\ {<<"alloc", "free">>, <<"free", "alloc">>} \subseteq EventsMatchLists
          /\ {<<"access", "alloc">>, <<"access", "free">>} \subseteq EventsMatchLists
      BY DEF EventsMatchLists
    <3> QED BY <3>1, PairBrings
  <2>3. A # {} => {"alloc", "free"} \subseteq E2
    <3>1. \A a \in AnalysisType, e \in {"alloc", "free"} : <<a, e>> \in AnalysisMatchLists
      BY DEF AnalysisMatchLists, AnalysisType
    <3> QED BY <3>1, <2>1, PairBrings
  <2>4. "inefficient" \in A => {"access", "launch"} \subseteq E2
    <3>1. \A e \in {"access", "launch"} : <<"inefficient", e>> \in AnalysisMatchLists
      BY DEF AnalysisMatchLists
    <3> QED BY <3>1, PairBrings
  <2>5. "access" \in E2 => {"alloc", "free"} \subseteq E2
    <3>1. CASE "access" \in E
      BY <3>1, <2>2
    <3>2. CASE "access" \notin E
      BY <3>2, <2>3 DEF Brought, EventsMatchLists, AnalysisMatchLists
    <3> QED BY <3>1, <3>2
  <2>6. "alloc" \in E2 <=> "free" \in E2
    <3>1. CASE A # {}
      BY <3>1, <2>3
    <3>2. CASE A = {}
      BY <3>2, <2>2 DEF Brought, EventsMatchLists, AnalysisMatchLists
    <3> QED BY <3>1, <3>2
  <2>7. "inefficient" \in A => E2 = EventType
    BY <2>1, <2>3, <2>4 DEF EventType
  <2> HIDE DEF E2, A
  <2> QED BY <1>2, <2>3, <2>5, <2>6, <2>7 DEF Complete
<1> QED BY <1>2, <1>3 DEF SetConfigImpl

\* The configurations a process can begin with, or config() starts from.
LEMMA InitialIsProper ==
    /\ Proper(InitialConfig(DefaultDir))
    /\ \A old : Proper(GetConfigAfterInit(old))
<1>1. Proper(InitialConfig(DefaultDir))
  BY DEF InitialConfig, Proper, Usable, EventType, AnalysisType
<1>2. ASSUME NEW old PROVE Proper(GetConfigAfterInit(old))
  BY <1>1 DEF GetConfigAfterInit, Proper, Usable
<1> QED BY <1>1, <1>2

\* Of configurations put together each field is one of theirs.
LEMMA MergedIsProper ==
    ASSUME NEW config, Proper(config), NEW changed, \A c \in changed : Proper(c)
    PROVE  Proper(Merged(config, changed))
<1> DEFINE by(field) == {other \in changed : other[field] # config[field]}
           merged    == Merged(config, changed)
<1>1. merged = [field \in DOMAIN config |->
                   IF by(field) = {} THEN config[field]
                                     ELSE (CHOOSE other \in by(field) : TRUE)[field]]
  BY DEF Merged
<1>2. ASSUME NEW field \in {"eventType", "analysisType"}
      PROVE  merged[field] = config[field] \/ \E c \in changed : merged[field] = c[field]
  <2>1. field \in DOMAIN config
    BY DEF Proper
  <2> QED BY <1>1, <2>1
<1>3. DOMAIN merged = DOMAIN config
  BY <1>1
<1> HIDE DEF merged
<1>4. \A field \in {"eventType", "analysisType"} : 
          merged[field] = config[field] \/ \E c \in changed : merged[field] = c[field]
  BY <1>2
<1>5. merged.eventType \subseteq EventType
  BY <1>4 DEF Proper, Usable
<1>6. merged.analysisType \subseteq AnalysisType
  BY <1>4 DEF Proper, Usable
<1>7. Proper(merged)
  BY <1>3, <1>5, <1>6 DEF Proper, Usable
<1> QED BY <1>7 DEF merged

\* Marking a configuration as effective, or writing it to the file, keeps its events.
LEMMA EventsKept ==
    ASSUME NEW config, Proper(config)
    PROVE  /\ Proper(SetEffectiveConfig(config)) /\ Proper(Saved(config))
           /\ Complete(config) => /\ Complete(SetEffectiveConfig(config))
                                  /\ Complete(Saved(config))
<1>1. ASSUME NEW new, DOMAIN new = DOMAIN config,
             new.eventType = config.eventType, new.analysisType = config.analysisType
      PROVE  Proper(new) /\ (Complete(config) => Complete(new))
  BY <1>1 DEF Proper, Usable, Complete
<1>2. /\ DOMAIN SetEffectiveConfig(config) = DOMAIN config
      /\ SetEffectiveConfig(config).eventType = config.eventType
      /\ SetEffectiveConfig(config).analysisType = config.analysisType
  BY DEF SetEffectiveConfig, Proper
<1>3. /\ DOMAIN Saved(config) = DOMAIN config
      /\ Saved(config).eventType = config.eventType
      /\ Saved(config).analysisType = config.analysisType
  BY DEF Saved, Proper
<1> QED BY <1>1, <1>2, <1>3

\* config() makes a complete configuration of any dictionary and any earlier configuration.
LEMMA SetConfigCompletes ==
    ASSUME NEW dictionary, NEW old
    PROVE  Proper(SetConfig(dictionary, old)) /\ Complete(SetConfig(dictionary, old))
<1> DEFINE new     == GetConfigAfterInit(old)
           entries == {ParseEntry(key, dictionary[key], new).config :
                          key \in Parsed(dictionary, old)}
<1>1. Proper(new)
  BY InitialIsProper
<1>2. \A c \in entries : Proper(c)
  BY <1>1, OptionsKeepProper
<1> HIDE DEF new
<1>3. Proper(Merged(new, entries))
  <2> HIDE DEF entries
  <2> QED BY <1>1, <1>2, MergedIsProper
<1>4. SetConfig(dictionary, old) = SetEffectiveConfig(SetConfigImpl(Merged(new, entries)))
  BY DEF SetConfig, new
<1> HIDE DEF entries
<1> QED BY <1>3, <1>4, ImplCompletes, EventsKept

------------------------------------------------------------------------------------
\* The shape of a process and of the state: which fields there are.
IsProcess(self) == {"up", "loaded", "config"} \subseteq DOMAIN self

Shapes ==
    /\ {"phase", "config"} \subseteq DOMAIN command /\ Proper(command.config)
    /\ DOMAIN process = Procs
    /\ \A p \in Procs : IsProcess(process[p]) /\ Proper(process[p].config)
    /\ DOMAIN caller = Procs
    /\ \A p \in Procs : DOMAIN caller[p] = Callers
    /\ \A p \in Procs, c \in Callers : "at" \in DOMAIN caller[p][c]
    /\ \A f \in DOMAIN files : Proper(files[f])

ProofInv == Shapes /\ EventsInv

\* `new` is the same process, with the same configuration.
Same(self, new) ==
    /\ IsProcess(new)
    /\ new.up = self.up /\ new.loaded = self.loaded /\ new.config = self.config

\* What a process does beside reading a configuration or being given one leaves it as it is.
LEMMA ProcessStaysSame ==
    ASSUME NEW self, IsProcess(self), NEW on
    PROVE  /\ Same(self, Manage(self)) /\ Same(self, Report(self)) /\ Same(self, MakeOutput(self))
           /\ Same(self, SwitchHook(self, on)) /\ Same(self, UpdateAnalysisType(self))
<1> USE DEF IsProcess, Same
<1>1. Same(self, Manage(self))
  BY DEF Manage
<1>2. Same(self, Report(self))
  BY DEF Report, MakeOutput
<1>3. Same(self, MakeOutput(self))
  BY DEF MakeOutput
<1>4. Same(self, SwitchHook(self, on))
  BY DEF SwitchHook, EnableHook, DisableHook
<1>5. Same(self, UpdateAnalysisType(self))
  BY <1>2 DEF UpdateAnalysisType
<1> QED BY <1>1, <1>2, <1>3, <1>4, <1>5

\* A step that leaves every process the same, the command and the files alone, and lets no
\* caller move but those of processes that have their configuration, keeps the invariant.
LEMMA SameKeepsInv ==
    ASSUME ProofInv, UNCHANGED <<command, files>>,
           DOMAIN process' = Procs, \A p \in Procs : Same(process[p], process'[p]),
           DOMAIN caller' = Procs,
           \A p \in Procs : /\ DOMAIN caller'[p] = Callers
                            /\ \A c \in Callers : "at" \in DOMAIN caller'[p][c],
           \A p \in Procs, c \in Callers :
               caller'[p][c].at = caller[p][c].at \/ process[p].loaded
    PROVE  ProofInv'
<1>1. Shapes'
  BY DEF ProofInv, Shapes, Same
<1>2. ConfigurationsUsable'
  BY DEF ProofInv, EventsInv, ConfigurationsUsable, Same
<1>3. AnalysesGetTheirEvents'
  BY DEF ProofInv, EventsInv, AnalysesGetTheirEvents, Same
<1>4. CallersAreLoaded'
  BY DEF ProofInv, EventsInv, CallersAreLoaded, Same
<1>5. OptionsComeFirst'
  BY DEF ProofInv, EventsInv, OptionsComeFirst, Same
<1> QED BY <1>1, <1>2, <1>3, <1>4, <1>5 DEF ProofInv, EventsInv

\* A caller that moves keeps its shape.
LEMMA CallerMoves ==
    ASSUME Shapes, NEW p \in Procs, NEW c \in Callers, NEW call, NEW at,
           \/ Begin(p, c, call, at) \/ Goto(p, c, at) \/ Return(p, c) \/ UNCHANGED caller
    PROVE  /\ DOMAIN caller' = Procs
           /\ \A q \in Procs : /\ DOMAIN caller'[q] = Callers
                               /\ \A d \in Callers : "at" \in DOMAIN caller'[q][d]
           /\ \A q \in Procs, d \in Callers :
                  caller'[q][d].at = caller[q][d].at \/ q = p
<1>1. CASE Begin(p, c, call, at)
  BY <1>1 DEF Begin, Shapes, Idle
<1>2. CASE Goto(p, c, at)
  BY <1>2 DEF Goto, Shapes
<1>3. CASE Return(p, c)
  BY <1>3 DEF Return, Shapes, Idle
<1>4. CASE UNCHANGED caller
  BY <1>4 DEF Shapes
<1> QED BY <1>1, <1>2, <1>3, <1>4

\* The command that is typed and the processes there are at first.
LEMMA InitEventsInv == Init => ProofInv
<1> SUFFICES ASSUME Init PROVE ProofInv
    OBVIOUS
<1>1. PICK byHand \in BOOLEAN :
          /\ command = [phase  |-> IF byHand THEN "none" ELSE "options",
                        config |-> InitialConfig(DefaultDir), inputs |-> 0]
          /\ process = [p \in Procs |->
                [NewProcess(p, NoFile) EXCEPT !.up = byHand /\ p = First]]
  BY DEF Init
<1>2. \A p \in Procs : /\ IsProcess(process[p])
                       /\ process[p].config = InitialConfig(DefaultDir)
                       /\ process[p].loaded = FALSE
                       /\ process[p].up = (byHand /\ p = First)
  BY <1>1 DEF NewProcess, IsProcess
<1>3. /\ caller = [p \in Procs |-> [c \in Callers |-> Idle]]
      /\ DOMAIN files = {}
  BY DEF Init
<1>4. /\ command.config = InitialConfig(DefaultDir)
      /\ command.phase = IF byHand THEN "none" ELSE "options"
      /\ {"phase", "config"} \subseteq DOMAIN command
  BY <1>1
<1>5. Shapes
  BY <1>1, <1>2, <1>3, <1>4, InitialIsProper DEF Shapes, Idle
<1>6. ConfigurationsUsable
  BY <1>5, <1>3 DEF ConfigurationsUsable, Shapes, Proper
<1>7. AnalysesGetTheirEvents
  BY <1>2, <1>3 DEF AnalysesGetTheirEvents
<1>8. CallersAreLoaded
  BY <1>3 DEF CallersAreLoaded, Idle
<1>9. OptionsComeFirst
  BY <1>2, <1>4 DEF OptionsComeFirst
<1> QED BY <1>5, <1>6, <1>7, <1>8, <1>9 DEF ProofInv, EventsInv

\* The command line: options, and what comes of them.
LEMMA CommandKeepsInv ==
    ASSUME ProofInv,
           \/ \E option \in Options : ReadOption(option[1], option[2])
           \/ DoUserCommand
    PROVE  ProofInv'
<1> USE DEF ProofInv, EventsInv
<1>1. ASSUME NEW opt, NEW param, ReadOption(opt, param) PROVE ProofInv'
  <2> DEFINE parsed == ParseUserCommand(opt, param, command.inputs, command.config)
  <2>1. Proper(parsed.config)
    BY OptionsKeepProper DEF Shapes
  <2> HIDE DEF parsed
  <2>2. /\ command.phase = "options"
        /\ command'.config = parsed.config /\ {"phase", "config"} \subseteq DOMAIN command'
        /\ UNCHANGED <<process, caller, files>>
    BY <1>1 DEF ReadOption, parsed
  <2>3. Shapes'
    BY <2>1, <2>2 DEF Shapes
  <2>4. ConfigurationsUsable'
    BY <2>1, <2>2 DEF ConfigurationsUsable, Proper
  <2>5. AnalysesGetTheirEvents' /\ CallersAreLoaded' /\ OptionsComeFirst'
    BY <2>2 DEF AnalysesGetTheirEvents, CallersAreLoaded, OptionsComeFirst
  <2> QED BY <2>3, <2>4, <2>5
<1>2. ASSUME DoUserCommand PROVE ProofInv'
  <2> DEFINE config == SetEffectiveConfig(SetConfigImpl(command.config))
  <2>1. /\ Proper(config) /\ Complete(config)
        /\ Proper(Saved(config)) /\ Complete(Saved(config))
    BY ImplCompletes, EventsKept DEF Shapes
  <2> HIDE DEF config
  <2>2. \A p \in Procs : /\ ~process[p].up /\ ~process[p].loaded
                         /\ \A c \in Callers : caller[p][c].at = "idle"
    BY <1>2 DEF DoUserCommand, OptionsComeFirst, CallersAreLoaded
  <2>3. /\ {"phase", "config"} \subseteq DOMAIN command'
        /\ command'.phase # "options"
        /\ command'.config \in {command.config, config}
    <3>1. \/ command' = [command EXCEPT !.phase = "ended"]
          \/ command' = [command EXCEPT !.phase = "compared", !.config = config]
          \/ command' = [command EXCEPT !.phase = "executed", !.config = config]
      BY <1>2, Zenon DEF DoUserCommand, config
    <3> QED BY <3>1 DEF Shapes
  <2>4. \A f \in DOMAIN files' :
            files'[f] = Saved(config) \/ (f \in DOMAIN files /\ files'[f] = files[f])
    BY <1>2 DEF DoUserCommand, config
  <2>5. /\ caller' = caller
        /\ process' = process
           \/ process' = [process EXCEPT ![First] = NewProcess(First, CommandFile)]
    BY <1>2 DEF DoUserCommand
  <2>6. /\ DOMAIN process' = Procs
        /\ \A p \in Procs : /\ IsProcess(process'[p]) /\ Proper(process'[p].config)
                            /\ ~process'[p].loaded
    <3>1. LET new == NewProcess(First, CommandFile)
          IN  IsProcess(new) /\ Proper(new.config) /\ new.loaded = FALSE
      BY InitialIsProper DEF NewProcess, IsProcess
    <3> QED BY <3>1, <2>2, <2>5 DEF Shapes
  <2>7. Shapes'
    BY <2>1, <2>3, <2>4, <2>5, <2>6 DEF Shapes
  <2>8. ConfigurationsUsable'
    BY <2>7 DEF Shapes, ConfigurationsUsable, Proper
  <2>9. AnalysesGetTheirEvents'
    BY <2>1, <2>4, <2>6 DEF AnalysesGetTheirEvents
  <2>10. CallersAreLoaded' /\ OptionsComeFirst'
    BY <2>2, <2>3, <2>5 DEF CallersAreLoaded, OptionsComeFirst
  <2> QED BY <2>7, <2>8, <2>9, <2>10
<1> QED BY <1>1, <1>2

\* A process gets its configuration: from the file, or the one that is the default.
LEMMA ReadKeepsInv ==
    ASSUME ProofInv, NEW p \in Procs, ReadConfig(p)
    PROVE  ProofInv'
<1> USE DEF ProofInv, EventsInv
<1> DEFINE self    == process[p]
           default == SetConfigImpl(InitialConfig(DefaultDir))
<1>1. Proper(default) /\ Complete(default)
  BY InitialIsProper, ImplCompletes
<1> HIDE DEF default
<1>2. /\ self.up /\ ~self.loaded
      /\ UNCHANGED <<command, caller, files>>
      /\ \/ process' = [process EXCEPT ![p] = [self EXCEPT !.up = FALSE]]
         \/ /\ self.env \in DOMAIN files
            /\ process' = [process EXCEPT ![p] =
                              [self EXCEPT !.loaded = TRUE, !.config = files[self.env]]]
         \/ process' = [process EXCEPT ![p] =
                           [self EXCEPT !.loaded = TRUE, !.config = default]]
  BY DEF ReadConfig, ReadJsonConfig, default
<1>3. DOMAIN process' = Procs /\ \A q \in Procs : q # p => process'[q] = process[q]
  BY <1>2 DEF Shapes
<1>4. /\ IsProcess(process'[p]) /\ Proper(process'[p].config)
      /\ process'[p].loaded => Complete(process'[p].config)
  <2>1. IsProcess(self) /\ Proper(self.config)
    BY DEF Shapes
  <2>2. \A f \in DOMAIN files : Proper(files[f]) /\ Complete(files[f])
    BY DEF Shapes, AnalysesGetTheirEvents
  <2>3. \A given : LET read == [self EXCEPT !.loaded = TRUE, !.config = given]
                   IN  IsProcess(read) /\ read.config = given
    BY <2>1 DEF IsProcess
  <2>4. LET ended == [self EXCEPT !.up = FALSE]
        IN  IsProcess(ended) /\ ended.config = self.config /\ ended.loaded = self.loaded
    BY <2>1 DEF IsProcess
  <2>5. \A new : process' = [process EXCEPT ![p] = new] => process'[p] = new
    BY DEF Shapes
  <2>6. CASE process' = [process EXCEPT ![p] = [self EXCEPT !.up = FALSE]]
    BY <1>2, <2>1, <2>4, <2>5, <2>6
  <2>7. CASE /\ self.env \in DOMAIN files
             /\ process' = [process EXCEPT ![p] =
                               [self EXCEPT !.loaded = TRUE, !.config = files[self.env]]]
    BY <2>2, <2>3, <2>5, <2>7
  <2>8. CASE process' = [process EXCEPT ![p] =
                            [self EXCEPT !.loaded = TRUE, !.config = default]]
    BY <1>1, <2>3, <2>5, <2>8
  <2> QED BY <1>2, <2>6, <2>7, <2>8
<1>5. Shapes'
  BY <1>2, <1>3, <1>4 DEF Shapes
<1>6. ConfigurationsUsable'
  BY <1>5 DEF Shapes, ConfigurationsUsable, Proper
<1>7. AnalysesGetTheirEvents'
  BY <1>2, <1>3, <1>4 DEF AnalysesGetTheirEvents
<1>8. CallersAreLoaded' /\ OptionsComeFirst'
  BY <1>2, <1>3 DEF CallersAreLoaded, OptionsComeFirst
<1> QED BY <1>5, <1>6, <1>7, <1>8

\* config(): refused, or with a new configuration.
LEMMA ConfigureKeepsInv ==
    ASSUME ProofInv, NEW p \in Procs, NEW dictionary, Configure(p, dictionary)
    PROVE  ProofInv'
<1> USE DEF ProofInv, EventsInv
<1> DEFINE now    == process[p]
           config == SetConfig(dictionary, now.config)
<1>1. Proper(config) /\ Complete(config)
  BY SetConfigCompletes
<1> HIDE DEF config
<1>2. PICK active : /\ now.up /\ now.loaded
      /\ UNCHANGED <<command, files>>
      /\ \/ /\ process' = [process EXCEPT ![p] = [now EXCEPT !.pyTrace = active]]
            /\ UNCHANGED caller
         \/ /\ process' = [process EXCEPT ![p] = MakeOutput(
                   [now EXCEPT !.pyTrace = active, !.config = config,
                               !.logLevel = config.logLevel, !.env = now.project])]
            /\ Begin(p, "python", "config", "write")
  BY DEF Configure, Running, config
<1>3. CASE /\ process' = [process EXCEPT ![p] = [now EXCEPT !.pyTrace = active]]
           /\ UNCHANGED caller
  BY <1>2, <1>3, SameKeepsInv DEF Shapes, Same, IsProcess
<1>4. CASE /\ process' = [process EXCEPT ![p] = MakeOutput(
                   [now EXCEPT !.pyTrace = active, !.config = config,
                               !.logLevel = config.logLevel, !.env = now.project])]
           /\ Begin(p, "python", "config", "write")
  <2> DEFINE given == [now EXCEPT !.pyTrace = active, !.config = config,
                                  !.logLevel = config.logLevel, !.env = now.project]
  <2>1. /\ IsProcess(given) /\ given.up = now.up /\ given.loaded = now.loaded
        /\ given.config = config
    BY DEF Shapes, IsProcess
  <2> HIDE DEF given
  <2>2. Same(given, MakeOutput(given))
    BY <2>1, ProcessStaysSame
  <2>3. process' = [process EXCEPT ![p] = MakeOutput(given)]
    BY <1>4 DEF given
  <2>4. /\ DOMAIN process' = Procs /\ \A q \in Procs : q # p => process'[q] = process[q]
        /\ IsProcess(process'[p]) /\ process'[p].config = config
        /\ process'[p].up /\ process'[p].loaded
    BY <1>2, <2>1, <2>2, <2>3 DEF Shapes, Same
  <2>5. /\ DOMAIN caller' = Procs
        /\ \A q \in Procs : /\ DOMAIN caller'[q] = Callers
                            /\ \A d \in Callers : "at" \in DOMAIN caller'[q][d]
        /\ \A q \in Procs, d \in Callers : caller'[q][d].at = caller[q][d].at \/ q = p
    BY <1>4, CallerMoves DEF Callers
  <2>6. Shapes'
    BY <1>1, <1>2, <2>4, <2>5 DEF Shapes
  <2>7. ConfigurationsUsable'
    BY <2>6 DEF Shapes, ConfigurationsUsable, Proper
  <2>8. AnalysesGetTheirEvents'
    BY <1>1, <1>2, <2>4 DEF AnalysesGetTheirEvents
  <2>9. CallersAreLoaded' /\ OptionsComeFirst'
    BY <1>2, <2>4, <2>5 DEF CallersAreLoaded, OptionsComeFirst
  <2> QED BY <2>6, <2>7, <2>8, <2>9
<1> QED BY <1>2, <1>3, <1>4

\* The file is written with the configuration of a process that has one.
LEMMA WriteKeepsInv ==
    ASSUME ProofInv, NEW p \in Procs, Write(p)
    PROVE  ProofInv'
<1> USE DEF ProofInv, EventsInv
<1>1. /\ process[p].loaded
      /\ UNCHANGED <<command, process>>
      /\ Goto(p, "python", "aten") \/ Return(p, "python")
  BY DEF Write, CallersAreLoaded, Callers
<1>2. Proper(Saved(process[p].config)) /\ Complete(Saved(process[p].config))
  BY <1>1, EventsKept DEF Shapes, AnalysesGetTheirEvents
<1>3. \A f \in DOMAIN files' : \/ files'[f] = Saved(process[p].config)
                               \/ (f \in DOMAIN files /\ files'[f] = files[f])
  BY DEF Write, WriteFile
<1>4. /\ DOMAIN caller' = Procs
      /\ \A q \in Procs : /\ DOMAIN caller'[q] = Callers
                          /\ \A d \in Callers : "at" \in DOMAIN caller'[q][d]
      /\ \A q \in Procs, d \in Callers : caller'[q][d].at = caller[q][d].at \/ q = p
  BY <1>1, CallerMoves DEF Callers
<1>5. Shapes'
  BY <1>1, <1>2, <1>3, <1>4 DEF Shapes
<1>6. ConfigurationsUsable'
  BY <1>5 DEF Shapes, ConfigurationsUsable, Proper
<1>7. AnalysesGetTheirEvents'
  BY <1>1, <1>2, <1>3 DEF AnalysesGetTheirEvents
<1>8. CallersAreLoaded' /\ OptionsComeFirst'
  BY <1>1, <1>4 DEF CallersAreLoaded, OptionsComeFirst
<1> QED BY <1>5, <1>6, <1>7, <1>8

\* A process starts another one, which has no configuration yet or that of its parent.
LEMMA BirthKeepsInv ==
    ASSUME ProofInv, NEW p \in Procs, NEW q \in Procs, Spawn(p, q) \/ Fork(p, q)
    PROVE  ProofInv'
<1> USE DEF ProofInv, EventsInv
<1>1. /\ UNCHANGED <<command, caller, files>>
      /\ process[p].up /\ Unborn(q)
      /\ \/ process' = [process EXCEPT ![q] = NewProcess(q, process[p].env)]
         \/ process' = [process EXCEPT ![q] = process[p]]
  BY DEF Spawn, Fork
<1>2. ~process[q].loaded
  <2>1. process[q] = [NewProcess(q, NoFile) EXCEPT !.up = FALSE]
    BY <1>1 DEF Unborn
  <2> QED BY <2>1 DEF NewProcess
<1>3. \A c \in Callers : caller[q][c].at = "idle"
  BY <1>2 DEF CallersAreLoaded
<1>4. /\ DOMAIN process' = Procs
      /\ \A r \in Procs : r # q => process'[r] = process[r]
      /\ IsProcess(process'[q]) /\ Proper(process'[q].config)
      /\ process'[q].loaded => Complete(process'[q].config)
  <2>1. LET new == NewProcess(q, process[p].env)
        IN  IsProcess(new) /\ Proper(new.config) /\ new.loaded = FALSE
    BY InitialIsProper DEF NewProcess, IsProcess
  <2> QED BY <1>1, <2>1 DEF Shapes, AnalysesGetTheirEvents
<1>5. Shapes'
  BY <1>1, <1>4 DEF Shapes
<1>6. ConfigurationsUsable'
  BY <1>5 DEF Shapes, ConfigurationsUsable, Proper
<1>7. AnalysesGetTheirEvents'
  BY <1>1, <1>4 DEF AnalysesGetTheirEvents
<1>8. CallersAreLoaded'
  BY <1>1, <1>3, <1>4 DEF CallersAreLoaded
<1>9. OptionsComeFirst'
  BY <1>1 DEF OptionsComeFirst
<1> QED BY <1>5, <1>6, <1>7, <1>8, <1>9

\* The other calls, and the steps of a call between its first and its last.
LEMMA CallsKeepInv ==
    ASSUME ProofInv, NEW p \in Procs,
           \/ HookedCall(p) \/ LogLine(p) \/ ImportTorch(p) \/ AclInit(p)
           \/ \E call \in {"start", "stop"} : SetTraceStatus(p, call)
           \/ \E c \in Callers :
                 Decide(p, c) \/ CallAtenCollector(p, c) \/ CallOptimizerHook(p, c)
    PROVE  ProofInv'
<1> DEFINE self == process[p]
<1>1. Shapes /\ IsProcess(self)
  BY DEF ProofInv, Shapes
<1>2. \A q \in Procs, c \in Callers : caller[q][c].at # "idle" => process[q].loaded
  BY DEF ProofInv, EventsInv, CallersAreLoaded
<1>3. ASSUME NEW new, Same(self, new), process' = [process EXCEPT ![p] = new],
             UNCHANGED <<command, files>>,
             DOMAIN caller' = Procs,
             \A q \in Procs : /\ DOMAIN caller'[q] = Callers
                              /\ \A d \in Callers : "at" \in DOMAIN caller'[q][d],
             \A q \in Procs, d \in Callers :
                 caller'[q][d].at = caller[q][d].at \/ (q = p /\ self.loaded)
      PROVE  ProofInv'
  <2>1. DOMAIN process' = Procs /\ \A q \in Procs : Same(process[q], process'[q])
    BY <1>1, <1>3 DEF Shapes, Same
  <2> QED BY <2>1, <1>3, SameKeepsInv
<1>4. CASE HookedCall(p)
  <2>1. PICK new \in {Report(Manage(self)), Manage(self)} :
            process' = [process EXCEPT ![p] = new] /\ UNCHANGED <<command, caller, files>>
    BY <1>4 DEF HookedCall
  <2>2. Same(self, Manage(self)) /\ Same(Manage(self), Report(Manage(self)))
    BY <1>1, ProcessStaysSame DEF Same
  <2>3. Same(self, new)
    BY <2>1, <2>2 DEF Same
  <2> QED BY <1>1, <1>3, <2>1, <2>3 DEF Shapes
<1>5. CASE ImportTorch(p)
  <2>1. /\ process' = [process EXCEPT ![p] = [self EXCEPT !.torch = TRUE]]
        /\ UNCHANGED <<command, files>>
        /\ caller' = [caller EXCEPT ![p]["acl"].alone = (@ /\ caller[p]["acl"].at = "idle")]
    BY <1>5 DEF ImportTorch
  <2>2. Same(self, [self EXCEPT !.torch = TRUE])
    BY <1>1 DEF Same, IsProcess
  <2>3. /\ DOMAIN caller' = Procs
        /\ \A q \in Procs : /\ DOMAIN caller'[q] = Callers
                            /\ \A d \in Callers : "at" \in DOMAIN caller'[q][d]
        /\ \A q \in Procs, d \in Callers : caller'[q][d].at = caller[q][d].at
    BY <1>1, <2>1 DEF Shapes
  <2> QED BY <1>3, <2>1, <2>2, <2>3
<1>6. CASE AclInit(p)
  <2> DEFINE new == [Manage(self) EXCEPT !.aclInit = TRUE]
  <2>1. /\ process' = [process EXCEPT ![p] = new]
        /\ UNCHANGED <<command, files>>
        /\ self.loaded /\ Begin(p, "acl", "aclInit", "aten")
    BY <1>6 DEF AclInit, Running
  <2>2. Same(self, new)
    BY <1>1, ProcessStaysSame DEF Same, IsProcess
  <2>3. /\ DOMAIN caller' = Procs
        /\ \A q \in Procs : /\ DOMAIN caller'[q] = Callers
                            /\ \A d \in Callers : "at" \in DOMAIN caller'[q][d]
        /\ \A q \in Procs, d \in Callers : caller'[q][d].at = caller[q][d].at \/ q = p
    BY <1>1, <2>1, CallerMoves DEF Callers
  <2> HIDE DEF new
  <2> QED BY <1>3, <2>1, <2>2, <2>3
<1>7. ASSUME NEW call, SetTraceStatus(p, call) PROVE ProofInv'
  <2> DEFINE status == IF call = "start" THEN "IN_TRACING" ELSE "NOT_IN_TRACING"
             before == Manage(Report(self))
             new    == [before EXCEPT !.status = status]
  <2>1. /\ process' = [process EXCEPT ![p] = new]
        /\ UNCHANGED <<command, files>>
        /\ self.loaded /\ Begin(p, "python", call, "aten")
    BY <1>7 DEF SetTraceStatus, Running
  <2>2. Same(self, Report(self)) /\ Same(Report(self), before)
    BY <1>1, ProcessStaysSame DEF Same
  <2>3. Same(self, new)
    <3> HIDE DEF before, status
    <3> QED BY <2>2 DEF Same, IsProcess
  <2>4. /\ DOMAIN caller' = Procs
        /\ \A q \in Procs : /\ DOMAIN caller'[q] = Callers
                            /\ \A d \in Callers : "at" \in DOMAIN caller'[q][d]
        /\ \A q \in Procs, d \in Callers : caller'[q][d].at = caller[q][d].at \/ q = p
    BY <1>1, <2>1, CallerMoves DEF Callers
  <2> HIDE DEF new
  <2> QED BY <1>3, <2>1, <2>3, <2>4
<1>8. ASSUME NEW c \in Callers, Decide(p, c) PROVE ProofInv'
  <2>1. /\ process' = [process EXCEPT ![p] = Manage(self)]
        /\ UNCHANGED <<command, files>>
        /\ caller[p][c].at \in {"aten", "hook"}
    BY <1>8 DEF Decide
  <2>2. Same(self, Manage(self)) /\ self.loaded
    BY <1>1, <1>2, <2>1, ProcessStaysSame
  <2>3. /\ DOMAIN caller' = Procs
        /\ \A q \in Procs : /\ DOMAIN caller'[q] = Callers
                            /\ \A d \in Callers : "at" \in DOMAIN caller'[q][d]
        /\ \A q \in Procs, d \in Callers : caller'[q][d].at = caller[q][d].at \/ q = p
    BY <1>1, <1>8 DEF Decide, Shapes
  <2> QED BY <1>3, <2>1, <2>2, <2>3
<1>9. ASSUME NEW c \in Callers, CallAtenCollector(p, c) PROVE ProofInv'
  <2>1. PICK on : /\ process' = [process EXCEPT ![p] = [self EXCEPT !.collector = on]]
                  /\ UNCHANGED <<command, files>>
                  /\ caller[p][c].at = "atenCall" /\ Goto(p, c, "hook")
    BY <1>9 DEF CallAtenCollector
  <2>2. Same(self, [self EXCEPT !.collector = on]) /\ self.loaded
    BY <1>1, <1>2, <2>1 DEF Same, IsProcess
  <2>3. /\ DOMAIN caller' = Procs
        /\ \A q \in Procs : /\ DOMAIN caller'[q] = Callers
                            /\ \A d \in Callers : "at" \in DOMAIN caller'[q][d]
        /\ \A q \in Procs, d \in Callers : caller'[q][d].at = caller[q][d].at \/ q = p
    BY <1>1, <2>1, CallerMoves
  <2> QED BY <1>3, <2>1, <2>2, <2>3
<1>10. ASSUME NEW c \in Callers, CallOptimizerHook(p, c) PROVE ProofInv'
  <2> DEFINE switched == SwitchHook(self, caller[p][c].on)
             saved    == [switched EXCEPT !.env = switched.project]
  <2>1. PICK new \in {UpdateAnalysisType(switched), MakeOutput(saved), Report(switched), switched} :
            process' = [process EXCEPT ![p] = new]
    BY <1>10 DEF CallOptimizerHook
  <2>2. /\ UNCHANGED <<command, files>> /\ caller[p][c].at = "hookCall"
        /\ Goto(p, c, "write") \/ Return(p, c)
    BY <1>10 DEF CallOptimizerHook
  <2>3. Same(self, switched)
    BY <1>1, ProcessStaysSame
  <2> HIDE DEF switched
  <2>4. Same(switched, saved)
    BY <2>3 DEF Same, IsProcess
  <2> HIDE DEF saved
  <2>5. Same(saved, MakeOutput(saved)) /\ Same(switched, UpdateAnalysisType(switched))
        /\ Same(switched, Report(switched))
    BY <2>3, <2>4, ProcessStaysSame DEF Same
  <2>6. Same(self, new) /\ self.loaded
    BY <1>2, <2>1, <2>2, <2>3, <2>4, <2>5 DEF Same
  <2>7. /\ DOMAIN caller' = Procs
        /\ \A q \in Procs : /\ DOMAIN caller'[q] = Callers
                            /\ \A d \in Callers : "at" \in DOMAIN caller'[q][d]
        /\ \A q \in Procs, d \in Callers : caller'[q][d].at = caller[q][d].at \/ q = p
    BY <1>1, <2>2, CallerMoves
  <2> QED BY <1>3, <2>1, <2>2, <2>6, <2>7
<1>11. CASE LogLine(p)
  <2>1. /\ process' = [process EXCEPT ![p] = MakeOutput(self)]
        /\ UNCHANGED <<command, caller, files>>
    BY <1>11 DEF LogLine
  <2>2. Same(self, MakeOutput(self))
    BY <1>1, ProcessStaysSame
  <2> QED BY <1>1, <1>3, <2>1, <2>2 DEF Shapes
<1> QED BY <1>4, <1>5, <1>6, <1>7, <1>8, <1>9, <1>10, <1>11

\* Every step keeps the invariant.
LEMMA NextKeepsInv == ProofInv /\ [Next]_vars => ProofInv'
<1> SUFFICES ASSUME ProofInv, [Next]_vars PROVE ProofInv'
    OBVIOUS
<1>1. CASE UNCHANGED vars
  BY <1>1 DEF vars, ProofInv, Shapes, EventsInv, ConfigurationsUsable, AnalysesGetTheirEvents,
              CallersAreLoaded, OptionsComeFirst
<1>2. CASE Next
  <2>1. CASE \/ \E option \in Options : ReadOption(option[1], option[2])
             \/ DoUserCommand
    BY <2>1, CommandKeepsInv
  <2>2. ASSUME NEW p \in Procs, ReadConfig(p) PROVE ProofInv'
    BY <2>2, ReadKeepsInv
  <2>3. ASSUME NEW p \in Procs, NEW d \in Dictionaries, Configure(p, d) PROVE ProofInv'
    BY <2>3, ConfigureKeepsInv
  <2>4. ASSUME NEW p \in Procs, Write(p) PROVE ProofInv'
    BY <2>4, WriteKeepsInv
  <2>5. ASSUME NEW p \in Procs, NEW q \in Procs, Spawn(p, q) \/ Fork(p, q) PROVE ProofInv'
    BY <2>5, BirthKeepsInv
  <2>6. ASSUME NEW p \in Procs,
               \/ HookedCall(p) \/ LogLine(p) \/ ImportTorch(p) \/ AclInit(p)
               \/ \E call \in {"start", "stop"} : SetTraceStatus(p, call)
               \/ \E c \in Callers :
                     Decide(p, c) \/ CallAtenCollector(p, c) \/ CallOptimizerHook(p, c)
        PROVE  ProofInv'
    BY <2>6, CallsKeepInv
  <2> QED BY <1>2, <2>1, <2>2, <2>3, <2>4, <2>5, <2>6 DEF Next
<1> QED BY <1>1, <1>2

\* Whatever the options and dictionaries are, in whatever order processes read, change, save
\* and inherit configurations: one that a process works with has the events of its analyses,
\* and so has every file.
THEOREM ConfigurationsComplete == Spec => []AnalysesGetTheirEvents
<1>1. ProofInv => AnalysesGetTheirEvents
  BY DEF ProofInv, EventsInv
<1> QED BY <1>1, InitEventsInv, NextKeepsInv, PTL DEF Spec

------------------------------------------------------------------------------------
\* The parts of a configuration that are set once

\* The fields of a configuration that the rest of a process is built from.
Built == {"dataFormat", "outputDir", "isEffective", "analysisType"}

HasBuilt(config) == Built \subseteq DOMAIN config

\* What a parser makes of a configuration has its fields, and is as effective.
KeepsBuilt(config, new) == HasBuilt(new) /\ new.isEffective = config.isEffective

\* Neither is the format another one, nor the directory.
KeepsOutput(config, new) ==
    /\ KeepsBuilt(config, new)
    /\ new.dataFormat = config.dataFormat /\ new.outputDir = config.outputDir

LEMMA ParsersKeepOutput ==
    ASSUME NEW config, HasBuilt(config), NEW param
    PROVE  /\ KeepsOutput(config, ParseSelectSteps(param, config).config)
           /\ KeepsOutput(config, ParseAnalysis(param, config).config)
           /\ KeepsOutput(config, ParseCallstack(param, config).config)
           /\ KeepsBuilt(config, ParseOutputPath(param, config).config)
           /\ KeepsOutput(config, ParseDataLevel(param, config).config)
           /\ KeepsOutput(config, ParseEventTraceType(param, config).config)
           /\ KeepsOutput(config, ParseWatchConfig(param, config).config)
           /\ KeepsOutput(config, ParseLogLv(param, config).config)
           /\ KeepsBuilt(config, ParseDataFormat(param, config).config)
           /\ KeepsOutput(config, ParseCollectMode(param, config).config)
           /\ KeepsOutput(config, ParseDevice(param, config).config)
<1> USE DEF HasBuilt, Built, KeepsBuilt, KeepsOutput, Accept, Reject
<1>1. KeepsOutput(config, ParseSelectSteps(param, config).config)
  BY DEF ParseSelectSteps
<1>2. KeepsOutput(config, ParseAnalysis(param, config).config)
  BY DEF ParseAnalysis
<1>3. KeepsOutput(config, ParseCallstack(param, config).config)
  BY DEF ParseCallstack
<1>4. KeepsBuilt(config, ParseOutputPath(param, config).config)
  BY DEF ParseOutputPath
<1>5. KeepsOutput(config, ParseDataLevel(param, config).config)
  BY DEF ParseDataLevel
<1>6. KeepsOutput(config, ParseEventTraceType(param, config).config)
  BY DEF ParseEventTraceType
<1>7. KeepsOutput(config, ParseWatchConfig(param, config).config)
  BY DEF ParseWatchConfig
<1>8. KeepsOutput(config, ParseLogLv(param, config).config)
  BY DEF ParseLogLv
<1>9. KeepsBuilt(config, ParseDataFormat(param, config).config)
  BY DEF ParseDataFormat
<1>10. KeepsOutput(config, ParseCollectMode(param, config).config)
  BY DEF ParseCollectMode
<1>11. KeepsOutput(config, ParseDevice(param, config).config)
  BY DEF ParseDevice
<1> QED BY <1>1, <1>2, <1>3, <1>4, <1>5, <1>6, <1>7, <1>8, <1>9, <1>10, <1>11

\* An option or an entry that is not one of the two that are set once.
LEMMA OptionsKeepOutput ==
    ASSUME NEW config, HasBuilt(config), NEW param, NEW opt, NEW inputs
    PROVE  /\ HasBuilt(ParseUserCommand(opt, param, inputs, config).config)
           /\ KeepsBuilt(config, ParseEntry(opt, param, config).config)
           /\ opt \notin {"output", "data_format"}
                 => KeepsOutput(config, ParseEntry(opt, param, config).config)
<1>1. /\ HasBuilt(ParseInputPaths(param, inputs, config).config)
      /\ HasBuilt(Accept([config EXCEPT !.enableCompare = TRUE]).config)
  BY DEF ParseInputPaths, HasBuilt, Built, Accept, Reject
<1>2. KeepsOutput(config, Accept(config).config) /\ KeepsOutput(config, Reject(config).config)
  BY DEF Accept, Reject, KeepsOutput, KeepsBuilt
<1>3. \A new : KeepsOutput(config, new) => KeepsBuilt(config, new) /\ HasBuilt(new)
  BY DEF KeepsOutput, KeepsBuilt
<1>4. \A new : KeepsBuilt(config, new) => HasBuilt(new)
  BY DEF KeepsBuilt
<1>5. HasBuilt(ParseUserCommand(opt, param, inputs, config).config)
  BY <1>1, <1>2, <1>3, <1>4, ParsersKeepOutput, Zenon DEF ParseUserCommand
<1>6. KeepsBuilt(config, ParseEntry(opt, param, config).config)
  BY <1>2, <1>3, ParsersKeepOutput, Zenon DEF ParseEntry
<1>7. ASSUME opt # "output", opt # "data_format"
      PROVE  KeepsOutput(config, ParseEntry(opt, param, config).config)
  BY <1>2, <1>7, ParsersKeepOutput, Zenon DEF ParseEntry
<1> QED BY <1>5, <1>6, <1>7

\* What is done to a configuration that has been read.
LEMMA ImplKeepsOutput ==
    ASSUME NEW config, HasBuilt(config)
    PROVE  /\ KeepsOutput(config, SetConfigImpl(config))
           /\ KeepsOutput(config, Saved(config))
           /\ HasBuilt(SetEffectiveConfig(config)) /\ SetEffectiveConfig(config).isEffective = TRUE
           /\ SetEffectiveConfig(config).dataFormat = config.dataFormat
           /\ SetEffectiveConfig(config).outputDir = config.outputDir
<1> USE DEF HasBuilt, Built, KeepsOutput, KeepsBuilt
<1>1. KeepsOutput(config, SetEventDefaultConfig(config))
  BY DEF SetEventDefaultConfig
<1>2. KeepsOutput(SetEventDefaultConfig(config), SetConfigImpl(config))
  BY <1>1 DEF SetAnalysisDefaultConfig, SetConfigImpl
<1>3. KeepsOutput(config, Saved(config))
  BY DEF Saved
<1>4. /\ HasBuilt(SetEffectiveConfig(config)) /\ SetEffectiveConfig(config).isEffective = TRUE
      /\ SetEffectiveConfig(config).dataFormat = config.dataFormat
      /\ SetEffectiveConfig(config).outputDir = config.outputDir
  BY DEF SetEffectiveConfig
<1> QED BY <1>1, <1>2, <1>3, <1>4

\* Once a configuration is effective config() changes neither the format nor the directory.
LEMMA SetConfigKeepsOutput ==
    ASSUME NEW dictionary, NEW old
    PROVE  LET config == SetConfig(dictionary, old)
           IN  /\ HasBuilt(config) /\ config.isEffective = TRUE
               /\ old.isEffective => /\ config.dataFormat = old.dataFormat
                                     /\ config.outputDir = old.outputDir
<1> DEFINE new     == GetConfigAfterInit(old)
           entries == {ParseEntry(key, dictionary[key], new).config :
                          key \in Parsed(dictionary, old)}
           merged  == Merged(new, entries)
<1>1. HasBuilt(new) /\ new.dataFormat = old.dataFormat /\ new.outputDir = old.outputDir
  BY DEF GetConfigAfterInit, InitialConfig, HasBuilt, Built
<1>2. SetConfig(dictionary, old) = SetEffectiveConfig(SetConfigImpl(merged))
  BY DEF SetConfig
<1>3. HasBuilt(merged)
  <2>1. DOMAIN merged = DOMAIN new
    BY DEF Merged
  <2> QED BY <1>1, <2>1 DEF HasBuilt
<1>4. ASSUME old.isEffective
      PROVE  merged.dataFormat = new.dataFormat /\ merged.outputDir = new.outputDir
  <2>1. Parsed(dictionary, old) \cap {"output", "data_format"} = {}
    BY <1>4 DEF Parsed, ConfigPolicyTable
  <2> HIDE DEF new
  <2>2. \A c \in entries : c.dataFormat = new.dataFormat /\ c.outputDir = new.outputDir
    <3>1. ASSUME NEW key \in Parsed(dictionary, old)
          PROVE  KeepsOutput(new, ParseEntry(key, dictionary[key], new).config)
      <4>1. key \notin {"output", "data_format"}
        BY <2>1
      <4> QED BY <1>1, <4>1, OptionsKeepOutput
    <3> QED BY <3>1 DEF KeepsOutput
  <2> HIDE DEF entries
  <2>3. merged.dataFormat = new.dataFormat /\ merged.outputDir = new.outputDir
    <3>1. \A field \in {"dataFormat", "outputDir"} :
              /\ field \in DOMAIN new
              /\ {other \in entries : other[field] # new[field]} = {}
      BY <1>1, <2>2 DEF HasBuilt, Built
    <3> QED BY <3>1 DEF Merged
  <2> QED BY <2>3
<1> HIDE DEF new, merged
<1>5. KeepsOutput(merged, SetConfigImpl(merged))
  BY <1>3, ImplKeepsOutput
<1>6. HasBuilt(SetConfigImpl(merged))
  BY <1>5 DEF KeepsOutput, KeepsBuilt
<1> DEFINE config == SetConfig(dictionary, old)
<1>7. /\ HasBuilt(config) /\ config.isEffective = TRUE
      /\ config.dataFormat = SetConfigImpl(merged).dataFormat
      /\ config.outputDir = SetConfigImpl(merged).outputDir
  BY <1>2, <1>6, ImplKeepsOutput
<1>8. old.isEffective => config.dataFormat = old.dataFormat /\ config.outputDir = old.outputDir
  BY <1>1, <1>4, <1>5, <1>7 DEF KeepsOutput
<1> QED BY <1>7, <1>8

------------------------------------------------------------------------------------
\* A process and its two callers

Fields == {"up", "env", "project", "loaded", "config", "managed", "status", "reporting",
           "analyzers", "dump", "output", "aclInit", "torch", "collector", "hook"}

Formed(self) == Fields \subseteq DOMAIN self /\ HasBuilt(self.config)

\* The format and the directory are those of the first use, which nothing changes once they
\* were chosen; before the configuration is there nothing was used.
Once(self) ==
    /\ Formed(self)
    /\ ~self.loaded => ~self.reporting /\ ~self.output.made
    /\ self.reporting /\ self.dump.effective
          => self.config.isEffective /\ self.dump.format = self.config.dataFormat
    /\ self.output.made /\ self.output.effective
          => self.config.isEffective /\ self.output.dir = self.config.outputDir

AnalyzersFollow(self) == self.reporting => self.analyzers = Analyzers(self.config)

\* The callers of a process that is `self`.  A call that is alone has the other caller idle.
Called(self, callers) ==
    /\ DOMAIN callers = Callers
    /\ \A c \in Callers :
          /\ {"at", "call", "on", "alone"} \subseteq DOMAIN callers[c]
          /\ callers[c].at = "idle" => callers[c].call = "none"
          /\ callers[c].at # "idle" =>
                self.loaded /\ (callers[c].alone => callers[Other(c)].at = "idle")

\* How far a call has come with the collector and the hook.
Collected(k) == k.at = "write" /\ k.call # "config"

Switched(self, k) ==
    /\ k.at \in {"atenCall", "hook", "hookCall"} \/ Collected(k) => self.managed = TRUE
    /\ k.at # "idle" /\ k.alone /\ self.torch =>
          /\ k.at = "atenCall" => k.on = WantsCollector(self)
          /\ k.at \in {"hook", "hookCall"} \/ Collected(k)
                => self.collector = WantsCollector(self)
          /\ k.at = "hookCall" => k.on = WantsHook(self)
          /\ Collected(k) => self.hook = WantsHook(self)

Local(self, callers) ==
    /\ Once(self)
    /\ Called(self, callers)
    /\ callers["python"].call # "config" => AnalyzersFollow(self)
    /\ \A c \in Callers : Switched(self, callers[c])

\* `new` is `self` in all that the callers decide by.
Calm(self, new) ==
    \A field \in {"loaded", "config", "managed", "status", "aclInit", "torch", "collector",
                  "hook"} : new[field] = self[field]

LEMMA CalmWants ==
    ASSUME NEW self, NEW new, Calm(self, new)
    PROVE  /\ new.loaded = self.loaded /\ new.config = self.config
           /\ WantsCollector(new) = WantsCollector(self) /\ WantsHook(new) = WantsHook(self)
           /\ \A k : Switched(self, k) => Switched(new, k)
           /\ \A callers : Called(self, callers) => Called(new, callers)
<1>1. /\ new.loaded = self.loaded /\ new.config = self.config
      /\ new.managed = self.managed /\ new.status = self.status
      /\ new.aclInit = self.aclInit /\ new.torch = self.torch
      /\ new.collector = self.collector /\ new.hook = self.hook
  BY DEF Calm
<1>2. WantsCollector(new) = WantsCollector(self) /\ WantsHook(new) = WantsHook(self)
  BY <1>1 DEF WantsCollector, WantsHook, Tracing
<1>3. \A k : Switched(self, k) => Switched(new, k)
  BY <1>1, <1>2 DEF Switched
<1>4. \A callers : Called(self, callers) => Called(new, callers)
  BY <1>1 DEF Called
<1> QED BY <1>1, <1>2, <1>3, <1>4

\* The singletons that are built, or follow the configuration, leave the rest calm.
LEMMA BuildingIsCalm ==
    ASSUME NEW self, Once(self), self.loaded
    PROVE  /\ Once(Report(self)) /\ Calm(self, Report(self))
           /\ AnalyzersFollow(self) => AnalyzersFollow(Report(self))
           /\ Once(MakeOutput(self)) /\ Calm(self, MakeOutput(self))
           /\ AnalyzersFollow(self) => AnalyzersFollow(MakeOutput(self))
           /\ Once(UpdateAnalysisType(self)) /\ Calm(self, UpdateAnalysisType(self))
           /\ AnalyzersFollow(UpdateAnalysisType(self))
<1> USE DEF Once, Formed, Fields, Calm, AnalyzersFollow
<1>1. /\ Once(Report(self)) /\ Calm(self, Report(self))
      /\ AnalyzersFollow(self) => AnalyzersFollow(Report(self))
  BY DEF Report, MakeOutput
<1>2. /\ Once(MakeOutput(self)) /\ Calm(self, MakeOutput(self))
      /\ AnalyzersFollow(self) => AnalyzersFollow(MakeOutput(self))
  BY DEF MakeOutput
<1>3. /\ Once(UpdateAnalysisType(self)) /\ Calm(self, UpdateAnalysisType(self))
      /\ AnalyzersFollow(UpdateAnalysisType(self))
  BY <1>1 DEF UpdateAnalysisType
<1> QED BY <1>1, <1>2, <1>3

\* A change that touches none of the fields below leaves all of it.
Beside(self, new) ==
    /\ DOMAIN new = DOMAIN self
    /\ \A field \in Fields \ {"up", "env", "project"} : new[field] = self[field]

LEMMA BesideKeeps ==
    ASSUME NEW self, NEW new, Beside(self, new), Once(self)
    PROVE  /\ Once(new) /\ Calm(self, new)
           /\ AnalyzersFollow(self) => AnalyzersFollow(new)
<1>1. /\ Fields \subseteq DOMAIN new
      /\ new.loaded = self.loaded /\ new.config = self.config
      /\ new.reporting = self.reporting /\ new.analyzers = self.analyzers
      /\ new.dump = self.dump /\ new.output = self.output
  BY DEF Beside, Once, Formed, Fields
<1>2. Calm(self, new)
  BY DEF Beside, Calm, Fields
<1> QED BY <1>1, <1>2 DEF Once, Formed, AnalyzersFollow

\* The manager that is built, and nothing more of it later.
LEMMA ManageKeeps ==
    ASSUME NEW self, Once(self)
    PROVE  /\ Once(Manage(self)) /\ Manage(self).managed = TRUE
           /\ Manage(self).loaded = self.loaded /\ Manage(self).config = self.config
           /\ Manage(self).torch = self.torch
           /\ AnalyzersFollow(self) => AnalyzersFollow(Manage(self))
           /\ self.managed = TRUE => Manage(self) = self
  BY DEF Manage, Once, Formed, Fields, AnalyzersFollow

LEMMA OtherCaller ==
    /\ Other("python") = "acl" /\ Other("acl") = "python"
    /\ \A c, d \in Callers : d # c => d = Other(c)
<1>1. Other("python") \in Callers /\ Other("python") # "python"
  BY DEF Other, Callers
<1>2. Other("acl") \in Callers /\ Other("acl") # "acl"
  BY DEF Other, Callers
<1> QED BY <1>1, <1>2 DEF Callers

\* What a call does to the callers of its process.
Began(callers, c, call, at) ==
    LET free == callers[Other(c)].at = "idle"
    IN  [x \in Callers |->
            IF x = c THEN [Idle EXCEPT !.at = at, !.call = call, !.alone = free]
                     ELSE [callers[x] EXCEPT !.alone = @ /\ free]]

Gone(callers, c, at) == [callers EXCEPT ![c].at = at]

Returned(callers, c) == [callers EXCEPT ![c] = Idle]

\* A call begins: the other one is not alone any more.
LEMMA BeginFits ==
    ASSUME NEW self, NEW callers, Called(self, callers), NEW new, new.loaded = TRUE,
           NEW c \in Callers, NEW call, NEW at, at # "idle",
           new.managed \in {self.managed, TRUE}
    PROVE  LET began == Began(callers, c, call, at)
           IN  /\ Called(new, began) /\ began[c].at = at /\ began[c].call = call
               /\ \A d \in Callers : d # c =>
                     /\ began[d].call = callers[d].call
                     /\ Switched(self, callers[d]) => Switched(new, began[d])
<1> DEFINE free  == callers[Other(c)].at = "idle"
           began == Began(callers, c, call, at)
<1>1. /\ DOMAIN began = Callers
      /\ began[c] = [Idle EXCEPT !.at = at, !.call = call, !.alone = free]
      /\ \A d \in Callers : d # c => began[d] = [callers[d] EXCEPT !.alone = @ /\ free]
  BY DEF Began
<1> HIDE DEF began
<1>2. /\ {"at", "call", "on", "alone"} \subseteq DOMAIN began[c]
      /\ began[c].at = at /\ began[c].call = call /\ (began[c].alone <=> free)
  BY <1>1 DEF Idle
<1>3. ASSUME NEW d \in Callers, d # c
      PROVE  /\ {"at", "call", "on", "alone"} \subseteq DOMAIN began[d]
             /\ began[d].at = callers[d].at /\ began[d].call = callers[d].call
             /\ began[d].at # "idle" => ~began[d].alone
  <2>1. d = Other(c)
    BY <1>3, OtherCaller
  <2>2. {"at", "call", "on", "alone"} \subseteq DOMAIN callers[d]
    BY DEF Called
  <2>3. began[d] = [callers[d] EXCEPT !.alone = @ /\ free]
    BY <1>1, <1>3
  <2> HIDE DEF free
  <2>4. /\ {"at", "call", "on", "alone"} \subseteq DOMAIN began[d]
        /\ began[d].at = callers[d].at /\ began[d].call = callers[d].call
    BY <2>2, <2>3
  <2>5. ~free => ~began[d].alone
    BY <2>2, <2>3
  <2>6. free => callers[d].at = "idle"
    BY <2>1 DEF free
  <2> QED BY <2>4, <2>5, <2>6
<1>4. Called(new, began)
  <2>1. \A d \in Callers : {"at", "call", "on", "alone"} \subseteq DOMAIN began[d]
    BY <1>2, <1>3
  <2>2. \A d \in Callers : began[d].at = "idle" => began[d].call = "none"
    BY <1>2, <1>3 DEF Called
  <2>3. ASSUME NEW d \in Callers, began[d].at # "idle", began[d].alone
        PROVE  began[Other(d)].at = "idle"
    <3>1. d = c /\ free
      BY <1>2, <1>3, <2>3
    <3>2. Other(c) \in Callers /\ Other(c) # c
      BY OtherCaller DEF Callers
    <3> QED BY <1>3, <3>1, <3>2
  <2> QED BY <1>1, <2>1, <2>2, <2>3 DEF Called
<1>5. ASSUME NEW d \in Callers, d # c, Switched(self, callers[d])
      PROVE  Switched(new, began[d])
  BY <1>3, <1>5 DEF Switched, Collected
<1> QED BY <1>2, <1>3, <1>4, <1>5 DEF began

\* A call goes on or returns.
LEMMA MoveFits ==
    ASSUME NEW self, NEW callers, Called(self, callers), NEW new, new.loaded = self.loaded,
           NEW c \in Callers, callers[c].at # "idle", NEW at, at # "idle"
    PROVE  /\ Called(new, Gone(callers, c, at)) /\ Called(new, Returned(callers, c))
           /\ Gone(callers, c, at)[c] = [callers[c] EXCEPT !.at = at]
           /\ Returned(callers, c)[c] = Idle
           /\ \A d \in Callers : d # c => /\ Gone(callers, c, at)[d] = callers[d]
                                          /\ Returned(callers, c)[d] = callers[d]
<1>1. /\ DOMAIN Gone(callers, c, at) = Callers
      /\ Gone(callers, c, at)[c] = [callers[c] EXCEPT !.at = at]
      /\ \A d \in Callers : d # c => Gone(callers, c, at)[d] = callers[d]
  BY DEF Gone, Called
<1>2. /\ DOMAIN Returned(callers, c) = Callers /\ Returned(callers, c)[c] = Idle
      /\ \A d \in Callers : d # c => Returned(callers, c)[d] = callers[d]
  BY DEF Returned, Called
<1>3. /\ {"at", "call", "on", "alone"} \subseteq DOMAIN Gone(callers, c, at)[c]
      /\ Gone(callers, c, at)[c].at = at
      /\ Gone(callers, c, at)[c].alone = callers[c].alone
  BY <1>1 DEF Called
<1>4. Called(new, Gone(callers, c, at))
  BY <1>1, <1>3, OtherCaller DEF Called, Callers
<1>5. Called(new, Returned(callers, c))
  BY <1>2, OtherCaller DEF Called, Callers, Idle
<1> QED BY <1>1, <1>2, <1>4, <1>5

\* A caller that is idle, or just began, has nothing to show.
LEMMA NothingYet ==
    ASSUME NEW self, NEW k, k.at \in {"idle", "aten"} \/ (k.at = "write" /\ k.call = "config")
    PROVE  Switched(self, k)
  BY DEF Switched, Collected

\* While a call is alone the other caller says nothing.
LEMMA OtherSaysNothing ==
    ASSUME NEW self, NEW callers, Called(self, callers), NEW c \in Callers,
           callers[c].at # "idle", NEW d \in Callers, d # c, Switched(self, callers[d]),
           NEW new, self.managed = TRUE => new.managed = TRUE
    PROVE  Switched(new, callers[d])
<1>1. d = Other(c) /\ c = Other(d)
  BY OtherCaller
<1>2. callers[d].at # "idle" => ~callers[d].alone
  BY <1>1 DEF Called
<1> QED BY <1>2 DEF Switched

\* The steps of a process, one by one.  A hooked call is reported.
LEMMA HookedLocal ==
    ASSUME NEW self, NEW callers, Local(self, callers), self.loaded
    PROVE  Local(Manage(self), callers) /\ Local(Report(Manage(self)), callers)
<1> DEFINE new == Manage(self)
<1>1. /\ Once(new) /\ new.loaded = self.loaded /\ new.config = self.config
      /\ new.managed = TRUE /\ new.torch = self.torch
      /\ AnalyzersFollow(self) => AnalyzersFollow(new)
      /\ self.managed = TRUE => new = self
  BY ManageKeeps DEF Local
<1> HIDE DEF new
<1>2. ASSUME NEW c \in Callers PROVE Switched(new, callers[c])
  <2>1. Switched(self, callers[c])
    BY DEF Local
  <2>2. CASE self.managed = TRUE
    BY <1>1, <2>1, <2>2
  <2>3. CASE self.managed # TRUE
    BY <1>1, <2>1, <2>3 DEF Switched, WantsCollector, WantsHook, Tracing
  <2> QED BY <2>2, <2>3
<1>3. Called(new, callers)
  BY <1>1 DEF Local, Called
<1>4. Local(new, callers)
  BY <1>1, <1>2, <1>3 DEF Local
<1>5. /\ Once(Report(new)) /\ Calm(new, Report(new))
      /\ AnalyzersFollow(new) => AnalyzersFollow(Report(new))
  BY <1>1, BuildingIsCalm
<1>6. Local(Report(new), callers)
  BY <1>4, <1>5, CalmWants DEF Local
<1> QED BY <1>4, <1>6 DEF new

\* A line of the log.
LEMMA LoggedLocal ==
    ASSUME NEW self, NEW callers, Local(self, callers), self.loaded
    PROVE  Local(MakeOutput(self), callers)
<1>1. /\ Once(MakeOutput(self)) /\ Calm(self, MakeOutput(self))
      /\ AnalyzersFollow(self) => AnalyzersFollow(MakeOutput(self))
  BY BuildingIsCalm DEF Local
<1> QED BY <1>1, CalmWants DEF Local

\* torch is there: a call of acl that is under way is not alone.
LEMMA ImportLocal ==
    ASSUME NEW self, NEW callers, Local(self, callers), callers["python"].at = "idle"
    PROVE  Local([self EXCEPT !.torch = TRUE],
                 [callers EXCEPT !["acl"].alone = (@ /\ callers["acl"].at = "idle")])
<1> DEFINE new   == [self EXCEPT !.torch = TRUE]
           moved == [callers EXCEPT !["acl"].alone = (@ /\ callers["acl"].at = "idle")]
           idle  == callers["acl"].at = "idle"
<1>1. /\ Once(new) /\ (AnalyzersFollow(self) => AnalyzersFollow(new))
      /\ new.loaded = self.loaded /\ new.managed = self.managed
  BY DEF Local, Once, Formed, Fields, AnalyzersFollow
<1>2. /\ DOMAIN moved = Callers /\ moved["python"] = callers["python"]
      /\ moved["acl"] = [callers["acl"] EXCEPT !.alone = @ /\ idle]
  BY DEF Local, Called, Callers
<1>3. {"at", "call", "on", "alone"} \subseteq DOMAIN callers["acl"]
  BY DEF Local, Called, Callers
<1> HIDE DEF new, moved, idle
<1>4. /\ {"at", "call", "on", "alone"} \subseteq DOMAIN moved["acl"]
      /\ moved["acl"].at = callers["acl"].at /\ moved["acl"].call = callers["acl"].call
      /\ ~idle => ~moved["acl"].alone
  BY <1>2, <1>3
<1>5. idle <=> callers["acl"].at = "idle"
  BY DEF idle
<1>6. Called(new, moved)
  BY <1>1, <1>2, <1>4, <1>5, OtherCaller DEF Local, Called, Callers
<1>7. Switched(new, moved["python"])
  BY <1>2, NothingYet
<1>8. Switched(self, callers["acl"])
  BY DEF Local, Callers
<1>9. Switched(new, moved["acl"])
  BY <1>1, <1>4, <1>5, <1>8 DEF Switched, Collected
<1>10. Local(new, moved)
  BY <1>1, <1>2, <1>6, <1>7, <1>9 DEF Local, Callers
<1> QED BY <1>10 DEF new, moved

\* config() fails, or gives the process another configuration.
LEMMA ConfigureLocal ==
    ASSUME NEW self, NEW callers, Local(self, callers), self.loaded = TRUE, NEW dictionary,
           NEW active, NEW level, callers["python"].at = "idle"
    PROVE  LET config == SetConfig(dictionary, self.config)
               given  == [self EXCEPT !.pyTrace = active, !.config = config,
                                      !.logLevel = level, !.env = self.project]
           IN  /\ Local([self EXCEPT !.pyTrace = active], callers)
               /\ Local(MakeOutput(given), Began(callers, "python", "config", "write"))
<1> DEFINE config == SetConfig(dictionary, self.config)
           failed == [self EXCEPT !.pyTrace = active]
           given  == [self EXCEPT !.pyTrace = active, !.config = config,
                                  !.logLevel = level, !.env = self.project]
           made   == MakeOutput(given)
           began  == Began(callers, "python", "config", "write")
<1>1. Beside(self, failed)
  BY DEF Beside, Fields, Local, Once, Formed
<1> HIDE DEF failed
<1>2. Local(failed, callers)
  BY <1>1, BesideKeeps, CalmWants DEF Local
<1>3. /\ HasBuilt(config) /\ config.isEffective = TRUE
      /\ self.config.isEffective => /\ config.dataFormat = self.config.dataFormat
                                    /\ config.outputDir = self.config.outputDir
  BY SetConfigKeepsOutput
<1> HIDE DEF config
<1>4. /\ Fields \subseteq DOMAIN given /\ given.config = config
      /\ \A field \in Fields \ {"config", "env"} : given[field] = self[field]
  BY DEF Local, Once, Formed, Fields
<1> HIDE DEF given
<1>5. /\ given.loaded = self.loaded /\ given.managed = self.managed
      /\ given.reporting = self.reporting /\ given.dump = self.dump
      /\ given.output = self.output
  BY <1>4 DEF Fields
<1>6. Once(given)
  BY <1>3, <1>4, <1>5 DEF Local, Once, Formed
<1>7. Once(made) /\ Calm(given, made)
  BY <1>5, <1>6, BuildingIsCalm
<1>8. made.loaded = TRUE /\ made.managed \in {self.managed, TRUE}
  BY <1>5, <1>7 DEF Calm
<1> HIDE DEF made
<1>9. /\ Called(made, began) /\ began["python"].at = "write"
         /\ began["python"].call = "config"
      /\ \A d \in Callers : d # "python" =>
             /\ began[d].call = callers[d].call
             /\ Switched(self, callers[d]) => Switched(made, began[d])
  BY <1>8, BeginFits DEF Local, Callers
<1> HIDE DEF began
<1>10. \A d \in Callers : Switched(made, began[d])
  BY <1>9, NothingYet DEF Local
<1>11. Local(made, began)
  BY <1>7, <1>9, <1>10 DEF Local
<1> QED BY <1>2, <1>11 DEF failed, made, began, given, config

\* start() and stop(), and aclInit.
LEMMA SwitchLocal ==
    ASSUME NEW self, NEW callers, Local(self, callers), self.loaded = TRUE,
           NEW status, NEW call \in {"start", "stop"}, callers["python"].at = "idle"
    PROVE  Local([Manage(Report(self)) EXCEPT !.status = status],
                 Began(callers, "python", call, "aten"))
<1> DEFINE before == Manage(Report(self))
           new    == [before EXCEPT !.status = status]
           began  == Began(callers, "python", call, "aten")
<1>1. callers["python"].call = "none"
  BY DEF Local, Called, Callers
<1>2. Once(Report(self)) /\ Report(self).loaded = TRUE /\ AnalyzersFollow(Report(self))
  BY <1>1, BuildingIsCalm DEF Local, Calm
<1>3. Once(before) /\ before.loaded = TRUE /\ before.managed = TRUE /\ AnalyzersFollow(before)
  BY <1>2, ManageKeeps
<1> HIDE DEF before
<1>4. Once(new) /\ new.loaded = TRUE /\ new.managed = TRUE /\ AnalyzersFollow(new)
  BY <1>3 DEF Once, Formed, Fields, AnalyzersFollow
<1> HIDE DEF new
<1>5. /\ Called(new, began) /\ began["python"].at = "aten" /\ began["python"].call = call
      /\ \A d \in Callers : d # "python" =>
             /\ began[d].call = callers[d].call
             /\ Switched(self, callers[d]) => Switched(new, began[d])
  BY <1>4, BeginFits DEF Local, Callers
<1> HIDE DEF began
<1>6. \A d \in Callers : Switched(new, began[d])
  BY <1>5, NothingYet DEF Local
<1>7. Local(new, began)
  BY <1>4, <1>5, <1>6 DEF Local
<1> QED BY <1>7 DEF before, new, began

LEMMA AclInitLocal ==
    ASSUME NEW self, NEW callers, Local(self, callers), self.loaded = TRUE
    PROVE  Local([Manage(self) EXCEPT !.aclInit = TRUE], Began(callers, "acl", "aclInit", "aten"))
<1> DEFINE before == Manage(self)
           new    == [before EXCEPT !.aclInit = TRUE]
           began  == Began(callers, "acl", "aclInit", "aten")
<1>1. /\ Once(before) /\ before.loaded = TRUE /\ before.managed = TRUE
      /\ AnalyzersFollow(self) => AnalyzersFollow(before)
  BY ManageKeeps DEF Local
<1> HIDE DEF before
<1>2. /\ Once(new) /\ new.loaded = TRUE /\ new.managed = TRUE
      /\ AnalyzersFollow(self) => AnalyzersFollow(new)
  BY <1>1 DEF Once, Formed, Fields, AnalyzersFollow
<1> HIDE DEF new
<1>3. /\ Called(new, began) /\ began["acl"].at = "aten" /\ began["acl"].call = "aclInit"
      /\ \A d \in Callers : d # "acl" =>
             /\ began[d].call = callers[d].call
             /\ Switched(self, callers[d]) => Switched(new, began[d])
  BY <1>2, BeginFits DEF Local, Callers
<1> HIDE DEF began
<1>4. \A d \in Callers : Switched(new, began[d])
  BY <1>3, NothingYet DEF Local
<1>5. Local(new, began)
  BY <1>2, <1>3, <1>4 DEF Local, Callers
<1> QED BY <1>5 DEF before, new, began

\* Where a call stands once it has returned.
Settled(self, callers, c, new) ==
    callers[c].alone /\ self.torch
        => new.collector = WantsCollector(new) /\ new.hook = WantsHook(new)

\* The file is written.
LEMMA WriteLocal ==
    ASSUME NEW self, NEW callers, Local(self, callers), callers["python"].at = "write"
    PROVE  /\ callers["python"].call = "config" => Local(self, Gone(callers, "python", "aten"))
           /\ callers["python"].call # "config" => /\ Local(self, Returned(callers, "python"))
                                                   /\ Settled(self, callers, "python", self)
<1> DEFINE gone == Gone(callers, "python", "aten")
           back == Returned(callers, "python")
<1>1. /\ Called(self, gone) /\ Called(self, back)
      /\ gone["python"] = [callers["python"] EXCEPT !.at = "aten"]
      /\ back["python"] = Idle
      /\ \A d \in Callers : d # "python" => /\ gone[d] = callers[d]
                                            /\ back[d] = callers[d]
  BY MoveFits DEF Local, Callers
<1> HIDE DEF gone, back
<1>2. {"at", "call", "on", "alone"} \subseteq DOMAIN callers["python"]
  BY DEF Local, Called, Callers
<1>3. \A d \in Callers : Switched(self, callers[d])
  BY DEF Local
<1>4. gone["python"].at = "aten" /\ gone["python"].call = callers["python"].call
  BY <1>1, <1>2
<1>5. Local(self, gone)
  <2>1. \A d \in Callers : Switched(self, gone[d])
    BY <1>1, <1>3, <1>4, NothingYet
  <2> QED BY <1>1, <1>4, <2>1 DEF Local
<1>6. back["python"].at = "idle" /\ back["python"].call = "none"
  BY <1>1 DEF Idle
<1>7. ASSUME callers["python"].call # "config" PROVE Local(self, back)
  <2>1. \A d \in Callers : Switched(self, back[d])
    BY <1>1, <1>3, <1>6, NothingYet
  <2> QED BY <1>1, <1>7, <2>1 DEF Local
<1>8. ASSUME callers["python"].call # "config" PROVE Settled(self, callers, "python", self)
  <2>1. Collected(callers["python"]) /\ "python" \in Callers
    BY <1>8 DEF Collected, Callers
  <2> QED BY <1>3, <2>1 DEF Switched, Settled
<1> QED BY <1>5, <1>7, <1>8 DEF gone, back

\* What to call is decided.
LEMMA DecideLocal ==
    ASSUME NEW self, NEW callers, Local(self, callers), NEW c \in Callers,
           callers[c].at \in {"aten", "hook"}
    PROVE  Local(Manage(self),
                 [callers EXCEPT ![c].at = IF @ = "aten" THEN "atenCall" ELSE "hookCall",
                                 ![c].on = IF callers[c].at = "aten"
                                           THEN WantsCollector(Manage(self))
                                           ELSE WantsHook(Manage(self))])
<1> DEFINE new   == Manage(self)
           at    == IF callers[c].at = "aten" THEN "atenCall" ELSE "hookCall"
           on    == IF callers[c].at = "aten" THEN WantsCollector(new) ELSE WantsHook(new)
           moved == [callers EXCEPT ![c].at = at, ![c].on = on]
<1>1. /\ Once(new) /\ new.managed = TRUE /\ new.loaded = self.loaded /\ new.config = self.config
      /\ new.torch = self.torch
      /\ AnalyzersFollow(self) => AnalyzersFollow(new)
      /\ self.managed = TRUE => new = self
  BY ManageKeeps DEF Local
<1>2. /\ {"at", "call", "on", "alone"} \subseteq DOMAIN callers[c] /\ DOMAIN callers = Callers
      /\ Switched(self, callers[c]) /\ Called(self, callers)
  BY DEF Local, Called
<1> HIDE DEF new, at, on
<1>3. /\ DOMAIN moved = Callers
      /\ \A d \in Callers : d # c => moved[d] = callers[d]
      /\ {"at", "call", "on", "alone"} \subseteq DOMAIN moved[c]
      /\ moved[c].at = at /\ moved[c].on = on
      /\ moved[c].call = callers[c].call /\ moved[c].alone = callers[c].alone
  BY <1>2
<1> HIDE DEF moved
<1>4. at \in {"atenCall", "hookCall"}
  BY DEF at
<1>5. Called(new, moved)
  <2>1. callers[c].at # "idle" /\ at # "idle"
    BY <1>4
  <2>2. \A d \in Callers : moved[d].at = "idle" <=> callers[d].at = "idle"
    BY <1>3, <2>1
  <2>3. Other(c) \in Callers /\ \A d \in Callers : Other(d) \in Callers
    BY OtherCaller DEF Callers
  <2> QED BY <1>1, <1>2, <1>3, <2>1, <2>2, <2>3 DEF Called
<1>6. \A d \in Callers : d # c => Switched(new, moved[d])
  <2>1. ASSUME NEW d \in Callers, d # c PROVE Switched(new, callers[d])
    <3>1. Switched(self, callers[d]) /\ callers[c].at # "idle"
      BY DEF Local
    <3> QED BY <1>1, <1>2, <2>1, <3>1, OtherSaysNothing
  <2> QED BY <1>3, <2>1
<1>7. Switched(new, moved[c])
  <2>1. CASE callers[c].at = "aten"
    <3>1. at = "atenCall" /\ on = WantsCollector(new)
      BY <2>1 DEF at, on
    <3> QED BY <1>1, <1>3, <3>1 DEF Switched, Collected
  <2>2. CASE callers[c].at = "hook"
    <3>1. at = "hookCall" /\ on = WantsHook(new)
      BY <2>2 DEF at, on
    <3>2. new = self
      BY <1>1, <1>2, <2>2 DEF Switched
    <3>3. callers[c].alone /\ self.torch => self.collector = WantsCollector(self)
      BY <1>2, <2>2 DEF Switched
    <3> QED BY <1>1, <1>3, <3>1, <3>2, <3>3 DEF Switched, Collected
  <2> QED BY <2>1, <2>2
<1>8. moved["python"].call = callers["python"].call
  BY <1>3 DEF Callers
<1>9. \A d \in Callers : Switched(new, moved[d])
  BY <1>6, <1>7
<1>10. Local(new, moved)
  BY <1>1, <1>5, <1>8, <1>9 DEF Local
<1> QED BY <1>10 DEF new, moved, at, on

\* The collector is switched.
LEMMA CollectorLocal ==
    ASSUME NEW self, NEW callers, Local(self, callers), NEW c \in Callers,
           callers[c].at = "atenCall"
    PROVE  Local([self EXCEPT !.collector = IF self.torch THEN callers[c].on ELSE @],
                 Gone(callers, c, "hook"))
<1> DEFINE on   == IF self.torch THEN callers[c].on ELSE self.collector
           new  == [self EXCEPT !.collector = on]
           gone == Gone(callers, c, "hook")
<1>1. /\ Once(new) /\ (AnalyzersFollow(self) => AnalyzersFollow(new))
      /\ new.loaded = self.loaded /\ new.config = self.config /\ new.managed = self.managed
      /\ new.torch = self.torch /\ new.status = self.status /\ new.aclInit = self.aclInit
      /\ new.collector = on
  BY DEF Local, Once, Formed, Fields, AnalyzersFollow
<1> HIDE DEF new
<1>2. WantsCollector(new) = WantsCollector(self)
  BY <1>1 DEF WantsCollector, Tracing
<1>3. /\ Called(new, gone)
      /\ gone[c] = [callers[c] EXCEPT !.at = "hook"]
      /\ \A d \in Callers : d # c => gone[d] = callers[d]
  BY <1>1, MoveFits DEF Local
<1> HIDE DEF gone
<1>4. {"at", "call", "on", "alone"} \subseteq DOMAIN callers[c] /\ Called(self, callers)
  BY DEF Local, Called
<1>5. /\ gone[c].at = "hook" /\ gone[c].call = callers[c].call
      /\ gone[c].alone = callers[c].alone
  BY <1>3, <1>4
<1>6. \A d \in Callers : d # c => Switched(new, gone[d])
  <2>1. ASSUME NEW d \in Callers, d # c PROVE Switched(new, callers[d])
    <3>1. Switched(self, callers[d]) /\ callers[c].at # "idle"
      BY DEF Local
    <3> QED BY <1>1, <1>4, <2>1, <3>1, OtherSaysNothing
  <2> QED BY <1>3, <2>1
<1>7. Switched(new, gone[c])
  <2>1. Switched(self, callers[c])
    BY DEF Local
  <2>2. self.managed = TRUE
    BY <2>1 DEF Switched
  <2>3. callers[c].alone /\ self.torch => on = WantsCollector(self)
    BY <2>1 DEF Switched
  <2> QED BY <1>1, <1>2, <1>5, <2>2, <2>3 DEF Switched, Collected
<1>8. gone["python"].call = callers["python"].call
  BY <1>3, <1>5 DEF Callers
<1>9. \A d \in Callers : Switched(new, gone[d])
  BY <1>6, <1>7
<1>10. Local(new, gone)
  BY <1>1, <1>3, <1>8, <1>9 DEF Local
<1> QED BY <1>10 DEF new, gone

\* The hook is switched.  `switched` is the process then.
LEMMA HookSwitches ==
    ASSUME NEW self, Once(self), NEW on
    PROVE  LET switched == SwitchHook(self, on)
           IN  /\ Once(switched) /\ (AnalyzersFollow(self) => AnalyzersFollow(switched))
               /\ switched.loaded = self.loaded /\ switched.config = self.config
               /\ switched.managed = self.managed /\ switched.torch = self.torch
               /\ switched.collector = self.collector
               /\ WantsCollector(switched) = WantsCollector(self)
               /\ WantsHook(switched) = WantsHook(self)
               /\ self.torch /\ on \in BOOLEAN => switched.hook = on
<1> DEFINE switched == SwitchHook(self, on)
<1>1. /\ Fields \subseteq DOMAIN switched
      /\ \A field \in Fields \ {"hook"} : switched[field] = self[field]
      /\ self.torch /\ on \in BOOLEAN => switched.hook = on
  BY DEF SwitchHook, EnableHook, DisableHook, Once, Formed, Fields
<1> HIDE DEF switched
<1>2. /\ switched.loaded = self.loaded /\ switched.config = self.config
      /\ switched.managed = self.managed /\ switched.torch = self.torch
      /\ switched.collector = self.collector /\ switched.status = self.status
      /\ switched.aclInit = self.aclInit /\ switched.reporting = self.reporting
      /\ switched.analyzers = self.analyzers /\ switched.dump = self.dump
      /\ switched.output = self.output
  BY <1>1 DEF Fields
<1>3. Once(switched) /\ (AnalyzersFollow(self) => AnalyzersFollow(switched))
  BY <1>1, <1>2 DEF Once, Formed, AnalyzersFollow
<1>4. WantsCollector(switched) = WantsCollector(self) /\ WantsHook(switched) = WantsHook(self)
  BY <1>2 DEF WantsCollector, WantsHook, Tracing
<1> QED BY <1>1, <1>2, <1>3, <1>4 DEF switched

\* What is left to do of each call.
Finished(self, call) ==
    CASE call = "config" -> UpdateAnalysisType(self)
      [] call = "start"  -> MakeOutput([self EXCEPT !.env = self.project])
      [] call = "aclInit" /\ Tracing(self) -> Report(self)
      [] OTHER -> self

LEMMA FinishKeeps ==
    ASSUME NEW self, Once(self), self.loaded, NEW call
    PROVE  /\ Once(Finished(self, call)) /\ Calm(self, Finished(self, call))
           /\ AnalyzersFollow(self) \/ call = "config" => AnalyzersFollow(Finished(self, call))
<1> DEFINE saved == [self EXCEPT !.env = self.project]
<1>1. Beside(self, saved)
  BY DEF Beside, Fields, Once, Formed
<1> HIDE DEF saved
<1>2. /\ Once(saved) /\ Calm(self, saved)
      /\ AnalyzersFollow(self) => AnalyzersFollow(saved)
  BY <1>1, BesideKeeps
<1>3. saved.loaded
  BY <1>2, CalmWants
<1>4. /\ Once(MakeOutput(saved)) /\ Calm(saved, MakeOutput(saved))
      /\ AnalyzersFollow(saved) => AnalyzersFollow(MakeOutput(saved))
  BY <1>2, <1>3, BuildingIsCalm
<1>5. Calm(self, MakeOutput(saved)) /\ Calm(self, self)
  BY <1>2, <1>4 DEF Calm
<1>6. CASE call = "config"
  BY <1>6, BuildingIsCalm DEF Finished
<1>7. CASE call = "start"
  BY <1>2, <1>4, <1>5, <1>7 DEF Finished, saved
<1>8. CASE call # "config" /\ call # "start"
  <2>1. Finished(self, call) \in {Report(self), self}
    BY <1>8 DEF Finished
  <2> QED BY <1>5, <1>8, <2>1, BuildingIsCalm
<1> QED BY <1>6, <1>7, <1>8

\* The hook is switched, and the rest of the call done.
LEMMA HookLocal ==
    ASSUME NEW self, NEW callers, Local(self, callers), NEW c \in Callers,
           callers[c].at = "hookCall"
    PROVE  LET new == Finished(SwitchHook(self, callers[c].on), callers[c].call)
           IN  /\ callers[c].call = "start" => Local(new, Gone(callers, c, "write"))
               /\ callers[c].call # "start" => /\ Local(new, Returned(callers, c))
                                               /\ Settled(self, callers, c, new)
<1> DEFINE on       == callers[c].on
           call     == callers[c].call
           switched == SwitchHook(self, on)
           new      == Finished(switched, call)
           gone     == Gone(callers, c, "write")
           back     == Returned(callers, c)
<1>1. /\ Once(switched) /\ (AnalyzersFollow(self) => AnalyzersFollow(switched))
      /\ switched.loaded = self.loaded /\ switched.config = self.config
      /\ switched.managed = self.managed /\ switched.torch = self.torch
      /\ switched.collector = self.collector
      /\ WantsCollector(switched) = WantsCollector(self)
      /\ WantsHook(switched) = WantsHook(self)
      /\ self.torch /\ on \in BOOLEAN => switched.hook = on
  BY HookSwitches DEF Local
<1> HIDE DEF switched
<1>2. /\ {"at", "call", "on", "alone"} \subseteq DOMAIN callers[c] /\ Called(self, callers)
      /\ Switched(self, callers[c]) /\ Once(self) /\ self.loaded
  BY DEF Local, Called
<1>3. /\ Once(new) /\ Calm(switched, new)
      /\ AnalyzersFollow(switched) \/ call = "config" => AnalyzersFollow(new)
  BY <1>1, <1>2, FinishKeeps
<1> HIDE DEF new
<1>4. /\ new.loaded = self.loaded /\ new.managed = self.managed /\ new.torch = self.torch
      /\ new.collector = self.collector /\ new.hook = switched.hook
      /\ WantsCollector(new) = WantsCollector(self) /\ WantsHook(new) = WantsHook(self)
  <2>1. /\ WantsCollector(new) = WantsCollector(switched)
        /\ WantsHook(new) = WantsHook(switched)
    BY <1>3, CalmWants
  <2> QED BY <1>1, <1>3, <2>1 DEF Calm
<1>5. self.managed = TRUE
  BY <1>2 DEF Switched
<1>6. callers[c].alone /\ self.torch
          => new.collector = WantsCollector(new) /\ new.hook = WantsHook(new)
  <2>1. callers[c].alone /\ self.torch
            => self.collector = WantsCollector(self) /\ on = WantsHook(self)
    BY <1>2 DEF Switched
  <2>2. WantsHook(self) \in BOOLEAN
    BY DEF WantsHook
  <2> QED BY <1>1, <1>4, <2>1, <2>2
<1>7. /\ Called(new, gone) /\ Called(new, back)
      /\ gone[c] = [callers[c] EXCEPT !.at = "write"]
      /\ back[c] = Idle
      /\ \A d \in Callers : d # c => /\ gone[d] = callers[d]
                                     /\ back[d] = callers[d]
  <2>1. Called(self, callers) /\ new.loaded = self.loaded
    BY <1>2, <1>4
  <2> QED BY <2>1, MoveFits
<1> HIDE DEF gone, back
<1>8. /\ gone[c].at = "write" /\ gone[c].call = call /\ gone[c].alone = callers[c].alone
      /\ back[c].at = "idle" /\ back[c].call = "none"
  BY <1>2, <1>7 DEF Idle
<1>9. \A d \in Callers : d # c => Switched(new, callers[d])
  <2>1. ASSUME NEW d \in Callers, d # c PROVE Switched(new, callers[d])
    <3>1. Switched(self, callers[d]) /\ callers[c].at # "idle"
      BY DEF Local
    <3> QED BY <1>2, <1>4, <2>1, <3>1, OtherSaysNothing
  <2> QED BY <2>1
<1> HIDE DEF call
<1>11. ASSUME callers["python"].call # "config" \/ c = "python" PROVE AnalyzersFollow(new)
  BY <1>1, <1>3, <1>11 DEF Local, call
<1>12. ASSUME call = "start" PROVE Local(new, gone)
  <2>1. Switched(new, gone[c])
    BY <1>4, <1>5, <1>6, <1>8 DEF Switched, Collected
  <2>2. \A d \in Callers : Switched(new, gone[d])
    BY <1>7, <1>9, <2>1
  <2>3. gone["python"].call # "config" => AnalyzersFollow(new)
    BY <1>7, <1>11 DEF Callers
  <2> QED BY <1>3, <1>7, <2>2, <2>3 DEF Local
<1>13. Local(new, back)
  <2>1. Switched(new, back[c])
    BY <1>8, NothingYet
  <2>2. \A d \in Callers : Switched(new, back[d])
    BY <1>7, <1>9, <2>1
  <2>3. back["python"].call # "config" => AnalyzersFollow(new)
    BY <1>7, <1>11 DEF Callers
  <2> QED BY <1>3, <1>7, <2>2, <2>3 DEF Local
<1>14. Settled(self, callers, c, new)
  BY <1>6 DEF Settled
<1> QED BY <1>12, <1>13, <1>14 DEF new, switched, call, gone, back

\* The callers of a process before its first call and between two.
AllIdle(callers) ==
    /\ DOMAIN callers = Callers
    /\ \A c \in Callers : /\ {"at", "call", "on", "alone"} \subseteq DOMAIN callers[c]
                          /\ callers[c].at = "idle" /\ callers[c].call = "none"

\* A process that is read, born or copied.
LEMMA IdleFits ==
    ASSUME NEW self, Once(self), AnalyzersFollow(self), NEW callers, AllIdle(callers)
    PROVE  Local(self, callers)
<1>1. Called(self, callers)
  BY DEF AllIdle, Called
<1> QED BY <1>1, NothingYet DEF AllIdle, Local

LEMMA NewFits ==
    ASSUME NEW p, NEW env, NEW callers, AllIdle(callers)
    PROVE  Local(NewProcess(p, env), callers)
<1>1. Once(NewProcess(p, env)) /\ AnalyzersFollow(NewProcess(p, env))
  BY DEF NewProcess, InitialConfig, Once, Formed, Fields, HasBuilt, Built, AnalyzersFollow
<1> QED BY <1>1, IdleFits

LEMMA ReadLocal ==
    ASSUME NEW self, NEW callers, Local(self, callers), ~self.loaded, NEW config, HasBuilt(config)
    PROVE  /\ Local([self EXCEPT !.up = FALSE], callers)
           /\ Local([self EXCEPT !.loaded = TRUE, !.config = config], callers)
<1> DEFINE ended == [self EXCEPT !.up = FALSE]
           read  == [self EXCEPT !.loaded = TRUE, !.config = config]
<1>1. Once(ended) /\ Once(read) /\ AnalyzersFollow(ended) /\ AnalyzersFollow(read)
  BY DEF Local, Once, Formed, Fields, AnalyzersFollow
<1> HIDE DEF ended, read
<1>2. AllIdle(callers)
  BY DEF Local, Called, AllIdle
<1>3. Local(ended, callers) /\ Local(read, callers)
  BY <1>1, <1>2, IdleFits
<1> QED BY <1>3 DEF ended, read

------------------------------------------------------------------------------------
\* The processes

LocalInv ==
    /\ DOMAIN process = Procs /\ DOMAIN caller = Procs
    /\ \A p \in Procs : Local(process[p], caller[p])
    /\ {"phase", "config"} \subseteq DOMAIN command /\ HasBuilt(command.config)
    /\ \A f \in DOMAIN files : HasBuilt(files[f])

\* Whoever returns is settled.
Settles == \A p \in Procs, c \in Callers :
              Returns(p, c) => Settled(process[p], caller[p], c, process'[p])

\* What a step does to the process p and its callers.
StepOf(p, new, callers) ==
    /\ \/ process' = [process EXCEPT ![p] = new]
       \/ process' = process /\ new = process[p]
    /\ \/ caller' = [caller EXCEPT ![p] = callers]
       \/ caller' = caller /\ callers = caller[p]

LEMMA LocalStep ==
    ASSUME LocalInv, NEW p \in Procs, NEW new, NEW callers, StepOf(p, new, callers),
           Local(new, callers),
           \A c \in Callers : caller[p][c].at # "idle" /\ callers[c].at = "idle"
                                 => Settled(process[p], caller[p], c, new)
    PROVE  /\ DOMAIN process' = Procs /\ DOMAIN caller' = Procs
           /\ \A q \in Procs : Local(process'[q], caller'[q])
           /\ Settles
<1>1. /\ DOMAIN process' = Procs /\ DOMAIN caller' = Procs
      /\ process'[p] = new /\ caller'[p] = callers
      /\ \A q \in Procs : q # p => process'[q] = process[q] /\ caller'[q] = caller[q]
  BY DEF StepOf, LocalInv
<1>2. \A q \in Procs : Local(process'[q], caller'[q])
  BY <1>1 DEF LocalInv
<1>3. Settles
  BY <1>1 DEF Settles, Returns
<1> QED BY <1>1, <1>2, <1>3

\* A step of a process with its callers, and with nothing else that matters here.
LEMMA LocalKept ==
    ASSUME LocalInv, UNCHANGED <<command, files>>,
           DOMAIN process' = Procs /\ DOMAIN caller' = Procs,
           \A q \in Procs : Local(process'[q], caller'[q])
    PROVE  LocalInv'
  BY DEF LocalInv

\* The callers after each kind of move; none but a return leaves one idle.
LEMMA Moves ==
    ASSUME LocalInv, NEW p \in Procs, NEW c \in Callers, NEW call, NEW at
    PROVE  /\ Begin(p, c, call, at) => caller' = [caller EXCEPT ![p] = Began(caller[p], c, call, at)]
           /\ Goto(p, c, at) => caller' = [caller EXCEPT ![p] = Gone(caller[p], c, at)]
           /\ Return(p, c) => caller' = [caller EXCEPT ![p] = Returned(caller[p], c)]
<1>1. Begin(p, c, call, at) => caller' = [caller EXCEPT ![p] = Began(caller[p], c, call, at)]
  BY DEF Begin, Began
<1>2. Goto(p, c, at) => caller' = [caller EXCEPT ![p] = Gone(caller[p], c, at)]
  BY DEF Goto, Gone
<1>3. Return(p, c) => caller' = [caller EXCEPT ![p] = Returned(caller[p], c)]
  BY DEF Return, Returned
<1> QED BY <1>1, <1>2, <1>3

LEMMA StillBusy ==
    ASSUME NEW callers, DOMAIN callers = Callers,
           \A c \in Callers : {"at", "call", "on", "alone"} \subseteq DOMAIN callers[c],
           NEW c \in Callers, NEW call, NEW at, at # "idle"
    PROVE  \A d \in Callers :
               callers[d].at # "idle" => Began(callers, c, call, at)[d].at # "idle"
  BY DEF Began, Idle

LEMMA OnlyItReturns ==
    ASSUME NEW callers, DOMAIN callers = Callers,
           \A c \in Callers : {"at", "call", "on", "alone"} \subseteq DOMAIN callers[c],
           NEW c \in Callers, NEW at, at # "idle"
    PROVE  /\ \A d \in Callers : callers[d].at # "idle" => Gone(callers, c, at)[d].at # "idle"
           /\ \A d \in Callers : d # c => Returned(callers, c)[d] = callers[d]
<1>1. ASSUME NEW d \in Callers, callers[d].at # "idle"
      PROVE  Gone(callers, c, at)[d].at # "idle"
  BY <1>1 DEF Gone
<1>2. \A d \in Callers : d # c => Returned(callers, c)[d] = callers[d]
  BY DEF Returned
<1> QED BY <1>1, <1>2

LEMMA InitialIsBuilt == HasBuilt(InitialConfig(DefaultDir))
  BY DEF InitialConfig, HasBuilt, Built

LEMMA InitLocal == Init => LocalInv
<1> SUFFICES ASSUME Init PROVE LocalInv
    OBVIOUS
<1>1. PICK byHand \in BOOLEAN :
          /\ command = [phase  |-> IF byHand THEN "none" ELSE "options",
                        config |-> InitialConfig(DefaultDir), inputs |-> 0]
          /\ process = [p \in Procs |->
                [NewProcess(p, NoFile) EXCEPT !.up = byHand /\ p = First]]
  BY DEF Init
<1>2. /\ caller = [p \in Procs |-> [c \in Callers |-> Idle]]
      /\ DOMAIN files = {}
  BY DEF Init
<1>3. ASSUME NEW p \in Procs PROVE Local(process[p], caller[p])
  <2>1. AllIdle(caller[p])
    BY <1>2 DEF Idle, AllIdle
  <2>2. Once(process[p]) /\ AnalyzersFollow(process[p])
    BY <1>1 DEF NewProcess, InitialConfig, Once, Formed, Fields, HasBuilt, Built, AnalyzersFollow
  <2> QED BY <2>1, <2>2, IdleFits
<1> QED BY <1>1, <1>2, <1>3, InitialIsBuilt DEF LocalInv

\* The command line.
LEMMA CommandLocal ==
    ASSUME ProofInv, LocalInv,
           \/ \E option \in Options : ReadOption(option[1], option[2])
           \/ DoUserCommand
    PROVE  LocalInv' /\ Settles
<1>1. ASSUME NEW opt, NEW param, ReadOption(opt, param) PROVE LocalInv' /\ Settles
  <2> DEFINE parsed == ParseUserCommand(opt, param, command.inputs, command.config)
  <2>1. HasBuilt(parsed.config)
    BY OptionsKeepOutput DEF LocalInv
  <2> HIDE DEF parsed
  <2>2. /\ command'.config = parsed.config /\ {"phase", "config"} \subseteq DOMAIN command'
        /\ UNCHANGED <<process, caller, files>>
    BY <1>1 DEF ReadOption, parsed
  <2> QED BY <2>1, <2>2 DEF LocalInv, Settles, Returns
<1>2. ASSUME DoUserCommand PROVE LocalInv' /\ Settles
  <2> DEFINE config == SetEffectiveConfig(SetConfigImpl(command.config))
             new    == NewProcess(First, CommandFile)
  <2>1. HasBuilt(config) /\ HasBuilt(Saved(config))
    <3>1. HasBuilt(SetConfigImpl(command.config))
      BY ImplKeepsOutput DEF LocalInv, KeepsOutput, KeepsBuilt
    <3>2. HasBuilt(config)
      BY <3>1, ImplKeepsOutput
    <3> HIDE DEF config
    <3> QED BY <3>2, ImplKeepsOutput DEF KeepsOutput, KeepsBuilt
  <2> HIDE DEF config, new
  <2>2. /\ command.phase = "options"
        /\ \/ command' = [command EXCEPT !.phase = "ended"]
           \/ command' = [command EXCEPT !.phase = "compared", !.config = config]
           \/ command' = [command EXCEPT !.phase = "executed", !.config = config]
    BY <1>2, Zenon DEF DoUserCommand, config
  <2>3. {"phase", "config"} \subseteq DOMAIN command' /\ HasBuilt(command'.config)
    BY <2>1, <2>2 DEF LocalInv
  <2>4. \A f \in DOMAIN files' : HasBuilt(files'[f])
    <3>1. files' = files \/ files' = [f \in {CommandFile} |-> Saved(config)]
      BY <1>2 DEF DoUserCommand, config
    <3> QED BY <2>1, <3>1 DEF LocalInv
  <2>5. caller' = caller /\ (process' = process \/ process' = [process EXCEPT ![First] = new])
    BY <1>2 DEF DoUserCommand, new
  <2>6. CASE process' = process
    BY <2>3, <2>4, <2>5, <2>6 DEF LocalInv, Settles, Returns
  <2>7. CASE process' = [process EXCEPT ![First] = new]
    <3>1. First \in Procs
      BY ConfigurationAssumption
    <3>2. AllIdle(caller[First])
      <4>1. ~process[First].loaded
        BY <2>2, <3>1 DEF ProofInv, EventsInv, OptionsComeFirst
      <4> QED BY <3>1, <4>1 DEF LocalInv, Local, Called, AllIdle
    <3>3. Local(new, caller[First])
      BY <3>2, NewFits DEF new
    <3>4. StepOf(First, new, caller[First])
      BY <2>5, <2>7 DEF StepOf
    <3>5. /\ DOMAIN process' = Procs /\ DOMAIN caller' = Procs
          /\ \A q \in Procs : Local(process'[q], caller'[q])
          /\ Settles
      BY <3>1, <3>3, <3>4, LocalStep
    <3> QED BY <2>3, <2>4, <3>5 DEF LocalInv
  <2> QED BY <2>5, <2>6, <2>7
<1> QED BY <1>1, <1>2

LEMMA ReadKeepsLocal ==
    ASSUME LocalInv, NEW p \in Procs, ReadConfig(p)
    PROVE  LocalInv' /\ Settles
<1> DEFINE self    == process[p]
           default == SetConfigImpl(InitialConfig(DefaultDir))
           ended   == [self EXCEPT !.up = FALSE]
           read(c) == [self EXCEPT !.loaded = TRUE, !.config = c]
<1>1. HasBuilt(default)
  BY InitialIsBuilt, ImplKeepsOutput DEF KeepsOutput, KeepsBuilt
<1> HIDE DEF default
<1>2. /\ ~self.loaded /\ UNCHANGED <<command, caller, files>>
      /\ \/ process' = [process EXCEPT ![p] = ended]
         \/ self.env \in DOMAIN files /\ process' = [process EXCEPT ![p] = read(files[self.env])]
         \/ process' = [process EXCEPT ![p] = read(default)]
  BY DEF ReadConfig, ReadJsonConfig, default
<1>3. PICK new : process' = [process EXCEPT ![p] = new] /\ Local(new, caller[p])
  <2>1. Local(self, caller[p]) /\ \A f \in DOMAIN files : HasBuilt(files[f])
    BY DEF LocalInv
  <2>2. /\ Local(ended, caller[p])
        /\ Local(read(default), caller[p])
        /\ self.env \in DOMAIN files => Local(read(files[self.env]), caller[p])
    <3> HIDE DEF self
    <3> QED BY <1>1, <1>2, <2>1, ReadLocal
  <2> HIDE DEF self, ended, read
  <2> QED BY <1>2, <2>2
<1>4. StepOf(p, new, caller[p])
  BY <1>2, <1>3 DEF StepOf
<1>5. /\ DOMAIN process' = Procs /\ DOMAIN caller' = Procs
      /\ \A q \in Procs : Local(process'[q], caller'[q])
      /\ Settles
  BY <1>3, <1>4, LocalStep
<1> QED BY <1>2, <1>5, LocalKept

LEMMA BirthKeepsLocal ==
    ASSUME LocalInv, NEW p \in Procs, NEW q \in Procs, Spawn(p, q) \/ Fork(p, q)
    PROVE  LocalInv' /\ Settles
<1>1. /\ UNCHANGED <<command, caller, files>> /\ Unborn(q)
      /\ \/ process' = [process EXCEPT ![q] = NewProcess(q, process[p].env)]
         \/ /\ process' = [process EXCEPT ![q] = process[p]]
            /\ \A c \in Callers : caller[p][c].at = "idle"
  BY DEF Spawn, Fork
<1>2. AllIdle(caller[q])
  <2>1. process[q] = [NewProcess(q, NoFile) EXCEPT !.up = FALSE]
    BY <1>1 DEF Unborn
  <2>2. ~process[q].loaded
    BY <2>1 DEF NewProcess
  <2> QED BY <2>2 DEF LocalInv, Local, Called, AllIdle
<1>3. PICK new : process' = [process EXCEPT ![q] = new] /\ Local(new, caller[q])
  <2>1. Local(NewProcess(q, process[p].env), caller[q])
    BY <1>2, NewFits
  <2>2. ASSUME \A c \in Callers : caller[p][c].at = "idle" PROVE Local(process[p], caller[q])
    <3>1. Local(process[p], caller[p])
      BY DEF LocalInv
    <3>2. caller[p]["python"].call = "none"
      BY <2>2, <3>1 DEF Local, Called, Callers
    <3>3. Once(process[p]) /\ AnalyzersFollow(process[p])
      BY <3>1, <3>2 DEF Local
    <3> QED BY <1>2, <3>3, IdleFits
  <2> QED BY <1>1, <2>1, <2>2
<1>4. StepOf(q, new, caller[q])
  BY <1>1, <1>3 DEF StepOf
<1>5. /\ DOMAIN process' = Procs /\ DOMAIN caller' = Procs
      /\ \A r \in Procs : Local(process'[r], caller'[r])
      /\ Settles
  BY <1>3, <1>4, LocalStep
<1> QED BY <1>1, <1>5, LocalKept

\* The calls of the application.  A call that begins, or goes on, leaves nobody idle.
LEMMA OutsideCallsLocal ==
    ASSUME LocalInv, NEW p \in Procs, HookedCall(p) \/ LogLine(p) \/ ImportTorch(p)
    PROVE  LocalInv' /\ Settles
<1> DEFINE self == process[p]
<1>1. Local(self, caller[p]) /\ UNCHANGED <<command, files>>
  BY DEF LocalInv, HookedCall, LogLine, ImportTorch
<1>2. PICK new, callers : /\ StepOf(p, new, callers) /\ Local(new, callers)
                          /\ \A c \in Callers : callers[c].at = caller[p][c].at
  <2>1. CASE HookedCall(p)
    <3>1. PICK new \in {Manage(self), Report(Manage(self))} :
              process' = [process EXCEPT ![p] = new]
      BY <2>1 DEF HookedCall
    <3>2. caller' = caller /\ self.loaded
      BY <2>1 DEF HookedCall, Running
    <3>3. Local(new, caller[p])
      BY <1>1, <3>1, <3>2, HookedLocal
    <3>4. StepOf(p, new, caller[p])
      BY <3>1, <3>2 DEF StepOf
    <3> QED BY <3>3, <3>4
  <2>2. CASE ImportTorch(p)
    <3> DEFINE new   == [self EXCEPT !.torch = TRUE]
               moved == [caller[p] EXCEPT !["acl"].alone = (@ /\ caller[p]["acl"].at = "idle")]
    <3>1. process' = [process EXCEPT ![p] = new] /\ caller[p]["python"].at = "idle"
      BY <2>2 DEF ImportTorch
    <3>2. caller' = [caller EXCEPT ![p] = moved]
      BY <2>2 DEF ImportTorch
    <3>3. Local(new, moved)
      BY <1>1, <3>1, ImportLocal
    <3>4. \A c \in Callers : moved[c].at = caller[p][c].at
      BY <1>1 DEF Local, Called
    <3> HIDE DEF new, moved
    <3>5. StepOf(p, new, moved)
      BY <3>1, <3>2 DEF StepOf
    <3> QED BY <3>3, <3>4, <3>5
  <2>3. CASE LogLine(p)
    <3>1. process' = [process EXCEPT ![p] = MakeOutput(self)] /\ caller' = caller /\ self.loaded
      BY <2>3 DEF LogLine, Running
    <3>2. Local(MakeOutput(self), caller[p])
      BY <1>1, <3>1, LoggedLocal
    <3>3. StepOf(p, MakeOutput(self), caller[p])
      BY <3>1 DEF StepOf
    <3> QED BY <3>2, <3>3
  <2> QED BY <2>1, <2>2, <2>3
<1>3. /\ DOMAIN process' = Procs /\ DOMAIN caller' = Procs
      /\ \A q \in Procs : Local(process'[q], caller'[q])
      /\ Settles
  BY <1>2, LocalStep
<1> QED BY <1>1, <1>3, LocalKept

LEMMA BeginningsLocal ==
    ASSUME LocalInv, NEW p \in Procs,
           \/ \E dictionary \in Dictionaries : Configure(p, dictionary)
           \/ \E call \in {"start", "stop"} : SetTraceStatus(p, call)
           \/ AclInit(p)
    PROVE  LocalInv' /\ Settles
<1> DEFINE self == process[p]
<1>1. /\ Local(self, caller[p]) /\ UNCHANGED <<command, files>>
      /\ self.loaded = TRUE
  BY DEF LocalInv, Configure, SetTraceStatus, AclInit, Running
<1>2. "python" \in Callers /\ "acl" \in Callers
  BY DEF Callers
<1>3. /\ DOMAIN caller[p] = Callers
      /\ \A c \in Callers : {"at", "call", "on", "alone"} \subseteq DOMAIN caller[p][c]
  BY <1>1 DEF Local, Called
<1>4. PICK new, callers : /\ StepOf(p, new, callers) /\ Local(new, callers)
                          /\ \A c \in Callers : caller[p][c].at # "idle" => callers[c].at # "idle"
  <2>1. ASSUME NEW dictionary, Configure(p, dictionary)
        PROVE  \E new, callers :
                   /\ StepOf(p, new, callers) /\ Local(new, callers)
                   /\ \A c \in Callers : caller[p][c].at # "idle" => callers[c].at # "idle"
    <3> DEFINE config == SetConfig(dictionary, self.config)
               failed(active) == [self EXCEPT !.pyTrace = active]
               given(active)  == [self EXCEPT !.pyTrace = active, !.config = config,
                                              !.logLevel = config.logLevel,
                                              !.env = self.project]
               began == Began(caller[p], "python", "config", "write")
    <3>1. PICK active : /\ caller[p]["python"].at = "idle"
          /\ \/ process' = [process EXCEPT ![p] = failed(active)] /\ caller' = caller
             \/ /\ process' = [process EXCEPT ![p] = MakeOutput(given(active))]
                /\ Begin(p, "python", "config", "write")
      BY <2>1 DEF Configure
    <3>2. Local(failed(active), caller[p]) /\ Local(MakeOutput(given(active)), began)
      BY <1>1, <3>1, ConfigureLocal
    <3>3. Begin(p, "python", "config", "write") => caller' = [caller EXCEPT ![p] = began]
      BY <1>2, Moves
    <3>4. \A c \in Callers : caller[p][c].at # "idle" => began[c].at # "idle"
      BY <1>2, <1>3, StillBusy
    <3> HIDE DEF began, failed, given
    <3>5. StepOf(p, failed(active), caller[p]) \/ StepOf(p, MakeOutput(given(active)), began)
      BY <3>1, <3>3 DEF StepOf
    <3> QED BY <3>2, <3>4, <3>5
  <2>2. ASSUME NEW call \in {"start", "stop"}, SetTraceStatus(p, call)
        PROVE  \E new, callers :
                   /\ StepOf(p, new, callers) /\ Local(new, callers)
                   /\ \A c \in Callers : caller[p][c].at # "idle" => callers[c].at # "idle"
    <3> DEFINE status == IF call = "start" THEN "IN_TRACING" ELSE "NOT_IN_TRACING"
               new    == [Manage(Report(self)) EXCEPT !.status = status]
               began  == Began(caller[p], "python", call, "aten")
    <3>1. /\ caller[p]["python"].at = "idle" /\ Begin(p, "python", call, "aten")
          /\ process' = [process EXCEPT ![p] = new]
      BY <2>2 DEF SetTraceStatus
    <3>2. Local(new, began)
      BY <1>1, <3>1, SwitchLocal
    <3>3. caller' = [caller EXCEPT ![p] = began]
      BY <1>2, <3>1, Moves
    <3>4. \A c \in Callers : caller[p][c].at # "idle" => began[c].at # "idle"
      BY <1>2, <1>3, StillBusy
    <3> HIDE DEF began, new
    <3>5. StepOf(p, new, began)
      BY <3>1, <3>3 DEF StepOf
    <3> QED BY <3>2, <3>4, <3>5
  <2>3. ASSUME AclInit(p)
        PROVE  \E new, callers :
                   /\ StepOf(p, new, callers) /\ Local(new, callers)
                   /\ \A c \in Callers : caller[p][c].at # "idle" => callers[c].at # "idle"
    <3> DEFINE new   == [Manage(self) EXCEPT !.aclInit = TRUE]
               began == Began(caller[p], "acl", "aclInit", "aten")
    <3>1. Begin(p, "acl", "aclInit", "aten") /\ process' = [process EXCEPT ![p] = new]
      BY <2>3 DEF AclInit
    <3>2. Local(new, began)
      BY <1>1, AclInitLocal
    <3>3. caller' = [caller EXCEPT ![p] = began]
      BY <1>2, <3>1, Moves
    <3>4. \A c \in Callers : caller[p][c].at # "idle" => began[c].at # "idle"
      BY <1>2, <1>3, StillBusy
    <3> HIDE DEF began, new
    <3>5. StepOf(p, new, began)
      BY <3>1, <3>3 DEF StepOf
    <3> QED BY <3>2, <3>4, <3>5
  <2> QED BY <2>1, <2>2, <2>3
<1>5. /\ DOMAIN process' = Procs /\ DOMAIN caller' = Procs
      /\ \A q \in Procs : Local(process'[q], caller'[q])
      /\ Settles
  BY <1>4, LocalStep
<1> QED BY <1>1, <1>5, LocalKept

\* The steps of a call, and its return.
LEMMA StepsLocal ==
    ASSUME LocalInv, NEW p \in Procs,
           \/ Write(p)
           \/ \E c \in Callers :
                 Decide(p, c) \/ CallAtenCollector(p, c) \/ CallOptimizerHook(p, c)
    PROVE  /\ Settles
           /\ DOMAIN process' = Procs /\ DOMAIN caller' = Procs
           /\ \A q \in Procs : Local(process'[q], caller'[q])
<1> DEFINE self == process[p]
           Right(new, callers) ==
               /\ StepOf(p, new, callers) /\ Local(new, callers)
               /\ \A c \in Callers : caller[p][c].at # "idle" /\ callers[c].at = "idle"
                                        => Settled(self, caller[p], c, new)
<1>1. Local(self, caller[p])
  BY DEF LocalInv
<1>2. /\ DOMAIN caller[p] = Callers
      /\ \A c \in Callers : {"at", "call", "on", "alone"} \subseteq DOMAIN caller[p][c]
  BY <1>1 DEF Local, Called
<1>3. \E new, callers : Right(new, callers)
  <2>1. CASE Write(p)
    <3> DEFINE gone == Gone(caller[p], "python", "aten")
               back == Returned(caller[p], "python")
    <3>1. /\ caller[p]["python"].at = "write" /\ process' = process
          /\ IF caller[p]["python"].call = "config" THEN Goto(p, "python", "aten")
                                                    ELSE Return(p, "python")
      BY <2>1 DEF Write
    <3>2. /\ caller[p]["python"].call = "config" => Local(self, gone)
          /\ caller[p]["python"].call # "config" => /\ Local(self, back)
                                                    /\ Settled(self, caller[p], "python", self)
      BY <1>1, <3>1, WriteLocal
    <3>3. "python" \in Callers
      BY DEF Callers
    <3>4. /\ Goto(p, "python", "aten") => caller' = [caller EXCEPT ![p] = gone]
          /\ Return(p, "python") => caller' = [caller EXCEPT ![p] = back]
      BY <3>3, Moves
    <3>5. /\ \A d \in Callers : caller[p][d].at # "idle" => gone[d].at # "idle"
          /\ \A d \in Callers : d # "python" => back[d] = caller[p][d]
      BY <1>2, <3>3, OnlyItReturns
    <3> HIDE DEF gone, back
    <3>6. Right(self, gone) \/ Right(self, back)
      BY <3>1, <3>2, <3>4, <3>5 DEF StepOf
    <3> QED BY <3>6
  <2>2. ASSUME NEW c \in Callers, Decide(p, c) PROVE \E new, callers : Right(new, callers)
    <3> DEFINE new   == Manage(self)
               moved == [caller[p] EXCEPT
                            ![c].at = IF @ = "aten" THEN "atenCall" ELSE "hookCall",
                            ![c].on = IF caller[p][c].at = "aten"
                                      THEN WantsCollector(new) ELSE WantsHook(new)]
    <3>1. caller[p][c].at \in {"aten", "hook"} /\ process' = [process EXCEPT ![p] = new]
      BY <2>2 DEF Decide
    <3>2. Local(new, moved)
      BY <1>1, <3>1, DecideLocal
    <3>3. caller' = [caller EXCEPT ![p] = moved]
      BY <2>2 DEF Decide
    <3>4. \A d \in Callers : caller[p][d].at # "idle" => moved[d].at # "idle"
      BY <1>2
    <3> HIDE DEF new, moved
    <3>5. Right(new, moved)
      BY <3>1, <3>2, <3>3, <3>4 DEF StepOf
    <3> QED BY <3>5
  <2>3. ASSUME NEW c \in Callers, CallAtenCollector(p, c)
        PROVE  \E new, callers : Right(new, callers)
    <3> DEFINE new  == [self EXCEPT !.collector = IF self.torch THEN caller[p][c].on ELSE @]
               gone == Gone(caller[p], c, "hook")
    <3>1. /\ caller[p][c].at = "atenCall" /\ Goto(p, c, "hook")
          /\ process' = [process EXCEPT ![p] = new]
      BY <2>3 DEF CallAtenCollector
    <3>2. Local(new, gone)
      BY <1>1, <3>1, CollectorLocal
    <3>3. caller' = [caller EXCEPT ![p] = gone]
      BY <3>1, Moves
    <3>4. \A d \in Callers : caller[p][d].at # "idle" => gone[d].at # "idle"
      BY <1>2 DEF Gone
    <3> HIDE DEF new, gone
    <3>5. Right(new, gone)
      BY <3>1, <3>2, <3>3, <3>4 DEF StepOf
    <3> QED BY <3>5
  <2>4. ASSUME NEW c \in Callers, CallOptimizerHook(p, c)
        PROVE  \E new, callers : Right(new, callers)
    <3> DEFINE call == caller[p][c].call
               new  == Finished(SwitchHook(self, caller[p][c].on), call)
               gone == Gone(caller[p], c, "write")
               back == Returned(caller[p], c)
    <3>1. /\ caller[p][c].at = "hookCall"
          /\ IF call = "start" THEN Goto(p, c, "write") ELSE Return(p, c)
      BY <2>4 DEF CallOptimizerHook
    <3>2. process' = [process EXCEPT ![p] = new]
      BY <2>4 DEF CallOptimizerHook, Finished
    <3>3. /\ call = "start" => Local(new, gone)
          /\ call # "start" => /\ Local(new, back)
                               /\ Settled(self, caller[p], c, new)
      BY <1>1, <3>1, HookLocal
    <3>4. /\ Goto(p, c, "write") => caller' = [caller EXCEPT ![p] = gone]
          /\ Return(p, c) => caller' = [caller EXCEPT ![p] = back]
      BY Moves
    <3>5. /\ \A d \in Callers : caller[p][d].at # "idle" => gone[d].at # "idle"
          /\ \A d \in Callers : d # c => back[d] = caller[p][d]
      BY <1>2, OnlyItReturns
    <3> HIDE DEF gone, back, new, call
    <3>6. Right(new, gone) \/ Right(new, back)
      BY <3>1, <3>2, <3>3, <3>4, <3>5 DEF StepOf
    <3> QED BY <3>6
  <2> QED BY <2>1, <2>2, <2>3, <2>4
<1>4. PICK new, callers : Right(new, callers)
  BY <1>3
<1>5. /\ DOMAIN process' = Procs /\ DOMAIN caller' = Procs
      /\ \A q \in Procs : Local(process'[q], caller'[q])
      /\ Settles
  BY <1>4, LocalStep
<1> QED BY <1>5

LEMMA StepsKeepLocal ==
    ASSUME LocalInv, NEW p \in Procs,
           \/ Write(p)
           \/ \E c \in Callers :
                 Decide(p, c) \/ CallAtenCollector(p, c) \/ CallOptimizerHook(p, c)
    PROVE  LocalInv' /\ Settles
<1>1. /\ DOMAIN process' = Procs /\ DOMAIN caller' = Procs
      /\ \A q \in Procs : Local(process'[q], caller'[q])
      /\ Settles
  BY StepsLocal
<1>2. command' = command /\ \A f \in DOMAIN files' : HasBuilt(files'[f])
  <2>1. CASE Write(p)
    <3>1. HasBuilt(Saved(process[p].config))
      <4>1. HasBuilt(process[p].config)
        BY DEF LocalInv, Local, Once, Formed
      <4> QED BY <4>1, ImplKeepsOutput DEF KeepsOutput, KeepsBuilt
    <3>2. \A f \in DOMAIN files' : \/ files'[f] = Saved(process[p].config)
                                   \/ (f \in DOMAIN files /\ files'[f] = files[f])
      BY <2>1 DEF Write, WriteFile
    <3> QED BY <2>1, <3>1, <3>2 DEF LocalInv, Write
  <2>2. CASE \E c \in Callers :
                Decide(p, c) \/ CallAtenCollector(p, c) \/ CallOptimizerHook(p, c)
    BY <2>2 DEF LocalInv, Decide, CallAtenCollector, CallOptimizerHook
  <2> QED BY <2>1, <2>2
<1> QED BY <1>1, <1>2 DEF LocalInv

LEMMA NextLocal == ProofInv /\ LocalInv /\ [Next]_vars => LocalInv' /\ Settles
<1> SUFFICES ASSUME ProofInv, LocalInv, [Next]_vars PROVE LocalInv' /\ Settles
    OBVIOUS
<1>1. CASE UNCHANGED vars
  BY <1>1 DEF vars, LocalInv, Settles, Returns
<1>2. CASE Next
  <2>1. CASE \/ \E option \in Options : ReadOption(option[1], option[2])
             \/ DoUserCommand
    BY <2>1, CommandLocal
  <2>2. ASSUME NEW p \in Procs, ReadConfig(p) PROVE LocalInv' /\ Settles
    BY <2>2, ReadKeepsLocal
  <2>3. ASSUME NEW p \in Procs, HookedCall(p) \/ LogLine(p) \/ ImportTorch(p)
        PROVE  LocalInv' /\ Settles
    BY <2>3, OutsideCallsLocal
  <2>4. ASSUME NEW p \in Procs,
               \/ \E dictionary \in Dictionaries : Configure(p, dictionary)
               \/ \E call \in {"start", "stop"} : SetTraceStatus(p, call)
               \/ AclInit(p)
        PROVE  LocalInv' /\ Settles
    BY <2>4, BeginningsLocal
  <2>5. ASSUME NEW p \in Procs,
               \/ Write(p)
               \/ \E c \in Callers :
                     Decide(p, c) \/ CallAtenCollector(p, c) \/ CallOptimizerHook(p, c)
        PROVE  LocalInv' /\ Settles
    BY <2>5, StepsKeepLocal
  <2>6. ASSUME NEW p \in Procs, NEW q \in Procs, Spawn(p, q) \/ Fork(p, q)
        PROVE  LocalInv' /\ Settles
    BY <2>6, BirthKeepsLocal
  <2> QED BY <1>2, <2>1, <2>2, <2>3, <2>4, <2>5, <2>6 DEF Next
<1> QED BY <1>1, <1>2

\* Whatever the calls and their interleavings with aclInit, whatever a process reads and
\* whoever it was copied from: its analyzers follow its configuration, the format of its rows
\* is that of the configuration when it first reported, and the directory that when it first
\* saved or logged a line, and both stay those of its configuration - unless that was before
\* anything had been configured.
THEOREM SingletonsFollow == Spec => []SingletonsFollowConfig
<1>1. ProofInv /\ LocalInv => SingletonsFollowConfig
  <2> SUFFICES ASSUME LocalInv, NEW p \in Procs
               PROVE  LET self == process[p]
                      IN  /\ self.reporting /\ caller[p]["python"].at = "idle"
                                => self.analyzers = Analyzers(self.config)
                          /\ self.reporting /\ self.dump.effective
                                => self.dump.format = self.config.dataFormat
                          /\ self.output.made /\ self.output.effective
                                => self.output.dir = self.config.outputDir
      BY Zenon DEF SingletonsFollowConfig
  <2>1. Local(process[p], caller[p])
    BY DEF LocalInv
  <2>2. caller[p]["python"].at = "idle" => caller[p]["python"].call = "none"
    BY <2>1 DEF Local, Called, Callers
  <2> QED BY <2>1, <2>2 DEF Local, Once, AnalyzersFollow
<1> QED BY <1>1, InitEventsInv, InitLocal, NextKeepsInv, NextLocal, PTL DEF Spec

\* A call that no other one overlaps leaves the collector and the hook as tracing, the
\* configuration and aclInit ask for, in every process and in any order of calls.
THEOREM CollectorFollows == Spec => CollectorFollowsTracing
<1>1. ProofInv /\ LocalInv /\ [Next]_vars =>
          [\A p \in Procs, c \in Callers :
              Returns(p, c) /\ caller[p][c].alone /\ process[p].torch
              => /\ process'[p].collector = WantsCollector(process'[p])
                 /\ process'[p].hook = WantsHook(process'[p])]_vars
  BY NextLocal DEF Settles, Settled
<1> QED BY <1>1, InitEventsInv, InitLocal, NextKeepsInv, NextLocal, PTL
        DEF Spec, CollectorFollowsTracing

------------------------------------------------------------------------------------
\* The files

\* What a file holds is its writer's configuration of the moment, unless it is just being
\* written; and its writer is the command, or a process that has a configuration and writes
\* in this place.  No file is written before the options are read, or where none can be.
FilesInv ==
    /\ \A p \in Procs : process[p].project \in Procs
    /\ DOMAIN files \subseteq Files \ blocked
    /\ DOMAIN writer = DOMAIN files
    /\ command.phase = "options" => DOMAIN files = {}
    /\ \A f \in DOMAIN files :
          \/ writer[f] = CommandFile
          \/ /\ writer[f] \in Procs /\ process[writer[f]].loaded
             /\ process[writer[f]].project = f
    /\ \A f \in DOMAIN files \ torn : Agree(files[f], PresentConfig(f))

\* Nobody reads what no one has written.
Inherited ==
    \A q \in Procs : process'[q].loaded /\ ~process[q].loaded /\ process[q].env \in DOMAIN files
                        => Agree(process'[q].config, PresentConfig(process[q].env))

LEMMA SavedAgrees == \A config : Agree(Saved(config), config)
  BY DEF Agree, Saved

\* A step that writes no file keeps the invariant, if whoever wrote a file that is not being
\* written stays the writer it was.
LEMMA FilesKept ==
    ASSUME ProofInv, FilesInv, UNCHANGED <<files, writer, blocked, command>>,
           torn \subseteq torn', \A p \in Procs : process'[p].project \in Procs,
           \A p \in Procs : process[p].loaded =>
               /\ process'[p].loaded /\ process'[p].project = process[p].project
               /\ process'[p].config = process[p].config
                     \/ process[p].project \in torn' \cup blocked
    PROVE  FilesInv'
<1>1. CommandFile \notin Procs
  BY ConfigurationAssumption
<1>2. \A f \in DOMAIN files : 
          \/ writer[f] = CommandFile
          \/ /\ writer[f] \in Procs /\ process'[writer[f]].loaded
             /\ process'[writer[f]].project = f
  BY DEF FilesInv
<1>3. ASSUME NEW f \in DOMAIN files \ torn'
      PROVE  PresentConfig(f)' = PresentConfig(f)
  <2>1. CASE writer[f] = CommandFile
    BY <2>1 DEF PresentConfig
  <2>2. CASE writer[f] # CommandFile
    <3>1. /\ writer[f] \in Procs /\ process[writer[f]].loaded
          /\ process[writer[f]].project = f /\ f \notin blocked
      BY <2>2 DEF FilesInv
    <3>2. process'[writer[f]].config = process[writer[f]].config
      BY <3>1
    <3> QED BY <2>2, <3>2 DEF PresentConfig
  <2> QED BY <2>1, <2>2
<1>4. \A f \in DOMAIN files' \ torn' : Agree(files'[f], PresentConfig(f)')
  BY <1>3 DEF FilesInv
<1> QED BY <1>2, <1>4 DEF FilesInv

\* `new` is the same process, with the same configuration, in the same place.
Home(self, new) ==
    /\ {"loaded", "project", "config"} \subseteq DOMAIN new
    /\ new.loaded = self.loaded /\ new.project = self.project /\ new.config = self.config

LEMMA StaysHome ==
    ASSUME NEW self, {"loaded", "project", "config"} \subseteq DOMAIN self, NEW on
    PROVE  /\ Home(self, Manage(self)) /\ Home(self, Report(self))
           /\ Home(self, MakeOutput(self)) /\ Home(self, SwitchHook(self, on))
           /\ Home(self, UpdateAnalysisType(self))
           /\ Home(self, [self EXCEPT !.env = self.project])
<1> USE DEF Home
<1>1. Home(self, Manage(self))
  BY DEF Manage
<1>2. Home(self, Report(self))
  BY DEF Report, MakeOutput
<1>3. Home(self, MakeOutput(self))
  BY DEF MakeOutput
<1>4. Home(self, SwitchHook(self, on))
  BY DEF SwitchHook, EnableHook, DisableHook
<1>5. Home(self, UpdateAnalysisType(self))
  BY <1>2 DEF UpdateAnalysisType
<1>6. Home(self, [self EXCEPT !.env = self.project])
  OBVIOUS
<1> QED BY <1>1, <1>2, <1>3, <1>4, <1>5, <1>6

\* A step after which every process is the same, where it was, writes nothing.
LEMMA HomeKeepsFiles ==
    ASSUME ProofInv, FilesInv, UNCHANGED <<files, writer, blocked, command>>,
           torn \subseteq torn', \A p \in Procs : Home(process[p], process'[p])
    PROVE  FilesInv' /\ Inherited
<1>1. \A p \in Procs : process'[p].project \in Procs
  BY DEF FilesInv, Home
<1>2. FilesInv'
  BY <1>1, FilesKept DEF Home
<1>3. Inherited
  BY DEF Inherited, Home
<1> QED BY <1>2, <1>3

LEMMA CallsKeepFiles ==
    ASSUME ProofInv, LocalInv, FilesInv, NEW p \in Procs,
           \/ HookedCall(p) \/ LogLine(p) \/ ImportTorch(p) \/ AclInit(p)
           \/ \E call \in {"start", "stop"} : SetTraceStatus(p, call)
           \/ \E c \in Callers :
                 Decide(p, c) \/ CallAtenCollector(p, c) \/ CallOptimizerHook(p, c)
    PROVE  FilesInv' /\ Inherited
<1> DEFINE self == process[p]
<1>1. {"loaded", "project", "config"} \subseteq DOMAIN self
  BY DEF LocalInv, Local, Once, Formed, Fields
<1>2. \A q \in Procs : Home(process[q], process[q])
  BY DEF LocalInv, Local, Once, Formed, Fields, Home
<1>3. /\ UNCHANGED <<files, writer, blocked, command>> /\ torn \subseteq torn'
      /\ \E new : process' = [process EXCEPT ![p] = new] /\ Home(self, new)
  <2>1. CASE HookedCall(p)
    <3>1. PICK new \in {Manage(self), Report(Manage(self))} :
              process' = [process EXCEPT ![p] = new]
      BY <2>1 DEF HookedCall
    <3>2. Home(self, Manage(self)) /\ Home(Manage(self), Report(Manage(self)))
      BY <1>1, StaysHome DEF Home
    <3>3. Home(self, new)
      BY <3>1, <3>2 DEF Home
    <3> QED BY <2>1, <3>1, <3>3 DEF HookedCall
  <2>2. CASE ImportTorch(p)
    <3> DEFINE new == [self EXCEPT !.torch = TRUE]
    <3>1. Home(self, new)
      BY <1>1 DEF Home
    <3> QED BY <2>2, <3>1 DEF ImportTorch
  <2>3. CASE AclInit(p)
    <3> DEFINE new == [Manage(self) EXCEPT !.aclInit = TRUE]
    <3>1. Home(self, Manage(self))
      BY <1>1, StaysHome
    <3>2. Home(self, new)
      BY <3>1 DEF Home
    <3> QED BY <2>3, <3>2 DEF AclInit
  <2>4. ASSUME NEW call, SetTraceStatus(p, call)
        PROVE  /\ UNCHANGED <<files, writer, blocked, command>> /\ torn \subseteq torn'
               /\ \E new : process' = [process EXCEPT ![p] = new] /\ Home(self, new)
    <3> DEFINE before == Manage(Report(self))
               status == IF call = "start" THEN "IN_TRACING" ELSE "NOT_IN_TRACING"
               new    == [before EXCEPT !.status = status]
    <3>1. Home(self, Report(self)) /\ Home(Report(self), before)
      BY <1>1, StaysHome DEF Home
    <3>2. process' = [process EXCEPT ![p] = new]
      BY <2>4 DEF SetTraceStatus
    <3> HIDE DEF before, status
    <3>3. Home(self, new)
      BY <3>1 DEF Home
    <3> HIDE DEF new
    <3> QED BY <2>4, <3>2, <3>3 DEF SetTraceStatus
  <2>5. ASSUME NEW c, Decide(p, c)
        PROVE  /\ UNCHANGED <<files, writer, blocked, command>> /\ torn \subseteq torn'
               /\ \E new : process' = [process EXCEPT ![p] = new] /\ Home(self, new)
    BY <1>1, <2>5, StaysHome DEF Decide
  <2>6. ASSUME NEW c, CallAtenCollector(p, c)
        PROVE  /\ UNCHANGED <<files, writer, blocked, command>> /\ torn \subseteq torn'
               /\ \E new : process' = [process EXCEPT ![p] = new] /\ Home(self, new)
    <3> DEFINE on  == IF self.torch THEN caller[p][c].on ELSE self.collector
               new == [self EXCEPT !.collector = on]
    <3>1. process' = [process EXCEPT ![p] = new]
      BY <2>6 DEF CallAtenCollector
    <3> HIDE DEF on
    <3>2. Home(self, new)
      BY <1>1 DEF Home
    <3> HIDE DEF new
    <3> QED BY <2>6, <3>1, <3>2 DEF CallAtenCollector
  <2>7. ASSUME NEW c, CallOptimizerHook(p, c)
        PROVE  /\ UNCHANGED <<files, writer, blocked, command>> /\ torn \subseteq torn'
               /\ \E new : process' = [process EXCEPT ![p] = new] /\ Home(self, new)
    <3> DEFINE switched == SwitchHook(self, caller[p][c].on)
               saved    == [switched EXCEPT !.env = switched.project]
    <3>1. PICK new \in {UpdateAnalysisType(switched), MakeOutput(saved), Report(switched),
                        switched} : process' = [process EXCEPT ![p] = new]
      BY <2>7 DEF CallOptimizerHook
    <3>2. Home(self, switched)
      BY <1>1, StaysHome
    <3> HIDE DEF switched
    <3>3. /\ Home(switched, UpdateAnalysisType(switched)) /\ Home(switched, Report(switched))
          /\ Home(switched, saved)
      BY <3>2, StaysHome DEF Home
    <3> HIDE DEF saved
    <3>4. Home(saved, MakeOutput(saved))
      BY <3>3, StaysHome DEF Home
    <3>5. Home(self, new)
      BY <3>1, <3>2, <3>3, <3>4 DEF Home
    <3> QED BY <2>7, <3>1, <3>5 DEF CallOptimizerHook, OpenFile
  <2>8. CASE LogLine(p)
    <3>1. Home(self, MakeOutput(self))
      BY <1>1, StaysHome
    <3> QED BY <2>8, <3>1 DEF LogLine
  <2> QED BY <2>1, <2>2, <2>3, <2>4, <2>5, <2>6, <2>7, <2>8
<1>4. \A q \in Procs : Home(process[q], process'[q])
  BY <1>2, <1>3 DEF LocalInv
<1> QED BY <1>3, <1>4, HomeKeepsFiles

\* config(): the file of another configuration is being written from now on.
LEMMA ConfigureKeepsFiles ==
    ASSUME ProofInv, LocalInv, FilesInv, NEW p \in Procs, NEW dictionary,
           Configure(p, dictionary)
    PROVE  FilesInv' /\ Inherited
<1> DEFINE self   == process[p]
           config == SetConfig(dictionary, self.config)
<1>1. {"loaded", "project", "config"} \subseteq DOMAIN self /\ self.loaded
  BY DEF LocalInv, Local, Once, Formed, Fields, Configure, Running
<1>2. PICK active :
          /\ UNCHANGED <<files, writer, blocked, command>>
          /\ \/ process' = [process EXCEPT ![p] = [self EXCEPT !.pyTrace = active]]
                /\ UNCHANGED torn
             \/ /\ process' = [process EXCEPT ![p] = MakeOutput(
                       [self EXCEPT !.pyTrace = active, !.config = config,
                                    !.logLevel = config.logLevel, !.env = self.project])]
                /\ OpenFile(p)
  BY DEF Configure
<1> HIDE DEF config
<1>3. torn \subseteq torn'
  BY <1>2 DEF OpenFile
<1>4. /\ process'[p].loaded /\ process'[p].project = self.project
      /\ process'[p].config = self.config \/ self.project \in torn' \cup blocked
  <2>1. CASE process' = [process EXCEPT ![p] = [self EXCEPT !.pyTrace = active]]
    BY <1>1, <2>1 DEF LocalInv
  <2>2. CASE /\ process' = [process EXCEPT ![p] = MakeOutput(
                       [self EXCEPT !.pyTrace = active, !.config = config,
                                    !.logLevel = config.logLevel, !.env = self.project])]
             /\ OpenFile(p)
    <3> DEFINE given == [self EXCEPT !.pyTrace = active, !.config = config,
                                     !.logLevel = config.logLevel, !.env = self.project]
    <3>1. /\ {"loaded", "project", "config"} \subseteq DOMAIN given
          /\ given.loaded = self.loaded /\ given.project = self.project
      BY <1>1
    <3> HIDE DEF given
    <3>2. Home(given, MakeOutput(given))
      BY <3>1, StaysHome
    <3>3. process'[p] = MakeOutput(given)
      BY <2>2 DEF given, LocalInv
    <3>4. self.project \in torn' \cup blocked
      BY <2>2 DEF OpenFile
    <3> QED BY <1>1, <3>1, <3>2, <3>3, <3>4 DEF Home
  <2> QED BY <1>2, <2>1, <2>2
<1>5. \A q \in Procs : q # p => process'[q] = process[q]
  BY <1>2 DEF LocalInv
<1>6. \A q \in Procs : process'[q].project \in Procs
  BY <1>4, <1>5 DEF FilesInv
<1>7. FilesInv'
  BY <1>2, <1>3, <1>4, <1>5, <1>6, FilesKept
<1>8. Inherited
  BY <1>1, <1>5 DEF Inherited
<1> QED BY <1>7, <1>8

\* The file is written: now it holds the configuration of the process that wrote it.
LEMMA WriteKeepsFiles ==
    ASSUME ProofInv, LocalInv, FilesInv, NEW p \in Procs, Write(p)
    PROVE  FilesInv' /\ Inherited
<1> DEFINE file == process[p].project
<1>1. /\ UNCHANGED <<command, process, blocked>>
      /\ process[p].loaded /\ p # CommandFile
      /\ files' = IF file \in blocked THEN files
                  ELSE [f \in DOMAIN files \cup {file} |->
                           IF f = file THEN Saved(process[p].config) ELSE files[f]]
      /\ writer' = [f \in DOMAIN files' |-> IF f = file THEN p ELSE writer[f]]
      /\ torn' = torn \ {file}
  BY ConfigurationAssumption DEF Write, WriteFile, ProofInv, EventsInv, CallersAreLoaded, Callers
<1>2. file \in Procs
  BY DEF FilesInv
<1>3. /\ DOMAIN files' = DOMAIN files \cup (IF file \in blocked THEN {} ELSE {file})
      /\ \A f \in DOMAIN files' \ {file} : f \in DOMAIN files /\ files'[f] = files[f]
                                           /\ writer'[f] = writer[f]
      /\ file \in DOMAIN files' => /\ files'[file] = Saved(process[p].config)
                                   /\ writer'[file] = p
  <2>1. file \in blocked => file \notin DOMAIN files
    BY DEF FilesInv
  <2> HIDE DEF file
  <2> QED BY <1>1, <2>1
<1> HIDE DEF file
<1>4. DOMAIN files' \subseteq Files \ blocked' /\ DOMAIN writer' = DOMAIN files'
  BY <1>1, <1>2, <1>3 DEF FilesInv, Files
<1>5. command'.phase = "options" => DOMAIN files' = {}
  BY <1>1 DEF ProofInv, EventsInv, OptionsComeFirst
<1>6. \A f \in DOMAIN files' :
          \/ writer'[f] = CommandFile
          \/ /\ writer'[f] \in Procs /\ process'[writer'[f]].loaded
             /\ process'[writer'[f]].project = f
  BY <1>1, <1>3 DEF FilesInv, file
<1>7. ASSUME NEW f \in DOMAIN files' \ torn'
      PROVE  Agree(files'[f], PresentConfig(f)')
  <2>1. CASE f = file
    <3>1. PresentConfig(f)' = process[p].config
      BY <1>1, <1>3, <2>1 DEF PresentConfig
    <3> QED BY <1>3, <2>1, <3>1, SavedAgrees
  <2>2. CASE f # file
    <3>1. f \in DOMAIN files \ torn /\ files'[f] = files[f] /\ writer'[f] = writer[f]
      BY <1>1, <1>3, <2>2
    <3>2. PresentConfig(f)' = PresentConfig(f)
      BY <1>1, <3>1 DEF PresentConfig
    <3> QED BY <3>1, <3>2 DEF FilesInv
  <2> QED BY <2>1, <2>2
<1>8. \A q \in Procs : process'[q].project \in Procs
  BY <1>1 DEF FilesInv
<1>9. FilesInv'
  BY <1>4, <1>5, <1>6, <1>7, <1>8 DEF FilesInv
<1>10. Inherited
  BY <1>1 DEF Inherited
<1> QED BY <1>9, <1>10

\* A process reads a file that is whole, or finds none.
LEMMA ReadKeepsFiles ==
    ASSUME ProofInv, LocalInv, FilesInv, NEW p \in Procs, ReadConfig(p)
    PROVE  FilesInv' /\ Inherited
<1> DEFINE self    == process[p]
           default == SetConfigImpl(InitialConfig(DefaultDir))
<1>1. /\ ~self.loaded /\ UNCHANGED <<files, writer, blocked, command, torn>>
      /\ process' = [process EXCEPT ![p] =
            CASE self.env \in torn -> [self EXCEPT !.up = FALSE]
              [] self.env \in DOMAIN files \ torn ->
                    [self EXCEPT !.loaded = TRUE, !.config = files[self.env]]
              [] OTHER -> [self EXCEPT !.loaded = TRUE, !.config = default]]
  BY DEF ReadConfig, ReadJsonConfig
<1> HIDE DEF default
<1>2. \A q \in Procs : q # p => process'[q] = process[q]
  BY <1>1 DEF LocalInv
<1>3. FilesInv'
  <2>1. {"loaded", "up", "config", "project"} \subseteq DOMAIN self
    BY DEF LocalInv, Local, Once, Formed, Fields
  <2>2. process'[p].project = self.project
    <3>1. \/ process'[p] = [self EXCEPT !.up = FALSE]
          \/ process'[p] = [self EXCEPT !.loaded = TRUE, !.config = files[self.env]]
          \/ process'[p] = [self EXCEPT !.loaded = TRUE, !.config = default]
      BY <1>1 DEF LocalInv
    <3> HIDE DEF self
    <3> QED BY <2>1, <3>1
  <2>3. \A q \in Procs : process'[q].project \in Procs
    BY <1>2, <2>2 DEF FilesInv
  <2> QED BY <1>1, <1>2, <2>3, FilesKept
<1>4. ASSUME process'[p].loaded, self.env \in DOMAIN files
      PROVE  Agree(process'[p].config, PresentConfig(self.env))
  <2>1. {"loaded", "up", "config"} \subseteq DOMAIN self
    BY DEF LocalInv, Local, Once, Formed, Fields
  <2>2. CASE self.env \in torn
    <3>1. process'[p] = [self EXCEPT !.up = FALSE]
      BY <1>1, <2>2 DEF LocalInv
    <3> QED BY <1>1, <1>4, <2>1, <3>1
  <2>3. CASE self.env \notin torn
    <3>1. process'[p] = [self EXCEPT !.loaded = TRUE, !.config = files[self.env]]
      BY <1>1, <1>4, <2>3 DEF LocalInv
    <3>2. process'[p].config = files[self.env]
      BY <2>1, <3>1
    <3> QED BY <1>4, <2>3, <3>2 DEF FilesInv
  <2> QED BY <2>2, <2>3
<1>5. Inherited
  BY <1>2, <1>4 DEF Inherited
<1> QED BY <1>3, <1>5

\* A process that is born has written nothing, and a copy did not read.
LEMMA BirthKeepsFiles ==
    ASSUME ProofInv, LocalInv, FilesInv, NEW p \in Procs, NEW q \in Procs,
           Spawn(p, q) \/ Fork(p, q)
    PROVE  FilesInv' /\ Inherited
<1>1. /\ UNCHANGED <<files, writer, blocked, command, torn>> /\ Unborn(q)
      /\ \E new : process' = [process EXCEPT ![q] = new] /\ new.project \in Procs
  BY DEF Spawn, Fork, NewProcess, FilesInv
<1>2. process[q].env = NoFile /\ ~process[q].loaded
  <2>1. process[q] = [NewProcess(q, NoFile) EXCEPT !.up = FALSE]
    BY <1>1 DEF Unborn
  <2> QED BY <2>1 DEF NewProcess
<1>3. \A r \in Procs : r # q => process'[r] = process[r]
  BY <1>1 DEF LocalInv
<1>4. FilesInv'
  <2>1. \A r \in Procs : process'[r].project \in Procs
    BY <1>1, <1>3 DEF FilesInv, LocalInv
  <2> QED BY <1>1, <1>2, <1>3, <2>1, FilesKept
<1>5. NoFile \notin DOMAIN files
  BY ConfigurationAssumption DEF FilesInv, Files
<1>6. Inherited
  BY <1>2, <1>3, <1>5 DEF Inherited
<1> QED BY <1>4, <1>6

\* The command writes the first file.
LEMMA CommandKeepsFiles ==
    ASSUME ProofInv, LocalInv, FilesInv,
           \/ \E option \in Options : ReadOption(option[1], option[2])
           \/ DoUserCommand
    PROVE  FilesInv' /\ Inherited
<1>1. DOMAIN files = {} /\ UNCHANGED <<caller, torn, blocked>>
      /\ \A p \in Procs : ~process[p].loaded
  BY DEF ReadOption, DoUserCommand, FilesInv, ProofInv, EventsInv, OptionsComeFirst
<1>2. ASSUME NEW opt, NEW param, ReadOption(opt, param) PROVE FilesInv' /\ Inherited
  <2>1. UNCHANGED <<process, files, writer>>
    BY <1>2 DEF ReadOption
  <2> QED BY <1>1, <2>1 DEF FilesInv, Inherited
<1>3. ASSUME DoUserCommand PROVE FilesInv' /\ Inherited
  <2> DEFINE config == SetEffectiveConfig(SetConfigImpl(command.config))
             new    == NewProcess(First, CommandFile)
             saves  == UserCommandPrecheck(command.config) /\ CommandFile \notin blocked
  <2>1. new.project = First /\ First \in Procs
    BY ConfigurationAssumption DEF NewProcess
  <2> HIDE DEF config, new
  <2>2. /\ IF saves THEN /\ files'  = [f \in {CommandFile} |-> Saved(config)]
                         /\ writer' = [f \in {CommandFile} |-> CommandFile]
                    ELSE UNCHANGED <<files, writer>>
        /\ process' = process \/ process' = [process EXCEPT ![First] = new]
    BY <1>3 DEF DoUserCommand, config, new
  <2>3. \/ ~saves /\ command'.phase = "ended"
        \/ command'.phase # "options" /\ command'.config = config
        \/ CommandFile \in blocked /\ command'.phase # "options"
    <3>1. \/ ~UserCommandPrecheck(command.config) /\ command' = [command EXCEPT !.phase = "ended"]
          \/ command' = [command EXCEPT !.phase = "compared", !.config = config]
          \/ command' = [command EXCEPT !.phase = "executed", !.config = config]
      BY <1>3, Zenon DEF DoUserCommand, config
    <3> QED BY <3>1 DEF LocalInv
  <2>4. \A p \in Procs : process'[p].project \in Procs
    BY <2>1, <2>2 DEF FilesInv, LocalInv
  <2>5. CASE saves
    <3>1. /\ DOMAIN files' = {CommandFile} /\ DOMAIN writer' = {CommandFile}
          /\ files'[CommandFile] = Saved(config) /\ writer'[CommandFile] = CommandFile
      BY <2>2, <2>5
    <3>2. PresentConfig(CommandFile)' = config /\ command'.phase # "options"
      BY <2>3, <2>5, <3>1 DEF PresentConfig
    <3>3. \A f \in DOMAIN files' \ torn' : Agree(files'[f], PresentConfig(f)')
      <4>1. Agree(files'[CommandFile], PresentConfig(CommandFile)')
        BY <3>1, <3>2, SavedAgrees
      <4> QED BY <3>1, <4>1
    <3> QED BY <1>1, <2>5, <2>4, <3>1, <3>2, <3>3 DEF FilesInv, Files, Inherited
  <2>6. CASE ~saves
    <3>1. command'.phase # "options" /\ files' = files /\ writer' = writer
      BY <2>2, <2>3, <2>6
    <3> QED BY <1>1, <2>4, <3>1 DEF FilesInv, Inherited
  <2> QED BY <2>5, <2>6
<1> QED BY <1>2, <1>3

LEMMA InitFiles == Init => FilesInv
  BY DEF Init, FilesInv, NewProcess

LEMMA NextKeepsFiles ==
    ProofInv /\ LocalInv /\ FilesInv /\ [Next]_vars => FilesInv' /\ (UNCHANGED vars \/ Inherited)
<1> SUFFICES ASSUME ProofInv, LocalInv, FilesInv, [Next]_vars
             PROVE  FilesInv' /\ (UNCHANGED vars \/ Inherited)
    OBVIOUS
<1>1. CASE UNCHANGED vars
  <2>1. \A f \in DOMAIN files : PresentConfig(f)' = PresentConfig(f)
    BY <1>1 DEF vars, PresentConfig
  <2> QED BY <1>1, <2>1 DEF vars, FilesInv
<1>2. CASE Next
  <2>1. CASE \/ \E option \in Options : ReadOption(option[1], option[2])
             \/ DoUserCommand
    BY <2>1, CommandKeepsFiles
  <2>2. ASSUME NEW p \in Procs, ReadConfig(p) PROVE FilesInv' /\ Inherited
    BY <2>2, ReadKeepsFiles
  <2>3. ASSUME NEW p \in Procs, NEW d \in Dictionaries, Configure(p, d)
        PROVE  FilesInv' /\ Inherited
    BY <2>3, ConfigureKeepsFiles
  <2>4. ASSUME NEW p \in Procs, Write(p) PROVE FilesInv' /\ Inherited
    BY <2>4, WriteKeepsFiles
  <2>5. ASSUME NEW p \in Procs, NEW q \in Procs, Spawn(p, q) \/ Fork(p, q)
        PROVE  FilesInv' /\ Inherited
    BY <2>5, BirthKeepsFiles
  <2>6. ASSUME NEW p \in Procs,
               \/ HookedCall(p) \/ LogLine(p) \/ ImportTorch(p) \/ AclInit(p)
               \/ \E call \in {"start", "stop"} : SetTraceStatus(p, call)
               \/ \E c \in Callers :
                     Decide(p, c) \/ CallAtenCollector(p, c) \/ CallOptimizerHook(p, c)
        PROVE  FilesInv' /\ Inherited
    BY <2>6, CallsKeepFiles
  <2> QED BY <1>2, <2>1, <2>2, <2>3, <2>4, <2>5, <2>6 DEF Next
<1> QED BY <1>1, <1>2

\* A program that is started by another one, at any depth, reads a file that holds the
\* configuration its writer has at that moment - or does not come up, when the file is just
\* being written.
THEOREM ConfigInherited == Spec => InheritsConfig
<1>1. ProofInv /\ LocalInv /\ FilesInv /\ [Next]_vars =>
          [\A q \in Procs :
              /\ process'[q].loaded /\ ~process[q].loaded
              /\ process[q].env \in DOMAIN files
              => Agree(process'[q].config, PresentConfig(process[q].env))]_vars
  BY NextKeepsFiles DEF Inherited
<1>2. ProofInv /\ LocalInv /\ FilesInv /\ [Next]_vars => FilesInv'
  BY NextKeepsFiles
<1> QED BY <1>1, <1>2, InitEventsInv, InitLocal, InitFiles, NextKeepsInv, NextLocal, PTL
        DEF Spec, InheritsConfig

------------------------------------------------------------------------------------
\* Numbers, and functions that are defined from one to the next

LEMMA LeastElement ==
    ASSUME NEW T \in SUBSET Nat, T # {}
    PROVE  \E m \in T : \A n \in T : m <= n
<1> DEFINE R == OpToRel(<, Nat)
<1>1. IsWellFoundedOn(R, Nat)
  BY NatLessThanWellFounded
<1>2. \A x, y \in Nat : <<x, y>> \in R <=> x < y
  BY DEF OpToRel
<1> HIDE DEF R
<1>3. PICK x \in T : \A y \in T : ~ (<<y, x>> \in R)
  <2>1. T \subseteq Nat
    OBVIOUS
  <2> QED BY ONLY <1>1, <2>1, T # {}, WFMin
<1>4. ASSUME NEW n \in T PROVE x <= n
  <2>1. n \in Nat /\ x \in Nat /\ <<n, x>> \notin R
    BY <1>3
  <2> QED BY <1>2, <2>1
<1> QED BY <1>4

\* Induction up to a bound, with a set of numbers for the property.
LEMMA InductionTo ==
    ASSUME NEW n \in Nat, NEW P, 0 \in P, \A i \in 1..n : i - 1 \in P => i \in P
    PROVE  \A i \in 0..n : i \in P
<1> SUFFICES ASSUME (0..n) \ P # {} PROVE FALSE
  OBVIOUS
<1> DEFINE T == (0..n) \ P
<1>0. T \in SUBSET Nat /\ T # {}
  OBVIOUS
<1>1. PICK m \in T : \A i \in T : m <= i
  <2> HIDE DEF T
  <2> QED BY <1>0, LeastElement
<1>2. m # 0 /\ m \in 1..n /\ m - 1 \in 0..n
  BY <1>1
<1>3. m - 1 \in P
  BY <1>1, <1>2
<1> QED BY <1>1, <1>2, <1>3

\* A function that each number takes from the one before it.
Iterates(g, F, base, n) == g[0] = base /\ \A i \in 1..n : g[i] = F[<<g[i - 1], i>>]

LEMMA IterationExists ==
    ASSUME NEW n \in Nat, NEW P, NEW F \in [P \X (1..n) -> P], NEW base \in P
    PROVE  \E g \in [0..n -> P] : Iterates(g, F, base, n)
<1> DEFINE Q == {m \in 0..n : \E g \in [0..m -> P] : Iterates(g, F, base, m)}
<1>1. 0 \in Q
  <2>1. [i \in 0..0 |-> base] \in [0..0 -> P] /\ Iterates([i \in 0..0 |-> base], F, base, 0)
    BY DEF Iterates
  <2> QED BY <2>1
<1>2. ASSUME NEW m \in 1..n, m - 1 \in Q PROVE m \in Q
  <2>1. PICK g \in [0..(m - 1) -> P] : Iterates(g, F, base, m - 1)
    BY <1>2
  <2> DEFINE h == [i \in 0..m |-> IF i = m THEN F[<<g[m - 1], m>>] ELSE g[i]]
  <2>2. h \in [0..m -> P]
    <3>1. g[m - 1] \in P /\ \A i \in 0..m : i # m => i \in 0..(m - 1)
      OBVIOUS
    <3>2. <<g[m - 1], m>> \in P \X (1..n)
      BY <3>1
    <3> QED BY <3>1, <3>2
  <2>3. h[0] = base
    <3>1. 0 # m /\ 0 \in 0..m /\ g[0] = base
      BY <2>1 DEF Iterates
    <3> QED BY <3>1
  <2>4. ASSUME NEW i \in 1..m PROVE h[i] = F[<<h[i - 1], i>>]
    <3>1. CASE i = m
      <4>1. m - 1 # m /\ m \in 0..m /\ m - 1 \in 0..m
        OBVIOUS
      <4>2. h[m] = F[<<g[m - 1], m>>] /\ h[m - 1] = g[m - 1]
        BY <4>1
      <4> HIDE DEF h
      <4> QED BY <3>1, <4>2
    <3>2. CASE i # m
      <4>1. i \in 1..(m - 1) /\ i - 1 # m /\ i \in 0..m /\ i - 1 \in 0..m
        BY <3>2
      <4>2. h[i] = g[i] /\ h[i - 1] = g[i - 1]
        BY <3>2, <4>1
      <4> HIDE DEF h
      <4> QED BY <2>1, <4>1, <4>2 DEF Iterates
    <3> QED BY <3>1, <3>2
  <2> HIDE DEF h
  <2> QED BY <2>2, <2>3, <2>4 DEF Iterates
<1> HIDE DEF Q
<1>3. n \in Q
  BY <1>1, <1>2, InductionTo
<1> QED BY <1>3 DEF Q

------------------------------------------------------------------------------------
\* The selected steps

\* What TakeStep makes of right steps.
ReadSteps == [ok : BOOLEAN, steps : {s \in Seq(Nat) : Len(s) <= MaxSteps}]

LEMMA TakenStep ==
    ASSUME NEW read \in ReadSteps, NEW token
    PROVE  TakeStep(read, token) \in ReadSteps
<1>1. read.steps \in Seq(Nat) /\ Len(read.steps) \in Nat
  BY DEF ReadSteps
<1>2. CASE ~read.ok \/ Len(read.steps) >= MaxSteps \/ token \notin {NoNumber} \cup (Nat \ {0})
  BY <1>2 DEF TakeStep, ReadSteps
<1>3. CASE /\ ~(~read.ok \/ Len(read.steps) >= MaxSteps)
           /\ token \in {NoNumber} \cup (Nat \ {0})
  <2>1. CASE token = NoNumber
    BY <1>3, <2>1 DEF TakeStep
  <2>2. CASE token # NoNumber
    <3> DEFINE s == Append(read.steps, token)
    <3>1. s \in Seq(Nat) /\ Len(s) = Len(read.steps) + 1
      BY <1>1, <1>3, <2>2, AppendProperties
    <3>2. Len(s) <= MaxSteps
      BY <1>1, <1>3, <3>1, ParserAssumption
    <3>3. TakeStep(read, token) = [read EXCEPT !.steps = s]
      BY <1>3, <2>2 DEF TakeStep
    <3> HIDE DEF s
    <3> QED BY <3>1, <3>2, <3>3 DEF ReadSteps
  <2> QED BY <2>1, <2>2
<1> QED BY <1>2, <1>3

\* The steps that are read are as many as there may be, at most.
LEMMA StepsRead ==
    ASSUME NEW tokens \in Seq(Int), NEW config
    PROVE  \/ ParseSelectSteps(tokens, config) = Reject(config)
           \/ \E steps \in Seq(Nat) :
                  /\ Len(steps) <= MaxSteps
                  /\ ParseSelectSteps(tokens, config)
                         = Accept([config EXCEPT !.stepList = steps])
<1> DEFINE n == Len(tokens)
           first == [ok |-> TRUE, steps |-> <<>>]
           F == [x \in ReadSteps \X (1..n) |-> TakeStep(x[1], tokens[x[2]])]
           Def(read) == [i \in 0..n |-> IF i = 0 THEN first
                                        ELSE TakeStep(read[i - 1], tokens[i])]
           read == CHOOSE f : f = Def(f)
<1>1. n \in Nat /\ first \in ReadSteps
  BY ParserAssumption DEF ReadSteps
<1>2. F \in [ReadSteps \X (1..n) -> ReadSteps]
  BY TakenStep
<1>3. PICK g \in [0..n -> ReadSteps] : Iterates(g, F, first, n)
  <2> HIDE DEF F, first, n
  <2> QED BY <1>1, <1>2, IterationExists
<1>4. g = Def(g)
  <2>1. \A i \in 1..n : g[i] = TakeStep(g[i - 1], tokens[i])
    <3> SUFFICES ASSUME NEW i \in 1..n PROVE g[i] = TakeStep(g[i - 1], tokens[i])
      OBVIOUS
    <3>1. g[i - 1] \in ReadSteps
      BY <1>1
    <3>2. <<g[i - 1], i>> \in ReadSteps \X (1..n)
      BY <3>1
    <3> QED BY <1>3, <3>2 DEF Iterates
  <2>2. g[0] = first
    BY <1>3 DEF Iterates
  <2> HIDE DEF first
  <2>3. \A i \in 0..n : g[i] = IF i = 0 THEN first ELSE TakeStep(g[i - 1], tokens[i])
    BY <1>1, <2>1, <2>2
  <2> QED BY <2>3
<1>5. read = Def(read)
  <2> HIDE DEF Def
  <2> QED BY <1>4
<1>6. read[n] \in ReadSteps
  <2> DEFINE P == {i \in 0..n : read[i] \in ReadSteps}
  <2> HIDE DEF read
  <2>1. \A i \in 0..n : read[i] = IF i = 0 THEN first ELSE TakeStep(read[i - 1], tokens[i])
    <3> DEFINE E(i) == IF i = 0 THEN first ELSE TakeStep(read[i - 1], tokens[i])
    <3>1. read = [i \in 0..n |-> E(i)]
      BY <1>5
    <3> HIDE DEF E, n
    <3>2. \A i \in 0..n : read[i] = E(i)
      BY <3>1
    <3> QED BY <3>2 DEF E
  <2>2. 0 \in P
    BY <1>1, <2>1
  <2>3. ASSUME NEW i \in 1..n, i - 1 \in P PROVE i \in P
    BY <1>1, <2>1, <2>3, TakenStep
  <2>4. n \in 0..n
    BY <1>1
  <2> HIDE DEF P
  <2>5. \A i \in 0..n : i \in P
    BY <1>1, <2>2, <2>3, InductionTo
  <2> QED BY <2>4, <2>5 DEF P
<1>7. ParseSelectSteps(tokens, config)
         = IF read[n].ok THEN Accept([config EXCEPT !.stepList = read[n].steps])
                         ELSE Reject(config)
  BY DEF ParseSelectSteps
<1> HIDE DEF read, n
<1> QED BY <1>6, <1>7 DEF ReadSteps

------------------------------------------------------------------------------------
\* Configurations keep their type

ConfigFields == {"stepList", "enableCompare", "cStack", "pyStack", "inputCorrectPaths",
    "outputCorrectPaths", "watchConfig", "levelType", "eventType", "analysisType", "logLevel",
    "collectMode", "outputDir", "dataFormat", "collectAllNpu", "npuSlots", "isEffective"}

WatchConfig == [on : BOOLEAN, start : Word, outputId : Int, end : Word,
                fullContent : BOOLEAN]

\* `new` is a configuration whose steps are those of the other one.
SameSteps(config, new) == new \in Config /\ new.stepList = config.stepList

\* One field of a configuration is replaced: a flag, a choice, the depths, the slots, the
\* directory, the watch.
LEMMA SetFlags ==
    ASSUME NEW config \in Config, NEW v \in BOOLEAN
    PROVE  /\ SameSteps(config, [config EXCEPT !.enableCompare = v])
           /\ SameSteps(config, [config EXCEPT !.inputCorrectPaths = v])
           /\ SameSteps(config, [config EXCEPT !.outputCorrectPaths = v])
           /\ SameSteps(config, [config EXCEPT !.isEffective = v])
<1>1. /\ SameSteps(config, [config EXCEPT !.enableCompare = v])
      /\ SameSteps(config, [config EXCEPT !.inputCorrectPaths = v])
  BY DEF Config, SameSteps
<1>2. /\ SameSteps(config, [config EXCEPT !.outputCorrectPaths = v])
      /\ SameSteps(config, [config EXCEPT !.isEffective = v])
  BY DEF Config, SameSteps
<1> QED BY <1>1, <1>2

LEMMA SetChoices ==
    ASSUME NEW config \in Config, NEW v
    PROVE  /\ v \in SUBSET LevelType => SameSteps(config, [config EXCEPT !.levelType = v])
           /\ v \in SUBSET EventType => SameSteps(config, [config EXCEPT !.eventType = v])
           /\ v \in SUBSET AnalysisType => SameSteps(config, [config EXCEPT !.analysisType = v])
           /\ v \in LogLv => SameSteps(config, [config EXCEPT !.logLevel = v])
           /\ v \in CollectMode => SameSteps(config, [config EXCEPT !.collectMode = v])
           /\ v \in Dirs => SameSteps(config, [config EXCEPT !.outputDir = v])
           /\ v \in DataFormat => SameSteps(config, [config EXCEPT !.dataFormat = v])
           /\ v \in WatchConfig => SameSteps(config, [config EXCEPT !.watchConfig = v])
<1>1. /\ v \in SUBSET LevelType => SameSteps(config, [config EXCEPT !.levelType = v])
      /\ v \in SUBSET EventType => SameSteps(config, [config EXCEPT !.eventType = v])
      /\ v \in SUBSET AnalysisType => SameSteps(config, [config EXCEPT !.analysisType = v])
  BY DEF Config, SameSteps
<1>2. /\ v \in LogLv => SameSteps(config, [config EXCEPT !.logLevel = v])
      /\ v \in CollectMode => SameSteps(config, [config EXCEPT !.collectMode = v])
  BY DEF Config, SameSteps
<1>3. /\ v \in Dirs => SameSteps(config, [config EXCEPT !.outputDir = v])
      /\ v \in DataFormat => SameSteps(config, [config EXCEPT !.dataFormat = v])
      /\ v \in WatchConfig => SameSteps(config, [config EXCEPT !.watchConfig = v])
  BY DEF Config, SameSteps, WatchConfig
<1> QED BY <1>1, <1>2, <1>3

LEMMA SetDir ==
    ASSUME NEW config \in Config, NEW dir \in Dirs
    PROVE  SameSteps(config, [config EXCEPT !.outputDir = dir])
  BY DEF Config, SameSteps

LEMMA SetWatch ==
    ASSUME NEW config \in Config, NEW watch \in WatchConfig
    PROVE  SameSteps(config, [config EXCEPT !.watchConfig = watch])
  BY DEF Config, SameSteps, WatchConfig

LEMMA SetDepths ==
    ASSUME NEW config \in Config, NEW c \in CallStack, NEW python \in CallStack
    PROVE  SameSteps(config, [config EXCEPT !.cStack = c, !.pyStack = python])
  BY DEF Config, SameSteps

LEMMA SetSlots ==
    ASSUME NEW config \in Config, NEW all \in BOOLEAN, NEW slots \in SUBSET (0..(SlotBits - 1))
    PROVE  SameSteps(config, [config EXCEPT !.collectAllNpu = all, !.npuSlots = slots])
  BY DEF Config, SameSteps

\* A parser that fails leaves what there was.
LEMMA Unchanged ==
    ASSUME NEW config \in Config
    PROVE  SameSteps(config, config) /\ SameSteps(config, Reject(config).config)
  BY DEF SameSteps, Reject

\* The last of some numbers up to n.
LEMMA MaxOf ==
    ASSUME NEW n \in Nat, NEW S \in SUBSET (1..n), S # {}
    PROVE  Max(S) \in S /\ \A x \in S : x <= Max(S)
<1> DEFINE T == {n - x : x \in S}
<1>1. T \in SUBSET Nat /\ T # {}
  OBVIOUS
<1>2. PICK m \in T : \A y \in T : m <= y
  <2> HIDE DEF T
  <2> QED BY <1>1, LeastElement
<1>3. PICK z \in S : m = n - z
  BY DEF T
<1>4. \A x \in S : z >= x
  <2> SUFFICES ASSUME NEW x \in S PROVE z >= x
    OBVIOUS
  <2>1. n - x \in T
    OBVIOUS
  <2>2. m <= n - x
    BY <1>2, <2>1
  <2> HIDE DEF T
  <2> QED BY <1>3, <2>2
<1> HIDE DEF T
<1> DEFINE c == CHOOSE x \in S : \A y \in S : x >= y
<1>5. c \in S /\ \A y \in S : c >= y
  BY <1>3, <1>4
<1>6. Max(S) = c
  BY DEF Max
<1> HIDE DEF c
<1>7. \A y \in S : y <= c
  BY <1>5
<1> QED BY <1>5, <1>6, <1>7

\* The parsers: each replaces its own part by something of its type, or fails.
LEMMA CallStackParsed ==
    ASSUME NEW config \in Config, NEW tokens \in Seq([stack : Word, depth : Int])
    PROVE  SameSteps(config, ParseCallstack(tokens, config).config)
<1> DEFINE named(stack) == {i \in DOMAIN tokens : tokens[i].stack = stack}
           depth(stack) == tokens[Max(named(stack))].depth
           chosen(stack, old) ==
               CASE tokens = <<>>      -> [on |-> FALSE, depth |-> 0]
                 [] named(stack) = {}  -> old
                 [] OTHER -> [on |-> TRUE, depth |-> IF depth(stack) = NoNumber
                                                     THEN DefaultDepth ELSE depth(stack)]
           right == \A i \in DOMAIN tokens :
                        tokens[i].stack = Empty \/ CheckIsValidDepthInfo(tokens[i])
<1>1. ASSUME right, NEW stack \in {"c", "python"}, NEW old \in CallStack
      PROVE  chosen(stack, old) \in CallStack
  <2>1. CASE tokens = <<>>
    BY <2>1, ParserAssumption DEF CallStack
  <2>2. CASE tokens # <<>> /\ named(stack) = {}
    BY <2>2
  <2>3. CASE tokens # <<>> /\ named(stack) # {}
    <3>1. Len(tokens) \in Nat /\ named(stack) \in SUBSET (1..Len(tokens))
      OBVIOUS
    <3>2. Max(named(stack)) \in named(stack)
      <4> HIDE DEF named
      <4> QED BY <2>3, <3>1, MaxOf
    <3>3. PICK m \in DOMAIN tokens : m = Max(named(stack)) /\ tokens[m].stack = stack
      BY <3>2
    <3>4. CheckIsValidDepthInfo(tokens[m])
      BY <1>1, <3>3 DEF Empty
    <3>5. depth(stack) \in {NoNumber} \cup 0..MaxDepth
      BY <3>3, <3>4 DEF CheckIsValidDepthInfo
    <3>6. chosen(stack, old) = [on |-> TRUE, depth |-> IF depth(stack) = NoNumber
                                                       THEN DefaultDepth ELSE depth(stack)]
      <4> HIDE DEF named, depth
      <4> QED BY <2>3
    <3> HIDE DEF depth, chosen
    <3> QED BY <3>5, <3>6, ParserAssumption DEF CallStack
  <2> QED BY <2>1, <2>2, <2>3
<1>2. CASE right
  <2>1. config.cStack \in CallStack /\ config.pyStack \in CallStack
    BY DEF Config
  <2>2. ParseCallstack(tokens, config).config
           = [config EXCEPT !.cStack = chosen("c", config.cStack),
                            !.pyStack = chosen("python", config.pyStack)]
    <3>1. ParseCallstack(tokens, config)
            = Accept([config EXCEPT !.cStack = chosen("c", @), !.pyStack = chosen("python", @)])
      BY <1>2 DEF ParseCallstack
    <3> HIDE DEF chosen
    <3>2. [config EXCEPT !.cStack = chosen("c", @), !.pyStack = chosen("python", @)]
            = [config EXCEPT !.cStack = chosen("c", config.cStack),
                             !.pyStack = chosen("python", config.pyStack)]
      BY DEF Config
    <3> QED BY <3>1, <3>2 DEF Accept
  <2>3. chosen("c", config.cStack) \in CallStack /\ chosen("python", config.pyStack) \in CallStack
    <3> HIDE DEF chosen
    <3> QED BY <1>1, <1>2, <2>1
  <2> HIDE DEF chosen
  <2> QED BY <2>2, <2>3, SetDepths
<1>3. CASE ~right
  <2>1. ParseCallstack(tokens, config) = Reject(config)
    BY <1>3 DEF ParseCallstack
  <2> QED BY <2>1, Unchanged
<1> QED BY <1>2, <1>3

LEMMA ChoicesParsed ==
    ASSUME NEW param, NEW config \in Config
    PROVE  /\ SameSteps(config, ParseAnalysis(param, config).config)
           /\ SameSteps(config, ParseEventTraceType(param, config).config)
           /\ SameSteps(config, ParseLogLv(param, config).config)
           /\ SameSteps(config, ParseDataFormat(param, config).config)
           /\ SameSteps(config, ParseCollectMode(param, config).config)
<1>1. SameSteps(config, ParseAnalysis(param, config).config)
  <2> DEFINE words == ToSet(Words(param))
  <2>1. CASE words \subseteq AnalysisType
    <3>1. ParseAnalysis(param, config).config = [config EXCEPT !.analysisType = words]
      BY <2>1 DEF ParseAnalysis, Accept
    <3> HIDE DEF words
    <3> QED BY <2>1, <3>1, SetChoices
  <2>2. CASE ~(words \subseteq AnalysisType)
    BY <2>2, Unchanged DEF ParseAnalysis
  <2> QED BY <2>1, <2>2
<1>2. SameSteps(config, ParseEventTraceType(param, config).config)
  <2> DEFINE words == ToSet(Words(param))
             right == words \subseteq EventType \cup {"traceback"}
  <2>1. CASE right
    <3>1. ParseEventTraceType(param, config).config
            = [config EXCEPT !.eventType = words \ {"traceback"}]
      BY <2>1 DEF ParseEventTraceType, Accept
    <3> HIDE DEF words
    <3>2. words \ {"traceback"} \in SUBSET EventType
      BY <2>1
    <3> QED BY <3>1, <3>2, SetChoices
  <2>2. CASE ~right
    BY <2>2, Unchanged DEF ParseEventTraceType
  <2> QED BY <2>1, <2>2
<1>3. SameSteps(config, ParseLogLv(param, config).config)
  <2>1. CASE param \in LogLv \ {"debug"}
    <3>1. ParseLogLv(param, config).config = [config EXCEPT !.logLevel = param]
      BY <2>1 DEF ParseLogLv, Accept
    <3> QED BY <2>1, <3>1, SetChoices
  <2>2. CASE ~(param \in LogLv \ {"debug"})
    BY <2>2, Unchanged DEF ParseLogLv
  <2> QED BY <2>1, <2>2
<1>4. SameSteps(config, ParseDataFormat(param, config).config)
  <2>1. CASE param \in DataFormat
    <3>1. ParseDataFormat(param, config).config = [config EXCEPT !.dataFormat = param]
      BY <2>1 DEF ParseDataFormat, Accept
    <3> QED BY <2>1, <3>1, SetChoices
  <2>2. CASE param \notin DataFormat
    BY <2>2, Unchanged DEF ParseDataFormat
  <2> QED BY <2>1, <2>2
<1>5. SameSteps(config, ParseCollectMode(param, config).config)
  <2>1. CASE param \in CollectMode
    <3>1. ParseCollectMode(param, config).config = [config EXCEPT !.collectMode = param]
      BY <2>1 DEF ParseCollectMode, Accept
    <3> QED BY <2>1, <3>1, SetChoices
  <2>2. CASE param \notin CollectMode
    BY <2>2, Unchanged DEF ParseCollectMode
  <2> QED BY <2>1, <2>2
<1> QED BY <1>1, <1>2, <1>3, <1>4, <1>5

LEMMA LevelParsed ==
    ASSUME NEW param, NEW config \in Config
    PROVE  SameSteps(config, ParseDataLevel(param, config).config)
<1> DEFINE words == ToSet(Words(param))
           levels == {LevelOf[word] : word \in words}
<1>1. CASE words \subseteq DOMAIN LevelOf
  <2>1. ParseDataLevel(param, config).config = [config EXCEPT !.levelType = levels]
    BY <1>1 DEF ParseDataLevel, Accept
  <2> HIDE DEF words
  <2>2. levels \in SUBSET LevelType
    BY <1>1 DEF LevelOf, LevelType
  <2> HIDE DEF levels
  <2> QED BY <2>1, <2>2, SetChoices
<1>2. CASE ~(words \subseteq DOMAIN LevelOf)
  BY <1>2, Unchanged DEF ParseDataLevel
<1> QED BY <1>1, <1>2

LEMMA DeviceParsed ==
    ASSUME NEW param, NEW config \in Config
    PROVE  SameSteps(config, ParseDevice(param, config).config)
<1> DEFINE named == Named(param)
           all   == \E i \in DOMAIN named : named[i].device = "npu"
           slots == {named[i].slot : i \in {j \in DOMAIN named : named[j].device = "npu:"}}
           right == /\ \A i \in DOMAIN named : named[i].device \in {"npu", "npu:"}
                    /\ slots \subseteq 0..(SlotBits - 1)
                    /\ all \/ slots # {}
<1>1. CASE right
  <2>1. ParseDevice(param, config).config
          = [config EXCEPT !.collectAllNpu = all, !.npuSlots = slots]
    BY <1>1 DEF ParseDevice, Accept
  <2>2. all \in BOOLEAN /\ slots \in SUBSET (0..(SlotBits - 1))
    BY <1>1
  <2> HIDE DEF all, slots
  <2> QED BY <2>1, <2>2, SetSlots
<1>2. CASE ~right
  BY <1>2, Unchanged DEF ParseDevice
<1> QED BY <1>1, <1>2

LEMMA OutputParsed ==
    ASSUME NEW kind, NEW dir \in Dirs, NEW config \in Config,
           NEW param, param.kind = kind, param.dir = dir
    PROVE  SameSteps(config, ParseOutputPath(param, config).config)
<1>1. CASE kind = "tooLong"
  BY <1>1, Unchanged DEF ParseOutputPath, Accept
<1>2. CASE kind = "blank"
  <2>1. ParseOutputPath(param, config).config = [config EXCEPT !.outputCorrectPaths = FALSE]
    BY <1>2 DEF ParseOutputPath, Accept
  <2> QED BY <2>1, SetFlags
<1>3. CASE kind = "invalid"
  <2>1. ParseOutputPath(param, config) = Reject(config)
    BY <1>3 DEF ParseOutputPath
  <2> QED BY <2>1, Unchanged
<1>4. CASE kind \notin {"tooLong", "blank", "invalid"}
  <2>1. ParseOutputPath(param, config).config = [config EXCEPT !.outputDir = dir]
    BY <1>4 DEF ParseOutputPath, Accept
  <2> QED BY <2>1, SetDir
<1> QED BY <1>1, <1>2, <1>3, <1>4

LEMMA WatchParsed ==
    ASSUME NEW param \in [start : Word, colon : BOOLEAN, outputId : Int, rest : Seq(Word)],
           NEW config \in Config
    PROVE  SameSteps(config, ParseWatchConfig(param, config).config)
<1> DEFINE full == Len(param.rest) = 2 /\ param.rest[2] = "full-content"
           right == /\ Len(param.rest) \in 1..2
                    /\ param.colon => param.start # Empty /\ param.outputId >= 0
                    /\ param.rest[1] # Empty
                    /\ Len(param.rest) = 2 => full \/ param.rest[2] = Empty
           old == config.watchConfig
           new == [on          |-> TRUE,
                   start       |-> param.start,
                   outputId    |-> IF param.colon THEN param.outputId ELSE old.outputId,
                   end         |-> param.rest[1],
                   fullContent |-> full \/ old.fullContent]
<1>1. CASE right
  <2>1. ParseWatchConfig(param, config).config = [config EXCEPT !.watchConfig = new]
    <3>1. ParseWatchConfig(param, config).config = [config EXCEPT !.watchConfig =
                 [on          |-> TRUE,
                  start       |-> param.start,
                  outputId    |-> IF param.colon THEN param.outputId ELSE @.outputId,
                  end         |-> param.rest[1],
                  fullContent |-> full \/ @.fullContent]]
      BY <1>1 DEF ParseWatchConfig, Accept
    <3> HIDE DEF full
    <3> QED BY <3>1 DEF Config
  <2>2. old \in WatchConfig
    BY DEF Config, WatchConfig
  <2>3. old.outputId \in Int /\ param.start \in Word /\ param.outputId \in Int
    BY <2>2 DEF WatchConfig
  <2>4. param.rest[1] \in Word
    BY <1>1
  <2>5. new \in WatchConfig
    <3>1. (full \/ old.fullContent) \in BOOLEAN
      BY Zenon
    <3>2. (IF param.colon THEN param.outputId ELSE old.outputId) \in Int
      BY <2>3
    <3> DEFINE id == IF param.colon THEN param.outputId ELSE old.outputId
               content == full \/ old.fullContent
               start == param.start
               end == param.rest[1]
    <3>3. id \in Int /\ content \in BOOLEAN /\ start \in Word /\ end \in Word
      BY <2>3, <2>4, <3>1, <3>2
    <3> HIDE DEF id, content, start, end
    <3>4. [on |-> TRUE, start |-> start, outputId |-> id, end |-> end, fullContent |-> content]
            \in WatchConfig
      BY <3>3 DEF WatchConfig
    <3> USE DEF id, content, start, end
    <3> HIDE DEF full
    <3> QED BY <3>4
  <2> HIDE DEF new
  <2> QED BY <2>1, <2>5, SetWatch
<1>2. CASE ~right
  BY <1>2, Unchanged DEF ParseWatchConfig
<1> QED BY <1>1, <1>2

------------------------------------------------------------------------------------
\* The first configuration, and those that are put together

LEMMA InitialIsConfig == InitialConfig(DefaultDir) \in Config
<1> DEFINE off == [on |-> FALSE, depth |-> 0]
           events == {"alloc", "free", "launch"}
           analyses == {"leaks"}
           levels == {"op"}
           none == {}
           steps == <<>>
           config == [stepList           |-> steps,
                      enableCompare      |-> FALSE,
                      cStack             |-> off,
                      pyStack            |-> off,
                      inputCorrectPaths  |-> FALSE,
                      outputCorrectPaths |-> TRUE,
                      watchConfig        |-> NotWatched,
                      levelType          |-> levels,
                      eventType          |-> events,
                      analysisType       |-> analyses,
                      logLevel           |-> "warn",
                      collectMode        |-> "immediate",
                      outputDir          |-> DefaultDir,
                      dataFormat         |-> "csv",
                      collectAllNpu      |-> TRUE,
                      npuSlots           |-> none,
                      isEffective        |-> FALSE]
<1>1. off \in CallStack
  BY ParserAssumption DEF CallStack
<1>2. NotWatched \in WatchConfig
  <2>1. NoNumber \in Int
    BY DEF NoNumber
  <2>2. Empty \in Word
    BY DEF Word
  <2> QED BY <2>1, <2>2 DEF NotWatched, WatchConfig
<1>3. /\ events \in SUBSET EventType /\ analyses \in SUBSET AnalysisType
      /\ levels \in SUBSET LevelType
  BY DEF EventType, AnalysisType, LevelType
<1>4. none \in SUBSET (0..(SlotBits - 1)) /\ steps \in Seq(Nat) /\ DefaultDir \in Dirs
  BY ConfigurationAssumption
<1>5. "warn" \in LogLv /\ "immediate" \in CollectMode /\ "csv" \in DataFormat
  BY DEF LogLv, CollectMode, DataFormat
<1>6. InitialConfig(DefaultDir) = config
  BY DEF InitialConfig
<1> HIDE DEF off, events, analyses, levels, none, steps
<1>7. config \in Config
  BY <1>1, <1>2, <1>3, <1>4, <1>5 DEF Config, WatchConfig
<1> QED BY <1>6, <1>7

LEMMA AfterInitIsConfig ==
    ASSUME NEW old \in Config
    PROVE  GetConfigAfterInit(old) \in Config
<1> DEFINE config == InitialConfig(DefaultDir)
<1>1. config \in Config
  BY InitialIsConfig
<1>2. /\ old.isEffective \in BOOLEAN /\ old.dataFormat \in DataFormat /\ old.outputDir \in Dirs
      /\ old.watchConfig \in WatchConfig
  BY DEF Config, WatchConfig
<1>3. GetConfigAfterInit(old) = [config EXCEPT !.collectMode = "deferred",
                                      !.isEffective = old.isEffective,
                                      !.dataFormat  = old.dataFormat,
                                      !.watchConfig = old.watchConfig,
                                      !.outputDir   = old.outputDir]
  BY DEF GetConfigAfterInit
<1> HIDE DEF config
<1>4. "deferred" \in CollectMode
  BY DEF CollectMode
<1> DEFINE c1 == [config EXCEPT !.collectMode = "deferred"]
           c2 == [c1 EXCEPT !.isEffective = old.isEffective]
           c3 == [c2 EXCEPT !.dataFormat = old.dataFormat]
           c4 == [c3 EXCEPT !.watchConfig = old.watchConfig]
           c5 == [c4 EXCEPT !.outputDir = old.outputDir]
<1>5. c1 \in Config
  <2>1. SameSteps(config, c1)
    BY <1>1, <1>4, SetChoices
  <2> QED BY <2>1 DEF SameSteps
<1>6. GetConfigAfterInit(old) = c5
  BY <1>3
<1> HIDE DEF c1
<1>7. c2 \in Config
  <2>1. SameSteps(c1, c2)
    BY <1>2, <1>5, SetFlags
  <2> QED BY <2>1 DEF SameSteps
<1> HIDE DEF c2
<1>8. c3 \in Config
  <2>1. SameSteps(c2, c3)
    BY <1>2, <1>7, SetChoices
  <2> QED BY <2>1 DEF SameSteps
<1> HIDE DEF c3
<1>9. c4 \in Config
  <2>1. SameSteps(c3, c4)
    BY <1>2, <1>8, SetWatch
  <2> QED BY <2>1 DEF SameSteps
<1> HIDE DEF c4
<1>10. c5 \in Config
  <2>1. SameSteps(c4, c5)
    BY <1>2, <1>9, SetDir
  <2> QED BY <2>1 DEF SameSteps
<1> QED BY <1>6, <1>10

\* The match lists only bring events, and nothing else of a configuration.
LEMMA BringsEvents ==
    ASSUME NEW types
    PROVE  /\ Brought(EventsMatchLists, types) \subseteq EventType
           /\ Brought(AnalysisMatchLists, types) \subseteq EventType
  BY DEF Brought, EventsMatchLists, AnalysisMatchLists, EventType

LEMMA ImplIsConfig ==
    ASSUME NEW config \in Config
    PROVE  SameSteps(config, SetConfigImpl(config))
<1> DEFINE events == config.eventType \cup Brought(EventsMatchLists, config.eventType)
           new == [config EXCEPT !.eventType = events]
           all == events \cup Brought(AnalysisMatchLists, config.analysisType)
<1>1. config.eventType \subseteq EventType
  BY DEF Config
<1>2. events \in SUBSET EventType /\ all \in SUBSET EventType
  BY <1>1, BringsEvents
<1>3. SetEventDefaultConfig(config) = new
  BY DEF SetEventDefaultConfig
<1> HIDE DEF events
<1>4. SameSteps(config, new)
  BY <1>2, SetChoices
<1>5. new.eventType = events /\ new.analysisType = config.analysisType
  BY DEF Config
<1>6. SetAnalysisDefaultConfig(new) = [new EXCEPT !.eventType = all]
  BY <1>5 DEF SetAnalysisDefaultConfig
<1> HIDE DEF new, all
<1>7. SameSteps(new, [new EXCEPT !.eventType = all])
  BY <1>2, <1>4, SetChoices DEF SameSteps
<1> QED BY <1>3, <1>4, <1>6, <1>7 DEF SetConfigImpl, SameSteps

\* Marking a configuration as effective, or writing it into the file, keeps its type.
LEMMA EffectiveIsConfig ==
    ASSUME NEW config \in Config
    PROVE  SameSteps(config, SetEffectiveConfig(config)) /\ Saved(config) \in Config
<1>1. SameSteps(config, SetEffectiveConfig(config))
  BY SetFlags DEF SetEffectiveConfig
<1>2. SameSteps(config, [config EXCEPT !.inputCorrectPaths = FALSE])
  BY SetFlags
<1> DEFINE new == [config EXCEPT !.inputCorrectPaths = FALSE]
<1>3. new \in Config
  BY <1>2 DEF SameSteps
<1>4. Saved(config) = [new EXCEPT !.outputCorrectPaths = FALSE]
  BY DEF Saved
<1> HIDE DEF new
<1>5. SameSteps(new, [new EXCEPT !.outputCorrectPaths = FALSE])
  BY <1>3, SetFlags
<1> QED BY <1>1, <1>4, <1>5 DEF SameSteps

\* A configuration whose fields are those of some configurations is one.
LEMMA MergedIsConfig ==
    ASSUME NEW config \in Config, NEW changed, \A c \in changed : c \in Config
    PROVE  Merged(config, changed) \in Config
<1> DEFINE by(field) == {other \in changed : other[field] # config[field]}
           One(field) == IF by(field) = {} THEN config[field]
                              ELSE (CHOOSE other \in by(field) : TRUE)[field]
           fields == DOMAIN config
           merged == [field \in fields |-> One(field)]
<1>1. Merged(config, changed) = merged
  BY DEF Merged
<1>2. fields = ConfigFields
  BY DEF Config, ConfigFields
<1>3. ASSUME NEW field \in fields PROVE \E c \in Config : merged[field] = c[field]
  <2>1. CASE by(field) = {}
    BY <2>1
  <2>2. CASE by(field) # {}
    <3> DEFINE other == CHOOSE other \in by(field) : TRUE
    <3>1. other \in by(field)
      BY <2>2
    <3>2. other \in Config
      BY <3>1
    <3>3. merged[field] = other[field]
      BY <2>2
    <3> HIDE DEF other
    <3> QED BY <3>2, <3>3
  <2> QED BY <2>1, <2>2
<1> HIDE DEF One
<1>4. merged = [field \in ConfigFields |-> merged[field]]
  BY <1>2
<1>5. \A field \in ConfigFields : \E c \in Config : merged[field] = c[field]
  BY <1>2, <1>3
<1> HIDE DEF merged
<1>6. ASSUME NEW S, NEW field \in ConfigFields, \A c \in Config : c[field] \in S
      PROVE  merged[field] \in S
  BY <1>5, <1>6
<1>7. /\ merged.stepList \in Seq(Nat) /\ merged.enableCompare \in BOOLEAN
      /\ merged.cStack \in CallStack /\ merged.pyStack \in CallStack
      /\ merged.inputCorrectPaths \in BOOLEAN /\ merged.outputCorrectPaths \in BOOLEAN
  <2>1. \A c \in Config : /\ c.stepList \in Seq(Nat) /\ c.enableCompare \in BOOLEAN
                          /\ c.cStack \in CallStack /\ c.pyStack \in CallStack
                          /\ c.inputCorrectPaths \in BOOLEAN /\ c.outputCorrectPaths \in BOOLEAN
    BY DEF Config
  <2> QED BY <2>1, <1>5 DEF ConfigFields
<1>8. /\ merged.watchConfig \in WatchConfig /\ merged.levelType \in SUBSET LevelType
      /\ merged.eventType \in SUBSET EventType /\ merged.analysisType \in SUBSET AnalysisType
      /\ merged.logLevel \in LogLv /\ merged.collectMode \in CollectMode
  <2>1. \A c \in Config :
            /\ c.watchConfig \in WatchConfig /\ c.levelType \in SUBSET LevelType
            /\ c.eventType \in SUBSET EventType /\ c.analysisType \in SUBSET AnalysisType
            /\ c.logLevel \in LogLv /\ c.collectMode \in CollectMode
    BY DEF Config, WatchConfig
  <2> QED BY <2>1, <1>5 DEF ConfigFields
<1>9. /\ merged.outputDir \in Dirs /\ merged.dataFormat \in DataFormat
      /\ merged.collectAllNpu \in BOOLEAN /\ merged.npuSlots \in SUBSET (0..(SlotBits - 1))
      /\ merged.isEffective \in BOOLEAN
  <2>1. \A c \in Config :
            /\ c.outputDir \in Dirs /\ c.dataFormat \in DataFormat
            /\ c.collectAllNpu \in BOOLEAN /\ c.npuSlots \in SUBSET (0..(SlotBits - 1))
            /\ c.isEffective \in BOOLEAN
    BY DEF Config
  <2> QED BY <2>1, <1>5 DEF ConfigFields
<1>10. merged \in Config
  BY <1>4, <1>7, <1>8, <1>9 DEF Config, ConfigFields, WatchConfig
<1> QED BY <1>1, <1>10

------------------------------------------------------------------------------------
\* Options and entries

\* A configuration as the command line has it: at most MaxSteps steps.
FewSteps(config) == config \in Config /\ Len(config.stepList) <= MaxSteps

\* What leaves the steps alone leaves them few; --steps does not read too many.
LEMMA SameIsFew ==
    ASSUME NEW config, FewSteps(config), NEW new, SameSteps(config, new)
    PROVE  FewSteps(new)
  BY DEF FewSteps, SameSteps

LEMMA StepsAreFew ==
    ASSUME NEW tokens \in Seq(Int), NEW config, FewSteps(config)
    PROVE  FewSteps(ParseSelectSteps(tokens, config).config)
<1>1. config \in Config
  BY DEF FewSteps
<1>2. CASE ParseSelectSteps(tokens, config) = Reject(config)
  <2>1. SameSteps(config, Reject(config).config)
    BY <1>1, Unchanged
  <2> QED BY <1>2, <2>1, SameIsFew
<1>3. ASSUME NEW steps \in Seq(Nat), Len(steps) <= MaxSteps,
             ParseSelectSteps(tokens, config) = Accept([config EXCEPT !.stepList = steps])
      PROVE  FewSteps(ParseSelectSteps(tokens, config).config)
  <2>1. ParseSelectSteps(tokens, config).config = [config EXCEPT !.stepList = steps]
    BY <1>3 DEF Accept
  <2>2. [config EXCEPT !.stepList = steps] \in Config
    BY <1>1 DEF Config
  <2>3. [config EXCEPT !.stepList = steps].stepList = steps
    BY <1>1 DEF Config
  <2> QED BY <1>3, <2>1, <2>2, <2>3 DEF FewSteps
<1> QED BY <1>1, <1>2, <1>3, StepsRead

\* An option of the command line, an entry of a dictionary, a whole dictionary.
LEMMA OptionParsed ==
    ASSUME NEW opt, NEW param, Fits(opt, param), NEW inputs, NEW config, FewSteps(config)
    PROVE  FewSteps(ParseUserCommand(opt, param, inputs, config).config)
<1> DEFINE parsed == ParseUserCommand(opt, param, inputs, config)
<1>1. config \in Config
  BY DEF FewSteps
<1>2. SameSteps(config, Accept(config).config) /\ SameSteps(config, Reject(config).config)
  BY <1>1, Unchanged DEF Accept
<1>3. SameSteps(config, Accept([config EXCEPT !.enableCompare = TRUE]).config)
  BY <1>1, SetFlags DEF Accept
<1>4. SameSteps(config, ParseInputPaths(param, inputs, config).config)
  <2>1. SameSteps(config, Accept([config EXCEPT !.inputCorrectPaths = TRUE]).config)
    BY <1>1, SetFlags DEF Accept
  <2> QED BY <1>2, <2>1, Zenon DEF ParseInputPaths
<1>5. CASE opt = "steps"
  <2>1. param \in Seq(Int)
    BY <1>5 DEF Fits
  <2>2. parsed = ParseSelectSteps(param, config)
    BY <1>5 DEF ParseUserCommand
  <2> QED BY <2>1, <2>2, StepsAreFew
<1>6. opt = "call-stack" => SameSteps(config, ParseCallstack(param, config).config)
  BY <1>1, CallStackParsed DEF Fits
<1>7. opt = "watch" => SameSteps(config, ParseWatchConfig(param, config).config)
  BY <1>1, WatchParsed DEF Fits
<1>8. opt = "output" => SameSteps(config, ParseOutputPath(param, config).config)
  <2> HAVE opt = "output"
  <2>1. param.dir \in Dirs
    BY DEF Fits
  <2> QED BY <1>1, <2>1, OutputParsed
<1>9. CASE opt # "steps"
  <2> DEFINE Good(read) == SameSteps(config, read.config)
  <2>2. /\ Good(ParseAnalysis(param, config)) /\ Good(ParseEventTraceType(param, config))
        /\ Good(ParseLogLv(param, config)) /\ Good(ParseDataFormat(param, config))
        /\ Good(ParseCollectMode(param, config))
    BY <1>1, ChoicesParsed
  <2>3. Good(ParseDataLevel(param, config)) /\ Good(ParseDevice(param, config))
    BY <1>1, LevelParsed, DeviceParsed
  <2>4. /\ Good(Accept(config)) /\ Good(Reject(config))
        /\ Good(Accept([config EXCEPT !.enableCompare = TRUE]))
        /\ Good(ParseInputPaths(param, inputs, config))
    BY <1>2, <1>3, <1>4
  <2>5. /\ opt = "call-stack" => Good(ParseCallstack(param, config))
        /\ opt = "watch" => Good(ParseWatchConfig(param, config))
        /\ opt = "output" => Good(ParseOutputPath(param, config))
    BY <1>6, <1>7, <1>8
  <2> HIDE DEF Good
  <2>6. Good(parsed)
    BY <1>9, <2>2, <2>3, <2>4, <2>5, Zenon DEF ParseUserCommand
  <2>1. SameSteps(config, parsed.config)
    BY <2>6 DEF Good
  <2> HIDE DEF Good
  <2> QED BY <2>1, SameIsFew
<1> QED BY <1>5, <1>9

LEMMA EntryParsed ==
    ASSUME NEW key, NEW param, Fits(key, param), NEW config \in Config
    PROVE  ParseEntry(key, param, config).config \in Config
<1>1. SameSteps(config, Reject(config).config)
  BY Unchanged
<1>2. key = "call_stack" => SameSteps(config, ParseCallstack(param, config).config)
  BY CallStackParsed DEF Fits
<1>3. key = "watch" => SameSteps(config, ParseWatchConfig(param, config).config)
  BY WatchParsed DEF Fits
<1>4. key = "output" => SameSteps(config, ParseOutputPath(param, config).config)
  <2> HAVE key = "output"
  <2>1. param.dir \in Dirs
    BY DEF Fits
  <2> QED BY <2>1, OutputParsed
<1>5. SameSteps(config, ParseEntry(key, param, config).config)
  BY <1>1, <1>2, <1>3, <1>4, ChoicesParsed, LevelParsed, DeviceParsed, Zenon DEF ParseEntry
<1> QED BY <1>5 DEF SameSteps

LEMMA DictionaryIsConfig ==
    ASSUME NEW dictionary \in Dictionaries, NEW old \in Config
    PROVE  SetConfig(dictionary, old) \in Config
<1> DEFINE new     == GetConfigAfterInit(old)
           entries == {ParseEntry(key, dictionary[key], new).config :
                          key \in Parsed(dictionary, old)}
<1>1. new \in Config
  BY AfterInitIsConfig
<1>2. SetConfig(dictionary, old) = SetEffectiveConfig(SetConfigImpl(Merged(new, entries)))
  BY DEF SetConfig
<1> HIDE DEF new
<1>3. \A c \in entries : c \in Config
  <2> SUFFICES ASSUME NEW key \in Parsed(dictionary, old)
               PROVE  ParseEntry(key, dictionary[key], new).config \in Config
    OBVIOUS
  <2>1. Fits(key, dictionary[key])
    BY ConfigurationAssumption DEF Parsed
  <2> QED BY <1>1, <2>1, EntryParsed
<1> HIDE DEF entries
<1> DEFINE merged == Merged(new, entries)
<1>4. merged \in Config
  BY <1>1, <1>3, MergedIsConfig
<1> HIDE DEF merged
<1>5. SetConfigImpl(merged) \in Config
  BY <1>4, ImplIsConfig DEF SameSteps
<1>6. SetEffectiveConfig(SetConfigImpl(merged)) \in Config
  BY <1>5, EffectiveIsConfig DEF SameSteps
<1> QED BY <1>2, <1>6 DEF merged

------------------------------------------------------------------------------------
\* Processes

Process ==
    [up : BOOLEAN, env : Files \cup {NoFile}, project : Procs, loaded : BOOLEAN,
     config : Config, managed : BOOLEAN, status : Status, reporting : BOOLEAN,
     analyzers : SUBSET AnalysisType,
     dump : [format : DataFormat, effective : BOOLEAN],
     output : [made : BOOLEAN, dir : Dirs, effective : BOOLEAN],
     aclInit : BOOLEAN, torch : BOOLEAN, collector : BOOLEAN, hook : BOOLEAN,
     lostHooks : Nat, pyTrace : BOOLEAN, logLevel : LogLv]

\* One field of a process is replaced.
LEMMA SetBits ==
    ASSUME NEW self \in Process, NEW v \in BOOLEAN
    PROVE  /\ [self EXCEPT !.up = v] \in Process /\ [self EXCEPT !.loaded = v] \in Process
           /\ [self EXCEPT !.managed = v] \in Process /\ [self EXCEPT !.reporting = v] \in Process
           /\ [self EXCEPT !.aclInit = v] \in Process /\ [self EXCEPT !.torch = v] \in Process
           /\ [self EXCEPT !.collector = v] \in Process /\ [self EXCEPT !.hook = v] \in Process
           /\ [self EXCEPT !.pyTrace = v] \in Process
<1>1. /\ [self EXCEPT !.up = v] \in Process /\ [self EXCEPT !.loaded = v] \in Process
      /\ [self EXCEPT !.managed = v] \in Process /\ [self EXCEPT !.reporting = v] \in Process
  BY DEF Process
<1>2. /\ [self EXCEPT !.aclInit = v] \in Process /\ [self EXCEPT !.torch = v] \in Process
      /\ [self EXCEPT !.collector = v] \in Process /\ [self EXCEPT !.hook = v] \in Process
      /\ [self EXCEPT !.pyTrace = v] \in Process
  BY DEF Process
<1> QED BY <1>1, <1>2

LEMMA SetValues ==
    ASSUME NEW self \in Process, NEW v
    PROVE  /\ v \in Files \cup {NoFile} => [self EXCEPT !.env = v] \in Process
           /\ v \in Config => [self EXCEPT !.config = v] \in Process
           /\ v \in Status => [self EXCEPT !.status = v] \in Process
           /\ v \in SUBSET AnalysisType => [self EXCEPT !.analyzers = v] \in Process
           /\ v \in Nat => [self EXCEPT !.lostHooks = v] \in Process
           /\ v \in LogLv => [self EXCEPT !.logLevel = v] \in Process
<1>1. /\ v \in Files \cup {NoFile} => [self EXCEPT !.env = v] \in Process
      /\ v \in Config => [self EXCEPT !.config = v] \in Process
      /\ v \in Status => [self EXCEPT !.status = v] \in Process
  BY DEF Process
<1>2. /\ v \in SUBSET AnalysisType => [self EXCEPT !.analyzers = v] \in Process
      /\ v \in Nat => [self EXCEPT !.lostHooks = v] \in Process
      /\ v \in LogLv => [self EXCEPT !.logLevel = v] \in Process
  BY DEF Process
<1> QED BY <1>1, <1>2

Dumps   == [format : DataFormat, effective : BOOLEAN]
Outputs == [made : BOOLEAN, dir : Dirs, effective : BOOLEAN]

\* The format and the directory of the output.
LEMMA SetRecords ==
    ASSUME NEW self \in Process, NEW v
    PROVE  /\ v \in Dumps => [self EXCEPT !.dump = v] \in Process
           /\ v \in Outputs => [self EXCEPT !.output = v] \in Process
  BY DEF Process, Dumps, Outputs

\* What the calls make of a process, and a new one.
LEMMA ManagedIsProcess ==
    ASSUME NEW self \in Process
    PROVE  Manage(self) \in Process
<1>1. CASE self.managed
  BY <1>1 DEF Manage
<1>2. CASE ~self.managed
  <2> DEFINE status == IF /\ self.config.collectMode = "immediate"
                          /\ self.config.isEffective
                       THEN "IN_TRACING" ELSE "NOT_IN_TRACING"
             new == [self EXCEPT !.managed = TRUE]
  <2>1. Manage(self) = [new EXCEPT !.status = status]
    BY <1>2 DEF Manage
  <2>2. status \in Status
    BY DEF Status
  <2>3. new \in Process
    BY SetBits
  <2> HIDE DEF status, new
  <2> QED BY <2>1, <2>2, <2>3, SetValues
<1> QED BY <1>1, <1>2

LEMMA OutputIsProcess ==
    ASSUME NEW self \in Process
    PROVE  MakeOutput(self) \in Process
<1>1. self.config \in Config
  BY DEF Process
<1>2. CASE self.output.made
  BY <1>2 DEF MakeOutput
<1>3. CASE ~self.output.made
  <2> DEFINE output == [made |-> TRUE, dir |-> self.config.outputDir,
                        effective |-> self.config.isEffective]
  <2>1. MakeOutput(self) = [self EXCEPT !.output = output]
    BY <1>3 DEF MakeOutput
  <2>2. output \in Outputs
    BY <1>1 DEF Config, Outputs
  <2> HIDE DEF output
  <2> QED BY <2>1, <2>2, SetRecords
<1> QED BY <1>2, <1>3

LEMMA ReportedIsProcess ==
    ASSUME NEW self \in Process
    PROVE  /\ Analyzers(self.config) \in SUBSET AnalysisType
           /\ Report(self) \in Process
<1>1. self.config \in Config
  BY DEF Process
<1>2. Analyzers(self.config) \in SUBSET AnalysisType
  BY DEF Analyzers, AnalysisType
<1>3. CASE self.reporting
  BY <1>2, <1>3 DEF Report
<1>4. CASE ~self.reporting
  <2> DEFINE dump == [format |-> self.config.dataFormat, effective |-> self.config.isEffective]
             new == [self EXCEPT !.reporting = TRUE]
             analyzers == Analyzers(self.config)
             then == [new EXCEPT !.analyzers = analyzers]
  <2>1. Report(self) = MakeOutput([then EXCEPT !.dump = dump])
    BY <1>4 DEF Report
  <2>2. dump \in Dumps
    BY <1>1 DEF Config, Dumps
  <2>3. new \in Process
    BY SetBits
  <2> HIDE DEF dump, new, analyzers
  <2>4. then \in Process
    BY <1>2, <2>3, SetValues DEF analyzers
  <2> HIDE DEF then
  <2>5. [then EXCEPT !.dump = dump] \in Process
    BY <2>2, <2>4, SetRecords
  <2> QED BY <1>2, <2>1, <2>5, OutputIsProcess
<1> QED BY <1>2, <1>3, <1>4

LEMMA HookedIsProcess ==
    ASSUME NEW self \in Process, NEW on
    PROVE  SwitchHook(self, on) \in Process
<1>1. DisableHook(self) \in Process
  BY SetBits DEF DisableHook
<1>2. EnableHook(self) \in Process
  <2> DEFINE lost == IF self.hook THEN self.lostHooks + 1 ELSE self.lostHooks
             new == [self EXCEPT !.hook = TRUE]
  <2>1. self.lostHooks \in Nat
    BY DEF Process
  <2>2. lost \in Nat
    BY <2>1
  <2>3. EnableHook(self) = [new EXCEPT !.lostHooks = lost]
    BY DEF EnableHook, Process
  <2>4. new \in Process
    BY SetBits
  <2> HIDE DEF new, lost
  <2> QED BY <2>2, <2>3, <2>4, SetValues
<1> QED BY <1>1, <1>2, Zenon DEF SwitchHook

LEMMA AnalysisIsProcess ==
    ASSUME NEW self \in Process
    PROVE  UpdateAnalysisType(self) \in Process
<1> DEFINE analyzers == Analyzers(self.config)
           new == Report(self)
<1>1. new \in Process /\ analyzers \in SUBSET AnalysisType
  BY ReportedIsProcess
<1>2. UpdateAnalysisType(self) = [new EXCEPT !.analyzers = analyzers]
  BY DEF UpdateAnalysisType
<1> HIDE DEF new, analyzers
<1> QED BY <1>1, <1>2, SetValues

LEMMA NewIsProcess ==
    ASSUME NEW p \in Procs, NEW env \in Files \cup {NoFile}
    PROVE  NewProcess(p, env) \in Process
<1> DEFINE config == InitialConfig(DefaultDir)
           dump == [format |-> "csv", effective |-> FALSE]
           output == [made |-> FALSE, dir |-> DefaultDir, effective |-> FALSE]
           none == {}
<1>1. config \in Config /\ none \in SUBSET AnalysisType
  BY InitialIsConfig
<1>2. dump \in Dumps /\ output \in Outputs
  BY ConfigurationAssumption DEF Dumps, Outputs, DataFormat
<1>3. "NOT_IN_TRACING" \in Status /\ "warn" \in LogLv
  BY DEF Status, LogLv
<1>4. NewProcess(p, env) =
    [up |-> TRUE, env |-> env, project |-> p,
     loaded |-> FALSE, config |-> config, managed |-> FALSE,
     status |-> "NOT_IN_TRACING", reporting |-> FALSE, analyzers |-> none,
     dump |-> dump, output |-> output,
     aclInit |-> FALSE, torch |-> FALSE, collector |-> FALSE,
     hook |-> FALSE, lostHooks |-> 0, pyTrace |-> FALSE, logLevel |-> "warn"]
  BY DEF NewProcess
<1> HIDE DEF config, dump, output, none
<1> QED BY <1>1, <1>2, <1>3, <1>4 DEF Process, Dumps, Outputs

------------------------------------------------------------------------------------
\* The state

Commands == [phase : {"none", "options", "ended", "compared", "executed"},
             config : Config, inputs : Nat]
Places   == {"idle", "write", "aten", "atenCall", "hook", "hookCall"}
Calls    == {"none", "config", "start", "stop", "aclInit"}
Caller   == [at : Places, call : Calls, on : BOOLEAN, alone : BOOLEAN]

CommandTyped   == command \in Commands /\ FewSteps(command.config)
ProcessesTyped == process \in [Procs -> Process]
CallersTyped   == caller \in [Procs -> [Callers -> Caller]]
FilesTyped ==
    /\ DOMAIN files = DOMAIN writer /\ DOMAIN files \subseteq Files \ blocked
    /\ \A f \in DOMAIN files : files[f] \in Config /\ writer[f] \in Files
    /\ blocked \subseteq Files

Types ==
    /\ CommandTyped /\ ProcessesTyped /\ CallersTyped /\ FilesTyped
    /\ torn \subseteq Files /\ calls \in 0..MaxCalls

\* These are the types that TypeOK names.
LEMMA TypesImplyTypeOK == Types => TypeOK
<1> SUFFICES ASSUME Types PROVE TypeOK
  OBVIOUS
<1>1. /\ command \in [phase : {"none", "options", "ended", "compared", "executed"},
                      config : Config, inputs : Nat]
      /\ Len(command.config.stepList) <= MaxSteps
  BY DEF Types, CommandTyped, Commands, FewSteps
<1>2. \A p \in Procs : process[p] \in Process
  BY DEF Types, ProcessesTyped
<1>3. caller \in [Procs -> [Callers -> Caller]]
  BY DEF Types, CallersTyped
<1>4. /\ DOMAIN files = DOMAIN writer /\ DOMAIN files \subseteq Files \ blocked
      /\ \A f \in DOMAIN files : files[f] \in Config /\ writer[f] \in Files
      /\ torn \subseteq Files /\ blocked \subseteq Files
      /\ calls \in 0..MaxCalls
  BY DEF Types, FilesTyped
<1> QED BY <1>1, <1>2, <1>3, <1>4, Zenon DEF TypeOK, Process, Caller, Places, Calls

\* A process is replaced; a caller moves; a file is opened or written.
LEMMA ProcessPut ==
    ASSUME ProcessesTyped, NEW p \in Procs, NEW new \in Process,
           process' = [process EXCEPT ![p] = new]
    PROVE  ProcessesTyped'
  BY DEF ProcessesTyped

LEMMA CallerTyped ==
    ASSUME CallersTyped, NEW p \in Procs, NEW c \in Callers, NEW call \in Calls,
           NEW at \in Places,
           Begin(p, c, call, at) \/ Goto(p, c, at) \/ Return(p, c)
    PROVE  CallersTyped'
<1>1. Idle \in Caller /\ [Idle EXCEPT !.at = at, !.call = call] \in Caller
  BY DEF Idle, Caller, Places, Calls
<1>2. CASE Begin(p, c, call, at)
  <2> DEFINE free == caller[p][Other(c)].at = "idle"
             own == [Idle EXCEPT !.at = at, !.call = call, !.alone = free]
             beside(x) == [caller[p][x] EXCEPT !.alone = caller[p][x].alone /\ free]
             both == [x \in Callers |-> IF x = c THEN own ELSE beside(x)]
  <2>1. caller' = [caller EXCEPT ![p] = both]
    <3>1. caller' = [caller EXCEPT
            ![p] = [x \in Callers |->
                       IF x = c THEN [Idle EXCEPT !.at = at, !.call = call, !.alone = free]
                       ELSE [caller[p][x] EXCEPT !.alone = @ /\ free]]]
      BY <1>2 DEF Begin
    <3>2. \A x \in Callers : [caller[p][x] EXCEPT !.alone = @ /\ free] = beside(x)
      <4> HIDE DEF free
      <4> QED BY DEF CallersTyped, Caller
    <3> HIDE DEF free
    <3> QED BY <3>1, <3>2
  <2>2. free \in BOOLEAN
    OBVIOUS
  <2> HIDE DEF free
  <2>3. own \in Caller
    BY <2>2 DEF Idle, Caller, Places, Calls
  <2>4. ASSUME NEW x \in Callers PROVE beside(x) \in Caller
    <3>1. caller[p][x] \in Caller
      BY DEF CallersTyped
    <3>2. (caller[p][x].alone /\ free) \in BOOLEAN
      BY Zenon
    <3> DEFINE alone == caller[p][x].alone /\ free
    <3> HIDE DEF alone
    <3>3. alone \in BOOLEAN
      BY <3>2 DEF alone
    <3>4. [caller[p][x] EXCEPT !.alone = alone] \in Caller
      BY <3>1, <3>3 DEF Caller
    <3> QED BY <3>4 DEF alone
  <2> HIDE DEF own, beside
  <2>5. both \in [Callers -> Caller]
    BY <2>3, <2>4
  <2> HIDE DEF both
  <2> QED BY <2>1, <2>5 DEF CallersTyped
<1>3. CASE Goto(p, c, at)
  <2>1. caller[p] \in [Callers -> Caller] /\ caller[p][c] \in Caller
    BY DEF CallersTyped
  <2>2. [caller[p][c] EXCEPT !.at = at] \in Caller
    BY <2>1 DEF Caller
  <2>3. [caller[p] EXCEPT ![c] = [caller[p][c] EXCEPT !.at = at]] \in [Callers -> Caller]
    BY <2>1, <2>2
  <2>4. caller' = [caller EXCEPT ![p] = [caller[p] EXCEPT ![c] = [caller[p][c] EXCEPT !.at = at]]]
    BY <1>3 DEF Goto, CallersTyped
  <2> QED BY <2>3, <2>4 DEF CallersTyped
<1>4. CASE Return(p, c)
  <2>1. caller[p] \in [Callers -> Caller]
    BY DEF CallersTyped
  <2>2. caller' = [caller EXCEPT ![p] = [caller[p] EXCEPT ![c] = Idle]]
    BY <1>4 DEF Return, CallersTyped
  <2> QED BY <1>1, <2>1, <2>2 DEF CallersTyped
<1> QED BY <1>2, <1>3, <1>4

LEMMA TornTyped ==
    ASSUME Types, NEW p \in Procs, OpenFile(p)
    PROVE  torn' \subseteq Files
<1>1. process[p].project \in Procs
  BY DEF Types, ProcessesTyped, Process
<1> QED BY <1>1 DEF OpenFile, Files, Types

LEMMA WrittenTyped ==
    ASSUME Types, NEW p \in Procs, WriteFile(p), UNCHANGED blocked
    PROVE  FilesTyped' /\ torn' \subseteq Files
<1> DEFINE file == process[p].project
           new == Saved(process[p].config)
<1>1. process[p] \in Process
  BY DEF Types, ProcessesTyped
<1>2. file \in Procs /\ process[p].config \in Config
  BY <1>1 DEF Process
<1>3. new \in Config
  BY <1>2, EffectiveIsConfig
<1>4. /\ files' = IF file \in blocked THEN files
                  ELSE [f \in DOMAIN files \cup {file} |->
                             IF f = file THEN new ELSE files[f]]
      /\ writer' = [f \in DOMAIN files' |-> IF f = file THEN p ELSE writer[f]]
      /\ torn' = torn \ {file}
  BY DEF WriteFile
<1> HIDE DEF file, new
<1>5. torn' \subseteq Files
  BY <1>4 DEF Types
<1>6. /\ DOMAIN files' \subseteq Files \ blocked
      /\ DOMAIN files' \subseteq DOMAIN files \cup {file}
      /\ \A f \in DOMAIN files' : files'[f] \in Config
  BY <1>2, <1>3, <1>4 DEF Types, FilesTyped, Files
<1>7. DOMAIN writer' = DOMAIN files' /\ \A f \in DOMAIN files' : writer'[f] \in Files
  BY <1>4, <1>6 DEF Types, FilesTyped, Files
<1> QED BY <1>5, <1>6, <1>7 DEF FilesTyped, Types

------------------------------------------------------------------------------------
\* The steps

LEMMA Counts ==
    ASSUME Types, Counted
    PROVE  calls' \in 0..MaxCalls
  BY ConfigurationAssumption DEF Types, Counted

\* The first state, and the steps of the command line.
LEMMA InitTypes == Init => Types
<1> SUFFICES ASSUME Init PROVE Types
  OBVIOUS
<1> DEFINE config == InitialConfig(DefaultDir)
<1>1. PICK byHand \in BOOLEAN :
          /\ command = [phase  |-> IF byHand THEN "none" ELSE "options",
                        config |-> config, inputs |-> 0]
          /\ process = [p \in Procs |->
                [NewProcess(p, NoFile) EXCEPT !.up = byHand /\ p = First]]
  BY DEF Init
<1>2. config \in Config /\ config.stepList = <<>>
  BY InitialIsConfig DEF InitialConfig
<1> HIDE DEF config
<1>3. CommandTyped
  <2>1. Len(config.stepList) = 0
    BY <1>2
  <2>2. command \in Commands
    BY <1>1, <1>2 DEF Commands
  <2>3. command.config = config
    BY <1>1
  <2> QED BY <1>2, <2>1, <2>2, <2>3, ParserAssumption DEF CommandTyped, FewSteps
<1>4. ProcessesTyped
  <2>1. ASSUME NEW p \in Procs
        PROVE  [NewProcess(p, NoFile) EXCEPT !.up = byHand /\ p = First] \in Process
    <3> DEFINE first == byHand /\ p = First
    <3>1. first \in BOOLEAN
      BY Zenon
    <3>2. NewProcess(p, NoFile) \in Process
      BY NewIsProcess
    <3> HIDE DEF first
    <3>3. [NewProcess(p, NoFile) EXCEPT !.up = first] \in Process
      BY <3>1, <3>2, SetBits
    <3> QED BY <3>3 DEF first
  <2> QED BY <1>1, <2>1 DEF ProcessesTyped
<1>5. CallersTyped
  <2>1. Idle \in Caller
    BY DEF Idle, Caller, Places, Calls
  <2> QED BY <2>1 DEF Init, CallersTyped
<1>6. FilesTyped
  <2>1. blocked \subseteq Files
    BY ConfigurationAssumption DEF Init, Files
  <2>2. DOMAIN files = {} /\ DOMAIN writer = {}
    BY DEF Init
  <2> QED BY <2>1, <2>2 DEF FilesTyped
<1>7. torn \subseteq Files /\ calls \in 0..MaxCalls
  BY ConfigurationAssumption DEF Init
<1> QED BY <1>3, <1>4, <1>5, <1>6, <1>7 DEF Types

LEMMA OptionTyped ==
    ASSUME Types, NEW option \in Options, ReadOption(option[1], option[2])
    PROVE  Types'
<1> DEFINE opt    == option[1]
           param  == option[2]
           parsed == ParseUserCommand(opt, param, command.inputs, command.config)
           phase  == IF parsed.ok THEN "options" ELSE "ended"
           inputs == IF opt = "input" /\ ~param.tooLong
                     THEN command.inputs + param.valid ELSE command.inputs
<1>1. Fits(opt, param)
  BY ConfigurationAssumption
<1>2. command \in Commands /\ FewSteps(command.config) /\ command.inputs \in Nat
  BY DEF Types, CommandTyped, Commands
<1>3. FewSteps(parsed.config)
  BY <1>1, <1>2, OptionParsed
<1>4. inputs \in Nat
  <2>1. opt = "input" => param.valid \in Nat
    BY <1>1 DEF Fits
  <2> QED BY <1>2, <2>1
<1>5. command' = [phase |-> phase, config |-> parsed.config, inputs |-> inputs]
  BY DEF ReadOption
<1>6. phase \in {"options", "ended"}
  OBVIOUS
<1> HIDE DEF parsed, inputs, phase
<1>7. CommandTyped'
  <2>1. command'.config = parsed.config
    BY <1>5
  <2>2. command' \in Commands
    BY <1>3, <1>4, <1>5, <1>6 DEF Commands, FewSteps
  <2> QED BY <1>3, <2>1, <2>2 DEF CommandTyped
<1>8. /\ UNCHANGED <<process, caller, files, torn, writer, blocked>>
      /\ Counted
  BY DEF ReadOption
<1>9. ProcessesTyped' /\ CallersTyped' /\ FilesTyped' /\ torn' \subseteq Files
  BY <1>8 DEF Types, ProcessesTyped, CallersTyped, FilesTyped
<1> QED BY <1>7, <1>8, <1>9, Counts DEF Types

LEMMA CommandTypedAfter ==
    ASSUME Types, DoUserCommand
    PROVE  Types'
<1> DEFINE config == SetEffectiveConfig(SetConfigImpl(command.config))
           saves  == UserCommandPrecheck(command.config) /\ CommandFile \notin blocked
<1>1. command \in Commands /\ FewSteps(command.config)
  BY DEF Types, CommandTyped
<1>2. FewSteps(config)
  <2>1. SameSteps(command.config, SetConfigImpl(command.config))
    BY <1>1, ImplIsConfig DEF FewSteps
  <2>2. FewSteps(SetConfigImpl(command.config))
    BY <1>1, <2>1, SameIsFew
  <2>3. SameSteps(SetConfigImpl(command.config), config)
    BY <2>2, EffectiveIsConfig DEF FewSteps
  <2> QED BY <2>2, <2>3, SameIsFew
<1>3. Saved(config) \in Config
  BY <1>2, EffectiveIsConfig DEF FewSteps
<1> HIDE DEF config
<1>4. /\ IF saves THEN /\ files'  = [f \in {CommandFile} |-> Saved(config)]
                       /\ writer' = [f \in {CommandFile} |-> CommandFile]
                  ELSE UNCHANGED <<files, writer>>
      /\ UNCHANGED <<caller, torn, blocked, calls>>
  BY DEF DoUserCommand, config
<1>5. \/ command' = [command EXCEPT !.phase = "ended"]
      \/ command' = [command EXCEPT !.phase = "compared", !.config = config]
      \/ command' = [command EXCEPT !.phase = "executed", !.config = config]
  BY Zenon DEF DoUserCommand, config
<1>6. \/ process' = process
      \/ process' = [process EXCEPT ![First] = NewProcess(First, CommandFile)]
  BY DEF DoUserCommand
<1>7. CommandTyped'
  <2>1. command' \in Commands
    BY <1>1, <1>2, <1>5 DEF Commands, FewSteps
  <2>2. command'.config \in {command.config, config}
    BY <1>1, <1>5 DEF Commands
  <2> QED BY <1>1, <1>2, <2>1, <2>2 DEF CommandTyped
<1>8. ProcessesTyped'
  <2>1. First \in Procs /\ CommandFile \in Files \cup {NoFile}
    BY ConfigurationAssumption DEF Files
  <2>2. NewProcess(First, CommandFile) \in Process
    BY <2>1, NewIsProcess
  <2>3. ProcessesTyped
    BY DEF Types
  <2>4. CASE process' = process
    BY <2>3, <2>4 DEF ProcessesTyped
  <2>5. CASE process' = [process EXCEPT ![First] = NewProcess(First, CommandFile)]
    BY <2>1, <2>2, <2>3, <2>5, ProcessPut
  <2> QED BY <1>6, <2>4, <2>5
<1>9. FilesTyped'
  <2>1. CASE saves
    <3>1. /\ DOMAIN files' = {CommandFile} /\ DOMAIN writer' = {CommandFile}
          /\ files'[CommandFile] = Saved(config) /\ writer'[CommandFile] = CommandFile
          /\ CommandFile \in Files \ blocked'
      BY <1>4, <2>1 DEF Files
    <3> QED BY <1>3, <1>4, <3>1 DEF FilesTyped, Types
  <2>2. CASE ~saves
    BY <1>4, <2>2 DEF FilesTyped, Types
  <2> QED BY <2>1, <2>2
<1>10. CallersTyped' /\ torn' \subseteq Files /\ calls' \in 0..MaxCalls
  BY <1>4 DEF Types, CallersTyped
<1> QED BY <1>7, <1>8, <1>9, <1>10 DEF Types

\* A step of a process and its callers.
LEMMA StepTyped ==
    ASSUME Types, UNCHANGED <<command, files, writer, blocked>>,
           ProcessesTyped', CallersTyped', torn' \subseteq Files, calls' \in 0..MaxCalls
    PROVE  Types'
  BY DEF Types, CommandTyped, FilesTyped

\* The steps of a process and its callers.
LEMMA ReadTyped ==
    ASSUME Types, NEW p \in Procs, ReadConfig(p)
    PROVE  Types'
<1> DEFINE self == process[p]
           default == SetConfigImpl(InitialConfig(DefaultDir))
           given == IF self.env \in DOMAIN files \ torn THEN files[self.env] ELSE default
           loaded == [self EXCEPT !.loaded = TRUE]
<1>1. self \in Process
  BY DEF Types, ProcessesTyped
<1>2. default \in Config
  BY InitialIsConfig, ImplIsConfig DEF SameSteps
<1>3. given \in Config
  BY <1>2 DEF Types, FilesTyped
<1>4. /\ UNCHANGED <<command, caller, files, torn, writer, blocked, calls>>
      /\ \/ process' = [process EXCEPT ![p] = [self EXCEPT !.up = FALSE]]
         \/ process' = [process EXCEPT ![p] = [loaded EXCEPT !.config = given]]
  <2>1. process' = [process EXCEPT ![p] =
              CASE self.env \in torn -> [self EXCEPT !.up = FALSE]
                [] self.env \in DOMAIN files \ torn ->
                      [self EXCEPT !.loaded = TRUE, !.config = files[self.env]]
                [] OTHER ->
                      [self EXCEPT !.loaded = TRUE, !.config = default]]
    BY DEF ReadConfig, ReadJsonConfig
  <2>2. \/ process' = [process EXCEPT ![p] = [self EXCEPT !.up = FALSE]]
        \/ process' = [process EXCEPT ![p] = [loaded EXCEPT !.config = given]]
    <3> HIDE DEF default
    <3> QED BY <2>1
  <2> QED BY <2>2 DEF ReadConfig
<1> HIDE DEF default, given
<1>5. [self EXCEPT !.up = FALSE] \in Process /\ loaded \in Process
  BY <1>1, SetBits
<1> HIDE DEF loaded
<1>6. [loaded EXCEPT !.config = given] \in Process
  BY <1>3, <1>5, SetValues
<1>7. ProcessesTyped'
  BY <1>4, <1>5, <1>6, ProcessPut DEF Types
<1> QED BY <1>4, <1>7, StepTyped DEF Types, CallersTyped

LEMMA UsedTyped ==
    ASSUME Types, NEW p \in Procs, HookedCall(p) \/ LogLine(p) \/ ImportTorch(p)
    PROVE  Types'
<1>1. process[p] \in Process
  BY DEF Types, ProcessesTyped
<1>2. UNCHANGED <<command, files, torn, writer, blocked, calls>>
  BY DEF HookedCall, LogLine, ImportTorch
<1>3. CASE HookedCall(p)
  <2> DEFINE self == Manage(process[p])
             new == IF self.status = "IN_TRACING" THEN Report(self) ELSE self
  <2>1. self \in Process
    BY <1>1, ManagedIsProcess
  <2>2. process' = [process EXCEPT ![p] = new] /\ UNCHANGED caller
    BY <1>3 DEF HookedCall
  <2> HIDE DEF self
  <2>3. new \in Process
    BY <2>1, ReportedIsProcess
  <2> HIDE DEF new
  <2>4. ProcessesTyped'
    BY <2>2, <2>3, ProcessPut DEF Types
  <2> QED BY <1>2, <2>2, <2>4, StepTyped DEF Types, CallersTyped
<1>4. CASE ImportTorch(p)
  <2> DEFINE new == [process[p] EXCEPT !.torch = TRUE]
             old == caller[p]["acl"]
             alone == old.alone /\ old.at = "idle"
  <2>1. process' = [process EXCEPT ![p] = new]
    BY <1>4 DEF ImportTorch, Types, ProcessesTyped
  <2>2. new \in Process
    BY <1>1, SetBits
  <2> HIDE DEF new
  <2>3. ProcessesTyped'
    BY <2>1, <2>2, ProcessPut DEF Types
  <2>4. caller[p] \in [Callers -> Caller] /\ old \in Caller
    BY DEF Types, CallersTyped, Callers
  <2>5. caller' = [caller EXCEPT ![p] = [caller[p] EXCEPT !["acl"] = [old EXCEPT !.alone = alone]]]
    <3>1. caller' = [caller EXCEPT ![p]["acl"].alone = (@ /\ caller[p]["acl"].at = "idle")]
      BY <1>4 DEF ImportTorch
    <3>2. p \in DOMAIN caller /\ "acl" \in DOMAIN caller[p] /\ "alone" \in DOMAIN old
      BY <2>4 DEF Types, CallersTyped, Caller, Callers
    <3> QED BY <3>1, <3>2
  <2>6. alone \in BOOLEAN
    BY Zenon
  <2> HIDE DEF alone, old
  <2>7. [old EXCEPT !.alone = alone] \in Caller
    BY <2>4, <2>6 DEF Caller
  <2>8. CallersTyped'
    BY <2>4, <2>5, <2>7 DEF CallersTyped, Types
  <2> QED BY <1>2, <2>3, <2>8, StepTyped DEF Types
<1>5. CASE LogLine(p)
  <2> DEFINE new == MakeOutput(process[p])
  <2>1. process' = [process EXCEPT ![p] = new] /\ UNCHANGED caller
    BY <1>5 DEF LogLine
  <2>2. new \in Process
    BY <1>1, OutputIsProcess
  <2> HIDE DEF new
  <2>3. ProcessesTyped'
    BY <2>1, <2>2, ProcessPut DEF Types
  <2> QED BY <1>2, <2>1, <2>3, StepTyped DEF Types, CallersTyped
<1> QED BY <1>3, <1>4, <1>5

\* config() leaves the Python trace on or off.
LEMMA TraceTyped ==
    ASSUME NEW dictionary, NEW old, NEW active \in BOOLEAN
    PROVE  TraceAfterConfig(dictionary, old, active) \subseteq BOOLEAN
<1>1. TraceActiveAfter(dictionary.events, active) \in BOOLEAN
  BY Zenon DEF TraceActiveAfter
<1> QED BY <1>1 DEF TraceAfterConfig

LEMMA ConfigureTyped ==
    ASSUME Types, NEW p \in Procs, NEW dictionary \in Dictionaries, Configure(p, dictionary)
    PROVE  Types'
<1> DEFINE now    == process[p]
           config == SetConfig(dictionary, now.config)
           given(active) == [now EXCEPT !.pyTrace = active, !.config = config,
                                        !.logLevel = config.logLevel, !.env = now.project]
<1>1. now \in Process
  BY DEF Types, ProcessesTyped
<1>2. now.config \in Config /\ now.pyTrace \in BOOLEAN /\ now.project \in Procs
  BY <1>1 DEF Process
<1>3. config \in Config
  BY <1>2, DictionaryIsConfig
<1>4. config.logLevel \in LogLv
  BY <1>3 DEF Config
<1>5. TraceAfterConfig(dictionary, now.config, now.pyTrace) \subseteq BOOLEAN
  BY <1>2, TraceTyped
<1>6. PICK active \in BOOLEAN :
          \/ /\ process' = [process EXCEPT ![p] = [now EXCEPT !.pyTrace = active]]
             /\ UNCHANGED <<caller, torn>>
          \/ /\ process' = [process EXCEPT ![p] = MakeOutput(given(active))]
             /\ Begin(p, "python", "config", "write")
             /\ OpenFile(p)
  BY <1>5 DEF Configure
<1>7. UNCHANGED <<command, files, writer, blocked>> /\ Counted
  BY DEF Configure
<1> HIDE DEF config
<1>8. CASE /\ process' = [process EXCEPT ![p] = [now EXCEPT !.pyTrace = active]]
           /\ UNCHANGED <<caller, torn>>
  <2>1. [now EXCEPT !.pyTrace = active] \in Process
    BY <1>1, SetBits
  <2>2. ProcessesTyped'
    BY <1>8, <2>1, ProcessPut DEF Types
  <2> QED BY <1>7, <1>8, <2>2, Counts, StepTyped DEF Types, CallersTyped
<1>9. CASE /\ process' = [process EXCEPT ![p] = MakeOutput(given(active))]
           /\ Begin(p, "python", "config", "write")
           /\ OpenFile(p)
  <2> DEFINE s1 == [now EXCEPT !.pyTrace = active]
             s2 == [s1 EXCEPT !.config = config]
             s3 == [s2 EXCEPT !.logLevel = config.logLevel]
             s4 == [s3 EXCEPT !.env = now.project]
  <2>1. given(active) = s4
    OBVIOUS
  <2>2. s1 \in Process
    BY <1>1, SetBits
  <2> HIDE DEF s1
  <2>3. s2 \in Process
    BY <1>3, <2>2, SetValues
  <2> HIDE DEF s2
  <2>4. s3 \in Process
    BY <1>4, <2>3, SetValues
  <2> HIDE DEF s3
  <2>5. s4 \in Process
    <3>1. now.project \in Files \cup {NoFile}
      BY <1>2 DEF Files
    <3> QED BY <2>4, <3>1, SetValues
  <2>6. MakeOutput(given(active)) \in Process
    BY <2>1, <2>5, OutputIsProcess
  <2> HIDE DEF given
  <2>7. ProcessesTyped'
    BY <1>9, <2>6, ProcessPut DEF Types
  <2>8. CallersTyped'
    <3>1. "python" \in Callers /\ "config" \in Calls /\ "write" \in Places
      BY DEF Callers, Calls, Places
    <3> QED BY <1>9, <3>1, CallerTyped DEF Types
  <2> QED BY <1>7, <1>9, <2>7, <2>8, TornTyped, Counts, StepTyped
<1> QED BY <1>6, <1>8, <1>9

LEMMA SwitchTyped ==
    ASSUME Types, NEW p \in Procs, NEW call \in {"start", "stop"}, SetTraceStatus(p, call)
    PROVE  Types'
<1> DEFINE self == Manage(Report(process[p]))
           status == IF call = "start" THEN "IN_TRACING" ELSE "NOT_IN_TRACING"
<1>1. process[p] \in Process
  BY DEF Types, ProcessesTyped
<1>2. self \in Process
  BY <1>1, ReportedIsProcess, ManagedIsProcess
<1>3. status \in Status
  BY DEF Status
<1>4. /\ UNCHANGED <<command, files, torn, writer, blocked>> /\ Counted
      /\ process' = [process EXCEPT ![p] = [self EXCEPT !.status = status]]
      /\ Begin(p, "python", call, "aten")
  BY DEF SetTraceStatus, Types, ProcessesTyped
<1> HIDE DEF self, status
<1>5. [self EXCEPT !.status = status] \in Process
  BY <1>2, <1>3, SetValues
<1>6. ProcessesTyped'
  BY <1>4, <1>5, ProcessPut DEF Types
<1>7. CallersTyped'
  <2>1. "python" \in Callers /\ call \in Calls /\ "aten" \in Places
    BY DEF Callers, Calls, Places
  <2> QED BY <1>4, <2>1, CallerTyped DEF Types
<1> QED BY <1>4, <1>6, <1>7, Counts, StepTyped DEF Types

LEMMA AclInitTyped ==
    ASSUME Types, NEW p \in Procs, AclInit(p)
    PROVE  Types'
<1> DEFINE self == Manage(process[p])
<1>1. process[p] \in Process
  BY DEF Types, ProcessesTyped
<1>2. self \in Process
  BY <1>1, ManagedIsProcess
<1>3. /\ UNCHANGED <<command, files, torn, writer, blocked>> /\ Counted
      /\ process' = [process EXCEPT ![p] = [self EXCEPT !.aclInit = TRUE]]
      /\ Begin(p, "acl", "aclInit", "aten")
  BY DEF AclInit, Types, ProcessesTyped
<1> HIDE DEF self
<1>4. [self EXCEPT !.aclInit = TRUE] \in Process
  BY <1>2, SetBits
<1>5. ProcessesTyped'
  BY <1>3, <1>4, ProcessPut DEF Types
<1>6. CallersTyped'
  <2>1. "acl" \in Callers /\ "aclInit" \in Calls /\ "aten" \in Places
    BY DEF Callers, Calls, Places
  <2> QED BY <1>3, <2>1, CallerTyped DEF Types
<1> QED BY <1>3, <1>5, <1>6, Counts, StepTyped DEF Types

LEMMA WriteTyped ==
    ASSUME Types, NEW p \in Procs, Write(p)
    PROVE  Types'
<1>1. /\ WriteFile(p) /\ UNCHANGED <<command, process, blocked, calls>>
      /\ Goto(p, "python", "aten") \/ Return(p, "python")
  BY DEF Write
<1>2. FilesTyped' /\ torn' \subseteq Files
  BY <1>1, WrittenTyped
<1>3. CallersTyped'
  <2>1. "python" \in Callers /\ "aten" \in Places /\ "none" \in Calls
    BY DEF Callers, Places, Calls
  <2>2. CallersTyped
    BY DEF Types
  <2> QED BY <1>1, <2>1, <2>2, CallerTyped
<1> QED BY <1>1, <1>2, <1>3 DEF Types, CommandTyped, ProcessesTyped

LEMMA DecideTyped ==
    ASSUME Types, NEW p \in Procs, NEW c \in Callers, Decide(p, c)
    PROVE  Types'
<1> DEFINE self == Manage(process[p])
           old  == caller[p][c]
           at   == IF old.at = "aten" THEN "atenCall" ELSE "hookCall"
           on   == IF old.at = "aten" THEN WantsCollector(self) ELSE WantsHook(self)
           new  == [old EXCEPT !.at = at, !.on = on]
<1>1. self \in Process
  BY ManagedIsProcess DEF Types, ProcessesTyped
<1>2. caller[p] \in [Callers -> Caller] /\ old \in Caller
  BY DEF Types, CallersTyped
<1>3. UNCHANGED <<command, files, torn, writer, blocked, calls>>
  BY DEF Decide
<1>4. process' = [process EXCEPT ![p] = self]
  BY DEF Decide, Types, ProcessesTyped
<1>5. caller' = [caller EXCEPT ![p] = [caller[p] EXCEPT ![c] = new]]
  <2>1. caller' = [caller EXCEPT ![p][c].at = IF @ = "aten" THEN "atenCall" ELSE "hookCall",
                                ![p][c].on = IF caller[p][c].at = "aten"
                                             THEN WantsCollector(Manage(process[p]))
                                             ELSE WantsHook(Manage(process[p]))]
    BY DEF Decide
  <2>2. p \in DOMAIN caller /\ c \in DOMAIN caller[p] /\ "at" \in DOMAIN old /\ "on" \in DOMAIN old
    BY <1>2 DEF Types, CallersTyped, Caller
  <2> QED BY <2>1, <2>2
<1>6. on \in BOOLEAN
  <2>1. WantsCollector(self) \in BOOLEAN
    BY Zenon DEF WantsCollector
  <2>2. WantsHook(self) \in BOOLEAN
    BY Zenon DEF WantsHook
  <2> QED BY <2>1, <2>2
<1>7. at \in Places
  BY DEF Places
<1> HIDE DEF at, on, old, self
<1>8. new \in Caller
  BY <1>2, <1>6, <1>7 DEF Caller
<1> HIDE DEF new
<1>9. CallersTyped'
  BY <1>2, <1>5, <1>8 DEF Types, CallersTyped
<1>10. ProcessesTyped'
  BY <1>1, <1>4, ProcessPut DEF Types
<1> QED BY <1>3, <1>9, <1>10, StepTyped DEF Types

LEMMA CollectorTyped ==
    ASSUME Types, NEW p \in Procs, NEW c \in Callers, CallAtenCollector(p, c)
    PROVE  Types'
<1> DEFINE self == process[p]
           on   == IF self.torch THEN caller[p][c].on ELSE self.collector
           new  == [self EXCEPT !.collector = on]
<1>1. self \in Process /\ caller[p][c] \in Caller
  BY DEF Types, ProcessesTyped, CallersTyped
<1>2. on \in BOOLEAN
  BY <1>1 DEF Process, Caller
<1>3. /\ UNCHANGED <<command, files, torn, writer, blocked, calls>> /\ Goto(p, c, "hook")
      /\ process' = [process EXCEPT ![p] = new]
  BY DEF CallAtenCollector, Types, ProcessesTyped, Process
<1> HIDE DEF self, on
<1>4. new \in Process
  BY <1>1, <1>2, SetBits
<1> HIDE DEF new
<1>5. ProcessesTyped'
  BY <1>3, <1>4, ProcessPut DEF Types
<1>6. CallersTyped'
  <2>1. "hook" \in Places /\ "none" \in Calls
    BY DEF Places, Calls
  <2> QED BY <1>3, <2>1, CallerTyped DEF Types
<1> QED BY <1>3, <1>5, <1>6, StepTyped DEF Types

LEMMA HookTyped ==
    ASSUME Types, NEW p \in Procs, NEW c \in Callers, CallOptimizerHook(p, c)
    PROVE  Types'
<1> DEFINE self == SwitchHook(process[p], caller[p][c].on)
           home == [self EXCEPT !.env = self.project]
<1>1. process[p] \in Process
  BY DEF Types, ProcessesTyped
<1>2. self \in Process
  BY <1>1, HookedIsProcess
<1>3. \E new \in {UpdateAnalysisType(self), MakeOutput(home), Report(self), self} :
          process' = [process EXCEPT ![p] = new]
  BY Zenon DEF CallOptimizerHook
<1>4. /\ UNCHANGED <<command, files, writer, blocked, calls>>
      /\ \/ Goto(p, c, "write") /\ OpenFile(p)
         \/ Return(p, c) /\ UNCHANGED torn
  BY DEF CallOptimizerHook
<1> HIDE DEF self
<1>5. home \in Process
  <2>1. self.project \in Files \cup {NoFile}
    BY <1>2 DEF Process, Files
  <2> QED BY <1>2, <2>1, SetValues
<1> HIDE DEF home
<1>6. \A new \in {UpdateAnalysisType(self), MakeOutput(home), Report(self), self} :
          new \in Process
  BY <1>2, <1>5, AnalysisIsProcess, OutputIsProcess, ReportedIsProcess
<1>7. ProcessesTyped'
  BY <1>3, <1>6, ProcessPut DEF Types
<1>8. CallersTyped'
  <2>1. "write" \in Places /\ "none" \in Calls
    BY DEF Places, Calls
  <2> QED BY <1>4, <2>1, CallerTyped DEF Types
<1>9. torn' \subseteq Files
  BY <1>4, TornTyped DEF Types
<1> QED BY <1>4, <1>7, <1>8, <1>9, StepTyped DEF Types

LEMMA BirthTyped ==
    ASSUME Types, NEW p \in Procs, NEW q \in Procs, Spawn(p, q) \/ Fork(p, q)
    PROVE  Types'
<1>1. process[p] \in Process
  BY DEF Types, ProcessesTyped
<1>2. process[p].env \in Files \cup {NoFile}
  BY <1>1 DEF Process
<1>3. \E new \in {NewProcess(q, process[p].env), process[p]} :
          process' = [process EXCEPT ![q] = new]
  BY DEF Spawn, Fork
<1>4. UNCHANGED <<command, caller, files, torn, writer, blocked>> /\ Counted
  BY DEF Spawn, Fork
<1>5. NewProcess(q, process[p].env) \in Process
  BY <1>2, NewIsProcess
<1>6. ProcessesTyped'
  BY <1>1, <1>3, <1>5, ProcessPut DEF Types
<1> QED BY <1>4, <1>6, Counts, StepTyped DEF Types, CallersTyped

LEMMA NextTypes == Types /\ [Next]_vars => Types'
<1> SUFFICES ASSUME Types, [Next]_vars PROVE Types'
  OBVIOUS
<1>1. CASE UNCHANGED vars
  BY <1>1 DEF vars, Types, CommandTyped, ProcessesTyped, CallersTyped, FilesTyped
<1>2. ASSUME NEW option \in Options, ReadOption(option[1], option[2]) PROVE Types'
  BY <1>2, OptionTyped
<1>3. CASE DoUserCommand
  BY <1>3, CommandTypedAfter
<1>4. ASSUME NEW p \in Procs,
             ReadConfig(p) \/ HookedCall(p) \/ LogLine(p) \/ ImportTorch(p)
      PROVE  Types'
  BY <1>4, ReadTyped, UsedTyped
<1>5. ASSUME NEW p \in Procs, NEW d \in Dictionaries, Configure(p, d) PROVE Types'
  BY <1>5, ConfigureTyped
<1>6. ASSUME NEW p \in Procs, NEW call \in {"start", "stop"}, SetTraceStatus(p, call)
      PROVE  Types'
  BY <1>6, SwitchTyped
<1>7. ASSUME NEW p \in Procs, AclInit(p) \/ Write(p) PROVE Types'
  BY <1>7, AclInitTyped, WriteTyped
<1>8. ASSUME NEW p \in Procs, NEW c \in Callers,
             Decide(p, c) \/ CallAtenCollector(p, c) \/ CallOptimizerHook(p, c)
      PROVE  Types'
  BY <1>8, DecideTyped, CollectorTyped, HookTyped
<1>9. ASSUME NEW p \in Procs, NEW q \in Procs, Spawn(p, q) \/ Fork(p, q) PROVE Types'
  BY <1>9, BirthTyped
<1> QED BY <1>1, <1>2, <1>3, <1>4, <1>5, <1>6, <1>7, <1>8, <1>9 DEF Next

\* The parsers and the file yield configurations, whatever the options and the dictionaries
\* are: no list of steps grows beyond MaxSteps, no depth leaves its range, no slot the set.
THEOREM ConfigurationTypes == Spec => []TypeOK
<1>1. Init => Types
  BY InitTypes
<1>2. Types /\ [Next]_vars => Types'
  BY NextTypes
<1>3. Types => TypeOK
  BY TypesImplyTypeOK
<1> QED BY <1>1, <1>2, <1>3, PTL DEF Spec
====================================================================================
