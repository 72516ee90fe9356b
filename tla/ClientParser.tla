-------------------------------- MODULE ClientParser --------------------------------
(***************************************************************************)
(* The options of framework/client_parser.cpp: what each parser makes of   *)
(* its argument, the configuration they start from, and how the events and *)
(* the analyses complete each other once an option list has been read.     *)
(* The command line and config() of the Python module share the parsers.   *)
(*                                                                         *)
(* An argument is the sequence of tokens that SplitString cuts it into, an *)
(* empty one where two separators meet; a number is itself, and what is    *)
(* not a number is NotANumber.  A parser that fails may have written part  *)
(* of its option: both callers then drop the configuration, so that a      *)
(* failure is only that.  Its one lasting effect is on the Python trace.   *)
(***************************************************************************)
EXTENDS Integers, FiniteSetsExt, SequencesExt

CONSTANTS MaxSteps,      \* SELECTED_STEP_MAX_NUM
          MaxDepth,      \* the largest depth of a call stack
          DefaultDepth,  \* DEFAULT_CALL_STACK_DEPTH
          SlotBits       \* the bits of npuSlots

ASSUME ParserAssumption ==
    /\ MaxSteps \in Nat \ {0}
    /\ MaxDepth \in Nat
    /\ DefaultDepth \in 0..MaxDepth
    /\ SlotBits \in Nat \ {0}

Empty      == "" \* an empty token of a list of words
NoNumber   == -1 \* an empty token of a list of numbers, or no number given
NotANumber == -2

\* A word of an argument, which may be empty.
Word == STRING \cup {Empty}

EventType    == {"alloc", "free", "launch", "access"}
AnalysisType == {"leaks", "decompose", "inefficient"}
LevelType    == {"op", "kernel"}
LogLv        == {"debug", "info", "warn", "error"}
DataFormat   == {"csv", "db"}
CollectMode  == {"immediate", "deferred"}

CallStack == [on : BOOLEAN, depth : 0..MaxDepth]

NotWatched == [on |-> FALSE, start |-> Empty, outputId |-> NoNumber, end |-> Empty,
               fullContent |-> FALSE]

\* What a parser returns: the configuration, or a failure.
Accept(config) == [ok |-> TRUE, config |-> config]
Reject(config) == [ok |-> FALSE, config |-> config]

\* The tokens of a list that are not empty.
Words(tokens) == SelectSeq(tokens, LAMBDA token : token # Empty)
Named(tokens) == SelectSeq(tokens, LAMBDA token : token.device # Empty)

------------------------------------------------------------------------------------
\* The parsers

\* Seeded fault: nobody looks whether the list is full.
TakeStepUnbounded(read, token) ==
    IF ~read.ok \/ token \notin {NoNumber} \cup (Nat \ {0})
    THEN [read EXCEPT !.ok = FALSE]
    ELSE IF token = NoNumber THEN read ELSE [read EXCEPT !.steps = Append(@, token)]

\* One turn of the loop over the steps: what is read so far, and whether it is right.  An
\* empty token is skipped, unless the list is full already.
TakeStep(read, token) ==
    IF ~read.ok \/ Len(read.steps) >= MaxSteps \/ token \notin {NoNumber} \cup (Nat \ {0})
    THEN [read EXCEPT !.ok = FALSE]
    ELSE IF token = NoNumber THEN read ELSE [read EXCEPT !.steps = Append(@, token)]

ParseSelectSteps(tokens, config) ==
    LET read[i \in 0..Len(tokens)] ==
            IF i = 0 THEN [ok |-> TRUE, steps |-> <<>>] ELSE TakeStep(read[i - 1], tokens[i])
        last == read[Len(tokens)]
    IN  IF last.ok THEN Accept([config EXCEPT !.stepList = last.steps]) ELSE Reject(config)

\* No word at all leaves an empty set: --analysis="" turns every analysis off.
ParseAnalysis(tokens, config) ==
    LET words == ToSet(Words(tokens))
    IN  IF words \subseteq AnalysisType
        THEN Accept([config EXCEPT !.analysisType = words])
        ELSE Reject(config)

CheckIsValidDepthInfo(token) ==
    /\ token.stack \in {"python", "c"}
    /\ token.depth \in {NoNumber} \cup 0..MaxDepth

\* A stack that the option does not name keeps what it had; the last token that names a
\* stack decides its depth.
ParseCallstack(tokens, config) ==
    LET named(stack) == {i \in DOMAIN tokens : tokens[i].stack = stack}
        depth(stack) == tokens[Max(named(stack))].depth
        chosen(stack, old) ==
            CASE tokens = <<>>      -> [on |-> FALSE, depth |-> 0]
              [] named(stack) = {}  -> old
              [] OTHER -> [on |-> TRUE, depth |-> IF depth(stack) = NoNumber
                                                  THEN DefaultDepth ELSE depth(stack)]
    IN  IF \A i \in DOMAIN tokens :
               tokens[i].stack = Empty \/ CheckIsValidDepthInfo(tokens[i])
        THEN Accept([config EXCEPT !.cStack = chosen("c", @),
                                   !.pyStack = chosen("python", @)])
        ELSE Reject(config)

\* A path too long is left out without a failure, an empty one is remembered as wrong.
ParseOutputPath(path, config) ==
    CASE path.kind = "tooLong" -> Accept(config)
      [] path.kind = "blank"   -> Accept([config EXCEPT !.outputCorrectPaths = FALSE])
      [] path.kind = "invalid" -> Reject(config)
      [] OTHER                 -> Accept([config EXCEPT !.outputDir = path.dir])

LevelOf == [word \in {"0", "op", "1", "kernel"} |->
               IF word \in {"0", "op"} THEN "op" ELSE "kernel"]

ParseDataLevel(tokens, config) ==
    LET words == ToSet(Words(tokens))
    IN  IF words \subseteq DOMAIN LevelOf
        THEN Accept([config EXCEPT !.levelType = {LevelOf[word] : word \in words}])
        ELSE Reject(config)

ParseEventTraceType(tokens, config) ==
    LET words == ToSet(Words(tokens))
    IN  IF words \subseteq EventType \cup {"traceback"}
        THEN Accept([config EXCEPT !.eventType = words \ {"traceback"}])
        ELSE Reject(config)

\* What it does to the Python trace on the way: "traceback" starts it at once, and its
\* absence stops it once the whole option has been read.
TraceActiveAfter(tokens, active) ==
    LET words == Words(tokens)
        wrong == {i \in DOMAIN words : words[i] \notin EventType \cup {"traceback"}}
        read  == IF wrong = {} THEN words ELSE SubSeq(words, 1, Min(wrong) - 1)
    IN  \/ "traceback" \in ToSet(read)
        \/ active /\ wrong # {}

\* The form is [start[:outid]],end[,full-content]: the first comma is required, what is
\* in front of it is not.  A colon needs both a start and a number behind it.
ParseWatchConfig(param, config) ==
    LET full == Len(param.rest) = 2 /\ param.rest[2] = "full-content"
    IN  IF /\ Len(param.rest) \in 1..2
           /\ param.colon => param.start # Empty /\ param.outputId >= 0
           /\ param.rest[1] # Empty
           /\ Len(param.rest) = 2 => full \/ param.rest[2] = Empty
        THEN Accept([config EXCEPT !.watchConfig =
                 [on          |-> TRUE,
                  start       |-> param.start,
                  outputId    |-> IF param.colon THEN param.outputId ELSE @.outputId,
                  end         |-> param.rest[1],
                  fullContent |-> full \/ @.fullContent]])
        ELSE Reject(config)

ParseLogLv(level, config) ==
    IF level \in LogLv \ {"debug"} THEN Accept([config EXCEPT !.logLevel = level])
                                   ELSE Reject(config)

ParseDataFormat(format, config) ==
    IF format \in DataFormat THEN Accept([config EXCEPT !.dataFormat = format])
                             ELSE Reject(config)

ParseCollectMode(mode, config) ==
    IF mode \in CollectMode THEN Accept([config EXCEPT !.collectMode = mode])
                            ELSE Reject(config)

\* "npu" is every device; "npu:x" a slot that the bit set has room for.
ParseDevice(tokens, config) ==
    LET named == Named(tokens)
        all   == \E i \in DOMAIN named : named[i].device = "npu"
        slots == {named[i].slot : i \in {j \in DOMAIN named : named[j].device = "npu:"}}
    IN  IF /\ \A i \in DOMAIN named : named[i].device \in {"npu", "npu:"}
           /\ slots \subseteq 0..(SlotBits - 1)
           /\ all \/ slots # {}
        THEN Accept([config EXCEPT !.collectAllNpu = all, !.npuSlots = slots])
        ELSE Reject(config)

------------------------------------------------------------------------------------
\* The configuration

\* InitialConfig.  npuSlots is not written there, and not read while collectAllNpu is set.
InitialConfig(defaultDir) ==
    [stepList           |-> <<>>,
     enableCompare      |-> FALSE,
     cStack             |-> [on |-> FALSE, depth |-> 0],
     pyStack            |-> [on |-> FALSE, depth |-> 0],
     inputCorrectPaths  |-> FALSE,
     outputCorrectPaths |-> TRUE,
     watchConfig        |-> NotWatched,
     levelType          |-> {"op"},
     eventType          |-> {"alloc", "free", "launch"},
     analysisType       |-> {"leaks"},
     logLevel           |-> "warn",
     collectMode        |-> "immediate",
     outputDir          |-> defaultDir,
     dataFormat         |-> "csv",
     collectAllNpu      |-> TRUE,
     npuSlots           |-> {},
     isEffective        |-> FALSE]

\* The pairs of the two match lists: an event or an analysis, and what it brings with it.
EventsMatchLists == {<<"alloc", "free">>, <<"free", "alloc">>,
                     <<"access", "alloc">>, <<"access", "free">>}

AnalysisMatchLists == ({"leaks", "decompose", "inefficient"} \X {"alloc", "free"})
                      \cup ({"inefficient"} \X {"access", "launch"})

Brought(pairs, types) == {pair[2] : pair \in {p \in pairs : p[1] \in types}}

\* Seeded fault: "access" brings nothing with it.
SetEventDefaultConfigPairOnly(config) ==
    [config EXCEPT !.eventType =
        @ \cup Brought({<<"alloc", "free">>, <<"free", "alloc">>}, @)]

SetEventDefaultConfig(config) ==
    [config EXCEPT !.eventType = @ \cup Brought(EventsMatchLists, @)]

SetAnalysisDefaultConfig(config) ==
    [config EXCEPT !.eventType = @ \cup Brought(AnalysisMatchLists, config.analysisType)]

SetEffectiveConfig(config) == [config EXCEPT !.isEffective = TRUE]
====================================================================================
