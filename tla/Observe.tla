------------------------------- MODULE Observe ------------------------------
(***************************************************************************)
(* observe/: an observer is made and shut down, and the middleware traces, *)
(* counts and logs the tool executions of concurrent workers.              *)
(*                                                                         *)
(* The providers of the OpenTelemetry SDK are external: a provider that is *)
(* up takes what it is given, and one that was shut down drops it.  The    *)
(* tracer provider takes the spans that its sampler chooses.               *)
(*                                                                         *)
(* A logger writes a line in two parts under its mutex.  The middleware    *)
(* makes a logger with WithTool for every execution, so that each line is  *)
(* written under a mutex of its own, and all of them to one writer.        *)
(***************************************************************************)
EXTENDS Integers, FiniteSets

CONSTANTS
    Configs,   \* the Configs that NewObserver is called with
    Endpoints, \* what the environment may name: sets of "otlp", "traces", "metrics", "jaeger"
    Workers,   \* goroutines that execute tools through the middleware
    Closers,   \* goroutines that call Shutdown, once each
    MaxCalls   \* bound: executions

\* Config, with the sample share in percent.
ConfigType ==
    [service : BOOLEAN,
     tracing : BOOLEAN, traceExporter : STRING, samplePct : Int,
     metrics : BOOLEAN, metricExporter : STRING,
     logging : BOOLEAN, level : STRING]

ASSUME ObserveAssumption ==
    /\ Configs \subseteq ConfigType
    /\ Endpoints \subseteq SUBSET {"otlp", "traces", "metrics", "jaeger"}
    /\ IsFiniteSet(Workers)
    /\ MaxCalls \in Nat

VARIABLES
    cfg,        \* the Config and
    endpoints,  \* the endpoints that the environment names
    phase,      \* where NewObserver is
    tp, mp,     \* tracerProvider and meterProvider: "none", "up" or "down"
    closing,    \* where each closer is in Shutdown
    pc,         \* where each worker is in the wrapped function
    err,        \* whether the tool returned an error to it
    total, errors, durations,  \* the instruments of metricsImpl: what they were given
    spans,      \* spans that are started, sampled and not ended
    sampled,    \* whether the span of each worker is one of them
    returned, failed, panicked, \* history: how executions ended, and
    abandoned   \* the panicked ones that had a sampled span

configVars == <<cfg, endpoints>>
observerVars == <<configVars, phase, tp, mp>>
metricVars == <<total, errors, durations>>
spanVars == <<spans, sampled>>
historyVars == <<returned, failed, panicked, abandoned>>
vars == <<observerVars, closing, pc, err, metricVars, spanVars, historyVars>>

LogLevels == [debug |-> 0, info |-> 1, warn |-> 2, error |-> 3]

ParseLogLevel(name) == IF name \in DOMAIN LogLevels THEN LogLevels[name] ELSE LogLevels.info

Init ==
    /\ cfg \in Configs
    /\ endpoints \in Endpoints
    /\ phase = "validate"
    /\ tp = "none"
    /\ mp = "none"
    /\ closing = [c \in Closers |-> "idle"]
    /\ pc = [w \in Workers |-> "idle"]
    /\ err = [w \in Workers |-> FALSE]
    /\ total = 0
    /\ errors = 0
    /\ durations = 0
    /\ spans = 0
    /\ sampled = [w \in Workers |-> FALSE]
    /\ returned = 0
    /\ failed = 0
    /\ panicked = 0
    /\ abandoned = 0

-----------------------------------------------------------------------------
(***************************************************************************)
(* NewObserver.                                                            *)
(***************************************************************************)
workVars == <<closing, pc, err, metricVars, spanVars, historyVars>>

Valid ==
    /\ cfg.service
    /\ cfg.tracing => /\ cfg.traceExporter \in {"otlp", "jaeger", "stdout", "none", ""}
                      /\ cfg.samplePct \in 0..100
    /\ cfg.metrics => cfg.metricExporter \in {"otlp", "prometheus", "stdout", "none", ""}
    /\ cfg.logging => cfg.level \in (DOMAIN LogLevels) \cup {""}

\* Whether an exporter for traces, or a reader for metrics, can be had: one that needs
\* an endpoint only if the environment names it.
TracingExporter ==
    \/ cfg.traceExporter \in {"stdout", "none", ""}
    \/ cfg.traceExporter = "otlp" /\ {"otlp", "traces"} \cap endpoints # {}
    \/ cfg.traceExporter = "jaeger" /\ "jaeger" \in endpoints

MetricsReader ==
    \/ cfg.metricExporter \in {"stdout", "prometheus", "none", ""}
    \/ cfg.metricExporter = "otlp" /\ {"otlp", "metrics"} \cap endpoints # {}

\* The configuration is valid and the resource is made; or an error.
Validate ==
    /\ phase = "validate"
    /\ phase' \in {"failed"} \cup (IF Valid THEN {"tracing"} ELSE {})
    /\ UNCHANGED <<configVars, tp, mp, workVars>>

\* The SDK may fail to make the exporter.
SetupTracing ==
    /\ phase = "tracing"
    /\ \/ /\ cfg.tracing => TracingExporter
          /\ phase' = "metrics"
          /\ tp' = IF cfg.tracing THEN "up" ELSE "none"
       \/ /\ cfg.tracing
          /\ phase' = "failed"
          /\ UNCHANGED tp
    /\ UNCHANGED <<configVars, mp, workVars>>

\* Or the reader, and then the tracer provider stays as it is.
SetupMetrics ==
    /\ phase = "metrics"
    /\ \/ /\ cfg.metrics => MetricsReader
          /\ phase' = "ready"
          /\ mp' = IF cfg.metrics THEN "up" ELSE "none"
       \/ /\ cfg.metrics
          /\ phase' = "failed"
          /\ UNCHANGED mp
    /\ UNCHANGED <<configVars, tp, workVars>>

\* MiddlewareFromObserver; an error of an instrument leaves the caller without one.
MakeMiddleware ==
    /\ phase = "ready"
    /\ phase' = "wrapped"
    /\ UNCHANGED <<configVars, tp, mp, workVars>>

-----------------------------------------------------------------------------
(***************************************************************************)
(* Shutdown: the tracer provider, and then the meter provider, whether or  *)
(* not the first has returned an error.                                    *)
(***************************************************************************)
Down(provider) == IF provider = "none" THEN "none" ELSE "down"

\* Mutant: an error of the tracer provider ends Shutdown.
ShutdownTracerOrReturn(c) ==
    /\ phase \in {"ready", "wrapped"}
    /\ closing[c] = "idle"
    /\ tp' = Down(tp)
    /\ closing' \in {[closing EXCEPT ![c] = "meter"], [closing EXCEPT ![c] = "done"]}
    /\ UNCHANGED <<configVars, phase, mp, pc, err, metricVars, spanVars, historyVars>>

ShutdownTracer(c) ==
    /\ phase \in {"ready", "wrapped"}
    /\ closing[c] = "idle"
    /\ tp' = Down(tp)
    /\ closing' = [closing EXCEPT ![c] = "meter"]
    /\ UNCHANGED <<configVars, phase, mp, pc, err, metricVars, spanVars, historyVars>>

ShutdownMeter(c) ==
    /\ closing[c] = "meter"
    /\ mp' = Down(mp)
    /\ closing' = [closing EXCEPT ![c] = "done"]
    /\ UNCHANGED <<configVars, phase, tp, pc, err, metricVars, spanVars, historyVars>>

-----------------------------------------------------------------------------
(***************************************************************************)
(* The function that Middleware.Wrap returns.                              *)
(***************************************************************************)
Active == {w \in Workers : pc[w] # "idle"}
Started == returned + panicked + Cardinality({w \in Workers : pc[w] = "running"})

\* What the sampler may decide: TraceIDRatioBased goes by the trace's random identifier.
Samples ==
    {s \in BOOLEAN : /\ cfg.samplePct >= 100 => s
                     /\ cfg.samplePct <= 0 => ~s}

StartSpan(w) ==
    /\ phase = "wrapped"
    /\ pc[w] = "idle"
    /\ Started < MaxCalls
    /\ pc' = [pc EXCEPT ![w] = "running"]
    /\ \E s \in IF tp = "up" THEN Samples ELSE {FALSE} :
         /\ sampled' = [sampled EXCEPT ![w] = s]
         /\ spans' = IF s THEN spans + 1 ELSE spans
    /\ UNCHANGED <<observerVars, closing, err, metricVars, historyVars>>

\* The tool returns a result or an error.
Returns(w) ==
    /\ pc[w] = "running"
    /\ pc' = [pc EXCEPT ![w] = "end span"]
    /\ \E e \in BOOLEAN :
         /\ err' = [err EXCEPT ![w] = e]
         /\ failed' = IF e THEN failed + 1 ELSE failed
    /\ returned' = returned + 1
    /\ UNCHANGED <<observerVars, closing, metricVars, spanVars, panicked, abandoned>>

\* It panics, and nothing of what follows is deferred.
Panics(w) ==
    /\ pc[w] = "running"
    /\ pc' = [pc EXCEPT ![w] = "idle"]
    /\ panicked' = panicked + 1
    /\ abandoned' = IF sampled[w] THEN abandoned + 1 ELSE abandoned
    /\ sampled' = [sampled EXCEPT ![w] = FALSE]
    /\ UNCHANGED <<observerVars, closing, err, metricVars, spans, returned, failed>>

EndSpan(w) ==
    /\ pc[w] = "end span"
    /\ pc' = [pc EXCEPT ![w] = "total"]
    /\ spans' = IF tp = "up" /\ sampled[w] THEN spans - 1 ELSE spans
    /\ sampled' = [sampled EXCEPT ![w] = FALSE]
    /\ UNCHANGED <<observerVars, closing, err, metricVars, historyVars>>

\* RecordExecution, one instrument after the other.
Given(instrument) == IF mp = "up" THEN instrument + 1 ELSE instrument

\* Mutant: the total is counted only for executions without an error.
AddTotalOrError(w) ==
    /\ pc[w] = "total"
    /\ pc' = [pc EXCEPT ![w] = IF err[w] THEN "errors" ELSE "duration"]
    /\ total' = IF err[w] THEN total ELSE Given(total)
    /\ UNCHANGED <<observerVars, closing, err, errors, durations, spanVars, historyVars>>

AddTotal(w) ==
    /\ pc[w] = "total"
    /\ pc' = [pc EXCEPT ![w] = IF err[w] THEN "errors" ELSE "duration"]
    /\ total' = Given(total)
    /\ UNCHANGED <<observerVars, closing, err, errors, durations, spanVars, historyVars>>

AddErrors(w) ==
    /\ pc[w] = "errors"
    /\ pc' = [pc EXCEPT ![w] = "duration"]
    /\ errors' = Given(errors)
    /\ UNCHANGED <<observerVars, closing, err, total, durations, spanVars, historyVars>>

RecordDuration(w) ==
    /\ pc[w] = "duration"
    /\ pc' = [pc EXCEPT ![w] = "log"]
    /\ durations' = Given(durations)
    /\ UNCHANGED <<observerVars, closing, err, total, errors, spanVars, historyVars>>

-----------------------------------------------------------------------------
(***************************************************************************)
(* structuredLogger.log of the logger of this execution.                   *)
(***************************************************************************)
Logged(w) ==
    /\ cfg.logging
    /\ (IF err[w] THEN LogLevels.error ELSE LogLevels.info) >= ParseLogLevel(cfg.level)

\* What the logger does for its worker.
LogStep(w, next) ==
    /\ pc' = [pc EXCEPT ![w] = next]
    /\ err' = IF next = "idle" THEN [err EXCEPT ![w] = FALSE] ELSE err
    /\ UNCHANGED <<observerVars, closing, metricVars, spanVars, historyVars>>

\* No line for this level; or the first write, which may fail and is then the last.
WriteData(w) ==
    /\ pc[w] = "log"
    /\ \/ LogStep(w, "idle")
       \/ Logged(w) /\ LogStep(w, "newline")

WriteNewline(w) ==
    /\ pc[w] = "newline"
    /\ LogStep(w, "idle")

-----------------------------------------------------------------------------
Next ==
    \/ Validate \/ SetupTracing \/ SetupMetrics \/ MakeMiddleware
    \/ \E c \in Closers : ShutdownTracer(c) \/ ShutdownMeter(c)
    \/ \E w \in Workers :
         \/ StartSpan(w) \/ Returns(w) \/ Panics(w) \/ EndSpan(w)
         \/ AddTotal(w) \/ AddErrors(w) \/ RecordDuration(w)
         \/ WriteData(w) \/ WriteNewline(w)

Spec == Init /\ [][Next]_vars

-----------------------------------------------------------------------------
(***************************************************************************)
(* Properties.                                                             *)
(***************************************************************************)

\* Types; and there is a provider only for what is enabled, and work only once the
\* observer is complete.
TypeOK ==
    /\ cfg \in Configs
    /\ endpoints \in Endpoints
    /\ phase \in {"validate", "tracing", "metrics", "ready", "wrapped", "failed"}
    /\ tp \in {"none", "up", "down"} /\ (tp # "none" => cfg.tracing)
    /\ mp \in {"none", "up", "down"} /\ (mp # "none" => cfg.metrics)
    /\ closing \in [Closers -> {"idle", "meter", "done"}]
    /\ pc \in [Workers -> {"idle", "running", "end span", "total", "errors", "duration",
                           "log", "newline"}]
    /\ err \in [Workers -> BOOLEAN] /\ sampled \in [Workers -> BOOLEAN]
    /\ total \in Nat /\ errors \in Nat /\ durations \in Nat /\ spans \in Nat
    /\ returned \in Nat /\ failed \in Nat /\ panicked \in Nat
    /\ abandoned \in Nat
    /\ Active # {} => phase = "wrapped"

\* The workers at one of these places.
At(places) == Cardinality({w \in Workers : pc[w] \in places})

\* What the middleware has given to the telemetry agrees with what happened, at every
\* moment: each execution that returned is counted once or is about to be, each error
\* likewise, and no error or duration is recorded before its execution is counted,
\* during a shutdown either.  The open spans are those of sampled executions that are
\* under way or that panicked, and the two ends of SamplePct sample all and none.
CountersExact ==
    /\ mp = "up" =>
         /\ returned = total + At({"end span", "total"})
         /\ failed = errors + Cardinality({w \in Workers :
                                  err[w] /\ pc[w] \in {"end span", "total", "errors"}})
         /\ returned = durations + At({"end span", "total", "errors", "duration"})
    /\ errors <= total /\ durations <= total
    /\ tp = "up" =>
         /\ spans = abandoned + Cardinality({w \in Workers :
                                   sampled[w] /\ pc[w] \in {"running", "end span"}})
         /\ cfg.samplePct >= 100 => spans = panicked + At({"running", "end span"})
         /\ cfg.samplePct <= 0 => spans = 0

\* When any call of Shutdown has returned, no provider is up, although the first one
\* may have failed to shut down and other calls of Shutdown are under way.
ShutdownReachesAll ==
    (\E c \in Closers : closing[c] = "done") => tp # "up" /\ mp # "up"

\* "Concurrency: All methods are safe for concurrent use" (observe.go:138): the lines
\* that executions log do not get into each other.
LinesAreWhole == At({"newline"}) <= 1

=============================================================================
