----------------------------- MODULE MCObserve ------------------------------
(***************************************************************************)
(* Observe for TLC: two workers and two calls of Shutdown.                 *)
(***************************************************************************)
EXTENDS Observe, TLC

CONSTANTS w1, w2, s1, s2

MCWorkers == {w1, w2}
MCClosers == {s1, s2}

Full == [service |-> TRUE, tracing |-> TRUE, traceExporter |-> "otlp", samplePct |-> 50,
         metrics |-> TRUE, metricExporter |-> "otlp", logging |-> TRUE, level |-> "info"]
\* All of it, parts of it, and what Validate rejects.
MCConfigs ==
    {Full,
     [Full EXCEPT !.samplePct = 0],
     [Full EXCEPT !.tracing = FALSE, !.level = "error"],
     [Full EXCEPT !.metrics = FALSE, !.traceExporter = "jaeger", !.samplePct = 100],
     [Full EXCEPT !.logging = FALSE, !.traceExporter = "none", !.metricExporter = "prometheus"],
     [Full EXCEPT !.traceExporter = "prometheus"],
     [Full EXCEPT !.samplePct = 101]}
MCEndpoints == {{"otlp"}, {"traces"}, {"jaeger"}}

Symmetry == Permutations(MCWorkers) \cup Permutations(MCClosers)

=============================================================================
