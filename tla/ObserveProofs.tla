--------------------------- MODULE ObserveProofs ----------------------------
(***************************************************************************)
(* Proofs about Observe for every configuration and environment, and any   *)
(* number of workers, executions and calls of Shutdown.                    *)
(*                                                                         *)
(* The telemetry of an execution changes in several steps, so each counter *)
(* is related to the history through the workers that are between them.   *)
(***************************************************************************)
EXTENDS Observe, FiniteSetTheorems, TLAPS

\* The workers at one of these places, and those of them that have an error, or a span
\* that is sampled.
Among(places) == {w \in Workers : pc[w] \in places}
ErringAmong(places) == {w \in Workers : err[w] /\ pc[w] \in places}
SampledAmong(places) == {w \in Workers : sampled[w] /\ pc[w] \in places}

\* The workers whose execution has returned and is not yet counted; not yet measured;
\* whose span is open; whose error is not yet counted; and of these, those whose
\* execution is.
Uncounted == Among({"end span", "total"})
Unmeasured == Among({"end span", "total", "errors", "duration"})
Open == SampledAmong({"running", "end span"})
Erring == ErringAmong({"end span", "total", "errors"})
Reporting == ErringAmong({"errors"})

Counts ==
    /\ mp = "up" =>
         /\ returned = total + Cardinality(Uncounted)
         /\ failed = errors + Cardinality(Erring)
         /\ returned = durations + Cardinality(Unmeasured)
         /\ errors + Cardinality(Reporting) <= total
    /\ tp = "up" => spans = abandoned + Cardinality(Open)
    /\ errors <= total /\ durations <= total

\* What there is while the observer is made, and after a call of Shutdown.
Phases ==
    /\ phase # "wrapped" =>
         /\ total = 0 /\ errors = 0 /\ durations = 0 /\ spans = 0
         /\ returned = 0 /\ failed = 0 /\ panicked = 0 /\ abandoned = 0
         /\ \A w \in Workers : ~sampled[w]
    /\ phase \in {"validate", "tracing"} => tp = "none"
    /\ phase \in {"validate", "tracing", "metrics"} => mp = "none"
    /\ phase \notin {"ready", "wrapped"} => \A c \in Closers : closing[c] = "idle"
    /\ \A c \in Closers : closing[c] # "idle" => tp # "up"
    /\ \A c \in Closers : closing[c] = "done" => mp # "up"
    /\ \A w \in Workers : pc[w] = "errors" => err[w]

\* The two ends of SamplePct, and whom they sample.
All == cfg.samplePct >= 100
Nothing == cfg.samplePct <= 0

Sampling ==
    tp = "up" =>
        /\ All => /\ panicked = abandoned
                  /\ \A w \in Workers : pc[w] \in {"running", "end span"} => sampled[w]
        /\ Nothing => abandoned = 0 /\ \A w \in Workers : ~sampled[w]

Inv == TypeOK /\ Phases /\ Counts /\ Sampling

-----------------------------------------------------------------------------
(***************************************************************************)
(* Counting workers.                                                       *)
(***************************************************************************)
LEMMA SomeWorkers ==
    ASSUME NEW A \in SUBSET Workers
    PROVE  IsFiniteSet(A) /\ Cardinality(A) \in Nat
BY ObserveAssumption, FS_Subset, FS_CardinalityType

\* When one worker joins or leaves, the number changes by one.
LEMMA OneWorker ==
    ASSUME NEW A \in SUBSET Workers, NEW B \in SUBSET Workers, NEW w \in Workers,
           \A v \in Workers \ {w} : v \in A <=> v \in B
    PROVE  /\ (w \in A <=> w \in B) => Cardinality(B) = Cardinality(A)
           /\ w \notin A /\ w \in B => Cardinality(B) = Cardinality(A) + 1
           /\ w \in A /\ w \notin B => Cardinality(B) = Cardinality(A) - 1
<1>1. IsFiniteSet(A) /\ Cardinality(A) \in Nat
  BY SomeWorkers
<1>2. CASE w \in B
  <2>1. B = A \cup {w}
    BY <1>2
  <2> QED BY <1>1, <1>2, <2>1, FS_AddElement
<1>3. CASE w \notin B
  <2>1. B = A \ {w}
    BY <1>3
  <2> QED BY <1>1, <1>3, <2>1, FS_RemoveElement
<1> QED BY <1>2, <1>3

\* No other worker moves.
Elsewhere(w) ==
    \A v \in Workers \ {w} : pc'[v] = pc[v] /\ err'[v] = err[v] /\ sampled'[v] = sampled[v]

LEMMA Moves ==
    ASSUME NEW w \in Workers, Elsewhere(w), NEW places
    PROVE  /\ pc[w] \in places /\ pc'[w] \in places =>
                Cardinality(Among(places)') = Cardinality(Among(places))
           /\ pc[w] \notin places /\ pc'[w] \notin places =>
                Cardinality(Among(places)') = Cardinality(Among(places))
           /\ pc[w] \notin places /\ pc'[w] \in places =>
                Cardinality(Among(places)') = Cardinality(Among(places)) + 1
           /\ pc[w] \in places /\ pc'[w] \notin places =>
                Cardinality(Among(places)') = Cardinality(Among(places)) - 1
<1>1. /\ Among(places) \in SUBSET Workers /\ Among(places)' \in SUBSET Workers
      /\ w \in Among(places) <=> pc[w] \in places
      /\ w \in Among(places)' <=> pc'[w] \in places
      /\ \A v \in Workers \ {w} : v \in Among(places) <=> v \in Among(places)'
  BY DEF Elsewhere, Among
<1> QED BY <1>1, OneWorker

LEMMA ErringMoves ==
    ASSUME NEW w \in Workers, Elsewhere(w), NEW places
    PROVE  /\ /\ err[w] /\ pc[w] \in places
              /\ err'[w] /\ pc'[w] \in places
              => Cardinality(ErringAmong(places)') = Cardinality(ErringAmong(places))
           /\ /\ ~err[w] \/ pc[w] \notin places
              /\ ~err'[w] \/ pc'[w] \notin places
              => Cardinality(ErringAmong(places)') = Cardinality(ErringAmong(places))
           /\ /\ ~err[w] \/ pc[w] \notin places
              /\ err'[w] /\ pc'[w] \in places
              => Cardinality(ErringAmong(places)') = Cardinality(ErringAmong(places)) + 1
           /\ /\ err[w] /\ pc[w] \in places
              /\ ~err'[w] \/ pc'[w] \notin places
              => Cardinality(ErringAmong(places)') = Cardinality(ErringAmong(places)) - 1
<1>1. /\ ErringAmong(places) \in SUBSET Workers /\ ErringAmong(places)' \in SUBSET Workers
      /\ w \in ErringAmong(places) <=> err[w] /\ pc[w] \in places
      /\ w \in ErringAmong(places)' <=> err'[w] /\ pc'[w] \in places
      /\ \A v \in Workers \ {w} : v \in ErringAmong(places) <=> v \in ErringAmong(places)'
  BY DEF Elsewhere, ErringAmong
<1> QED BY <1>1, OneWorker

LEMMA SampledMoves ==
    ASSUME NEW w \in Workers, Elsewhere(w), NEW places
    PROVE  /\ /\ sampled[w] /\ pc[w] \in places
              /\ sampled'[w] /\ pc'[w] \in places
              => Cardinality(SampledAmong(places)') = Cardinality(SampledAmong(places))
           /\ /\ ~sampled[w] \/ pc[w] \notin places
              /\ ~sampled'[w] \/ pc'[w] \notin places
              => Cardinality(SampledAmong(places)') = Cardinality(SampledAmong(places))
           /\ /\ ~sampled[w] \/ pc[w] \notin places
              /\ sampled'[w] /\ pc'[w] \in places
              => Cardinality(SampledAmong(places)') = Cardinality(SampledAmong(places)) + 1
           /\ /\ sampled[w] /\ pc[w] \in places
              /\ ~sampled'[w] \/ pc'[w] \notin places
              => Cardinality(SampledAmong(places)') = Cardinality(SampledAmong(places)) - 1
<1>1. /\ SampledAmong(places) \in SUBSET Workers /\ SampledAmong(places)' \in SUBSET Workers
      /\ w \in SampledAmong(places) <=> sampled[w] /\ pc[w] \in places
      /\ w \in SampledAmong(places)' <=> sampled'[w] /\ pc'[w] \in places
      /\ \A v \in Workers \ {w} : v \in SampledAmong(places) <=> v \in SampledAmong(places)'
  BY DEF Elsewhere, SampledAmong
<1> QED BY <1>1, OneWorker

\* How many workers there are at each of these places is a number.
LEMMA Numbers ==
    /\ Cardinality(Uncounted) \in Nat /\ Cardinality(Unmeasured) \in Nat
    /\ Cardinality(Open) \in Nat /\ Cardinality(Erring) \in Nat
    /\ Cardinality(Reporting) \in Nat
BY SomeWorkers DEF Uncounted, Unmeasured, Open, Erring, Reporting, Among, ErringAmong,
  SampledAmong

LEMMA NumbersNext ==
    /\ Cardinality(Uncounted') \in Nat /\ Cardinality(Unmeasured') \in Nat
    /\ Cardinality(Open') \in Nat /\ Cardinality(Erring') \in Nat
    /\ Cardinality(Reporting') \in Nat
BY SomeWorkers DEF Uncounted, Unmeasured, Open, Erring, Reporting, Among, ErringAmong,
  SampledAmong

\* Before the middleware is made nobody is anywhere.
LEMMA NobodyYet ==
    ASSUME \A w \in Workers : pc[w] = "idle"
    PROVE  /\ Cardinality(Uncounted) = 0 /\ Cardinality(Unmeasured) = 0
           /\ Cardinality(Open) = 0 /\ Cardinality(Erring) = 0 /\ Cardinality(Reporting) = 0
<1>1. Uncounted = {} /\ Unmeasured = {} /\ Open = {} /\ Erring = {} /\ Reporting = {}
  BY DEF Uncounted, Unmeasured, Open, Erring, Reporting, Among, ErringAmong,
  SampledAmong
<1> QED BY <1>1, FS_EmptySet

LEMMA InitInv == Init => Inv
<1> SUFFICES ASSUME Init PROVE Inv
  OBVIOUS
<1>1. TypeOK
  BY DEF Init, TypeOK, Active
<1>2. Phases
  BY DEF Init, Phases
<1>3. Counts /\ Sampling
  BY DEF Init, Counts, Sampling
<1> QED BY <1>1, <1>2, <1>3 DEF Inv

\* Where no worker moves, the numbers stay as they are.
LEMMA NobodyMoves ==
    ASSUME UNCHANGED <<pc, err, sampled>>
    PROVE  /\ Uncounted' = Uncounted /\ Unmeasured' = Unmeasured /\ Open' = Open
           /\ Erring' = Erring /\ Reporting' = Reporting /\ Active' = Active
BY DEF Uncounted, Unmeasured, Open, Erring, Reporting, Among, ErringAmong,
  SampledAmong, Active

-----------------------------------------------------------------------------
(***************************************************************************)
(* The observer is made and shut down.                                     *)
(***************************************************************************)
LEMMA SetupInv ==
    ASSUME Inv, Validate \/ SetupTracing \/ SetupMetrics \/ MakeMiddleware
    PROVE  Inv'
<1>1. /\ phase # "wrapped" /\ UNCHANGED configVars /\ UNCHANGED workVars
      /\ phase' \in {"tracing", "metrics", "ready", "wrapped", "failed"}
  BY DEF Validate, SetupTracing, SetupMetrics, MakeMiddleware
<1>2. TypeOK /\ Phases /\ Counts
  BY DEF Inv
<1>3. /\ tp' = tp \/ (tp' = "none") \/ (phase = "tracing" /\ tp' = "up" /\ cfg.tracing)
      /\ mp' = mp \/ (mp' = "none") \/ (phase = "metrics" /\ mp' = "up" /\ cfg.metrics)
  BY DEF Validate, SetupTracing, SetupMetrics, MakeMiddleware
<1>4. Active = {} /\ Active' = {}
  BY <1>1, <1>2 DEF TypeOK, Active, workVars
<1>5. TypeOK'
  BY <1>1, <1>2, <1>3, <1>4
  DEF TypeOK, workVars, configVars, metricVars, spanVars, historyVars
<1>6. Phases'
  <2>1. /\ total' = 0 /\ errors' = 0 /\ durations' = 0 /\ spans' = 0
        /\ returned' = 0 /\ failed' = 0 /\ panicked' = 0 /\ abandoned' = 0
    BY <1>1, <1>2 DEF Phases, workVars, metricVars, spanVars, historyVars
  <2>2. /\ phase' \in {"validate", "tracing"} => tp' = "none"
        /\ phase' \in {"validate", "tracing", "metrics"} => mp' = "none"
    BY <1>2 DEF Phases, Validate, SetupTracing, SetupMetrics, MakeMiddleware
  <2>3. closing' = closing
    BY <1>1 DEF workVars
  <2>4. phase = "ready" => UNCHANGED <<tp, mp>> /\ phase' = "wrapped"
    BY DEF Validate, SetupTracing, SetupMetrics, MakeMiddleware
  <2>5. \A w \in Workers : pc'[w] = "errors" => err'[w]
    BY <1>1, <1>2 DEF Phases, workVars
  <2>6. \A w \in Workers : ~sampled'[w]
    BY <1>1, <1>2 DEF Phases, workVars, spanVars
  <2> QED BY <1>1, <1>2, <2>1, <2>2, <2>3, <2>4, <2>5, <2>6 DEF Phases
<1>7. Counts'
  <2>1. /\ total' = 0 /\ errors' = 0 /\ durations' = 0 /\ spans' = 0
        /\ returned' = 0 /\ failed' = 0 /\ panicked' = 0 /\ abandoned' = 0
    BY <1>1, <1>2 DEF Phases, workVars, metricVars, spanVars, historyVars
  <2>2. /\ Cardinality(Uncounted) = 0 /\ Cardinality(Unmeasured) = 0
        /\ Cardinality(Open) = 0 /\ Cardinality(Erring) = 0 /\ Cardinality(Reporting) = 0
    BY <1>4, NobodyYet DEF Active
  <2>3. /\ Uncounted' = Uncounted /\ Unmeasured' = Unmeasured /\ Open' = Open
        /\ Erring' = Erring /\ Reporting' = Reporting
    BY <1>1, NobodyMoves DEF workVars, spanVars
  <2> QED BY <2>1, <2>2, <2>3 DEF Counts
<1>8. Sampling'
  <2>1. panicked' = 0 /\ abandoned' = 0 /\ \A w \in Workers : ~sampled'[w]
    BY <1>1, <1>2 DEF Phases, workVars, spanVars, historyVars
  <2>2. \A w \in Workers : pc'[w] = "idle"
    BY <1>1, <1>4 DEF Active, workVars
  <2> QED BY <2>1, <2>2 DEF Sampling
<1> QED BY <1>5, <1>6, <1>7, <1>8 DEF Inv

LEMMA ShutdownInv ==
    ASSUME Inv, NEW c \in Closers, ShutdownTracer(c) \/ ShutdownMeter(c)
    PROVE  Inv'
<1>1. /\ UNCHANGED <<configVars, phase, pc, err, metricVars, spanVars, historyVars>>
      /\ \/ closing[c] = "idle" /\ closing' = [closing EXCEPT ![c] = "meter"]
            /\ phase \in {"ready", "wrapped"} /\ tp' = Down(tp) /\ mp' = mp
         \/ closing[c] = "meter" /\ closing' = [closing EXCEPT ![c] = "done"]
            /\ mp' = Down(mp) /\ tp' = tp
  BY DEF ShutdownTracer, ShutdownMeter
<1>2. TypeOK /\ Phases /\ Counts /\ Sampling
  BY DEF Inv
<1>3. Active' = Active
  BY <1>1, NobodyMoves DEF spanVars
<1>4. TypeOK'
  BY <1>1, <1>2, <1>3 DEF TypeOK, Down, configVars, metricVars, spanVars, historyVars
<1>5. tp' # "up" \/ tp' = tp
  BY <1>1 DEF Down
<1>6. mp' # "up" \/ mp' = mp
  BY <1>1 DEF Down
<1>7. Phases'
  <2>1. phase \in {"ready", "wrapped"}
    BY <1>1, <1>2 DEF Phases
  <2>2. \A d \in Closers : closing'[d] # "idle" => tp' # "up"
    BY <1>1, <1>2 DEF Phases, TypeOK, Down
  <2>3. \A d \in Closers : closing'[d] = "done" => mp' # "up"
    BY <1>1, <1>2 DEF Phases, TypeOK, Down
  <2>4. phase # "wrapped" =>
          /\ total' = 0 /\ errors' = 0 /\ durations' = 0 /\ spans' = 0
          /\ returned' = 0 /\ failed' = 0 /\ panicked' = 0 /\ abandoned' = 0
          /\ \A w \in Workers : ~sampled'[w]
    BY <1>1, <1>2 DEF Phases, metricVars, spanVars, historyVars
  <2>5. \A w \in Workers : pc'[w] = "errors" => err'[w]
    BY <1>1, <1>2 DEF Phases
  <2> QED BY <1>1, <2>1, <2>2, <2>3, <2>4, <2>5 DEF Phases
<1>8. Counts'
  BY <1>1, <1>2, <1>5, <1>6, NobodyMoves DEF Counts, metricVars, spanVars, historyVars
<1>9. Sampling'
  BY <1>1, <1>2, <1>5 DEF Sampling, All, Nothing, configVars, spanVars, historyVars
<1> QED BY <1>4, <1>7, <1>8, <1>9 DEF Inv

-----------------------------------------------------------------------------
(***************************************************************************)
(* The steps of a worker.                                                  *)
(***************************************************************************)
LEMMA WorkerStep ==
    ASSUME Inv, NEW w \in Workers, pc[w] # "idle" \/ phase = "wrapped",
           pc' \in [Workers -> {"idle", "running", "end span", "total", "errors", "duration",
                               "log", "newline"}],
           err' \in [Workers -> BOOLEAN], sampled' \in [Workers -> BOOLEAN], Elsewhere(w),
           pc'[w] = "errors" => err'[w],
           UNCHANGED <<observerVars, closing>>,
           total' \in Nat, errors' \in Nat, durations' \in Nat, spans' \in Nat,
           returned' \in Nat, failed' \in Nat, panicked' \in Nat, abandoned' \in Nat,
           Counts', Sampling'
    PROVE  Inv'
<1>1. phase = "wrapped"
  BY DEF Inv, TypeOK, Active
<1>2. TypeOK'
  BY <1>1 DEF Inv, TypeOK, observerVars, configVars
<1>3. \A v \in Workers : pc'[v] = "errors" => err'[v]
  BY DEF Elsewhere, Inv, Phases
<1>4. Phases'
  BY <1>1, <1>3 DEF Inv, Phases, observerVars, configVars
<1> QED BY <1>2, <1>4 DEF Inv

\* A worker goes to another place, and its span may be another.
LEMMA Going ==
    ASSUME TypeOK, NEW w \in Workers, NEW s \in BOOLEAN,
           NEW to \in {"idle", "running", "end span", "total", "errors", "duration", "log",
                       "newline"},
           pc' = [pc EXCEPT ![w] = to], UNCHANGED err, sampled' = [sampled EXCEPT ![w] = s]
    PROVE  /\ pc' \in [Workers -> {"idle", "running", "end span", "total", "errors",
                                   "duration", "log", "newline"}]
           /\ err' \in [Workers -> BOOLEAN] /\ sampled' \in [Workers -> BOOLEAN]
           /\ Elsewhere(w) /\ pc'[w] = to /\ err'[w] = err[w] /\ sampled'[w] = s
BY DEF TypeOK, Elsewhere

\* Or it stays.
LEMMA GoingOn ==
    ASSUME TypeOK, NEW w \in Workers,
           NEW to \in {"idle", "running", "end span", "total", "errors", "duration", "log",
                       "newline"},
           pc' = [pc EXCEPT ![w] = to], UNCHANGED <<err, sampled>>
    PROVE  /\ pc' \in [Workers -> {"idle", "running", "end span", "total", "errors",
                                   "duration", "log", "newline"}]
           /\ err' \in [Workers -> BOOLEAN] /\ sampled' \in [Workers -> BOOLEAN]
           /\ Elsewhere(w) /\ pc'[w] = to /\ err'[w] = err[w]
BY DEF TypeOK, Elsewhere

\* A step that is not about spans leaves the sampled ones as they are.
LEMMA SamplingKept ==
    ASSUME Inv, NEW w \in Workers, Elsewhere(w),
           UNCHANGED <<observerVars, sampled, panicked, abandoned>>,
           pc'[w] \in {"running", "end span"} => pc[w] \in {"running", "end span"}
    PROVE  Sampling'
BY DEF Inv, Sampling, All, Nothing, Elsewhere, observerVars, configVars

LEMMA StartSpanInv ==
    ASSUME Inv, NEW w \in Workers, StartSpan(w)
    PROVE  Inv'
<1>1. TypeOK /\ Counts /\ Sampling
  BY DEF Inv
<1>2. pc[w] = "idle" /\ phase = "wrapped" /\ UNCHANGED <<observerVars, closing>>
  BY DEF StartSpan
<1>a. PICK s \in IF tp = "up" THEN Samples ELSE {FALSE} :
        /\ sampled' = [sampled EXCEPT ![w] = s]
        /\ spans' = IF s THEN spans + 1 ELSE spans
  BY DEF StartSpan
<1>b. /\ s \in BOOLEAN
      /\ s => tp = "up" /\ ~Nothing
      /\ ~s => tp # "up" \/ ~All
  BY DEF Samples, All, Nothing
<1>3. /\ pc' \in [Workers -> {"idle", "running", "end span", "total", "errors",
                              "duration", "log", "newline"}]
      /\ err' \in [Workers -> BOOLEAN] /\ sampled' \in [Workers -> BOOLEAN]
      /\ Elsewhere(w) /\ pc'[w] = "running" /\ err'[w] = err[w] /\ sampled'[w] = s
  BY <1>a, <1>1, <1>b, Going DEF StartSpan
<1>4. /\ Cardinality(Uncounted') = Cardinality(Uncounted)
      /\ Cardinality(Unmeasured') = Cardinality(Unmeasured)
      /\ s => Cardinality(Open') = Cardinality(Open) + 1
      /\ ~s => Cardinality(Open') = Cardinality(Open)
      /\ Cardinality(Erring') = Cardinality(Erring)
      /\ Cardinality(Reporting') = Cardinality(Reporting)
  BY <1>2, <1>3, <1>b, Moves, ErringMoves, SampledMoves
  DEF Uncounted, Unmeasured, Open, Erring, Reporting
<1>5. /\ total' = total /\ errors' = errors /\ durations' = durations
      /\ returned' = returned /\ failed' = failed /\ panicked' = panicked
      /\ abandoned' = abandoned /\ tp' = tp /\ mp' = mp /\ cfg' = cfg
  BY DEF StartSpan, metricVars, historyVars, observerVars, configVars
<1>6. /\ total \in Nat /\ errors \in Nat /\ durations \in Nat /\ spans \in Nat
      /\ returned \in Nat /\ failed \in Nat /\ panicked \in Nat /\ abandoned \in Nat
  BY <1>1 DEF TypeOK
<1>7. Counts' /\ spans' \in Nat
  <2>1. CASE s
    BY <1>a, <1>1, <1>4, <1>5, <1>6, <1>b, <2>1, Numbers DEF Counts
  <2>2. CASE ~s
    BY <1>a, <1>1, <1>4, <1>5, <1>6, <1>b, <2>2, Numbers DEF Counts
  <2> QED BY <2>1, <2>2
<1>8. /\ total' \in Nat /\ errors' \in Nat /\ durations' \in Nat
      /\ returned' \in Nat /\ failed' \in Nat /\ panicked' \in Nat /\ abandoned' \in Nat
  BY <1>5, <1>6
<1>9. Sampling'
  <2>1. \A v \in Workers \ {w} : pc'[v] = pc[v] /\ sampled'[v] = sampled[v]
    BY <1>3 DEF Elsewhere
  <2>2. (All)' = All /\ (Nothing)' = Nothing
    BY <1>5 DEF All, Nothing
  <2> QED BY <1>1, <1>3, <1>5, <1>b, <2>1, <2>2 DEF Sampling
<1> QED BY <1>2, <1>3, <1>7, <1>8, <1>9, WorkerStep

LEMMA ReturnsInv ==
    ASSUME Inv, NEW w \in Workers, Returns(w)
    PROVE  Inv'
<1>1. TypeOK /\ Counts
  BY DEF Inv
<1>2. pc[w] = "running" /\ UNCHANGED <<observerVars, closing>>
  BY DEF Returns
<1>3. PICK e \in BOOLEAN : /\ err' = [err EXCEPT ![w] = e]
                           /\ failed' = IF e THEN failed + 1 ELSE failed
  BY DEF Returns
<1>4. /\ pc' \in [Workers -> {"idle", "running", "end span", "total", "errors",
                              "duration", "log", "newline"}]
      /\ err' \in [Workers -> BOOLEAN] /\ sampled' = sampled
      /\ sampled' \in [Workers -> BOOLEAN] /\ Elsewhere(w)
      /\ pc'[w] = "end span" /\ err'[w] = e
  BY <1>1, <1>3 DEF Returns, TypeOK, Elsewhere, spanVars
<1>5. /\ Cardinality(Uncounted') = Cardinality(Uncounted) + 1
      /\ Cardinality(Unmeasured') = Cardinality(Unmeasured) + 1
      /\ Cardinality(Open') = Cardinality(Open)
      /\ Cardinality(Reporting') = Cardinality(Reporting)
  BY <1>2, <1>4, Moves, ErringMoves, SampledMoves DEF Uncounted, Unmeasured, Open, Reporting
<1>6. /\ e => Cardinality(Erring') = Cardinality(Erring) + 1
      /\ ~e => Cardinality(Erring') = Cardinality(Erring)
  BY <1>2, <1>4, ErringMoves DEF Erring
<1>7. /\ total' = total /\ errors' = errors /\ durations' = durations /\ spans' = spans
      /\ returned' = returned + 1 /\ panicked' = panicked /\ abandoned' = abandoned
      /\ tp' = tp /\ mp' = mp
  BY DEF Returns, metricVars, spanVars, observerVars
<1>8. /\ total \in Nat /\ errors \in Nat /\ durations \in Nat /\ spans \in Nat
      /\ returned \in Nat /\ failed \in Nat /\ panicked \in Nat /\ abandoned \in Nat
  BY <1>1 DEF TypeOK
<1>9. failed' \in Nat /\ (mp = "up" => failed' = errors' + Cardinality(Erring'))
  <2>1. CASE e
    BY <1>1, <1>3, <1>6, <1>7, <1>8, <2>1, Numbers DEF Counts
  <2>2. CASE ~e
    BY <1>1, <1>3, <1>6, <1>7, <1>8, <2>2, Numbers DEF Counts
  <2> QED BY <2>1, <2>2
<1>10. Counts'
  BY <1>1, <1>5, <1>7, <1>8, <1>9, Numbers DEF Counts
<1>11. /\ total' \in Nat /\ errors' \in Nat /\ durations' \in Nat /\ spans' \in Nat
       /\ returned' \in Nat /\ panicked' \in Nat /\ abandoned' \in Nat
  BY <1>7, <1>8
<1>12. Sampling'
  BY <1>2, <1>4, <1>7, SamplingKept
<1> QED BY <1>2, <1>4, <1>9, <1>10, <1>11, <1>12, WorkerStep

LEMMA PanicsInv ==
    ASSUME Inv, NEW w \in Workers, Panics(w)
    PROVE  Inv'
<1>1. TypeOK /\ Counts /\ Sampling
  BY DEF Inv
<1>2. pc[w] = "running" /\ UNCHANGED <<observerVars, closing>>
  BY DEF Panics
<1>3. /\ pc' \in [Workers -> {"idle", "running", "end span", "total", "errors",
                              "duration", "log", "newline"}]
      /\ err' \in [Workers -> BOOLEAN] /\ sampled' \in [Workers -> BOOLEAN]
      /\ Elsewhere(w) /\ pc'[w] = "idle" /\ err'[w] = err[w] /\ sampled'[w] = FALSE
  BY <1>1, Going DEF Panics
<1>4. /\ Cardinality(Uncounted') = Cardinality(Uncounted)
      /\ Cardinality(Unmeasured') = Cardinality(Unmeasured)
      /\ sampled[w] => Cardinality(Open') = Cardinality(Open) - 1
      /\ ~sampled[w] => Cardinality(Open') = Cardinality(Open)
      /\ Cardinality(Erring') = Cardinality(Erring)
      /\ Cardinality(Reporting') = Cardinality(Reporting)
  BY <1>2, <1>3, Moves, ErringMoves, SampledMoves
  DEF Uncounted, Unmeasured, Open, Erring, Reporting
<1>5. /\ total' = total /\ errors' = errors /\ durations' = durations /\ spans' = spans
      /\ returned' = returned /\ failed' = failed /\ panicked' = panicked + 1
      /\ abandoned' = IF sampled[w] THEN abandoned + 1 ELSE abandoned
      /\ tp' = tp /\ mp' = mp /\ cfg' = cfg
  BY DEF Panics, metricVars, observerVars, configVars
<1>6. /\ total \in Nat /\ errors \in Nat /\ durations \in Nat /\ spans \in Nat
      /\ returned \in Nat /\ failed \in Nat /\ panicked \in Nat /\ abandoned \in Nat
  BY <1>1 DEF TypeOK
<1>7. Counts'
  <2>1. CASE sampled[w]
    BY <1>1, <1>4, <1>5, <1>6, <2>1, Numbers DEF Counts
  <2>2. CASE ~sampled[w]
    BY <1>1, <1>4, <1>5, <1>6, <2>2, Numbers DEF Counts
  <2> QED BY <2>1, <2>2
<1>8. /\ total' \in Nat /\ errors' \in Nat /\ durations' \in Nat /\ spans' \in Nat
      /\ returned' \in Nat /\ failed' \in Nat /\ panicked' \in Nat /\ abandoned' \in Nat
  BY <1>5, <1>6
<1>9. Sampling'
  <2>1. \A v \in Workers \ {w} : pc'[v] = pc[v] /\ sampled'[v] = sampled[v]
    BY <1>3 DEF Elsewhere
  <2>2. (All)' = All /\ (Nothing)' = Nothing
    BY <1>5 DEF All, Nothing
  <2> QED BY <1>1, <1>2, <1>3, <1>5, <2>1, <2>2 DEF Sampling
<1> QED BY <1>2, <1>3, <1>7, <1>8, <1>9, WorkerStep

LEMMA EndSpanInv ==
    ASSUME Inv, NEW w \in Workers, EndSpan(w)
    PROVE  Inv'
<1>1. TypeOK /\ Counts /\ Sampling
  BY DEF Inv
<1>2. pc[w] = "end span" /\ UNCHANGED <<observerVars, closing>>
  BY DEF EndSpan
<1>3. /\ pc' \in [Workers -> {"idle", "running", "end span", "total", "errors",
                              "duration", "log", "newline"}]
      /\ err' \in [Workers -> BOOLEAN] /\ sampled' \in [Workers -> BOOLEAN]
      /\ Elsewhere(w) /\ pc'[w] = "total" /\ err'[w] = err[w] /\ sampled'[w] = FALSE
  BY <1>1, Going DEF EndSpan
<1>4. /\ Cardinality(Uncounted') = Cardinality(Uncounted)
      /\ Cardinality(Unmeasured') = Cardinality(Unmeasured)
      /\ sampled[w] => Cardinality(Open') = Cardinality(Open) - 1
      /\ ~sampled[w] => Cardinality(Open') = Cardinality(Open)
      /\ Cardinality(Erring') = Cardinality(Erring)
      /\ Cardinality(Reporting') = Cardinality(Reporting)
  BY <1>2, <1>3, Moves, ErringMoves, SampledMoves
  DEF Uncounted, Unmeasured, Open, Erring, Reporting
<1>5. /\ total' = total /\ errors' = errors /\ durations' = durations
      /\ returned' = returned /\ failed' = failed /\ panicked' = panicked
      /\ abandoned' = abandoned /\ tp' = tp /\ mp' = mp /\ cfg' = cfg
      /\ spans' = IF tp = "up" /\ sampled[w] THEN spans - 1 ELSE spans
  BY DEF EndSpan, metricVars, historyVars, observerVars, configVars
<1>6. /\ total \in Nat /\ errors \in Nat /\ durations \in Nat /\ spans \in Nat
      /\ returned \in Nat /\ failed \in Nat /\ panicked \in Nat /\ abandoned \in Nat
  BY <1>1 DEF TypeOK
<1>7. Counts' /\ spans' \in Nat
  <2>1. CASE sampled[w]
    BY <1>1, <1>4, <1>5, <1>6, <2>1, Numbers, NumbersNext DEF Counts
  <2>2. CASE ~sampled[w]
    BY <1>1, <1>4, <1>5, <1>6, <2>2, Numbers DEF Counts
  <2> QED BY <2>1, <2>2
<1>8. /\ total' \in Nat /\ errors' \in Nat /\ durations' \in Nat
      /\ returned' \in Nat /\ failed' \in Nat /\ panicked' \in Nat /\ abandoned' \in Nat
  BY <1>5, <1>6
<1>9. Sampling'
  <2>1. \A v \in Workers \ {w} : pc'[v] = pc[v] /\ sampled'[v] = sampled[v]
    BY <1>3 DEF Elsewhere
  <2>2. (All)' = All /\ (Nothing)' = Nothing
    BY <1>5 DEF All, Nothing
  <2> QED BY <1>1, <1>2, <1>3, <1>5, <2>1, <2>2 DEF Sampling
<1> QED BY <1>2, <1>3, <1>7, <1>8, <1>9, WorkerStep

LEMMA AddTotalInv ==
    ASSUME Inv, NEW w \in Workers, AddTotal(w)
    PROVE  Inv'
<1>1. TypeOK /\ Counts
  BY DEF Inv
<1>2. pc[w] = "total" /\ UNCHANGED <<observerVars, closing>>
  BY DEF AddTotal
<1>3. /\ pc' \in [Workers -> {"idle", "running", "end span", "total", "errors",
                              "duration", "log", "newline"}]
      /\ err' \in [Workers -> BOOLEAN] /\ sampled' = sampled
      /\ sampled' \in [Workers -> BOOLEAN] /\ Elsewhere(w) /\ err'[w] = err[w]
      /\ err[w] => pc'[w] = "errors"
      /\ ~err[w] => pc'[w] = "duration"
  BY <1>1, GoingOn DEF AddTotal, spanVars
<1>4. /\ Cardinality(Uncounted') = Cardinality(Uncounted) - 1
      /\ Cardinality(Unmeasured') = Cardinality(Unmeasured)
      /\ Cardinality(Open') = Cardinality(Open)
  BY <1>2, <1>3, Moves, SampledMoves DEF Uncounted, Unmeasured, Open
<1>5. /\ Cardinality(Erring') = Cardinality(Erring)
      /\ Cardinality(Reporting') <= Cardinality(Reporting) + 1
  <2>1. CASE err[w]
    <3>1. /\ Cardinality(Erring') = Cardinality(Erring)
          /\ Cardinality(Reporting') = Cardinality(Reporting) + 1
      BY <1>2, <1>3, <2>1, ErringMoves DEF Erring, Reporting
    <3> QED BY <3>1, Numbers
  <2>2. CASE ~err[w]
    <3>1. /\ Cardinality(Erring') = Cardinality(Erring)
          /\ Cardinality(Reporting') = Cardinality(Reporting)
      BY <1>2, <1>3, <2>2, ErringMoves DEF Erring, Reporting
    <3> QED BY <3>1, Numbers
  <2> QED BY <2>1, <2>2
<1>6. /\ errors' = errors /\ durations' = durations /\ spans' = spans
      /\ returned' = returned /\ failed' = failed /\ panicked' = panicked
      /\ abandoned' = abandoned /\ tp' = tp /\ mp' = mp /\ total' = IF mp = "up" THEN total + 1 ELSE total
  BY DEF AddTotal, Given, spanVars, historyVars, observerVars
<1>7. /\ total \in Nat /\ errors \in Nat /\ durations \in Nat /\ spans \in Nat
      /\ returned \in Nat /\ failed \in Nat /\ panicked \in Nat /\ abandoned \in Nat
  BY <1>1 DEF TypeOK
<1>8. Counts' /\ total' \in Nat
  <2>1. CASE mp = "up"
    BY <1>1, <1>4, <1>5, <1>6, <1>7, <2>1, Numbers, NumbersNext DEF Counts
  <2>2. CASE mp # "up"
    BY <1>1, <1>4, <1>6, <1>7, <2>2 DEF Counts
  <2> QED BY <2>1, <2>2
<1>9. /\ errors' \in Nat /\ durations' \in Nat /\ spans' \in Nat
      /\ returned' \in Nat /\ failed' \in Nat /\ panicked' \in Nat /\ abandoned' \in Nat
  BY <1>6, <1>7
<1>10. pc'[w] = "errors" => err'[w]
  BY <1>3
<1>11. Sampling'
  BY <1>2, <1>3, <1>6, SamplingKept
<1> QED BY <1>2, <1>3, <1>8, <1>9, <1>10, <1>11, WorkerStep

LEMMA AddErrorsInv ==
    ASSUME Inv, NEW w \in Workers, AddErrors(w)
    PROVE  Inv'
<1>1. TypeOK /\ Counts
  BY DEF Inv
<1>2. pc[w] = "errors" /\ UNCHANGED <<observerVars, closing>>
  BY DEF AddErrors
<1>3. /\ pc' \in [Workers -> {"idle", "running", "end span", "total", "errors",
                              "duration", "log", "newline"}]
      /\ err' \in [Workers -> BOOLEAN] /\ sampled' = sampled
      /\ sampled' \in [Workers -> BOOLEAN] /\ Elsewhere(w)
      /\ pc'[w] = "duration" /\ err'[w] = err[w]
  BY <1>1, GoingOn DEF AddErrors, spanVars
<1>4. err[w]
  BY <1>2 DEF Inv, Phases
<1>5. /\ Cardinality(Uncounted') = Cardinality(Uncounted)
      /\ Cardinality(Unmeasured') = Cardinality(Unmeasured)
      /\ Cardinality(Open') = Cardinality(Open)
  BY <1>2, <1>3, Moves, SampledMoves DEF Uncounted, Unmeasured, Open
<1>6. /\ Cardinality(Erring') = Cardinality(Erring) - 1
      /\ Cardinality(Reporting') = Cardinality(Reporting) - 1
  BY <1>2, <1>3, <1>4, ErringMoves DEF Erring, Reporting
<1>7. /\ total' = total /\ durations' = durations /\ spans' = spans
      /\ returned' = returned /\ failed' = failed /\ panicked' = panicked
      /\ abandoned' = abandoned /\ tp' = tp /\ mp' = mp /\ errors' = IF mp = "up" THEN errors + 1 ELSE errors
  BY DEF AddErrors, Given, spanVars, historyVars, observerVars
<1>8. /\ total \in Nat /\ errors \in Nat /\ durations \in Nat /\ spans \in Nat
      /\ returned \in Nat /\ failed \in Nat /\ panicked \in Nat /\ abandoned \in Nat
  BY <1>1 DEF TypeOK
<1>9. Counts' /\ errors' \in Nat
  <2>1. CASE mp = "up"
    BY <1>1, <1>5, <1>6, <1>7, <1>8, <2>1, Numbers, NumbersNext DEF Counts
  <2>2. CASE mp # "up"
    BY <1>1, <1>5, <1>7, <1>8, <2>2 DEF Counts
  <2> QED BY <2>1, <2>2
<1>10. /\ total' \in Nat /\ durations' \in Nat /\ spans' \in Nat
       /\ returned' \in Nat /\ failed' \in Nat /\ panicked' \in Nat /\ abandoned' \in Nat
  BY <1>7, <1>8
<1>11. Sampling'
  BY <1>2, <1>3, <1>7, SamplingKept
<1> QED BY <1>2, <1>3, <1>9, <1>10, <1>11, WorkerStep

\* What is not counted is not measured either.
LEMMA UncountedUnmeasured == Cardinality(Uncounted') <= Cardinality(Unmeasured')
<1>1. Unmeasured' \in SUBSET Workers /\ Uncounted' \in SUBSET Unmeasured'
  BY DEF Uncounted, Unmeasured, Among
<1>2. IsFiniteSet(Unmeasured')
  BY <1>1, SomeWorkers
<1> QED BY <1>1, <1>2, FS_Subset

LEMMA RecordDurationInv ==
    ASSUME Inv, NEW w \in Workers, RecordDuration(w)
    PROVE  Inv'
<1>1. TypeOK /\ Counts
  BY DEF Inv
<1>2. pc[w] = "duration" /\ UNCHANGED <<observerVars, closing>>
  BY DEF RecordDuration
<1>3. /\ pc' \in [Workers -> {"idle", "running", "end span", "total", "errors",
                              "duration", "log", "newline"}]
      /\ err' \in [Workers -> BOOLEAN] /\ sampled' = sampled
      /\ sampled' \in [Workers -> BOOLEAN] /\ Elsewhere(w)
      /\ pc'[w] = "log" /\ err'[w] = err[w]
  BY <1>1, GoingOn DEF RecordDuration, spanVars
<1>4. /\ Cardinality(Uncounted') = Cardinality(Uncounted)
      /\ Cardinality(Unmeasured') = Cardinality(Unmeasured) - 1
      /\ Cardinality(Open') = Cardinality(Open)
      /\ Cardinality(Erring') = Cardinality(Erring)
      /\ Cardinality(Reporting') = Cardinality(Reporting)
  BY <1>2, <1>3, Moves, ErringMoves, SampledMoves
  DEF Uncounted, Unmeasured, Open, Erring, Reporting
<1>5. /\ total' = total /\ errors' = errors /\ spans' = spans
      /\ returned' = returned /\ failed' = failed /\ panicked' = panicked
      /\ abandoned' = abandoned /\ tp' = tp /\ mp' = mp /\ durations' = IF mp = "up" THEN durations + 1 ELSE durations
  BY DEF RecordDuration, Given, spanVars, historyVars, observerVars
<1>6. /\ total \in Nat /\ errors \in Nat /\ durations \in Nat /\ spans \in Nat
      /\ returned \in Nat /\ failed \in Nat /\ panicked \in Nat /\ abandoned \in Nat
  BY <1>1 DEF TypeOK
<1>7. Counts' /\ durations' \in Nat
  <2>1. CASE mp = "up"
    BY <1>1, <1>4, <1>5, <1>6, <2>1, Numbers, NumbersNext, UncountedUnmeasured DEF Counts
  <2>2. CASE mp # "up"
    BY <1>1, <1>4, <1>5, <1>6, <2>2 DEF Counts
  <2> QED BY <2>1, <2>2
<1>8. /\ total' \in Nat /\ errors' \in Nat /\ spans' \in Nat
      /\ returned' \in Nat /\ failed' \in Nat /\ panicked' \in Nat /\ abandoned' \in Nat
  BY <1>5, <1>6
<1>9. Sampling'
  BY <1>2, <1>3, <1>5, SamplingKept
<1> QED BY <1>2, <1>3, <1>7, <1>8, <1>9, WorkerStep

\* The logger leaves the telemetry alone.
LEMMA LogInv ==
    ASSUME Inv, NEW w \in Workers, WriteData(w) \/ WriteNewline(w)
    PROVE  Inv'
<1>1. TypeOK /\ Counts
  BY DEF Inv
<1>2. /\ pc[w] \in {"log", "newline"}
      /\ UNCHANGED <<observerVars, closing, metricVars, spanVars, historyVars>>
  BY DEF WriteData, WriteNewline, LogStep
<1>3. PICK to \in {"idle", "newline"} :
        /\ pc' = [pc EXCEPT ![w] = to]
        /\ err' = IF to = "idle" THEN [err EXCEPT ![w] = FALSE] ELSE err
  BY DEF WriteData, WriteNewline, LogStep
<1>4. /\ pc' \in [Workers -> {"idle", "running", "end span", "total", "errors",
                              "duration", "log", "newline"}]
      /\ err' \in [Workers -> BOOLEAN] /\ sampled' = sampled
      /\ sampled' \in [Workers -> BOOLEAN] /\ Elsewhere(w)
      /\ pc'[w] \in {"idle", "newline"}
  BY <1>1, <1>2, <1>3 DEF TypeOK, Elsewhere, spanVars
<1>5. /\ Cardinality(Uncounted') = Cardinality(Uncounted)
      /\ Cardinality(Unmeasured') = Cardinality(Unmeasured)
      /\ Cardinality(Open') = Cardinality(Open)
      /\ Cardinality(Erring') = Cardinality(Erring)
      /\ Cardinality(Reporting') = Cardinality(Reporting)
  BY <1>2, <1>4, Moves, ErringMoves, SampledMoves
  DEF Uncounted, Unmeasured, Open, Erring, Reporting
<1>6. /\ total' = total /\ errors' = errors /\ durations' = durations /\ spans' = spans
      /\ returned' = returned /\ failed' = failed /\ panicked' = panicked
      /\ abandoned' = abandoned /\ tp' = tp /\ mp' = mp
  BY <1>2 DEF metricVars, spanVars, historyVars, observerVars
<1>7. Counts'
  BY <1>1, <1>5, <1>6 DEF Counts
<1>8. /\ total' \in Nat /\ errors' \in Nat /\ durations' \in Nat /\ spans' \in Nat
      /\ returned' \in Nat /\ failed' \in Nat /\ panicked' \in Nat /\ abandoned' \in Nat
  BY <1>1, <1>6 DEF TypeOK
<1>9. Sampling'
  BY <1>2, <1>4, <1>6, SamplingKept
<1> QED BY <1>2, <1>4, <1>7, <1>8, <1>9, WorkerStep

-----------------------------------------------------------------------------
LEMMA NextInv == Inv /\ [Next]_vars => Inv'
<1> SUFFICES ASSUME Inv, [Next]_vars PROVE Inv'
  OBVIOUS
<1>1. CASE Validate \/ SetupTracing \/ SetupMetrics \/ MakeMiddleware
  BY <1>1, SetupInv
<1>2. ASSUME NEW c \in Closers, ShutdownTracer(c) \/ ShutdownMeter(c) PROVE Inv'
  BY <1>2, ShutdownInv
<1>3. ASSUME NEW w \in Workers, StartSpan(w) \/ Returns(w) \/ Panics(w) \/ EndSpan(w)
      PROVE  Inv'
  BY <1>3, StartSpanInv, ReturnsInv, PanicsInv, EndSpanInv
<1>4. ASSUME NEW w \in Workers, \/ AddTotal(w) \/ AddErrors(w) \/ RecordDuration(w)
                               \/ WriteData(w) \/ WriteNewline(w)
      PROVE  Inv'
  BY <1>4, AddTotalInv, AddErrorsInv, RecordDurationInv, LogInv
<1>5. CASE UNCHANGED vars
  <2>1. /\ UNCHANGED <<pc, err, sampled>>
        /\ UNCHANGED <<observerVars, closing, metricVars, spans, historyVars>>
    BY <1>5 DEF vars, spanVars
  <2>2. TypeOK'
    BY <2>1, NobodyMoves
    DEF Inv, TypeOK, observerVars, configVars, metricVars, historyVars
  <2>3. Phases'
    BY <2>1 DEF Inv, Phases, observerVars, configVars, metricVars, historyVars
  <2>4. Counts'
    BY <2>1, NobodyMoves DEF Inv, Counts, observerVars, metricVars, historyVars
  <2>5. Sampling'
    BY <2>1 DEF Inv, Sampling, All, Nothing, observerVars, configVars, historyVars
  <2> QED BY <2>2, <2>3, <2>4, <2>5 DEF Inv
<1> QED BY <1>1, <1>2, <1>3, <1>4, <1>5 DEF Next

LEMMA Invariance == Spec => []Inv
BY InitInv, NextInv, PTL DEF Spec

-----------------------------------------------------------------------------
\* NewObserver makes a provider only for what is enabled, and nothing is executed through
\* the middleware before the observer is complete; no instrument goes below zero.
THEOREM TypeCorrect == Spec => []TypeOK
<1>1. Inv => TypeOK
  BY DEF Inv
<1> QED BY <1>1, Invariance, PTL

\* What Middleware.Wrap and RecordExecution have given to the SDK agrees with what
\* happened, for any number of concurrent executions, panics and shutdowns and whatever
\* share of the spans is sampled.
THEOREM TelemetryExact == Spec => []CountersExact
<1>1. Inv => CountersExact
  <2> SUFFICES ASSUME Inv PROVE CountersExact
    OBVIOUS
  <2>1. /\ At({"end span", "total"}) = Cardinality(Uncounted)
        /\ At({"end span", "total", "errors", "duration"}) = Cardinality(Unmeasured)
        /\ Erring = {w \in Workers : err[w] /\ pc[w] \in {"end span", "total", "errors"}}
        /\ Open = {w \in Workers : sampled[w] /\ pc[w] \in {"running", "end span"}}
    BY DEF At, Uncounted, Unmeasured, Open, Erring, Among, ErringAmong, SampledAmong
  <2>2. ASSUME tp = "up", All PROVE spans = panicked + At({"running", "end span"})
    <3>1. panicked = abandoned /\ spans = abandoned + Cardinality(Open)
      BY <2>2 DEF Inv, Sampling, Counts
    <3>2. Open = {w \in Workers : pc[w] \in {"running", "end span"}}
      BY <2>2 DEF Inv, Sampling, Open, SampledAmong
    <3> QED BY <3>1, <3>2 DEF At
  <2>3. ASSUME tp = "up", Nothing PROVE spans = 0
    <3>1. abandoned = 0 /\ spans = abandoned + Cardinality(Open)
      BY <2>3 DEF Inv, Sampling, Counts
    <3>2. Open = {}
      BY <2>3 DEF Inv, Sampling, Open, SampledAmong
    <3> QED BY <3>1, <3>2, FS_EmptySet
  <2> QED BY <2>1, <2>2, <2>3 DEF Inv, Counts, CountersExact, All, Nothing
<1> QED BY <1>1, Invariance, PTL

\* When a call of Shutdown has returned, neither provider is up, for any number of calls
\* at the same time and whatever configuration the observer was made from.
THEOREM ShutdownComplete == Spec => []ShutdownReachesAll
<1>1. Inv => ShutdownReachesAll
  BY DEF Inv, Phases, ShutdownReachesAll
<1> QED BY <1>1, Invariance, PTL

=============================================================================
