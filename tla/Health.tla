------------------------------- MODULE Health -------------------------------
(***************************************************************************)
(* health/aggregator.go with checker.go, memory.go and the HTTP handlers   *)
(* of http.go: probes run the registered checks while checkers are         *)
(* registered and removed.                                                 *)
(*                                                                         *)
(* CheckAll copies the map of checkers under the read lock and then calls  *)
(* runCheck for every checker of the copy, all at once or one after the    *)
(* other.  runCheck starts a goroutine for the check and takes its result  *)
(* from a channel, or gives up when the context is done.  A check that     *)
(* hangs is left behind with a channel that nobody reads; from then on it  *)
(* touches nothing, and is not followed here.                              *)
(*                                                                         *)
(* What a check looks at is the condition of a component, which changes    *)
(* as it likes.  A MemoryChecker looks at the share of memory in use.      *)
(***************************************************************************)
EXTENDS Integers, Sequences, SequencesExt

CONSTANTS
    Probes,      \* HTTP requests to the handlers, again and again
    Names,       \* names that checkers are registered under
    Checkers,    \* the checkers
    Memory,      \* those that are a MemoryChecker
    Conditions,  \* the statuses that the other checkers report
    Usages,      \* shares of memory in use, in thousandths
    WarningThreshold, CriticalThreshold  \* MemoryCheckerConfig, in thousandths

None == "none"
Statuses == {"healthy", "degraded", "unhealthy"}
Answers == Statuses \cup {"not found"}

ASSUME HealthAssumption ==
    /\ None \notin Checkers
    /\ Memory \subseteq Checkers
    /\ Conditions \subseteq Statuses /\ Conditions # {}
    /\ Usages \subseteq Nat /\ Usages # {}
    /\ WarningThreshold \in Int /\ CriticalThreshold \in Int

VARIABLES
    parallel,   \* config.Parallel
    checkers,   \* a.checkers: the checker of each name, or None
    order,      \* a.order
    condition,  \* what each component is like (environment)
    usage,      \* the share of memory in use (environment)
    pc,         \* where each probe is
    snapshot,   \* the copy of checkers that a probe works on
    task,       \* its goroutines and their channels, for every name
    results,    \* its results map
    expired,    \* whether its context is done
    answer,     \* what it told the client
    seen        \* history: the conditions each component was in during the probe

registryVars == <<checkers, order>>
worldVars == <<condition, usage>>
probeVars == <<pc, snapshot, task, results, expired, answer, seen>>
vars == <<parallel, registryVars, worldVars, probeVars>>

-----------------------------------------------------------------------------
(***************************************************************************)
(* MemoryChecker.                                                          *)
(***************************************************************************)
Sane(threshold, default) == IF threshold <= 0 \/ threshold >= 1000 THEN default ELSE threshold

\* NewMemoryChecker: defaults for what is out of range, and the critical threshold
\* raised above the warning.
Warning == Sane(WarningThreshold, 800)

Critical ==
    LET critical == Sane(CriticalThreshold, 950)
    IN  CASE critical >= Warning   -> critical
          [] Warning + 100 > 1000  -> 990
          [] OTHER                 -> Warning + 100

MemoryStatus(used) ==
    CASE used >= Critical                   -> "unhealthy"
      [] used < Critical /\ used >= Warning -> "degraded"
      [] OTHER                              -> "healthy"

\* What a check of c reports when the components are like this.
Status(c, conditions, used) == IF c \in Memory THEN MemoryStatus(used) ELSE conditions[c]

-----------------------------------------------------------------------------
Init ==
    /\ parallel \in BOOLEAN
    /\ checkers = [n \in Names |-> None]
    /\ order = <<>>
    /\ condition \in [Checkers \ Memory -> Conditions]
    /\ usage \in Usages
    /\ pc = [p \in Probes |-> "idle"]
    /\ snapshot = [p \in Probes |-> [n \in Names |-> None]]
    /\ task = [p \in Probes |-> [n \in Names |-> None]]
    /\ results = [p \in Probes |-> [n \in Names |-> None]]
    /\ expired = [p \in Probes |-> FALSE]
    /\ answer = [p \in Probes |-> None]
    /\ seen = [p \in Probes |-> [n \in Names |-> {}]]

\* Mutant: a checker that is registered again takes another place in the order.
RegisterAgain(n, c) ==
    /\ checkers' = [checkers EXCEPT ![n] = c]
    /\ order' = Append(order, n)
    /\ UNCHANGED <<parallel, worldVars, probeVars>>

Register(n, c) ==
    /\ checkers' = [checkers EXCEPT ![n] = c]
    /\ order' = IF checkers[n] = None THEN Append(order, n) ELSE order
    /\ UNCHANGED <<parallel, worldVars, probeVars>>

Unregister(n) ==
    /\ checkers' = [checkers EXCEPT ![n] = None]
    /\ order' = RemoveFirst(order, n)
    /\ UNCHANGED <<parallel, worldVars, probeVars>>

-----------------------------------------------------------------------------
(***************************************************************************)
(* A probe: a handler with the context of its request, which ends at the   *)
(* handler's deadline, at that of the aggregator, or when the client goes. *)
(***************************************************************************)

\* The probe works on these checkers from now on.
Begin(p, chosen) ==
    /\ snapshot' = [snapshot EXCEPT ![p] = chosen]
    /\ task' = [task EXCEPT ![p] = [n \in Names |-> IF chosen[n] = None THEN None ELSE "todo"]]
    /\ results' = [results EXCEPT ![p] = [n \in Names |-> None]]
    /\ expired' = [expired EXCEPT ![p] = FALSE]
    /\ seen' = [seen EXCEPT ![p] =
                  [n \in Names |-> IF chosen[n] = None THEN {} ELSE {Status(chosen[n], condition, usage)}]]
    /\ UNCHANGED <<parallel, registryVars, worldVars>>

\* ReadinessHandler, DetailedHandler and the aggregator as a checker: a copy of the map.
CheckAll(p) ==
    /\ pc[p] = "idle"
    /\ pc' = [pc EXCEPT ![p] = "all"]
    /\ answer' = [answer EXCEPT ![p] = None]
    /\ Begin(p, checkers)

\* SingleCheckHandler: the checker of the name it was made for.
Check(p, n) ==
    /\ pc[p] = "idle"
    /\ pc' = [pc EXCEPT ![p] = IF checkers[n] = None THEN @ ELSE "one"]
    /\ answer' = [answer EXCEPT ![p] = IF checkers[n] = None THEN "not found" ELSE None]
    /\ Begin(p, [m \in Names |-> IF m = n THEN checkers[n] ELSE None])

\* runCheck of one checker begins: at any time, or after the one before it.
StartCheck(p, n) ==
    /\ task[p][n] = "todo"
    /\ parallel \/ \A m \in Names : task[p][m] \in {None, "todo"} \/ results[p][m] # None
    /\ task' = [task EXCEPT ![p][n] = "running"]
    /\ UNCHANGED <<parallel, registryVars, worldVars, pc, snapshot, results, expired,
                   answer, seen>>

\* The check looks at its component and delivers what it sees.  A MemoryChecker
\* may see that the context is done instead.
CheckReturns(p, n) ==
    /\ task[p][n] = "running"
    /\ \E status \in {Status(snapshot[p][n], condition, usage)} \cup
            (IF snapshot[p][n] \in Memory /\ expired[p] THEN {"unhealthy"} ELSE {}) :
         task' = [task EXCEPT ![p][n] = status]
    /\ UNCHANGED <<parallel, registryVars, worldVars, pc, snapshot, results, expired,
                   answer, seen>>

Result(p, n, status) ==
    /\ results[p][n] = None
    /\ results' = [results EXCEPT ![p][n] = status]
    /\ UNCHANGED <<parallel, registryVars, worldVars, pc, snapshot, task, expired,
                   answer, seen>>

\* The two cases of the select in runCheck; either, if both are ready.
TakeResult(p, n) ==
    /\ task[p][n] \in Statuses
    /\ Result(p, n, task[p][n])

\* Mutant: nothing stops the wait for a check.
NeverTimesOut(p, n) ==
    /\ expired[p]
    /\ task[p][n] \in Statuses
    /\ Result(p, n, "timed out")

TimesOut(p, n) ==
    /\ expired[p]
    /\ task[p][n] \in {"running"} \cup Statuses
    /\ Result(p, n, "timed out")

Expire(p) ==
    /\ pc[p] # "idle"
    /\ ~expired[p]
    /\ expired' = [expired EXCEPT ![p] = TRUE]
    /\ UNCHANGED <<parallel, registryVars, worldVars, pc, snapshot, task, results,
                   answer, seen>>

\* Mutant: a check that timed out is not counted against the whole.
OverallStatusLenient(reported) ==
    CASE "unhealthy" \in reported -> "unhealthy"
      [] "unhealthy" \notin reported /\ "degraded" \in reported -> "degraded"
      [] OTHER -> "healthy"

\* A result that timed out has status unhealthy.
OverallStatus(reported) ==
    CASE {"unhealthy", "timed out"} \cap reported # {} -> "unhealthy"
      [] {"unhealthy", "timed out"} \cap reported = {} /\ "degraded" \in reported -> "degraded"
      [] OTHER -> "healthy"

\* All the results are in, and the probe is answered with a status.
Respond(p, kind, status) ==
    /\ pc[p] = kind
    /\ \A n \in Names : snapshot[p][n] # None => results[p][n] # None
    /\ pc' = [pc EXCEPT ![p] = "idle"]
    /\ answer' = [answer EXCEPT ![p] = status]
    /\ task' = [task EXCEPT ![p] = [n \in Names |-> None]]
    /\ results' = [results EXCEPT ![p] = [n \in Names |-> None]]
    /\ UNCHANGED <<parallel, registryVars, worldVars, snapshot, expired, seen>>

Reported(p) == {results[p][n] : n \in {m \in Names : snapshot[p][m] # None}}

RespondAll(p) == Respond(p, "all", OverallStatus(Reported(p)))

RespondSingle(p) ==
    \E result \in Reported(p) :
        Respond(p, "one", IF result = "timed out" THEN "unhealthy" ELSE result)

-----------------------------------------------------------------------------
\* The components change.
ConditionChanges ==
    /\ condition' \in [Checkers \ Memory -> Conditions]
    /\ usage' \in Usages
    /\ seen' = [p \in Probes |-> [n \in Names |->
                  IF pc[p] # "idle" /\ snapshot[p][n] # None
                  THEN seen[p][n] \cup {Status(snapshot[p][n], condition', usage')} ELSE seen[p][n]]]
    /\ UNCHANGED <<parallel, registryVars, pc, snapshot, task, results, expired, answer>>

\* What the goroutines of a probe do by themselves.
Continue(p) ==
    \/ Expire(p) \/ RespondAll(p) \/ RespondSingle(p)
    \/ \E n \in Names : StartCheck(p, n) \/ TakeResult(p, n) \/ TimesOut(p, n)

Next ==
    \/ \E n \in Names : Unregister(n) \/ \E c \in Checkers : Register(n, c)
    \/ \E p \in Probes : CheckAll(p) \/ Continue(p)
    \/ \E p \in Probes, n \in Names : Check(p, n) \/ CheckReturns(p, n)
    \/ ConditionChanges

Spec == Init /\ [][Next]_vars

\* Goroutines run and deadlines pass, but a check may hang for ever.
FairSpec == Spec /\ \A p \in Probes : WF_vars(Continue(p))

-----------------------------------------------------------------------------
(***************************************************************************)
(* Properties.                                                             *)
(***************************************************************************)

\* Types; and the order lists every registered name exactly once, whatever was
\* registered twice or removed in between.
TypeOK ==
    /\ parallel \in BOOLEAN
    /\ checkers \in [Names -> Checkers \cup {None}]
    /\ order \in Seq(Names)
    /\ IsInjective(order)
    /\ Range(order) = {n \in Names : checkers[n] # None}
    /\ condition \in [Checkers \ Memory -> Conditions]
    /\ usage \in Usages
    /\ pc \in [Probes -> {"idle", "all", "one"}]
    /\ snapshot \in [Probes -> [Names -> Checkers \cup {None}]]
    /\ task \in [Probes -> [Names -> Statuses \cup {None, "todo", "running"}]]
    /\ results \in [Probes -> [Names -> Statuses \cup {None, "timed out"}]]
    /\ expired \in [Probes -> BOOLEAN]
    /\ answer \in [Probes -> Answers \cup {None}]
    /\ seen \in [Probes -> [Names -> SUBSET Statuses]]

Worse == [healthy |-> 0, degraded |-> 1, unhealthy |-> 2]

\* An answer is true of the time of the probe.  No comfort that is false: every
\* component that was registered when the probe began was, at some time during
\* the probe, at least as well as the answer says.  No false alarm: an answer
\* other than healthy has a component that was as bad, or a context that ended.
AnswerIsTrue ==
    \A p \in Probes :
        LET checked == {n \in Names : snapshot[p][n] # None}
        IN  answer[p] \in Statuses =>
              /\ \A n \in checked : \E s \in seen[p][n] : Worse[s] <= Worse[answer[p]]
              /\ \/ answer[p] = "healthy"
                 \/ answer[p] = "unhealthy" /\ expired[p]
                 \/ \E n \in checked : answer[p] \in seen[p][n]

\* Every probe is answered, although checks may hang, in parallel or one after
\* the other, and however the registry changes meanwhile.
ProbesAnswered == \A p \in Probes : pc[p] # "idle" ~> pc[p] = "idle"

=============================================================================
