----------------------------- MODULE Pipelines -----------------------------
(***************************************************************************)
(* One run of a pipeline: the levels that the resolver finds               *)
(* (src/src/services/pipeline/resolver.ts), the executor that runs the     *)
(* steps of a level at once with their retries, timeouts and cancellation  *)
(* (pipeline/executor.ts), and the store that refuses late writes          *)
(* (pipeline/definition.ts).                                               *)
(*                                                                         *)
(* Runs share nothing but their definition, which each of them has copied, *)
(* so there is one run here.  An action is the code between two awaits.    *)
(* Steps are numbered in the order of the resolver.  An output is known by *)
(* the step that wrote it, and is kept under a name that steps may share.  *)
(* Any read or write of the store may throw.                               *)
(***************************************************************************)
EXTENDS Integers, FiniteSets

CONSTANTS
  NumSteps,     \* bound: steps of the pipeline
  MaxRetries    \* retryCount of a step whose strategy is retry

Steps == 1..NumSteps
Strategies == {"fail_fast", "continue", "retry"}

ASSUME PipelinesAssumption == NumSteps \in Nat \ {0} /\ MaxRetries \in Nat

VARIABLES
  \* the definition
  dependsOn,
  strategy,   \* of a step, or else of the pipeline
  output,     \* the name of a step's output: the first step that has this name
  timed,      \* timeoutSeconds is set
  \* rows of the database
  run,        \* status of the run
  step,       \* status of a step
  context,    \* the outputs in the context of the run
  \* the process
  main,       \* executeRun: "idle", "level" while it awaits one, or "ended"
  level,      \* the steps of the level it is at
  order,      \* the steps of the levels so far
  pc,         \* executeStep: "idle", "await" while it awaits the agent, or "done"
  attempt,    \* its attempt
  result,     \* what it returns
  input,      \* the outputs that it was given
  late,       \* the deadline has passed
  broken,     \* executeRun has thrown
  crashed

defVars == <<dependsOn, strategy, output, timed>>
stepVars == <<step, pc, attempt, result, input>>
vars == <<defVars, run, context, main, level, order, stepVars, late, broken, crashed>>

Terminal == {"completed", "failed", "cancelled"}

\* resolvePipelineSteps accepts what can be numbered so that dependencies come first.
Init ==
  /\ dependsOn \in {f \in [Steps -> SUBSET Steps] : \A s \in Steps : f[s] \subseteq 1..s - 1}
  /\ strategy \in [Steps -> Strategies]
  /\ output \in {f \in [Steps -> Steps] : \A s \in Steps : f[s] <= s /\ f[f[s]] = f[s]}
  /\ timed \in BOOLEAN
  /\ run = "none"
  /\ step = [s \in Steps |-> "none"]
  /\ context = {}
  /\ main = "idle"
  /\ level = {}
  /\ order = {}
  /\ pc = [s \in Steps |-> "idle"]
  /\ attempt = [s \in Steps |-> 0]
  /\ result = [s \in Steps |-> "none"]
  /\ input = [s \in Steps |-> {}]
  /\ late = FALSE
  /\ broken = FALSE
  /\ crashed = FALSE
-----------------------------------------------------------------------------
(* The resolver.  Its queue is emptied level by level; the dependencies do *)
(* not change, so the levels can be taken out as the run comes to them.    *)

\* A step joins the queue when the last of its dependencies has left it.
NextLevel(done) == {s \in Steps \ done : dependsOn[s] \subseteq done}
-----------------------------------------------------------------------------
(* The store.                                                              *)

\* Plausible bug: the store takes what a step says whenever it says so.
WriteStepAlways(s, value) == step' = [step EXCEPT ![s] = value]

\* updateStep: refused once the run has ended, and nothing to update once it is deleted.
WriteStep(s, value) ==
  step' = IF run \in Terminal \cup {"deleted"} THEN step ELSE [step EXCEPT ![s] = value]

Mark(from, to) == [s \in Steps |-> IF step[s] \in from THEN to ELSE step[s]]

\* cancelRun, at any time before the end.
Cancel ==
  /\ run = "running"
  /\ run' = "cancelled"
  /\ step' = Mark({"pending", "running"}, "cancelled")
  /\ UNCHANGED <<defVars, context, main, level, order, pc, attempt, result, input, late, broken, crashed>>

\* The pipeline is deleted, and its runs and their steps with it.
Delete ==
  /\ run \notin {"none", "deleted"}
  /\ run' = "deleted"
  /\ step' = [s \in Steps |-> "none"]
  /\ context' = {}
  /\ UNCHANGED <<defVars, main, level, order, pc, attempt, result, input, late, broken, crashed>>
-----------------------------------------------------------------------------
(* executeStep.                                                            *)

MaxAttempts(s) == IF strategy[s] = "retry" THEN MaxRetries + 1 ELSE 1

Return(s, value) ==
  /\ pc' = [pc EXCEPT ![s] = "done"]
  /\ result' = [result EXCEPT ![s] = value]

\* The agent has answered.
Answer(s) ==
  /\ pc[s] = "await"
  /\ run # "cancelled"
  /\ Return(s, "ok")
  /\ WriteStep(s, "completed")
  /\ UNCHANGED <<defVars, run, context, main, level, order, attempt, input, late, broken, crashed>>

\* Plausible bug: one attempt too many.
TriesAgainOnce(s) == (late => run = "deleted") /\ attempt[s] <= MaxAttempts(s)

\* After the deadline nothing is tried again, unless the run is deleted and its deadline with it.
TriesAgain(s) == (late => run = "deleted") /\ attempt[s] < MaxAttempts(s)

(***************************************************************************)
(* The agent has failed, the step has timed out, or the deadline of the    *)
(* run, which bounds every step, has passed.  The agent is told to abort.  *)
(***************************************************************************)
Fail(s) ==
  /\ pc[s] = "await"
  /\ run # "cancelled"
  /\ \/ /\ TriesAgain(s)
        /\ attempt' = [attempt EXCEPT ![s] = @ + 1]
        /\ WriteStep(s, "running")
        /\ UNCHANGED <<pc, result>>
     \/ /\ ~TriesAgain(s)
        /\ Return(s, "failed")
        /\ WriteStep(s, "failed")
        /\ attempt' = attempt
  /\ UNCHANGED <<defVars, run, context, main, level, order, input, late, broken, crashed>>

\* Plausible bug: only the timeout of the step itself bounds it.
OverdueNever(s) == FALSE

\* The timeout of an attempt is cut at the deadline.
Overdue(s) == late

Expire(s) == Overdue(s) /\ Fail(s)

\* The poll of withStepControls, or an answer or error that finds the run cancelled.
PollCancel(s) ==
  /\ pc[s] = "await"
  /\ run = "cancelled"
  /\ Return(s, "cancelled")
  /\ UNCHANGED <<defVars, run, step, context, main, level, order, attempt, input, late, broken, crashed>>

\* What is not in the try of executeStep throws: the agent is not asked again, the row stays.
StepThrows(s) ==
  /\ pc[s] = "await"
  /\ Return(s, "thrown")
  /\ UNCHANGED <<defVars, run, step, context, main, level, order, attempt, input, late, broken, crashed>>
-----------------------------------------------------------------------------
(* executeRun.                                                             *)

(***************************************************************************)
(* Every step of the next level is started with the context c, up to its   *)
(* first await; the first write of some may throw.                         *)
(***************************************************************************)
BeginLevel(c) ==
  LET here == NextLevel(order) IN \E thrown \in SUBSET here :
  /\ level' = here
  /\ order' = order \cup here
  /\ main' = "level"
  /\ step' = [s \in Steps |-> IF s \in here \ thrown THEN "running"
                              ELSE IF run = "none" THEN "pending" ELSE step[s]]
  /\ pc' = [s \in Steps |-> IF s \in thrown THEN "done" ELSE IF s \in here THEN "await" ELSE pc[s]]
  /\ attempt' = [s \in Steps |-> IF s \in here THEN 1 ELSE attempt[s]]
  /\ input' = [s \in Steps |-> IF s \in here THEN c ELSE input[s]]
  /\ result' = [s \in Steps |-> IF s \in thrown THEN "thrown" ELSE result[s]]

(***************************************************************************)
(* The catch of start: the run fails, and its steps stay as they are.  Its *)
(* own write may throw as well, and the run stays running for good.        *)
(***************************************************************************)
Break ==
  /\ broken' = TRUE
  /\ main' = "ended"
  /\ run' \in {"running", "failed"}
  /\ UNCHANGED <<level, order, pc, attempt, result, input>>

\* start: createRun, and executeRun up to its first await, or to what throws before it.
Start ==
  /\ run = "none"
  /\ \/ run' = "running" /\ BeginLevel({}) /\ broken' = broken
     \/ step' = [s \in Steps |-> "pending"] /\ Break
  /\ UNCHANGED <<defVars, context, late, crashed>>

\* The run is over for executeRun, which leaves rows as they are.
Leave ==
  /\ main' = "ended"
  /\ UNCHANGED <<run, context, level, order, stepVars>>

\* Plausible bug: the steps that were never reached are left alone.
ClosedOpen == Mark({"running"}, "failed")

\* markTimedOutSteps, and markPendingStepsSkipped, when no step is running.
Closed ==
  [s \in Steps |-> IF step[s] = "running" THEN "failed"
                   ELSE IF step[s] = "pending" THEN "skipped" ELSE step[s]]

\* failRunForTimeout, and the end after a blocking failure.
EndFailed ==
  /\ main' = "ended"
  /\ run' = "failed"
  /\ step' = Closed
  /\ UNCHANGED <<level, order, pc, attempt, result, input>>

\* Plausible bug: an output that is there is not replaced.
MergedOld(c) ==
  LET ok == {s \in level : result[s] = "ok"}
      held == {output[s] : s \in c} IN
  c \cup {s \in ok : /\ output[s] \notin held
                    /\ \A t \in ok : output[t] = output[s] => t <= s}

\* The outputs of the level replace what the context c holds under their names, in order.
Merged(c) ==
  LET ok == {s \in level : result[s] = "ok"} IN
  {s \in ok : \A t \in ok : output[t] = output[s] => t <= s}
    \cup {s \in c : \A t \in ok : output[t] # output[s]}

Blocking(s) == result[s] = "failed" /\ strategy[s] # "continue"

\* Promise.all of a level has come back.
LevelDone ==
  /\ main = "level"
  /\ \A s \in level : pc[s] = "done" /\ result[s] # "thrown"
  /\ \/ /\ run \in {"cancelled", "deleted"}
        /\ Leave
     \/ /\ run = "running" /\ late
        /\ EndFailed
        /\ context' = context
     \/ /\ run = "running" /\ ~late
        /\ context' = Merged(context)
        /\ \E s \in level : Blocking(s)
        /\ EndFailed
     \/ /\ run = "running" /\ ~late
        /\ context' = Merged(context)
        /\ \A s \in level : ~Blocking(s)
        /\ NextLevel(order) # {}
        /\ BeginLevel(Merged(context))
        /\ run' = run
     \/ /\ run = "running" /\ ~late
        /\ context' = Merged(context)
        /\ \A s \in level : ~Blocking(s)
        /\ NextLevel(order) = {}
        /\ run' = "completed"
        /\ main' = "ended"
        /\ UNCHANGED <<level, order, stepVars>>
  /\ UNCHANGED <<defVars, late, broken, crashed>>

(***************************************************************************)
(* The level is rejected by its timer, which may be early, or by a step    *)
(* that has thrown: the other steps go on, and nobody awaits them.         *)
(***************************************************************************)
LevelRejected ==
  /\ main = "level"
  /\ timed \/ \E s \in level : result[s] = "thrown"
  /\ \/ run \in {"cancelled", "deleted"} /\ Leave /\ broken' = broken
     \/ run = "running" /\ late /\ EndFailed /\ UNCHANGED <<context, broken>>
     \/ run = "running" /\ ~late /\ Break /\ UNCHANGED <<context, step>>
  /\ UNCHANGED <<defVars, late, crashed>>

\* A read or a write of executeRun throws once the level is back, after the writes before it.
RunThrows ==
  /\ main = "level" /\ run = "running"
  /\ \/ timed \/ \E s \in level : result[s] = "thrown"
     \/ \A s \in level : pc[s] = "done"
  /\ \/ UNCHANGED <<context, step>>
     \/ late /\ context' = context /\ step' = Closed
     \/ /\ ~late /\ \A s \in level : pc[s] = "done" /\ result[s] # "thrown"
        /\ context' = Merged(context)
        /\ step' = step \/ (step' = Closed /\ \E s \in level : Blocking(s))
  /\ Break
  /\ UNCHANGED <<defVars, late, crashed>>
-----------------------------------------------------------------------------
\* Time passes, for as long as somebody looks at the clock.
Deadline ==
  /\ timed
  /\ main = "level" \/ \E s \in Steps : pc[s] = "await"
  /\ ~late
  /\ late' = TRUE
  /\ UNCHANGED <<defVars, run, context, main, level, order, stepVars, broken, crashed>>

\* The process dies.  Nothing takes its runs up again.
Crash ==
  /\ main = "level"
  /\ crashed' = TRUE
  /\ main' = "ended"
  /\ pc' = [s \in Steps |-> "idle"]
  /\ result' = [s \in Steps |-> "none"]
  /\ UNCHANGED <<defVars, run, context, level, order, step, attempt, input, late, broken>>
-----------------------------------------------------------------------------
Next ==
  \/ Start \/ LevelDone \/ LevelRejected \/ RunThrows
  \/ \E s \in Steps : Answer(s) \/ Fail(s) \/ PollCancel(s) \/ StepThrows(s)
  \/ Cancel \/ Delete
  \/ Deadline \/ Crash

(***************************************************************************)
(* Timers fire and promises are handed on.  Nothing is assumed of the      *)
(* agents: an answer may never come.                                       *)
(***************************************************************************)
Fairness ==
  /\ WF_vars(LevelDone) /\ WF_vars(LevelRejected) /\ WF_vars(Deadline)
  /\ \A s \in Steps : WF_vars(Expire(s)) /\ WF_vars(PollCancel(s))

Spec == Init /\ [][Next]_vars /\ Fairness
-----------------------------------------------------------------------------
\* The values of the variables; a step makes no more attempts than it may.
TypeOK ==
  /\ dependsOn \in [Steps -> SUBSET Steps]
  /\ strategy \in [Steps -> Strategies]
  /\ output \in [Steps -> Steps]
  /\ timed \in BOOLEAN /\ late \in BOOLEAN /\ broken \in BOOLEAN /\ crashed \in BOOLEAN
  /\ run \in Terminal \cup {"none", "running", "deleted"}
  /\ step \in [Steps -> {"none", "pending", "running", "completed", "failed", "skipped", "cancelled"}]
  /\ context \subseteq Steps
  /\ main \in {"idle", "level", "ended"}
  /\ level \subseteq order /\ order \subseteq Steps
  /\ pc \in [Steps -> {"idle", "await", "done"}]
  /\ attempt \in [Steps -> 0..MaxRetries + 1]
  /\ result \in [Steps -> {"none", "ok", "failed", "cancelled", "thrown"}]
  /\ input \in [Steps -> SUBSET Steps]
  /\ \A s \in Steps : attempt[s] <= MaxAttempts(s)

\* A context has one output under a name.
OneEach(c) == \A x, y \in c : output[x] = output[y] => x = y

\* Under the name of d a context has its output, or one that has replaced it: none that d was given.
Holds(c, d) == \E x \in c : output[x] = output[d] /\ x \notin input[d]

(***************************************************************************)
(* A step runs on the outputs of all that it depends on: each of them has  *)
(* completed, and under its name the step is given its output or that of a *)
(* step which ran beside or after it, nothing older; or it has failed      *)
(* under the strategy continue, and has written nothing.                   *)
(***************************************************************************)
InputComplete ==
  \A s \in Steps : step[s] \in {"running", "completed"} =>
    /\ OneEach(input[s])
    /\ \A d \in dependsOn[s] :
         \/ step[d] = "completed" /\ Holds(input[s], d)
         \/ step[d] = "failed" /\ strategy[d] = "continue" /\ d \notin input[s]

(***************************************************************************)
(* A run that has ended leaves no step open, unless it ended in the catch  *)
(* of start, which closes none; and one that completed has no failure but  *)
(* those it was to continue after, and under the name of every other step  *)
(* its output or a later one.                                              *)
(***************************************************************************)
EndedIsClosed ==
  /\ run \in Terminal /\ ~(run = "failed" /\ broken) =>
       \A s \in Steps : step[s] \notin {"pending", "running"}
  /\ run = "completed" =>
       /\ \A s \in Steps : \/ step[s] = "completed" /\ Holds(context, s)
                           \/ step[s] = "failed" /\ strategy[s] = "continue" /\ s \notin context
       /\ OneEach(context)

(***************************************************************************)
(* "Once a run reaches a terminal status it is immutable": steps that go   *)
(* on after a timeout, a cancellation or a throw change neither the run    *)
(* nor their own rows (definition.ts, updateRun and updateStep), and they  *)
(* give up their retries: no agent is asked again, unless the run ended in *)
(* the catch of start, before the deadline.                                *)
(***************************************************************************)
EndedIsFinal ==
  [][(run \in Terminal) =>
       /\ attempt' = attempt \/ (broken /\ ~late)
       /\ run' = "deleted" \/ UNCHANGED <<run, step, context>>]_vars

(***************************************************************************)
(* "The run timeout bounds the whole run": it ends though an agent never   *)
(* answers, unless the process dies or even the catch of start throws.     *)
(***************************************************************************)
TimeoutBounds ==
  timed /\ run = "running" ~> run \in Terminal \cup {"deleted"} \/ crashed \/ broken

(***************************************************************************)
(* "Already-running steps are interrupted on timeout", and those of a run  *)
(* that was cancelled as well.  A run that is deleted in between is no     *)
(* longer seen as cancelled, and its steps go on; so do those of one that  *)
(* ended in the catch of start and has no timeout.                         *)
(***************************************************************************)
StepsInterrupted ==
  run \in Terminal ~> \/ \A s \in Steps : pc[s] # "await"
                      \/ run = "deleted"
                      \/ (run = "failed" /\ broken /\ ~timed)

(***************************************************************************)
(* The deadline and the cancellation reach everything: the run ends, and   *)
(* so do the steps it leaves behind.                                       *)
(***************************************************************************)
EverythingEnds == TimeoutBounds /\ StepsInterrupted
=============================================================================
