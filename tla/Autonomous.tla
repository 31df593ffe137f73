----------------------------- MODULE Autonomous -----------------------------
(***************************************************************************)
(* Autonomous tasks: the manager, its loops, the task store, the policy    *)
(* engine's limits, the WebUI routes and the CLI commands that steer them  *)
(* (src/src/autonomous, src/src/memory/agent/autonomous-tasks.ts).         *)
(*                                                                         *)
(* A loop runs in steps from one await to the next.  loop[t][k] is the     *)
(* k-th loop object that is alive for task t: pause leaves a stopped loop  *)
(* behind until its await returns, while resume starts a new one.          *)
(***************************************************************************)
EXTENDS Integers, Sequences, FiniteSets

CONSTANTS
  NumTasks,        \* bound: tasks ever created
  MaxLoops,        \* bound: loops of one task alive at the same time
  MaxParallel,     \* maxParallelTasks
  MaxIterations,   \* constraints.maxIterations
  GlobalCap,       \* MAX_GLOBAL_ITERATIONS
  ToolLimit,       \* rateLimit.toolCallsPerHour; the hour does not pass
  MaxCli,          \* bound: commands given on the command line
  MaxStops,        \* bound: how often the WebUI stops the agent
  MaxCrashes       \* bound: how often the process dies

Tasks == 1..NumTasks      \* in the order of created_at
Gens  == 1..MaxLoops

ASSUME AutonomousAssumption ==
  /\ NumTasks \in Nat \ {0} /\ MaxLoops \in Nat \ {0} /\ MaxParallel \in Nat \ {0}
  /\ MaxIterations \in Nat /\ GlobalCap \in Nat \ {0} /\ ToolLimit \in Nat
  /\ MaxCli \in Nat /\ MaxStops \in Nat /\ MaxCrashes \in Nat

VARIABLES
  \* the database
  status,       \* autonomous_tasks.status; "none" before the row, "deleted" after it
  step,         \* autonomous_tasks.current_step
  snapshot,     \* policy_state: the tool calls in the rate-limit window; 0 without a row
  \* the process
  agent,        \* "up", "stopped" by the WebUI, or "down"
  queue,        \* taskQueue
  running,      \* runningLoops: the loop registered for a task, or 0
  loop,         \* the loops, with the locals that live across an await
  \* the world
  calls,        \* tool calls made for a task
  clis, stops, crashes

rowVars == <<status, step>>
vars == <<rowVars, snapshot, agent, queue, running, loop, calls, clis, stops, crashes>>

Ended    == {"completed", "failed", "cancelled"}
Terminal == Ended \cup {"paused"}            \* EXTERNAL_TERMINAL_STATUSES
Statuses == Terminal \cup {"none", "pending", "queued", "running", "deleted"}
Awaits   == {"plan", "escalate", "tool", "reflect"}

\* pc: the await; stopped: the abort signal; at: current.currentStep as read
\* before planning; window: the engine's tool calls.
\* A local is reset when it is not read any more.
LoopStates ==
  [pc : Awaits \cup {"free", "done"}, stopped : BOOLEAN,
   at : Nat, window : 0..ToolLimit]
Free == [pc |-> "free", stopped |-> FALSE, at |-> 0, window |-> 0]

TypeOK ==
  /\ status \in [Tasks -> Statuses]
  /\ step \in [Tasks -> Nat]
  /\ snapshot \in [Tasks -> 0..ToolLimit]
  /\ agent \in {"up", "stopped", "down"}
  /\ queue \in Seq(Tasks)
  /\ running \in [Tasks -> Gens \cup {0}]
  /\ loop \in [Tasks -> [Gens -> LoopStates]]
  /\ calls \in [Tasks -> Nat]
  /\ clis \in 0..MaxCli
  /\ stops \in 0..MaxStops
  /\ crashes \in 0..MaxCrashes

Init ==
  /\ status = [t \in Tasks |-> "none"]
  /\ step = [t \in Tasks |-> 0]
  /\ snapshot = [t \in Tasks |-> 0]
  /\ agent = "up"
  /\ queue = <<>>
  /\ running = [t \in Tasks |-> 0]
  /\ loop = [t \in Tasks |-> [k \in Gens |-> Free]]
  /\ calls = [t \in Tasks |-> 0]
  /\ clis = 0 /\ stops = 0 /\ crashes = 0
-----------------------------------------------------------------------------
(* runLoop and what run() does before its first await.                     *)

RunningCount == Cardinality({t \in Tasks : running[t] # 0})

FreeGens(t) == {k \in Gens : loop[t][k].pc = "free"}
NewGen(t)   == CHOOSE k \in FreeGens(t) : \A m \in FreeGens(t) : k <= m

\* The row is gone, or the global iteration cap is reached: run() returns at once.
Doomed(t) == status[t] = "deleted" \/ step[t] >= GlobalCap

\* Plausible bug: the engine starts with an empty window.
FreshUnhydrated(t) ==
  [Free EXCEPT !.pc = IF Doomed(t) THEN "done" ELSE "plan", !.at = step[t], !.window = 0]

\* A new loop: its engine is hydrated from policy_state.
Fresh(t) ==
  [Free EXCEPT !.pc = IF Doomed(t) THEN "done" ELSE "plan",
               !.at = step[t],
               !.window = snapshot[t]]

(***************************************************************************)
(* runLoop for every task of S: the loops, the map, the rows and the       *)
(* snapshots afterwards, given the ones before.  Any status but that of a  *)
(* missing row becomes 'running'.                                          *)
(***************************************************************************)
WithLoops(S, old) ==
  [t \in Tasks |-> IF t \in S THEN [old[t] EXCEPT ![NewGen(t)] = Fresh(t)] ELSE old[t]]

Registered(S, old) == [t \in Tasks |-> IF t \in S THEN NewGen(t) ELSE old[t]]

RunRows(S, old) ==
  /\ status' = [t \in Tasks |->
                  IF t \notin S THEN old[t]
                  ELSE IF status[t] = "deleted" THEN "deleted"
                  ELSE IF Doomed(t) THEN "failed" ELSE "running"]
  /\ snapshot' = [t \in Tasks |-> IF t \in S /\ Doomed(t) THEN 0 ELSE snapshot[t]]
-----------------------------------------------------------------------------
(* The manager's operations, behind the guards of the WebUI routes.        *)

\* startTask: the rows are numbered in the order in which they are created.
IsNext(t) == status[t] = "none" /\ \A u \in Tasks : u < t => status[u] # "none"

StartTask(t) ==
  /\ agent # "down"
  /\ IsNext(t)
  /\ IF RunningCount >= MaxParallel
     THEN /\ status' = [status EXCEPT ![t] = "queued"]
          /\ queue' = Append(queue, t)
          /\ UNCHANGED <<snapshot, running, loop>>
     ELSE /\ RunRows({t}, status)
          /\ running' = Registered({t}, running)
          /\ loop' = WithLoops({t}, loop)
          /\ queue' = queue
  /\ UNCHANGED <<step, agent, calls, clis, stops, crashes>>

(***************************************************************************)
(* loop.stop().  All a stopped loop still does when its await returns is   *)
(* to unwind, except that planning may fail.                               *)
(***************************************************************************)
Aborted(r) ==
  [Free EXCEPT !.stopped = TRUE,
               !.pc = IF r.pc = "escalate" THEN "reflect" ELSE r.pc]

\* The loops of t when the registered one is stopped.
AbortRegistered(t) ==
  [k \in Gens |-> IF k = running[t] THEN Aborted(loop[t][k]) ELSE loop[t][k]]

\* findIndex and splice: the queue without the first entry of t.
Spliced(q, t) ==
  LET at == {i \in 1..Len(q) : q[i] = t}
      qi == CHOOSE i \in at : \A j \in at : i <= j
  IN IF at = {} THEN q ELSE SubSeq(q, 1, qi - 1) \o SubSeq(q, qi + 1, Len(q))

\* Plausible bug: the loop is dropped from the map but not told to stop.
HaltSilent(t) ==
  /\ loop' = loop
  /\ running' = [running EXCEPT ![t] = 0]
  /\ queue' = Spliced(queue, t)

\* pauseTask and stopTask: abort the registered loop, leave the map and the queue.
Halt(t) ==
  /\ loop' = [loop EXCEPT ![t] = AbortRegistered(t)]
  /\ running' = [running EXCEPT ![t] = 0]
  /\ queue' = Spliced(queue, t)

PauseTask(t) ==
  /\ agent # "down"
  /\ status[t] \in {"running", "pending", "queued"}
  /\ Halt(t)
  /\ status' = [status EXCEPT ![t] = "paused"]
  /\ UNCHANGED <<step, snapshot, agent, calls, clis, stops, crashes>>

StopTask(t) ==
  /\ agent # "down"
  /\ status[t] \in Statuses \ (Ended \cup {"none", "deleted"})
  /\ Halt(t)
  /\ status' = [status EXCEPT ![t] = "cancelled"]
  /\ UNCHANGED <<step, snapshot, agent, calls, clis, stops, crashes>>

\* resumeTask
ResumeTask(t) ==
  /\ agent # "down"
  /\ status[t] = "paused"
  /\ FreeGens(t) # {}
  /\ RunRows({t}, status)
  /\ running' = Registered({t}, running)
  /\ loop' = WithLoops({t}, loop)
  /\ UNCHANGED <<step, agent, queue, calls, clis, stops, crashes>>

\* deleteTask removes the row and, by cascade, its policy_state.
DeleteTask(t) ==
  /\ agent # "down"
  /\ status[t] \notin {"none", "deleted"}
  /\ status' = [status EXCEPT ![t] = "deleted"]
  /\ snapshot' = [snapshot EXCEPT ![t] = 0]
  /\ UNCHANGED <<step, agent, queue, running, loop, calls, clis, stops, crashes>>

\* cancelStalePausedTasks, from the memory scheduler, for a task paused too long.
CancelStale(t) ==
  /\ agent = "up"
  /\ status[t] = "paused"
  /\ status' = [status EXCEPT ![t] = "cancelled"]
  /\ UNCHANGED <<step, snapshot, agent, queue, running, loop, calls, clis,
                 stops, crashes>>
-----------------------------------------------------------------------------
(* The command line: another process that writes the status column.        *)

CliSets(t, s) ==
  /\ clis < MaxCli
  /\ clis' = clis + 1
  /\ status' = [status EXCEPT ![t] = s]
  /\ UNCHANGED <<step, snapshot, agent, queue, running, loop, calls,
                 stops, crashes>>

CliEnable(t) == IsNext(t) /\ CliSets(t, "pending")
CliStop(t)   == status[t] \notin {"none", "deleted"} /\ CliSets(t, "cancelled")
CliPause(t)  == status[t] \notin {"none", "deleted"} /\ CliSets(t, "paused")
CliResume(t) == status[t] = "paused" /\ CliSets(t, "pending")
-----------------------------------------------------------------------------
(* The agent stops and starts; the process dies and starts.                *)

\* stopAgent calls stopAllAndWait.
StopAgent ==
  /\ agent = "up"
  /\ stops < MaxStops
  /\ stops' = stops + 1
  /\ agent' = "stopped"
  /\ loop' = [t \in Tasks |-> AbortRegistered(t)]
  /\ running' = [t \in Tasks |-> 0]
  /\ queue' = <<>>
  /\ UNCHANGED <<rowVars, snapshot, calls, clis, crashes>>

\* startAgent, once stopAllAndWait has seen the stopped loops end; the manager stays.
StartAgent ==
  /\ agent = "stopped"
  /\ \A t \in Tasks, k \in Gens : ~loop[t][k].stopped
  /\ agent' = "up"
  /\ UNCHANGED <<rowVars, snapshot, queue, running, loop, calls, clis, stops, crashes>>

Crash ==
  /\ agent # "down"
  /\ crashes < MaxCrashes
  /\ crashes' = crashes + 1
  /\ agent' = "down"
  /\ queue' = <<>>
  /\ running' = [t \in Tasks |-> 0]
  /\ loop' = [t \in Tasks |-> [k \in Gens |-> Free]]
  /\ UNCHANGED <<rowVars, snapshot, calls, clis, stops>>

\* Plausible bug: queued tasks are not taken for active.
RestorableUnqueued == {t \in Tasks : status[t] \in {"running", "pending"}}

\* getActiveTasks without the paused ones.
Restorable == {t \in Tasks : status[t] \in {"running", "pending", "queued"}}

\* The sequence that lists the tasks of W, oldest first.
OldestFirst(W) ==
  {q \in [1..Cardinality(W) -> W] :
     /\ \A i, j \in DOMAIN q : i < j => q[i] < q[j]
     /\ \A t \in W : \E i \in DOMAIN q : q[i] = t}

\* restoreInterruptedTasks: as many loops as the cap allows, the rest is queued.
Restore ==
  LET S == {t \in Restorable : Cardinality({u \in Restorable : u < t}) < MaxParallel}
      W == Restorable \ S
  IN
  /\ agent = "down"
  /\ agent' = "up"
  /\ \E q \in OldestFirst(W) : queue' = q
  /\ running' = Registered(S, running)
  /\ loop' = WithLoops(S, loop)
  /\ RunRows(S, [t \in Tasks |-> IF t \in W THEN "queued" ELSE status[t]])
  /\ UNCHANGED <<step, calls, clis, stops, crashes>>
-----------------------------------------------------------------------------
(* One loop, from one await to the next.                                   *)

Moves(t, k, pc) == loop' = [loop EXCEPT ![t][k].pc = pc, ![t][k].at = 0]

\* run() returns.
Leaves(t, k) ==
  loop' = [loop EXCEPT ![t][k] = [Free EXCEPT !.pc = "done", !.stopped = loop[t][k].stopped]]

\* Plausible bug: the loop overwrites what others wrote.
SafeStatusUnsafe(t, s) == IF status[t] = "deleted" THEN "deleted" ELSE s

\* safeUpdateStatus
SafeStatus(t, s) == IF status[t] \in Terminal \cup {"deleted"} THEN status[t] ELSE s

\* run() sets a status, clears the snapshot unless the task is paused, and returns.
Ends(t, k, s) ==
  /\ status' = [status EXCEPT ![t] = SafeStatus(t, s)]
  /\ snapshot' = [snapshot EXCEPT ![t] = IF SafeStatus(t, s) = "paused" THEN @ ELSE 0]
  /\ Leaves(t, k)

\* Planning rejects or times out; the abort signal is not looked at.
PlanFails(t, k) ==
  /\ loop[t][k].pc = "plan"
  /\ status[t] # "deleted"
  /\ Ends(t, k, "failed")
  /\ UNCHANGED <<step, agent, queue, running, calls, clis, stops, crashes>>

(***************************************************************************)
(* An await returns to a stopped loop, which throws LoopAbortedError, or   *)
(* to a loop whose row is gone, whose next write throws.                   *)
(***************************************************************************)
Unwind(t, k) ==
  /\ loop[t][k].pc \in Awaits
  /\ loop[t][k].stopped \/ status[t] = "deleted"
  /\ Leaves(t, k)
  /\ snapshot' = [snapshot EXCEPT ![t] = IF status[t] \in Ended THEN 0 ELSE @]
  /\ UNCHANGED <<rowVars, agent, queue, running, calls, clis, stops, crashes>>

\* The await returns and throwIfAborted does not throw.
Returns(t, k, pc) ==
  /\ loop[t][k].pc = pc
  /\ ~loop[t][k].stopped
  /\ status[t] # "deleted"

\* checkAction: the violations that block.
Blocked(t, k) ==
  \/ loop[t][k].at >= MaxIterations
  \/ loop[t][k].window >= ToolLimit

\* A blocking violation: one of these, or one left abstract (budget, duration,
\* tool list, API calls).
PolicyBlocks(t, k) ==
  /\ Returns(t, k, "plan")
  /\ Ends(t, k, "failed")
  /\ UNCHANGED <<step, agent, queue, running, calls, clis, stops, crashes>>

\* A restricted tool, a large amount or a repeated action asks for a confirmation.
PolicyEscalates(t, k) ==
  /\ Returns(t, k, "plan")
  /\ ~Blocked(t, k)
  /\ Moves(t, k, "escalate")
  /\ UNCHANGED <<rowVars, snapshot, agent, queue, running, calls, clis, stops, crashes>>

\* recordToolCall writes the window through before the tool is called.
CallTool(t, k) ==
  /\ Returns(t, k, "plan")
  /\ ~Blocked(t, k)
  /\ loop' = [loop EXCEPT ![t][k].pc = "tool", ![t][k].at = 0,
                         ![t][k].window = @ + 1]
  /\ snapshot' = [snapshot EXCEPT ![t] = loop[t][k].window + 1]
  /\ calls' = [calls EXCEPT ![t] = @ + 1]
  /\ UNCHANGED <<rowVars, agent, queue, running, clis, stops, crashes>>

\* executeTool never rejects; the window is written through once more.
ToolReturns(t, k) ==
  /\ Returns(t, k, "tool")
  /\ loop' = [loop EXCEPT ![t][k].pc = "reflect"]
  /\ snapshot' = [snapshot EXCEPT ![t] = loop[t][k].window]
  /\ UNCHANGED <<rowVars, agent, queue, running, calls, clis, stops, crashes>>

(***************************************************************************)
(* selfReflect never rejects, and evaluateSuccess answers without waiting. *)
(* The goal is achieved, uncertainty is escalated, or the loop goes on.    *)
(***************************************************************************)
ReflectAchieved(t, k) ==
  /\ Returns(t, k, "reflect")
  /\ step' = [step EXCEPT ![t] = @ + 1]
  /\ Ends(t, k, "completed")
  /\ UNCHANGED <<agent, queue, running, calls, clis, stops, crashes>>

ReflectEscalates(t, k) ==
  /\ Returns(t, k, "reflect")
  /\ Moves(t, k, "escalate")
  /\ UNCHANGED <<rowVars, snapshot, agent, queue, running, calls, clis, stops, crashes>>

\* On to the head of the while loop, in its order: cancelled, paused, the cap, the next plan.
ReflectContinues(t, k) ==
  /\ Returns(t, k, "reflect")
  /\ step' = [step EXCEPT ![t] = @ + 1]
  /\ \/ /\ status[t] \in {"cancelled", "paused"}
        /\ Ends(t, k, status[t])
     \/ /\ status[t] \notin {"cancelled", "paused"}
        /\ step[t] + 1 >= GlobalCap
        /\ Ends(t, k, "failed")
     \/ /\ status[t] \notin {"cancelled", "paused"}
        /\ step[t] + 1 < GlobalCap
        /\ loop' = [loop EXCEPT ![t][k].pc = "plan", ![t][k].at = step[t] + 1]
        /\ snapshot' = [snapshot EXCEPT ![t] = loop[t][k].window]
        /\ status' = status
  /\ UNCHANGED <<agent, queue, running, calls, clis, stops, crashes>>

\* Plausible bug: the loop returns without pausing the task.
EscalatedUnpaused(t, k) ==
  /\ Returns(t, k, "escalate")
  /\ Leaves(t, k)
  /\ UNCHANGED <<rowVars, snapshot, agent, queue, running, calls, clis, stops,
                 crashes>>

\* The user has been told; the task is paused and its snapshot kept.
Escalated(t, k) ==
  /\ Returns(t, k, "escalate")
  /\ status' = [status EXCEPT ![t] = SafeStatus(t, "paused")]
  /\ Leaves(t, k)
  /\ UNCHANGED <<step, snapshot, agent, queue, running, calls, clis,
                 stops, crashes>>

\* Plausible bug: only a loop that is still registered drains the queue.
FinishUndrained(t, k) ==
  /\ loop[t][k].pc = "done"
  /\ LET freed == [loop EXCEPT ![t][k] = Free]
         left  == [running EXCEPT ![t] = IF @ = k THEN 0 ELSE @]
         S     == IF queue = <<>> \/ running[t] # k THEN {} ELSE {Head(queue)}
     IN /\ \A u \in S : FreeGens(u) # {}
        /\ loop' = WithLoops(S, freed)
        /\ running' = Registered(S, left)
        /\ RunRows(S, status)
        /\ queue' = IF S = {} THEN queue ELSE Tail(queue)
  /\ UNCHANGED <<step, agent, calls, clis, stops, crashes>>

\* The finally of runLoop: leave the map, and start the next task of the queue.
Finish(t, k) ==
  /\ loop[t][k].pc = "done"
  /\ LET freed == [loop EXCEPT ![t][k] = Free]
         left  == [running EXCEPT ![t] = IF @ = k THEN 0 ELSE @]
         S     == IF queue = <<>> THEN {} ELSE {Head(queue)}
     IN /\ \A u \in S : FreeGens(u) # {}
        /\ loop' = WithLoops(S, freed)
        /\ running' = Registered(S, left)
        /\ RunRows(S, status)
        /\ queue' = IF S = {} THEN queue ELSE Tail(queue)
  /\ UNCHANGED <<step, agent, calls, clis, stops, crashes>>
-----------------------------------------------------------------------------
User(t) ==
  \/ StartTask(t) \/ PauseTask(t) \/ StopTask(t) \/ ResumeTask(t)
  \/ DeleteTask(t) \/ CancelStale(t)
  \/ CliEnable(t) \/ CliStop(t) \/ CliPause(t) \/ CliResume(t)

LoopStep(t, k) ==
  \/ PlanFails(t, k) \/ Unwind(t, k)
  \/ PolicyBlocks(t, k) \/ PolicyEscalates(t, k) \/ CallTool(t, k)
  \/ ToolReturns(t, k)
  \/ ReflectAchieved(t, k) \/ ReflectEscalates(t, k) \/ ReflectContinues(t, k)
  \/ Escalated(t, k)
  \/ Finish(t, k)

Next ==
  \/ \E t \in Tasks : User(t)
  \/ \E t \in Tasks, k \in Gens : LoopStep(t, k)
  \/ StopAgent \/ StartAgent \/ Crash \/ Restore

(***************************************************************************)
(* Every await of a loop returns: planning has a timer, and tools, LLM and *)
(* Telegram calls have their own timeouts.                                 *)
(***************************************************************************)
Fairness == \A t \in Tasks, k \in Gens : WF_vars(LoopStep(t, k))

Spec == Init /\ [][Next]_vars /\ Fairness
-----------------------------------------------------------------------------
Live(t, k) == loop[t][k].pc \in Awaits /\ ~loop[t][k].stopped

(***************************************************************************)
(* A loop that still works is the one registered in runningLoops, so that  *)
(* pause and stop reach it, and a task never has two of them, though pause *)
(* leaves stopped loops behind and resume does not wait for them.  The     *)
(* command line, which writes the status alone, is left out here and below.*)
(***************************************************************************)
OneLiveLoop == clis = 0 => \A t \in Tasks, k \in Gens : Live(t, k) => running[t] = k

(***************************************************************************)
(* While the agent is up, a task that says 'running' has a loop that will  *)
(* end it, and one that says 'queued' is in the queue: neither is stuck.   *)
(* Only a stop from the WebUI leaves such rows behind: startAgent does not *)
(* restore them, the next start of the process does.                       *)
(***************************************************************************)
ActiveIsOwned ==
  agent = "up" /\ stops = 0 /\ clis = 0 =>
    \A t \in Tasks :
      /\ status[t] = "running" => \E k \in Gens : Live(t, k)
      /\ status[t] = "queued" => \E i \in 1..Len(queue) : queue[i] = t

\* Tasks only wait while some loop is alive whose end will take them up.
QueueIsDriven ==
  queue # <<>> => \E t \in Tasks, k \in Gens : loop[t][k].pc # "free"

\* No loop goes past constraints.maxIterations, however it was interrupted.
StepsBounded == clis = 0 => \A t \in Tasks : step[t] <= MaxIterations

(***************************************************************************)
(* The bookkeeping of manager and loops: every variable has a value of its *)
(* type, no loop has gone past the iteration limit, and the queue is never *)
(* left without a loop that will drain it.                                 *)
(***************************************************************************)
Consistent == TypeOK /\ StepsBounded /\ QueueIsDriven

(***************************************************************************)
(* Pausing, resuming and crashing do not reset the rate-limit window: a    *)
(* task makes no more tool calls than the limit allows (issue #256).       *)
(***************************************************************************)
RateLimitHolds == clis = 0 => \A t \in Tasks : calls[t] <= ToolLimit

(***************************************************************************)
(* No tool is called for a task that is paused, cancelled, completed or    *)
(* waiting, whatever loop its earlier runs have left in an await.          *)
(***************************************************************************)
NoCallWhenHalted ==
  [][clis = 0 =>
       \A t \in Tasks : calls'[t] > calls[t] => status[t] \in {"running", "failed"}]_vars

(***************************************************************************)
(* What loop.ts says of the terminal statuses set by external callers:     *)
(* "the loop must not overwrite them".  While nobody uses the command      *)
(* line, a task that has ended is not revived.                             *)
(***************************************************************************)
EndedStaysEnded ==
  [][clis' = 0 =>
       \A t \in Tasks : status[t] \in Ended => status'[t] \in {status[t], "deleted"}]_vars

(***************************************************************************)
(* A queued task is eventually taken up: the queue drains though tasks are *)
(* paused, stopped, deleted and cancelled from the command line.  Only a   *)
(* stop of the agent empties the queue.                                    *)
(***************************************************************************)
QueuedStarts ==
  \A t \in Tasks : status[t] = "queued" ~> status[t] # "queued" \/ stops > 0

(***************************************************************************)
(* A task does not run for ever, whatever the planner and the reflection   *)
(* say (WORK4-012), unless the agent is stopped under it.                  *)
(***************************************************************************)
RunsEnd ==
  \A t \in Tasks : status[t] = "running" ~> status[t] # "running" \/ stops > 0

(***************************************************************************)
(* What loop.ts says of throwIfAborted: an in-flight step cannot overwrite *)
(* the status the external caller just wrote.  So a step of a stopped loop *)
(* leaves the status of its task alone.                                    *)
(***************************************************************************)
StoppedLoopIsHarmless ==
  [][\A t \in Tasks, k \in Gens :
       loop[t][k].stopped /\ loop[t][k].pc \in Awaits /\ loop'[t][k].pc = "done"
         => status'[t] = status[t]]_vars
=============================================================================
