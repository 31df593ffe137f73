--------------------------- MODULE ScheduledTasks ---------------------------
(***************************************************************************)
(* Scheduled tasks: the task store (src/src/memory/agent/tasks.ts), the    *)
(* two ways to start a task, a [TASK:id] message in Saved Messages and the *)
(* DB-backed scheduler (src/src/index.ts, services/task-scheduler.ts), the *)
(* dependency resolver (telegram/task-dependency-resolver.ts), and the     *)
(* tools and WebUI routes that create, move, cancel and delete tasks.      *)
(*                                                                         *)
(* An executor is a trigger message being handled or a tick of the         *)
(* scheduler; its steps run from one await to the next.                    *)
(***************************************************************************)
EXTENDS Integers, FiniteSets

CONSTANTS
  NumTasks,       \* bound: tasks ever created
  Ticks,          \* ticks of the scheduler that may overlap
  Recurring,      \* the tasks created with a recurrence
  Undaunted,      \* the tasks created with skipOnParentFailure = false
  MaxCascade,     \* MAX_CASCADE_DEPTH
  MaxEdits,       \* bound: how often tasks are moved, cancelled or deleted
  MaxCrashes      \* bound: how often the process dies

Tasks == 1..NumTasks

\* Trigger messages of a task: its own or one for each parent, and one for each edit.
Msgs == {m \in Tasks \X (1..NumTasks + MaxEdits) : m[2] <= MaxEdits + IF m[1] = 1 THEN 1 ELSE m[1] - 1}
Executors == Msgs \cup Ticks

ASSUME ScheduledAssumption ==
  /\ NumTasks \in Nat \ {0} /\ MaxCascade \in Nat
  /\ MaxEdits \in Nat /\ MaxCrashes \in Nat
  /\ Recurring \subseteq Tasks /\ Undaunted \subseteq Tasks
  /\ Ticks \cap Msgs = {}

VARIABLES
  \* the database
  status,     \* tasks.status; "none" before the row, "deleted" after it
  due,        \* scheduled_for: "never" (null), "later" or "now"
  parents,    \* task_dependencies
  series,     \* the task a recurrence started with; 0 when it does not recur
  \* Telegram
  msg,        \* the trigger messages in, or scheduled for, Saved Messages
  \* the process
  pc,         \* where each executor stands
  cur,        \* the task a tick works on
  list,       \* what is left of the due tasks a tick has read
  batch,      \* the dependents an executor has still to trigger
  \* the world
  runs,       \* how often the agent was set to work on a task
  succeeded,  \* the tasks whose work ended well
  edits, crashes

rowVars  == <<status, due, parents, series>>
execVars == <<pc, cur, list, batch>>
worldVars == <<runs, succeeded>>
vars == <<rowVars, msg, execVars, worldVars, edits, crashes>>

Terminal == {"done", "failed", "cancelled"}
Rows     == Terminal \cup {"pending", "in_progress"}
MsgStates == {"none", "scheduled", "sent", "seen", "gone"}

\* The values of the variables; runningTaskIds holds the task of a busy tick and no other.
TypeOK ==
  /\ status \in [Tasks -> Rows \cup {"none", "deleted"}]
  /\ due \in [Tasks -> {"never", "later", "now"}]
  /\ parents \in [Tasks -> SUBSET Tasks]
  /\ series \in [Tasks -> Tasks \cup {0}]
  /\ msg \in [Msgs -> MsgStates]
  /\ pc \in [Executors -> {"idle", "loop", "notice", "claim", "work", "trigger"}]
  /\ cur \in [Ticks -> Tasks \cup {0}]
  /\ \A k \in Ticks : cur[k] # 0 <=> pc[k] \in {"claim", "work", "trigger"}
  /\ list \in [Ticks -> SUBSET Tasks]
  /\ batch \in [Executors -> SUBSET Tasks]
  /\ runs \in [Tasks -> Nat]
  /\ succeeded \subseteq Tasks
  /\ edits \in 0..MaxEdits
  /\ crashes \in 0..MaxCrashes

Init ==
  /\ status = [t \in Tasks |-> "none"]
  /\ due = [t \in Tasks |-> "never"]
  /\ parents = [t \in Tasks |-> {}]
  /\ series = [t \in Tasks |-> 0]
  /\ msg = [m \in Msgs |-> "none"]
  /\ pc = [e \in Executors |-> "idle"]
  /\ cur = [k \in Ticks |-> 0]
  /\ list = [k \in Ticks |-> {}]
  /\ batch = [e \in Executors |-> {}]
  /\ runs = [t \in Tasks |-> 0]
  /\ succeeded = {}
  /\ edits = 0
  /\ crashes = 0
-----------------------------------------------------------------------------
(* The store and the messages.                                             *)

Exists(t) == status[t] \in Rows
IsNext(t) == status[t] = "none" /\ \A u \in Tasks : u < t => status[u] # "none"

\* Plausible bug: a parent that has ended in any way will do.
CanExecuteEnded(t) == \A p \in parents[t] : status[p] \in Terminal

\* canExecute: no dependency row whose task is missing or not done.
CanExecute(t) == \A p \in parents[t] : status[p] = "done"

Unused(t) == {m \in Msgs : m[1] = t /\ msg[m] = "none"}

\* The messages ms when one more is sent for t, in the state given.
WithMsg(ms, t, state) ==
  [ms EXCEPT ![CHOOSE m \in Unused(t) : \A k \in Unused(t) : m[2] <= k[2]] = state]

\* DeleteScheduledMessages succeeds, or fails and the message goes out in its time.
Swept(t) ==
  {[m \in Msgs |-> IF m[1] = t /\ msg[m] = "scheduled" THEN s ELSE msg[m]] :
     s \in {"gone", "sent"}}

(***************************************************************************)
(* telegram_create_scheduled_task.  A task that depends on others is left  *)
(* to the resolver; any other is scheduled as a message too.               *)
(***************************************************************************)
CreateRow(t, P, s) ==
  /\ IsNext(t)
  /\ P \subseteq {u \in Tasks : Exists(u)}
  /\ status' = [status EXCEPT ![t] = "pending"]
  /\ due' = [due EXCEPT ![t] = s]
  /\ parents' = [parents EXCEPT ![t] = P]
  /\ series' = [series EXCEPT ![t] = IF t \in Recurring THEN t ELSE 0]
  /\ UNCHANGED <<execVars, worldVars, edits, crashes>>

Create(t, P, s) ==
  /\ P = {} => s = "later"
  /\ CreateRow(t, P, s)
  /\ msg' = IF P = {} THEN WithMsg(msg, t, "scheduled") ELSE msg

(***************************************************************************)
(* The tool reports an error, as the message cannot be scheduled or a      *)
(* parent does not exist: the row, and the dependencies entered before,    *)
(* remain.  So do the rows of the network and predictions routes, which    *)
(* never send a message.                                                   *)
(***************************************************************************)
CreateRefused(t, P, s) ==
  /\ CreateRow(t, P, s)
  /\ msg' = msg

Edit == edits < MaxEdits /\ edits' = edits + 1

\* telegram_update_task: a pending task gets a new time, and a new message if it can be sent.
Move(t) ==
  /\ Edit
  /\ status[t] = "pending"
  /\ due' = [due EXCEPT ![t] = "later"]
  /\ msg' \in Swept(t) \cup {WithMsg(ms, t, "scheduled") : ms \in Swept(t)}
  /\ UNCHANGED <<status, parents, series, execVars, worldVars, crashes>>

\* telegram_cancel_task, and the WebUI's cancel, which leaves the message alone.
Cancel(t) ==
  /\ Edit
  /\ status[t] \in {"pending", "in_progress"}
  /\ status' = [status EXCEPT ![t] = "cancelled"]
  /\ msg' \in Swept(t) \cup {msg}
  /\ UNCHANGED <<due, parents, series, execVars, worldVars, crashes>>

\* DELETE /:id and /clean; the dependency rows go by cascade.
Delete(t) ==
  /\ Edit
  /\ Exists(t)
  /\ status' = [status EXCEPT ![t] = "deleted"]
  /\ parents' = [u \in Tasks |-> IF u = t THEN {} ELSE parents[u] \ {t}]
  /\ UNCHANGED <<due, series, msg, execVars, worldVars, crashes>>

TimePasses(t) ==
  /\ due[t] = "later"
  /\ due' = [due EXCEPT ![t] = "now"]
  /\ UNCHANGED <<status, parents, series, msg, execVars, worldVars, edits, crashes>>
-----------------------------------------------------------------------------
(* The executors.                                                          *)

Working(e) == IF e \in Ticks THEN cur[e] ELSE e[1]

(***************************************************************************)
(* An executor is through with its task.  A tick goes on with its list; a  *)
(* handler deletes its trigger message, and whether that worked shows at   *)
(* the next restart (Crash).                                               *)
(***************************************************************************)
Return(e) ==
  /\ batch' = [batch EXCEPT ![e] = {}]
  /\ pc' = [pc EXCEPT ![e] = IF e \in Ticks THEN "loop" ELSE "idle"]
  /\ cur' = [k \in Ticks |-> IF k = e THEN 0 ELSE cur[k]]
  /\ list' = list

(***************************************************************************)
(* The tasks onTaskFail cancels: the pending dependents, and theirs, that  *)
(* do not want to go on after a failure, down to the depth limit.          *)
(***************************************************************************)
Downstream(t) ==
  LET level[n \in 0..MaxCascade] ==
        IF n = 0 THEN {t}
        ELSE {u \in Tasks : /\ status[u] = "pending" /\ u \notin Undaunted
                            /\ parents[u] \cap level[n - 1] # {}}
  IN UNION {level[n] : n \in 1..MaxCascade}

\* failTask and onTaskFail.
FailTask(t) ==
  status' = [u \in Tasks |-> IF u = t /\ Exists(t) THEN "failed"
                             ELSE IF u \in Downstream(t) THEN "cancelled" ELSE status[u]]

\* A trigger message is delivered, once per life of the process.
Arrived(m) == msg[m] = "sent" \/ (msg[m] = "scheduled" /\ due[m[1]] = "now")

(***************************************************************************)
(* handleScheduledTask up to its first await: a task that has started,     *)
(* ended or gone is skipped, one that waits for parents is answered.       *)
(***************************************************************************)
HandleTrigger(m) ==
  /\ Arrived(m)
  /\ pc[m] = "idle"
  /\ msg' = [msg EXCEPT ![m] = "seen"]
  /\ pc' = [pc EXCEPT ![m] = IF status[m[1]] # "pending" THEN "idle"
                            ELSE IF CanExecute(m[1]) THEN "claim" ELSE "notice"]
  /\ UNCHANGED <<rowVars, cur, list, batch, worldVars, edits, crashes>>

\* The notice that a task waits for its parents is sent.
NoticeSent(m) ==
  /\ pc[m] = "notice"
  /\ pc' = [pc EXCEPT ![m] = "idle"]
  /\ UNCHANGED <<rowVars, msg, cur, list, batch, worldVars, edits, crashes>>

\* It cannot be sent: the catch of handleScheduledTask fails the task.
NoticeFails(m) ==
  /\ pc[m] = "notice"
  /\ FailTask(m[1])
  /\ Return(m)
  /\ UNCHANGED <<msg, due, parents, series, worldVars, edits, crashes>>

\* Plausible bug: dependents are left to the resolver altogether.
DueTasksFree == {t \in Tasks : status[t] = "pending" /\ due[t] = "now" /\ parents[t] = {}}

\* tick(): the due tasks are read once.
DueTasks == {t \in Tasks : status[t] = "pending" /\ due[t] = "now"}

TickStart(k) ==
  /\ pc[k] = "idle"
  /\ DueTasks # {}
  /\ list' = [list EXCEPT ![k] = DueTasks]
  /\ pc' = [pc EXCEPT ![k] = "loop"]
  /\ UNCHANGED <<rowVars, msg, cur, batch, worldVars, edits, crashes>>

\* The next task of the list, unless a tick runs it or its parents are not done.
TickNext(k, t) ==
  /\ pc[k] = "loop"
  /\ t \in list[k]
  /\ list' = [list EXCEPT ![k] = @ \ {t}]
  /\ IF (\E j \in Ticks : cur[j] = t) \/ ~CanExecute(t)
     THEN UNCHANGED <<pc, cur>>
     ELSE /\ pc' = [pc EXCEPT ![k] = "claim"]
          /\ cur' = [cur EXCEPT ![k] = t]
  /\ UNCHANGED <<rowVars, msg, batch, worldVars, edits, crashes>>

TickEnd(k) ==
  /\ pc[k] = "loop"
  /\ list[k] = {}
  /\ pc' = [pc EXCEPT ![k] = "idle"]
  /\ UNCHANGED <<rowVars, msg, cur, list, batch, worldVars, edits, crashes>>

\* Plausible bug: the row is read and then written.
ClaimUnguarded(e) ==
  /\ pc[e] = "claim"
  /\ status' = [status EXCEPT ![Working(e)] = "in_progress"]
  /\ runs' = [runs EXCEPT ![Working(e)] = @ + 1]
  /\ pc' = [pc EXCEPT ![e] = "work"]
  /\ UNCHANGED <<due, parents, series, msg, cur, list, batch, succeeded, edits, crashes>>

\* claimTask: one UPDATE flips pending to in_progress, and the agent sets to work.
Claim(e) ==
  /\ pc[e] = "claim"
  /\ status[Working(e)] = "pending"
  /\ status' = [status EXCEPT ![Working(e)] = "in_progress"]
  /\ runs' = [runs EXCEPT ![Working(e)] = @ + 1]
  /\ pc' = [pc EXCEPT ![e] = "work"]
  /\ UNCHANGED <<due, parents, series, msg, cur, list, batch, succeeded, edits, crashes>>

ClaimLost(e) ==
  /\ pc[e] = "claim"
  /\ status[Working(e)] # "pending"
  /\ Return(e)
  /\ UNCHANGED <<msg, rowVars, worldVars, edits, crashes>>

\* The dependents onTaskComplete will trigger, once t is done.
Ready(t) ==
  {u \in Tasks : /\ t \in parents[u] /\ status[u] = "pending"
                 /\ \A p \in parents[u] \ {t} : status[p] = "done"}

\* Plausible bug: the dependents are looked up before the task is marked done.
CompleteLate(e) ==
  LET t == Working(e) IN
  /\ pc[e] = "work"
  /\ status' = [status EXCEPT ![t] = IF Exists(t) THEN "done" ELSE @]
  /\ succeeded' = succeeded \cup {t}
  /\ batch' = [batch EXCEPT ![e] = {u \in Ready(t) : status[t] = "done"}]
  /\ pc' = [pc EXCEPT ![e] = "trigger"]
  /\ UNCHANGED <<due, parents, series, msg, cur, list, runs, edits, crashes>>

\* The agent has answered and the answer is sent: completeTask, whatever the row says.
Complete(e) ==
  LET t == Working(e) IN
  /\ pc[e] = "work"
  /\ status' = [status EXCEPT ![t] = IF Exists(t) THEN "done" ELSE @]
  /\ succeeded' = succeeded \cup {t}
  /\ batch' = [batch EXCEPT ![e] = Ready(t)]
  /\ pc' = [pc EXCEPT ![e] = "trigger"]
  /\ UNCHANGED <<due, parents, series, msg, cur, list, runs, edits, crashes>>

\* The agent, or the sending of its answer, throws.
WorkFails(e) ==
  /\ pc[e] = "work"
  /\ FailTask(Working(e))
  /\ Return(e)
  /\ UNCHANGED <<msg, due, parents, series, worldVars, edits, crashes>>

(***************************************************************************)
(* triggerTask for one dependent: a message to Saved Messages; when it     *)
(* cannot be sent the dependent is failed, whatever its row says, and      *)
(* nothing is cascaded.                                                    *)
(***************************************************************************)
Trigger(e, u) ==
  /\ pc[e] = "trigger"
  /\ u \in batch[e]
  /\ batch' = [batch EXCEPT ![e] = @ \ {u}]
  /\ \/ /\ Exists(u)
        /\ msg' = WithMsg(msg, u, "sent")
        /\ status' = status
     \/ /\ Exists(u)
        /\ status' = [status EXCEPT ![u] = "failed"]
        /\ msg' = msg
     \/ /\ ~Exists(u)
        /\ UNCHANGED <<status, msg>>
  /\ UNCHANGED <<due, parents, series, pc, cur, list, worldVars, edits, crashes>>

\* Nothing recurs, or recurrenceUntil has passed.
Finish(e) ==
  /\ pc[e] = "trigger"
  /\ batch[e] = {}
  /\ Return(e)
  /\ UNCHANGED <<msg, rowVars, worldVars, edits, crashes>>

\* rescheduleRecurringTask: a new row, and a message for it that may fail.
Recur(e, u) ==
  /\ pc[e] = "trigger"
  /\ batch[e] = {}
  /\ series[Working(e)] # 0
  /\ IsNext(u)
  /\ status' = [status EXCEPT ![u] = "pending"]
  /\ due' = [due EXCEPT ![u] = "later"]
  /\ series' = [series EXCEPT ![u] = series[Working(e)]]
  /\ Return(e)
  /\ msg' \in {msg, WithMsg(msg, u, "scheduled")}
  /\ UNCHANGED <<parents, worldVars, edits, crashes>>

(***************************************************************************)
(* The process dies.  The set of seen messages is in its memory: those not *)
(* yet deleted, or whose deletion failed, are delivered again.             *)
(***************************************************************************)
Crash ==
  /\ crashes < MaxCrashes
  /\ crashes' = crashes + 1
  /\ pc' = [e \in Executors |-> "idle"]
  /\ cur' = [k \in Ticks |-> 0]
  /\ list' = [k \in Ticks |-> {}]
  /\ batch' = [e \in Executors |-> {}]
  /\ \E S \in SUBSET {m \in Msgs : msg[m] = "seen"} :
       msg' = [m \in Msgs |-> IF msg[m] # "seen" THEN msg[m]
                              ELSE IF m \in S THEN "sent" ELSE "gone"]
  /\ UNCHANGED <<rowVars, worldVars, edits>>
-----------------------------------------------------------------------------
User(t) ==
  \/ \E P \in SUBSET Tasks, s \in {"never", "later"} :
       Create(t, P, s) \/ CreateRefused(t, P, s)
  \/ Move(t) \/ Cancel(t) \/ Delete(t)

TickStep(k) == TickStart(k) \/ TickEnd(k) \/ \E t \in Tasks : TickNext(k, t)

HandlerStep(m) == HandleTrigger(m) \/ NoticeSent(m) \/ NoticeFails(m)

WorkStep(e) ==
  \/ Claim(e) \/ ClaimLost(e) \/ Complete(e) \/ WorkFails(e) \/ Finish(e)
  \/ \E u \in Tasks : Trigger(e, u) \/ Recur(e, u)

ExecutorStep(e) ==
  \/ e \in Ticks /\ TickStep(e)
  \/ e \in Msgs /\ HandlerStep(e)
  \/ WorkStep(e)

Next ==
  \/ \E t \in Tasks : User(t) \/ TimePasses(t)
  \/ \E e \in Executors : ExecutorStep(e)
  \/ Crash

(***************************************************************************)
(* The scheduler's interval keeps firing, every await returns (the agent's *)
(* turn and Telegram calls have their timeouts), and a message that was    *)
(* sent to Saved Messages is delivered.                                    *)
(***************************************************************************)
Fairness == \A e \in Executors : WF_vars(ExecutorStep(e))

Spec == Init /\ [][Next]_vars /\ Fairness
-----------------------------------------------------------------------------
(***************************************************************************)
(* The agent is set to work on a task at most once, though a message, its  *)
(* duplicate after a crash and overlapping ticks may all start it          *)
(* (claimTask).                                                            *)
(***************************************************************************)
RunsOnce == \A t \in Tasks : runs[t] <= 1

(***************************************************************************)
(* Work on a task only begins when the work of every task it depends on    *)
(* has ended well: nothing in between the check and the claim undoes it.   *)
(***************************************************************************)
ParentsFirst ==
  [][\A t \in Tasks : runs'[t] > runs[t] => parents[t] \subseteq succeeded]_vars

(***************************************************************************)
(* A recurring task has one occurrence at a time: the next is only created *)
(* when the last has ended, by the one executor that ran it.               *)
(***************************************************************************)
OneOccurrence ==
  \A t, u \in Tasks :
    /\ series[t] # 0 /\ series[t] = series[u]
    /\ {status[t], status[u]} \subseteq {"pending", "in_progress"}
    => t = u

(***************************************************************************)
(* A task is started at most once, and a series has at most one open task, *)
(* among well-formed rows, messages and executors.                         *)
(***************************************************************************)
AtMostOnce == TypeOK /\ RunsOnce /\ OneOccurrence

(***************************************************************************)
(* What task-scheduler.ts calls the reliable execution path: a task that   *)
(* is due and whose parents are done is taken up, whatever becomes of its  *)
(* message, and though the process dies and is started again.              *)
(***************************************************************************)
DueRuns ==
  \A t \in Tasks :
    status[t] = "pending" /\ due[t] = "now" /\ CanExecute(t)
      ~> status[t] # "pending" \/ due[t] # "now" \/ ~CanExecute(t)

Waits(t)   == status[t] = "pending" /\ ~CanExecute(t)
MayRun(t)  == status[t] = "pending" /\ CanExecute(t)
Unbroken   == crashes = 0 /\ \A t \in Tasks : status[t] # "deleted"

(***************************************************************************)
(* "Task executes automatically when all parents are done": a dependent    *)
(* that had to wait is taken up once the last of its parents is done, by   *)
(* whichever executor finished that one.  Two things break the chain: a    *)
(* crash between the completion and the trigger message, and the deletion  *)
(* of a parent that was waited for.                                        *)
(***************************************************************************)
DependentRuns ==
  \A t \in Tasks : [](Waits(t) => [](MayRun(t) => <>(~MayRun(t) \/ ~Unbroken)))
=============================================================================
