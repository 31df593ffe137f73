------------------------ MODULE ScheduledTasksProofs ------------------------
(***************************************************************************)
(* What ScheduledTasks guarantees for any number of tasks, messages and    *)
(* overlapping ticks, any dependency graph and any number of crashes.      *)
(***************************************************************************)
EXTENDS ScheduledTasks, TLAPS

Open == {"pending", "in_progress"}
Busy == {"work", "trigger"}

(***************************************************************************)
(* A row: no work before the claim and one claim at most, done means that  *)
(* the work ended well, and the first task of a series was created.        *)
(***************************************************************************)
RowOk(t) ==
  /\ status[t] \in {"none", "pending"} => runs[t] = 0
  /\ runs[t] <= 1
  /\ status[t] = "done" => t \in succeeded
  /\ series[t] # 0 => status[series[t]] # "none"

(***************************************************************************)
(* An executor: before the claim the parents' work has ended well, and     *)
(* after it the row is not pending again.                                  *)
(***************************************************************************)
ExecOk(e) ==
  /\ pc[e] = "claim" => /\ status[Working(e)] # "none"
                        /\ parents[Working(e)] \subseteq succeeded
  /\ pc[e] \in Busy => status[Working(e)] \notin {"none", "pending"}
  /\ pc[e] = "trigger" => status[Working(e)] # "in_progress"

\* Two executors never work on the same task.
OneWorker ==
  \A e, f \in Executors : pc[e] \in Busy /\ pc[f] \in Busy /\ Working(e) = Working(f) => e = f

\* The task of a series that is open, or whose executor may still create the next.
Carrier(t) == status[t] \in Open \/ \E e \in Executors : pc[e] \in Busy /\ Working(e) = t

\* A series goes on from one task only.
OneCarrier ==
  \A t, u \in Tasks :
    series[t] # 0 /\ series[t] = series[u] /\ Carrier(t) /\ Carrier(u) => t = u

IInv ==
  /\ TypeOK
  /\ \A t \in Tasks : RowOk(t)
  /\ \A e \in Executors : ExecOk(e)
  /\ \A k \in Ticks : \A t \in list[k] : status[t] # "none"
  /\ OneWorker
  /\ OneCarrier
-----------------------------------------------------------------------------
\* A busy executor works on a task.
LEMMA WorkingIsTask ==
  ASSUME TypeOK, NEW e \in Executors, pc[e] \in Busy \cup {"claim"}
  PROVE  Working(e) \in Tasks
<1>1. CASE e \in Ticks
  BY <1>1 DEF TypeOK, Working, Busy
<1>2. CASE e \notin Ticks
  <2>1. e \in Msgs
    BY <1>2 DEF Executors
  <2>2. e[1] \in Tasks
    BY <2>1 DEF Msgs
  <2>. QED
    BY <1>2, <2>2 DEF Working
<1>. QED
  BY <1>1, <1>2

\* The executor stays where it is, leaves, or has found a task that it may claim.
Goes(e) ==
  \/ pc'[e] = pc[e] /\ Working(e)' = Working(e)
  \/ pc'[e] \notin Busy \cup {"claim"}
  \/ /\ pc'[e] = "claim" /\ Working(e)' \in Tasks
     /\ status[Working(e)'] # "none" /\ parents[Working(e)'] \subseteq succeeded

(***************************************************************************)
(* A step that opens no row, starts no work and completes none.            *)
(***************************************************************************)
LEMMA ClosingStep ==
  ASSUME IInv, TypeOK',
         \A t \in Tasks : status'[t] \in {status[t], "failed", "cancelled", "deleted"},
         \A t \in Tasks : parents'[t] \subseteq parents[t],
         series' = series, runs' = runs, succeeded' = succeeded,
         \A e \in Executors : Goes(e),
         \A k \in Ticks : \A t \in list'[k] : status[t] # "none"
  PROVE  IInv'
<1>0. TypeOK
  BY DEF IInv
<1>1. \A t \in Tasks : /\ status'[t] \in {"none", "pending", "in_progress", "done"} => status'[t] = status[t]
                       /\ status[t] # "none" => status'[t] # "none"
  OBVIOUS
<1>2. ASSUME NEW t \in Tasks
      PROVE  RowOk(t)'
  <2>1. RowOk(t) /\ series[t] \in Tasks \cup {0}
    BY <1>0 DEF IInv, TypeOK
  <2>. QED
    BY <1>1, <2>1 DEF RowOk
<1>3. ASSUME NEW e \in Executors
      PROVE  ExecOk(e)'
  <2>1. ExecOk(e) /\ Goes(e)
    BY DEF IInv
  <2>2. pc'[e] = pc[e] /\ pc[e] \in Busy \cup {"claim"} => Working(e) \in Tasks
    BY <1>0, WorkingIsTask
  <2>. QED
    BY <1>1, <2>1, <2>2 DEF ExecOk, Goes, Busy
<1>4. \A k \in Ticks : \A t \in list'[k] : status'[t] # "none"
  BY <1>1 DEF TypeOK
<1>5. ASSUME NEW e \in Executors, pc'[e] \in Busy
      PROVE  pc[e] \in Busy /\ Working(e)' = Working(e)
  BY <1>5 DEF Goes, Busy
<1>6. OneWorker'
  BY <1>5 DEF IInv, OneWorker
<1>7. ASSUME NEW t \in Tasks, Carrier(t)'
      PROVE  Carrier(t)
  BY <1>1, <1>5, <1>7 DEF Carrier, Open
<1>8. OneCarrier'
  BY <1>7 DEF IInv, OneCarrier
<1>. QED
  BY <1>2, <1>3, <1>4, <1>6, <1>8 DEF IInv

\* A message more leaves well-formed messages.
LEMMA WithMsgTyped ==
  ASSUME NEW ms \in [Msgs -> MsgStates], NEW t \in Tasks, NEW state \in MsgStates
  PROVE  WithMsg(ms, t, state) \in [Msgs -> MsgStates]
  BY DEF WithMsg

\* What a sweep of the messages leaves is well-formed.
LEMMA SweptTyped ==
  ASSUME TypeOK, NEW t \in Tasks
  PROVE  Swept(t) \subseteq [Msgs -> MsgStates]
  BY DEF Swept, TypeOK, MsgStates

\* What is left alone stays well-formed, and so does each executor.
LEMMA ExecutorsRest ==
  ASSUME UNCHANGED execVars
  PROVE  \A e \in Executors : pc'[e] = pc[e] /\ Working(e)' = Working(e)
  BY DEF execVars, Working

\* An executor that returns, and all others.
LEMMA ReturnExec ==
  ASSUME TypeOK, NEW e \in Executors, Return(e)
  PROVE  /\ pc' \in [Executors -> {"idle", "loop", "notice", "claim", "work", "trigger"}]
         /\ cur' \in [Ticks -> Tasks \cup {0}]
         /\ \A k \in Ticks : cur'[k] # 0 <=> pc'[k] \in {"claim", "work", "trigger"}
         /\ list' = list /\ batch' \in [Executors -> SUBSET Tasks]
         /\ pc'[e] \notin Busy \cup {"claim"}
         /\ \A f \in Executors : f # e => pc'[f] = pc[f] /\ Working(f)' = Working(f)
<1>1. Ticks \subseteq Executors
  BY DEF Executors
<1>2. pc' \in [Executors -> {"idle", "loop", "notice", "claim", "work", "trigger"}]
  BY DEF Return, TypeOK
<1>3. cur' \in [Ticks -> Tasks \cup {0}]
  BY DEF Return, TypeOK
<1>4. \A k \in Ticks : cur'[k] # 0 <=> pc'[k] \in {"claim", "work", "trigger"}
  BY <1>1 DEF Return, TypeOK
<1>5. list' = list /\ batch' \in [Executors -> SUBSET Tasks]
  BY DEF Return, TypeOK
<1>6. pc'[e] \notin Busy \cup {"claim"}
  BY DEF Return, TypeOK, Busy
<1>7. \A f \in Executors : f # e => pc'[f] = pc[f] /\ Working(f)' = Working(f)
  BY DEF Return, TypeOK, Working
<1>. QED
  BY <1>2, <1>3, <1>4, <1>5, <1>6, <1>7

\* The rows that failTask and onTaskFail write.
LEMMA FailTaskRows ==
  ASSUME TypeOK, NEW t \in Tasks, FailTask(t)
  PROVE  /\ status' \in [Tasks -> Rows \cup {"none", "deleted"}]
         /\ \A u \in Tasks : status'[u] \in {status[u], "failed", "cancelled", "deleted"}
  BY DEF TypeOK, FailTask, Rows, Terminal

\* What every step that only returns shares.
LEMMA ReturningStep ==
  ASSUME IInv, NEW e \in Executors, Return(e),
         \/ UNCHANGED status
         \/ \E t \in Tasks : FailTask(t),
         UNCHANGED <<msg, due, parents, series, worldVars, edits, crashes>>
  PROVE  IInv'
<1>0. TypeOK
  BY DEF IInv
<1>1. /\ status' \in [Tasks -> Rows \cup {"none", "deleted"}]
      /\ \A u \in Tasks : status'[u] \in {status[u], "failed", "cancelled", "deleted"}
  BY <1>0, FailTaskRows DEF TypeOK
<1>2. UNCHANGED <<msg, due, parents, series, runs, succeeded, edits, crashes>>
  BY DEF worldVars
<1>3. TypeOK'
  BY <1>0, <1>1, <1>2, ReturnExec DEF TypeOK
<1>4. \A f \in Executors : Goes(f)
  BY <1>0, ReturnExec DEF Goes
<1>5. \A k \in Ticks : \A t \in list'[k] : status[t] # "none"
  BY <1>0, ReturnExec DEF IInv
<1>. QED
  BY <1>1, <1>2, <1>3, <1>4, <1>5, ClosingStep

\* Rows and messages are edited; the executors are not concerned.
LEMMA EditingStep ==
  ASSUME IInv, status' \in [Tasks -> Rows \cup {"none", "deleted"}],
         \A t \in Tasks : status'[t] \in {status[t], "failed", "cancelled", "deleted"},
         parents' \in [Tasks -> SUBSET Tasks], \A t \in Tasks : parents'[t] \subseteq parents[t],
         due' \in [Tasks -> {"never", "later", "now"}],
         msg' \in [Msgs -> MsgStates], edits' \in 0..MaxEdits,
         UNCHANGED <<series, execVars, worldVars, crashes>>
  PROVE  IInv'
<1>1. UNCHANGED <<series, pc, cur, list, batch, runs, succeeded, crashes>>
  BY DEF execVars, worldVars
<1>2. TypeOK'
  BY <1>1 DEF IInv, TypeOK
<1>3. \A e \in Executors : Goes(e)
  BY ExecutorsRest DEF Goes
<1>. QED
  BY <1>1, <1>2, <1>3, ClosingStep DEF IInv

\* An edit stays within its bound.
LEMMA EditTyped ==
  ASSUME TypeOK, Edit
  PROVE  edits' \in 0..MaxEdits
  BY ScheduledAssumption DEF TypeOK, Edit

\* A moved date keeps the invariant.
LEMMA MoveStep ==
  ASSUME IInv, NEW t \in Tasks, Move(t)
  PROVE  IInv'
<1>0. TypeOK
  BY DEF IInv
<1>1. edits' \in 0..MaxEdits
  BY <1>0, EditTyped DEF Move
<1>2. msg' \in [Msgs -> MsgStates]
  <2>1. "scheduled" \in MsgStates
    BY DEF MsgStates
  <2>. QED
    BY <1>0, <2>1, SweptTyped, WithMsgTyped DEF Move
<1>3. due' \in [Tasks -> {"never", "later", "now"}]
  BY <1>0 DEF Move, TypeOK
<1>4. UNCHANGED <<status, parents, series, execVars, worldVars, crashes>>
  BY DEF Move
<1>. QED
  BY <1>0, <1>1, <1>2, <1>3, <1>4, EditingStep DEF TypeOK

\* A cancelled task keeps the invariant.
LEMMA CancelStep ==
  ASSUME IInv, NEW t \in Tasks, Cancel(t)
  PROVE  IInv'
<1>0. TypeOK
  BY DEF IInv
<1>1. edits' \in 0..MaxEdits
  BY <1>0, EditTyped DEF Cancel
<1>2. msg' \in [Msgs -> MsgStates]
  BY <1>0, SweptTyped DEF Cancel, TypeOK
<1>3. /\ status' \in [Tasks -> Rows \cup {"none", "deleted"}]
      /\ \A u \in Tasks : status'[u] \in {status[u], "failed", "cancelled", "deleted"}
  BY <1>0 DEF Cancel, TypeOK, Rows, Terminal
<1>4. UNCHANGED <<due, parents, series, execVars, worldVars, crashes>>
  BY DEF Cancel
<1>. QED
  BY <1>0, <1>1, <1>2, <1>3, <1>4, EditingStep DEF TypeOK

\* A deleted row leaves nothing behind that refers to it.
LEMMA DeleteStep ==
  ASSUME IInv, NEW t \in Tasks, Delete(t)
  PROVE  IInv'
<1>0. TypeOK
  BY DEF IInv
<1>1. edits' \in 0..MaxEdits
  BY <1>0, EditTyped DEF Delete
<1>2. /\ parents' \in [Tasks -> SUBSET Tasks]
      /\ \A u \in Tasks : parents'[u] \subseteq parents[u]
  BY <1>0 DEF Delete, TypeOK
<1>3. /\ status' \in [Tasks -> Rows \cup {"none", "deleted"}]
      /\ \A u \in Tasks : status'[u] \in {status[u], "failed", "cancelled", "deleted"}
  BY <1>0 DEF Delete, TypeOK
<1>4. UNCHANGED <<due, series, msg, execVars, worldVars, crashes>>
  BY DEF Delete
<1>. QED
  BY <1>0, <1>1, <1>2, <1>3, <1>4, EditingStep DEF TypeOK

\* A task that becomes due keeps the invariant.
LEMMA TimePassesStep ==
  ASSUME IInv, NEW t \in Tasks, TimePasses(t)
  PROVE  IInv'
<1>0. TypeOK
  BY DEF IInv
<1>1. due' \in [Tasks -> {"never", "later", "now"}]
  BY <1>0 DEF TimePasses, TypeOK
<1>2. UNCHANGED <<status, parents, series, msg, execVars, worldVars, edits, crashes>>
  BY DEF TimePasses
<1>. QED
  BY <1>0, <1>1, <1>2, EditingStep DEF TypeOK
-----------------------------------------------------------------------------
\* What canExecute lets pass waits for no work.
LEMMA CanExecuteMeans ==
  ASSUME IInv, NEW t \in Tasks, CanExecute(t)
  PROVE  parents[t] \subseteq succeeded
  BY DEF IInv, TypeOK, CanExecute, RowOk

\* A message is an executor of its own task, and no tick.
LEMMA MsgIsNoTick ==
  ASSUME NEW m \in Msgs
  PROVE  m \in Executors /\ m \notin Ticks /\ m[1] \in Tasks /\ Working(m)' = m[1]
<1>1. m \in Executors /\ m \notin Ticks
  BY ScheduledAssumption DEF Executors
<1>2. m[1] \in Tasks
  BY DEF Msgs
<1>. QED
  BY <1>1, <1>2 DEF Working

\* A handler moves without touching the rows.
LEMMA HandlerMove ==
  ASSUME IInv, NEW m \in Msgs, NEW p \in {"idle", "claim", "notice"},
         pc' = [pc EXCEPT ![m] = p], msg' \in [Msgs -> MsgStates],
         p = "claim" => status[m[1]] = "pending" /\ CanExecute(m[1]),
         UNCHANGED <<rowVars, cur, list, batch, worldVars, edits, crashes>>
  PROVE  IInv'
<1>0. TypeOK /\ m \in Executors /\ m \notin Ticks /\ m[1] \in Tasks /\ Working(m)' = m[1]
  BY MsgIsNoTick DEF IInv
<1>1. UNCHANGED <<status, due, parents, series, cur, list, batch, runs, succeeded, edits, crashes>>
  BY DEF rowVars, worldVars
<1>2. TypeOK'
  <2>1. pc' \in [Executors -> {"idle", "loop", "notice", "claim", "work", "trigger"}]
    BY <1>0 DEF TypeOK
  <2>2. \A k \in Ticks : pc'[k] = pc[k]
    BY <1>0 DEF TypeOK, Executors
  <2>. QED
    BY <1>0, <1>1, <2>1, <2>2 DEF TypeOK
<1>3. ASSUME NEW e \in Executors
      PROVE  Goes(e)
  <2>1. CASE e = m
    <3>1. pc'[m] = p
      BY <1>0 DEF TypeOK
    <3>2. p = "claim" => parents[m[1]] \subseteq succeeded
      BY <1>0, CanExecuteMeans
    <3>. QED
      BY <1>0, <2>1, <3>1, <3>2 DEF Goes, Busy
  <2>2. CASE e # m
    BY <1>0, <1>1, <2>2 DEF Goes, TypeOK, Working
  <2>. QED
    BY <2>1, <2>2
<1>. QED
  BY <1>0, <1>1, <1>2, <1>3, ClosingStep DEF IInv

\* A trigger message that arrives takes up its task, or ends.
LEMMA HandleTriggerStep ==
  ASSUME IInv, NEW m \in Msgs, HandleTrigger(m)
  PROVE  IInv'
<1>1. msg' \in [Msgs -> MsgStates]
  BY DEF HandleTrigger, IInv, TypeOK, MsgStates
<1>2. PICK p \in {"idle", "claim", "notice"} :
        /\ pc' = [pc EXCEPT ![m] = p]
        /\ p = "claim" => status[m[1]] = "pending" /\ CanExecute(m[1])
  BY DEF HandleTrigger
<1>3. UNCHANGED <<rowVars, cur, list, batch, worldVars, edits, crashes>>
  BY DEF HandleTrigger
<1>. QED
  BY <1>1, <1>2, <1>3, HandlerMove

\* A notice that was sent ends its executor's work.
LEMMA NoticeSentStep ==
  ASSUME IInv, NEW m \in Msgs, NoticeSent(m)
  PROVE  IInv'
<1>1. /\ pc' = [pc EXCEPT ![m] = "idle"] /\ msg' = msg
      /\ UNCHANGED <<rowVars, cur, list, batch, worldVars, edits, crashes>>
  BY DEF NoticeSent
<1>2. msg' \in [Msgs -> MsgStates]
  BY <1>1 DEF IInv, TypeOK
<1>. QED
  BY <1>1, <1>2, HandlerMove

\* A notice that cannot be sent fails its task.
LEMMA NoticeFailsStep ==
  ASSUME IInv, NEW m \in Msgs, NoticeFails(m)
  PROVE  IInv'
  BY MsgIsNoTick, ReturningStep DEF NoticeFails

\* A tick moves without touching the rows.
LEMMA TickMove ==
  ASSUME IInv, NEW k \in Ticks, NEW p \in {"idle", "loop", "claim"},
         pc[k] \in {"idle", "loop"},
         pc' = [pc EXCEPT ![k] = p], cur' \in [Ticks -> Tasks \cup {0}],
         \A j \in Ticks : j # k => cur'[j] = cur[j],
         p = "claim" => /\ cur'[k] \in Tasks
                        /\ status[cur'[k]] # "none" /\ CanExecute(cur'[k]),
         p # "claim" => cur'[k] = 0,
         list' \in [Ticks -> SUBSET Tasks],
         \A j \in Ticks : \A t \in list'[j] : status[t] # "none",
         UNCHANGED <<rowVars, msg, batch, worldVars, edits, crashes>>
  PROVE  IInv'
<1>0. TypeOK /\ k \in Executors /\ 0 \notin Tasks /\ Ticks \subseteq Executors
  BY DEF IInv, Executors, Tasks
<1>1. UNCHANGED <<status, due, parents, series, msg, batch, runs, succeeded, edits, crashes>>
  BY DEF rowVars, worldVars
<1>2. TypeOK'
  <2>1. pc' \in [Executors -> {"idle", "loop", "notice", "claim", "work", "trigger"}]
    BY <1>0 DEF TypeOK
  <2>2. \A j \in Ticks : cur'[j] # 0 <=> pc'[j] \in {"claim", "work", "trigger"}
    <3>1. pc'[k] = p /\ \A j \in Ticks : j # k => pc'[j] = pc[j]
      BY <1>0 DEF TypeOK
    <3>2. cur'[k] # 0 <=> p = "claim"
      BY <1>0
    <3>. QED
      BY <1>0, <3>1, <3>2 DEF TypeOK
  <2>. QED
    BY <1>0, <1>1, <2>1, <2>2 DEF TypeOK
<1>3. ASSUME NEW e \in Executors
      PROVE  Goes(e)
  <2>1. CASE e = k
    <3>1. pc'[k] = p /\ Working(k)' = cur'[k]
      BY <1>0 DEF TypeOK, Working
    <3>2. p = "claim" => parents[cur'[k]] \subseteq succeeded
      BY <1>0, CanExecuteMeans
    <3>. QED
      BY <1>0, <2>1, <3>1, <3>2 DEF Goes, Busy
  <2>2. CASE e # k
    BY <1>0, <1>1, <2>2 DEF Goes, TypeOK, Working
  <2>. QED
    BY <2>1, <2>2
<1>. QED
  BY <1>0, <1>1, <1>2, <1>3, ClosingStep DEF IInv

\* A tick reads its list of due tasks.
LEMMA TickStartStep ==
  ASSUME IInv, NEW k \in Ticks, TickStart(k)
  PROVE  IInv'
<1>0. TypeOK /\ cur[k] = 0
  BY DEF IInv, TypeOK, TickStart
<1>1. /\ list' = [list EXCEPT ![k] = DueTasks] /\ pc' = [pc EXCEPT ![k] = "loop"]
      /\ pc[k] = "idle"
      /\ UNCHANGED <<rowVars, msg, cur, batch, worldVars, edits, crashes>>
  BY DEF TickStart
<1>2. /\ list' \in [Ticks -> SUBSET Tasks]
      /\ \A j \in Ticks : \A t \in list'[j] : status[t] # "none"
  <2>1. DueTasks \subseteq Tasks /\ \A t \in DueTasks : status[t] # "none"
    BY DEF DueTasks
  <2>. QED
    BY <1>0, <1>1, <2>1 DEF IInv, TypeOK
<1>3. cur' \in [Ticks -> Tasks \cup {0}] /\ cur' = cur
  BY <1>0, <1>1 DEF TypeOK
<1>. QED
  BY <1>0, <1>1, <1>2, <1>3, TickMove

\* A tick that has no task left ends.
LEMMA TickEndStep ==
  ASSUME IInv, NEW k \in Ticks, TickEnd(k)
  PROVE  IInv'
<1>0. TypeOK /\ cur[k] = 0
  BY DEF IInv, TypeOK, TickEnd
<1>1. /\ pc' = [pc EXCEPT ![k] = "idle"] /\ pc[k] = "loop"
      /\ UNCHANGED <<rowVars, msg, cur, list, batch, worldVars, edits, crashes>>
  BY DEF TickEnd
<1>2. /\ list' \in [Ticks -> SUBSET Tasks]
      /\ \A j \in Ticks : \A t \in list'[j] : status[t] # "none"
  BY <1>0, <1>1 DEF IInv, TypeOK
<1>3. cur' \in [Ticks -> Tasks \cup {0}] /\ cur' = cur
  BY <1>0, <1>1 DEF TypeOK
<1>. QED
  BY <1>0, <1>1, <1>2, <1>3, TickMove

\* A tick goes on to the next task of its list.
LEMMA TickNextStep ==
  ASSUME IInv, NEW k \in Ticks, NEW t \in Tasks, TickNext(k, t)
  PROVE  IInv'
<1>0. TypeOK /\ cur[k] = 0 /\ k \in Executors
  BY DEF IInv, TypeOK, TickNext, Executors
<1>1. /\ pc[k] = "loop" /\ t \in list[k] /\ list' = [list EXCEPT ![k] = @ \ {t}]
      /\ UNCHANGED <<rowVars, msg, batch, worldVars, edits, crashes>>
  BY DEF TickNext
<1>2. /\ list' \in [Ticks -> SUBSET Tasks]
      /\ \A j \in Ticks : \A u \in list'[j] : status[u] # "none"
      /\ status[t] # "none"
  BY <1>0, <1>1 DEF IInv, TypeOK
<1>3. CASE pc' = pc /\ cur' = cur
  <2>1. pc' = [pc EXCEPT ![k] = "loop"]
    BY <1>0, <1>1, <1>3 DEF TypeOK
  <2>2. cur' \in [Ticks -> Tasks \cup {0}] /\ cur' = cur
    BY <1>0, <1>3 DEF TypeOK
  <2>. QED
    BY <1>0, <1>1, <1>2, <2>1, <2>2, TickMove
<1>4. CASE /\ CanExecute(t) /\ pc' = [pc EXCEPT ![k] = "claim"]
           /\ cur' = [cur EXCEPT ![k] = t]
  <2>1. /\ cur' \in [Ticks -> Tasks \cup {0}] /\ cur'[k] = t
        /\ \A j \in Ticks : j # k => cur'[j] = cur[j]
    BY <1>0, <1>4 DEF TypeOK
  <2>. QED
    BY <1>0, <1>1, <1>2, <1>4, <2>1, TickMove
<1>. QED
  BY <1>3, <1>4 DEF TickNext
-----------------------------------------------------------------------------
\* The executor stays where it is, or leaves.
Rests(e) ==
  \/ pc'[e] = pc[e] /\ Working(e)' = Working(e)
  \/ pc'[e] \notin Busy \cup {"claim"}

\* A row is created, in a series s that nobody carries on otherwise.
LEMMA OpeningStep ==
  ASSUME IInv, TypeOK', NEW u \in Tasks, NEW s \in Tasks \cup {0},
         status[u] = "none", status' = [status EXCEPT ![u] = "pending"],
         series' = [series EXCEPT ![u] = s],
         s # 0 => status'[s] # "none",
         s # 0 => \A x \in Tasks : x # u /\ series[x] = s => ~Carrier(x)',
         \A x \in Tasks : x # u => parents'[x] = parents[x],
         runs' = runs, succeeded' = succeeded, list' = list,
         \A e \in Executors : Rests(e)
  PROVE  IInv'
<1>0. TypeOK
  BY DEF IInv
<1>1. /\ status'[u] = "pending" /\ series'[u] = s
      /\ \A x \in Tasks : x # u => status'[x] = status[x] /\ series'[x] = series[x]
      /\ \A x \in Tasks : status[x] # "none" => x # u /\ status'[x] = status[x]
  BY <1>0 DEF TypeOK
<1>2. ASSUME NEW x \in Tasks
      PROVE  RowOk(x)'
  <2>1. RowOk(x) /\ RowOk(u) /\ series[x] \in Tasks \cup {0}
    BY <1>0 DEF IInv, TypeOK
  <2>2. CASE x = u
    BY <1>1, <2>1, <2>2 DEF RowOk
  <2>3. CASE x # u
    BY <1>1, <2>1, <2>3 DEF RowOk
  <2>. QED
    BY <2>2, <2>3
<1>3. ASSUME NEW e \in Executors
      PROVE  ExecOk(e)'
  <2>1. ExecOk(e) /\ Rests(e)
    BY DEF IInv
  <2>2. pc[e] \in Busy \cup {"claim"} => Working(e) \in Tasks
    BY <1>0, WorkingIsTask
  <2>. QED
    BY <1>1, <2>1, <2>2 DEF ExecOk, Rests, Busy
<1>4. \A k \in Ticks : \A t \in list'[k] : status'[t] # "none"
  BY <1>0, <1>1 DEF IInv, TypeOK
<1>5. ASSUME NEW e \in Executors, pc'[e] \in Busy
      PROVE  pc[e] \in Busy /\ Working(e)' = Working(e)
  BY <1>5 DEF Rests, Busy
<1>6. OneWorker'
  BY <1>5 DEF IInv, OneWorker
<1>7. ASSUME NEW x \in Tasks, x # u, Carrier(x)'
      PROVE  Carrier(x)
  BY <1>1, <1>5, <1>7 DEF Carrier, Open
<1>8. OneCarrier'
  <2>1. SUFFICES ASSUME NEW x \in Tasks, NEW y \in Tasks,
                        series'[x] # 0, series'[x] = series'[y], Carrier(x)', Carrier(y)'
                 PROVE  x = y
    BY DEF OneCarrier
  <2>2. CASE x = u \/ y = u
    BY <1>1, <2>1, <2>2
  <2>3. CASE x # u /\ y # u
    BY <1>1, <1>7, <2>1, <2>3 DEF IInv, OneCarrier
  <2>. QED
    BY <2>2, <2>3
<1>. QED
  BY <1>2, <1>3, <1>4, <1>6, <1>8 DEF IInv

\* A new row is pending, and no executor works on it.
LEMMA CreateStep ==
  ASSUME IInv, NEW t \in Tasks, NEW P \in SUBSET Tasks, NEW s \in {"never", "later"},
         Create(t, P, s) \/ CreateRefused(t, P, s)
  PROVE  IInv'
<1>0. TypeOK /\ CreateRow(t, P, s)
  BY DEF IInv, Create, CreateRefused
<1> DEFINE r == IF t \in Recurring THEN t ELSE 0
<1>1. /\ status[t] = "none" /\ status' = [status EXCEPT ![t] = "pending"]
      /\ due' = [due EXCEPT ![t] = s] /\ parents' = [parents EXCEPT ![t] = P]
      /\ series' = [series EXCEPT ![t] = r]
      /\ UNCHANGED <<pc, cur, list, batch, runs, succeeded, edits, crashes>>
  BY <1>0 DEF CreateRow, IsNext, execVars, worldVars
<1>2. msg' \in [Msgs -> MsgStates]
  <2>1. "scheduled" \in MsgStates
    BY DEF MsgStates
  <2>. QED
    BY <1>0, <2>1, WithMsgTyped DEF Create, CreateRefused, TypeOK
<1>3. TypeOK'
  <2>1. status' \in [Tasks -> Rows \cup {"none", "deleted"}]
    BY <1>0, <1>1 DEF TypeOK, Rows
  <2>2. due' \in [Tasks -> {"never", "later", "now"}]
    BY <1>0, <1>1 DEF TypeOK
  <2>3. parents' \in [Tasks -> SUBSET Tasks] /\ series' \in [Tasks -> Tasks \cup {0}]
    BY <1>0, <1>1 DEF TypeOK
  <2>. QED
    BY <1>0, <1>1, <1>2, <2>1, <2>2, <2>3 DEF TypeOK
<1>4. r # 0 => status'[r] # "none" /\ \A x \in Tasks : series[x] # r
  BY <1>0, <1>1 DEF IInv, RowOk, TypeOK
<1>5. \A e \in Executors : Rests(e)
  BY <1>1 DEF Rests, Working
<1>6. r \in Tasks \cup {0} /\ \A x \in Tasks : x # t => parents'[x] = parents[x]
  BY <1>0, <1>1 DEF TypeOK
<1> HIDE DEF r
<1>. QED
  BY <1>1, <1>3, <1>4, <1>5, <1>6, OpeningStep

\* The next occurrence of a recurring task is a new row.
LEMMA RecurStep ==
  ASSUME IInv, NEW e \in Executors, NEW u \in Tasks, Recur(e, u)
  PROVE  IInv'
<1>0. TypeOK /\ pc[e] = "trigger"
  BY DEF IInv, Recur
<1>1. PICK w \in Tasks : w = Working(e)
  BY <1>0, WorkingIsTask DEF Busy
<1>2. PICK s \in Tasks : s = series[w] /\ s # 0
  BY <1>0, <1>1 DEF Recur, TypeOK
<1>3. /\ status[u] = "none" /\ status' = [status EXCEPT ![u] = "pending"]
      /\ due' = [due EXCEPT ![u] = "later"] /\ series' = [series EXCEPT ![u] = s]
      /\ Return(e)
      /\ UNCHANGED <<parents, runs, succeeded, edits, crashes>>
  BY <1>1, <1>2 DEF Recur, IsNext, worldVars
<1>4. msg' \in [Msgs -> MsgStates]
  <2>1. "scheduled" \in MsgStates
    BY DEF MsgStates
  <2>. QED
    BY <1>0, <2>1, WithMsgTyped DEF Recur, TypeOK
<1>5. TypeOK'
  <2>1. status' \in [Tasks -> Rows \cup {"none", "deleted"}]
    BY <1>0, <1>3 DEF TypeOK, Rows
  <2>2. due' \in [Tasks -> {"never", "later", "now"}]
    BY <1>0, <1>3 DEF TypeOK
  <2>3. series' \in [Tasks -> Tasks \cup {0}]
    BY <1>0, <1>3 DEF TypeOK
  <2>4. /\ pc' \in [Executors -> {"idle", "loop", "notice", "claim", "work", "trigger"}]
        /\ cur' \in [Ticks -> Tasks \cup {0}]
        /\ \A k \in Ticks : cur'[k] # 0 <=> pc'[k] \in {"claim", "work", "trigger"}
        /\ list' = list /\ batch' \in [Executors -> SUBSET Tasks]
    BY <1>0, <1>3, ReturnExec
  <2>. QED
    BY <1>0, <1>3, <1>4, <2>1, <2>2, <2>3, <2>4 DEF TypeOK
<1>6. /\ \A f \in Executors : Rests(f)
      /\ \A f \in Executors : pc'[f] \in Busy => /\ f # e /\ pc[f] \in Busy
                                                 /\ Working(f)' = Working(f)
      /\ list' = list
  BY <1>0, <1>3, ReturnExec DEF Rests
<1>7. /\ status[s] # "none" /\ status[w] \notin {"none", "pending", "in_progress"}
      /\ Carrier(w)
  BY <1>0, <1>1, <1>2 DEF IInv, RowOk, ExecOk, Carrier, Busy
<1>8. ASSUME NEW x \in Tasks, x # u, series[x] = s, Carrier(x)'
      PROVE  FALSE
  <2>1. status'[x] = status[x]
    BY <1>0, <1>3, <1>8 DEF TypeOK
  <2>2. Carrier(x)
    BY <1>6, <1>8, <2>1 DEF Carrier
  <2>3. x = w
    BY <1>2, <1>7, <1>8, <2>2 DEF IInv, OneCarrier
  <2>4. PICK f \in Executors : pc'[f] \in Busy /\ Working(f)' = x
    BY <1>7, <1>8, <2>1, <2>3 DEF Carrier, Open
  <2>5. f = e
    BY <1>0, <1>1, <1>6, <2>3, <2>4 DEF IInv, OneWorker, Busy
  <2>. QED
    BY <1>6, <2>4, <2>5
<1>9. status'[s] # "none"
  BY <1>0, <1>3, <1>7 DEF TypeOK
<1>. QED
  BY <1>2, <1>3, <1>5, <1>6, <1>8, <1>9, OpeningStep

\* Of several executors only one claims a pending task.
LEMMA ClaimStep ==
  ASSUME IInv, NEW e \in Executors, Claim(e)
  PROVE  IInv'
<1>0. TypeOK /\ pc[e] = "claim"
  BY DEF IInv, Claim
<1>1. PICK w \in Tasks : w = Working(e)
  BY <1>0, WorkingIsTask
<1>2. /\ status[w] = "pending" /\ status' = [status EXCEPT ![w] = "in_progress"]
      /\ runs' = [runs EXCEPT ![w] = @ + 1] /\ pc' = [pc EXCEPT ![e] = "work"]
      /\ UNCHANGED <<due, parents, series, msg, cur, list, batch, succeeded, edits, crashes>>
  BY <1>1 DEF Claim
<1>3. /\ pc'[e] = "work" /\ \A f \in Executors : f # e => pc'[f] = pc[f]
      /\ \A f \in Executors : Working(f)' = Working(f)
      /\ status'[w] = "in_progress" /\ \A x \in Tasks : x # w => status'[x] = status[x]
      /\ \A x \in Tasks : x # w => runs'[x] = runs[x]
  BY <1>0, <1>2 DEF TypeOK, Working
<1>4. runs[w] = 0 /\ runs'[w] = 1
  <2>1. runs[w] = 0
    BY <1>2 DEF IInv, RowOk
  <2>. QED
    BY <1>0, <1>2, <2>1 DEF TypeOK
<1>5. TypeOK'
  <2>1. status' \in [Tasks -> Rows \cup {"none", "deleted"}]
    BY <1>0, <1>2 DEF TypeOK, Rows
  <2>2. runs' \in [Tasks -> Nat]
    <3>1. runs \in [Tasks -> Nat] /\ runs[w] + 1 \in Nat
      BY <1>0 DEF TypeOK
    <3>. QED
      BY <1>2, <3>1
  <2>3. pc' \in [Executors -> {"idle", "loop", "notice", "claim", "work", "trigger"}]
    BY <1>0, <1>2 DEF TypeOK
  <2>4. \A k \in Ticks : cur'[k] # 0 <=> pc'[k] \in {"claim", "work", "trigger"}
    BY <1>0, <1>2, <1>3 DEF TypeOK, Executors
  <2>. QED
    BY <1>0, <1>2, <2>1, <2>2, <2>3, <2>4 DEF TypeOK
<1>6. ASSUME NEW x \in Tasks
      PROVE  RowOk(x)'
  <2>1. RowOk(x) /\ series[x] \in Tasks \cup {0}
    BY <1>0 DEF IInv, TypeOK
  <2>2. \A y \in Tasks : status[y] # "none" => status'[y] # "none"
    BY <1>3
  <2>3. CASE x = w
    BY <1>2, <1>3, <1>4, <2>1, <2>2, <2>3 DEF RowOk
  <2>4. CASE x # w
    BY <1>2, <1>3, <2>1, <2>2, <2>4 DEF RowOk
  <2>. QED
    BY <2>3, <2>4
<1>7. ASSUME NEW f \in Executors, pc[f] \in Busy
      PROVE  Working(f) # w
  BY <1>2, <1>7 DEF IInv, ExecOk
<1>8. ASSUME NEW f \in Executors
      PROVE  ExecOk(f)'
  <2>1. ExecOk(f)
    BY DEF IInv
  <2>2. CASE f = e
    BY <1>1, <1>3, <2>2 DEF ExecOk
  <2>3. CASE f # e
    <3>1. pc[f] \in Busy \cup {"claim"} => Working(f) \in Tasks
      BY <1>0, WorkingIsTask
    <3>. QED
      BY <1>2, <1>3, <1>7, <2>1, <2>3, <3>1 DEF ExecOk, Busy
  <2>. QED
    BY <2>2, <2>3
<1>9. \A k \in Ticks : \A t \in list'[k] : status'[t] # "none"
  BY <1>0, <1>2, <1>3 DEF IInv, TypeOK
<1>10. OneWorker'
  BY <1>1, <1>3, <1>7 DEF IInv, OneWorker
<1>11. ASSUME NEW x \in Tasks, Carrier(x)'
       PROVE  Carrier(x)
  BY <1>1, <1>2, <1>3, <1>11 DEF Carrier, Open
<1>12. OneCarrier'
  BY <1>2, <1>11 DEF IInv, OneCarrier
<1>. QED
  BY <1>5, <1>6, <1>8, <1>9, <1>10, <1>12 DEF IInv

\* The executor that claimed a task records its outcome.
LEMMA CompleteStep ==
  ASSUME IInv, NEW e \in Executors, Complete(e)
  PROVE  IInv'
<1>0. TypeOK /\ pc[e] = "work"
  BY DEF IInv, Complete
<1>1. PICK w \in Tasks : w = Working(e)
  BY <1>0, WorkingIsTask DEF Busy
<1>2. /\ status' = [status EXCEPT ![w] = IF Exists(w) THEN "done" ELSE @]
      /\ succeeded' = succeeded \cup {w} /\ batch' = [batch EXCEPT ![e] = Ready(w)]
      /\ pc' = [pc EXCEPT ![e] = "trigger"]
      /\ UNCHANGED <<due, parents, series, msg, cur, list, runs, edits, crashes>>
  BY <1>1 DEF Complete
<1>3. /\ pc'[e] = "trigger" /\ \A f \in Executors : f # e => pc'[f] = pc[f]
      /\ \A f \in Executors : Working(f)' = Working(f)
      /\ \A x \in Tasks : x # w => status'[x] = status[x]
  BY <1>0, <1>2 DEF TypeOK, Working
<1>4. status[w] \notin {"none", "pending"} /\ status'[w] \in {"done", "deleted"}
  <2>1. status[w] \notin {"none", "pending"}
    BY <1>0, <1>1 DEF IInv, ExecOk, Busy
  <2>. QED
    BY <1>0, <1>2, <2>1 DEF TypeOK, Exists
<1>5. TypeOK'
  <2>1. status' \in [Tasks -> Rows \cup {"none", "deleted"}]
    BY <1>0, <1>2, <1>4 DEF TypeOK, Rows, Terminal
  <2>2. pc' \in [Executors -> {"idle", "loop", "notice", "claim", "work", "trigger"}]
    BY <1>0, <1>2 DEF TypeOK
  <2>3. \A k \in Ticks : cur'[k] # 0 <=> pc'[k] \in {"claim", "work", "trigger"}
    BY <1>0, <1>2, <1>3 DEF TypeOK, Executors
  <2>4. batch' \in [Executors -> SUBSET Tasks]
    <3>1. Ready(w) \subseteq Tasks
      BY DEF Ready
    <3>. QED
      BY <1>0, <1>2, <3>1 DEF TypeOK
  <2>. QED
    BY <1>0, <1>2, <2>1, <2>2, <2>3, <2>4 DEF TypeOK
<1>6. \A x \in Tasks : status[x] # "none" => status'[x] # "none"
  BY <1>3, <1>4
<1>7. ASSUME NEW x \in Tasks
      PROVE  RowOk(x)'
  <2>1. RowOk(x) /\ series[x] \in Tasks \cup {0}
    BY <1>0 DEF IInv, TypeOK
  <2>2. CASE x = w
    BY <1>2, <1>4, <1>6, <2>1, <2>2 DEF RowOk
  <2>3. CASE x # w
    BY <1>2, <1>3, <1>6, <2>1, <2>3 DEF RowOk
  <2>. QED
    BY <2>2, <2>3
<1>8. ASSUME NEW f \in Executors
      PROVE  ExecOk(f)'
  <2>1. ExecOk(f)
    BY DEF IInv
  <2>2. CASE f = e
    BY <1>1, <1>3, <1>4, <2>2 DEF ExecOk
  <2>3. CASE f # e
    <3>1. pc[f] \in Busy \cup {"claim"} => Working(f) \in Tasks
      BY <1>0, WorkingIsTask
    <3>. QED
      BY <1>2, <1>3, <1>4, <2>1, <2>3, <3>1 DEF ExecOk, Busy
  <2>. QED
    BY <2>2, <2>3
<1>9. \A k \in Ticks : \A t \in list'[k] : status'[t] # "none"
  BY <1>0, <1>2, <1>6 DEF IInv, TypeOK
<1>10. \A f \in Executors : pc'[f] \in Busy => pc[f] \in Busy
  BY <1>0, <1>3 DEF Busy
<1>11. OneWorker'
  BY <1>3, <1>10 DEF IInv, OneWorker
<1>12. ASSUME NEW x \in Tasks, Carrier(x)'
       PROVE  Carrier(x)
  BY <1>3, <1>4, <1>10, <1>12 DEF Carrier, Open
<1>13. OneCarrier'
  BY <1>2, <1>12 DEF IInv, OneCarrier
<1>. QED
  BY <1>5, <1>7, <1>8, <1>9, <1>11, <1>13 DEF IInv

\* A task that ended triggers the tasks that wait for it.
LEMMA TriggerStep ==
  ASSUME IInv, NEW e \in Executors, NEW u \in Tasks, Trigger(e, u)
  PROVE  IInv'
<1>0. TypeOK
  BY DEF IInv
<1>1. /\ status' \in [Tasks -> Rows \cup {"none", "deleted"}]
      /\ \A x \in Tasks : status'[x] \in {status[x], "failed", "cancelled", "deleted"}
  BY <1>0 DEF Trigger, TypeOK, Rows, Terminal
<1>2. msg' \in [Msgs -> MsgStates]
  <2>1. "sent" \in MsgStates
    BY DEF MsgStates
  <2>. QED
    BY <1>0, <2>1, WithMsgTyped DEF Trigger, TypeOK
<1>3. batch' \in [Executors -> SUBSET Tasks]
  BY <1>0 DEF Trigger, TypeOK
<1>4. UNCHANGED <<due, parents, series, pc, cur, list, runs, succeeded, edits, crashes>>
  BY DEF Trigger, worldVars
<1>5. TypeOK'
  BY <1>0, <1>1, <1>2, <1>3, <1>4 DEF TypeOK
<1>6. \A f \in Executors : Goes(f)
  BY <1>4 DEF Goes, Working
<1>. QED
  BY <1>1, <1>4, <1>5, <1>6, ClosingStep DEF IInv

\* A crash loses the executors; the rows still satisfy the invariant.
LEMMA CrashStep ==
  ASSUME IInv, Crash
  PROVE  IInv'
<1>0. TypeOK
  BY DEF IInv
<1>1. /\ crashes < MaxCrashes /\ crashes' = crashes + 1
      /\ pc' = [e \in Executors |-> "idle"] /\ cur' = [k \in Ticks |-> 0]
      /\ list' = [k \in Ticks |-> {}] /\ batch' = [e \in Executors |-> {}]
      /\ UNCHANGED <<status, due, parents, series, runs, succeeded, edits>>
  BY DEF Crash, rowVars, worldVars
<1>2. msg' \in [Msgs -> MsgStates]
  BY <1>0 DEF Crash, TypeOK, MsgStates
<1>3. TypeOK'
  <2>1. crashes' \in 0..MaxCrashes
    BY <1>0, <1>1, ScheduledAssumption DEF TypeOK
  <2>2. \A k \in Ticks : cur'[k] # 0 <=> pc'[k] \in {"claim", "work", "trigger"}
    BY <1>1 DEF Executors
  <2>. QED
    BY <1>0, <1>1, <1>2, <2>1, <2>2 DEF TypeOK
<1>4. \A e \in Executors : Goes(e)
  BY <1>1 DEF Goes, Busy
<1>. QED
  BY <1>1, <1>3, <1>4, ClosingStep
-----------------------------------------------------------------------------
\* The invariant holds at the start.
LEMMA InitIInv ==
  ASSUME Init
  PROVE  IInv
<1>1. TypeOK
  BY ScheduledAssumption DEF Init, TypeOK, MsgStates, Executors
<1>2. \A t \in Tasks : RowOk(t) /\ status[t] = "none"
  BY DEF Init, RowOk
<1>3. \A e \in Executors : ExecOk(e) /\ pc[e] \notin Busy
  BY DEF Init, ExecOk, Busy
<1>4. \A k \in Ticks : list[k] = {}
  BY DEF Init
<1>5. OneWorker /\ OneCarrier
  BY <1>2, <1>3 DEF OneWorker, OneCarrier, Carrier, Open
<1>. QED
  BY <1>1, <1>2, <1>3, <1>4, <1>5 DEF IInv

\* A step that changes nothing keeps the invariant.
LEMMA StutterIInv ==
  ASSUME IInv, UNCHANGED vars
  PROVE  IInv'
<1>1. UNCHANGED <<status, due, parents, series, msg, pc, cur, list, batch, runs, succeeded,
                  edits, crashes>>
  BY DEF vars, rowVars, execVars, worldVars
<1>2. TypeOK'
  BY <1>1 DEF IInv, TypeOK
<1>3. \A e \in Executors : Goes(e)
  BY <1>1 DEF Goes, Working
<1>. QED
  BY <1>1, <1>2, <1>3, ClosingStep DEF IInv

\* Every step of an executor keeps the invariant.
LEMMA ExecutorIInv ==
  ASSUME IInv, NEW e \in Executors, ExecutorStep(e)
  PROVE  IInv'
<1>0. TypeOK
  BY DEF IInv
<1>1. CASE e \in Ticks /\ TickStep(e)
  BY <1>1, TickStartStep, TickEndStep, TickNextStep DEF TickStep
<1>2. CASE e \in Msgs /\ HandlerStep(e)
  BY <1>2, HandleTriggerStep, NoticeSentStep, NoticeFailsStep DEF HandlerStep
<1>3. CASE ClaimLost(e) \/ Finish(e)
  <2>1. Return(e) /\ UNCHANGED <<msg, rowVars, worldVars, edits, crashes>>
    BY <1>3 DEF ClaimLost, Finish
  <2>2. UNCHANGED status /\ UNCHANGED <<msg, due, parents, series, worldVars, edits, crashes>>
    BY <2>1 DEF rowVars
  <2>. QED
    BY <2>1, <2>2, ReturningStep
<1>4. CASE WorkFails(e)
  <2>1. Working(e) \in Tasks
    BY <1>0, <1>4, WorkingIsTask DEF WorkFails, Busy
  <2>. QED
    BY <1>4, <2>1, ReturningStep DEF WorkFails
<1>. QED
  BY <1>1, <1>2, <1>3, <1>4, ClaimStep, CompleteStep, TriggerStep, RecurStep
     DEF ExecutorStep, WorkStep

\* Every step keeps the invariant.
LEMMA NextIInv ==
  ASSUME IInv, [Next]_vars
  PROVE  IInv'
<1>1. ASSUME NEW t \in Tasks, User(t)
      PROVE  IInv'
  BY <1>1, CreateStep, MoveStep, CancelStep, DeleteStep DEF User
<1>. QED
  BY <1>1, TimePassesStep, ExecutorIInv, CrashStep, StutterIInv DEF Next

\* IInv holds whatever the tasks, their dependencies, the ticks and the crashes.
THEOREM Inductive == Spec => []IInv
<1>1. Init => IInv
  BY InitIInv
<1>2. IInv /\ [Next]_vars => IInv'
  BY NextIInv
<1>. QED
  BY <1>1, <1>2, PTL DEF Spec

(***************************************************************************)
(* The agent is set to work on a task at most once, and a series never has *)
(* two open tasks, however many ticks overlap and however often a trigger  *)
(* message is delivered (claimTask).                                       *)
(***************************************************************************)
THEOREM StartedAtMostOnce == Spec => []AtMostOnce
<1>1. IInv => AtMostOnce
  <2>1. SUFFICES ASSUME IInv
                 PROVE  AtMostOnce
    OBVIOUS
  <2>2. TypeOK /\ RunsOnce
    BY <2>1 DEF IInv, RowOk, RunsOnce
  <2>3. OneOccurrence
    BY <2>1 DEF IInv, OneCarrier, Carrier, Open, OneOccurrence
  <2>. QED
    BY <2>2, <2>3 DEF AtMostOnce
<1>. QED
  BY <1>1, Inductive, PTL

\* Only a claim sets the agent to work.
LEMMA OnlyClaimRuns ==
  ASSUME [Next]_vars
  PROVE  runs' = runs \/ \E e \in Executors : Claim(e)
<1>1. ASSUME NEW t \in Tasks, User(t) \/ TimePasses(t)
      PROVE  runs' = runs
  BY <1>1 DEF User, Create, CreateRefused, CreateRow, Move, Cancel, Delete, TimePasses, worldVars
<1>2. ASSUME NEW e \in Executors, ExecutorStep(e), ~Claim(e)
      PROVE  runs' = runs
  <2>1. TickStep(e) \/ HandlerStep(e) => runs' = runs
    BY DEF TickStep, TickStart, TickEnd, TickNext, HandlerStep, HandleTrigger, NoticeSent,
           NoticeFails, worldVars
  <2>2. WorkStep(e) /\ ~Claim(e) => runs' = runs
    BY DEF WorkStep, ClaimLost, Complete, WorkFails, Finish, Trigger, Recur, worldVars
  <2>. QED
    BY <1>2, <2>1, <2>2 DEF ExecutorStep
<1>3. Crash \/ UNCHANGED vars => runs' = runs
  BY DEF Crash, vars, worldVars
<1>. QED
  BY <1>1, <1>2, <1>3 DEF Next

(***************************************************************************)
(* Work on a task begins only when the work of all its parents has ended   *)
(* well, for any dependency graph: what canExecute found stays true until  *)
(* the claim.                                                              *)
(***************************************************************************)
THEOREM ParentsComeFirst == Spec => ParentsFirst
<1>1. ASSUME IInv, [Next]_vars, NEW t \in Tasks, runs'[t] > runs[t]
      PROVE  parents[t] \subseteq succeeded
  <2>1. runs \in [Tasks -> Nat]
    BY <1>1 DEF IInv, TypeOK
  <2>2. PICK e \in Executors : Claim(e)
    <3>1. runs' # runs
      BY <1>1, <2>1
    <3>. QED
      BY <1>1, <3>1, OnlyClaimRuns
  <2>3. t = Working(e)
    BY <1>1, <2>1, <2>2 DEF Claim
  <2>. QED
    BY <1>1, <2>2, <2>3 DEF IInv, ExecOk, Claim
<1>2. IInv /\ [Next]_vars =>
        [\A t \in Tasks : runs'[t] > runs[t] => parents[t] \subseteq succeeded]_vars
  BY <1>1
<1>. QED
  BY <1>2, Inductive, PTL DEF Spec, ParentsFirst
=============================================================================
