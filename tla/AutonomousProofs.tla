-------------------------- MODULE AutonomousProofs --------------------------
(***************************************************************************)
(* What Autonomous guarantees for any number of tasks, of loops left       *)
(* behind, of pauses, stops and crashes, and for every limit.              *)
(***************************************************************************)
EXTENDS Autonomous, FiniteSetTheorems, SequenceTheorems, WellFoundedInduction, TLAPS

\* No loop object is left for the task.
Idle(t) == \A k \in Gens : loop[t][k].pc = "free"

(***************************************************************************)
(* Where loops can be, whatever the command line writes: a registered loop *)
(* exists, a task without a row has none, and a dead process has none.     *)
(***************************************************************************)
RegOk(t) ==
  /\ running[t] # 0 => loop[t][running[t]].pc # "free"
  /\ status[t] = "none" \/ agent = "down" => Idle(t)

(***************************************************************************)
(* While nobody uses the command line.  A loop that works is registered,   *)
(* and no one may start another: its task says running, or was ended       *)
(* behind its back.                                                        *)
(***************************************************************************)
LiveOk(t) ==
  \A k \in Gens :
    Live(t, k) => running[t] = k /\ status[t] \in {"running", "failed", "deleted"}

\* The step a loop has read before it plans is still the current one.
StepOk(t) ==
  /\ step[t] <= MaxIterations
  /\ \A k \in Gens : Live(t, k) =>
       /\ loop[t][k].pc = "plan" => loop[t][k].at = step[t]
       /\ loop[t][k].pc \in {"tool", "reflect"} => step[t] < MaxIterations

\* Tool calls are counted by the loop that works, and on disk while there may be a next one.
RateOk(t) ==
  /\ calls[t] <= ToolLimit
  /\ \A k \in Gens : Live(t, k) => calls[t] <= loop[t][k].window
  /\ status[t] \notin Ended \cup {"deleted"} => calls[t] <= snapshot[t]

TaskOk(t) == LiveOk(t) /\ StepOk(t) /\ RateOk(t)

\* A task waits in the queue once, with no loop of its own.
QueueInv ==
  /\ \A i \in 1..Len(queue) : status[queue[i]] \in {"queued", "deleted"} /\ Idle(queue[i])
  /\ \A i, j \in 1..Len(queue) : queue[i] = queue[j] => i = j

InQueue(t) == \E i \in 1..Len(queue) : queue[i] = t

\* ActiveIsOwned, for one task.
Owned(t) ==
  /\ status[t] = "running" => \E k \in Gens : Live(t, k)
  /\ status[t] = "queued" => InQueue(t)

IInv ==
  /\ TypeOK
  /\ agent = "stopped" => stops > 0
  /\ \A t \in Tasks : RegOk(t)
  /\ QueueIsDriven
  /\ clis = 0 => QueueInv /\ \A t \in Tasks : TaskOk(t)
  /\ clis = 0 /\ stops = 0 /\ agent = "up" => \A t \in Tasks : Owned(t)
-----------------------------------------------------------------------------
\* A non-empty set of natural numbers has a least member.
LEMMA NatMin ==
  ASSUME NEW T, T \subseteq Nat, T # {}
  PROVE  \E m \in T : \A n \in T : m <= n
<1> DEFINE R == OpToRel(<, Nat)
<1>1. IsWellFoundedOn(R, Nat)
  BY NatLessThanWellFounded
<1>2. \A x, y \in Nat : x < y => <<x, y>> \in R
  BY DEF OpToRel
<1> HIDE DEF R
<1>3. \E x \in T : \A y \in T : ~(<<y, x>> \in R)
  BY <1>1, WFMin
<1>4. PICK m \in T : \A y \in T : ~(<<y, m>> \in R)
  BY <1>3
<1>5. ASSUME NEW n \in T
      PROVE  m <= n
  <2>1. n \in Nat /\ m \in Nat
    OBVIOUS
  <2>2. ~(n < m)
    BY <1>2, <1>4, <2>1
  <2>. QED
    BY <2>1, <2>2
<1>. QED
  BY <1>5

\* runLoop finds a place for its loop that no other loop has.
LEMMA NewGenIsFree ==
  ASSUME NEW t \in Tasks, FreeGens(t) # {}
  PROVE  NewGen(t) \in Gens /\ loop[t][NewGen(t)].pc = "free"
<1>0. FreeGens(t) \subseteq Nat
  BY AutonomousAssumption DEF FreeGens, Gens
<1>1. \E k \in FreeGens(t) : \A m \in FreeGens(t) : k <= m
  BY <1>0, NatMin
<1>2. NewGen(t) \in FreeGens(t)
  BY <1>1 DEF NewGen
<1>. QED
  BY <1>2 DEF FreeGens

\* What findIndex and splice leave of a queue.
LEMMA SplicedQueue ==
  ASSUME NEW S, NEW q \in Seq(S), NEW t
  PROVE  /\ Spliced(q, t) \in Seq(S)
         /\ \A i \in 1..Len(Spliced(q, t)) : \E j \in 1..Len(q) : Spliced(q, t)[i] = q[j]
         /\ \A i \in 1..Len(q) : q[i] # t => \E j \in 1..Len(Spliced(q, t)) : Spliced(q, t)[j] = q[i]
         /\ (\A i, j \in 1..Len(q) : q[i] = q[j] => i = j) =>
              /\ \A i \in 1..Len(Spliced(q, t)) : Spliced(q, t)[i] # t
              /\ \A i, j \in 1..Len(Spliced(q, t)) : Spliced(q, t)[i] = Spliced(q, t)[j] => i = j
<1> DEFINE at == {i \in 1..Len(q) : q[i] = t}
           qi == CHOOSE i \in at : \A j \in at : i <= j
           r == Spliced(q, t)
<1>1. CASE at = {}
  <2>1. r = q
    BY <1>1 DEF Spliced
  <2>. QED
    BY <1>1, <2>1
<1>2. CASE at # {}
  <2>1. qi \in at
    <3>0. at \subseteq Nat
      OBVIOUS
    <3> HIDE DEF at
    <3>1. \E i \in at : \A j \in at : i <= j
      BY <1>2, <3>0, NatMin
    <3>. QED
      BY <3>1
  <2>2. r = SubSeq(q, 1, qi - 1) \o SubSeq(q, qi + 1, Len(q))
    BY <1>2 DEF Spliced
  <2> HIDE DEF qi, r
  <2>3. qi \in 1..Len(q) /\ q[qi] = t
    BY <2>1
  <2>4. /\ r \in Seq(S) /\ Len(r) = Len(q) - 1
        /\ \A i \in 1..Len(r) : r[i] = IF i < qi THEN q[i] ELSE q[i + 1]
    <3> DEFINE a == SubSeq(q, 1, qi - 1)
               b == SubSeq(q, qi + 1, Len(q))
    <3>1. a \in Seq(S) /\ Len(a) = qi - 1 /\ \A i \in 1..qi - 1 : a[i] = q[i]
      BY <2>3
    <3>2. /\ b \in Seq(S) /\ Len(b) = Len(q) - qi
          /\ \A i \in 1..Len(q) - qi : b[i] = q[qi + i]
      BY <2>3
    <3>3. r = a \o b
      BY <2>2
    <3> HIDE DEF a, b
    <3>4. r \in Seq(S) /\ Len(r) = Len(q) - 1
      BY <2>3, <3>1, <3>2, <3>3
    <3>5. ASSUME NEW i \in 1..Len(r)
          PROVE  r[i] = IF i < qi THEN q[i] ELSE q[i + 1]
      <4>1. r[i] = IF i <= Len(a) THEN a[i] ELSE b[i - Len(a)]
        <5>1. i \in 1..Len(a) + Len(b)
          BY <2>3, <3>1, <3>2, <3>4
        <5>2. \A n \in 1..Len(a) + Len(b) :
                 (a \o b)[n] = IF n <= Len(a) THEN a[n] ELSE b[n - Len(a)]
          BY <3>1, <3>2, ConcatProperties, Zenon
        <5>. QED
          BY <3>3, <5>1, <5>2
      <4>2. CASE i < qi
        BY <2>3, <3>1, <4>1, <4>2
      <4>3. CASE i >= qi
        <5>1. i - Len(a) \in 1..Len(q) - qi /\ ~(i <= Len(a))
          BY <2>3, <3>1, <3>4, <4>3
        <5>2. b[i - Len(a)] = q[qi + (i - Len(a))] /\ qi + (i - Len(a)) = i + 1
          BY <2>3, <3>1, <3>2, <5>1
        <5>. QED
          BY <2>3, <4>1, <4>3, <5>1, <5>2
      <4>. QED
        BY <2>3, <4>2, <4>3
    <3>. QED
      BY <3>4, <3>5
  <2>5. \A i \in 1..Len(r) : \E j \in 1..Len(q) : r[i] = q[j]
    BY <2>3, <2>4
  <2>6. ASSUME NEW i \in 1..Len(q), q[i] # t
        PROVE  \E j \in 1..Len(r) : r[j] = q[i]
    <3>1. CASE i < qi
      <4>1. i \in 1..Len(r) /\ r[i] = q[i]
        BY <2>3, <2>4, <3>1
      <4>. QED
        BY <4>1
    <3>2. CASE i > qi
      <4>1. i - 1 \in 1..Len(r) /\ r[i - 1] = q[i]
        BY <2>3, <2>4, <3>2
      <4>. QED
        BY <4>1
    <3>. QED
      BY <2>3, <2>6, <3>1, <3>2
  <2>7. ASSUME \A i, j \in 1..Len(q) : q[i] = q[j] => i = j
        PROVE  /\ \A i \in 1..Len(r) : r[i] # t
               /\ \A i, j \in 1..Len(r) : r[i] = r[j] => i = j
    <3> DEFINE f(i) == IF i < qi THEN i ELSE i + 1
    <3>1. \A i \in 1..Len(r) : f(i) \in 1..Len(q) /\ f(i) # qi /\ r[i] = q[f(i)]
      BY <2>3, <2>4
    <3>2. \A i, j \in 1..Len(r) : f(i) = f(j) => i = j
      BY <2>3, <2>4
    <3> HIDE DEF f
    <3>. QED
      BY <2>3, <2>7, <3>1, <3>2
  <2>. QED
    BY <2>4, <2>5, <2>6, <2>7 DEF r
<1>. QED
  BY <1>1, <1>2
-----------------------------------------------------------------------------
\* A step that does not concern the task.
Same(t) ==
  /\ status'[t] = status[t] /\ step'[t] = step[t] /\ snapshot'[t] = snapshot[t]
  /\ running'[t] = running[t] /\ loop'[t] = loop[t] /\ calls'[t] = calls[t]

\* What is said of a task stays true while a step does not concern it.
LEMMA SameKeeps ==
  ASSUME NEW t, Same(t)
  PROVE  /\ RegOk(t) /\ (agent' = "down" => agent = "down") => RegOk(t)'
         /\ TaskOk(t) => TaskOk(t)'
         /\ Owned(t) /\ (InQueue(t) => InQueue(t)') => Owned(t)'
         /\ Idle(t) => Idle(t)'
  BY DEF Same, RegOk, Idle, TaskOk, LiveOk, StepOk, RateOk, Live, Owned

(***************************************************************************)
(* A step of one task keeps the invariant if it keeps what is said of that *)
(* task and of the queue.                                                  *)
(***************************************************************************)
LEMMA OneTask ==
  ASSUME IInv, NEW t \in Tasks, TypeOK', RegOk(t)', QueueIsDriven',
         \A u \in Tasks : u # t => Same(u),
         UNCHANGED <<agent, clis, stops>>,
         clis = 0 => QueueInv' /\ TaskOk(t)',
         clis = 0 /\ stops = 0 /\ agent = "up" =>
           Owned(t)' /\ \A u \in Tasks : u # t /\ InQueue(u) => InQueue(u)'
  PROVE  IInv'
<1>1. \A u \in Tasks : RegOk(u)'
  BY SameKeeps DEF IInv
<1>2. clis' = 0 => \A u \in Tasks : TaskOk(u)'
  BY SameKeeps DEF IInv
<1>3. clis' = 0 /\ stops' = 0 /\ agent' = "up" => \A u \in Tasks : Owned(u)'
  BY SameKeeps DEF IInv
<1>. QED
  BY <1>1, <1>2, <1>3 DEF IInv

\* A step that leaves the queue alone, of a task that is not in it.
LEMMA QueueKept ==
  ASSUME IInv, NEW t \in Tasks, clis = 0, ~InQueue(t), queue' = queue,
         \A u \in Tasks : u # t => Same(u)
  PROVE  QueueInv'
<1>1. ASSUME NEW i \in 1..Len(queue)
      PROVE  Same(queue[i]) /\ queue[i] \in Tasks
  BY SMTT(30) DEF InQueue, IInv, TypeOK
<1>2. \A i \in 1..Len(queue) : status'[queue[i]] = status[queue[i]] /\ Idle(queue[i])'
  BY <1>1, SameKeeps DEF IInv, QueueInv, Same
<1>. QED
  BY <1>2 DEF IInv, QueueInv

\* A loop object is alive for the task, so that it does not wait in the queue.
LEMMA BusyNotQueued ==
  ASSUME IInv, NEW t \in Tasks, NEW k \in Gens, loop[t][k].pc # "free", clis = 0
  PROVE  ~InQueue(t)
  BY DEF IInv, QueueInv, InQueue, Idle

\* The state a loop is left in when it returns.
LEMMA DoneState ==
  ASSUME NEW b \in BOOLEAN
  PROVE  /\ [Free EXCEPT !.pc = "done", !.stopped = b] \in LoopStates
         /\ [Free EXCEPT !.pc = "done", !.stopped = b].pc = "done"
<1>1. Free \in LoopStates
  BY AutonomousAssumption DEF Free, LoopStates
<1>2. ASSUME NEW r \in LoopStates
      PROVE  /\ [r EXCEPT !.pc = "done", !.stopped = b] \in LoopStates
             /\ [r EXCEPT !.pc = "done", !.stopped = b].pc = "done"
  BY DEF LoopStates
<1>. QED
  BY <1>1, <1>2

\* One loop takes another state.
LEMMA LoopTyped ==
  ASSUME TypeOK, NEW t \in Tasks, NEW k \in Gens, NEW r \in LoopStates,
         loop' = [loop EXCEPT ![t] = [loop[t] EXCEPT ![k] = r]]
  PROVE  /\ loop' \in [Tasks -> [Gens -> LoopStates]]
         /\ loop'[t][k] = r
         /\ \A m \in Gens : m # k => loop'[t][m] = loop[t][m]
  BY DEF TypeOK

(***************************************************************************)
(* A loop returns from run() with the status s: what the ways to end have  *)
(* in common.                                                              *)
(***************************************************************************)
LEMMA LeaveStep ==
  ASSUME IInv, NEW t \in Tasks, NEW k \in Gens, NEW s \in Statuses \ {"none"},
         loop[t][k].pc \in Awaits,
         Leaves(t, k),
         status' = [status EXCEPT ![t] = s],
         \/ step' = step
         \/ Live(t, k) /\ loop[t][k].pc = "reflect" /\ step' = [step EXCEPT ![t] = @ + 1],
         \E n \in 0..ToolLimit : snapshot' = [snapshot EXCEPT ![t] = n],
         UNCHANGED <<agent, queue, running, calls, clis, stops, crashes>>,
         s \in {status[t], "failed", "completed", "paused"},
         s = "running" => ~Live(t, k),
         s \notin Ended \cup {"deleted"} =>
           status[t] \notin Ended \cup {"deleted"} /\ snapshot'[t] = snapshot[t],
         s \in {"completed", "paused"} /\ s # status[t] => Live(t, k),
         status[t] = "deleted" => s = "deleted"
  PROVE  IInv'
<1> USE AutonomousAssumption
<1>0. PICK r \in LoopStates :
        r.pc = "done" /\ loop' = [loop EXCEPT ![t] = [loop[t] EXCEPT ![k] = r]]
  <2>1. loop[t][k].stopped \in BOOLEAN
    BY SMTT(30) DEF IInv, TypeOK, LoopStates
  <2>. QED
    BY <2>1, DoneState DEF Leaves
<1>1. /\ loop'[t][k].pc = "done"
      /\ \A m \in Gens : m # k => loop'[t][m] = loop[t][m]
  BY <1>0 DEF IInv, TypeOK
<1>2. TypeOK'
  <2>1. loop' \in [Tasks -> [Gens -> LoopStates]]
    BY <1>0, LoopTyped DEF IInv
  <2>2. status' \in [Tasks -> Statuses]
    BY DEF IInv, TypeOK
  <2>4. step' \in [Tasks -> Nat]
    <3>1. step \in [Tasks -> Nat] /\ step[t] + 1 \in Nat
      BY SMTT(30) DEF IInv, TypeOK
    <3>. QED
      BY <3>1
  <2>3. snapshot' \in [Tasks -> 0..ToolLimit]
    BY DEF IInv, TypeOK
  <2>. QED
    BY <2>1, <2>2, <2>3, <2>4 DEF IInv, TypeOK
<1>3. \A u \in Tasks : u # t => Same(u)
  BY DEF Same, Leaves, IInv, TypeOK
<1>4. RegOk(t)'
  BY <1>1 DEF IInv, RegOk, Idle, TypeOK, Awaits
<1>5. QueueIsDriven'
  BY <1>1 DEF QueueIsDriven
<1>6. ASSUME clis = 0
      PROVE  QueueInv' /\ TaskOk(t)'
  <2>1. ~InQueue(t)
    BY <1>6, BusyNotQueued DEF Awaits
  <2>2. QueueInv'
    BY <1>3, <1>6, <2>1, QueueKept
  <2>3. TaskOk(t)
    BY <1>6 DEF IInv
  <2>4. \A m \in Gens : Live(t, m)' => m # k /\ Live(t, m) /\ loop'[t][m] = loop[t][m]
    BY <1>1 DEF Live, Awaits
  <2>5. Live(t, k) => \A m \in Gens : ~Live(t, m)'
    BY <2>3, <2>4 DEF TaskOk, LiveOk
  <2>6. status'[t] = s
    BY DEF IInv, TypeOK
  <2>7. LiveOk(t)'
    BY <2>3, <2>4, <2>5, <2>6 DEF TaskOk, LiveOk
  <2>8. StepOk(t)'
    BY <2>3, <2>4, <2>5, SMTT(30) DEF TaskOk, StepOk, IInv, TypeOK
  <2>9. RateOk(t)'
    BY <2>3, <2>4, <2>6 DEF TaskOk, RateOk
  <2>. QED
    BY <2>2, <2>7, <2>8, <2>9 DEF TaskOk
<1>7. ASSUME clis = 0, stops = 0, agent = "up"
      PROVE  Owned(t)' /\ \A u \in Tasks : u # t /\ InQueue(u) => InQueue(u)'
  <2>1. status'[t] = s
    BY DEF IInv, TypeOK
  <2>2. ~InQueue(t) /\ Owned(t)
    BY <1>7, BusyNotQueued DEF Awaits, IInv
  <2>3. s = "running" => \E m \in Gens : Live(t, m)'
    BY <1>1, <2>2 DEF Owned, Live
  <2>. QED
    BY <2>1, <2>2, <2>3 DEF Owned, InQueue
<1>. QED
  BY <1>2, <1>3, <1>4, <1>5, <1>6, <1>7, OneTask

\* A loop that works goes on to its next await.
LEMMA WorkStep ==
  ASSUME IInv, NEW t \in Tasks, NEW k \in Gens, NEW r \in LoopStates,
         Live(t, k), r.pc \in Awaits, ~r.stopped,
         loop' = [loop EXCEPT ![t] = [loop[t] EXCEPT ![k] = r]],
         status' = status,
         step' \in [Tasks -> Nat], calls' \in [Tasks -> Nat],
         snapshot' \in [Tasks -> 0..ToolLimit],
         \A u \in Tasks : u # t => /\ step'[u] = step[u] /\ calls'[u] = calls[u]
                                   /\ snapshot'[u] = snapshot[u],
         clis = 0 =>
           /\ step'[t] <= MaxIterations
           /\ r.pc = "plan" => r.at = step'[t]
           /\ r.pc \in {"tool", "reflect"} => step'[t] < MaxIterations
           /\ calls'[t] <= r.window
           /\ status[t] \notin Ended \cup {"deleted"} => calls'[t] <= snapshot'[t],
         UNCHANGED <<agent, queue, running, clis, stops, crashes>>
  PROVE  IInv'
<1> USE AutonomousAssumption
<1>1. /\ loop'[t][k] = r
      /\ \A m \in Gens : m # k => loop'[t][m] = loop[t][m]
  BY DEF IInv, TypeOK
<1>2. TypeOK'
  BY DEF IInv, TypeOK
<1>3. \A u \in Tasks : u # t => Same(u)
  BY DEF Same, IInv, TypeOK
<1>4. RegOk(t)'
  BY <1>1 DEF IInv, RegOk, Idle, TypeOK, Awaits, Live
<1>5. QueueIsDriven'
  BY <1>1 DEF QueueIsDriven, Awaits
<1>6. ASSUME clis = 0
      PROVE  QueueInv' /\ TaskOk(t)'
  <2>1. ~InQueue(t)
    BY <1>6, BusyNotQueued DEF Awaits, Live
  <2>2. QueueInv'
    BY <1>3, <1>6, <2>1, QueueKept
  <2>3. TaskOk(t)
    BY <1>6 DEF IInv
  <2>4. \A m \in Gens : Live(t, m)' => m = k
    BY <1>1, <2>3 DEF Live, TaskOk, LiveOk
  <2>5. LiveOk(t)'
    BY <2>3, <2>4 DEF TaskOk, LiveOk
  <2>6. StepOk(t)'
    BY <1>1, <1>6, <2>4 DEF StepOk
  <2>7. RateOk(t)'
    <3>1. r.window \in 0..ToolLimit /\ calls'[t] \in Nat
      BY DEF LoopStates
    <3>. QED
      BY <1>1, <1>6, <2>4, <3>1 DEF RateOk
  <2>. QED
    BY <2>2, <2>5, <2>6, <2>7 DEF TaskOk
<1>7. ASSUME clis = 0, stops = 0, agent = "up"
      PROVE  Owned(t)' /\ \A u \in Tasks : u # t /\ InQueue(u) => InQueue(u)'
  <2>1. Live(t, k)'
    BY <1>1 DEF Live
  <2>2. Owned(t)
    BY <1>7 DEF IInv
  <2>. QED
    BY <2>1, <2>2 DEF Owned, InQueue
<1>. QED
  BY <1>2, <1>3, <1>4, <1>5, <1>6, <1>7, OneTask
-----------------------------------------------------------------------------
\* Every loop in an await belongs to a task that has had a row.
LEMMA AwaitHasRow ==
  ASSUME IInv, NEW t \in Tasks, NEW k \in Gens, loop[t][k].pc \in Awaits
  PROVE  status[t] # "none"
  BY DEF IInv, RegOk, Idle, Awaits

\* run() ends with safeUpdateStatus.
LEMMA EndsStep ==
  ASSUME IInv, NEW t \in Tasks, NEW k \in Gens, NEW s,
         loop[t][k].pc \in Awaits, status[t] # "deleted",
         Ends(t, k, s),
         \/ s = "failed"
         \/ s = status[t] /\ s \in Terminal
         \/ s = "completed" /\ Live(t, k),
         \/ step' = step
         \/ Live(t, k) /\ loop[t][k].pc = "reflect" /\ step' = [step EXCEPT ![t] = @ + 1],
         UNCHANGED <<agent, queue, running, calls, clis, stops, crashes>>
  PROVE  IInv'
<1> DEFINE s2 == SafeStatus(t, s)
<1>1. status[t] \in Statuses \ {"none"}
  BY AwaitHasRow DEF IInv, TypeOK
<1>2. /\ s2 \in Statuses \ {"none"}
      /\ s2 \in {status[t], "failed", "completed", "paused"} /\ s2 # "running"
      /\ s2 \notin Ended \cup {"deleted"} => status[t] = "paused" /\ s2 = "paused"
      /\ s2 \in {"completed", "paused"} /\ s2 # status[t] => Live(t, k)
  BY <1>1 DEF SafeStatus, Terminal, Ended, Statuses
<1>3. status' = [status EXCEPT ![t] = s2] /\ Leaves(t, k)
      /\ snapshot' = [snapshot EXCEPT ![t] = IF s2 = "paused" THEN @ ELSE 0]
  BY DEF Ends
<1> HIDE DEF s2
<1>4. /\ \E n \in 0..ToolLimit : snapshot' = [snapshot EXCEPT ![t] = n]
      /\ s2 = "paused" => snapshot'[t] = snapshot[t]
  <2>1. snapshot \in [Tasks -> 0..ToolLimit] /\ 0 \in 0..ToolLimit
    BY AutonomousAssumption DEF IInv, TypeOK
  <2>. QED
    BY <1>3, <2>1
<1>5. s2 \notin Ended \cup {"deleted"} =>
        status[t] \notin Ended \cup {"deleted"} /\ snapshot'[t] = snapshot[t]
  BY <1>2, <1>4 DEF Ended
<1>. QED
  BY <1>2, <1>3, <1>4, <1>5, LeaveStep

\* The planner throws: the loop ends its task as failed and keeps the invariant.
LEMMA PlanFailsStep ==
  ASSUME IInv, NEW t \in Tasks, NEW k \in Gens, PlanFails(t, k)
  PROVE  IInv'
<1>1. /\ loop[t][k].pc \in Awaits /\ status[t] # "deleted" /\ Ends(t, k, "failed")
      /\ step' = step /\ UNCHANGED <<agent, queue, running, calls, clis, stops, crashes>>
  BY DEF PlanFails, Awaits
<1>. QED
  BY <1>1, EndsStep

\* The policy blocks the action: the task ends, and the invariant holds.
LEMMA PolicyBlocksStep ==
  ASSUME IInv, NEW t \in Tasks, NEW k \in Gens, PolicyBlocks(t, k)
  PROVE  IInv'
<1>1. /\ loop[t][k].pc \in Awaits /\ status[t] # "deleted" /\ Ends(t, k, "failed")
      /\ step' = step /\ UNCHANGED <<agent, queue, running, calls, clis, stops, crashes>>
  BY DEF PolicyBlocks, Returns, Awaits
<1>. QED
  BY <1>1, EndsStep

\* The goal is reached: the task completes, and the invariant holds.
LEMMA ReflectAchievedStep ==
  ASSUME IInv, NEW t \in Tasks, NEW k \in Gens, ReflectAchieved(t, k)
  PROVE  IInv'
<1>1. /\ Live(t, k) /\ loop[t][k].pc = "reflect" /\ loop[t][k].pc \in Awaits
      /\ status[t] # "deleted" /\ Ends(t, k, "completed")
      /\ step' = [step EXCEPT ![t] = @ + 1]
      /\ UNCHANGED <<agent, queue, running, calls, clis, stops, crashes>>
  BY DEF ReflectAchieved, Returns, Awaits, Live
<1>. QED
  BY <1>1, EndsStep

\* A loop that was stopped leaves without touching the task's status.
LEMMA UnwindStep ==
  ASSUME IInv, NEW t \in Tasks, NEW k \in Gens, Unwind(t, k)
  PROVE  IInv'
<1>1. status[t] \in Statuses \ {"none"} /\ snapshot[t] \in 0..ToolLimit /\ 0 \in 0..ToolLimit
  BY AwaitHasRow, AutonomousAssumption DEF IInv, TypeOK, Unwind
<1>2. status' = [status EXCEPT ![t] = status[t]]
  BY DEF IInv, TypeOK, Unwind, rowVars
<1>3. /\ \E n \in 0..ToolLimit : snapshot' = [snapshot EXCEPT ![t] = n]
      /\ status[t] \notin Ended => snapshot'[t] = snapshot[t]
  BY <1>1 DEF Unwind, IInv, TypeOK
<1>4. status[t] = "running" => ~Live(t, k)
  BY DEF Unwind, Live
<1>. QED
  BY <1>1, <1>2, <1>3, <1>4, LeaveStep DEF Unwind, rowVars

\* A loop that escalated pauses its task and ends.
LEMMA EscalatedStep ==
  ASSUME IInv, NEW t \in Tasks, NEW k \in Gens, Escalated(t, k)
  PROVE  IInv'
<1> DEFINE s2 == SafeStatus(t, "paused")
<1>1. status[t] \in Statuses \ {"none"} /\ loop[t][k].pc \in Awaits /\ Live(t, k)
  BY AwaitHasRow DEF IInv, TypeOK, Escalated, Returns, Awaits, Live
<1>2. /\ s2 \in Statuses \ {"none"} /\ s2 \in {status[t], "paused"} /\ s2 # "running"
      /\ s2 \notin Ended \cup {"deleted"} => status[t] \notin Ended \cup {"deleted"}
  BY <1>1 DEF SafeStatus, Terminal, Ended, Statuses
<1>3. /\ status' = [status EXCEPT ![t] = s2] /\ Leaves(t, k) /\ step' = step
      /\ snapshot' = snapshot /\ status[t] # "deleted"
      /\ UNCHANGED <<agent, queue, running, calls, clis, stops, crashes>>
  BY DEF Escalated, Returns
<1> HIDE DEF s2
<1>4. \E n \in 0..ToolLimit : snapshot' = [snapshot EXCEPT ![t] = n]
  <2>1. snapshot[t] \in 0..ToolLimit /\ snapshot = [snapshot EXCEPT ![t] = snapshot[t]]
    BY DEF IInv, TypeOK
  <2>. QED
    BY <1>3, <2>1
<1>. QED
  BY <1>1, <1>2, <1>3, <1>4, LeaveStep

\* What a loop that works may rely on while nobody uses the command line.
LEMMA LiveFacts ==
  ASSUME IInv, NEW t \in Tasks, NEW k \in Gens, NEW p \in Awaits, Returns(t, k, p)
  PROVE  /\ Live(t, k) /\ loop[t][k].pc = p
         /\ loop[t][k].window \in 0..ToolLimit /\ loop[t][k].at \in Nat
         /\ step[t] \in Nat /\ calls[t] \in Nat /\ snapshot[t] \in 0..ToolLimit
         /\ clis = 0 => /\ step[t] <= MaxIterations
                        /\ p = "plan" => loop[t][k].at = step[t]
                        /\ p \in {"tool", "reflect"} => step[t] < MaxIterations
                        /\ calls[t] <= loop[t][k].window
                        /\ status[t] \notin Ended \cup {"deleted"} => calls[t] <= snapshot[t]
<1>1. Live(t, k) /\ loop[t][k].pc = p
  BY DEF Returns, Live
<1>2. loop[t][k].window \in 0..ToolLimit /\ loop[t][k].at \in Nat
  BY DEF IInv, TypeOK, LoopStates
<1>3. step[t] \in Nat /\ calls[t] \in Nat /\ snapshot[t] \in 0..ToolLimit
  BY DEF IInv, TypeOK
<1>4. clis = 0 => TaskOk(t)
  BY DEF IInv
<1>. QED
  BY <1>1, <1>2, <1>3, <1>4 DEF TaskOk, StepOk, RateOk

\* A loop moves on to the user's confirmation.
LEMMA MovesStep ==
  ASSUME IInv, NEW t \in Tasks, NEW k \in Gens, NEW p \in Awaits, Returns(t, k, p),
         Moves(t, k, "escalate"),
         UNCHANGED <<rowVars, snapshot, agent, queue, running, calls, clis, stops, crashes>>
  PROVE  IInv'
<1>0. "escalate" \in Awaits /\ 0 \in Nat /\ TypeOK
  BY DEF Awaits, IInv
<1>1. PICK r \in LoopStates :
        /\ loop' = [loop EXCEPT ![t] = [loop[t] EXCEPT ![k] = r]]
        /\ r.pc = "escalate" /\ r.window = loop[t][k].window /\ r.stopped = loop[t][k].stopped
  <2> DEFINE c == loop[t][k]
             r == [c EXCEPT !.pc = "escalate", !.at = 0]
  <2>1. loop[t] \in [Gens -> LoopStates] /\ c \in LoopStates
    BY <1>0 DEF TypeOK
  <2>2. /\ r \in LoopStates /\ r.pc = "escalate"
        /\ r.window = c.window /\ r.stopped = c.stopped
    BY <1>0, <2>1 DEF LoopStates
  <2>3. loop' = [loop EXCEPT ![t] = [loop[t] EXCEPT ![k] = r]]
    BY <1>0, <2>1 DEF TypeOK, Moves
  <2>. QED
    BY <2>2, <2>3
<1>2. /\ step' = step /\ status' = status /\ snapshot' = snapshot /\ calls' = calls
      /\ UNCHANGED <<agent, queue, running, clis, stops, crashes>>
      /\ step' \in [Tasks -> Nat] /\ calls' \in [Tasks -> Nat]
      /\ snapshot' \in [Tasks -> 0..ToolLimit] /\ ~r.stopped /\ r.pc \in Awaits
  BY <1>0, <1>1 DEF rowVars, IInv, TypeOK, Returns
<1>3. clis = 0 =>
        /\ step'[t] <= MaxIterations
        /\ r.pc = "plan" => r.at = step'[t]
        /\ r.pc \in {"tool", "reflect"} => step'[t] < MaxIterations
        /\ calls'[t] <= r.window
        /\ status[t] \notin Ended \cup {"deleted"} => calls'[t] <= snapshot'[t]
  BY <1>1, <1>2, LiveFacts
<1>4. Live(t, k)
  BY LiveFacts
<1>. QED
  BY <1>1, <1>2, <1>3, <1>4, WorkStep

\* A tool call is counted in the loop's window and in its snapshot.
LEMMA CallToolStep ==
  ASSUME IInv, NEW t \in Tasks, NEW k \in Gens, CallTool(t, k)
  PROVE  IInv'
<1> USE AutonomousAssumption
<1> DEFINE c == loop[t][k]
<1>0. "tool" \in Awaits /\ "plan" \in Awaits /\ 0 \in Nat /\ TypeOK /\ Returns(t, k, "plan")
  BY DEF Awaits, IInv, CallTool
<1>1. c.window < ToolLimit /\ c.at < MaxIterations /\ c.window \in 0..ToolLimit
  BY <1>0, LiveFacts DEF CallTool, Blocked
<1>2. PICK r \in LoopStates :
        /\ loop' = [loop EXCEPT ![t] = [loop[t] EXCEPT ![k] = r]]
        /\ r.pc = "tool" /\ r.window = c.window + 1 /\ r.stopped = c.stopped
  <2> DEFINE r == [c EXCEPT !.pc = "tool", !.at = 0, !.window = @ + 1]
  <2>1. loop[t] \in [Gens -> LoopStates] /\ c \in LoopStates
    BY <1>0 DEF TypeOK
  <2>2. r.pc = "tool" /\ r.window = c.window + 1 /\ r.stopped = c.stopped
    BY <2>1 DEF LoopStates
  <2>3. r \in LoopStates
    <3>1. c.window + 1 \in 0..ToolLimit
      BY <1>1
    <3>. QED
      BY <1>0, <2>1, <3>1 DEF LoopStates
  <2>4. loop' = [loop EXCEPT ![t] = [loop[t] EXCEPT ![k] = r]]
    BY <1>0, <2>1 DEF TypeOK, CallTool
  <2>. QED
    BY <2>2, <2>3, <2>4
<1>3. /\ step' = step /\ status' = status
      /\ UNCHANGED <<agent, queue, running, clis, stops, crashes>>
      /\ step' \in [Tasks -> Nat] /\ ~r.stopped /\ r.pc \in Awaits
  BY <1>0, <1>2 DEF rowVars, TypeOK, Returns, CallTool
<1>4. /\ snapshot' \in [Tasks -> 0..ToolLimit] /\ snapshot'[t] = c.window + 1
      /\ \A u \in Tasks : u # t => snapshot'[u] = snapshot[u]
  <2>1. c.window + 1 \in 0..ToolLimit
    BY <1>1
  <2>2. snapshot' = [snapshot EXCEPT ![t] = c.window + 1]
    BY DEF CallTool
  <2>. QED
    BY <1>0, <2>1, <2>2 DEF TypeOK
<1>5. /\ calls' \in [Tasks -> Nat] /\ calls'[t] = calls[t] + 1
      /\ \A u \in Tasks : u # t => calls'[u] = calls[u]
  <2>1. calls \in [Tasks -> Nat] /\ calls[t] + 1 \in Nat
    BY <1>0 DEF TypeOK
  <2>2. calls' = [calls EXCEPT ![t] = calls[t] + 1]
    BY DEF CallTool
  <2>. QED
    BY <2>1, <2>2
<1>6. clis = 0 =>
        /\ step'[t] <= MaxIterations
        /\ r.pc = "plan" => r.at = step'[t]
        /\ r.pc \in {"tool", "reflect"} => step'[t] < MaxIterations
        /\ calls'[t] <= r.window
        /\ status[t] \notin Ended \cup {"deleted"} => calls'[t] <= snapshot'[t]
  BY <1>0, <1>1, <1>2, <1>3, <1>4, <1>5, LiveFacts
<1>7. Live(t, k)
  BY <1>0, LiveFacts
<1>. QED
  BY <1>2, <1>3, <1>4, <1>5, <1>6, <1>7, WorkStep

\* A tool call returns, and the window is written through once more.
LEMMA ToolReturnsStep ==
  ASSUME IInv, NEW t \in Tasks, NEW k \in Gens, ToolReturns(t, k)
  PROVE  IInv'
<1> DEFINE c == loop[t][k]
<1>0. "tool" \in Awaits /\ "reflect" \in Awaits /\ TypeOK /\ Returns(t, k, "tool")
  BY DEF Awaits, IInv, ToolReturns
<1>1. loop[t] \in [Gens -> LoopStates] /\ c \in LoopStates /\ c.window \in 0..ToolLimit
  BY <1>0 DEF TypeOK, LoopStates
<1>2. PICK r \in LoopStates :
        /\ loop' = [loop EXCEPT ![t] = [loop[t] EXCEPT ![k] = r]]
        /\ r.pc = "reflect" /\ r.window = c.window /\ r.stopped = c.stopped
  <2> DEFINE r == [c EXCEPT !.pc = "reflect"]
  <2>1. r \in LoopStates /\ r.pc = "reflect" /\ r.window = c.window /\ r.stopped = c.stopped
    BY <1>0, <1>1 DEF LoopStates
  <2>2. loop' = [loop EXCEPT ![t] = [loop[t] EXCEPT ![k] = r]]
    BY <1>0, <1>1 DEF TypeOK, ToolReturns
  <2>. QED
    BY <2>1, <2>2
<1>3. /\ step' = step /\ status' = status /\ calls' = calls
      /\ UNCHANGED <<agent, queue, running, clis, stops, crashes>>
      /\ step' \in [Tasks -> Nat] /\ calls' \in [Tasks -> Nat]
      /\ ~r.stopped /\ r.pc \in Awaits
  BY <1>0, <1>2 DEF rowVars, TypeOK, Returns, ToolReturns
<1>4. /\ snapshot' \in [Tasks -> 0..ToolLimit] /\ snapshot'[t] = c.window
      /\ \A u \in Tasks : u # t => snapshot'[u] = snapshot[u]
  BY <1>0, <1>1 DEF TypeOK, ToolReturns
<1>5. clis = 0 =>
        /\ step'[t] <= MaxIterations
        /\ r.pc = "plan" => r.at = step'[t]
        /\ r.pc \in {"tool", "reflect"} => step'[t] < MaxIterations
        /\ calls'[t] <= r.window
        /\ status[t] \notin Ended \cup {"deleted"} => calls'[t] <= snapshot'[t]
  BY <1>0, <1>2, <1>3, <1>4, LiveFacts
<1>6. Live(t, k)
  BY <1>0, LiveFacts
<1>. QED
  BY <1>2, <1>3, <1>4, <1>5, <1>6, WorkStep

\* The loop goes round, within the limit of steps.
LEMMA ReflectContinuesStep ==
  ASSUME IInv, NEW t \in Tasks, NEW k \in Gens, ReflectContinues(t, k)
  PROVE  IInv'
<1> USE AutonomousAssumption
<1> DEFINE c == loop[t][k]
<1>0. /\ "reflect" \in Awaits /\ "plan" \in Awaits /\ TypeOK /\ Returns(t, k, "reflect")
      /\ step' = [step EXCEPT ![t] = @ + 1]
      /\ UNCHANGED <<agent, queue, running, calls, clis, stops, crashes>>
  BY DEF Awaits, IInv, ReflectContinues
<1>1. Live(t, k) /\ c.pc = "reflect" /\ status[t] # "deleted" /\ step[t] \in Nat
  BY <1>0, LiveFacts DEF Returns
<1>2. CASE Ends(t, k, "failed")
  BY <1>0, <1>1, <1>2, EndsStep
<1>3. CASE status[t] \in {"cancelled", "paused"} /\ Ends(t, k, status[t])
  <2>1. status[t] \in Terminal
    BY <1>3 DEF Terminal, Ended
  <2>. QED
    BY <1>0, <1>1, <1>3, <2>1, EndsStep
<1>4. CASE /\ loop' = [loop EXCEPT ![t][k].pc = "plan", ![t][k].at = step[t] + 1]
           /\ snapshot' = [snapshot EXCEPT ![t] = loop[t][k].window]
           /\ status' = status
  <2>1. step[t] + 1 \in Nat
    BY <1>1
  <2>2. PICK r \in LoopStates :
          /\ loop' = [loop EXCEPT ![t] = [loop[t] EXCEPT ![k] = r]]
          /\ r.pc = "plan" /\ r.at = step[t] + 1 /\ r.window = c.window
          /\ r.stopped = c.stopped
    <3> DEFINE r == [c EXCEPT !.pc = "plan", !.at = step[t] + 1]
    <3>1. loop[t] \in [Gens -> LoopStates] /\ c \in LoopStates
      BY <1>0 DEF TypeOK
    <3>2. /\ r \in LoopStates /\ r.pc = "plan" /\ r.at = step[t] + 1
          /\ r.window = c.window /\ r.stopped = c.stopped
      BY <1>0, <2>1, <3>1 DEF LoopStates
    <3>3. loop' = [loop EXCEPT ![t] = [loop[t] EXCEPT ![k] = r]]
      BY <1>0, <1>4, <3>1 DEF TypeOK
    <3>. QED
      BY <3>2, <3>3
  <2>3. /\ step' \in [Tasks -> Nat] /\ step'[t] = step[t] + 1
        /\ \A u \in Tasks : u # t => step'[u] = step[u]
    <3>1. step \in [Tasks -> Nat]
      BY <1>0 DEF TypeOK
    <3>. QED
      BY <1>0, <2>1, <3>1
  <2>4. /\ snapshot' \in [Tasks -> 0..ToolLimit] /\ snapshot'[t] = c.window
        /\ \A u \in Tasks : u # t => snapshot'[u] = snapshot[u]
    <3>1. c.window \in 0..ToolLimit
      BY <1>0, LiveFacts
    <3>. QED
      BY <1>0, <1>4, <3>1 DEF TypeOK
  <2>5. calls' \in [Tasks -> Nat] /\ calls' = calls /\ ~r.stopped /\ r.pc \in Awaits
    BY <1>0, <2>2 DEF TypeOK, Returns
  <2>6. clis = 0 =>
          /\ step'[t] <= MaxIterations
          /\ r.pc = "plan" => r.at = step'[t]
          /\ r.pc \in {"tool", "reflect"} => step'[t] < MaxIterations
          /\ calls'[t] <= r.window
          /\ status[t] \notin Ended \cup {"deleted"} => calls'[t] <= snapshot'[t]
    BY <1>0, <1>1, <2>2, <2>3, <2>4, <2>5, LiveFacts
  <2>. QED
    BY <1>0, <1>1, <1>4, <2>2, <2>3, <2>4, <2>5, <2>6, WorkStep
<1>. QED
  BY <1>2, <1>3, <1>4 DEF ReflectContinues
-----------------------------------------------------------------------------
\* The state a new loop is in when runLoop has returned.
LEMMA FreshState ==
  ASSUME TypeOK, NEW t \in Tasks
  PROVE  /\ Fresh(t) \in LoopStates
         /\ Fresh(t).pc = IF Doomed(t) THEN "done" ELSE "plan"
         /\ Fresh(t).at = step[t] /\ Fresh(t).window = snapshot[t]
         /\ ~Fresh(t).stopped
<1>1. step[t] \in Nat /\ snapshot[t] \in 0..ToolLimit /\ 0 \in 0..ToolLimit
  BY AutonomousAssumption DEF TypeOK
<1>2. Free \in LoopStates /\ ~Free.stopped
  BY <1>1 DEF Free, LoopStates
<1> DEFINE p == IF Doomed(t) THEN "done" ELSE "plan"
<1>3. p \in Awaits \cup {"free", "done"}
  BY DEF Awaits
<1>4. Fresh(t) = [Free EXCEPT !.pc = p, !.at = step[t], !.window = snapshot[t]]
  BY DEF Fresh
<1> HIDE DEF p
<1>5. Fresh(t) \in LoopStates /\ Fresh(t).pc = p /\ Fresh(t).at = step[t]
      /\ Fresh(t).window = snapshot[t] /\ Fresh(t).stopped = Free.stopped
  BY <1>1, <1>2, <1>3, <1>4 DEF LoopStates
<1>. QED
  BY <1>2, <1>5 DEF p

(***************************************************************************)
(* runLoop for one task whose loops are L: when none of them works, the    *)
(* new one is the only one that does, and it goes on where the counters    *)
(* and the snapshot stand.                                                 *)
(***************************************************************************)
LEMMA RunTask ==
  ASSUME IInv, NEW t \in Tasks, FreeGens(t) # {}, NEW L \in [Gens -> LoopStates],
         loop'[t] = [L EXCEPT ![NewGen(t)] = Fresh(t)],
         running'[t] = NewGen(t), step'[t] = step[t], calls'[t] = calls[t],
         status'[t] = IF status[t] = "deleted" THEN "deleted"
                      ELSE IF Doomed(t) THEN "failed" ELSE "running",
         snapshot'[t] = IF Doomed(t) THEN 0 ELSE snapshot[t],
         agent' # "down",
         clis = 0 => /\ status[t] \notin Ended
                     /\ \A m \in Gens : ~(L[m].pc \in Awaits /\ ~L[m].stopped)
  PROVE  /\ loop'[t] \in [Gens -> LoopStates] /\ running'[t] \in Gens
         /\ status'[t] \in Statuses \ {"none"} /\ snapshot'[t] \in 0..ToolLimit
         /\ loop'[t][running'[t]].pc # "free"
         /\ RegOk(t)'
         /\ clis = 0 => TaskOk(t)' /\ Owned(t)'
<1>0. PICK n \in Gens : TypeOK /\ n = NewGen(t)
  BY NewGenIsFree DEF IInv
<1>1. PICK f \in LoopStates :
      /\ f = Fresh(t) /\ f.pc = IF Doomed(t) THEN "done" ELSE "plan"
      /\ f.at = step[t] /\ f.window = snapshot[t] /\ ~f.stopped
  BY <1>0, FreshState
<1>2. /\ loop'[t] \in [Gens -> LoopStates] /\ loop'[t][n] = f
      /\ \A m \in Gens : m # n => loop'[t][m] = L[m]
  BY <1>0, <1>1
<1>3. /\ running'[t] = n /\ status'[t] \in Statuses \ {"none"}
      /\ snapshot'[t] \in 0..ToolLimit
  BY <1>0, AutonomousAssumption DEF Statuses, Terminal, Ended, TypeOK
<1>4. f.pc # "free"
  BY <1>1
<1>5. RegOk(t)'
  BY <1>0, <1>2, <1>3, <1>4 DEF RegOk
<1>6. ASSUME clis = 0
      PROVE  TaskOk(t)' /\ Owned(t)'
  <2>1. TaskOk(t)
    BY <1>6 DEF IInv
  <2>2. \A m \in Gens : Live(t, m)' => m = n /\ ~Doomed(t)
    BY <1>1, <1>2, <1>6 DEF Live, Awaits
  <2>3. ~Doomed(t) => /\ Live(t, n)' /\ status'[t] = "running" /\ snapshot'[t] = snapshot[t]
    BY <1>1, <1>2 DEF Live, Awaits, Doomed
  <2>4. LiveOk(t)'
    BY <1>3, <2>2, <2>3 DEF LiveOk
  <2>5. StepOk(t)'
    <3>1. ASSUME NEW m \in Gens, Live(t, m)'
          PROVE  loop'[t][m].pc = "plan" /\ loop'[t][m].at = step[t]
      BY <1>1, <1>2, <2>2, <3>1
    <3>2. step'[t] <= MaxIterations
      BY <2>1 DEF TaskOk, StepOk
    <3>. QED
      BY <3>1, <3>2 DEF StepOk
  <2>6. ~Doomed(t) => calls[t] <= snapshot[t]
    BY <1>6, <2>1 DEF Doomed, TaskOk, RateOk
  <2>7. Doomed(t) => status'[t] \in Ended \cup {"deleted"}
    BY DEF Ended
  <2>8. RateOk(t)'
    BY <1>1, <1>2, <2>1, <2>2, <2>3, <2>6, <2>7 DEF TaskOk, RateOk
  <2>9. Owned(t)'
    <3>1. CASE Doomed(t)
      <4>1. status'[t] \notin {"running", "queued"}
        BY <2>7, <3>1 DEF Ended
      <4>. QED
        BY <4>1 DEF Owned
    <3>2. CASE ~Doomed(t)
      BY <1>0, <2>3, <3>2 DEF Owned
    <3>. QED
      BY <3>1, <3>2
  <2>. QED
    BY <2>4, <2>5, <2>8, <2>9 DEF TaskOk
<1>. QED
  BY <1>0, <1>2, <1>3, <1>4, <1>5, <1>6

\* startTask and resumeTask, for a task that has no loop at work.
LEMMA RunOne ==
  ASSUME IInv, NEW t \in Tasks, agent # "down", FreeGens(t) # {},
         status[t] \in {"none", "paused"},
         RunRows({t}, status), running' = Registered({t}, running),
         loop' = WithLoops({t}, loop),
         UNCHANGED <<step, agent, queue, calls, clis, stops, crashes>>
  PROVE  IInv'
<1>0. TypeOK /\ loop[t] \in [Gens -> LoopStates]
  BY DEF IInv, TypeOK
<1>1. /\ loop'[t] = [loop[t] EXCEPT ![NewGen(t)] = Fresh(t)] /\ running'[t] = NewGen(t)
      /\ status'[t] = IF status[t] = "deleted" THEN "deleted"
                      ELSE IF Doomed(t) THEN "failed" ELSE "running"
      /\ snapshot'[t] = IF Doomed(t) THEN 0 ELSE snapshot[t]
  BY DEF RunRows, Registered, WithLoops
<1>2. clis = 0 => \A m \in Gens : ~Live(t, m)
  BY DEF IInv, TaskOk, LiveOk
<1>3. /\ loop'[t] \in [Gens -> LoopStates] /\ running'[t] \in Gens
      /\ status'[t] \in Statuses /\ snapshot'[t] \in 0..ToolLimit
      /\ loop'[t][running'[t]].pc # "free"
      /\ RegOk(t)'
      /\ clis = 0 => TaskOk(t)' /\ Owned(t)'
  <2>1. clis = 0 => /\ status[t] \notin Ended
                    /\ \A m \in Gens : ~(loop[t][m].pc \in Awaits /\ ~loop[t][m].stopped)
    BY <1>2 DEF Live, Ended
  <2>. QED
    BY <1>0, <1>1, <2>1, RunTask
<1>4. \A u \in Tasks : u # t => Same(u)
  BY DEF Same, RunRows, Registered, WithLoops
<1>5. TypeOK'
  <2>1. loop' \in [Tasks -> [Gens -> LoopStates]] /\ running' \in [Tasks -> Gens \cup {0}]
    BY <1>0, <1>3 DEF TypeOK, WithLoops, Registered
  <2>2. status' \in [Tasks -> Statuses] /\ snapshot' \in [Tasks -> 0..ToolLimit]
    BY <1>0, <1>3 DEF TypeOK, RunRows
  <2>. QED
    BY <1>0, <2>1, <2>2 DEF TypeOK
<1>6. QueueIsDriven'
  BY <1>3 DEF QueueIsDriven
<1>7. clis = 0 => QueueInv'
  <2>1. clis = 0 => ~InQueue(t)
    BY DEF IInv, QueueInv, InQueue
  <2>. QED
    BY <1>4, <2>1, QueueKept
<1>8. \A u : InQueue(u) => InQueue(u)'
  BY DEF InQueue
<1>. QED
  BY <1>3, <1>4, <1>5, <1>6, <1>7, <1>8, OneTask

\* resumeTask starts or queues a paused task that no loop drives.
LEMMA ResumeTaskStep ==
  ASSUME IInv, NEW t \in Tasks, ResumeTask(t)
  PROVE  IInv'
  BY RunOne DEF ResumeTask

\* When the cap is reached, some loop is alive.
LEMMA CapMeansLoop ==
  ASSUME IInv, RunningCount >= MaxParallel
  PROVE  \E u \in Tasks, m \in Gens : loop[u][m].pc # "free"
<1> DEFINE R == {u \in Tasks : running[u] # 0}
<1>1. R # {}
  <2>1. ASSUME R = {}
        PROVE  FALSE
    <3>1. Cardinality(R) = 0
      BY <2>1, FS_EmptySet
    <3>. QED
      BY <3>1, AutonomousAssumption DEF RunningCount
  <2>. QED
    BY <2>1
<1>2. PICK u \in Tasks : running[u] # 0
  BY <1>1
<1>3. running[u] \in Gens /\ loop[u][running[u]].pc # "free"
  BY <1>2 DEF IInv, TypeOK, RegOk
<1>. QED
  BY <1>3

\* A new task is started or queued.
LEMMA StartTaskStep ==
  ASSUME IInv, NEW t \in Tasks, StartTask(t)
  PROVE  IInv'
<1>0. /\ TypeOK /\ agent # "down" /\ status[t] = "none" /\ Idle(t)
      /\ UNCHANGED <<step, agent, calls, clis, stops, crashes>>
  BY DEF IInv, RegOk, StartTask, IsNext
<1>1. CASE RunningCount >= MaxParallel
  <2>1. /\ status' = [status EXCEPT ![t] = "queued"] /\ queue' = Append(queue, t)
        /\ UNCHANGED <<snapshot, running, loop>>
    BY <1>1 DEF StartTask
  <2>2. TypeOK'
    <3>1. status' \in [Tasks -> Statuses]
      BY <1>0, <2>1 DEF TypeOK, Statuses
    <3>2. queue' \in Seq(Tasks)
      BY <1>0, <2>1 DEF TypeOK
    <3>. QED
      BY <1>0, <2>1, <3>1, <3>2 DEF TypeOK
  <2>3. \A u \in Tasks : u # t => Same(u)
    BY <1>0, <2>1 DEF Same, TypeOK
  <2>4. RegOk(t)'
    BY <1>0, <2>1 DEF IInv, RegOk, TypeOK, Idle
  <2>5. QueueIsDriven'
    BY <1>1, <2>1, CapMeansLoop DEF QueueIsDriven
  <2>6. /\ Len(queue') = Len(queue) + 1 /\ queue'[Len(queue) + 1] = t
        /\ \A i \in 1..Len(queue) : queue'[i] = queue[i] /\ queue[i] \in Tasks
        /\ Len(queue) \in Nat
    BY <1>0, <2>1 DEF TypeOK
  <2>7. status'[t] = "queued" /\ Idle(t)'
    BY <1>0, <2>1 DEF TypeOK, Idle
  <2>8. ASSUME clis = 0
        PROVE  QueueInv' /\ TaskOk(t)'
    <3>1. QueueInv /\ TaskOk(t)
      BY <2>8 DEF IInv
    <3>2. \A i \in 1..Len(queue) : queue[i] # t
      BY <1>0, <3>1 DEF QueueInv
    <3>3. \A i \in 1..Len(queue) : /\ status'[queue[i]] \in {"queued", "deleted"}
                                   /\ \A m \in Gens : loop'[queue[i]][m].pc = "free"
      BY <2>3, <2>6, <3>1, <3>2 DEF QueueInv, Same, Idle
    <3>4. \A i \in 1..Len(queue') : i \in 1..Len(queue) \/ i = Len(queue) + 1
      BY <2>6
    <3>5. \A i \in 1..Len(queue') : /\ status'[queue'[i]] \in {"queued", "deleted"}
                                    /\ \A m \in Gens : loop'[queue'[i]][m].pc = "free"
      BY <2>6, <2>7, <3>3, <3>4 DEF Idle
    <3>6. \A i, j \in 1..Len(queue') : queue'[i] = queue'[j] => i = j
      BY <2>6, <3>1, <3>2, <3>4 DEF QueueInv
    <3>7. QueueInv'
      BY <3>5, <3>6 DEF QueueInv, Idle
    <3>8. TaskOk(t)'
      BY <1>0, <2>1, <2>7, <3>1 DEF TaskOk, LiveOk, StepOk, RateOk, Live, Idle, Awaits, Ended
    <3>. QED
      BY <3>7, <3>8
  <2>9. Owned(t)' /\ \A u \in Tasks : u # t /\ InQueue(u) => InQueue(u)'
    <3>1. InQueue(t)'
      BY <2>6 DEF InQueue
    <3>2. \A u \in Tasks : InQueue(u) => InQueue(u)'
      BY <2>6 DEF InQueue
    <3>. QED
      BY <2>7, <3>1, <3>2 DEF Owned
  <2>. QED
    BY <1>0, <2>2, <2>3, <2>4, <2>5, <2>8, <2>9, OneTask
<1>2. CASE ~(RunningCount >= MaxParallel)
  <2>1. FreeGens(t) # {}
    <3>1. 1 \in Gens
      BY AutonomousAssumption DEF Gens
    <3>. QED
      BY <1>0, <3>1 DEF FreeGens, Idle
  <2>2. /\ RunRows({t}, status) /\ running' = Registered({t}, running)
        /\ loop' = WithLoops({t}, loop) /\ queue' = queue
    BY <1>2 DEF StartTask
  <2>. QED
    BY <1>0, <2>1, <2>2, RunOne
<1>. QED
  BY <1>1, <1>2
-----------------------------------------------------------------------------
\* loop.stop() aborts a loop but does not remove it.
LEMMA AbortedState ==
  ASSUME NEW r \in LoopStates
  PROVE  /\ Aborted(r) \in LoopStates /\ Aborted(r).stopped
         /\ Aborted(r).pc = "free" <=> r.pc = "free"
<1> DEFINE p == IF r.pc = "escalate" THEN "reflect" ELSE r.pc
<1>1. p \in Awaits \cup {"free", "done"} /\ (p = "free" <=> r.pc = "free")
  BY DEF LoopStates, Awaits
<1>2. Free \in LoopStates
  BY AutonomousAssumption DEF Free, LoopStates
<1>3. Aborted(r) = [Free EXCEPT !.stopped = TRUE, !.pc = p]
  BY DEF Aborted
<1> HIDE DEF p
<1>4. Aborted(r) \in LoopStates
  BY <1>1, <1>2, <1>3 DEF LoopStates
<1>5. Aborted(r).pc = p
  BY <1>2, <1>3 DEF LoopStates
<1>6. Aborted(r).stopped
  BY <1>2, <1>3 DEF LoopStates
<1>. QED
  BY <1>1, <1>4, <1>5, <1>6

\* Aborting the registered loop leaves the other loops of the task alone.
LEMMA AbortKeepsOthers ==
  ASSUME TypeOK, NEW t \in Tasks
  PROVE  /\ AbortRegistered(t) \in [Gens -> LoopStates]
         /\ \A m \in Gens :
              /\ AbortRegistered(t)[m].pc = "free" <=> loop[t][m].pc = "free"
              /\ m # running[t] => AbortRegistered(t)[m] = loop[t][m]
              /\ m = running[t] => AbortRegistered(t)[m].stopped
<1>1. \A m \in Gens : loop[t][m] \in LoopStates
  BY DEF TypeOK
<1>. QED
  BY <1>1, AbortedState DEF AbortRegistered

\* pauseTask and stopTask: the status s is the one that the route writes.
LEMMA HaltStep ==
  ASSUME IInv, NEW t \in Tasks, NEW s \in {"paused", "cancelled"},
         agent # "down", Halt(t), status' = [status EXCEPT ![t] = s],
         s = "paused" => status[t] \notin Ended \cup {"deleted"},
         UNCHANGED <<step, snapshot, agent, calls, clis, stops, crashes>>
  PROVE  IInv'
<1>0. TypeOK
  BY DEF IInv
<1>1. PICK A \in [Gens -> LoopStates] :
        /\ loop' = [loop EXCEPT ![t] = A]
        /\ \A m \in Gens : /\ A[m].pc = "free" <=> loop[t][m].pc = "free"
                           /\ m # running[t] => A[m] = loop[t][m]
                           /\ m = running[t] => A[m].stopped
  BY <1>0, AbortKeepsOthers DEF Halt
<1>2. /\ running' = [running EXCEPT ![t] = 0] /\ queue' = Spliced(queue, t)
      /\ queue \in Seq(Tasks)
  BY <1>0 DEF Halt, TypeOK
<1>3. loop'[t] = A /\ running'[t] = 0 /\ status'[t] = s
      /\ \A u \in Tasks : u # t => Same(u)
  BY <1>0, <1>1, <1>2 DEF TypeOK, Same
<1>4. /\ queue' \in Seq(Tasks)
      /\ \A i \in 1..Len(queue') : \E j \in 1..Len(queue) : queue'[i] = queue[j]
      /\ \A i \in 1..Len(queue) : queue[i] # t => \E j \in 1..Len(queue') : queue'[j] = queue[i]
      /\ (\A i, j \in 1..Len(queue) : queue[i] = queue[j] => i = j) =>
           /\ \A i \in 1..Len(queue') : queue'[i] # t
           /\ \A i, j \in 1..Len(queue') : queue'[i] = queue'[j] => i = j
  <2> DEFINE q == Spliced(queue, t)
  <2>1. /\ q \in Seq(Tasks)
        /\ \A i \in 1..Len(q) : \E j \in 1..Len(queue) : q[i] = queue[j]
        /\ \A i \in 1..Len(queue) : queue[i] # t => \E j \in 1..Len(q) : q[j] = queue[i]
        /\ (\A i, j \in 1..Len(queue) : queue[i] = queue[j] => i = j) =>
             /\ \A i \in 1..Len(q) : q[i] # t
             /\ \A i, j \in 1..Len(q) : q[i] = q[j] => i = j
    BY <1>2, SplicedQueue, ZenonT(60)
  <2>2. queue' = q
    BY <1>2
  <2> HIDE DEF q
  <2>. QED
    BY <2>1, <2>2
<1>5. TypeOK'
  <2>1. status' \in [Tasks -> Statuses]
    BY <1>0 DEF TypeOK, Statuses, Terminal, Ended
  <2>2. loop' \in [Tasks -> [Gens -> LoopStates]] /\ running' \in [Tasks -> Gens \cup {0}]
    BY <1>0, <1>1, <1>2 DEF TypeOK
  <2>. QED
    BY <1>0, <1>4, <2>1, <2>2 DEF TypeOK
<1>6. RegOk(t)'
  <2>1. agent' # "down" /\ status'[t] # "none" /\ running'[t] = 0
    BY <1>3
  <2>. QED
    BY <2>1 DEF RegOk
<1>7. QueueIsDriven'
  <2>1. SUFFICES ASSUME queue' # <<>>
                 PROVE  \E u \in Tasks, m \in Gens : loop'[u][m].pc # "free"
    BY DEF QueueIsDriven
  <2>2. queue # <<>>
    <3>1. Len(queue') # 0
      BY <1>4, <2>1
    <3>2. 1 \in 1..Len(queue')
      BY <1>4, <3>1
    <3>3. PICK j \in 1..Len(queue) : queue'[1] = queue[j]
      BY <1>4, <3>2
    <3>. QED
      BY <1>2, <3>3
  <2>3. PICK u \in Tasks, m \in Gens : loop[u][m].pc # "free"
    BY <2>2 DEF IInv, QueueIsDriven
  <2>4. loop'[u][m].pc # "free"
    BY <1>1, <1>3, <2>3 DEF Same
  <2>. QED
    BY <2>4
<1>8. ASSUME clis = 0
      PROVE  QueueInv' /\ TaskOk(t)'
  <2>1. QueueInv /\ TaskOk(t)
    BY <1>8 DEF IInv
  <2>2. /\ \A i \in 1..Len(queue') : queue'[i] # t
        /\ \A i, j \in 1..Len(queue') : queue'[i] = queue'[j] => i = j
    BY <1>4, <2>1 DEF QueueInv
  <2>3. ASSUME NEW i \in 1..Len(queue')
        PROVE  /\ status'[queue'[i]] \in {"queued", "deleted"}
               /\ \A m \in Gens : loop'[queue'[i]][m].pc = "free"
    <3>1. PICK j \in 1..Len(queue) : queue'[i] = queue[j]
      BY <1>4
    <3>2. queue[j] \in Tasks /\ queue[j] # t
      BY <1>2, <2>2, <3>1
    <3>. QED
      BY <1>3, <2>1, <3>1, <3>2 DEF QueueInv, Same, Idle
  <2>4. QueueInv'
    BY <2>2, <2>3 DEF QueueInv, Idle
  <2>5. \A m \in Gens : ~Live(t, m)'
    BY <1>1, <1>3, <2>1 DEF Live, TaskOk, LiveOk
  <2>6. TaskOk(t)'
    BY <1>3, <2>1, <2>5 DEF TaskOk, LiveOk, StepOk, RateOk, Ended
  <2>. QED
    BY <2>4, <2>6
<1>9. Owned(t)' /\ \A u \in Tasks : u # t /\ InQueue(u) => InQueue(u)'
  <2>1. Owned(t)'
    BY <1>3 DEF Owned
  <2>2. \A u \in Tasks : u # t /\ InQueue(u) => InQueue(u)'
    BY <1>4 DEF InQueue
  <2>. QED
    BY <2>1, <2>2
<1>. QED
  BY <1>3, <1>5, <1>6, <1>7, <1>8, <1>9, OneTask

\* pauseTask stops the loop or takes the task out of the queue.
LEMMA PauseTaskStep ==
  ASSUME IInv, NEW t \in Tasks, PauseTask(t)
  PROVE  IInv'
  BY HaltStep DEF PauseTask, Ended

\* stopTask cancels the task and stops its loop.
LEMMA StopTaskStep ==
  ASSUME IInv, NEW t \in Tasks, StopTask(t)
  PROVE  IInv'
  BY HaltStep DEF StopTask

\* Deleting a task removes its row only; a loop that drives it notices by itself.
LEMMA DeleteTaskStep ==
  ASSUME IInv, NEW t \in Tasks, DeleteTask(t)
  PROVE  IInv'
<1>0. /\ TypeOK /\ agent # "down" /\ status[t] # "none"
      /\ status' = [status EXCEPT ![t] = "deleted"]
      /\ snapshot' = [snapshot EXCEPT ![t] = 0]
      /\ UNCHANGED <<step, agent, queue, running, loop, calls, clis, stops, crashes>>
  BY DEF IInv, DeleteTask
<1>1. TypeOK'
  <2>1. status' \in [Tasks -> Statuses]
    BY <1>0 DEF TypeOK, Statuses
  <2>2. snapshot' \in [Tasks -> 0..ToolLimit]
    BY <1>0, AutonomousAssumption DEF TypeOK
  <2>. QED
    BY <1>0, <2>1, <2>2 DEF TypeOK
<1>2. status'[t] = "deleted" /\ \A u \in Tasks : u # t => Same(u)
  BY <1>0 DEF TypeOK, Same
<1>3. RegOk(t)' /\ QueueIsDriven'
  BY <1>0, <1>2 DEF IInv, RegOk, Idle, QueueIsDriven
<1>4. ASSUME clis = 0
      PROVE  QueueInv' /\ TaskOk(t)'
  <2>1. QueueInv /\ TaskOk(t)
    BY <1>4 DEF IInv
  <2>2. TaskOk(t)'
    BY <1>0, <1>2, <2>1 DEF TaskOk, LiveOk, StepOk, RateOk, Live
  <2>3. \A u \in Tasks : status[u] \in {"queued", "deleted"} => status'[u] \in {"queued", "deleted"}
    BY <1>2 DEF Same
  <2>4. \A i \in 1..Len(queue) : queue[i] \in Tasks
    BY <1>0 DEF TypeOK
  <2>5. QueueInv'
    BY <1>0, <2>1, <2>3, <2>4 DEF QueueInv, Idle
  <2>. QED
    BY <2>2, <2>5
<1>5. Owned(t)' /\ \A u \in Tasks : InQueue(u) => InQueue(u)'
  BY <1>0, <1>2 DEF Owned, InQueue
<1>. QED
  BY <1>0, <1>1, <1>2, <1>3, <1>4, <1>5, OneTask

\* A task that was paused for too long is cancelled.
LEMMA CancelStaleStep ==
  ASSUME IInv, NEW t \in Tasks, CancelStale(t)
  PROVE  IInv'
<1>0. /\ TypeOK /\ agent # "down" /\ status[t] = "paused"
      /\ status' = [status EXCEPT ![t] = "cancelled"]
      /\ UNCHANGED <<step, snapshot, agent, queue, running, loop, calls, clis, stops, crashes>>
  BY DEF IInv, CancelStale
<1>1. TypeOK'
  <2>1. status' \in [Tasks -> Statuses]
    BY <1>0 DEF TypeOK, Statuses, Terminal, Ended
  <2>. QED
    BY <1>0, <2>1 DEF TypeOK
<1>2. status'[t] = "cancelled" /\ \A u \in Tasks : u # t => Same(u)
  BY <1>0 DEF TypeOK, Same
<1>3. RegOk(t)' /\ QueueIsDriven'
  BY <1>0, <1>2 DEF IInv, RegOk, Idle, QueueIsDriven
<1>4. ASSUME clis = 0
      PROVE  QueueInv' /\ TaskOk(t)'
  <2>1. QueueInv /\ TaskOk(t)
    BY <1>4 DEF IInv
  <2>2. TaskOk(t)'
    BY <1>0, <1>2, <2>1 DEF TaskOk, LiveOk, StepOk, RateOk, Live, Ended
  <2>3. ~InQueue(t)
    BY <1>0, <2>1 DEF QueueInv, InQueue
  <2>4. QueueInv'
    BY <1>0, <1>2, <1>4, <2>3, QueueKept
  <2>. QED
    BY <2>2, <2>4
<1>5. Owned(t)' /\ \A u \in Tasks : InQueue(u) => InQueue(u)'
  BY <1>0, <1>2 DEF Owned, InQueue
<1>. QED
  BY <1>0, <1>1, <1>2, <1>3, <1>4, <1>5, OneTask

\* The command line: from here on only what does not depend on the status is kept.
LEMMA CliStep ==
  ASSUME IInv, NEW t \in Tasks, NEW s \in Statuses \ {"none"}, CliSets(t, s)
  PROVE  IInv'
<1>1. TypeOK'
  <2>1. clis' \in 0..MaxCli
    BY AutonomousAssumption DEF CliSets, IInv, TypeOK
  <2>2. status' \in [Tasks -> Statuses]
    BY DEF CliSets, IInv, TypeOK
  <2>. QED
    BY <2>1, <2>2 DEF CliSets, IInv, TypeOK
<1>2. clis' # 0
  BY DEF CliSets, IInv, TypeOK
<1>3. \A u \in Tasks : RegOk(u)'
  <2>1. \A u \in Tasks : status'[u] = "none" => status[u] = "none"
    BY DEF CliSets, IInv, TypeOK
  <2>. QED
    BY <2>1 DEF CliSets, IInv, RegOk, Idle
<1>4. QueueIsDriven' /\ (agent' = "stopped" => stops' > 0)
  BY DEF CliSets, IInv, QueueIsDriven
<1>. QED
  BY <1>1, <1>2, <1>3, <1>4 DEF IInv

\* Stopping the agent aborts every loop and empties the queue.
LEMMA StopAgentStep ==
  ASSUME IInv, StopAgent
  PROVE  IInv'
<1>0. TypeOK
  BY DEF IInv
<1>1. /\ agent' = "stopped" /\ stops' = stops + 1 /\ stops < MaxStops
      /\ loop' = [t \in Tasks |-> AbortRegistered(t)]
      /\ running' = [t \in Tasks |-> 0] /\ queue' = <<>>
      /\ UNCHANGED <<status, step, snapshot, calls, clis, crashes>>
  BY DEF StopAgent, rowVars
<1>2. ASSUME NEW t \in Tasks
      PROVE  /\ loop'[t] \in [Gens -> LoopStates] /\ running'[t] = 0
             /\ \A m \in Gens : /\ loop'[t][m].pc = "free" <=> loop[t][m].pc = "free"
                                /\ m # running[t] => loop'[t][m] = loop[t][m]
                                /\ m = running[t] => loop'[t][m].stopped
  BY <1>0, <1>1, AbortKeepsOthers
<1>3. TypeOK' /\ stops' > 0
  <2>1. stops' \in 0..MaxStops /\ stops' > 0
    BY <1>0, <1>1, AutonomousAssumption DEF TypeOK
  <2>2. loop' \in [Tasks -> [Gens -> LoopStates]] /\ running' \in [Tasks -> Gens \cup {0}]
    BY <1>1, <1>2
  <2>3. queue' \in Seq(Tasks)
    BY <1>1
  <2>. QED
    BY <1>0, <1>1, <2>1, <2>2, <2>3 DEF TypeOK
<1>4. \A t \in Tasks : RegOk(t)'
  BY <1>1, <1>2 DEF IInv, RegOk, Idle
<1>5. QueueIsDriven' /\ QueueInv'
  <2>1. \A i : i \notin 1..Len(queue')
    BY <1>1
  <2>. QED
    BY <1>1, <2>1 DEF QueueIsDriven, QueueInv
<1>6. ASSUME clis = 0, NEW t \in Tasks
      PROVE  TaskOk(t)'
  <2>1. TaskOk(t)
    BY <1>6 DEF IInv
  <2>2. \A m \in Gens : ~Live(t, m)'
    BY <1>2, <2>1 DEF Live, TaskOk, LiveOk
  <2>. QED
    BY <1>1, <2>1, <2>2 DEF TaskOk, LiveOk, StepOk, RateOk
<1>. QED
  BY <1>1, <1>3, <1>4, <1>5, <1>6 DEF IInv

\* Starting the agent again drives no task by itself.
LEMMA StartAgentStep ==
  ASSUME IInv, StartAgent
  PROVE  IInv'
<1>1. /\ agent = "stopped" /\ agent' = "up" /\ stops > 0
      /\ UNCHANGED <<status, step, snapshot, queue, running, loop, calls, clis, stops, crashes>>
  BY DEF StartAgent, rowVars, IInv
<1>2. TypeOK' /\ QueueIsDriven'
  BY <1>1 DEF IInv, TypeOK, QueueIsDriven
<1>3. \A t \in Tasks : RegOk(t)'
  BY <1>1 DEF IInv, RegOk, Idle
<1>4. ASSUME clis = 0
      PROVE  QueueInv' /\ \A t \in Tasks : TaskOk(t)'
  BY <1>1, <1>4 DEF IInv, QueueInv, Idle, TaskOk, LiveOk, StepOk, RateOk, Live
<1>5. ~(stops' = 0)
  BY <1>1 DEF IInv, TypeOK
<1>. QED
  BY <1>1, <1>2, <1>3, <1>4, <1>5 DEF IInv

\* A crash loses every loop and the queue; what is stored still satisfies the invariant.
LEMMA CrashStep ==
  ASSUME IInv, Crash
  PROVE  IInv'
<1>0. TypeOK /\ Free \in LoopStates /\ Free.pc = "free"
  BY AutonomousAssumption DEF IInv, Free, LoopStates
<1>1. /\ agent' = "down" /\ crashes' = crashes + 1 /\ crashes < MaxCrashes
      /\ loop' = [t \in Tasks |-> [k \in Gens |-> Free]]
      /\ running' = [t \in Tasks |-> 0] /\ queue' = <<>>
      /\ UNCHANGED <<status, step, snapshot, calls, clis, stops>>
  BY DEF Crash, rowVars
<1>2. \A t \in Tasks, m \in Gens : loop'[t][m].pc = "free"
  BY <1>0, <1>1
<1>3. TypeOK'
  <2>1. crashes' \in 0..MaxCrashes
    BY <1>0, <1>1, AutonomousAssumption DEF TypeOK
  <2>2. loop' \in [Tasks -> [Gens -> LoopStates]] /\ running' \in [Tasks -> Gens \cup {0}]
    BY <1>0, <1>1
  <2>3. queue' \in Seq(Tasks)
    BY <1>1
  <2>. QED
    BY <1>0, <1>1, <2>1, <2>2, <2>3 DEF TypeOK
<1>4. \A t \in Tasks : RegOk(t)'
  BY <1>1, <1>2 DEF RegOk, Idle
<1>5. QueueIsDriven' /\ QueueInv'
  <2>1. \A i : i \notin 1..Len(queue')
    BY <1>1
  <2>. QED
    BY <1>1, <2>1 DEF QueueIsDriven, QueueInv
<1>6. ASSUME clis = 0, NEW t \in Tasks
      PROVE  TaskOk(t)'
  <2>1. TaskOk(t)
    BY <1>6 DEF IInv
  <2>2. \A m \in Gens : ~Live(t, m)'
    BY <1>2 DEF Live, Awaits
  <2>. QED
    BY <1>1, <2>1, <2>2 DEF TaskOk, LiveOk, StepOk, RateOk
<1>. QED
  BY <1>1, <1>3, <1>4, <1>5, <1>6 DEF IInv
-----------------------------------------------------------------------------
\* The finally of runLoop, for the task whose loop has returned.
LEMMA FreedKeeps ==
  ASSUME IInv, NEW t \in Tasks, NEW k \in Gens, loop[t][k].pc = "done",
         loop'[t] = [loop[t] EXCEPT ![k] = Free],
         running'[t] = IF running[t] = k THEN 0 ELSE running[t],
         status'[t] = status[t], step'[t] = step[t], snapshot'[t] = snapshot[t],
         calls'[t] = calls[t], agent' = agent
  PROVE  /\ RegOk(t)'
         /\ clis = 0 => TaskOk(t)'
         /\ Owned(t) /\ (InQueue(t) => InQueue(t)') => Owned(t)'
<1>1. /\ loop[t] \in [Gens -> LoopStates] /\ Free.pc = "free"
      /\ running[t] \in Gens \cup {0} /\ 0 \notin Gens
  BY AutonomousAssumption DEF IInv, TypeOK, Free, Gens
<1>2. /\ loop'[t][k].pc = "free"
      /\ \A m \in Gens : m # k => loop'[t][m] = loop[t][m]
  BY <1>1
<1>3. \A m \in Gens : Live(t, m)' <=> Live(t, m)
  BY <1>2 DEF Live, Awaits
<1>4. \A m \in Gens : Live(t, m) => m # k
  BY DEF Live, Awaits
<1>5. RegOk(t)'
  <2>1. RegOk(t)
    BY DEF IInv
  <2>2. Idle(t) => Idle(t)'
    BY <1>2 DEF Idle
  <2>3. running'[t] # 0 => loop'[t][running'[t]].pc # "free"
    BY <1>1, <1>2, <2>1 DEF RegOk
  <2>. QED
    BY <2>1, <2>2, <2>3 DEF RegOk
<1>6. ASSUME clis = 0
      PROVE  TaskOk(t)'
  <2>1. TaskOk(t)
    BY <1>6 DEF IInv
  <2>2. LiveOk(t)'
    BY <1>3, <1>4, <2>1 DEF TaskOk, LiveOk
  <2>3. StepOk(t)'
    BY <1>2, <1>3, <1>4, <2>1 DEF TaskOk, StepOk
  <2>4. RateOk(t)'
    BY <1>2, <1>3, <1>4, <2>1 DEF TaskOk, RateOk
  <2>. QED
    BY <2>2, <2>3, <2>4 DEF TaskOk
<1>7. Owned(t) /\ (InQueue(t) => InQueue(t)') => Owned(t)'
  BY <1>3 DEF Owned
<1>. QED
  BY <1>5, <1>6, <1>7

\* A loop that is done gives its place to the first task in the queue.
LEMMA FinishStep ==
  ASSUME IInv, NEW t \in Tasks, NEW k \in Gens, Finish(t, k)
  PROVE  IInv'
<1> DEFINE freed == [loop EXCEPT ![t][k] = Free]
           left  == [running EXCEPT ![t] = IF @ = k THEN 0 ELSE @]
           S     == IF queue = <<>> THEN {} ELSE {Head(queue)}
<1>0. /\ TypeOK /\ loop[t][k].pc = "done" /\ agent # "down"
      /\ Free \in LoopStates
  BY AutonomousAssumption DEF IInv, RegOk, Idle, Finish, Free, LoopStates
<1>1. /\ \A u \in S : FreeGens(u) # {}
      /\ loop' = WithLoops(S, freed) /\ running' = Registered(S, left)
      /\ RunRows(S, status)
      /\ queue' = IF S = {} THEN queue ELSE Tail(queue)
      /\ UNCHANGED <<step, agent, calls, clis, stops, crashes>>
  BY DEF Finish
<1>2. /\ freed[t] = [loop[t] EXCEPT ![k] = Free]
      /\ left[t] = IF running[t] = k THEN 0 ELSE running[t]
      /\ \A u \in Tasks : u # t => freed[u] = loop[u] /\ left[u] = running[u]
      /\ freed \in [Tasks -> [Gens -> LoopStates]] /\ left \in [Tasks -> Gens \cup {0}]
  BY <1>0 DEF TypeOK
<1> HIDE DEF freed, left
<1>3. CASE queue = <<>>
  <2>1. S = {}
    BY <1>3
  <2>2. /\ \A u \in Tasks : /\ loop'[u] = freed[u] /\ running'[u] = left[u]
                            /\ status'[u] = status[u] /\ snapshot'[u] = snapshot[u]
      /\ queue' = <<>>
    BY <1>1, <1>3, <2>1 DEF WithLoops, Registered, RunRows
  <2>3. \A u \in Tasks : u # t => Same(u)
    BY <1>1, <1>2, <2>2 DEF Same
  <2>4. TypeOK'
    <3>1. loop' \in [Tasks -> [Gens -> LoopStates]] /\ running' \in [Tasks -> Gens \cup {0}]
      BY <1>1, <1>2, <2>1 DEF WithLoops, Registered
    <3>2. status' \in [Tasks -> Statuses] /\ snapshot' \in [Tasks -> 0..ToolLimit]
      BY <1>0, <1>1, <2>1 DEF RunRows, TypeOK
    <3>. QED
      BY <1>0, <1>1, <1>3, <2>2, <3>1, <3>2 DEF TypeOK
  <2>5. /\ RegOk(t)' /\ (clis = 0 => TaskOk(t)')
        /\ Owned(t) /\ (InQueue(t) => InQueue(t)') => Owned(t)'
    <3>1. /\ loop'[t] = [loop[t] EXCEPT ![k] = Free]
          /\ running'[t] = IF running[t] = k THEN 0 ELSE running[t]
          /\ status'[t] = status[t] /\ snapshot'[t] = snapshot[t]
      BY <1>2, <2>2
    <3>. QED
      BY <1>0, <1>1, <3>1, FreedKeeps
  <2>6. QueueIsDriven' /\ QueueInv' /\ \A u \in Tasks : InQueue(u) => InQueue(u)'
    <3>1. \A i : i \notin 1..Len(queue')
      BY <2>2
    <3>. QED
      BY <1>3, <2>2, <3>1 DEF QueueIsDriven, QueueInv, InQueue
  <2>7. clis = 0 /\ stops = 0 /\ agent = "up" => Owned(t)
    BY DEF IInv
  <2>. QED
    BY <1>1, <2>3, <2>4, <2>5, <2>6, <2>7, OneTask
<1>4. CASE queue # <<>>
  <2>1. PICK u \in Tasks : u = Head(queue) /\ u = queue[1]
    BY <1>0, <1>4 DEF TypeOK
  <2>2. S = {u} /\ FreeGens(u) # {}
    BY <1>1, <1>4, <2>1
  <2> HIDE DEF S
  <2>3. /\ loop'[u] = [freed[u] EXCEPT ![NewGen(u)] = Fresh(u)] /\ running'[u] = NewGen(u)
        /\ status'[u] = IF status[u] = "deleted" THEN "deleted"
                        ELSE IF Doomed(u) THEN "failed" ELSE "running"
        /\ snapshot'[u] = IF Doomed(u) THEN 0 ELSE snapshot[u]
    BY <1>1, <2>2 DEF WithLoops, Registered, RunRows
  <2>4. \A x \in Tasks : x # u => /\ loop'[x] = freed[x] /\ running'[x] = left[x]
                                  /\ status'[x] = status[x] /\ snapshot'[x] = snapshot[x]
    BY <1>1, <2>2 DEF WithLoops, Registered, RunRows
  <2>5. \A x \in Tasks : x # u /\ x # t => Same(x)
    BY <1>1, <1>2, <2>4 DEF Same
  <2>6. clis = 0 => /\ u # t /\ status[u] \in {"queued", "deleted"} /\ Idle(u)
                    /\ ~InQueue(t)
    <3>1. 1 \in 1..Len(queue)
      BY <1>0, <1>4 DEF TypeOK
    <3>2. clis = 0 => ~InQueue(t)
      BY <1>0, BusyNotQueued
    <3>. QED
      BY <2>1, <3>1, <3>2 DEF IInv, QueueInv, InQueue
  <2>7. /\ loop'[u] \in [Gens -> LoopStates] /\ running'[u] \in Gens
        /\ status'[u] \in Statuses /\ snapshot'[u] \in 0..ToolLimit
        /\ loop'[u][running'[u]].pc # "free"
        /\ RegOk(u)'
        /\ clis = 0 => TaskOk(u)' /\ Owned(u)'
    <3>1. freed[u] \in [Gens -> LoopStates]
      BY <1>2
    <3>2. clis = 0 => /\ status[u] \notin Ended
                      /\ \A m \in Gens : ~(freed[u][m].pc \in Awaits /\ ~freed[u][m].stopped)
      BY <1>2, <2>6 DEF Idle, Awaits, Ended
    <3>. QED
      BY <1>0, <1>1, <2>2, <2>3, <3>1, <3>2, RunTask
  <2>8. t # u => /\ RegOk(t)' /\ (clis = 0 => TaskOk(t)')
                 /\ Owned(t) /\ (InQueue(t) => InQueue(t)') => Owned(t)'
    BY <1>0, <1>1, <1>2, <2>4, FreedKeeps
  <2>9. TypeOK'
    <3>1. loop' \in [Tasks -> [Gens -> LoopStates]] /\ running' \in [Tasks -> Gens \cup {0}]
      <4>1. \A x \in Tasks : loop'[x] \in [Gens -> LoopStates] /\ running'[x] \in Gens \cup {0}
        BY <1>2, <2>4, <2>7
      <4>. QED
        BY <1>1, <4>1 DEF WithLoops, Registered
    <3>2. status' \in [Tasks -> Statuses] /\ snapshot' \in [Tasks -> 0..ToolLimit]
      <4>1. \A x \in Tasks : status'[x] \in Statuses /\ snapshot'[x] \in 0..ToolLimit
        BY <1>0, <2>4, <2>7 DEF TypeOK
      <4>. QED
        BY <1>1, <4>1 DEF RunRows
    <3>3. queue' \in Seq(Tasks)
      BY <1>0, <1>1, <1>4, <2>2 DEF TypeOK
    <3>. QED
      BY <1>0, <1>1, <3>1, <3>2, <3>3 DEF TypeOK
  <2>10. QueueIsDriven'
    BY <2>7 DEF QueueIsDriven
  <2>11. \A x \in Tasks : RegOk(x)'
    BY <1>0, <1>1, <2>5, <2>7, <2>8, SameKeeps DEF IInv
  <2>12. /\ Len(queue') = Len(queue) - 1 /\ Len(queue) \in Nat /\ Len(queue) >= 1
         /\ \A i \in 1..Len(queue') : queue'[i] = queue[i + 1]
    BY <1>0, <1>1, <1>4, <2>2, SMTT(30) DEF TypeOK
  <2>13. ASSUME clis = 0
         PROVE  QueueInv' /\ \A x \in Tasks : TaskOk(x)'
    <3>1. QueueInv /\ \A x \in Tasks : TaskOk(x)
      BY <2>13 DEF IInv
    <3>2. \A x \in Tasks : TaskOk(x)'
      BY <2>5, <2>7, <2>8, <2>13, <3>1, SameKeeps
    <3>3. \A i \in 1..Len(queue') : i + 1 \in 1..Len(queue) /\ i + 1 # 1 /\ 1 \in 1..Len(queue)
      BY <2>12
    <3>4. ASSUME NEW i \in 1..Len(queue')
          PROVE  /\ status'[queue'[i]] \in {"queued", "deleted"}
                 /\ \A m \in Gens : loop'[queue'[i]][m].pc = "free"
      <4>1. queue'[i] = queue[i + 1] /\ queue[i + 1] \in Tasks /\ queue[i + 1] # queue[1]
        <5>1. i + 1 \in 1..Len(queue) /\ 1 \in 1..Len(queue) /\ i + 1 # 1
          BY <3>3
        <5>2. queue'[i] = queue[i + 1]
          BY <2>12
        <5>3. queue[i + 1] \in Tasks
          BY <1>0, <5>1 DEF TypeOK
        <5>. QED
          BY <3>1, <5>1, <5>2, <5>3 DEF QueueInv
      <4>2. queue[i + 1] # t
        BY <2>6, <2>13, <3>3 DEF InQueue
      <4>3. Same(queue[i + 1])
        BY <2>1, <2>5, <4>1, <4>2
      <4>. QED
        BY <3>1, <3>3, <4>1, <4>3 DEF QueueInv, Same, Idle
    <3>5. \A i, j \in 1..Len(queue') : queue'[i] = queue'[j] => i = j
      <4>1. ASSUME NEW i \in 1..Len(queue'), NEW j \in 1..Len(queue'), queue'[i] = queue'[j]
            PROVE  i = j
        <5>1. i + 1 = j + 1
          BY <2>12, <3>1, <3>3, <4>1 DEF QueueInv
        <5>. QED
          BY <2>12, <5>1
      <4>. QED
        BY <4>1
    <3>6. QueueInv'
      BY <3>4, <3>5 DEF QueueInv, Idle
    <3>. QED
      BY <3>2, <3>6
  <2>14. ASSUME clis = 0, stops = 0, agent = "up"
         PROVE  \A x \in Tasks : Owned(x)'
    <3>1. ASSUME NEW x \in Tasks, x # u, InQueue(x)
          PROVE  InQueue(x)'
      <4>1. PICK i \in 1..Len(queue) : queue[i] = x
        BY <3>1 DEF InQueue
      <4>2. i # 1
        BY <2>1, <3>1, <4>1
      <4>3. i - 1 \in 1..Len(queue') /\ queue'[i - 1] = x
        BY <2>12, <4>1, <4>2
      <4>. QED
        BY <4>3 DEF InQueue
    <3>2. \A x \in Tasks : Owned(x)
      BY <2>14 DEF IInv
    <3>. QED
      BY <2>5, <2>7, <2>8, <2>14, <3>1, <3>2, SameKeeps
  <2>. QED
    BY <1>1, <2>9, <2>10, <2>11, <2>13, <2>14 DEF IInv
<1>. QED
  BY <1>3, <1>4
-----------------------------------------------------------------------------
\* What restoreInterruptedTasks queues: each waiting task, once.
LEMMA OldestFirstQueue ==
  ASSUME NEW W, W \subseteq Tasks, NEW q \in OldestFirst(W)
  PROVE  /\ q \in Seq(Tasks)
         /\ \A i \in 1..Len(q) : q[i] \in W
         /\ \A i, j \in 1..Len(q) : q[i] = q[j] => i = j
         /\ \A t \in W : \E i \in 1..Len(q) : q[i] = t
         /\ q # <<>> => W # {}
<1>1. Cardinality(W) \in Nat
  <2>1. IsFiniteSet(Tasks)
    BY AutonomousAssumption, FS_Interval DEF Tasks
  <2>2. IsFiniteSet(W)
    BY <2>1, FS_Subset
  <2>. QED
    BY <2>2, FS_CardinalityType
<1> DEFINE n == Cardinality(W)
<1>2. /\ q \in [1..n -> W]
      /\ \A i, j \in 1..n : i < j => q[i] < q[j]
      /\ \A t \in W : \E i \in 1..n : q[i] = t
  BY DEF OldestFirst
<1>3. n \in Nat
  BY <1>1
<1> HIDE DEF n
<1>4. q \in Seq(W) /\ Len(q) = n
  BY <1>2, <1>3
<1>5. \A i \in 1..n : q[i] \in W /\ q[i] \in Int
  <2>1. \A i \in 1..n : q[i] \in W
    BY <1>2
  <2>2. \A t \in W : t \in Int
    BY AutonomousAssumption DEF Tasks
  <2>. QED
    BY <2>1, <2>2
<1>6. ASSUME NEW i \in 1..n, NEW j \in 1..n, q[i] = q[j]
      PROVE  i = j
  <2>1. i \in Int /\ j \in Int /\ ~(q[i] < q[j]) /\ ~(q[j] < q[i])
    BY <1>3, <1>5, <1>6
  <2>2. ~(i < j) /\ ~(j < i)
    BY <1>2, <2>1
  <2>. QED
    BY <2>1, <2>2
<1>7. q # <<>> => W # {}
  BY <1>4
<1>. QED
  BY <1>2, <1>4, <1>5, <1>6, <1>7

\* Restoring after a crash starts the oldest tasks and queues the others.
LEMMA RestoreStep ==
  ASSUME IInv, Restore
  PROVE  IInv'
<1> DEFINE Started == {t \in Restorable : Cardinality({u \in Restorable : u < t}) < MaxParallel}
           Waiting == Restorable \ Started
           old     == [t \in Tasks |-> IF t \in Waiting THEN "queued" ELSE status[t]]
<1>0. TypeOK /\ agent = "down" /\ agent' = "up" /\ \A t \in Tasks : Idle(t)
  BY DEF IInv, RegOk, Restore
<1>1. PICK S, W, q :
        /\ S = Started /\ W = Waiting /\ q = queue'
        /\ q \in OldestFirst(W)
        /\ running' = Registered(S, running) /\ loop' = WithLoops(S, loop)
        /\ RunRows(S, [t \in Tasks |-> IF t \in W THEN "queued" ELSE status[t]])
        /\ UNCHANGED <<step, calls, clis, stops, crashes>>
  BY DEF Restore
<1>2. /\ S \subseteq Restorable /\ W = Restorable \ S /\ Restorable \subseteq Tasks
      /\ W # {} => S # {}
  <2>1. S \subseteq Restorable /\ W = Restorable \ S /\ Restorable \subseteq Tasks
    BY <1>1 DEF Restorable
  <2>2. ASSUME Restorable # {}
        PROVE  S # {}
    <3>1. Restorable \subseteq Nat
      BY <2>1, AutonomousAssumption DEF Tasks
    <3>2. PICK m \in Restorable : \A n \in Restorable : m <= n
      BY <2>2, <3>1, NatMin
    <3>3. {u \in Restorable : u < m} = {}
      <4>1. \A u \in Restorable : u \in Nat /\ m \in Nat /\ m <= u
        BY <3>1, <3>2
      <4>2. \A u \in Restorable : ~(u < m)
        BY <4>1
      <4>. QED
        BY <4>2
    <3>4. Cardinality({u \in Restorable : u < m}) < MaxParallel
      BY <3>3, FS_EmptySet, AutonomousAssumption
    <3>5. m \in S
      BY <1>1, <3>4
    <3>. QED
      BY <3>5
  <2>. QED
    BY <2>1, <2>2
<1> HIDE DEF Started, Waiting, old
<1>3. /\ q \in Seq(Tasks) /\ \A i \in 1..Len(q) : q[i] \in W
      /\ \A i, j \in 1..Len(q) : q[i] = q[j] => i = j
      /\ \A t \in W : \E i \in 1..Len(q) : q[i] = t
      /\ q # <<>> => W # {}
  <2>1. W \subseteq Tasks /\ q \in OldestFirst(W)
    BY <1>1, <1>2
  <2>. QED
    BY <2>1, OldestFirstQueue, Zenon
<1>4. ASSUME NEW t \in Tasks, t \in S
      PROVE  /\ loop'[t] \in [Gens -> LoopStates] /\ running'[t] \in Gens
             /\ status'[t] \in Statuses /\ snapshot'[t] \in 0..ToolLimit
             /\ loop'[t][running'[t]].pc # "free"
             /\ RegOk(t)'
             /\ clis = 0 => TaskOk(t)' /\ Owned(t)'
  <2>1. FreeGens(t) # {}
    <3>1. 1 \in Gens
      BY AutonomousAssumption DEF Gens
    <3>. QED
      BY <1>0, <3>1 DEF FreeGens, Idle
  <2>2. /\ loop'[t] = [loop[t] EXCEPT ![NewGen(t)] = Fresh(t)] /\ running'[t] = NewGen(t)
        /\ status'[t] = IF status[t] = "deleted" THEN "deleted"
                        ELSE IF Doomed(t) THEN "failed" ELSE "running"
        /\ snapshot'[t] = IF Doomed(t) THEN 0 ELSE snapshot[t]
        /\ step'[t] = step[t] /\ calls'[t] = calls[t]
    BY <1>1, <1>4 DEF RunRows, Registered, WithLoops
  <2>3. /\ loop[t] \in [Gens -> LoopStates] /\ status[t] \notin Ended
        /\ \A m \in Gens : ~(loop[t][m].pc \in Awaits /\ ~loop[t][m].stopped)
    BY <1>0, <1>2, <1>4 DEF TypeOK, Restorable, Ended, Idle, Awaits
  <2>. QED
    BY <1>0, <2>1, <2>2, <2>3, RunTask
<1>5. ASSUME NEW t \in Tasks, t \notin S
      PROVE  /\ loop'[t] = loop[t] /\ running'[t] = running[t] /\ snapshot'[t] = snapshot[t]
             /\ status'[t] = IF t \in W THEN "queued" ELSE status[t]
             /\ step'[t] = step[t] /\ calls'[t] = calls[t]
  BY <1>1, <1>5 DEF RunRows, Registered, WithLoops
<1>6. TypeOK'
  <2>1. loop' \in [Tasks -> [Gens -> LoopStates]] /\ running' \in [Tasks -> Gens \cup {0}]
    <3>1. \A t \in Tasks : loop'[t] \in [Gens -> LoopStates] /\ running'[t] \in Gens \cup {0}
      BY <1>0, <1>4, <1>5 DEF TypeOK
    <3>. QED
      BY <1>1, <3>1 DEF WithLoops, Registered
  <2>2. status' \in [Tasks -> Statuses] /\ snapshot' \in [Tasks -> 0..ToolLimit]
    <3>1. \A t \in Tasks : status'[t] \in Statuses /\ snapshot'[t] \in 0..ToolLimit
      BY <1>0, <1>4, <1>5 DEF TypeOK, Statuses
    <3>. QED
      BY <1>1, <3>1 DEF RunRows
  <2>. QED
    BY <1>0, <1>1, <1>3, <2>1, <2>2 DEF TypeOK
<1>7. ASSUME NEW t \in Tasks, t \notin S
      PROVE  RegOk(t)' /\ Idle(t)'
  <2>1. RegOk(t) /\ Idle(t) /\ (status'[t] = "none" => status[t] = "none")
    BY <1>0, <1>5, <1>7 DEF IInv
  <2>. QED
    BY <1>5, <1>7, <2>1 DEF RegOk, Idle
<1>8. QueueIsDriven'
  <2>1. SUFFICES ASSUME queue' # <<>>
                 PROVE  \E t \in Tasks, m \in Gens : loop'[t][m].pc # "free"
    BY DEF QueueIsDriven
  <2>2. PICK t \in Tasks : t \in S
    BY <1>1, <1>2, <1>3, <2>1
  <2>. QED
    BY <1>4, <2>2
<1>9. ASSUME clis = 0
      PROVE  QueueInv' /\ \A t \in Tasks : TaskOk(t)' /\ Owned(t)'
  <2>1. \A i \in 1..Len(queue') : /\ status'[queue'[i]] = "queued"
                                  /\ \A m \in Gens : loop'[queue'[i]][m].pc = "free"
    <3>1. \A t \in W : /\ t \in Tasks /\ t \notin S /\ status'[t] = "queued"
                       /\ \A m \in Gens : loop'[t][m].pc = "free"
      BY <1>2, <1>5, <1>7 DEF Idle
    <3>. QED
      BY <1>1, <1>3, <3>1
  <2>2. QueueInv'
    BY <1>1, <1>3, <2>1 DEF QueueInv, Idle
  <2>3. ASSUME NEW t \in Tasks, t \notin S
        PROVE  TaskOk(t)' /\ Owned(t)'
    <3>1. TaskOk(t) /\ \A m \in Gens : ~Live(t, m)'
      BY <1>7, <1>9, <2>3 DEF IInv, Live, Idle, Awaits
    <3>2. t \in W => status[t] \notin Ended \cup {"deleted"}
      BY <1>2 DEF Restorable, Ended
    <3>3. TaskOk(t)'
      BY <1>5, <2>3, <3>1, <3>2 DEF TaskOk, LiveOk, StepOk, RateOk
    <3>4. t \notin W => status'[t] \notin {"running", "queued"}
      BY <1>2, <1>5, <2>3 DEF Restorable
    <3>5. t \in W => status'[t] = "queued" /\ InQueue(t)'
      BY <1>1, <1>3, <1>5, <2>3 DEF InQueue
    <3>. QED
      BY <3>3, <3>4, <3>5 DEF Owned
  <2>. QED
    BY <1>4, <1>9, <2>2, <2>3
<1>10. \A t \in Tasks : RegOk(t)'
  BY <1>4, <1>7
<1>. QED
  BY <1>0, <1>1, <1>6, <1>8, <1>9, <1>10 DEF IInv
-----------------------------------------------------------------------------
\* The invariant holds at the start.
LEMMA InitIInv ==
  ASSUME Init
  PROVE  IInv
<1> USE AutonomousAssumption
<1>0. Free \in LoopStates /\ Free.pc = "free"
  BY DEF Free, LoopStates
<1>1. TypeOK
  <2>1. loop \in [Tasks -> [Gens -> LoopStates]]
    BY <1>0 DEF Init
  <2>2. status \in [Tasks -> Statuses] /\ snapshot \in [Tasks -> 0..ToolLimit]
    BY DEF Init, Statuses
  <2>3. queue \in Seq(Tasks)
    BY DEF Init
  <2>. QED
    BY <2>1, <2>2, <2>3 DEF Init, TypeOK
<1>2. \A t \in Tasks : Idle(t) /\ \A m \in Gens : ~Live(t, m)
  BY <1>0 DEF Init, Idle, Live, Awaits
<1>3. \A t \in Tasks : status[t] = "none" /\ running[t] = 0 /\ step[t] = 0 /\ calls[t] = 0
                       /\ snapshot[t] = 0
  BY DEF Init
<1>4. \A t \in Tasks : RegOk(t) /\ TaskOk(t) /\ Owned(t)
  BY <1>2, <1>3 DEF RegOk, TaskOk, LiveOk, StepOk, RateOk, Owned
<1>5. QueueIsDriven /\ QueueInv
  <2>1. queue = <<>> /\ \A i : i \notin 1..Len(queue)
    BY DEF Init
  <2>. QED
    BY <2>1 DEF QueueIsDriven, QueueInv
<1>. QED
  BY <1>1, <1>4, <1>5 DEF IInv, Init

\* A step that changes nothing keeps the invariant.
LEMMA StutterIInv ==
  ASSUME IInv, UNCHANGED vars
  PROVE  IInv'
<1>1. UNCHANGED <<status, step, snapshot, agent, queue, running, loop, calls, clis, stops, crashes>>
  BY DEF vars, rowVars
<1>2. TypeOK' /\ QueueIsDriven'
  BY <1>1 DEF IInv, TypeOK, QueueIsDriven
<1>3. \A t \in Tasks : Same(t)
  BY <1>1 DEF Same
<1>4. \A t \in Tasks : RegOk(t)'
  BY <1>1, <1>3, SameKeeps DEF IInv
<1>5. ASSUME clis = 0
      PROVE  QueueInv' /\ \A t \in Tasks : TaskOk(t)'
  BY <1>1, <1>3, <1>5, SameKeeps DEF IInv, QueueInv, Idle
<1>6. ASSUME clis = 0, stops = 0, agent = "up"
      PROVE  \A t \in Tasks : Owned(t)'
  <2>1. \A t : InQueue(t) => InQueue(t)'
    BY <1>1 DEF InQueue
  <2>. QED
    BY <1>3, <1>6, <2>1, SameKeeps DEF IInv
<1>. QED
  BY <1>1, <1>2, <1>4, <1>5, <1>6 DEF IInv

\* Every operation of the user or of the command line keeps the invariant.
LEMMA UserStep ==
  ASSUME IInv, NEW t \in Tasks, User(t)
  PROVE  IInv'
<1>1. CASE CliEnable(t) \/ CliStop(t) \/ CliPause(t) \/ CliResume(t)
  <2>1. PICK s \in {"pending", "cancelled", "paused"} : CliSets(t, s)
    BY <1>1 DEF CliEnable, CliStop, CliPause, CliResume
  <2>2. s \in Statuses \ {"none"}
    BY DEF Statuses, Terminal, Ended
  <2>. QED
    BY <2>1, <2>2, CliStep
<1>. QED
  BY <1>1, StartTaskStep, PauseTaskStep, StopTaskStep, ResumeTaskStep, DeleteTaskStep,
     CancelStaleStep DEF User

\* Every step of a loop keeps the invariant.
LEMMA LoopStepStep ==
  ASSUME IInv, NEW t \in Tasks, NEW k \in Gens, LoopStep(t, k)
  PROVE  IInv'
<1>1. CASE PolicyEscalates(t, k) \/ ReflectEscalates(t, k)
  <2>1. PICK p \in Awaits : Returns(t, k, p)
    BY <1>1 DEF PolicyEscalates, ReflectEscalates, Awaits
  <2>2. /\ Moves(t, k, "escalate")
        /\ UNCHANGED <<rowVars, snapshot, agent, queue, running, calls, clis, stops, crashes>>
    BY <1>1 DEF PolicyEscalates, ReflectEscalates
  <2>. QED
    BY <2>1, <2>2, MovesStep
<1>. QED
  BY <1>1, PlanFailsStep, UnwindStep, PolicyBlocksStep, CallToolStep, ToolReturnsStep,
     ReflectAchievedStep, ReflectContinuesStep, EscalatedStep, FinishStep DEF LoopStep

\* Every step keeps the invariant.
LEMMA NextIInv ==
  ASSUME IInv, [Next]_vars
  PROVE  IInv'
  BY UserStep, LoopStepStep, StopAgentStep, StartAgentStep, CrashStep, RestoreStep,
     StutterIInv DEF Next

(***************************************************************************)
(* IInv holds for every number of tasks and loops, every limit and any     *)
(* interleaving of routes, loops, command line, stops and crashes.         *)
(***************************************************************************)
THEOREM Inductive == Spec => []IInv
<1>1. Init => IInv
  BY InitIInv
<1>2. IInv /\ [Next]_vars => IInv'
  BY NextIInv
<1>. QED
  BY <1>1, <1>2, PTL DEF Spec

(***************************************************************************)
(* The bookkeeping of manager and loops is sound: no task goes past its    *)
(* iteration limit, and the queue always has a loop that will drain it,    *)
(* through pauses, stops, crashes and a restart at the cap.                *)
(***************************************************************************)
THEOREM BookkeepingIsSound == Spec => []Consistent
<1>1. IInv => Consistent
  BY DEF IInv, TaskOk, StepOk, Consistent, StepsBounded
<1>. QED
  BY <1>1, Inductive, PTL

(***************************************************************************)
(* A task never has two loops at work, however often it is paused and      *)
(* resumed while earlier loops still wait for their awaits.                *)
(***************************************************************************)
THEOREM NeverTwoLoops == Spec => []OneLiveLoop
<1>1. IInv => OneLiveLoop
  BY DEF IInv, TaskOk, LiveOk, OneLiveLoop
<1>. QED
  BY <1>1, Inductive, PTL

\* A task that says running has a loop, and one that says queued is in the queue.
THEOREM NoTaskIsStuck == Spec => []ActiveIsOwned
<1>1. IInv => ActiveIsOwned
  BY DEF IInv, Owned, InQueue, ActiveIsOwned
<1>. QED
  BY <1>1, Inductive, PTL

(***************************************************************************)
(* A task makes no more tool calls than its rate limit allows, through any *)
(* number of pauses, resumes, crashes and restarts (issue #256).           *)
(***************************************************************************)
THEOREM RateLimitSurvives == Spec => []RateLimitHolds
<1>1. IInv => RateLimitHolds
  BY DEF IInv, TaskOk, RateOk, RateLimitHolds
<1>. QED
  BY <1>1, Inductive, PTL

\* Only the step that calls a tool counts a call.
LEMMA OnlyCallToolCalls ==
  ASSUME [Next]_vars
  PROVE  calls' = calls \/ \E t \in Tasks, k \in Gens : CallTool(t, k)
<1>1. ASSUME NEW t \in Tasks, User(t)
      PROVE  calls' = calls
  BY <1>1 DEF User, StartTask, PauseTask, StopTask, ResumeTask, DeleteTask, CancelStale,
             CliEnable, CliStop, CliPause, CliResume, CliSets
<1>2. ASSUME NEW t \in Tasks, NEW k \in Gens, LoopStep(t, k), ~CallTool(t, k)
      PROVE  calls' = calls
  BY <1>2 DEF LoopStep, PlanFails, Unwind, PolicyBlocks, PolicyEscalates, ToolReturns,
             ReflectAchieved, ReflectEscalates, ReflectContinues, Escalated, Finish
<1>3. StopAgent \/ StartAgent \/ Crash \/ Restore => calls' = calls
  BY DEF StopAgent, StartAgent, Crash, Restore
<1>. QED
  BY <1>1, <1>2, <1>3 DEF Next, vars

(***************************************************************************)
(* No tool is called for a task that is paused, cancelled, completed or    *)
(* waiting, whatever loops earlier runs have left behind.                  *)
(***************************************************************************)
THEOREM HaltedCallsNothing == Spec => NoCallWhenHalted
<1>1. ASSUME IInv, [Next]_vars, clis = 0, NEW t \in Tasks, calls'[t] > calls[t]
      PROVE  status[t] \in {"running", "failed"}
  <2>1. calls \in [Tasks -> Nat]
    BY <1>1 DEF IInv, TypeOK
  <2>2. PICK u \in Tasks, k \in Gens : CallTool(u, k)
    <3>1. calls' # calls
      BY <1>1, <2>1
    <3>. QED
      BY <1>1, <3>1, OnlyCallToolCalls
  <2>3. u = t
    BY <1>1, <2>1, <2>2 DEF CallTool
  <2>4. Live(t, k) /\ status[t] # "deleted"
    BY <2>2, <2>3 DEF CallTool, Returns, Live, Awaits
  <2>. QED
    BY <1>1, <2>4 DEF IInv, TaskOk, LiveOk
<1>2. IInv /\ [Next]_vars =>
        [clis = 0 => \A t \in Tasks : calls'[t] > calls[t] => status[t] \in {"running", "failed"}]_vars
  BY <1>1
<1>. QED
  BY <1>2, Inductive, PTL DEF Spec, NoCallWhenHalted

\* Each step that is not a command-line command leaves an ended task ended.
LEMMA EndedKept ==
  ASSUME IInv, [Next]_vars, clis' = 0, NEW u \in Tasks, status[u] \in Ended
  PROVE  status'[u] \in {status[u], "deleted"}
<1>0. TypeOK /\ status \in [Tasks -> Statuses]
  BY DEF IInv, TypeOK
<1>1. ASSUME NEW S \in SUBSET Tasks, NEW old, RunRows(S, old),
             u \notin S, old[u] = status[u]
      PROVE  status'[u] = status[u]
  BY <1>1 DEF RunRows
<1>2. ASSUME NEW t \in Tasks, User(t)
      PROVE  status'[u] \in {status[u], "deleted"}
  <2>1. CASE StartTask(t) \/ ResumeTask(t)
    <3>1. t # u
      BY <2>1 DEF StartTask, ResumeTask, IsNext, Ended
    <3>2. status' = [status EXCEPT ![t] = "queued"] \/ RunRows({t}, status)
      BY <2>1 DEF StartTask, ResumeTask
    <3>. QED
      BY <1>0, <1>1, <3>1, <3>2
  <2>2. CASE PauseTask(t) \/ StopTask(t) \/ CancelStale(t)
    <3>1. t # u
      BY <2>2 DEF PauseTask, StopTask, CancelStale, Ended
    <3>. QED
      BY <1>0, <2>2, <3>1 DEF PauseTask, StopTask, CancelStale
  <2>3. CASE DeleteTask(t)
    BY <1>0, <2>3 DEF DeleteTask
  <2>4. CASE CliEnable(t) \/ CliStop(t) \/ CliPause(t) \/ CliResume(t)
    <3>1. clis' = clis + 1 /\ clis \in Nat
      BY <1>0, <2>4, AutonomousAssumption
         DEF CliEnable, CliStop, CliPause, CliResume, CliSets, TypeOK
    <3>. QED
      BY <3>1
  <2>. QED
    BY <1>2, <2>1, <2>2, <2>3, <2>4 DEF User
<1>3. ASSUME NEW t \in Tasks, NEW k \in Gens, LoopStep(t, k)
      PROVE  status'[u] \in {status[u], "deleted"}
  <2>1. ASSUME NEW s, status' = [status EXCEPT ![t] = SafeStatus(t, s)]
        PROVE  status'[u] = status[u]
    BY <1>0, <2>1 DEF SafeStatus, Terminal
  <2>2. CASE PlanFails(t, k) \/ PolicyBlocks(t, k) \/ ReflectAchieved(t, k) \/ Escalated(t, k)
    BY <2>1, <2>2 DEF PlanFails, PolicyBlocks, ReflectAchieved, Escalated, Ends
  <2>3. CASE Unwind(t, k) \/ PolicyEscalates(t, k) \/ CallTool(t, k) \/ ToolReturns(t, k)
             \/ ReflectEscalates(t, k)
    BY <2>3 DEF Unwind, PolicyEscalates, CallTool, ToolReturns, ReflectEscalates, rowVars
  <2>4. CASE ReflectContinues(t, k)
    BY <2>1, <2>4 DEF ReflectContinues, Ends
  <2>5. CASE Finish(t, k)
    <3>1. PICK S : /\ RunRows(S, status) /\ clis' = clis
                   /\ S = IF queue = <<>> THEN {} ELSE {Head(queue)}
      BY <2>5 DEF Finish
    <3>2. QueueInv
      BY <3>1 DEF IInv
    <3>3. queue # <<>> => Head(queue) = queue[1] /\ 1 \in 1..Len(queue) /\ Head(queue) \in Tasks
      BY <1>0 DEF TypeOK
    <3>4. S \subseteq Tasks /\ u \notin S
      BY <3>1, <3>2, <3>3 DEF QueueInv, Ended
    <3>. QED
      BY <1>1, <3>1, <3>4
  <2>. QED
    BY <1>3, <2>2, <2>3, <2>4, <2>5 DEF LoopStep
<1>4. CASE StopAgent \/ StartAgent \/ Crash \/ UNCHANGED vars
  BY <1>4 DEF StopAgent, StartAgent, Crash, vars, rowVars
<1>5. CASE Restore
  <2> DEFINE S == {t \in Restorable : Cardinality({v \in Restorable : v < t}) < MaxParallel}
             W == Restorable \ S
  <2>1. RunRows(S, [t \in Tasks |-> IF t \in W THEN "queued" ELSE status[t]])
    BY <1>5, Zenon DEF Restore
  <2>2. S \subseteq Restorable /\ W \subseteq Restorable
    OBVIOUS
  <2> HIDE DEF S, W
  <2>3. u \notin S /\ u \notin W /\ S \subseteq Tasks
    BY <2>2 DEF Restorable, Ended
  <2>. QED
    BY <1>1, <2>1, <2>3
<1>. QED
  BY <1>2, <1>3, <1>4, <1>5 DEF Next

(***************************************************************************)
(* A task that has completed, failed or been cancelled is never revived,   *)
(* neither by a loop that was left behind nor by a restart.                *)
(***************************************************************************)
THEOREM EndedIsFinal == Spec => EndedStaysEnded
<1>1. IInv /\ [Next]_vars =>
        [clis' = 0 => \A t \in Tasks :
           status[t] \in Ended => status'[t] \in {status[t], "deleted"}]_vars
  BY EndedKept
<1>. QED
  BY <1>1, Inductive, PTL DEF Spec, EndedStaysEnded
=============================================================================
