-------------------------- MODULE PipelinesProofs --------------------------
(***************************************************************************)
(* Proofs about one pipeline run, for any number of steps, any             *)
(* dependencies and any number of retries.                                 *)
(***************************************************************************)
EXTENDS Pipelines, WellFoundedInduction, TLAPS

\* What a step was given: its dependency d has completed, or was to be continued after.
Given(s, d) ==
  \/ step[d] = "completed" /\ Holds(input[s], d)
  \/ step[d] = "failed" /\ strategy[d] = "continue" /\ d \notin input[s]

\* A level is taken only after the levels its steps depend on, and given what those have written.
LevelInv ==
  /\ \A s \in Steps : dependsOn[s] \subseteq 1..s - 1
  /\ \A s \in order : dependsOn[s] \subseteq order \ level
  /\ \A s \in order : input[s] \subseteq order \ level /\ OneEach(input[s])

\* Only steps of the current level await an agent.
AwaitInv == \A s \in Steps : pc[s] = "await" => s \in level

\* Before the start, and after a deletion, there are no rows.
RowInv ==
  /\ run = "none" => main = "idle" /\ order = {} /\ context = {}
  /\ run \in {"none", "deleted"} => \A s \in Steps : step[s] = "none"
  /\ context \subseteq order /\ OneEach(context)

\* A step outlives its run because of the deadline, or because executeRun has thrown.
OrphanInv ==
  run \in {"failed", "completed"} /\ ~late /\ ~broken => \A s \in Steps : pc[s] # "await"

\* The output of s is in the context c, or s was to be continued after.
Passed(s, c) ==
  \/ step[s] = "completed" /\ Holds(c, s)
  \/ step[s] = "failed" /\ strategy[s] = "continue" /\ s \notin c

\* Steps of past levels have ended well, and the others have not been reached.
PastInv ==
  run \notin {"none", "deleted"} =>
    /\ \A s \in order \ level : Passed(s, context)
    /\ \A s \in Steps \ order : step[s] \in {"pending", "skipped", "cancelled"}

\* While a level is awaited, what its steps return is what their rows say.
HereInv ==
  run = "running" /\ main = "level" =>
    \A s \in level : /\ s \notin context
                     /\ \/ pc[s] = "await" /\ step[s] = "running"
                        \/ pc[s] = "done" /\ result[s] = "ok" /\ step[s] = "completed"
                        \/ pc[s] = "done" /\ result[s] = "failed" /\ step[s] = "failed"
                        \/ pc[s] = "done" /\ result[s] = "thrown"

InputInv ==
  run \notin {"none", "deleted"} => \A s \in order : \A d \in dependsOn[s] : Given(s, d)

IInv ==
  /\ TypeOK /\ LevelInv /\ AwaitInv /\ RowInv /\ OrphanInv
  /\ PastInv /\ HereInv /\ InputInv /\ EndedIsClosed
-----------------------------------------------------------------------------
\* The initial states satisfy the invariant.
LEMMA InitInv == Init => IInv
<1> SUFFICES ASSUME Init PROVE IInv
  OBVIOUS
<1>1. TypeOK
  <2>1. dependsOn \in [Steps -> SUBSET Steps]
    BY DEF Init
  <2>2. attempt \in [Steps -> 0..MaxRetries + 1] /\ \A s \in Steps : attempt[s] <= MaxAttempts(s)
    BY PipelinesAssumption DEF Init, MaxAttempts
  <2> QED
    BY <2>1, <2>2 DEF Init, TypeOK, Terminal
<1>2. LevelInv
  BY DEF Init, LevelInv, OneEach
<1>3. AwaitInv /\ RowInv /\ OrphanInv /\ PastInv /\ HereInv /\ InputInv /\ EndedIsClosed
  BY DEF Init, OneEach, AwaitInv, RowInv, OrphanInv, PastInv, HereInv, InputInv, EndedIsClosed, Terminal
<1> QED
  BY <1>1, <1>2, <1>3 DEF IInv

\* Every step keeps the types.
LEMMA StepType == ASSUME TypeOK, [Next]_vars PROVE TypeOK'
<1> USE DEF TypeOK, Terminal
<1>0. Merged(context) \subseteq Steps /\ Closed \in [Steps -> {"none", "pending", "running", "completed", "failed",
                                                                "skipped", "cancelled"}]
  BY DEF Merged, Closed
<1>1. CASE Start
  <2>1. CASE BeginLevel({})
    BY <1>1, <2>1, PipelinesAssumption DEF Start, Break, BeginLevel, defVars, MaxAttempts, NextLevel
  <2>2. CASE Break /\ step' = [s \in Steps |-> "pending"]
    BY <1>1, <2>2 DEF Start, Break, defVars, MaxAttempts
  <2> QED
    BY <1>1, <2>1, <2>2 DEF Start
<1>2. CASE LevelDone
  <2>1. CASE Leave
    BY <1>2, <2>1 DEF LevelDone, Leave, defVars, stepVars, MaxAttempts
  <2>2. CASE EndFailed /\ context' \subseteq Steps
    BY <1>0, <1>2, <2>2 DEF LevelDone, EndFailed, defVars, MaxAttempts
  <2>3. CASE \E c \in SUBSET Steps : BeginLevel(c) /\ context' = c /\ run' = run
    BY <1>2, <2>3, PipelinesAssumption DEF LevelDone, BeginLevel, defVars, MaxAttempts, NextLevel
  <2>4. CASE run' = "completed" /\ main' = "ended" /\ context' \subseteq Steps /\ UNCHANGED <<level, order, stepVars>>
    BY <1>2, <2>4 DEF LevelDone, defVars, stepVars, MaxAttempts
  <2> QED
    BY <1>0, <1>2, <2>1, <2>2, <2>3, <2>4 DEF LevelDone
<1>3. CASE LevelRejected \/ RunThrows
  <2>1. CASE Leave /\ UNCHANGED <<defVars, late, broken, crashed>>
    BY <2>1 DEF Leave, defVars, stepVars, MaxAttempts
  <2>2. CASE EndFailed /\ UNCHANGED <<defVars, context, late, broken, crashed>>
    BY <1>0, <2>2 DEF EndFailed, defVars, MaxAttempts
  <2>3. CASE /\ Break /\ UNCHANGED <<defVars, late, crashed>>
             /\ context' \in {context, Merged(context)} /\ step' \in {step, Closed}
    BY <1>0, <2>3 DEF Break, defVars, MaxAttempts
  <2> QED
    BY <1>3, <2>1, <2>2, <2>3 DEF LevelRejected, RunThrows
<1>4. ASSUME NEW s \in Steps, Answer(s) PROVE TypeOK'
  BY <1>4 DEF Answer, Return, WriteStep, defVars, MaxAttempts
<1>5. ASSUME NEW s \in Steps, Fail(s) PROVE TypeOK'
  <2>1. MaxAttempts(s) \in 1..MaxRetries + 1
    BY PipelinesAssumption DEF MaxAttempts
  <2>2. attempt' \in [Steps -> 0..MaxRetries + 1] /\ \A t \in Steps : attempt'[t] <= MaxAttempts(t)
    BY <1>5, <2>1, PipelinesAssumption DEF Fail, TriesAgain
  <2> QED
    BY <1>5, <2>2 DEF Fail, Return, WriteStep, defVars, MaxAttempts
<1>6. ASSUME NEW s \in Steps, PollCancel(s) \/ StepThrows(s) PROVE TypeOK'
  BY <1>6 DEF PollCancel, StepThrows, Return, defVars, MaxAttempts
<1>7. CASE Cancel
  BY <1>7 DEF Cancel, Mark, defVars, MaxAttempts
<1>8. CASE Delete
  BY <1>8 DEF Delete, defVars, MaxAttempts
<1>9. CASE Deadline
  BY <1>9 DEF Deadline, defVars, stepVars, MaxAttempts
<1>10. CASE Crash
  BY <1>10 DEF Crash, defVars, MaxAttempts
<1>11. CASE UNCHANGED vars
  BY <1>11 DEF vars, defVars, stepVars, MaxAttempts
<1> QED
  BY <1>1, <1>2, <1>3, <1>4, <1>5, <1>6, <1>7, <1>8, <1>9, <1>10, <1>11 DEF Next

(***************************************************************************)
(* The resolver leaves no step out: when the queue is empty every step has *)
(* been in it, as the first that had not would depend on earlier ones.     *)
(***************************************************************************)
LEMMA NothingLeftOut ==
  ASSUME TypeOK, LevelInv, NextLevel(order) = {}
  PROVE  order = Steps
<1> SUFFICES ASSUME order # Steps PROVE FALSE
  OBVIOUS
<1> DEFINE left == Steps \ order
<1>1. left \subseteq Nat /\ left # {}
  <2>1. left # {}
    BY DEF TypeOK
  <2>2. Steps \subseteq Nat
    BY PipelinesAssumption DEF Steps
  <2> QED
    BY <2>1, <2>2
<1> DEFINE R == OpToRel(<, Nat)
<1>2. IsWellFoundedOn(R, Nat)
  BY NatLessThanWellFounded
<1>3. \A x, y \in Nat : x < y => <<x, y>> \in R
  BY DEF OpToRel
<1> HIDE DEF left, R
<1>4. \E s \in left : \A t \in left : ~(<<t, s>> \in R)
  BY <1>1, <1>2, WFMin
<1>5. PICK s \in left : \A t \in left : ~(t < s)
  BY <1>1, <1>3, <1>4
<1> USE DEF left
<1>6. dependsOn[s] \subseteq order
  BY <1>1, <1>5 DEF LevelInv, TypeOK, Steps
<1> QED
  BY <1>6 DEF NextLevel
-----------------------------------------------------------------------------
\* A set of steps that is not empty has a last one.
LEMMA LastStep ==
  ASSUME NEW S \in SUBSET Steps, S # {}
  PROVE  \E t \in S : \A u \in S : u <= t
<1> DEFINE T == {NumSteps - x : x \in S}
<1>1. S \subseteq Int /\ \A x \in S : x <= NumSteps
  BY PipelinesAssumption DEF Steps
<1>2. T \subseteq Nat /\ T # {}
  <2>1. ASSUME NEW x \in S PROVE NumSteps - x \in Nat
    BY <1>1, PipelinesAssumption
  <2>2. PICK x \in S : TRUE
    OBVIOUS
  <2> QED
    BY <2>1, <2>2
<1> DEFINE R == OpToRel(<, Nat)
<1>3. IsWellFoundedOn(R, Nat)
  BY NatLessThanWellFounded
<1>4. \A x, y \in Nat : x < y => <<x, y>> \in R
  BY DEF OpToRel
<1> HIDE DEF T, R
<1>5. \E y \in T : \A z \in T : ~(<<z, y>> \in R)
  BY <1>2, <1>3, WFMin
<1>6. PICK y \in T : \A z \in T : ~(z < y)
  BY <1>2, <1>4, <1>5
<1>7. PICK t \in S : y = NumSteps - t
  BY <1>6 DEF T
<1>8. ASSUME NEW u \in S PROVE u <= t
  <2>1. NumSteps - u \in T
    BY DEF T
  <2>2. ~(NumSteps - u < NumSteps - t)
    BY <2>1, <1>6, <1>7
  <2> QED
    BY <2>2, <1>1, PipelinesAssumption
<1> QED
  BY <1>8

(***************************************************************************)
(* Merging the outputs of a level loses none: what it replaces in the      *)
(* context, or in the level, is replaced by an output of the level itself, *)
(* which no step so far has been given.                                    *)
(***************************************************************************)
LEMMA MergeHolds ==
  ASSUME TypeOK, LevelInv, context \subseteq order \ level, OneEach(context)
  PROVE  /\ Merged(context) \subseteq order /\ OneEach(Merged(context))
         /\ \A s \in level : s \in Merged(context) => result[s] = "ok"
         /\ \A s \in Steps \ level : s \in Merged(context) => s \in context
         /\ \A d \in order : Holds(context, d) \/ (d \in level /\ result[d] = "ok")
                             => Holds(Merged(context), d)
<1> DEFINE ok == {s \in level : result[s] = "ok"}
           m == Merged(context)
<1>1. /\ level \subseteq order /\ order \subseteq Steps /\ Steps \subseteq Int
  <2>1. Steps \subseteq Int
    BY PipelinesAssumption DEF Steps
  <2> QED
    BY <2>1 DEF TypeOK
<1>2. m = {s \in ok : \A t \in ok : output[t] = output[s] => t <= s}
            \cup {s \in context : \A t \in ok : output[t] # output[s]}
  BY DEF Merged
<1>3. m \subseteq order /\ (\A s \in level : s \in m => s \in ok) /\ (\A s \in Steps \ level : s \in m => s \in context)
  BY <1>1, <1>2
<1>4. OneEach(m)
  <2> SUFFICES ASSUME NEW x \in m, NEW y \in m, output[x] = output[y] PROVE x = y
    BY DEF OneEach
  <2>1. CASE x \in ok /\ y \in ok
    <3>1. x <= y /\ y <= x /\ x \in Int /\ y \in Int
      BY <1>1, <1>2, <2>1
    <3> QED
      BY <3>1
  <2>2. CASE x \in context /\ y \in context
    BY <2>2 DEF OneEach
  <2> QED
    BY <1>1, <1>2, <2>1, <2>2
<1>5. ASSUME NEW d \in order, NEW t \in ok, output[t] = output[d] PROVE Holds(m, d)
  <2> DEFINE S == {u \in ok : output[u] = output[d]}
  <2>1. S \in SUBSET Steps /\ S # {}
    BY <1>1, <1>5
  <2> HIDE DEF S
  <2>2. PICK x \in S : \A u \in S : u <= x
    BY <2>1, LastStep
  <2>3. x \in ok /\ output[x] = output[d] /\ \A u \in ok : output[u] = output[x] => u <= x
    BY <2>2 DEF S
  <2>4. x \in m
    BY <1>2, <2>3
  <2>5. x \notin input[d]
    BY <2>3 DEF LevelInv
  <2> QED
    BY <2>3, <2>4, <2>5 DEF Holds
<1>6. ASSUME NEW d \in order, Holds(context, d), \A t \in ok : output[t] # output[d] PROVE Holds(m, d)
  BY <1>2, <1>6 DEF Holds
<1> QED
  BY <1>3, <1>4, <1>5, <1>6

\* When a level has come back, it and the levels before it have passed.
LEMMA LevelPassed ==
  ASSUME IInv, run = "running", main = "level",
         \A s \in level : pc[s] = "done" /\ result[s] # "thrown" /\ ~Blocking(s)
  PROVE  \A s \in order : Passed(s, Merged(context))
<1>1. context \subseteq order \ level
  BY DEF IInv, RowInv, HereInv
<1>2. /\ \A s \in level : s \in Merged(context) => result[s] = "ok"
      /\ \A s \in Steps \ level : s \in Merged(context) => s \in context
      /\ \A d \in order : Holds(context, d) \/ (d \in level /\ result[d] = "ok")
                          => Holds(Merged(context), d)
  BY <1>1, MergeHolds DEF IInv, RowInv
<1>3. level \subseteq order /\ order \subseteq Steps
  BY DEF IInv, TypeOK
<1>4. ASSUME NEW s \in level PROVE Passed(s, Merged(context))
  <2>1. \/ result[s] = "ok" /\ step[s] = "completed"
        \/ result[s] = "failed" /\ step[s] = "failed" /\ strategy[s] = "continue"
    BY DEF IInv, HereInv, Blocking
  <2> QED
    BY <1>2, <1>3, <2>1 DEF Passed
<1>5. ASSUME NEW s \in order \ level PROVE Passed(s, Merged(context))
  <2>1. Passed(s, context)
    BY DEF IInv, PastInv
  <2> QED
    BY <1>2, <1>3, <2>1 DEF Passed
<1> QED
  BY <1>4, <1>5

\* A run starts, or goes on, with the steps whose dependencies have all ended.
LEMMA BeginKeeps ==
  ASSUME IInv, NEW c, BeginLevel(c), run' = "running", context' = c, UNCHANGED <<defVars, late, broken, crashed>>,
         \/ run = "none" /\ c = {}
         \/ /\ run = "running" /\ main = "level" /\ c = Merged(context)
            /\ \A s \in level : pc[s] = "done" /\ result[s] # "thrown" /\ ~Blocking(s)
  PROVE  /\ LevelInv' /\ AwaitInv' /\ RowInv' /\ OrphanInv' /\ PastInv' /\ HereInv' /\ InputInv'
         /\ EndedIsClosed'
<1> DEFINE here == NextLevel(order)
<1>1. /\ TypeOK /\ dependsOn' = dependsOn /\ strategy' = strategy /\ output' = output
      /\ level' = here /\ order' = order \cup here /\ main' = "level"
      /\ here \subseteq Steps \ order /\ \A s \in here : dependsOn[s] \subseteq order
  BY DEF IInv, BeginLevel, defVars, NextLevel
<1>2. \A s \in Steps :
        IF s \in here THEN /\ input'[s] = c
                           /\ \/ step'[s] = "running" /\ pc'[s] = "await"
                              \/ pc'[s] = "done" /\ result'[s] = "thrown"
        ELSE /\ step'[s] = IF run = "none" THEN "pending" ELSE step[s]
             /\ pc'[s] = pc[s] /\ input'[s] = input[s]
  BY DEF BeginLevel
<1>3. order' \ level' = order
  BY <1>1
<1> HIDE DEF here
<1>4. c \subseteq order /\ OneEach(c)
  <2>1. CASE run = "none"
    BY <2>1 DEF OneEach
  <2>2. CASE run # "none"
    <3>1. context \subseteq order \ level /\ c = Merged(context)
      BY <2>2 DEF IInv, RowInv, HereInv
    <3> QED
      BY <3>1, MergeHolds DEF IInv, RowInv
  <2> QED
    BY <2>1, <2>2
<1>5. \A s \in order : Passed(s, c)
  <2>1. CASE run = "none"
    BY <2>1 DEF IInv, RowInv
  <2>2. CASE run # "none"
    BY <2>2, LevelPassed
  <2> QED
    BY <2>1, <2>2
<1>6. \A s \in order : step'[s] = step[s] /\ input'[s] = input[s] /\ s \in Steps
  BY <1>1, <1>2 DEF IInv, RowInv, TypeOK
<1>7. LevelInv'
  <2>1. ASSUME NEW s \in order' PROVE input'[s] \subseteq order /\ OneEach(input'[s])
    <3>1. CASE s \in here
      BY <1>1, <1>2, <1>4, <3>1
    <3>2. CASE s \in order
      BY <1>6, <3>2 DEF IInv, LevelInv
    <3> QED
      BY <1>1, <3>1, <3>2
  <2>2. \A s \in order' : OneEach(input[s])'
    BY <1>1, <2>1 DEF OneEach
  <2>3. \A s \in order' : dependsOn[s] \subseteq order
    BY <1>1 DEF IInv, LevelInv
  <2> QED
    BY <1>1, <1>3, <2>1, <2>2, <2>3 DEF IInv, LevelInv
<1>8. AwaitInv'
  <2>1. \A s \in Steps : pc[s] # "await"
    BY <1>1 DEF IInv, AwaitInv, RowInv, TypeOK
  <2> QED
    BY <1>1, <1>2, <2>1 DEF AwaitInv
<1>9. RowInv' /\ OrphanInv' /\ EndedIsClosed'
  BY <1>1, <1>4 DEF RowInv, OneEach, OrphanInv, EndedIsClosed, Terminal
<1>10. PastInv'
  <2>1. ASSUME NEW s \in Steps, s \notin order' PROVE step'[s] \in {"pending", "skipped", "cancelled"}
    BY <1>1, <1>2, <2>1 DEF IInv, PastInv
  <2>2. ASSUME NEW s \in order PROVE Passed(s, context)'
    BY <1>1, <1>5, <1>6 DEF Passed, Holds
  <2> QED
    BY <1>3, <2>1, <2>2 DEF PastInv
<1>11. HereInv'
  BY <1>1, <1>2, <1>4 DEF HereInv
<1>12. InputInv'
  <2>1. ASSUME NEW s \in order, NEW d \in dependsOn[s] PROVE Given(s, d)'
    <3>1. run # "none" /\ d \in order
      BY <1>1, <2>1 DEF IInv, RowInv, LevelInv
    <3>2. Given(s, d)
      BY <3>1, <2>1 DEF IInv, InputInv
    <3> QED
      BY <3>1, <3>2, <1>1, <1>6 DEF Given, Holds
  <2>2. ASSUME NEW s \in here, NEW d \in dependsOn[s] PROVE Given(s, d)'
    <3>1. d \in order /\ s \in Steps /\ input'[s] = c
      BY <1>1, <1>2
    <3>2. Passed(d, c) /\ step'[d] = step[d] /\ input'[d] = input[d]
      BY <1>5, <1>6, <3>1
    <3> QED
      BY <3>1, <3>2, <1>1 DEF Given, Passed, Holds
  <2> QED
    BY <1>1, <2>1, <2>2 DEF InputInv
<1> QED
  BY <1>7, <1>8, <1>9, <1>10, <1>11, <1>12

(***************************************************************************)
(* A step of the store or of a running step: it leaves the levels, and the *)
(* rows of the levels before, as they are.                                 *)
(***************************************************************************)
LEMMA RowFrame ==
  ASSUME IInv, UNCHANGED <<defVars, level, order, context, input>>, run # "none", run' \notin {"none", "deleted"},
         \A s \in Steps : step[s] \in {"completed", "failed"} /\ s \notin level => step'[s] = step[s],
         \A s \in Steps \ level : step[s] \in {"pending", "skipped", "cancelled"} =>
                                  step'[s] \in {"pending", "skipped", "cancelled"},
         run # "deleted",
         \A s \in Steps : pc'[s] = "await" => pc[s] = "await"
  PROVE  LevelInv' /\ AwaitInv' /\ RowInv' /\ PastInv' /\ InputInv'
<1>1. LevelInv' /\ AwaitInv' /\ RowInv'
  BY DEF IInv, LevelInv, AwaitInv, RowInv, OneEach, defVars
<1>2. \A s \in order \ level : s \in Steps /\ step[s] \in {"completed", "failed"} /\ step'[s] = step[s]
  BY DEF IInv, PastInv, Passed, TypeOK
<1>3. PastInv'
  <2>1. ASSUME NEW s \in Steps \ order PROVE step'[s] \in {"pending", "skipped", "cancelled"}
    BY DEF IInv, PastInv, TypeOK
  <2>2. ASSUME NEW s \in order \ level PROVE Passed(s, context)'
    BY <1>2 DEF IInv, PastInv, Passed, Holds, defVars
  <2> QED
    BY <2>1, <2>2 DEF PastInv
<1>4. InputInv'
  <2>1. ASSUME NEW s \in order, NEW d \in dependsOn[s] PROVE Given(s, d)'
    <3>1. d \in order \ level /\ Given(s, d)
      BY <2>1 DEF IInv, LevelInv, InputInv
    <3> QED
      BY <3>1, <1>2 DEF Given, Holds, defVars
  <2> QED
    BY <2>1 DEF InputInv, defVars
<1> QED
  BY <1>1, <1>3, <1>4

\* The same for a run that is deleted: it has no rows any more.
LEMMA DeletedFrame ==
  ASSUME IInv, UNCHANGED <<defVars, level, order, input>>, run' = "deleted", run # "none",
         context' \in {{}, context}, \A s \in Steps : step'[s] = "none",
         \A s \in Steps : pc'[s] = "await" => pc[s] = "await"
  PROVE  /\ LevelInv' /\ AwaitInv' /\ RowInv' /\ OrphanInv' /\ PastInv' /\ HereInv' /\ InputInv'
         /\ EndedIsClosed'
<1>1. LevelInv' /\ AwaitInv' /\ RowInv'
  BY DEF IInv, LevelInv, AwaitInv, RowInv, OneEach, defVars
<1> QED
  BY <1>1 DEF OrphanInv, PastInv, HereInv, InputInv, EndedIsClosed, Terminal

(***************************************************************************)
(* executeRun ends, well or in the catch of start: it may have merged the  *)
(* level and closed what is open, and past levels stay as they are.        *)
(***************************************************************************)
LEMMA EndKeeps ==
  ASSUME IInv, run = "running", main = "level", main' = "ended", run' \in {"running", "failed", "completed"},
         UNCHANGED <<defVars, level, order, pc, input>>,
         context' \in {context, Merged(context)}, step' \in {step, Closed}
  PROVE  LevelInv' /\ AwaitInv' /\ RowInv' /\ PastInv' /\ HereInv' /\ InputInv'
<1>1. context \subseteq order \ level /\ OneEach(context) /\ TypeOK /\ LevelInv
  BY DEF IInv, RowInv, HereInv
<1>2. /\ context' \subseteq order /\ OneEach(context')
      /\ \A s \in Steps \ level : s \in context' => s \in context
      /\ \A d \in order : Holds(context, d) => Holds(context', d)
  BY <1>1, MergeHolds
<1>3. \A s \in Steps : \/ step'[s] = step[s]
                       \/ step[s] = "running" /\ step'[s] = "failed"
                       \/ step[s] = "pending" /\ step'[s] = "skipped"
  BY DEF Closed
<1>4. LevelInv' /\ AwaitInv' /\ RowInv' /\ HereInv'
  BY <1>2 DEF IInv, LevelInv, AwaitInv, RowInv, HereInv, OneEach, defVars
<1>5. \A s \in order \ level : s \in Steps /\ step[s] \in {"completed", "failed"} /\ step'[s] = step[s]
  BY <1>1, <1>3 DEF IInv, PastInv, Passed, TypeOK
<1>6. PastInv'
  <2>1. ASSUME NEW s \in Steps \ order PROVE step'[s] \in {"pending", "skipped", "cancelled"}
    BY <1>3 DEF IInv, PastInv
  <2>2. ASSUME NEW s \in order \ level PROVE Passed(s, context)'
    <3>1. Passed(s, context)
      BY DEF IInv, PastInv
    <3>2. Passed(s, context')
      BY <1>2, <1>5, <3>1 DEF Passed
    <3> QED
      BY <1>5, <3>2 DEF Passed, Holds, defVars
  <2> QED
    BY <2>1, <2>2 DEF PastInv
<1>7. InputInv'
  <2>1. ASSUME NEW s \in order, NEW d \in dependsOn[s] PROVE Given(s, d)'
    <3>1. d \in order \ level /\ Given(s, d)
      BY <2>1 DEF IInv, LevelInv, InputInv
    <3> QED
      BY <3>1, <1>5 DEF Given, Holds, defVars
  <2> QED
    BY <2>1 DEF InputInv, defVars
<1> QED
  BY <1>4, <1>6, <1>7

\* failRunForTimeout and the end after a blocking failure close every step.
LEMMA EndFailedKeeps ==
  ASSUME IInv, EndFailed, run = "running", main = "level", UNCHANGED <<defVars, late, broken, crashed>>,
         late \/ \A s \in level : pc[s] = "done",
         context' \in {context, Merged(context)}
  PROVE  /\ LevelInv' /\ AwaitInv' /\ RowInv' /\ OrphanInv' /\ PastInv' /\ HereInv' /\ InputInv'
         /\ EndedIsClosed'
<1>1. /\ TypeOK /\ run' = "failed" /\ main' = "ended" /\ level' = level /\ order' = order
      /\ pc' = pc /\ input' = input /\ step' = Closed
  BY DEF IInv, EndFailed
<1>2. LevelInv' /\ AwaitInv' /\ RowInv' /\ PastInv' /\ HereInv' /\ InputInv'
  BY <1>1, EndKeeps
<1>3. OrphanInv'
  BY <1>1 DEF IInv, OrphanInv, AwaitInv
<1>4. EndedIsClosed'
  BY <1>1 DEF EndedIsClosed, Closed
<1> QED
  BY <1>2, <1>3, <1>4

\* The catch of start leaves steps open, and is known by broken.
LEMMA BreakKeeps ==
  ASSUME IInv, Break, run = "running", main = "level", UNCHANGED <<defVars, late, crashed>>,
         context' \in {context, Merged(context)}, step' \in {step, Closed}
  PROVE  /\ LevelInv' /\ AwaitInv' /\ RowInv' /\ OrphanInv' /\ PastInv' /\ HereInv' /\ InputInv'
         /\ EndedIsClosed'
<1>1. LevelInv' /\ AwaitInv' /\ RowInv' /\ PastInv' /\ HereInv' /\ InputInv'
  BY EndKeeps DEF Break
<1>2. OrphanInv' /\ EndedIsClosed'
  BY DEF Break, OrphanInv, EndedIsClosed, Terminal
<1> QED
  BY <1>1, <1>2

\* executeRun leaves, and a crash ends it: no row changes.
LEMMA LeaveKeeps ==
  ASSUME IInv, main' = "ended", main = "level", UNCHANGED <<defVars, run, context, level, order, step, input, late, broken>>,
         \A s \in Steps : pc'[s] = "await" => pc[s] = "await"
  PROVE  /\ LevelInv' /\ AwaitInv' /\ RowInv' /\ OrphanInv' /\ PastInv' /\ HereInv' /\ InputInv'
         /\ EndedIsClosed'
<1>1. LevelInv' /\ AwaitInv' /\ RowInv'
  BY DEF IInv, LevelInv, AwaitInv, RowInv, OneEach, defVars
<1>2. OrphanInv' /\ HereInv' /\ EndedIsClosed'
  BY DEF IInv, OrphanInv, HereInv, EndedIsClosed, OneEach, Holds, defVars
<1>3. PastInv' /\ InputInv'
  BY DEF IInv, PastInv, Passed, InputInv, Given, Holds, defVars
<1> QED
  BY <1>1, <1>2, <1>3

\* The run completes: every step has been in a level, and its output is in the context.
LEMMA CompletedKeeps ==
  ASSUME IInv, run = "running", main = "level",
         \A s \in level : pc[s] = "done" /\ result[s] # "thrown" /\ ~Blocking(s),
         NextLevel(order) = {}, context' = Merged(context), run' = "completed", main' = "ended",
         UNCHANGED <<defVars, level, order, stepVars, late, broken, crashed>>
  PROVE  /\ LevelInv' /\ AwaitInv' /\ RowInv' /\ OrphanInv' /\ PastInv' /\ HereInv' /\ InputInv'
         /\ EndedIsClosed'
<1>1. order = Steps
  BY NothingLeftOut DEF IInv
<1>2. LevelInv' /\ AwaitInv' /\ RowInv' /\ PastInv' /\ HereInv' /\ InputInv'
  BY EndKeeps DEF stepVars
<1>3. OrphanInv'
  BY DEF IInv, AwaitInv, OrphanInv, stepVars
<1>4. EndedIsClosed'
  <2>1. \A s \in Steps : Passed(s, context')
    BY <1>1, LevelPassed
  <2>2. \A s \in Steps : \/ step'[s] = "completed" /\ Holds(context, s)'
                         \/ step'[s] = "failed" /\ strategy'[s] = "continue" /\ s \notin context'
    BY <2>1 DEF Passed, Holds, stepVars, defVars
  <2>3. OneEach(context)'
    BY <1>2 DEF RowInv
  <2> QED
    BY <2>2, <2>3 DEF EndedIsClosed
<1> QED
  BY <1>2, <1>3, <1>4
-----------------------------------------------------------------------------
\* An agent's answer, failure or cancellation reaches only the step that awaits it.
LEMMA StepRuns ==
  ASSUME IInv, NEW s \in Steps, Answer(s) \/ Fail(s) \/ PollCancel(s) \/ StepThrows(s)
  PROVE  /\ LevelInv' /\ AwaitInv' /\ RowInv' /\ OrphanInv' /\ PastInv' /\ HereInv' /\ InputInv'
         /\ EndedIsClosed'
<1>1. /\ TypeOK /\ pc[s] = "await" /\ s \in level /\ level \subseteq Steps /\ level \subseteq order
      /\ UNCHANGED <<defVars, run, context, main, level, order, input, late, broken, crashed>>
      /\ \A t \in Steps : t # s => pc'[t] = pc[t] /\ result'[t] = result[t]
      /\ pc'[s] \in {"await", "done"}
  BY DEF IInv, AwaitInv, TypeOK, Answer, Fail, PollCancel, StepThrows, Return
<1>2. \A t \in Steps : pc'[t] = "await" => pc[t] = "await"
  BY <1>1
<1>3. run # "none"
  BY <1>1 DEF IInv, RowInv
<1>4. \A t \in Steps : t # s => step'[t] = step[t]
  BY <1>1 DEF TypeOK, Answer, Fail, PollCancel, StepThrows, WriteStep
<1>5. run # "running" => step' = step
  BY <1>3, <1>1 DEF TypeOK, Terminal, Answer, Fail, PollCancel, StepThrows, WriteStep
<1>6. run = "running" => \/ pc'[s] = "await" /\ step'[s] = "running"
                         \/ pc'[s] = "done" /\ result'[s] = "ok" /\ step'[s] = "completed"
                         \/ pc'[s] = "done" /\ result'[s] = "failed" /\ step'[s] = "failed"
                         \/ pc'[s] = "done" /\ result'[s] = "thrown"
  <2> HAVE run = "running"
  <2>1. CASE Fail(s)
    BY <1>1, <2>1 DEF TypeOK, Terminal, Fail, WriteStep, Return
  <2>2. CASE Answer(s) \/ PollCancel(s) \/ StepThrows(s)
    BY <1>1, <2>2 DEF TypeOK, Terminal, Answer, PollCancel, StepThrows, WriteStep, Return
  <2> QED
    BY <2>1, <2>2
<1>7. OrphanInv'
  BY <1>1, <1>2 DEF IInv, OrphanInv
<1>8. HereInv'
  BY <1>1, <1>4, <1>6 DEF IInv, HereInv
<1>9. EndedIsClosed'
  <2>1. run \in Terminal => step' = step
    BY <1>5 DEF Terminal
  <2> QED
    BY <1>1, <2>1 DEF IInv, EndedIsClosed, OneEach, Holds, Terminal, defVars
<1>10. LevelInv' /\ AwaitInv' /\ RowInv' /\ PastInv' /\ InputInv'
  <2>1. CASE run # "deleted"
    <3>1. \A t \in Steps \ level : step'[t] = step[t]
      BY <1>1, <1>4
    <3> QED
      BY <1>1, <1>2, <1>3, <2>1, <3>1, RowFrame
  <2>2. CASE run = "deleted"
    <3>1. \A t \in Steps : step'[t] = "none"
      BY <1>5, <2>2 DEF IInv, RowInv
    <3> QED
      BY <1>1, <1>2, <2>2, <3>1, DeletedFrame
  <2> QED
    BY <2>1, <2>2
<1> QED
  BY <1>7, <1>8, <1>9, <1>10

\* cancelRun closes every step that is open.
LEMMA CancelKeeps ==
  ASSUME IInv, Cancel
  PROVE  /\ LevelInv' /\ AwaitInv' /\ RowInv' /\ OrphanInv' /\ PastInv' /\ HereInv' /\ InputInv'
         /\ EndedIsClosed'
<1>1. /\ TypeOK /\ run = "running" /\ run' = "cancelled"
      /\ UNCHANGED <<defVars, context, main, level, order, pc, result, input, late, broken>>
      /\ \A s \in Steps : step'[s] = IF step[s] \in {"pending", "running"} THEN "cancelled" ELSE step[s]
  BY DEF IInv, Cancel, Mark
<1>2. LevelInv' /\ AwaitInv' /\ RowInv' /\ PastInv' /\ InputInv'
  <2>1. /\ \A s \in Steps : step[s] \in {"completed", "failed"} => step'[s] = step[s]
        /\ \A s \in Steps : step[s] \in {"pending", "skipped", "cancelled"} =>
                             step'[s] \in {"pending", "skipped", "cancelled"}
    BY <1>1
  <2> QED
    BY <1>1, <2>1, RowFrame
<1>3. OrphanInv' /\ HereInv' /\ EndedIsClosed'
  BY <1>1 DEF OrphanInv, HereInv, EndedIsClosed
<1> QED
  BY <1>2, <1>3

\* Every step keeps the invariant.
LEMMA NextInv == ASSUME IInv, [Next]_vars PROVE IInv'
<1>0. TypeOK'
  BY StepType DEF IInv
<1> SUFFICES /\ LevelInv' /\ AwaitInv' /\ RowInv' /\ OrphanInv' /\ PastInv' /\ HereInv' /\ InputInv'
             /\ EndedIsClosed'
  BY <1>0 DEF IInv
<1>1. CASE Start
  <2>1. run = "none" /\ context' = {} /\ context = {} /\ order = {} /\ UNCHANGED <<defVars, late, crashed>>
    BY <1>1 DEF Start, IInv, RowInv
  <2>2. CASE run' = "running" /\ BeginLevel({}) /\ broken' = broken
    BY <2>1, <2>2, BeginKeeps
  <2>3. CASE Break /\ step' = [s \in Steps |-> "pending"]
    <3>1. /\ level = {} /\ level' = {} /\ order' = {} /\ broken' = TRUE /\ pc' = pc /\ main' = "ended"
          /\ run' \in {"running", "failed"}
      BY <2>1, <2>3 DEF Break, IInv, TypeOK
    <3>2. LevelInv' /\ AwaitInv' /\ RowInv'
      BY <2>1, <3>1 DEF IInv, LevelInv, AwaitInv, RowInv, OneEach, defVars
    <3>3. OrphanInv' /\ PastInv' /\ HereInv' /\ InputInv' /\ EndedIsClosed'
      BY <2>1, <2>3, <3>1 DEF OrphanInv, PastInv, HereInv, InputInv, EndedIsClosed, Terminal
    <3> QED
      BY <3>2, <3>3
  <2> QED
    BY <1>1, <2>2, <2>3 DEF Start
<1>2. CASE LevelDone
  <2>1. /\ main = "level" /\ UNCHANGED <<defVars, late, broken, crashed>>
        /\ \A s \in level : pc[s] = "done" /\ result[s] # "thrown"
    BY <1>2 DEF LevelDone
  <2>2. CASE Leave
    BY <2>1, <2>2, LeaveKeeps DEF Leave, stepVars
  <2>3. CASE EndFailed /\ run = "running" /\ context' \in {context, Merged(context)}
    BY <2>1, <2>3, EndFailedKeeps
  <2>4. CASE /\ run = "running" /\ context' = Merged(context) /\ (\A s \in level : ~Blocking(s))
             /\ BeginLevel(Merged(context)) /\ run' = run
    BY <2>1, <2>4, BeginKeeps
  <2>5. CASE /\ run = "running" /\ context' = Merged(context) /\ (\A s \in level : ~Blocking(s))
             /\ NextLevel(order) = {} /\ run' = "completed" /\ main' = "ended"
             /\ UNCHANGED <<level, order, stepVars>>
    BY <2>1, <2>5, CompletedKeeps
  <2> QED
    BY <1>2, <2>2, <2>3, <2>4, <2>5 DEF LevelDone
<1>3. CASE LevelRejected
  <2>1. main = "level" /\ UNCHANGED <<defVars, late, crashed>>
    BY <1>3 DEF LevelRejected
  <2>2. CASE Leave /\ broken' = broken
    BY <2>1, <2>2, LeaveKeeps DEF Leave, stepVars
  <2>3. CASE EndFailed /\ run = "running" /\ late /\ UNCHANGED <<context, broken>>
    BY <2>1, <2>3, EndFailedKeeps
  <2>4. CASE Break /\ run = "running" /\ UNCHANGED <<context, step>>
    BY <2>1, <2>4, BreakKeeps
  <2> QED
    BY <1>3, <2>2, <2>3, <2>4 DEF LevelRejected
<1>9. CASE RunThrows
  <2>1. /\ main = "level" /\ run = "running" /\ Break /\ UNCHANGED <<defVars, late, crashed>>
        /\ context' \in {context, Merged(context)} /\ step' \in {step, Closed}
    BY <1>9 DEF RunThrows
  <2> QED
    BY <2>1, BreakKeeps
<1>4. ASSUME NEW s \in Steps, Answer(s) \/ Fail(s) \/ PollCancel(s) \/ StepThrows(s)
      PROVE  /\ LevelInv' /\ AwaitInv' /\ RowInv' /\ OrphanInv' /\ PastInv' /\ HereInv' /\ InputInv'
             /\ EndedIsClosed'
  BY <1>4, StepRuns
<1>5. CASE Cancel
  BY <1>5, CancelKeeps
<1>6. CASE Delete
  <2>1. /\ run' = "deleted" /\ run # "none" /\ UNCHANGED <<defVars, level, order, pc, input>>
        /\ context' = {} /\ \A s \in Steps : step'[s] = "none"
    BY <1>6 DEF Delete
  <2> QED
    BY <2>1, DeletedFrame
<1>7. CASE Deadline \/ UNCHANGED vars
  <2>1. UNCHANGED <<dependsOn, strategy, output, run, context, main, level, order, step, pc, result, input, broken>> /\ (late => late')
    BY <1>7 DEF Deadline, vars, defVars, stepVars
  <2>2. LevelInv' /\ AwaitInv' /\ RowInv' /\ OrphanInv'
    BY <2>1 DEF IInv, LevelInv, AwaitInv, RowInv, OneEach, OrphanInv
  <2>3. PastInv' /\ HereInv' /\ InputInv' /\ EndedIsClosed'
    BY <2>1 DEF IInv, PastInv, Passed, HereInv, InputInv, Given, Holds, OneEach, EndedIsClosed
  <2> QED
    BY <2>2, <2>3
<1>8. CASE Crash
  BY <1>8, LeaveKeeps DEF Crash
<1> QED
  BY <1>1, <1>2, <1>3, <1>4, <1>5, <1>6, <1>7, <1>8, <1>9 DEF Next

\* The inductive invariant holds in every reachable state.
THEOREM Invariance == Spec => []IInv
BY InitInv, NextInv, PTL DEF Spec

\* The variables of a run keep their types, and no step exceeds its attempts.
THEOREM TypeCorrect == Spec => []TypeOK
BY Invariance, PTL DEF IInv

(***************************************************************************)
(* For any acyclic pipeline, whatever names its outputs have and share: no *)
(* level is begun before the steps it depends on have completed, or failed *)
(* under the strategy continue, and under the name of each executeStep is  *)
(* given its output or that of a step which ran beside or after it.        *)
(***************************************************************************)
THEOREM InputsAreThere == Spec => []InputComplete
<1>1. IInv => InputComplete
  <2> SUFFICES ASSUME IInv, NEW s \in Steps, step[s] \in {"running", "completed"},
                      NEW d \in dependsOn[s]
               PROVE  Given(s, d)
    <3>1. ASSUME IInv, NEW s \in Steps, step[s] \in {"running", "completed"} PROVE OneEach(input[s])
      <4>1. s \in order
        BY <3>1 DEF IInv, RowInv, PastInv
      <4> QED
        BY <3>1, <4>1 DEF IInv, LevelInv
    <3> QED
      BY <3>1 DEF InputComplete, Given
  <2>1. run \notin {"none", "deleted"}
    BY DEF IInv, RowInv
  <2>2. s \in order
    BY <2>1 DEF IInv, PastInv
  <2> QED
    BY <2>1, <2>2 DEF IInv, InputInv
<1> QED
  BY <1>1, Invariance, PTL

(***************************************************************************)
(* A run that ends by itself, by its deadline or by a cancellation leaves  *)
(* no step pending or running (one that ends in the catch of start may);   *)
(* and a run that completed has been through every step of the pipeline.   *)
(***************************************************************************)
THEOREM EndedLeavesNothingOpen == Spec => []EndedIsClosed
BY Invariance, PTL DEF IInv
-----------------------------------------------------------------------------
\* The store refuses every write to a run that has ended (updateRun, updateStep).
LEMMA RowsFrozen ==
  ASSUME [Next]_vars, run \in Terminal
  PROVE  run' = "deleted" \/ UNCHANGED <<run, step, context>>
<1> USE DEF Terminal
<1>1. CASE Start \/ Cancel
  BY <1>1 DEF Start, Cancel
<1>2. CASE LevelDone
  BY <1>2 DEF LevelDone, Leave, stepVars
<1>3. CASE LevelRejected \/ RunThrows
  BY <1>3 DEF LevelRejected, RunThrows, Leave, stepVars
<1>4. ASSUME NEW s \in Steps, Answer(s) \/ Fail(s) \/ PollCancel(s) \/ StepThrows(s)
      PROVE UNCHANGED <<run, step, context>>
  BY <1>4 DEF Answer, Fail, PollCancel, StepThrows, WriteStep
<1>5. CASE Delete \/ Deadline \/ Crash
  BY <1>5 DEF Delete, Deadline, Crash, stepVars
<1>6. CASE UNCHANGED vars
  BY <1>6 DEF vars, stepVars
<1> QED
  BY <1>1, <1>2, <1>3, <1>4, <1>5, <1>6 DEF Next

\* A step that outlives its run has missed the deadline and gives up, or executeRun has thrown.
LEMMA NoLateRetry ==
  ASSUME IInv, [Next]_vars, run \in Terminal
  PROVE  attempt' = attempt \/ (broken /\ ~late)
<1> USE DEF Terminal
<1>1. CASE Start \/ Cancel \/ Delete \/ Deadline \/ Crash \/ UNCHANGED vars
  BY <1>1 DEF Start, Cancel, Delete, Deadline, Crash, vars, stepVars
<1>2. CASE LevelDone \/ LevelRejected \/ RunThrows
  BY <1>2 DEF LevelDone, LevelRejected, RunThrows, Leave, stepVars
<1>3. ASSUME NEW s \in Steps, Answer(s) \/ PollCancel(s) \/ StepThrows(s) PROVE attempt' = attempt
  BY <1>3 DEF Answer, PollCancel, StepThrows
<1>4. ASSUME NEW s \in Steps, Fail(s), ~(broken /\ ~late) PROVE attempt' = attempt
  <2>1. late
    BY <1>4 DEF Fail, IInv, OrphanInv
  <2> QED
    BY <1>4, <2>1 DEF Fail, TriesAgain
<1> QED
  BY <1>1, <1>2, <1>3, <1>4 DEF Next

(***************************************************************************)
(* A run that has ended, and its steps, stay as they are, whatever         *)
(* orphaned steps and late timers still do; and no agent is asked again    *)
(* for it, unless it ended in the catch of start before its deadline.      *)
(***************************************************************************)
THEOREM EndedForGood == Spec => EndedIsFinal
<1>1. IInv /\ [Next]_vars =>
        [(run \in Terminal) =>
           /\ attempt' = attempt \/ (broken /\ ~late)
           /\ run' = "deleted" \/ UNCHANGED <<run, step, context>>]_vars
  BY RowsFrozen, NoLateRetry
<1> QED
  BY Invariance, <1>1, PTL DEF Spec, EndedIsFinal
=============================================================================
