# A verification of teleton-agent in TLA+

Teleton is a Telegram agent that holds a TON wallet: it talks to users, runs tools chosen by a
language model, trades TON and Telegram gifts in escrowed deals, works on long tasks of its own,
runs tasks and pipelines for its user, and reports events to webhooks. This directory holds TLA+
models of the parts in which money, a message or a task can be lost through an unlucky order of
events, the TLC runs that check them on small instances, and TLAPS proofs of their safety for every
instance. `PROJECT.json` maps each definition to the lines it models.

Node runs one event loop: the code between two `await`s is atomic, and anything else can happen at
an `await`. An action of these modules is such a piece of code. SQLite calls are synchronous, so
they belong to the action around them; other processes (the command line) can run between any two.

## 1. Inventory

| Component | State | Operations | Interacts with | What makes it correct |
|---|---|---|---|---|
| Wallet send path (`ton/tx-lock`, `confirm`, `transfer`) | promise chain, seqno, logical-time snapshot, message on the wire | `withTxLock`, `sendTon`, `sendWalletTx`, `confirmWalletTx` | called by deals, tools, SDK; talks to the wallet contract | one message out at a time; an answer never lies; every call is answered |
| Deals escrow (`deals`, `bot`, deal tools) | `deals`, `used_transactions`, `user_trade_stats`, journal, `retryMap` | propose, accept, decline, claim, expire, cancel, verify, execute, report | wallet, Telegram gifts, users | one payment funds one deal; one payout per deal; dead deals stay dead; claims end |
| Autonomous tasks (`autonomous`, `memory/agent/autonomous-tasks`) | task rows, policy snapshot, `runningLoops`, `taskQueue`, the loops | start, pause, resume, stop, delete, restore, CLI writes, the loop | WebUI, CLI, tools, language model | one live loop per task; limits survive restarts; nothing stuck |
| Telegram message path (`telegram/handlers`, `debounce`, `offset-store`) | dedup cache, debounce buffers, a chain per chat, slots, offsets in memory and on disk | receive, debounce, queue, process, retry, flush | agent runtime, scheduled tasks | each message answered once, turns of a chat do not overlap, no message waits for ever |
| Scheduled tasks (`memory/agent/tasks`, `task-dependency-resolver`, `task-scheduler`, task tools) | task rows, dependencies, running set, scheduled messages | create, move, cancel, delete, trigger, claim, complete, fail, cascade, recur | message path, agent runtime | a task runs once, after its parents; what is due runs |
| Event bus and webhooks (`event-bus`, `webhook-dispatcher`) | events, webhooks, deliveries, timers, receipts | publish, fan out, deliver, retry, restart, verify inbound | all services, HTTP | open deliveries are driven and end; an inbound request counts once |
| Pipelines (`services/pipeline`) | runs, steps, context, orphaned steps | resolve levels, run, retry, time out, cancel, delete | managed agents | inputs are complete; an ended run is closed and immutable; timeouts bound it |
| Workflows | runs, cron and event triggers | run, schedule | tools, event bus | no overlap |
| Approvals and policies | approvals, rules | request, decide, consume | tools, autonomous tasks | an approval is used once, for what it was given |
| Delegation, managed agents, network | subtask trees, child processes, nonces | delegate, start, stop, restart, receive | agent runtime | trees end; no message twice |
| Sessions, memory, caches | conversation, knowledge, cached values | compact, expire, refresh | agent runtime | nothing is lost by compaction |
| Observability, learning, WebUI, API, frontend, SDK, CLI set-up, providers, sidecars | counters, files, wiring | – | everything | outside the core logic |

`PROJECT.json` lists every component with its files, and the hazards with their lines. The hard
behaviours are these:

* **Overlap.** `setInterval` does not wait for an async callback, so polls of the deal poller
  overlap each other and the verification tool. A paused autonomous loop stays in its `await` while
  `resume` starts another.
* **Answers that come too late.** The tx-lock's timer answers a caller whose transfer goes on; a
  payment is found after its deal was cancelled; a plan arrives after its task was paused.
* **Crashes between two effects.** A transfer on the wire, a lock taken in the database, a queue
  that exists only in memory.
* **Partial failure.** The asset has left and the notice to the user fails; one webhook of several
  does not answer; one step of a level fails.
* **Limits counted over several lives** of a task: pause, resume, crash and restore.
* **Two ways to the same work.** A scheduled task is started by its message, by the message's
  duplicate and by two ticks; a delivery by its timer and by hand.
* **Work nobody awaits.** The steps of a pipeline level go on after the run has timed out, or has
  been ended by a store that threw.

## 2. Plan

1. The wallet (`Transfer`, `WalletTx`), the escrow on top of its contract (`Escrow`, `Deals`) and
   the autonomous tasks (`Autonomous`), with proofs for the first two. *Done.*
2. Scheduled tasks with their dependency resolver (`ScheduledTasks`) and the Telegram message path
   with debounce, queue per chat, offset and its deferred flush (`Inbox`). *Done.*
3. Event bus and webhooks (`Webhooks`) and pipelines (`Pipelines`, with proofs). *Done.* Workflows,
   approvals, delegation, managed agents, the agent's start and stop, and the deal strategy check
   are left.
4. Proofs of the safety and action properties of every module, and of both refinements. *Done.*

## 3. Modules

**`Transfer`** is what a caller of `sendTon` is promised: funds leave at most once; `sent` means
paid; `null`, an early error and `pending` mean that no more money will leave; after the lock's
`timeout` or the death of the process it may. `stray` stands for what was under way, in anybody's
name, when the process died: once the wallet has paid such a message, `sent` may be its hash and not
the caller's.

**`WalletTx`** is the code behind that promise: the FIFO promise mutex (`queue`, whose head holds
the lock), the reading of the seqno and then of the logical time, the broadcast with its
`validUntil`, the confirmation loop, and the timer that answers the caller without releasing the
lock; against a contract that takes a message only while it is valid and only with its own seqno
(`CanLand`, `Land`, external). Time passes in ticks of 15 seconds, the greatest common divisor of
the real constants (60, 75 and 45 s are 4, 5 and 3 ticks).

**`Escrow`** is the promise of a deal: the user pays first, one payment funds one deal, the agent
delivers at most once and only on a funded deal, and what was closed unfunded stays so.

**`Deals`** is the subsystem: the rows of `deals`, the bot's buttons, the tools, the expiry timer,
the verifiers (overlapping polls and tool calls, each with its place and locals), `executeDeal`
with its lock, the transfer tool that `hasVerifiedDeal` admits, and crashes. A payout of TON is an
instance of `Transfer`, one per verifier and deal. `MCDeals` names the assets of the instances.

| Code | `Deals` |
|---|---|
| `poll`, `verifyDeal`, `handleTimeout` | `PollStart`, `PollEnd`, `PollVerify`, `PollTimeout`, `PollForget`, `PollReport`, `PollReportError` |
| `verifyPayment`, `verifyGiftReceipt`, `claimGiftPayment`, `handleVerified` | `FindTon`, `FindGift`, `FindNothing`, `Verify`, `VerifyLost` |
| `executeDeal` | `Execute`, `ExecuteStops`, `TonSent`, `TonPending`, `TonFailed`, `GiftSent`, `GiftFailed`, `NotifyDone`, `NotifyError` |
| buttons, `deal_propose`, `deal_cancel`, expiry | `Propose`, `Accept`, `Decline`, `Sent`, `Cancel`, `Lapse`, `ExpireOnTouch`, `ExpireStale` |

**`Autonomous`** is the manager's map and queue, up to `MaxLoops` loops of one task alive at a time
(each with the await it hangs in, its abort signal and the locals that survive the await), the task
row, the policy snapshot, WebUI and CLI operations, agent stop and start, crash and restore.

**`ScheduledTasks`** is the tasks table with its dependencies, the trigger messages in Saved
Messages, and executors: a handler per message and the overlapping ticks of the scheduler, each with
its place in `handleScheduledTask` or `executeTaskRecord` and the batch of dependents it has still to
trigger. A task may be created, moved, cancelled and deleted at any await. A recurring task creates
its next occurrence; `series` ties them together. `MCScheduledTasks` bounds its behaviours for the
liveness run.

| Code | `ScheduledTasks` |
|---|---|
| task tools, WebUI | `Create`, `CreateRefused`, `Move`, `Cancel`, `Delete` |
| `handleScheduledTask` | `HandleTrigger`, `NoticeSent`, `NoticeFails` |
| `TaskScheduler` | `TickStart`, `TickNext`, `TickEnd` |
| `executeTaskRecord` | `Claim`, `ClaimLost`, `Complete`, `WorkFails` |
| `TaskDependencyResolver`, `rescheduleRecurringTask` | `Trigger`, `Finish`, `Recur` |

**`Inbox`** is the way of a message in user mode: the event that GramJS fires, once or twice; the
debouncer with its full buffer; `handleMessage` with its store, its dedup cache and the offset that
it reads before and after it waits; `ChatQueue` with a chain per chat and slots that are handed on;
the answer, the failure, the retry after a rate limit; the offsets that reach the disk later.

**`Webhooks`** is publication, the later tick in which subscribers run, the loop over the webhooks
that were active at that moment, the delivery rows with their timers and open requests (each with
the snapshot of `max_retries` that it was started with; `high` is the largest of them for a delivery
and `over` the number of requests beyond it), retries by hand, update and deletion of
webhooks (`trouble` counts what users and crashes have done to it), restart, and the receipts that
protect the inbound endpoint against replay, before, over and after the whole window of a signed
timestamp. `Receive` reads the clock twice, as `verifyIncomingSignature` does. `MCWebhooks` keeps
outgoing and inbound traffic apart for TLC.

**`Pipelines`** is one run: the levels, taken from the resolver's queue one after the other (`level`
is the current one, `order` what has been taken so far), the steps of a level at once, attempts and
strategies, the deadline that both the level's race and every attempt observe, the cancellation
that steps poll for, the orphaned steps and the store that refuses their writes, deletion, crash.
Outputs are merged under their names (`Merged`), which steps may share. Any read or write of the
store may throw, and the level's timer may be a moment early: `StepThrows`, `LevelRejected`,
`RunThrows`, and the catch of `start` (`Break`), whose own write may throw again. The dependencies,
strategies, names and the timeout are variables that never change, so that one run of TLC covers every
pipeline that `MCPipelines` admits.

**`WalletTxProofs`**, **`DealsProofs`**, **`AutonomousProofs`**, **`ScheduledTasksProofs`**,
**`InboxProofs`**, **`WebhooksProofs`** and **`PipelinesProofs`** hold the theorems. Definitions called
"plausible bug" stand next to the one they could be mistaken for; each shows that a property notices
it.

## 4. Runs

| Run | Instance | Shows |
|---|---|---|
| `wallet_tx` | 3 transfers, 1 crash, timer and window of 3 ticks, messages valid for 2 | types; `LockHolds` (`OneLiveMessage`, `SentIsOurs`); `VerdictIsFinal` (`FailureIsFinal`, `PendingIsFinal`) next to a message from before the crash; `KeepsContract` (refinement of `Transfer`, across the crash); `EveryCallAnswered` |
| `deals_ton` | TON for TON, 2 payments, 2 polls, 1 tool call, 2 retries, 1 crash | types; `PayoutIsSound` (`PaysOutOnce`, `CompletedIsDelivered`, `PendingStaysLocked`); `DeadStaysDead`; `DealsMoveOn` (`ClaimResolved`, `AutoExecutes`) |
| `deals_gift` | 2 gift deals that the same 2 gifts fit, 1 poll that sees one deal at a time, 1 tool call, 1 crash | `FundingIsSound`, `BooksAgree`, `ImplementsEscrow`, `ClaimResolved` |
| `auto_tasks` | 2 tasks, 1 slot, 2 loops each, 1 agent stop, 1 crash | `Consistent` (`TypeOK`, `StepsBounded`, `QueueIsDriven`), `OneLiveLoop`, `ActiveIsOwned`, `RateLimitHolds`, `NoCallWhenHalted`, `EndedStaysEnded` |
| `auto_live` | 2 tasks, 1 slot, 1 CLI command, 1 agent stop | `QueuedStarts`, `RunsEnd` |
| `tasks_once` | 2 tasks, one of them recurring, 2 ticks, 1 edit, 1 crash | `AtMostOnce` (`TypeOK`, `RunsOnce`, `OneOccurrence`), `ParentsFirst` |
| `tasks_live` | 1 tick; 3 tasks with any dependencies, or 2 tasks, 1 edit and 1 crash | `DueRuns`, `DependentRuns` |
| `inbox` | 2 messages, a group and a private chat, 1 duplicate event, buffer of 1, 1 slot, 1 crash | `Consistent` (`TypeOK`, `SlotsExact`), `AnswersPastOffset`, `SkippedForCause`, `EveryDeliveryEnds` |
| `webhooks` | 1 event, 2 webhooks created with 1 or 2 attempts, on or off, any 2 of updates, retries by hand and crashes | `Consistent` (`TypeOK`, `OneAwaited`, `Driven`), `RequestsBounded`, `FannedOut`, `DeliveredStays`, `EverythingSettles` |
| | or, while the clock moves, no event: a timestamp 2 ahead of the clock with a window of 1, until 2 past its end; any 2 updates and crashes | `AcceptedOnce` |
| `pipelines` | every pipeline of 3 steps, timed or not, 1 retry: every strategy with separate output names, and shared names with every strategy but `retry` | types, `InputComplete`, `EndedIsClosed`, `EndedIsFinal`, `EverythingEnds` (`TimeoutBounds`, `StepsInterrupted`) |
| `deals_payout_timeout`, `auto_stale` | smallest ones | the findings below |

**Why the bounds are enough.** Three transfers give one before, one during and one after a timeout
or a crash. In the code the lock's timer (60 s) precedes the end of the window (75 s); the run makes
both equal, so that a caller may be told either `timeout` or `pending`. Two polls and a tool call
give every kind of race for a deal: two of the same kind with the same expected status, and two with
different ones. Two payments allow a double and a misplaced one; two deals the sharing of a gift; two
retries an overwritten count. One slot and two tasks make a queue; two loops a stopped one and a live
one. Two ticks and a message are three executors for one task; three tasks are a chain, a fork and a
join. Two messages and a duplicate are enough to fill a buffer, to overtake and to wait for a slot.
Two webhooks are one behind another, and two attempts a first and a last; of the three kinds of
trouble a delivery can meet, any two may come together. For the inbound window the clock runs from
before the first acceptable moment to past the last. Three steps make every shape of two levels and
the chain of three, and every way to share names. Retries do not touch the outputs, so `MCPipelines`
does not combine them with shared names. `MCWebhooks` does not let the clock of the inbound requests
move once an event is published, as deliveries do not read it; `MCScheduledTasks` leaves the third
task out once something was edited or the process died. What these modules cut off are steps of
users, of the clock and of the environment, never a step that is assumed to be fair. For the safety and action properties, what the bounds cut off is covered by
the proofs.

**Deadlock** is checked in the wallet's run, whose last state stutters through the clock. The other
systems may really come to rest: all deals over, all tasks ended, all messages answered.

**Fairness.** All of it is weak fairness, which is what an event loop gives a callback that is ready.
`WalletTx`: time passes and every step of an operation that can be taken is (network calls have
timeouts; the confirmation loop ends by the clock). `Deals`: the poller's timer fires and every
awaited call returns; nothing is assumed of users, buttons or the tool, and a lookup may always find
nothing. `Autonomous`: the awaits of a loop return (planning has its own timer, tool, LLM and
Telegram calls theirs); nothing is assumed of pause, resume or restore. `ScheduledTasks`: the
scheduler's interval fires, what an executor awaits returns, and a message sent to Saved Messages is
delivered. `Inbox`: the debounce timer fires, and what a delivery awaits returns; nothing is assumed
of users. `Webhooks`: timers fire, a request ends (it has a timeout of 5 seconds), and the loop goes
on; nobody need update, retry or restart. `Pipelines`: timers and promises only; an agent may never
answer.

## 5. Findings

Two runs end in a violation, each of a sentence the repository states.

* `deals_payout_timeout`: the tx-lock's timer answers with a plain `Error`, which `executeDeal`
  treats as a failure and unlocks the deal; the transfer then lands. The analysis of issue 768 says
  that the lock stays set for an unconfirmed transfer.
* `auto_stale`: planning fails in a loop that was paused while the task was resumed: the old loop
  marks the task failed, although `throwIfAborted` promises that it cannot.

**Known divergences without a run.** Hazards met while modelling that the code does not guard
against; the properties are stated so that they except exactly these cases.

* Wallet: the first external-in transaction behind the snapshot is taken for the caller's own
  (`confirm.ts:67`). `confirm.ts:49` says "the tx-lock serialises our sends, so the match is
  unambiguous", but the lock does not outlive the process: a message broadcast before a crash may
  land behind the snapshot of a transfer made after the restart, which then reports success though
  its own funds have not left. `Transfer` says so (`stray`).
* Deals: a gift has been transferred and the deal completed, the notice to the user throws, and the
  same `catch` marks the deal failed because the "send didn't complete" (`deals/executor.ts:237`).
  The tool enters a transaction in `used_transactions`, loses the status to the "sent" button, and
  the poller then reports "Payment not detected" for it (`verification-poller.ts:342`). A gift given
  for TON takes the lock and is never executed (`executor.ts:80`), so `AutoExecutes` is checked for
  the other pairs of assets. A deal verified just before a crash is not resumed. A payout that
  `sendTon` confirms by a transfer from before a crash completes the deal though its own TON has
  not left; `CompletedIsDelivered` excepts it.
* Autonomous tasks: `resume` ignores `maxParallelTasks` (`manager.test.ts:361` names the cap); a
  spend is lost when a stopped loop's tool returns (`loop.ts:383`), and parallel loops can overdraw
  the daily budget (`loop.ts:322`); a WebUI stop and start of the agent does not restore tasks
  (`AUTONOMOUS_MODE.md:171`); a queued task cancelled on the command line is still run
  (`loop.ts:212`); a guardrail fails the task where `AUTONOMOUS_MODE.md:162` says it pauses; the
  queue is ordered by creation, not by priority (`AUTONOMOUS_MODE.md:87`).
* Scheduled tasks: a crash after the claim leaves the row `in_progress` for ever; a task cancelled
  while the agent works on it is marked done in the end (`index.ts:1601`); a dependent created after
  its parents are done, or freed by the deletion of a parent, is not triggered; one with
  `skipOnParentFailure = false` is spared by the cascade but can never run; a trigger message that
  cannot be sent fails the dependent without a cascade.
* Message path: a message that a later one of its chat overtakes is skipped as "Already processed";
  a buffer created while a full one is flushed is replaced and its messages are lost
  (`debounce.ts:62`); the retry after a rate limit sends an answer and writes no offset
  (`handlers.ts:676`), so a duplicate of its message, once the dedup cache has forgotten it, is
  answered again; `clearPending` drops the group messages that came in during the turn.
* Webhooks: a retry by hand of a delivery that is being attempted can turn `delivered` into
  `retrying`; a webhook deleted during the loop aborts it, and those behind it never get the event
  (`webhook-dispatcher.ts:360`); events published and not dispatched are lost with the process; a
  webhook that was switched off still gets its retries. Inbound, the freshness of a timestamp and the
  expiry of receipts are judged by two reads of the clock (`webhook-dispatcher.ts:406` and `:413`): a
  replay whose call straddles the end of the window is accepted, once; `AcceptedOnce` says so.
* Pipelines: the steps of a deleted run are not interrupted and use up their retries
  (`executor.ts:507`); after a crash a run stays `running`; the `errorStrategy` given for one run is
  never read (`executor.ts:223`); a run that ends in the catch of `start` leaves its steps `pending`
  or `running`, and the steps that outlive it use up their retries (`executor.ts:99`); if that catch
  cannot write either, the run stays `running`; two steps may have one output name, and then the
  later one replaces the other's output for all steps behind both (`executor.ts:177`).

## 6. Proofs

Every invariant and every action property of the passing runs is a theorem, for all values of the
constants that satisfy the module's one named assumption. The assumptions say that limits are
natural numbers (positive where zero makes no sense) and that sets which stand for different things
are disjoint; the only one with content is `ValidFor < ConfirmTimeout` of the wallet. No bound of a
run (messages, tasks, crashes, edits) is a hypothesis. Each module proves `Spec => []IInv` for an
inductive invariant `IInv`, with a lemma or a step for each action, and derives the properties from
it.

**`WalletTxProofs`** (any number of transfers and crashes; `TimeoutAssumption`): `TypeCorrect`,
`FailureIsSafe`, `PendingIsConclusive`, `LockIsExclusive` and the refinement `ImplementsTransfer`.
None of the properties is inductive. `IInv` adds that a running operation is the head of the chain
(`LockInv`), what is known at each stage (`StageInv`), that a call's seqno is older than its snapshot
(`SeqnoInv`), that a message left over from before a crash was signed no later than the running call
read its seqno (`OlderInv`), that a committed transaction under confirmation is the newest
(`NewestInv`), that a message dies before its window closes (`WindowInv`) and that verdicts stay
true (`FinalInv`). The order "seqno, then snapshot" is what `SeqnoInv` and `OlderInv` rest on.
`LifeInv` is about one life of the process: a message is out only while its call confirms, so a
ledger that is longer than the call's snapshot is longer by the call's own transaction. From it
follows `LockHolds`. Across crashes a ledger that is longer than the snapshot is longer by the call's
own transaction or by one of a message that was out at a crash (`StrayInv`); since every settling step
then answers what became of the caller's own message or of a stray one, every step is one of
`Transfer` or a stutter.

**`DealsProofs`** (any sets of deals, payments, polls and tools, any retries and crashes; assumes only
`DealsAssumption`): every safety property of the passing runs, the action property and the
refinement.

* `IInv` joins `TypeOK`; `RetryInv` (a count read before a lookup was below the limit); `MemoInv` (a
  transaction names one deal), `FoundInv` (what a verifier holds settles its deal) and `OpenInv` (no
  deal that still waits has evidence), for `FundingIsSound`; `ExecutorInv` (a deal under execution
  is verified and locked, and by one verifier) and `PayoutInv` (a deal has at most one payout that
  was ever asked for, and an unlocked verified deal none), for `PaysOutOnce`; `PendingInv`,
  `GivenInv` and `BooksInv` for the rest.
* One lemma per part has one step per action. `PayoutFrame` and `PayoutChange` separate the steps
  that leave the payouts alone from those that ask for or answer one.
* `Moves` gives the life cycle of a status and `Grows` says that deliveries only grow, on verified
  deals; `DeadForGood` follows from the first, and the refinement theorem `DealsImplementEscrow`
  from both: every step is a `Fund`, a `Deliver`, a `Close` or a stutter.

**`AutonomousProofs`** (any number of tasks, loops, CLI commands, stops and crashes, every limit;
`AutonomousAssumption`): `BookkeepingIsSound`, `NeverTwoLoops`, `NoTaskIsStuck`, `RateLimitSurvives`,
`HaltedCallsNothing`, `EndedIsFinal`.

* `OneLiveLoop` is not inductive: a second loop is kept out by the status that `resume` and `start`
  look at, so `LiveOk` says what the status can be while a loop works. `RegOk` says where loop
  objects exist at all, which holds even after the command line has written to the table. `StepOk`
  and `RateOk` relate the row to what a loop has read before an await: the step it plans is still
  the current one, and the calls it counts in memory are on disk by the time another loop could
  begin. `QueueInv` says that a task is queued once and without a loop; `Owned` is `ActiveIsOwned` for
  one task; `QueueIsDriven` holds unconditionally.
* `SplicedQueue` and its companions say what the queue operations of the code return. The order of
  restored tasks needs that a set of numbers has a least member (`NatMin`), which comes from the
  library's theorem on well-founded relations and not from an induction.

**`ScheduledTasksProofs`** (any tasks, dependencies, messages, ticks, edits and crashes;
`ScheduledAssumption`): `StartedAtMostOnce`, `ParentsComeFirst`. An executor acts on what it read
before an await. `ExecOk` says what of it is still true: before the claim, that the parents' work has
ended well (a done row stays done or goes, and `succeeded` remembers it); after the claim, that the
row is not pending again. With `RowOk` (no work before the claim) that gives one claim per task.
A series has one open task because only its *carrier*, the task that is open or whose executor has
yet to create the next, can continue it (`OneCarrier`), and two executors never hold one task
(`OneWorker`).

**`InboxProofs`** (any messages, chats, duplicates, buffers, slots and crashes; `InboxAssumption`):
`QueuesAgree`, `NoAnswerBehindOffset`, `NeverSkippedUnanswered`.

* `QueueInv` ties the three places in which the code keeps a turn: in a chat's chain only the first
  may wait or hold a slot (`ChainOk`, `InChain`), the wait queue lists exactly those that wait
  (`WaitInv`), and `activeTasks` is the number of those that hold (`SlotInv`); a slot is handed on,
  never released and taken. `BufferInv` does the same for the debouncer. `OneTurn` (turns of a chat
  do not overlap) follows.
* `OffsetInv` is what answers rest on: an offset is the id of an answered message of its chat
  (`Witnessed`), and the agent works only above the offset, in its first attempt and in the retry. The
  last is true because the offset is read again when the turn comes, and because of `OneTurn` nobody
  moves it until the turn ends.

**`WebhooksProofs`** (any webhooks, events, retries, updates and crashes, any timestamp and window;
`WebhooksAssumption`): `NothingStranded`, `RequestsAreBounded`, `EveryHookServed`, `NoReplay`,
`DeliveredIsFinal`. `LoopInv` says that only a running loop awaits anything, and one request;
`FanInv` that exactly the webhooks served so far have rows. The bound on requests needs `Counted`: a
delivery that nobody retries by hand has one driver, a timer or one request, and the attempts on disk
count the requests but for the open one and those that a crash cut off. Retries by hand break that,
so `RetryInv` claims it of the others. `InboundInv` says that while the window lasts the receipt of an
accepted request does too, and that the request is accepted at most twice in all.

**`PipelinesProofs`** (any number of steps and retries, any dependencies and output names;
`PipelinesAssumption`):
`TypeCorrect`, which includes that no step exceeds its attempts, `InputsAreThere`,
`EndedLeavesNothingOpen` and `EndedForGood`.

* That a step has all its inputs needs that a level is taken only after what it depends on
  (`LevelInv`), that the steps of past levels have ended well and the others have not begun
  (`PastInv`), and that the results the level's race awaits agree with the rows (`HereInv`); then
  `InputInv` holds at the moment a level begins and after. `MergeHolds` shows that a merge loses no
  output but to a newer one: what replaces it is the last of its name in the level (`LastStep`), and
  nobody so far was given that.
* A completed run has been through every step. The resolver stops when its queue is empty, and
  `NothingLeftOut` shows that then no step is left: the least one left would have all its
  dependencies behind it.
* That rows are frozen follows from the guards of every writer (`RowsFrozen`); that no agent is asked
  again rests on `AwaitInv` (only steps of the current level are awaited) and `OrphanInv` (a step which
  outlives a failed or completed run has seen the deadline pass, or the run has thrown), after which
  `TriesAgain` is false (`NoLateRetry`).

**Only model-checked** is liveness under fairness, which the prover does not handle:
`EveryCallAnswered`, `DealsMoveOn`, `ClaimResolved`, `QueuedStarts`, `RunsEnd`, `DueRuns`,
`DependentRuns`, `EveryDeliveryEnds`, `EverythingSettles`, `EverythingEnds`.

## 7. Abstractions and limits

* Amounts, addresses, texts and message ids are left out; a payment stands for one of sufficient
  amount with the right memo or gift slug. The fields a deal needs are taken to be filled.
* `Deals` uses the contract `Transfer`, which `WalletTx` keeps across any number of crashes. The
  contract is weaker after a crash, as a message from before it can be taken for the next transfer's
  own; `SentIsOurs` is claimed without crashes only, `FailureIsFinal` and `PendingIsFinal` with.
* `Autonomous` keeps no amounts: the budget, the duration and the tool lists are causes of a block
  that may come at any time. The hour of the rate limit does not pass. Between the return of a loop
  and its `finally` lies a gap of microtasks in which the model lets anything happen.
  The properties of `auto_tasks` are stated for as long as nobody has used the command line, which
  writes the status alone, past the manager (`clis = 0`), and `ActiveIsOwned` also for an agent that
  was not stopped; the reasons are given under the findings.
* Gifts are transferred at most once each, as collectibles are.
* `ScheduledTasks` leaves out what the agent does with a prompt, the limit of ten dependents per
  completion, and bot mode; time is "now", "later" or no date. Two branches that the wiring in
  `index.ts` makes unreachable have no action: `executeTaskRecord` without a tool registry
  (`index.ts:217` always passes one) and `triggerTask` without an own id (the handler is only
  registered once the id is known, `index.ts:977`).
* `Inbox` leaves out the pending history of groups, commands that do not reach the agent, and bot
  mode, which keeps no offsets. The dedup cache may forget a message at any time, as its 500 entries
  and its hour allow.
* `Webhooks` leaves out the filter by event type (every active webhook matches) and the other
  subscribers of the bus; the checks of an URL appear as a failure that may come at any attempt.
* `Pipelines` has one run, since runs share nothing but a definition that each has copied. An output
  is represented by the step that wrote it. The status `pending` of a run, before its first write, is
  part of `running`.

**Not modelled** are the components marked so in `PROJECT.json`: those of plan step 3 that are left,
and those that are transport, storage, presentation or heuristics around the language model, which
have no ordering a model checker could get hold of.
