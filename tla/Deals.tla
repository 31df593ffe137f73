------------------------------- MODULE Deals --------------------------------
(***************************************************************************)
(* The escrow of src/src/deals and src/src/bot: the deals table, the       *)
(* buttons of the deal bot, the deal tools, the verification poller, the   *)
(* payment verifier and the executor that hands over the agent's side.     *)
(*                                                                         *)
(* A verifier is a call in progress that verifies and executes deals: a    *)
(* poll of the background poller (polls overlap, since setInterval does    *)
(* not wait for them) or a call of the deal_verify_payment tool.  Each of  *)
(* its steps is the code between two awaits.                               *)
(***************************************************************************)
EXTENDS Integers, Sequences, FiniteSets

CONSTANTS
  DealIds,
  UserGives, AgentGives,    \* the assets of each deal: "ton" or "gift"
  TonPayments,              \* transactions users may send to the agent's wallet
  GiftPayments,             \* gifts users may send to the agent
  NoPayment,
  Polls, Tools,             \* bound: polls and tool calls at the same time
  MaxRetries,               \* DEALS_CONFIG.verification.maxRetries
  PollLimit,                \* LIMIT of getDealsAwaitingVerification
  MaxCrashes                \* bound: how often the process may die

Payments  == TonPayments \cup GiftPayments
Verifiers == Polls \cup Tools
Payouts   == Verifiers \X DealIds
Assets    == {"ton", "gift"}

ASSUME DealsAssumption ==
  /\ DealIds # {}
  /\ UserGives \in [DealIds -> Assets]
  /\ AgentGives \in [DealIds -> Assets]
  /\ TonPayments \cap GiftPayments = {}
  /\ NoPayment \notin Payments
  /\ Polls \cap Tools = {}
  /\ MaxRetries \in Nat \ {0}
  /\ PollLimit \in Nat \ {0}
  /\ MaxCrashes \in Nat

VARIABLES
  \* the deals table
  status,       \* status; "none" before the row exists
  due,          \* expires_at has passed
  claims,       \* the deals in the order of their payment_claimed_at
  evidence,     \* user_payment_tx_hash or user_payment_gift_msgid
  locked,       \* agent_sent_at is set
  txStatus,     \* agent_sent_tx_status
  \* the other tables
  used,         \* used_transactions
  journal,      \* entries of the business journal for a deal
  credited,     \* how often a deal was counted in user_trade_stats
  \* the world
  settles,      \* the deals a payment that has arrived can settle
  given,        \* the deals whose gift has left the agent
  outcome, paid, stray,         \* the TON payouts, as in module Transfer
  \* the process
  retry,        \* retryMap
  pc, cur, seen, found, todo,   \* the verifiers' control state and locals
  granted,      \* transfer tool calls that have passed hasVerifiedDeal
  crashes

INSTANCE Transfer WITH Ops <- Payouts

rowVars    == <<status, due, claims, evidence, locked, txStatus>>
bookVars   == <<used, journal, credited>>
payoutVars == <<outcome, paid, stray>>
worldVars  == <<settles, given, payoutVars>>
callVars   == <<pc, cur, seen, found, todo>>
vars == <<rowVars, bookVars, worldVars, retry, callVars, granted, crashes>>

Statuses == {"none", "proposed", "accepted", "payment_claimed", "verified", "completed",
             "declined", "expired", "cancelled", "failed"}
Places   == {"idle", "loop", "verify", "found", "exec", "send", "notify", "report"}

TypeOK ==
  /\ status \in [DealIds -> Statuses]
  /\ due \in [DealIds -> BOOLEAN]
  /\ claims \in Seq(DealIds)
  /\ evidence \in [DealIds -> Payments \cup {NoPayment}]
  /\ locked \in [DealIds -> BOOLEAN]
  /\ txStatus \in [DealIds -> {"none", "pending", "confirmed"}]
  /\ used \subseteq TonPayments
  /\ journal \in [DealIds -> Nat]
  /\ credited \in [DealIds -> Nat]
  /\ settles \in [Payments -> SUBSET DealIds]
  /\ given \subseteq DealIds
  /\ TransferTypeOK
  /\ retry \in [DealIds -> 0..MaxRetries]
  /\ pc \in [Verifiers -> Places]
  /\ cur \in [Verifiers -> DealIds]
  /\ seen \in [Verifiers -> 0..MaxRetries]
  /\ found \in [Verifiers -> Payments \cup {NoPayment}]
  /\ todo \in [Verifiers -> SUBSET DealIds]
  /\ granted \subseteq DealIds
  /\ crashes \in 0..MaxCrashes

Init ==
  /\ status = [d \in DealIds |-> "none"]
  /\ due = [d \in DealIds |-> FALSE]
  /\ claims = <<>>
  /\ evidence = [d \in DealIds |-> NoPayment]
  /\ locked = [d \in DealIds |-> FALSE]
  /\ txStatus = [d \in DealIds |-> "none"]
  /\ used = {}
  /\ journal = [d \in DealIds |-> 0]
  /\ credited = [d \in DealIds |-> 0]
  /\ settles = [p \in Payments |-> {}]
  /\ given = {}
  /\ TransferInit
  /\ retry = [d \in DealIds |-> 0]
  /\ pc = [v \in Verifiers |-> "idle"]
  /\ cur = [v \in Verifiers |-> CHOOSE d \in DealIds : TRUE]
  /\ seen = [v \in Verifiers |-> 0]
  /\ found = [v \in Verifiers |-> NoPayment]
  /\ todo = [v \in Verifiers |-> {}]
  /\ granted = {}
  /\ crashes = 0

PaidOut(d) == d \in given \/ \E v \in Verifiers : <<v, d>> \in paid
-----------------------------------------------------------------------------
(* The bot's buttons, the tools that change a row at once, and the expiry  *)
(* timer.  Each is a read of the row and an update with no await between.  *)

SetStatus(d, s) ==
  /\ status' = [status EXCEPT ![d] = s]
  /\ UNCHANGED <<evidence, locked, txStatus, bookVars, worldVars, retry, callVars,
                 granted, crashes>>

\* deal_propose: a proposal that passed the strategy check gets its row.
Propose(d) ==
  /\ status[d] = "none"
  /\ SetStatus(d, "proposed")
  /\ UNCHANGED <<due, claims>>

\* expires_at passes.
Lapse(d) ==
  /\ status[d] \in {"proposed", "accepted"}
  /\ ~due[d]
  /\ due' = [due EXCEPT ![d] = TRUE]
  /\ UNCHANGED <<status, claims, evidence, locked, txStatus, bookVars, worldVars, retry,
                 callVars, granted, crashes>>

\* handleAccept: the user has five more minutes to pay.
Accept(d) ==
  /\ status[d] = "proposed"
  /\ ~due[d]
  /\ SetStatus(d, "accepted")
  /\ due' = [due EXCEPT ![d] = FALSE]
  /\ UNCHANGED claims

Decline(d) ==
  /\ status[d] = "proposed"
  /\ ~due[d]
  /\ SetStatus(d, "declined")
  /\ UNCHANGED <<due, claims>>

\* handleSent: from here on the poller looks for the payment.
Sent(d) ==
  /\ status[d] = "accepted"
  /\ ~due[d]
  /\ SetStatus(d, "payment_claimed")
  /\ claims' = Append(claims, d)
  /\ UNCHANGED due

\* Any button, an inline query or deal_verify_payment on a deal that is due.
ExpireOnTouch(d) ==
  /\ status[d] \in {"proposed", "accepted"}
  /\ due[d]
  /\ SetStatus(d, "expired")
  /\ UNCHANGED <<due, claims>>

\* The expiry timer expires all stale deals in one UPDATE.
ExpireStale ==
  /\ \E d \in DealIds : status[d] \in {"proposed", "accepted"} /\ due[d]
  /\ status' = [d \in DealIds |->
                  IF status[d] \in {"proposed", "accepted"} /\ due[d] THEN "expired" ELSE status[d]]
  /\ UNCHANGED <<due, claims, evidence, locked, txStatus, bookVars, worldVars, retry,
                 callVars, granted, crashes>>

\* deal_cancel
Cancel(d) ==
  /\ status[d] \in {"proposed", "accepted"}
  /\ SetStatus(d, "cancelled")
  /\ UNCHANGED <<due, claims>>
-----------------------------------------------------------------------------
(* The users.  They may pay at any time, twice, too late, or not at all.   *)

UserPays(p, D) ==
  /\ settles[p] = {}
  /\ D # {}
  /\ settles' = [settles EXCEPT ![p] = D]
  /\ UNCHANGED <<rowVars, bookVars, given, payoutVars, retry, callVars, granted, crashes>>

\* A TON transaction names one deal in its memo.
UserSendsTon(p, d) ==
  /\ status[d] # "none"
  /\ UserGives[d] = "ton"
  /\ UserPays(p, {d})

\* A gift names none: it fits every open deal for that gift by that user.
UserSendsGift(p) ==
  UserPays(p, {d \in DealIds : status[d] # "none" /\ UserGives[d] = "gift"})
-----------------------------------------------------------------------------
(* Verification.                                                           *)

Awaiting == {d \in DealIds : status[d] = "payment_claimed"}

\* ORDER BY payment_claimed_at
Before(d, e) ==
  \E i, j \in 1..Len(claims) : i < j /\ claims[i] = d /\ claims[j] = e

Oldest == {d \in Awaiting : Cardinality({e \in Awaiting : Before(e, d)}) < PollLimit}

\* poll(): one SELECT takes the oldest claims.
PollStart(v) ==
  /\ pc[v] = "idle"
  /\ Awaiting # {}
  /\ todo' = [todo EXCEPT ![v] = Oldest]
  /\ pc' = [pc EXCEPT ![v] = "loop"]
  /\ UNCHANGED <<rowVars, bookVars, worldVars, retry, cur, seen, found, granted, crashes>>

PollEnd(v) ==
  /\ pc[v] = "loop"
  /\ todo[v] = {}
  /\ pc' = [pc EXCEPT ![v] = "idle"]
  /\ UNCHANGED <<rowVars, bookVars, worldVars, retry, cur, seen, found, todo, granted, crashes>>

\* The poll takes up the oldest deal it has not dealt with.
Takes(v, d) ==
  /\ pc[v] = "loop"
  /\ d \in todo[v]
  /\ \A e \in todo[v] : ~Before(e, d)
  /\ todo' = [todo EXCEPT ![v] = @ \ {d}]

\* Plausible bug: one retry too many.
PollVerifyOnceMore(v, d) ==
  /\ Takes(v, d)
  /\ retry[d] <= MaxRetries
  /\ cur' = [cur EXCEPT ![v] = d]
  /\ seen' = [seen EXCEPT ![v] = retry[d]]
  /\ pc' = [pc EXCEPT ![v] = "verify"]
  /\ UNCHANGED <<rowVars, bookVars, worldVars, retry, found, granted, crashes>>

\* verifyDeal: the retry count is read here, and written after the await.
PollVerify(v, d) ==
  /\ Takes(v, d)
  /\ retry[d] < MaxRetries
  /\ cur' = [cur EXCEPT ![v] = d]
  /\ seen' = [seen EXCEPT ![v] = retry[d]]
  /\ pc' = [pc EXCEPT ![v] = "verify"]
  /\ UNCHANGED <<rowVars, bookVars, worldVars, retry, found, granted, crashes>>

\* handleTimeout, up to its first await.
PollTimeout(v, d) ==
  /\ Takes(v, d)
  /\ retry[d] >= MaxRetries
  /\ status[d] = "payment_claimed"
  /\ status' = [status EXCEPT ![d] = "failed"]
  /\ cur' = [cur EXCEPT ![v] = d]
  /\ pc' = [pc EXCEPT ![v] = "report"]
  /\ UNCHANGED <<due, claims, evidence, locked, txStatus, bookVars, worldVars, retry, seen, found,
                 granted, crashes>>

\* handleTimeout on a deal that is no longer claimed.
PollForget(v, d) ==
  /\ Takes(v, d)
  /\ retry[d] >= MaxRetries
  /\ status[d] # "payment_claimed"
  /\ retry' = [retry EXCEPT ![d] = 0]
  /\ UNCHANGED <<rowVars, bookVars, worldVars, pc, cur, seen, found, granted, crashes>>

\* The rest of handleTimeout.
PollReport(v) ==
  /\ pc[v] = "report"
  /\ retry' = [retry EXCEPT ![cur[v]] = 0]
  /\ pc' = [pc EXCEPT ![v] = "loop"]
  /\ UNCHANGED <<rowVars, bookVars, worldVars, cur, seen, found, todo, granted, crashes>>

\* The notice cannot be sent, and the error ends the poll.
PollReportError(v) ==
  /\ pc[v] = "report"
  /\ pc' = [pc EXCEPT ![v] = "idle"]
  /\ todo' = [todo EXCEPT ![v] = {}]
  /\ UNCHANGED <<rowVars, bookVars, worldVars, retry, cur, seen, found, granted, crashes>>

\* deal_verify_payment on an accepted deal that is not due.
ToolStart(v, d) ==
  /\ pc[v] = "idle"
  /\ status[d] = "accepted"
  /\ ~due[d]
  /\ cur' = [cur EXCEPT ![v] = d]
  /\ pc' = [pc EXCEPT ![v] = "verify"]
  /\ UNCHANGED <<rowVars, bookVars, worldVars, retry, seen, found, todo, granted, crashes>>

(***************************************************************************)
(* verifyPayment has read the history: a transaction that names the deal   *)
(* and is not in used_transactions is entered there at once.               *)
(***************************************************************************)
FindTon(v, p) ==
  /\ pc[v] = "verify"
  /\ UserGives[cur[v]] = "ton"
  /\ cur[v] \in settles[p]
  /\ p \notin used
  /\ used' = used \cup {p}
  /\ found' = [found EXCEPT ![v] = p]
  /\ pc' = [pc EXCEPT ![v] = "found"]
  /\ UNCHANGED <<rowVars, journal, credited, worldVars, retry, cur, seen, todo, granted, crashes>>

\* isGiftPaymentUsed filters the gifts; nothing is reserved yet.
FindGift(v, p) ==
  /\ pc[v] = "verify"
  /\ UserGives[cur[v]] = "gift"
  /\ cur[v] \in settles[p]
  /\ \A e \in DealIds : evidence[e] # p
  /\ found' = [found EXCEPT ![v] = p]
  /\ pc' = [pc EXCEPT ![v] = "found"]
  /\ UNCHANGED <<rowVars, bookVars, worldVars, retry, cur, seen, todo, granted, crashes>>

\* Plausible bug: a failed lookup does not count as a retry.
FindNothingUncounted(v) ==
  /\ pc[v] = "verify"
  /\ pc' = [pc EXCEPT ![v] = IF v \in Polls THEN "loop" ELSE "idle"]
  /\ UNCHANGED <<rowVars, bookVars, worldVars, retry, cur, seen, found, todo, granted, crashes>>

\* Nothing was found, or the lookup failed.
FindNothing(v) ==
  /\ pc[v] = "verify"
  /\ retry' = IF v \in Polls THEN [retry EXCEPT ![cur[v]] = seen[v] + 1] ELSE retry
  /\ pc' = [pc EXCEPT ![v] = IF v \in Polls THEN "loop" ELSE "idle"]
  /\ UNCHANGED <<rowVars, bookVars, worldVars, cur, seen, found, todo, granted, crashes>>

\* A poll takes up its next deal, a tool call returns.
Return(v) ==
  /\ pc' = [pc EXCEPT ![v] = IF v \in Polls THEN "loop" ELSE "idle"]
  /\ retry' = IF v \in Polls THEN [retry EXCEPT ![cur[v]] = 0] ELSE retry
  /\ UNCHANGED <<cur, seen, found, todo, granted, crashes>>

Expected(v) == IF v \in Polls THEN "payment_claimed" ELSE "accepted"

\* Plausible bug: the UPDATE does not check that the gift is still unclaimed.
VerifiableSharedGift(v) == status[cur[v]] = Expected(v)

\* Plausible bug: the UPDATE does not check the status it expects.
VerifiableAnyStatus(v) ==
  UserGives[cur[v]] = "gift" => \A e \in DealIds : evidence[e] # found[v]

(***************************************************************************)
(* The guarded UPDATE to 'verified' (handleVerified, the tool and          *)
(* claimGiftPayment): it applies if the status is still the expected one   *)
(* and, for a gift, if no deal has been paid with it.                      *)
(***************************************************************************)
Verifiable(v) ==
  /\ status[cur[v]] = Expected(v)
  /\ UserGives[cur[v]] = "gift" => \A e \in DealIds : evidence[e] # found[v]

Verify(v) ==
  /\ pc[v] = "found"
  /\ Verifiable(v)
  /\ status' = [status EXCEPT ![cur[v]] = "verified"]
  /\ evidence' = [evidence EXCEPT ![cur[v]] = found[v]]
  /\ pc' = [pc EXCEPT ![v] = "exec"]
  /\ UNCHANGED <<due, claims, locked, txStatus, bookVars, worldVars, retry, cur, seen, found,
                 todo, granted, crashes>>

VerifyLost(v) ==
  /\ pc[v] = "found"
  /\ ~Verifiable(v)
  /\ Return(v)
  /\ UNCHANGED <<rowVars, bookVars, worldVars>>
-----------------------------------------------------------------------------
(* executeDeal.                                                            *)

\* Plausible bug: hasVerifiedDeal and the executor accept any deal not yet sent.
CanExecuteUnverified(d) == status[d] # "none" /\ ~locked[d]

CanExecute(d) == status[d] = "verified" /\ ~locked[d]

\* Plausible bug: the wallet of the user is never found.
SendableGiftOnly(d) == AgentGives[d] = "gift"

\* TON goes to the wallet the payment came from; a gift comes from none.
Sendable(d) == AgentGives[d] = "gift" \/ UserGives[d] = "ton"

\* The lock is taken and the transfer begins.
Execute(v) ==
  /\ pc[v] = "exec"
  /\ CanExecute(cur[v])
  /\ Sendable(cur[v])
  /\ locked' = [locked EXCEPT ![cur[v]] = TRUE]
  /\ pc' = [pc EXCEPT ![v] = "send"]
  /\ IF AgentGives[cur[v]] = "ton" THEN Request(<<v, cur[v]>>) ELSE UNCHANGED payoutVars
  /\ UNCHANGED <<status, due, claims, evidence, txStatus, bookVars, settles, given, retry, cur,
                 seen, found, todo, granted, crashes>>

(***************************************************************************)
(* executeDeal ends early.  A deal that is not verified or already locked  *)
(* is left alone; one whose "user wallet address [is] not discovered" is   *)
(* locked, and stays locked.                                               *)
(***************************************************************************)
ExecuteStops(v) ==
  /\ pc[v] = "exec"
  /\ ~(CanExecute(cur[v]) /\ Sendable(cur[v]))
  /\ locked' = [locked EXCEPT ![cur[v]] = @ \/ CanExecute(cur[v])]
  /\ Return(v)
  /\ UNCHANGED <<status, due, claims, evidence, txStatus, bookVars, worldVars>>

\* The row and the journal of a deal whose asset was sent.
Complete(d, ts) ==
  /\ status' = [status EXCEPT ![d] = "completed"]
  /\ txStatus' = [txStatus EXCEPT ![d] = ts]
  /\ journal' = [journal EXCEPT ![d] = @ + 1]
  /\ UNCHANGED <<due, claims, evidence, locked, used, credited>>

TonSent(v) ==
  /\ pc[v] = "send"
  /\ AgentGives[cur[v]] = "ton"
  /\ Answer(<<v, cur[v]>>, "sent")
  /\ Complete(cur[v], "confirmed")
  /\ pc' = [pc EXCEPT ![v] = "notify"]
  /\ UNCHANGED <<settles, given, retry, cur, seen, found, todo, granted, crashes>>

\* Plausible bug: a pending payout releases the lock.
TonPendingUnlocked(v) ==
  /\ pc[v] = "send"
  /\ AgentGives[cur[v]] = "ton"
  /\ Answer(<<v, cur[v]>>, "pending")
  /\ txStatus' = [txStatus EXCEPT ![cur[v]] = "pending"]
  /\ locked' = [locked EXCEPT ![cur[v]] = FALSE]
  /\ Return(v)
  /\ UNCHANGED <<status, due, claims, evidence, bookVars, settles, given>>

\* WalletTransferPendingError: the lock is kept.
TonPending(v) ==
  /\ pc[v] = "send"
  /\ AgentGives[cur[v]] = "ton"
  /\ Answer(<<v, cur[v]>>, "pending")
  /\ txStatus' = [txStatus EXCEPT ![cur[v]] = "pending"]
  /\ Return(v)
  /\ UNCHANGED <<status, due, claims, evidence, locked, bookVars, settles, given>>

\* null or any other error: failed, and the lock is released.
TonFailed(v) ==
  /\ pc[v] = "send"
  /\ AgentGives[cur[v]] = "ton"
  /\ \E a \in {"null", "error", "timeout"} : Answer(<<v, cur[v]>>, a)
  /\ IF status[cur[v]] = "verified"
     THEN /\ status' = [status EXCEPT ![cur[v]] = "failed"]
          /\ locked' = [locked EXCEPT ![cur[v]] = FALSE]
     ELSE UNCHANGED <<status, locked>>
  /\ Return(v)
  /\ UNCHANGED <<due, claims, evidence, txStatus, bookVars, settles, given>>

\* A collectible can be transferred once.
GiftSent(v) ==
  /\ pc[v] = "send"
  /\ AgentGives[cur[v]] = "gift"
  /\ cur[v] \notin given
  /\ given' = given \cup {cur[v]}
  /\ Complete(cur[v], txStatus[cur[v]])
  /\ pc' = [pc EXCEPT ![v] = "notify"]
  /\ UNCHANGED <<settles, payoutVars, retry, cur, seen, found, todo, granted, crashes>>

\* The transfer call fails, or its answer is lost.
GiftFailed(v) ==
  /\ pc[v] = "send"
  /\ AgentGives[cur[v]] = "gift"
  /\ given' \in {given, given \cup {cur[v]}}
  /\ status' = [status EXCEPT ![cur[v]] = "failed"]
  /\ locked' = [locked EXCEPT ![cur[v]] = FALSE]
  /\ Return(v)
  /\ UNCHANGED <<due, claims, evidence, txStatus, bookVars, settles, payoutVars>>

\* The user is told; only the poller keeps the trade statistics.
NotifyDone(v) ==
  /\ pc[v] = "notify"
  /\ credited' = IF v \in Polls THEN [credited EXCEPT ![cur[v]] = @ + 1] ELSE credited
  /\ Return(v)
  /\ UNCHANGED <<rowVars, used, journal, worldVars>>

\* Plausible bug: the trade is counted before the executor has answered.
NotifyErrorCounted(v) ==
  /\ pc[v] = "notify"
  /\ IF AgentGives[cur[v]] = "ton" THEN UNCHANGED <<status, locked>>
     ELSE /\ status' = [status EXCEPT ![cur[v]] = "failed"]
          /\ locked' = [locked EXCEPT ![cur[v]] = FALSE]
  /\ credited' = [credited EXCEPT ![cur[v]] = @ + 1]
  /\ Return(v)
  /\ UNCHANGED <<due, claims, evidence, txStatus, used, journal, worldVars>>

(***************************************************************************)
(* The notice cannot be sent.  The catch around the TON payout only fails  *)
(* a deal that is still verified; the catch around the gift always does.   *)
(***************************************************************************)
NotifyError(v) ==
  /\ pc[v] = "notify"
  /\ IF AgentGives[cur[v]] = "ton" THEN UNCHANGED <<status, locked>>
     ELSE /\ status' = [status EXCEPT ![cur[v]] = "failed"]
          /\ locked' = [locked EXCEPT ![cur[v]] = FALSE]
  /\ Return(v)
  /\ UNCHANGED <<due, claims, evidence, txStatus, bookVars, worldVars>>

\* The wallet pays, possibly behind the executor's back.
WalletPays(v, d) ==
  /\ Pay(<<v, d>>)
  /\ UNCHANGED <<rowVars, bookVars, settles, given, retry, callVars, granted, crashes>>

\* So does a transfer another tool had under way when the process died.
StrayLands ==
  /\ StrayPays
  /\ UNCHANGED <<rowVars, bookVars, settles, given, retry, callVars, granted, crashes>>
-----------------------------------------------------------------------------
(* telegram_transfer_collectible, which hasVerifiedDeal admits.            *)

GrantTransfer(d) ==
  /\ AgentGives[d] = "gift"
  /\ CanExecute(d)
  /\ granted' = granted \cup {d}
  /\ UNCHANGED <<rowVars, bookVars, worldVars, retry, callVars, crashes>>

TransferCollectible(d) ==
  /\ d \in granted
  /\ granted' = granted \ {d}
  /\ given' \in {given, given \cup {d}}
  /\ UNCHANGED <<rowVars, bookVars, settles, payoutVars, retry, callVars, crashes>>

\* The process dies and restarts: retryMap and every call in progress go.
Crash ==
  /\ crashes < MaxCrashes
  /\ crashes' = crashes + 1
  /\ pc' = [v \in Verifiers |-> "idle"]
  /\ todo' = [v \in Verifiers |-> {}]
  /\ retry' = [d \in DealIds |-> 0]
  /\ granted' = {}
  /\ Lose
  /\ UNCHANGED <<rowVars, bookVars, settles, given, cur, seen, found>>
-----------------------------------------------------------------------------
Row(d) ==
  \/ Propose(d) \/ Lapse(d) \/ Accept(d) \/ Decline(d) \/ Sent(d)
  \/ ExpireOnTouch(d) \/ Cancel(d) \/ GrantTransfer(d) \/ TransferCollectible(d)

\* A poll makes progress on what it has read.
PollStep(v) ==
  \/ PollEnd(v) \/ PollReport(v) \/ PollReportError(v)
  \/ \E d \in DealIds : PollVerify(v, d) \/ PollTimeout(v, d) \/ PollForget(v, d)

\* What a verifier does from the answer to its lookup to its return.
Lookup(v) ==
  \/ \E p \in TonPayments : FindTon(v, p)
  \/ \E p \in GiftPayments : FindGift(v, p)
  \/ FindNothing(v)

Settle(v) ==
  \/ Verify(v) \/ VerifyLost(v)
  \/ Execute(v) \/ ExecuteStops(v)
  \/ TonSent(v) \/ TonPending(v) \/ TonFailed(v)
  \/ GiftSent(v) \/ GiftFailed(v)
  \/ NotifyDone(v) \/ NotifyError(v)

Next ==
  \/ \E d \in DealIds : Row(d)
  \/ ExpireStale
  \/ \E p \in TonPayments, d \in DealIds : UserSendsTon(p, d)
  \/ \E p \in GiftPayments : UserSendsGift(p)
  \/ \E v \in Polls : PollStart(v) \/ PollStep(v)
  \/ \E v \in Tools, d \in DealIds : ToolStart(v, d)
  \/ \E v \in Verifiers : Lookup(v) \/ Settle(v)
  \/ \E v \in Verifiers, d \in DealIds : WalletPays(v, d)
  \/ StrayLands
  \/ Crash

(***************************************************************************)
(* The poller's timer keeps firing and every awaited call returns: lookups *)
(* and Telegram calls have network timeouts, and sendTon answers every     *)
(* call (EveryCallAnswered of WalletTx).                                   *)
(***************************************************************************)
Fairness ==
  /\ \A v \in Polls : WF_vars(PollStart(v)) /\ WF_vars(PollStep(v))
  /\ \A v \in Verifiers : WF_vars(Lookup(v)) /\ WF_vars(Settle(v))

Spec == Init /\ [][Next]_vars /\ Fairness
-----------------------------------------------------------------------------
Funded(d) == evidence[d] # NoPayment

(***************************************************************************)
(* A verified deal rests on a payment that was made for it, and no other   *)
(* deal rests on the same payment, though gifts fit several deals and      *)
(* several verifiers look at once (used_transactions, claimGiftPayment).   *)
(***************************************************************************)
FundingIsSound ==
  \A d \in DealIds :
    /\ status[d] \in {"verified", "completed"} => Funded(d)
    /\ Funded(d) => /\ d \in settles[evidence[d]]
                    /\ \A e \in DealIds \ {d} : evidence[e] # evidence[d]

(***************************************************************************)
(* The agent pays TON for a deal at most once, whatever the overlap of     *)
(* polls, tools and crashes (the lock in executeDeal).                     *)
(***************************************************************************)
PaysOutOnce ==
  \A d \in DealIds, v, w \in Verifiers : <<v, d>> \in paid /\ <<w, d>> \in paid => v = w

(***************************************************************************)
(* A deal is only completed when the agent's asset has really left, with   *)
(* one exception: a TON payout that sendTon confirmed by a transaction the *)
(* wallet still made for a transfer under way when the process died.       *)
(***************************************************************************)
CompletedIsDelivered ==
  \A d \in DealIds :
    status[d] = "completed" => PaidOut(d) \/ (AgentGives[d] = "ton" /\ stray = "paid")

(***************************************************************************)
(* A payout whose fate is unknown keeps its lock for good: no verifier     *)
(* will send again before somebody has looked at the chain (#749).         *)
(***************************************************************************)
PendingStaysLocked ==
  \A d \in DealIds : txStatus[d] = "pending" => locked[d] /\ status[d] = "verified"

(***************************************************************************)
(* The executor's promises about the agent's side of a deal together: it   *)
(* is delivered at most once, before the deal is called completed (but for *)
(* a payout mistaken after a crash), and nothing lets a second executor in *)
(* while the first payout is undecided.                                    *)
(***************************************************************************)
PayoutIsSound == PaysOutOnce /\ CompletedIsDelivered /\ PendingStaysLocked

(***************************************************************************)
(* A trade is counted in the user's statistics at most once, and only for  *)
(* a deal that stays completed and is in the journal.                      *)
(***************************************************************************)
BooksAgree ==
  \A d \in DealIds :
    /\ credited[d] <= journal[d]
    /\ credited[d] > 0 => status[d] = "completed"

Dead == {"declined", "expired", "cancelled", "failed"}

(***************************************************************************)
(* A deal that has ended without success is never revived by a verifier    *)
(* that was already looking for its payment.                               *)
(***************************************************************************)
DeadStaysDead ==
  [][\A d \in DealIds : status[d] \in Dead => status'[d] = status[d]]_vars

(***************************************************************************)
(* A claimed payment is found or times out, though overlapping polls       *)
(* overwrite each other's retry counts.                                    *)
(***************************************************************************)
ClaimResolved ==
  \A d \in DealIds : status[d] = "payment_claimed" ~> status[d] # "payment_claimed"

(***************************************************************************)
(* What deal_verify_payment says of itself: a verified deal is executed.   *)
(* It ends completed, failed, or pending on chain, unless the process dies *)
(* on the way: the poller looks at claimed payments only.                  *)
(***************************************************************************)
AutoExecutes ==
  \A d \in DealIds :
    status[d] = "verified"
      ~> \/ status[d] \in {"completed", "failed"}
         \/ txStatus[d] = "pending"
         \/ crashes > 0

(***************************************************************************)
(* No deal stands still: a claim is verified or given up, and what was     *)
(* verified is carried out, whichever poll or tool call comes first.       *)
(***************************************************************************)
DealsMoveOn == ClaimResolved /\ AutoExecutes

AsEscrow == INSTANCE Escrow WITH
  funding <- evidence,
  delivered <- {d \in DealIds : PaidOut(d)},
  closed <- {d \in DealIds : status[d] \in Dead /\ (status[d] = "failed" => ~Funded(d))}

(***************************************************************************)
(* The deals subsystem implements the escrow: the agent never delivers on  *)
(* an unfunded deal, nor is a deal funded once it was closed.              *)
(***************************************************************************)
ImplementsEscrow == AsEscrow!EscrowSpec

(***************************************************************************)
(* What docs/issue-768-analysis.md says of an unconfirmed TON payout: the  *)
(* payout lock stays set.  So a failed, unlocked deal was never paid.      *)
(***************************************************************************)
UnlockedIsUnpaid ==
  \A d \in DealIds, v \in Verifiers :
    status[d] = "failed" /\ ~locked[d] => <<v, d>> \notin paid
=============================================================================
