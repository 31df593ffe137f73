----------------------------- MODULE DealsProofs -----------------------------
(***************************************************************************)
(* What Deals guarantees for any number of deals, payments, overlapping    *)
(* polls and tool calls, crashes and retries: its invariants, that dead    *)
(* deals stay dead, and that it implements Escrow.                         *)
(***************************************************************************)
EXTENDS Deals, TLAPS

\* The retry count a poll has read is below the limit while it looks.
RetryInv == \A v \in Polls : pc[v] = "verify" => seen[v] < MaxRetries

\* A TON transaction names one deal.
MemoInv == \A p \in TonPayments : \A d, e \in settles[p] : d = e

\* What a verifier has found settles its deal.
FoundInv ==
  \A v \in Verifiers :
    pc[v] = "found" =>
      /\ found[v] \in Payments
      /\ cur[v] \in settles[found[v]]
      /\ UserGives[cur[v]] = "ton" => found[v] \in TonPayments

Open == {"none", "proposed", "accepted", "payment_claimed"}

\* A deal is not funded before it is verified.
OpenInv == \A d \in DealIds : status[d] \in Open => ~Funded(d)

\* The executor works on a locked, verified deal until it has completed it, and alone.
ExecutorInv ==
  /\ \A v \in Verifiers :
       /\ pc[v] = "send" => status[cur[v]] = "verified" /\ locked[cur[v]]
       /\ pc[v] = "notify" => status[cur[v]] = "completed"
  /\ \A v, w \in Verifiers :
       pc[v] \in {"send", "notify"} /\ pc[w] \in {"send", "notify"} /\ cur[v] = cur[w] => v = w

\* A payout was asked for by one verifier, for a TON deal that cannot be executed again.
PayoutInv ==
  /\ \A o \in Payouts :
       /\ outcome[o] # "idle" =>
            /\ AgentGives[o[2]] = "ton"
            /\ status[o[2]] \in {"verified", "completed", "failed"}
            /\ status[o[2]] = "verified" => locked[o[2]]
       /\ outcome[o] = "waiting" => pc[o[1]] = "send" /\ cur[o[1]] = o[2]
       /\ o \in paid => outcome[o] # "idle"
  /\ \A o, q \in Payouts :
       outcome[o] # "idle" /\ outcome[q] # "idle" /\ o[2] = q[2] => o = q

\* A deal marked pending is one whose payout was answered so.
PendingInv ==
  \A d \in DealIds :
    txStatus[d] = "pending" =>
      /\ status[d] = "verified" /\ locked[d] /\ AgentGives[d] = "ton"
      /\ \E o \in Payouts : o[2] = d /\ outcome[o] = "pending"

\* Whatever has left the agent, or may leave it at once, was paid for.
GivenInv ==
  /\ \A d \in given \cup granted : Funded(d)
  /\ \A o \in Payouts : outcome[o] # "idle" => Funded(o[2])

\* A counted trade is over; one about to be counted is in the journal.
BooksInv ==
  /\ \A d \in DealIds : credited[d] > 0 => \A v \in Verifiers : ~(pc[v] = "notify" /\ cur[v] = d)
  /\ \A v \in Verifiers : pc[v] = "notify" => credited[cur[v]] < journal[cur[v]]

IInv ==
  /\ TypeOK /\ RetryInv
  /\ MemoInv /\ FoundInv /\ OpenInv /\ FundingIsSound
  /\ ExecutorInv /\ PayoutInv /\ PendingInv
  /\ CompletedIsDelivered /\ GivenInv
  /\ BooksInv /\ BooksAgree

-----------------------------------------------------------------------------
\* The edges of a deal's life cycle.
Lifecycle ==
  {<<"none", "proposed">>,
   <<"proposed", "accepted">>, <<"proposed", "declined">>,
   <<"proposed", "expired">>, <<"proposed", "cancelled">>,
   <<"accepted", "payment_claimed">>, <<"accepted", "verified">>,
   <<"accepted", "expired">>, <<"accepted", "cancelled">>,
   <<"payment_claimed", "verified">>, <<"payment_claimed", "failed">>,
   <<"verified", "completed">>, <<"verified", "failed">>,
   <<"completed", "failed">>}

\* A step moves deals along the life cycle, and completes none it cannot account for.
Moves ==
  \A d \in DealIds :
    status'[d] # status[d] =>
      /\ <<status[d], status'[d]>> \in Lifecycle
      /\ status'[d] = "completed" => \/ d \in given'
                                     \/ \E o \in Payouts : o[2] = d /\ o \in paid'
                                     \/ AgentGives[d] = "ton" /\ stray' = "paid"

\* A step only adds: to what has left the agent, and to the evidence of unfunded deals.
Grows ==
  /\ given \subseteq given' /\ paid \subseteq paid' /\ (stray = "paid" => stray' = "paid")
  /\ \A d \in DealIds : Funded(d) => evidence'[d] = evidence[d]
  /\ \A d \in DealIds :
       d \in given' \cup granted' => d \in given \cup granted \/ status[d] = "verified"
  /\ \A o \in Payouts :
       outcome'[o] # "idle" => outcome[o] # "idle" \/ status[o[2]] = "verified"
-----------------------------------------------------------------------------
\* What Return leaves behind is well typed.
LEMMA ReturnTypes ==
  ASSUME TypeOK, RetryInv, NEW v \in Verifiers, Return(v)
  PROVE  /\ pc' \in [Verifiers -> Places]
         /\ retry' \in [DealIds -> 0..MaxRetries]
         /\ UNCHANGED <<cur, seen, found, todo, granted, crashes>>
         /\ RetryInv'
<1> USE DealsAssumption DEF TypeOK, Verifiers
<1>1. pc' \in [Verifiers -> Places] /\ UNCHANGED <<cur, seen, found, todo, granted, crashes>>
  BY DEF Return, Places
<1>2. 0 \in 0..MaxRetries
  OBVIOUS
<1>3. retry' \in [DealIds -> 0..MaxRetries]
  <2>1. CASE v \in Polls
    BY <1>2, <2>1 DEF Return
  <2>2. CASE v \notin Polls
    BY <2>2 DEF Return
  <2>. QED
    BY <2>1, <2>2
<1>4. RetryInv'
  BY DEF Return, RetryInv
<1>. QED
  BY <1>1, <1>3, <1>4

\* Every step keeps the types and the bound of the retry counts.
LEMMA TypeStep ==
  ASSUME TypeOK, RetryInv, Next
  PROVE  TypeOK' /\ RetryInv'
<1> USE DealsAssumption
    DEF TypeOK, TransferTypeOK, rowVars, bookVars, worldVars, payoutVars, callVars, Verifiers, Payments
<1>1. ASSUME NEW d \in DealIds, Propose(d) PROVE TypeOK' /\ RetryInv'
  BY <1>1 DEF Propose, SetStatus, RetryInv, Statuses
<1>2. ASSUME NEW d \in DealIds, Lapse(d) PROVE TypeOK' /\ RetryInv'
  BY <1>2 DEF Lapse, RetryInv
<1>3. ASSUME NEW d \in DealIds, Accept(d) PROVE TypeOK' /\ RetryInv'
  BY <1>3 DEF Accept, SetStatus, RetryInv, Statuses
<1>4. ASSUME NEW d \in DealIds, Decline(d) PROVE TypeOK' /\ RetryInv'
  BY <1>4 DEF Decline, SetStatus, RetryInv, Statuses
<1>5. ASSUME NEW d \in DealIds, Sent(d) PROVE TypeOK' /\ RetryInv'
  <2>1. status' \in [DealIds -> Statuses] /\ claims' \in Seq(DealIds)
    BY <1>5 DEF Sent, SetStatus, Statuses
  <2>. QED
    BY <1>5, <2>1 DEF Sent, SetStatus, RetryInv
<1>6. ASSUME NEW d \in DealIds, ExpireOnTouch(d) PROVE TypeOK' /\ RetryInv'
  BY <1>6 DEF ExpireOnTouch, SetStatus, RetryInv, Statuses
<1>7. ASSUME NEW d \in DealIds, Cancel(d) PROVE TypeOK' /\ RetryInv'
  BY <1>7 DEF Cancel, SetStatus, RetryInv, Statuses
<1>8. ASSUME NEW d \in DealIds, GrantTransfer(d) PROVE TypeOK' /\ RetryInv'
  BY <1>8 DEF GrantTransfer, CanExecute, RetryInv
<1>9. ASSUME NEW d \in DealIds, TransferCollectible(d) PROVE TypeOK' /\ RetryInv'
  BY <1>9 DEF TransferCollectible, RetryInv
<1>10. ASSUME ExpireStale PROVE TypeOK' /\ RetryInv'
  BY <1>10 DEF ExpireStale, RetryInv, Statuses
<1>11. ASSUME NEW p \in TonPayments, NEW d \in DealIds, UserSendsTon(p, d)
      PROVE  TypeOK' /\ RetryInv'
  BY <1>11 DEF UserSendsTon, UserPays, RetryInv
<1>12. ASSUME NEW p \in GiftPayments, UserSendsGift(p) PROVE TypeOK' /\ RetryInv'
  BY <1>12 DEF UserSendsGift, UserPays, RetryInv
<1>13. ASSUME NEW v \in Polls, PollStart(v) PROVE TypeOK' /\ RetryInv'
  BY <1>13 DEF PollStart, Oldest, Awaiting, RetryInv, Places
<1>14. ASSUME NEW v \in Polls, PollEnd(v) PROVE TypeOK' /\ RetryInv'
  BY <1>14 DEF PollEnd, RetryInv, Places
<1>15. ASSUME NEW v \in Polls, PollReport(v) PROVE TypeOK' /\ RetryInv'
  <2>1. retry' \in [DealIds -> 0..MaxRetries]
    <3>1. 0 \in 0..MaxRetries
      OBVIOUS
    <3>. QED
      BY <1>15, <3>1 DEF PollReport
  <2>. QED
    BY <1>15, <2>1 DEF PollReport, RetryInv, Places
<1>16. ASSUME NEW v \in Polls, PollReportError(v) PROVE TypeOK' /\ RetryInv'
  BY <1>16 DEF PollReportError, RetryInv, Places
<1>17. ASSUME NEW v \in Polls, NEW d \in DealIds, PollVerify(v, d) PROVE TypeOK' /\ RetryInv'
  BY <1>17 DEF PollVerify, Takes, RetryInv, Places
<1>18. ASSUME NEW v \in Polls, NEW d \in DealIds, PollTimeout(v, d) PROVE TypeOK' /\ RetryInv'
  BY <1>18 DEF PollTimeout, Takes, RetryInv, Statuses, Places
<1>19. ASSUME NEW v \in Polls, NEW d \in DealIds, PollForget(v, d) PROVE TypeOK' /\ RetryInv'
  <2>1. retry' \in [DealIds -> 0..MaxRetries]
    <3>1. 0 \in 0..MaxRetries
      OBVIOUS
    <3>. QED
      BY <1>19, <3>1 DEF PollForget
  <2>. QED
    BY <1>19, <2>1 DEF PollForget, Takes, RetryInv
<1>20. ASSUME NEW v \in Tools, NEW d \in DealIds, ToolStart(v, d) PROVE TypeOK' /\ RetryInv'
  BY <1>20 DEF ToolStart, RetryInv, Places
<1>21. ASSUME NEW v \in Verifiers, NEW p \in TonPayments, FindTon(v, p) PROVE TypeOK' /\ RetryInv'
  BY <1>21 DEF FindTon, RetryInv, Places
<1>22. ASSUME NEW v \in Verifiers, NEW p \in GiftPayments, FindGift(v, p)
      PROVE  TypeOK' /\ RetryInv'
  BY <1>22 DEF FindGift, RetryInv, Places
<1>23. ASSUME NEW v \in Verifiers, FindNothing(v) PROVE TypeOK' /\ RetryInv'
  <2>1. retry' \in [DealIds -> 0..MaxRetries]
    <3>1. CASE v \in Polls
      <4>1. seen[v] + 1 \in 0..MaxRetries
        BY <1>23, <3>1 DEF FindNothing, RetryInv
      <4>. QED
        BY <1>23, <3>1, <4>1 DEF FindNothing
    <3>2. CASE v \notin Polls
      BY <1>23, <3>2 DEF FindNothing
    <3>. QED
      BY <3>1, <3>2
  <2>. QED
    BY <1>23, <2>1 DEF FindNothing, RetryInv, Places
<1>24. ASSUME NEW v \in Verifiers, Verify(v) PROVE TypeOK' /\ RetryInv'
  BY <1>24 DEF Verify, Verifiable, Expected, RetryInv, Statuses, Places
<1>25. ASSUME NEW v \in Verifiers, VerifyLost(v) PROVE TypeOK' /\ RetryInv'
  BY <1>25, ReturnTypes DEF VerifyLost
<1>26. ASSUME NEW v \in Verifiers, Execute(v) PROVE TypeOK' /\ RetryInv'
  BY <1>26 DEF Execute, CanExecute, Request, RetryInv, Places, Outcomes, Payouts
<1>27. ASSUME NEW v \in Verifiers, ExecuteStops(v) PROVE TypeOK' /\ RetryInv'
  BY <1>27, ReturnTypes DEF ExecuteStops, CanExecute
<1>28. ASSUME NEW v \in Verifiers, TonSent(v) PROVE TypeOK' /\ RetryInv'
  BY <1>28, SMTT(30) DEF TonSent, Answer, Complete, RetryInv, Statuses, Places, Answers, Outcomes, Payouts
<1>29. ASSUME NEW v \in Verifiers, TonPending(v) PROVE TypeOK' /\ RetryInv'
  BY <1>29, ReturnTypes DEF TonPending, Answer, Answers, Outcomes, Payouts
<1>30. ASSUME NEW v \in Verifiers, TonFailed(v) PROVE TypeOK' /\ RetryInv'
  <2>1. status' \in [DealIds -> Statuses] /\ locked' \in [DealIds -> BOOLEAN]
    BY <1>30, ZenonT(30) DEF TonFailed, Statuses
  <2>2. outcome' \in [Payouts -> Outcomes] /\ paid' = paid /\ stray' = stray
    BY <1>30 DEF TonFailed, Answer, Outcomes, Answers, Payouts
  <2>. QED
    BY <1>30, <2>1, <2>2, ReturnTypes DEF TonFailed
<1>31. ASSUME NEW v \in Verifiers, GiftSent(v) PROVE TypeOK' /\ RetryInv'
  <2>1. status' \in [DealIds -> Statuses] /\ journal' \in [DealIds -> Nat]
    BY <1>31 DEF GiftSent, Complete, Statuses
  <2>2. txStatus' \in [DealIds -> {"none", "pending", "confirmed"}]
    BY <1>31 DEF GiftSent, Complete
  <2>3. pc' \in [Verifiers -> Places] /\ given' \subseteq DealIds
    BY <1>31 DEF GiftSent, Places
  <2>. QED
    BY <1>31, <2>1, <2>2, <2>3 DEF GiftSent, Complete, RetryInv
<1>32. ASSUME NEW v \in Verifiers, GiftFailed(v) PROVE TypeOK' /\ RetryInv'
  BY <1>32, ReturnTypes, ZenonT(30) DEF GiftFailed, Statuses
<1>33. ASSUME NEW v \in Verifiers, NotifyDone(v) PROVE TypeOK' /\ RetryInv'
  <2>1. credited' \in [DealIds -> Nat]
    <3>1. CASE v \in Polls
      BY <1>33, <3>1 DEF NotifyDone
    <3>2. CASE v \notin Polls
      BY <1>33, <3>2 DEF NotifyDone
    <3>. QED
      BY <3>1, <3>2
  <2>. QED
    BY <1>33, <2>1, ReturnTypes DEF NotifyDone
<1>34. ASSUME NEW v \in Verifiers, NotifyError(v) PROVE TypeOK' /\ RetryInv'
  BY <1>34, ReturnTypes DEF NotifyError, Statuses
<1>35. ASSUME NEW v \in Verifiers, NEW d \in DealIds, WalletPays(v, d) PROVE TypeOK' /\ RetryInv'
  <2>1. <<v, d>> \in Payouts
    BY <1>35 DEF Payouts
  <2>. QED
    BY <1>35, <2>1 DEF WalletPays, Pay, RetryInv
<1>36. ASSUME Crash PROVE TypeOK' /\ RetryInv'
  BY <1>36 DEF Crash, Lose, RetryInv, Places, Outcomes, Payouts
<1>37. ASSUME StrayLands PROVE TypeOK' /\ RetryInv'
  BY <1>37 DEF StrayLands, StrayPays, RetryInv, Places, Outcomes, Payouts
<1>. QED
  BY <1>1, <1>2, <1>3, <1>4, <1>5, <1>6, <1>7, <1>8, <1>9, <1>10, <1>11, <1>12, <1>13, <1>14,
     <1>15, <1>16, <1>17, <1>18, <1>19, <1>20, <1>21, <1>22, <1>23, <1>24, <1>25, <1>26,
     <1>27, <1>28, <1>29, <1>30, <1>31, <1>32, <1>33, <1>34, <1>35, <1>36, <1>37
     DEF Next, Row, PollStep, Lookup, Settle

\* Payouts are pairs.
LEMMA PayoutPairs ==
  /\ \A v \in Verifiers, d \in DealIds : <<v, d>> \in Payouts
  /\ \A o \in Payouts : o[1] \in Verifiers /\ o[2] \in DealIds /\ o = <<o[1], o[2]>>
BY DEF Payouts

\* A step that leaves the TON payouts and the deals they are for alone.
QuietPayouts ==
  /\ outcome' = outcome /\ paid' = paid
  /\ \A d \in DealIds :
       AgentGives[d] = "ton" /\ status[d] \in {"verified", "completed", "failed"}
         => status'[d] = status[d] /\ (locked[d] => locked'[d])
  /\ \A w \in Verifiers :
       pc[w] = "send" /\ AgentGives[cur[w]] = "ton" => pc'[w] = pc[w] /\ cur'[w] = cur[w]

\* A step that leaves the payouts' deals, locks and senders alone keeps PayoutInv.
LEMMA PayoutFrame ==
  ASSUME TypeOK, PayoutInv, QuietPayouts
  PROVE  PayoutInv'
<1>1. ASSUME NEW o \in Payouts, outcome[o] # "idle"
      PROVE  /\ AgentGives[o[2]] = "ton"
             /\ status'[o[2]] \in {"verified", "completed", "failed"}
             /\ status'[o[2]] = "verified" => locked'[o[2]]
  <2>1. o[2] \in DealIds
    BY PayoutPairs
  <2>2. /\ AgentGives[o[2]] = "ton" /\ status[o[2]] \in {"verified", "completed", "failed"}
        /\ status[o[2]] = "verified" => locked[o[2]]
    BY <1>1 DEF PayoutInv
  <2>. QED
    BY <2>1, <2>2 DEF QuietPayouts
<1>2. ASSUME NEW o \in Payouts, outcome[o] = "waiting"
      PROVE  pc'[o[1]] = "send" /\ cur'[o[1]] = o[2]
  <2>1. o[1] \in Verifiers
    BY PayoutPairs
  <2>2. pc[o[1]] = "send" /\ cur[o[1]] = o[2] /\ AgentGives[o[2]] = "ton"
    BY <1>2 DEF PayoutInv
  <2>. QED
    BY <2>1, <2>2 DEF QuietPayouts
<1>. QED
  BY <1>1, <1>2 DEF QuietPayouts, PayoutInv

\* A verifier's payout is asked for or answered: its deal is verified and locked, or over.
LEMMA PayoutChange ==
  ASSUME TypeOK, PayoutInv,
         NEW v \in Verifiers, NEW p \in Payouts, p[1] = v, p[2] = cur[v],
         AgentGives[cur[v]] = "ton",
         NEW a, a # "idle", a = "waiting" => pc'[v] = "send" /\ cur'[v] = cur[v],
         outcome' = [outcome EXCEPT ![p] = a], paid' = paid,
         \A q \in Payouts : q # p /\ q[2] = cur[v] => outcome[q] = "idle",
         \A d \in DealIds \ {cur[v]} : locked'[d] = locked[d] /\ status'[d] = status[d],
         status'[cur[v]] \in {"verified", "completed", "failed"},
         status'[cur[v]] = "verified" => locked'[cur[v]],
         \A w \in Verifiers \ {v} : pc'[w] = pc[w] /\ cur'[w] = cur[w]
  PROVE  PayoutInv'
<1>1. outcome'[p] = a /\ \A q \in Payouts : q # p => outcome'[q] = outcome[q]
  BY DEF TypeOK, TransferTypeOK
<1>2. ASSUME NEW q \in Payouts, outcome'[q] # "idle"
      PROVE  /\ AgentGives[q[2]] = "ton"
             /\ status'[q[2]] \in {"verified", "completed", "failed"}
             /\ status'[q[2]] = "verified" => locked'[q[2]]
  <2>1. CASE q[2] = cur[v]
    BY <2>1
  <2>2. CASE q[2] # cur[v]
    <3>1. q # p /\ q[2] \in DealIds \ {cur[v]}
      BY <2>2, PayoutPairs
    <3>2. outcome[q] # "idle"
      BY <1>1, <1>2, <3>1
    <3>. QED
      BY <3>1, <3>2 DEF PayoutInv
  <2>. QED
    BY <2>1, <2>2
<1>3. ASSUME NEW q \in Payouts, outcome'[q] = "waiting"
      PROVE  pc'[q[1]] = "send" /\ cur'[q[1]] = q[2]
  <2>1. CASE q = p
    BY <1>1, <1>3, <2>1
  <2>2. CASE q # p
    <3>1. outcome[q] = "waiting" /\ q[2] # cur[v]
      BY <1>1, <1>3, <2>2
    <3>2. pc[q[1]] = "send" /\ cur[q[1]] = q[2]
      BY <3>1 DEF PayoutInv
    <3>3. q[1] \in Verifiers \ {v}
      BY <3>1, <3>2, PayoutPairs
    <3>. QED
      BY <3>2, <3>3
  <2>. QED
    BY <2>1, <2>2
<1>4. ASSUME NEW q \in Payouts, q \in paid'
      PROVE  outcome'[q] # "idle"
  BY <1>1, <1>4 DEF PayoutInv
<1>5. ASSUME NEW q \in Payouts, NEW r \in Payouts,
             outcome'[q] # "idle", outcome'[r] # "idle", q[2] = r[2]
      PROVE  q = r
  <2>1. CASE q = p \/ r = p
    BY <1>1, <1>5, <2>1
  <2>2. CASE q # p /\ r # p
    BY <1>1, <1>5, <2>2 DEF PayoutInv
  <2>. QED
    BY <2>1, <2>2
<1>. QED
  BY <1>2, <1>3, <1>4, <1>5 DEF PayoutInv

\* A verifier whose payout is awaited is the only one with a payout for that deal.
LEMMA PayoutAlone ==
  ASSUME TypeOK, PayoutInv, NEW v \in Verifiers, outcome[<<v, cur[v]>>] = "waiting"
  PROVE  /\ <<v, cur[v]>> \in Payouts
         /\ \A q \in Payouts : q # <<v, cur[v]>> /\ q[2] = cur[v] => outcome[q] = "idle"
<1>1. <<v, cur[v]>> \in Payouts
  BY PayoutPairs DEF TypeOK
<1>2. ASSUME NEW q \in Payouts, q # <<v, cur[v]>>, q[2] = cur[v], outcome[q] # "idle"
      PROVE  FALSE
  <2> DEFINE p == <<v, cur[v]>>
  <2>1. p \in Payouts /\ p[2] = cur[v] /\ outcome[p] # "idle"
    BY <1>1
  <2> HIDE DEF p
  <2>2. q = p
    BY <1>2, <2>1 DEF PayoutInv
  <2>. QED
    BY <1>2, <2>2 DEF p
<1>. QED
  BY <1>1, <1>2

\* The lock keeps every other verifier from a deal under execution.
LEMMA ExecutorStep ==
  ASSUME TypeOK, TypeOK', ExecutorInv, Next
  PROVE  ExecutorInv'
<1> USE DealsAssumption
    DEF TypeOK, TransferTypeOK, rowVars, bookVars, worldVars, payoutVars, callVars, Verifiers, Payments,
        ExecutorInv
<1>1. ASSUME NEW d \in DealIds, Propose(d) PROVE ExecutorInv'
  BY <1>1 DEF Propose, SetStatus
<1>2. ASSUME NEW d \in DealIds, Lapse(d) PROVE ExecutorInv'
  BY <1>2 DEF Lapse
<1>3. ASSUME NEW d \in DealIds, Accept(d) PROVE ExecutorInv'
  BY <1>3 DEF Accept, SetStatus
<1>4. ASSUME NEW d \in DealIds, Decline(d) PROVE ExecutorInv'
  BY <1>4 DEF Decline, SetStatus
<1>5. ASSUME NEW d \in DealIds, Sent(d) PROVE ExecutorInv'
  BY <1>5 DEF Sent, SetStatus
<1>6. ASSUME NEW d \in DealIds, ExpireOnTouch(d) PROVE ExecutorInv'
  BY <1>6 DEF ExpireOnTouch, SetStatus
<1>7. ASSUME NEW d \in DealIds, Cancel(d) PROVE ExecutorInv'
  BY <1>7 DEF Cancel, SetStatus
<1>8. ASSUME NEW d \in DealIds, GrantTransfer(d) PROVE ExecutorInv'
  BY <1>8 DEF GrantTransfer, CanExecute
<1>9. ASSUME NEW d \in DealIds, TransferCollectible(d) PROVE ExecutorInv'
  BY <1>9 DEF TransferCollectible
<1>10. ASSUME ExpireStale PROVE ExecutorInv'
  BY <1>10 DEF ExpireStale
<1>11. ASSUME NEW p \in TonPayments, NEW d \in DealIds, UserSendsTon(p, d) PROVE ExecutorInv'
  BY <1>11 DEF UserSendsTon, UserPays
<1>12. ASSUME NEW p \in GiftPayments, UserSendsGift(p) PROVE ExecutorInv'
  BY <1>12 DEF UserSendsGift, UserPays
<1>13. ASSUME NEW v \in Polls, PollStart(v) PROVE ExecutorInv'
  BY <1>13 DEF PollStart, Oldest, Awaiting
<1>14. ASSUME NEW v \in Polls, PollEnd(v) PROVE ExecutorInv'
  BY <1>14 DEF PollEnd
<1>15. ASSUME NEW v \in Polls, PollReport(v) PROVE ExecutorInv'
  BY <1>15 DEF PollReport
<1>16. ASSUME NEW v \in Polls, PollReportError(v) PROVE ExecutorInv'
  BY <1>16 DEF PollReportError
<1>17. ASSUME NEW v \in Polls, NEW d \in DealIds, PollVerify(v, d) PROVE ExecutorInv'
  BY <1>17 DEF PollVerify, Takes
<1>18. ASSUME NEW v \in Polls, NEW d \in DealIds, PollTimeout(v, d) PROVE ExecutorInv'
  BY <1>18 DEF PollTimeout, Takes
<1>19. ASSUME NEW v \in Polls, NEW d \in DealIds, PollForget(v, d) PROVE ExecutorInv'
  BY <1>19 DEF PollForget, Takes
<1>20. ASSUME NEW v \in Tools, NEW d \in DealIds, ToolStart(v, d) PROVE ExecutorInv'
  BY <1>20 DEF ToolStart
<1>21. ASSUME NEW v \in Verifiers, NEW p \in TonPayments, FindTon(v, p) PROVE ExecutorInv'
  BY <1>21 DEF FindTon
<1>22. ASSUME NEW v \in Verifiers, NEW p \in GiftPayments, FindGift(v, p) PROVE ExecutorInv'
  BY <1>22 DEF FindGift
<1>23. ASSUME NEW v \in Verifiers, FindNothing(v) PROVE ExecutorInv'
  BY <1>23 DEF FindNothing
<1>24. ASSUME NEW v \in Verifiers, Verify(v) PROVE ExecutorInv'
  BY <1>24 DEF Verify, Verifiable, Expected
<1>25. ASSUME NEW v \in Verifiers, VerifyLost(v) PROVE ExecutorInv'
  BY <1>25 DEF VerifyLost, Return
<1>26. ASSUME NEW v \in Verifiers, Execute(v) PROVE ExecutorInv'
  BY <1>26, SMTT(30) DEF Execute, CanExecute, Request
<1>27. ASSUME NEW v \in Verifiers, ExecuteStops(v) PROVE ExecutorInv'
  BY <1>27 DEF ExecuteStops, CanExecute, Return
<1>28. ASSUME NEW v \in Verifiers, TonSent(v) PROVE ExecutorInv'
  BY <1>28 DEF TonSent, Answer, Complete
<1>29. ASSUME NEW v \in Verifiers, TonPending(v) PROVE ExecutorInv'
  BY <1>29 DEF TonPending, Answer, Return
<1>30. ASSUME NEW v \in Verifiers, TonFailed(v) PROVE ExecutorInv'
  BY <1>30 DEF TonFailed, Answer, Return
<1>31. ASSUME NEW v \in Verifiers, GiftSent(v) PROVE ExecutorInv'
  BY <1>31 DEF GiftSent, Complete
<1>32. ASSUME NEW v \in Verifiers, GiftFailed(v) PROVE ExecutorInv'
  BY <1>32 DEF GiftFailed, Return
<1>33. ASSUME NEW v \in Verifiers, NotifyDone(v) PROVE ExecutorInv'
  BY <1>33 DEF NotifyDone, Return
<1>34. ASSUME NEW v \in Verifiers, NotifyError(v) PROVE ExecutorInv'
  BY <1>34 DEF NotifyError, Return
<1>35. ASSUME NEW v \in Verifiers, NEW d \in DealIds, WalletPays(v, d) PROVE ExecutorInv'
  BY <1>35 DEF WalletPays, Pay
<1>36. ASSUME Crash PROVE ExecutorInv'
  BY <1>36 DEF Crash, Lose
<1>37. ASSUME StrayLands PROVE ExecutorInv'
  BY <1>37 DEF StrayLands, StrayPays
<1>. QED
  BY <1>1, <1>2, <1>3, <1>4, <1>5, <1>6, <1>7, <1>8, <1>9, <1>10, <1>11, <1>12, <1>13, <1>14,
     <1>15, <1>16, <1>17, <1>18, <1>19, <1>20, <1>21, <1>22, <1>23, <1>24, <1>25, <1>26,
     <1>27, <1>28, <1>29, <1>30, <1>31, <1>32, <1>33, <1>34, <1>35, <1>36, <1>37
     DEF Next, Row, PollStep, Lookup, Settle

(***************************************************************************)
(* A payment funds one deal: a transaction names its deal, and a gift is   *)
(* claimed in the UPDATE that verifies.                                    *)
(***************************************************************************)
LEMMA FundingStep ==
  ASSUME TypeOK, TypeOK', MemoInv, FoundInv, OpenInv, FundingIsSound, ExecutorInv, Next
  PROVE  MemoInv' /\ FoundInv' /\ OpenInv' /\ FundingIsSound'
<1> USE DealsAssumption
    DEF TypeOK, TransferTypeOK, rowVars, bookVars, worldVars, payoutVars, callVars, Verifiers, Payments,
        MemoInv, FoundInv, OpenInv, FundingIsSound, ExecutorInv, Open, Funded
<1>1. ASSUME NEW d \in DealIds, Propose(d)
      PROVE  MemoInv' /\ FoundInv' /\ OpenInv' /\ FundingIsSound'
  BY <1>1 DEF Propose, SetStatus
<1>2. ASSUME NEW d \in DealIds, Lapse(d)
      PROVE  MemoInv' /\ FoundInv' /\ OpenInv' /\ FundingIsSound'
  BY <1>2 DEF Lapse
<1>3. ASSUME NEW d \in DealIds, Accept(d)
      PROVE  MemoInv' /\ FoundInv' /\ OpenInv' /\ FundingIsSound'
  BY <1>3 DEF Accept, SetStatus
<1>4. ASSUME NEW d \in DealIds, Decline(d)
      PROVE  MemoInv' /\ FoundInv' /\ OpenInv' /\ FundingIsSound'
  BY <1>4 DEF Decline, SetStatus
<1>5. ASSUME NEW d \in DealIds, Sent(d) PROVE MemoInv' /\ FoundInv' /\ OpenInv' /\ FundingIsSound'
  BY <1>5 DEF Sent, SetStatus
<1>6. ASSUME NEW d \in DealIds, ExpireOnTouch(d)
      PROVE  MemoInv' /\ FoundInv' /\ OpenInv' /\ FundingIsSound'
  BY <1>6 DEF ExpireOnTouch, SetStatus
<1>7. ASSUME NEW d \in DealIds, Cancel(d)
      PROVE  MemoInv' /\ FoundInv' /\ OpenInv' /\ FundingIsSound'
  BY <1>7 DEF Cancel, SetStatus
<1>8. ASSUME NEW d \in DealIds, GrantTransfer(d)
      PROVE  MemoInv' /\ FoundInv' /\ OpenInv' /\ FundingIsSound'
  BY <1>8 DEF GrantTransfer, CanExecute
<1>9. ASSUME NEW d \in DealIds, TransferCollectible(d)
      PROVE  MemoInv' /\ FoundInv' /\ OpenInv' /\ FundingIsSound'
  BY <1>9 DEF TransferCollectible
<1>10. ASSUME ExpireStale PROVE MemoInv' /\ FoundInv' /\ OpenInv' /\ FundingIsSound'
  BY <1>10 DEF ExpireStale
<1>11. ASSUME NEW p \in TonPayments, NEW d \in DealIds, UserSendsTon(p, d)
      PROVE  MemoInv' /\ FoundInv' /\ OpenInv' /\ FundingIsSound'
  BY <1>11 DEF UserSendsTon, UserPays
<1>12. ASSUME NEW p \in GiftPayments, UserSendsGift(p)
      PROVE  MemoInv' /\ FoundInv' /\ OpenInv' /\ FundingIsSound'
  BY <1>12 DEF UserSendsGift, UserPays
<1>13. ASSUME NEW v \in Polls, PollStart(v)
      PROVE  MemoInv' /\ FoundInv' /\ OpenInv' /\ FundingIsSound'
  BY <1>13 DEF PollStart, Oldest, Awaiting
<1>14. ASSUME NEW v \in Polls, PollEnd(v)
      PROVE  MemoInv' /\ FoundInv' /\ OpenInv' /\ FundingIsSound'
  BY <1>14 DEF PollEnd
<1>15. ASSUME NEW v \in Polls, PollReport(v)
      PROVE  MemoInv' /\ FoundInv' /\ OpenInv' /\ FundingIsSound'
  BY <1>15 DEF PollReport
<1>16. ASSUME NEW v \in Polls, PollReportError(v)
      PROVE  MemoInv' /\ FoundInv' /\ OpenInv' /\ FundingIsSound'
  BY <1>16 DEF PollReportError
<1>17. ASSUME NEW v \in Polls, NEW d \in DealIds, PollVerify(v, d)
      PROVE  MemoInv' /\ FoundInv' /\ OpenInv' /\ FundingIsSound'
  BY <1>17 DEF PollVerify, Takes
<1>18. ASSUME NEW v \in Polls, NEW d \in DealIds, PollTimeout(v, d)
      PROVE  MemoInv' /\ FoundInv' /\ OpenInv' /\ FundingIsSound'
  BY <1>18, SMTT(30) DEF PollTimeout, Takes
<1>19. ASSUME NEW v \in Polls, NEW d \in DealIds, PollForget(v, d)
      PROVE  MemoInv' /\ FoundInv' /\ OpenInv' /\ FundingIsSound'
  BY <1>19 DEF PollForget, Takes
<1>20. ASSUME NEW v \in Tools, NEW d \in DealIds, ToolStart(v, d)
      PROVE  MemoInv' /\ FoundInv' /\ OpenInv' /\ FundingIsSound'
  BY <1>20 DEF ToolStart
<1>21. ASSUME NEW v \in Verifiers, NEW p \in TonPayments, FindTon(v, p)
      PROVE  MemoInv' /\ FoundInv' /\ OpenInv' /\ FundingIsSound'
  BY <1>21 DEF FindTon
<1>22. ASSUME NEW v \in Verifiers, NEW p \in GiftPayments, FindGift(v, p)
      PROVE  MemoInv' /\ FoundInv' /\ OpenInv' /\ FundingIsSound'
  BY <1>22 DEF FindGift
<1>23. ASSUME NEW v \in Verifiers, FindNothing(v)
      PROVE  MemoInv' /\ FoundInv' /\ OpenInv' /\ FundingIsSound'
  BY <1>23 DEF FindNothing
<1>24. ASSUME NEW v \in Verifiers, Verify(v)
      PROVE  MemoInv' /\ FoundInv' /\ OpenInv' /\ FundingIsSound'
  <2>1. MemoInv' /\ FoundInv' /\ OpenInv'
    BY <1>24 DEF Verify, Verifiable, Expected
  <2>2. \A e \in DealIds \ {cur[v]} : evidence[e] # found[v]
    <3>1. CASE UserGives[cur[v]] = "gift"
      BY <1>24, <3>1 DEF Verify, Verifiable
    <3>2. CASE UserGives[cur[v]] = "ton"
      <4>1. found[v] \in TonPayments /\ cur[v] \in settles[found[v]] /\ found[v] # NoPayment
        BY <1>24, <3>2 DEF Verify
      <4>. QED
        BY <4>1
    <3>3. UserGives[cur[v]] \in {"ton", "gift"}
      BY DEF Assets
    <3>. QED
      BY <3>1, <3>2, <3>3
  <2>3. found[v] \in Payments /\ cur[v] \in settles[found[v]]
    BY <1>24 DEF Verify
  <2>4. /\ evidence' = [evidence EXCEPT ![cur[v]] = found[v]] /\ settles' = settles
        /\ status' = [status EXCEPT ![cur[v]] = "verified"]
    BY <1>24 DEF Verify
  <2>5. FundingIsSound'
    <3> SUFFICES ASSUME NEW d \in DealIds
                 PROVE  /\ status'[d] \in {"verified", "completed"} => Funded(d)'
                        /\ Funded(d)' => /\ d \in settles'[evidence'[d]]
                                         /\ \A e \in DealIds \ {d} : evidence'[e] # evidence'[d]
      OBVIOUS
    <3>1. CASE d = cur[v]
      <4>1. evidence'[d] = found[v] /\ \A e \in DealIds \ {d} : evidence'[e] = evidence[e]
        BY <2>4, <3>1
      <4>2. found[v] # NoPayment /\ d \in settles'[evidence'[d]]
        BY <2>3, <2>4, <3>1, <4>1
      <4>3. \A e \in DealIds \ {d} : evidence'[e] # evidence'[d]
        BY <2>2, <3>1, <4>1
      <4>. QED
        BY <4>1, <4>2, <4>3
    <3>2. CASE d # cur[v]
      BY <2>2, <2>3, <2>4, <3>2
    <3>. QED
      BY <3>1, <3>2
  <2>. QED
    BY <2>1, <2>5
<1>25. ASSUME NEW v \in Verifiers, VerifyLost(v)
      PROVE  MemoInv' /\ FoundInv' /\ OpenInv' /\ FundingIsSound'
  BY <1>25 DEF VerifyLost, Return
<1>26. ASSUME NEW v \in Verifiers, Execute(v)
      PROVE  MemoInv' /\ FoundInv' /\ OpenInv' /\ FundingIsSound'
  BY <1>26 DEF Execute, CanExecute, Request
<1>27. ASSUME NEW v \in Verifiers, ExecuteStops(v)
      PROVE  MemoInv' /\ FoundInv' /\ OpenInv' /\ FundingIsSound'
  BY <1>27 DEF ExecuteStops, CanExecute, Return
<1>28. ASSUME NEW v \in Verifiers, TonSent(v)
      PROVE  MemoInv' /\ FoundInv' /\ OpenInv' /\ FundingIsSound'
  BY <1>28, SMTT(30) DEF TonSent, Answer, Complete
<1>29. ASSUME NEW v \in Verifiers, TonPending(v)
      PROVE  MemoInv' /\ FoundInv' /\ OpenInv' /\ FundingIsSound'
  BY <1>29 DEF TonPending, Answer, Return
<1>30. ASSUME NEW v \in Verifiers, TonFailed(v)
      PROVE  MemoInv' /\ FoundInv' /\ OpenInv' /\ FundingIsSound'
  BY <1>30 DEF TonFailed, Answer, Return
<1>31. ASSUME NEW v \in Verifiers, GiftSent(v)
      PROVE  MemoInv' /\ FoundInv' /\ OpenInv' /\ FundingIsSound'
  BY <1>31 DEF GiftSent, Complete
<1>32. ASSUME NEW v \in Verifiers, GiftFailed(v)
      PROVE  MemoInv' /\ FoundInv' /\ OpenInv' /\ FundingIsSound'
  BY <1>32 DEF GiftFailed, Return
<1>33. ASSUME NEW v \in Verifiers, NotifyDone(v)
      PROVE  MemoInv' /\ FoundInv' /\ OpenInv' /\ FundingIsSound'
  BY <1>33 DEF NotifyDone, Return
<1>34. ASSUME NEW v \in Verifiers, NotifyError(v)
      PROVE  MemoInv' /\ FoundInv' /\ OpenInv' /\ FundingIsSound'
  BY <1>34, SMTT(30) DEF NotifyError, Return
<1>35. ASSUME NEW v \in Verifiers, NEW d \in DealIds, WalletPays(v, d)
      PROVE  MemoInv' /\ FoundInv' /\ OpenInv' /\ FundingIsSound'
  BY <1>35 DEF WalletPays, Pay
<1>36. ASSUME Crash PROVE MemoInv' /\ FoundInv' /\ OpenInv' /\ FundingIsSound'
  BY <1>36 DEF Crash, Lose
<1>37. ASSUME StrayLands PROVE MemoInv' /\ FoundInv' /\ OpenInv' /\ FundingIsSound'
  BY <1>37 DEF StrayLands, StrayPays
<1>. QED
  BY <1>1, <1>2, <1>3, <1>4, <1>5, <1>6, <1>7, <1>8, <1>9, <1>10, <1>11, <1>12, <1>13, <1>14,
     <1>15, <1>16, <1>17, <1>18, <1>19, <1>20, <1>21, <1>22, <1>23, <1>24, <1>25, <1>26,
     <1>27, <1>28, <1>29, <1>30, <1>31, <1>32, <1>33, <1>34, <1>35, <1>36, <1>37
     DEF Next, Row, PollStep, Lookup, Settle

\* No deal is paid out twice: a payout is asked for under the lock, which only a failed deal loses.
LEMMA PayoutStep ==
  ASSUME TypeOK, TypeOK', ExecutorInv, PayoutInv, Next
  PROVE  PayoutInv'
<1> USE DealsAssumption, PayoutPairs
    DEF rowVars, bookVars, worldVars, payoutVars, callVars, Verifiers, Payments
<1>1. ASSUME NEW d \in DealIds, Propose(d) PROVE PayoutInv'
  <2>1. QuietPayouts
    BY <1>1 DEF Propose, SetStatus, TypeOK, ExecutorInv, QuietPayouts
  <2>. QED
    BY <2>1, PayoutFrame
<1>2. ASSUME NEW d \in DealIds, Lapse(d) PROVE PayoutInv'
  <2>1. QuietPayouts
    BY <1>2 DEF Lapse, TypeOK, ExecutorInv, QuietPayouts
  <2>. QED
    BY <2>1, PayoutFrame
<1>3. ASSUME NEW d \in DealIds, Accept(d) PROVE PayoutInv'
  <2>1. QuietPayouts
    BY <1>3 DEF Accept, SetStatus, TypeOK, ExecutorInv, QuietPayouts
  <2>. QED
    BY <2>1, PayoutFrame
<1>4. ASSUME NEW d \in DealIds, Decline(d) PROVE PayoutInv'
  <2>1. QuietPayouts
    BY <1>4 DEF Decline, SetStatus, TypeOK, ExecutorInv, QuietPayouts
  <2>. QED
    BY <2>1, PayoutFrame
<1>5. ASSUME NEW d \in DealIds, Sent(d) PROVE PayoutInv'
  <2>1. QuietPayouts
    BY <1>5 DEF Sent, SetStatus, TypeOK, ExecutorInv, QuietPayouts
  <2>. QED
    BY <2>1, PayoutFrame
<1>6. ASSUME NEW d \in DealIds, ExpireOnTouch(d) PROVE PayoutInv'
  <2>1. QuietPayouts
    BY <1>6 DEF ExpireOnTouch, SetStatus, TypeOK, ExecutorInv, QuietPayouts
  <2>. QED
    BY <2>1, PayoutFrame
<1>7. ASSUME NEW d \in DealIds, Cancel(d) PROVE PayoutInv'
  <2>1. QuietPayouts
    BY <1>7 DEF Cancel, SetStatus, TypeOK, ExecutorInv, QuietPayouts
  <2>. QED
    BY <2>1, PayoutFrame
<1>8. ASSUME NEW d \in DealIds, GrantTransfer(d) PROVE PayoutInv'
  <2>1. QuietPayouts
    BY <1>8 DEF GrantTransfer, CanExecute, TypeOK, ExecutorInv, QuietPayouts
  <2>. QED
    BY <2>1, PayoutFrame
<1>9. ASSUME NEW d \in DealIds, TransferCollectible(d) PROVE PayoutInv'
  <2>1. QuietPayouts
    BY <1>9 DEF TransferCollectible, TypeOK, ExecutorInv, QuietPayouts
  <2>. QED
    BY <2>1, PayoutFrame
<1>10. ASSUME ExpireStale PROVE PayoutInv'
  <2>1. QuietPayouts
    BY <1>10 DEF ExpireStale, TypeOK, ExecutorInv, QuietPayouts
  <2>. QED
    BY <2>1, PayoutFrame
<1>11. ASSUME NEW p \in TonPayments, NEW d \in DealIds, UserSendsTon(p, d) PROVE PayoutInv'
  <2>1. QuietPayouts
    BY <1>11 DEF UserSendsTon, UserPays, TypeOK, ExecutorInv, QuietPayouts
  <2>. QED
    BY <2>1, PayoutFrame
<1>12. ASSUME NEW p \in GiftPayments, UserSendsGift(p) PROVE PayoutInv'
  <2>1. QuietPayouts
    BY <1>12 DEF UserSendsGift, UserPays, TypeOK, ExecutorInv, QuietPayouts
  <2>. QED
    BY <2>1, PayoutFrame
<1>13. ASSUME NEW v \in Polls, PollStart(v) PROVE PayoutInv'
  <2>1. QuietPayouts
    BY <1>13 DEF PollStart, Oldest, Awaiting, TypeOK, ExecutorInv, QuietPayouts
  <2>. QED
    BY <2>1, PayoutFrame
<1>14. ASSUME NEW v \in Polls, PollEnd(v) PROVE PayoutInv'
  <2>1. QuietPayouts
    BY <1>14 DEF PollEnd, TypeOK, ExecutorInv, QuietPayouts
  <2>. QED
    BY <2>1, PayoutFrame
<1>15. ASSUME NEW v \in Polls, PollReport(v) PROVE PayoutInv'
  <2>1. QuietPayouts
    BY <1>15 DEF PollReport, TypeOK, ExecutorInv, QuietPayouts
  <2>. QED
    BY <2>1, PayoutFrame
<1>16. ASSUME NEW v \in Polls, PollReportError(v) PROVE PayoutInv'
  <2>1. QuietPayouts
    BY <1>16 DEF PollReportError, TypeOK, ExecutorInv, QuietPayouts
  <2>. QED
    BY <2>1, PayoutFrame
<1>17. ASSUME NEW v \in Polls, NEW d \in DealIds, PollVerify(v, d) PROVE PayoutInv'
  <2>1. QuietPayouts
    BY <1>17 DEF PollVerify, Takes, TypeOK, ExecutorInv, QuietPayouts
  <2>. QED
    BY <2>1, PayoutFrame
<1>18. ASSUME NEW v \in Polls, NEW d \in DealIds, PollTimeout(v, d) PROVE PayoutInv'
  <2>1. QuietPayouts
    BY <1>18, SMTT(30) DEF PollTimeout, Takes, TypeOK, ExecutorInv, QuietPayouts
  <2>. QED
    BY <2>1, PayoutFrame
<1>19. ASSUME NEW v \in Polls, NEW d \in DealIds, PollForget(v, d) PROVE PayoutInv'
  <2>1. QuietPayouts
    BY <1>19 DEF PollForget, Takes, TypeOK, ExecutorInv, QuietPayouts
  <2>. QED
    BY <2>1, PayoutFrame
<1>20. ASSUME NEW v \in Tools, NEW d \in DealIds, ToolStart(v, d) PROVE PayoutInv'
  <2>1. QuietPayouts
    BY <1>20 DEF ToolStart, TypeOK, ExecutorInv, QuietPayouts
  <2>. QED
    BY <2>1, PayoutFrame
<1>21. ASSUME NEW v \in Verifiers, NEW p \in TonPayments, FindTon(v, p) PROVE PayoutInv'
  <2>1. QuietPayouts
    BY <1>21 DEF FindTon, TypeOK, ExecutorInv, QuietPayouts
  <2>. QED
    BY <2>1, PayoutFrame
<1>22. ASSUME NEW v \in Verifiers, NEW p \in GiftPayments, FindGift(v, p) PROVE PayoutInv'
  <2>1. QuietPayouts
    BY <1>22 DEF FindGift, TypeOK, ExecutorInv, QuietPayouts
  <2>. QED
    BY <2>1, PayoutFrame
<1>23. ASSUME NEW v \in Verifiers, FindNothing(v) PROVE PayoutInv'
  <2>1. QuietPayouts
    BY <1>23 DEF FindNothing, TypeOK, ExecutorInv, QuietPayouts
  <2>. QED
    BY <2>1, PayoutFrame
<1>24. ASSUME NEW v \in Verifiers, Verify(v) PROVE PayoutInv'
  <2>1. QuietPayouts
    BY <1>24 DEF Verify, Verifiable, Expected, TypeOK, ExecutorInv, QuietPayouts
  <2>. QED
    BY <2>1, PayoutFrame
<1>25. ASSUME NEW v \in Verifiers, VerifyLost(v) PROVE PayoutInv'
  <2>1. QuietPayouts
    BY <1>25 DEF VerifyLost, Return, TypeOK, ExecutorInv, QuietPayouts
  <2>. QED
    BY <2>1, PayoutFrame
<1>26. ASSUME NEW v \in Verifiers, Execute(v) PROVE PayoutInv'
  <2>1. CASE AgentGives[cur[v]] = "gift"
    BY <1>26, <2>1, SMTT(30) DEF Execute, CanExecute, TypeOK, TransferTypeOK, PayoutInv
  <2>2. CASE AgentGives[cur[v]] = "ton"
    <3>1. <<v, cur[v]>> \in Payouts
      BY DEF TypeOK
    <3>2. outcome' = [outcome EXCEPT ![<<v, cur[v]>>] = "waiting"] /\ paid' = paid
      BY <1>26, <2>2 DEF Execute, Request
    <3>3. \A q \in Payouts : q[2] = cur[v] => outcome[q] = "idle"
      BY <1>26 DEF Execute, CanExecute, PayoutInv
    <3>4. /\ \A d \in DealIds \ {cur[v]} : locked'[d] = locked[d] /\ status'[d] = status[d]
          /\ status'[cur[v]] = "verified" /\ locked'[cur[v]] /\ pc'[v] = "send" /\ cur' = cur
          /\ \A w \in Verifiers \ {v} : pc'[w] = pc[w]
      BY <1>26 DEF Execute, CanExecute, TypeOK
    <3>. QED
      BY <2>2, <3>1, <3>2, <3>3, <3>4, PayoutChange, ZenonT(30)
  <2>. QED
    BY <2>1, <2>2 DEF Assets, TypeOK
<1>27. ASSUME NEW v \in Verifiers, ExecuteStops(v) PROVE PayoutInv'
  <2>1. QuietPayouts
    BY <1>27 DEF ExecuteStops, CanExecute, Return, TypeOK, ExecutorInv, QuietPayouts
  <2>. QED
    BY <2>1, PayoutFrame
<1>28. ASSUME NEW v \in Verifiers, TonSent(v) PROVE PayoutInv'
  <2>1. outcome[<<v, cur[v]>>] = "waiting" /\ AgentGives[cur[v]] = "ton"
    BY <1>28 DEF TonSent, Answer
  <2>2. PICK a \in Answers : outcome' = [outcome EXCEPT ![<<v, cur[v]>>] = a] /\ paid' = paid
    BY <1>28 DEF TonSent, Answer, Answers
  <2>3. a # "waiting" /\ a # "idle"
    BY DEF Answers
  <2>4. /\ \A d \in DealIds \ {cur[v]} : locked'[d] = locked[d] /\ status'[d] = status[d]
        /\ status'[cur[v]] \in {"verified", "completed", "failed"}
        /\ status'[cur[v]] = "verified" => locked'[cur[v]]
        /\ \A w \in Verifiers \ {v} : pc'[w] = pc[w] /\ cur'[w] = cur[w]
    BY <1>28 DEF TonSent, Complete, TypeOK, ExecutorInv
  <2>5. /\ <<v, cur[v]>> \in Payouts
        /\ \A q \in Payouts : q # <<v, cur[v]>> /\ q[2] = cur[v] => outcome[q] = "idle"
    BY <2>1, PayoutAlone
  <2>. QED
    BY <2>1, <2>2, <2>3, <2>4, <2>5, PayoutChange, ZenonT(30)
<1>29. ASSUME NEW v \in Verifiers, TonPending(v) PROVE PayoutInv'
  <2>1. outcome[<<v, cur[v]>>] = "waiting" /\ AgentGives[cur[v]] = "ton"
    BY <1>29 DEF TonPending, Answer
  <2>2. PICK a \in Answers : outcome' = [outcome EXCEPT ![<<v, cur[v]>>] = a] /\ paid' = paid
    BY <1>29 DEF TonPending, Answer, Answers
  <2>3. a # "waiting" /\ a # "idle"
    BY DEF Answers
  <2>4. /\ \A d \in DealIds \ {cur[v]} : locked'[d] = locked[d] /\ status'[d] = status[d]
        /\ status'[cur[v]] \in {"verified", "completed", "failed"}
        /\ status'[cur[v]] = "verified" => locked'[cur[v]]
        /\ \A w \in Verifiers \ {v} : pc'[w] = pc[w] /\ cur'[w] = cur[w]
    BY <1>29 DEF TonPending, Return, TypeOK, ExecutorInv
  <2>5. /\ <<v, cur[v]>> \in Payouts
        /\ \A q \in Payouts : q # <<v, cur[v]>> /\ q[2] = cur[v] => outcome[q] = "idle"
    BY <2>1, PayoutAlone
  <2>. QED
    BY <2>1, <2>2, <2>3, <2>4, <2>5, PayoutChange, ZenonT(30)
<1>30. ASSUME NEW v \in Verifiers, TonFailed(v) PROVE PayoutInv'
  <2>1. outcome[<<v, cur[v]>>] = "waiting" /\ AgentGives[cur[v]] = "ton"
    BY <1>30 DEF TonFailed, Answer
  <2>2. PICK a \in Answers : outcome' = [outcome EXCEPT ![<<v, cur[v]>>] = a] /\ paid' = paid
    BY <1>30 DEF TonFailed, Answer, Answers
  <2>3. a # "waiting" /\ a # "idle"
    BY DEF Answers
  <2>4. /\ \A d \in DealIds \ {cur[v]} : locked'[d] = locked[d] /\ status'[d] = status[d]
        /\ status'[cur[v]] \in {"verified", "completed", "failed"}
        /\ status'[cur[v]] = "verified" => locked'[cur[v]]
        /\ \A w \in Verifiers \ {v} : pc'[w] = pc[w] /\ cur'[w] = cur[w]
    BY <1>30 DEF TonFailed, Return, TypeOK, ExecutorInv
  <2>5. /\ <<v, cur[v]>> \in Payouts
        /\ \A q \in Payouts : q # <<v, cur[v]>> /\ q[2] = cur[v] => outcome[q] = "idle"
    BY <2>1, PayoutAlone
  <2>. QED
    BY <2>1, <2>2, <2>3, <2>4, <2>5, PayoutChange, ZenonT(30)
<1>31. ASSUME NEW v \in Verifiers, GiftSent(v) PROVE PayoutInv'
  <2>1. QuietPayouts
    BY <1>31 DEF GiftSent, Complete, TypeOK, ExecutorInv, QuietPayouts
  <2>. QED
    BY <2>1, PayoutFrame
<1>32. ASSUME NEW v \in Verifiers, GiftFailed(v) PROVE PayoutInv'
  <2>1. QuietPayouts
    BY <1>32 DEF GiftFailed, Return, TypeOK, ExecutorInv, QuietPayouts
  <2>. QED
    BY <2>1, PayoutFrame
<1>33. ASSUME NEW v \in Verifiers, NotifyDone(v) PROVE PayoutInv'
  <2>1. QuietPayouts
    BY <1>33 DEF NotifyDone, Return, TypeOK, ExecutorInv, QuietPayouts
  <2>. QED
    BY <2>1, PayoutFrame
<1>34. ASSUME NEW v \in Verifiers, NotifyError(v) PROVE PayoutInv'
  <2>1. QuietPayouts
    BY <1>34 DEF NotifyError, Return, TypeOK, ExecutorInv, QuietPayouts
  <2>. QED
    BY <2>1, PayoutFrame
<1>35. ASSUME NEW v \in Verifiers, NEW d \in DealIds, WalletPays(v, d) PROVE PayoutInv'
  BY <1>35, ZenonT(30) DEF WalletPays, Pay, TypeOK, TransferTypeOK, ExecutorInv, PayoutInv
<1>36. ASSUME Crash PROVE PayoutInv'
  BY <1>36 DEF Crash, Lose, TypeOK, TransferTypeOK, ExecutorInv, PayoutInv
<1>37. ASSUME StrayLands PROVE PayoutInv'
  BY <1>37 DEF StrayLands, StrayPays, TypeOK, TransferTypeOK, ExecutorInv, PayoutInv
<1>. QED
  BY <1>1, <1>2, <1>3, <1>4, <1>5, <1>6, <1>7, <1>8, <1>9, <1>10, <1>11, <1>12, <1>13, <1>14,
     <1>15, <1>16, <1>17, <1>18, <1>19, <1>20, <1>21, <1>22, <1>23, <1>24, <1>25, <1>26,
     <1>27, <1>28, <1>29, <1>30, <1>31, <1>32, <1>33, <1>34, <1>35, <1>36, <1>37
     DEF Next, Row, PollStep, Lookup, Settle

\* A pending payout keeps the lock.
LEMMA PendingStep ==
  ASSUME TypeOK, TypeOK', ExecutorInv, PayoutInv, PendingInv, Next
  PROVE  PendingInv'
<1> USE DealsAssumption, PayoutPairs
    DEF TypeOK, TransferTypeOK, rowVars, bookVars, worldVars, payoutVars, callVars, Verifiers, Payments,
        ExecutorInv, PayoutInv, PendingInv
<1>1. ASSUME NEW d \in DealIds, Propose(d) PROVE PendingInv'
  BY <1>1 DEF Propose, SetStatus
<1>2. ASSUME NEW d \in DealIds, Lapse(d) PROVE PendingInv'
  BY <1>2 DEF Lapse
<1>3. ASSUME NEW d \in DealIds, Accept(d) PROVE PendingInv'
  BY <1>3 DEF Accept, SetStatus
<1>4. ASSUME NEW d \in DealIds, Decline(d) PROVE PendingInv'
  BY <1>4 DEF Decline, SetStatus
<1>5. ASSUME NEW d \in DealIds, Sent(d) PROVE PendingInv'
  BY <1>5 DEF Sent, SetStatus
<1>6. ASSUME NEW d \in DealIds, ExpireOnTouch(d) PROVE PendingInv'
  BY <1>6 DEF ExpireOnTouch, SetStatus
<1>7. ASSUME NEW d \in DealIds, Cancel(d) PROVE PendingInv'
  BY <1>7 DEF Cancel, SetStatus
<1>8. ASSUME NEW d \in DealIds, GrantTransfer(d) PROVE PendingInv'
  BY <1>8 DEF GrantTransfer, CanExecute
<1>9. ASSUME NEW d \in DealIds, TransferCollectible(d) PROVE PendingInv'
  BY <1>9 DEF TransferCollectible
<1>10. ASSUME ExpireStale PROVE PendingInv'
  BY <1>10 DEF ExpireStale
<1>11. ASSUME NEW p \in TonPayments, NEW d \in DealIds, UserSendsTon(p, d) PROVE PendingInv'
  BY <1>11 DEF UserSendsTon, UserPays
<1>12. ASSUME NEW p \in GiftPayments, UserSendsGift(p) PROVE PendingInv'
  BY <1>12 DEF UserSendsGift, UserPays
<1>13. ASSUME NEW v \in Polls, PollStart(v) PROVE PendingInv'
  BY <1>13 DEF PollStart, Oldest, Awaiting
<1>14. ASSUME NEW v \in Polls, PollEnd(v) PROVE PendingInv'
  BY <1>14 DEF PollEnd
<1>15. ASSUME NEW v \in Polls, PollReport(v) PROVE PendingInv'
  BY <1>15 DEF PollReport
<1>16. ASSUME NEW v \in Polls, PollReportError(v) PROVE PendingInv'
  BY <1>16 DEF PollReportError
<1>17. ASSUME NEW v \in Polls, NEW d \in DealIds, PollVerify(v, d) PROVE PendingInv'
  BY <1>17 DEF PollVerify, Takes
<1>18. ASSUME NEW v \in Polls, NEW d \in DealIds, PollTimeout(v, d) PROVE PendingInv'
  BY <1>18, SMTT(30) DEF PollTimeout, Takes
<1>19. ASSUME NEW v \in Polls, NEW d \in DealIds, PollForget(v, d) PROVE PendingInv'
  BY <1>19 DEF PollForget, Takes
<1>20. ASSUME NEW v \in Tools, NEW d \in DealIds, ToolStart(v, d) PROVE PendingInv'
  BY <1>20 DEF ToolStart
<1>21. ASSUME NEW v \in Verifiers, NEW p \in TonPayments, FindTon(v, p) PROVE PendingInv'
  BY <1>21 DEF FindTon
<1>22. ASSUME NEW v \in Verifiers, NEW p \in GiftPayments, FindGift(v, p) PROVE PendingInv'
  BY <1>22 DEF FindGift
<1>23. ASSUME NEW v \in Verifiers, FindNothing(v) PROVE PendingInv'
  BY <1>23 DEF FindNothing
<1>24. ASSUME NEW v \in Verifiers, Verify(v) PROVE PendingInv'
  BY <1>24 DEF Verify, Verifiable, Expected
<1>25. ASSUME NEW v \in Verifiers, VerifyLost(v) PROVE PendingInv'
  BY <1>25 DEF VerifyLost, Return
<1>26. ASSUME NEW v \in Verifiers, Execute(v) PROVE PendingInv'
  BY <1>26 DEF Execute, CanExecute, Request
<1>27. ASSUME NEW v \in Verifiers, ExecuteStops(v) PROVE PendingInv'
  BY <1>27, SMTT(30) DEF ExecuteStops, CanExecute, Return
<1>28. ASSUME NEW v \in Verifiers, TonSent(v) PROVE PendingInv'
  BY <1>28 DEF TonSent, Answer, Complete
<1>29. ASSUME NEW v \in Verifiers, TonPending(v) PROVE PendingInv'
  BY <1>29 DEF TonPending, Answer, Return
<1>30. ASSUME NEW v \in Verifiers, TonFailed(v) PROVE PendingInv'
  <2> DEFINE p == <<v, cur[v]>>
  <2>1. p \in Payouts /\ p[2] = cur[v] /\ outcome[p] = "waiting"
    BY <1>30, SMTT(30) DEF TonFailed, Answer
  <2>5. \A q \in Payouts : q # p /\ q[2] = cur[v] => outcome[q] = "idle"
    BY <2>1, PayoutAlone, ZenonT(30)
  <2>2. txStatus' = txStatus /\ \A q \in Payouts : q # p => outcome'[q] = outcome[q]
    BY <1>30, SMTT(30) DEF TonFailed, Answer
  <2> HIDE DEF p
  <2>3. txStatus[cur[v]] # "pending"
    BY <2>1, <2>5, ZenonT(30)
  <2>4. \A d \in DealIds : d # cur[v] => status'[d] = status[d] /\ locked'[d] = locked[d]
    BY <1>30, SMTT(30) DEF TonFailed
  <2>. QED
    <3> SUFFICES ASSUME NEW d \in DealIds, txStatus'[d] = "pending"
                 PROVE  /\ status'[d] = "verified" /\ locked'[d] /\ AgentGives[d] = "ton"
                        /\ \E o \in Payouts : o[2] = d /\ outcome'[o] = "pending"
      OBVIOUS
    <3>1. d # cur[v] /\ txStatus[d] = "pending"
      BY <2>2, <2>3
    <3>2. PICK o \in Payouts : o[2] = d /\ outcome[o] = "pending"
      BY <3>1
    <3>3. outcome'[o] = "pending"
      BY <2>1, <2>2, <3>1, <3>2
    <3>. QED
      BY <2>4, <3>1, <3>2, <3>3
<1>31. ASSUME NEW v \in Verifiers, GiftSent(v) PROVE PendingInv'
  BY <1>31, SMTT(30) DEF GiftSent, Complete
<1>32. ASSUME NEW v \in Verifiers, GiftFailed(v) PROVE PendingInv'
  BY <1>32, SMTT(30) DEF GiftFailed, Return
<1>33. ASSUME NEW v \in Verifiers, NotifyDone(v) PROVE PendingInv'
  BY <1>33 DEF NotifyDone, Return
<1>34. ASSUME NEW v \in Verifiers, NotifyError(v) PROVE PendingInv'
  BY <1>34, SMTT(30) DEF NotifyError, Return
<1>35. ASSUME NEW v \in Verifiers, NEW d \in DealIds, WalletPays(v, d) PROVE PendingInv'
  BY <1>35 DEF WalletPays, Pay
<1>36. ASSUME Crash PROVE PendingInv'
  BY <1>36 DEF Crash, Lose
<1>37. ASSUME StrayLands PROVE PendingInv'
  BY <1>37 DEF StrayLands, StrayPays
<1>. QED
  BY <1>1, <1>2, <1>3, <1>4, <1>5, <1>6, <1>7, <1>8, <1>9, <1>10, <1>11, <1>12, <1>13, <1>14,
     <1>15, <1>16, <1>17, <1>18, <1>19, <1>20, <1>21, <1>22, <1>23, <1>24, <1>25, <1>26,
     <1>27, <1>28, <1>29, <1>30, <1>31, <1>32, <1>33, <1>34, <1>35, <1>36, <1>37
     DEF Next, Row, PollStep, Lookup, Settle

\* A trade is counted once, when its deal is completed.
LEMMA BooksStep ==
  ASSUME TypeOK, TypeOK', ExecutorInv, BooksInv, BooksAgree, Next
  PROVE  BooksInv' /\ BooksAgree'
<1> USE DealsAssumption
    DEF TypeOK, TransferTypeOK, rowVars, bookVars, worldVars, payoutVars, callVars, Verifiers, Payments,
        ExecutorInv, BooksInv, BooksAgree
<1>1. ASSUME NEW d \in DealIds, Propose(d) PROVE BooksInv' /\ BooksAgree'
  BY <1>1 DEF Propose, SetStatus
<1>2. ASSUME NEW d \in DealIds, Lapse(d) PROVE BooksInv' /\ BooksAgree'
  BY <1>2 DEF Lapse
<1>3. ASSUME NEW d \in DealIds, Accept(d) PROVE BooksInv' /\ BooksAgree'
  BY <1>3 DEF Accept, SetStatus
<1>4. ASSUME NEW d \in DealIds, Decline(d) PROVE BooksInv' /\ BooksAgree'
  BY <1>4 DEF Decline, SetStatus
<1>5. ASSUME NEW d \in DealIds, Sent(d) PROVE BooksInv' /\ BooksAgree'
  BY <1>5 DEF Sent, SetStatus
<1>6. ASSUME NEW d \in DealIds, ExpireOnTouch(d) PROVE BooksInv' /\ BooksAgree'
  BY <1>6 DEF ExpireOnTouch, SetStatus
<1>7. ASSUME NEW d \in DealIds, Cancel(d) PROVE BooksInv' /\ BooksAgree'
  BY <1>7 DEF Cancel, SetStatus
<1>8. ASSUME NEW d \in DealIds, GrantTransfer(d) PROVE BooksInv' /\ BooksAgree'
  BY <1>8 DEF GrantTransfer, CanExecute
<1>9. ASSUME NEW d \in DealIds, TransferCollectible(d) PROVE BooksInv' /\ BooksAgree'
  BY <1>9 DEF TransferCollectible
<1>10. ASSUME ExpireStale PROVE BooksInv' /\ BooksAgree'
  BY <1>10 DEF ExpireStale
<1>11. ASSUME NEW p \in TonPayments, NEW d \in DealIds, UserSendsTon(p, d)
      PROVE  BooksInv' /\ BooksAgree'
  BY <1>11 DEF UserSendsTon, UserPays
<1>12. ASSUME NEW p \in GiftPayments, UserSendsGift(p) PROVE BooksInv' /\ BooksAgree'
  BY <1>12 DEF UserSendsGift, UserPays
<1>13. ASSUME NEW v \in Polls, PollStart(v) PROVE BooksInv' /\ BooksAgree'
  BY <1>13 DEF PollStart, Oldest, Awaiting
<1>14. ASSUME NEW v \in Polls, PollEnd(v) PROVE BooksInv' /\ BooksAgree'
  BY <1>14 DEF PollEnd
<1>15. ASSUME NEW v \in Polls, PollReport(v) PROVE BooksInv' /\ BooksAgree'
  BY <1>15 DEF PollReport
<1>16. ASSUME NEW v \in Polls, PollReportError(v) PROVE BooksInv' /\ BooksAgree'
  BY <1>16 DEF PollReportError
<1>17. ASSUME NEW v \in Polls, NEW d \in DealIds, PollVerify(v, d) PROVE BooksInv' /\ BooksAgree'
  BY <1>17 DEF PollVerify, Takes
<1>18. ASSUME NEW v \in Polls, NEW d \in DealIds, PollTimeout(v, d) PROVE BooksInv' /\ BooksAgree'
  BY <1>18 DEF PollTimeout, Takes
<1>19. ASSUME NEW v \in Polls, NEW d \in DealIds, PollForget(v, d) PROVE BooksInv' /\ BooksAgree'
  BY <1>19 DEF PollForget, Takes
<1>20. ASSUME NEW v \in Tools, NEW d \in DealIds, ToolStart(v, d) PROVE BooksInv' /\ BooksAgree'
  BY <1>20 DEF ToolStart
<1>21. ASSUME NEW v \in Verifiers, NEW p \in TonPayments, FindTon(v, p)
      PROVE  BooksInv' /\ BooksAgree'
  BY <1>21, SMTT(30) DEF FindTon
<1>22. ASSUME NEW v \in Verifiers, NEW p \in GiftPayments, FindGift(v, p)
      PROVE  BooksInv' /\ BooksAgree'
  BY <1>22 DEF FindGift
<1>23. ASSUME NEW v \in Verifiers, FindNothing(v) PROVE BooksInv' /\ BooksAgree'
  BY <1>23 DEF FindNothing
<1>24. ASSUME NEW v \in Verifiers, Verify(v) PROVE BooksInv' /\ BooksAgree'
  BY <1>24 DEF Verify, Verifiable, Expected
<1>25. ASSUME NEW v \in Verifiers, VerifyLost(v) PROVE BooksInv' /\ BooksAgree'
  BY <1>25 DEF VerifyLost, Return
<1>26. ASSUME NEW v \in Verifiers, Execute(v) PROVE BooksInv' /\ BooksAgree'
  BY <1>26 DEF Execute, CanExecute, Request
<1>27. ASSUME NEW v \in Verifiers, ExecuteStops(v) PROVE BooksInv' /\ BooksAgree'
  BY <1>27 DEF ExecuteStops, CanExecute, Return
<1>28. ASSUME NEW v \in Verifiers, TonSent(v) PROVE BooksInv' /\ BooksAgree'
  BY <1>28 DEF TonSent, Answer, Complete
<1>29. ASSUME NEW v \in Verifiers, TonPending(v) PROVE BooksInv' /\ BooksAgree'
  BY <1>29 DEF TonPending, Answer, Return
<1>30. ASSUME NEW v \in Verifiers, TonFailed(v) PROVE BooksInv' /\ BooksAgree'
  BY <1>30 DEF TonFailed, Answer, Return
<1>31. ASSUME NEW v \in Verifiers, GiftSent(v) PROVE BooksInv' /\ BooksAgree'
  BY <1>31 DEF GiftSent, Complete
<1>32. ASSUME NEW v \in Verifiers, GiftFailed(v) PROVE BooksInv' /\ BooksAgree'
  BY <1>32 DEF GiftFailed, Return
<1>33. ASSUME NEW v \in Verifiers, NotifyDone(v) PROVE BooksInv' /\ BooksAgree'
  <2>1. CASE v \in Polls
    BY <1>33, <2>1 DEF NotifyDone, Return
  <2>2. CASE v \notin Polls
    BY <1>33, <2>2 DEF NotifyDone, Return
  <2>. QED
    BY <2>1, <2>2
<1>34. ASSUME NEW v \in Verifiers, NotifyError(v) PROVE BooksInv' /\ BooksAgree'
  BY <1>34 DEF NotifyError, Return
<1>35. ASSUME NEW v \in Verifiers, NEW d \in DealIds, WalletPays(v, d)
      PROVE  BooksInv' /\ BooksAgree'
  BY <1>35 DEF WalletPays, Pay
<1>36. ASSUME Crash PROVE BooksInv' /\ BooksAgree'
  BY <1>36 DEF Crash, Lose
<1>37. ASSUME StrayLands PROVE BooksInv' /\ BooksAgree'
  BY <1>37 DEF StrayLands, StrayPays
<1>. QED
  BY <1>1, <1>2, <1>3, <1>4, <1>5, <1>6, <1>7, <1>8, <1>9, <1>10, <1>11, <1>12, <1>13, <1>14,
     <1>15, <1>16, <1>17, <1>18, <1>19, <1>20, <1>21, <1>22, <1>23, <1>24, <1>25, <1>26,
     <1>27, <1>28, <1>29, <1>30, <1>31, <1>32, <1>33, <1>34, <1>35, <1>36, <1>37
     DEF Next, Row, PollStep, Lookup, Settle

\* A confirmed payout completes a verified deal that is paid, or mistaken for paid.
LEMMA TonSentMoves ==
  ASSUME TypeOK, ExecutorInv, NEW v \in Verifiers, TonSent(v)
  PROVE  Moves
<1> DEFINE p == <<v, cur[v]>>
<1>1. p \in Payouts /\ p[2] = cur[v] /\ (p \in paid' \/ stray' = "paid")
  BY PayoutPairs DEF TonSent, Answer, TypeOK
<1>2. /\ cur[v] \in DealIds /\ status[cur[v]] = "verified" /\ AgentGives[cur[v]] = "ton"
      /\ status' = [status EXCEPT ![cur[v]] = "completed"]
  BY DEF TonSent, Complete, TypeOK, ExecutorInv
<1>3. status \in [DealIds -> Statuses]
  BY DEF TypeOK
<1> SUFFICES ASSUME NEW d \in DealIds, status'[d] # status[d]
             PROVE  /\ <<status[d], status'[d]>> \in Lifecycle
                    /\ \/ \E o \in Payouts : o[2] = d /\ o \in paid'
                       \/ AgentGives[d] = "ton" /\ stray' = "paid"
  BY DEF Moves
<1>4. d = cur[v] /\ status[d] = "verified" /\ status'[d] = "completed"
  BY <1>2, <1>3
<1>5. \/ \E o \in Payouts : o[2] = d /\ o \in paid'
      \/ AgentGives[d] = "ton" /\ stray' = "paid"
  <2> HIDE DEF p
  <2>. QED
    BY <1>1, <1>2, <1>4
<1>6. <<status[d], status'[d]>> \in Lifecycle
  BY <1>4 DEF Lifecycle
<1>. QED
  BY <1>5, <1>6

\* Every change of a status is one of the life cycle.
LEMMA MoveStep ==
  ASSUME TypeOK, TypeOK', ExecutorInv, Next
  PROVE  Moves
<1> USE DealsAssumption, PayoutPairs
    DEF TypeOK, TransferTypeOK, rowVars, bookVars, worldVars, payoutVars, callVars, Verifiers, Payments,
        ExecutorInv, Moves, Lifecycle
<1>1. ASSUME NEW d \in DealIds, Propose(d) PROVE Moves
  BY <1>1 DEF Propose, SetStatus
<1>2. ASSUME NEW d \in DealIds, Lapse(d) PROVE Moves
  BY <1>2 DEF Lapse
<1>3. ASSUME NEW d \in DealIds, Accept(d) PROVE Moves
  BY <1>3 DEF Accept, SetStatus
<1>4. ASSUME NEW d \in DealIds, Decline(d) PROVE Moves
  BY <1>4 DEF Decline, SetStatus
<1>5. ASSUME NEW d \in DealIds, Sent(d) PROVE Moves
  BY <1>5 DEF Sent, SetStatus
<1>6. ASSUME NEW d \in DealIds, ExpireOnTouch(d) PROVE Moves
  BY <1>6 DEF ExpireOnTouch, SetStatus
<1>7. ASSUME NEW d \in DealIds, Cancel(d) PROVE Moves
  BY <1>7 DEF Cancel, SetStatus
<1>8. ASSUME NEW d \in DealIds, GrantTransfer(d) PROVE Moves
  BY <1>8 DEF GrantTransfer, CanExecute
<1>9. ASSUME NEW d \in DealIds, TransferCollectible(d) PROVE Moves
  BY <1>9 DEF TransferCollectible
<1>10. ASSUME ExpireStale PROVE Moves
  BY <1>10 DEF ExpireStale
<1>11. ASSUME NEW p \in TonPayments, NEW d \in DealIds, UserSendsTon(p, d) PROVE Moves
  BY <1>11 DEF UserSendsTon, UserPays
<1>12. ASSUME NEW p \in GiftPayments, UserSendsGift(p) PROVE Moves
  BY <1>12 DEF UserSendsGift, UserPays
<1>13. ASSUME NEW v \in Polls, PollStart(v) PROVE Moves
  BY <1>13 DEF PollStart, Oldest, Awaiting
<1>14. ASSUME NEW v \in Polls, PollEnd(v) PROVE Moves
  BY <1>14 DEF PollEnd
<1>15. ASSUME NEW v \in Polls, PollReport(v) PROVE Moves
  BY <1>15 DEF PollReport
<1>16. ASSUME NEW v \in Polls, PollReportError(v) PROVE Moves
  BY <1>16 DEF PollReportError
<1>17. ASSUME NEW v \in Polls, NEW d \in DealIds, PollVerify(v, d) PROVE Moves
  BY <1>17 DEF PollVerify, Takes
<1>18. ASSUME NEW v \in Polls, NEW d \in DealIds, PollTimeout(v, d) PROVE Moves
  BY <1>18 DEF PollTimeout, Takes
<1>19. ASSUME NEW v \in Polls, NEW d \in DealIds, PollForget(v, d) PROVE Moves
  BY <1>19 DEF PollForget, Takes
<1>20. ASSUME NEW v \in Tools, NEW d \in DealIds, ToolStart(v, d) PROVE Moves
  BY <1>20 DEF ToolStart
<1>21. ASSUME NEW v \in Verifiers, NEW p \in TonPayments, FindTon(v, p) PROVE Moves
  BY <1>21 DEF FindTon
<1>22. ASSUME NEW v \in Verifiers, NEW p \in GiftPayments, FindGift(v, p) PROVE Moves
  BY <1>22 DEF FindGift
<1>23. ASSUME NEW v \in Verifiers, FindNothing(v) PROVE Moves
  BY <1>23 DEF FindNothing
<1>24. ASSUME NEW v \in Verifiers, Verify(v) PROVE Moves
  BY <1>24 DEF Verify, Verifiable, Expected
<1>25. ASSUME NEW v \in Verifiers, VerifyLost(v) PROVE Moves
  BY <1>25 DEF VerifyLost, Return
<1>26. ASSUME NEW v \in Verifiers, Execute(v) PROVE Moves
  BY <1>26 DEF Execute, CanExecute, Request
<1>27. ASSUME NEW v \in Verifiers, ExecuteStops(v) PROVE Moves
  BY <1>27 DEF ExecuteStops, CanExecute, Return
<1>28. ASSUME NEW v \in Verifiers, TonSent(v) PROVE Moves
  <2> HIDE DEF Moves, TypeOK, ExecutorInv
  <2>. QED
    BY <1>28, TonSentMoves
<1>29. ASSUME NEW v \in Verifiers, TonPending(v) PROVE Moves
  BY <1>29 DEF TonPending, Answer, Return
<1>30. ASSUME NEW v \in Verifiers, TonFailed(v) PROVE Moves
  BY <1>30 DEF TonFailed, Answer, Return
<1>31. ASSUME NEW v \in Verifiers, GiftSent(v) PROVE Moves
  BY <1>31 DEF GiftSent, Complete
<1>32. ASSUME NEW v \in Verifiers, GiftFailed(v) PROVE Moves
  BY <1>32 DEF GiftFailed, Return
<1>33. ASSUME NEW v \in Verifiers, NotifyDone(v) PROVE Moves
  BY <1>33 DEF NotifyDone, Return
<1>34. ASSUME NEW v \in Verifiers, NotifyError(v) PROVE Moves
  BY <1>34 DEF NotifyError, Return
<1>35. ASSUME NEW v \in Verifiers, NEW d \in DealIds, WalletPays(v, d) PROVE Moves
  BY <1>35 DEF WalletPays, Pay
<1>36. ASSUME Crash PROVE Moves
  BY <1>36 DEF Crash, Lose
<1>37. ASSUME StrayLands PROVE Moves
  BY <1>37 DEF StrayLands, StrayPays
<1>. QED
  BY <1>1, <1>2, <1>3, <1>4, <1>5, <1>6, <1>7, <1>8, <1>9, <1>10, <1>11, <1>12, <1>13, <1>14,
     <1>15, <1>16, <1>17, <1>18, <1>19, <1>20, <1>21, <1>22, <1>23, <1>24, <1>25, <1>26,
     <1>27, <1>28, <1>29, <1>30, <1>31, <1>32, <1>33, <1>34, <1>35, <1>36, <1>37
     DEF Next, Row, PollStep, Lookup, Settle

\* What was paid or handed over stays so, and only verified deals are added.
LEMMA GrowStep ==
  ASSUME TypeOK, TypeOK', OpenInv, ExecutorInv, Next
  PROVE  Grows
<1> USE DealsAssumption, PayoutPairs
    DEF TypeOK, TransferTypeOK, rowVars, bookVars, worldVars, payoutVars, callVars, Verifiers, Payments,
        OpenInv, ExecutorInv, Open, Funded, Grows
<1>1. ASSUME NEW d \in DealIds, Propose(d) PROVE Grows
  BY <1>1 DEF Propose, SetStatus
<1>2. ASSUME NEW d \in DealIds, Lapse(d) PROVE Grows
  BY <1>2 DEF Lapse
<1>3. ASSUME NEW d \in DealIds, Accept(d) PROVE Grows
  BY <1>3 DEF Accept, SetStatus
<1>4. ASSUME NEW d \in DealIds, Decline(d) PROVE Grows
  BY <1>4 DEF Decline, SetStatus
<1>5. ASSUME NEW d \in DealIds, Sent(d) PROVE Grows
  BY <1>5 DEF Sent, SetStatus
<1>6. ASSUME NEW d \in DealIds, ExpireOnTouch(d) PROVE Grows
  BY <1>6 DEF ExpireOnTouch, SetStatus
<1>7. ASSUME NEW d \in DealIds, Cancel(d) PROVE Grows
  BY <1>7 DEF Cancel, SetStatus
<1>8. ASSUME NEW d \in DealIds, GrantTransfer(d) PROVE Grows
  BY <1>8 DEF GrantTransfer, CanExecute
<1>9. ASSUME NEW d \in DealIds, TransferCollectible(d) PROVE Grows
  BY <1>9 DEF TransferCollectible
<1>10. ASSUME ExpireStale PROVE Grows
  BY <1>10 DEF ExpireStale
<1>11. ASSUME NEW p \in TonPayments, NEW d \in DealIds, UserSendsTon(p, d) PROVE Grows
  BY <1>11 DEF UserSendsTon, UserPays
<1>12. ASSUME NEW p \in GiftPayments, UserSendsGift(p) PROVE Grows
  BY <1>12 DEF UserSendsGift, UserPays
<1>13. ASSUME NEW v \in Polls, PollStart(v) PROVE Grows
  BY <1>13 DEF PollStart, Oldest, Awaiting
<1>14. ASSUME NEW v \in Polls, PollEnd(v) PROVE Grows
  BY <1>14 DEF PollEnd
<1>15. ASSUME NEW v \in Polls, PollReport(v) PROVE Grows
  BY <1>15 DEF PollReport
<1>16. ASSUME NEW v \in Polls, PollReportError(v) PROVE Grows
  BY <1>16 DEF PollReportError
<1>17. ASSUME NEW v \in Polls, NEW d \in DealIds, PollVerify(v, d) PROVE Grows
  BY <1>17 DEF PollVerify, Takes
<1>18. ASSUME NEW v \in Polls, NEW d \in DealIds, PollTimeout(v, d) PROVE Grows
  BY <1>18 DEF PollTimeout, Takes
<1>19. ASSUME NEW v \in Polls, NEW d \in DealIds, PollForget(v, d) PROVE Grows
  BY <1>19 DEF PollForget, Takes
<1>20. ASSUME NEW v \in Tools, NEW d \in DealIds, ToolStart(v, d) PROVE Grows
  BY <1>20 DEF ToolStart
<1>21. ASSUME NEW v \in Verifiers, NEW p \in TonPayments, FindTon(v, p) PROVE Grows
  BY <1>21 DEF FindTon
<1>22. ASSUME NEW v \in Verifiers, NEW p \in GiftPayments, FindGift(v, p) PROVE Grows
  BY <1>22 DEF FindGift
<1>23. ASSUME NEW v \in Verifiers, FindNothing(v) PROVE Grows
  BY <1>23 DEF FindNothing
<1>24. ASSUME NEW v \in Verifiers, Verify(v) PROVE Grows
  BY <1>24 DEF Verify, Verifiable, Expected
<1>25. ASSUME NEW v \in Verifiers, VerifyLost(v) PROVE Grows
  BY <1>25 DEF VerifyLost, Return
<1>26. ASSUME NEW v \in Verifiers, Execute(v) PROVE Grows
  BY <1>26 DEF Execute, CanExecute, Request
<1>27. ASSUME NEW v \in Verifiers, ExecuteStops(v) PROVE Grows
  BY <1>27 DEF ExecuteStops, CanExecute, Return
<1>28. ASSUME NEW v \in Verifiers, TonSent(v) PROVE Grows
  BY <1>28 DEF TonSent, Answer, Complete
<1>29. ASSUME NEW v \in Verifiers, TonPending(v) PROVE Grows
  BY <1>29 DEF TonPending, Answer, Return
<1>30. ASSUME NEW v \in Verifiers, TonFailed(v) PROVE Grows
  BY <1>30 DEF TonFailed, Answer, Return
<1>31. ASSUME NEW v \in Verifiers, GiftSent(v) PROVE Grows
  BY <1>31 DEF GiftSent, Complete
<1>32. ASSUME NEW v \in Verifiers, GiftFailed(v) PROVE Grows
  BY <1>32 DEF GiftFailed, Return
<1>33. ASSUME NEW v \in Verifiers, NotifyDone(v) PROVE Grows
  BY <1>33 DEF NotifyDone, Return
<1>34. ASSUME NEW v \in Verifiers, NotifyError(v) PROVE Grows
  BY <1>34 DEF NotifyError, Return
<1>35. ASSUME NEW v \in Verifiers, NEW d \in DealIds, WalletPays(v, d) PROVE Grows
  BY <1>35 DEF WalletPays, Pay
<1>36. ASSUME Crash PROVE Grows
  BY <1>36 DEF Crash, Lose
<1>37. ASSUME StrayLands PROVE Grows
  BY <1>37 DEF StrayLands, StrayPays
<1>. QED
  BY <1>1, <1>2, <1>3, <1>4, <1>5, <1>6, <1>7, <1>8, <1>9, <1>10, <1>11, <1>12, <1>13, <1>14,
     <1>15, <1>16, <1>17, <1>18, <1>19, <1>20, <1>21, <1>22, <1>23, <1>24, <1>25, <1>26,
     <1>27, <1>28, <1>29, <1>30, <1>31, <1>32, <1>33, <1>34, <1>35, <1>36, <1>37
     DEF Next, Row, PollStep, Lookup, Settle

-----------------------------------------------------------------------------
\* The invariant holds initially.
LEMMA InitInv == Init => IInv
<1> SUFFICES ASSUME Init PROVE IInv
  OBVIOUS
<1> USE DealsAssumption DEF Init
<1>1. TypeOK
  <2>1. (CHOOSE d \in DealIds : TRUE) \in DealIds
    OBVIOUS
  <2>2. TransferTypeOK
    BY DEF TransferInit, TransferTypeOK, Outcomes
  <2>. QED
    BY <2>1, <2>2 DEF TypeOK, Statuses, Places
<1>2. RetryInv /\ MemoInv /\ FoundInv /\ OpenInv /\ FundingIsSound
  BY DEF RetryInv, MemoInv, FoundInv, OpenInv, FundingIsSound, Funded, Verifiers, Payments
<1>3. ExecutorInv /\ PayoutInv /\ PendingInv
  BY DEF ExecutorInv, PayoutInv, PendingInv, TransferInit
<1>4. CompletedIsDelivered /\ GivenInv
  BY DEF CompletedIsDelivered, GivenInv, TransferInit
<1>5. BooksInv /\ BooksAgree
  BY DEF BooksInv, BooksAgree
<1>. QED
  BY <1>1, <1>2, <1>3, <1>4, <1>5 DEF IInv

\* Every step keeps the invariant.
LEMMA StepInv == IInv /\ [Next]_vars => IInv'
<1> SUFFICES ASSUME IInv, [Next]_vars PROVE IInv'
  OBVIOUS
<1>1. CASE Next
  <2>1. TypeOK' /\ RetryInv'
    BY <1>1, TypeStep DEF IInv
  <2>2. ExecutorInv'
    BY <1>1, <2>1, ExecutorStep DEF IInv
  <2>3. MemoInv' /\ FoundInv' /\ OpenInv' /\ FundingIsSound'
    BY <1>1, <2>1, FundingStep DEF IInv
  <2>4. PayoutInv'
    BY <1>1, <2>1, PayoutStep DEF IInv
  <2>5. PendingInv'
    BY <1>1, <2>1, PendingStep DEF IInv
  <2>6. BooksInv' /\ BooksAgree'
    BY <1>1, <2>1, BooksStep DEF IInv
  <2>7. Moves
    BY <1>1, <2>1, MoveStep DEF IInv
  <2>8. Grows
    BY <1>1, <2>1, GrowStep DEF IInv
  <2>9. CompletedIsDelivered'
    <3> SUFFICES ASSUME NEW d \in DealIds, status'[d] = "completed"
                 PROVE  \/ d \in given' \/ \E v \in Verifiers : <<v, d>> \in paid'
                        \/ AgentGives[d] = "ton" /\ stray' = "paid"
      BY DEF CompletedIsDelivered, PaidOut
    <3>1. CASE status[d] = "completed"
      BY <2>8, <3>1 DEF IInv, CompletedIsDelivered, PaidOut, Grows
    <3>2. CASE status[d] # "completed"
      <4>1. CASE d \in given'
        BY <4>1
      <4>2. CASE \E o \in Payouts : o[2] = d /\ o \in paid'
        BY <4>2, PayoutPairs
      <4>. QED
        BY <2>7, <3>2, <4>1, <4>2 DEF Moves
    <3>. QED
      BY <3>1, <3>2
  <2>10. GivenInv'
    <3>1. \A d \in DealIds : Funded(d) => Funded(d)'
      BY <2>8 DEF Grows, Funded
    <3>2. given' \cup granted' \subseteq DealIds
      BY <2>1 DEF TypeOK
    <3>3. \A d \in DealIds : status[d] = "verified" => Funded(d)
      BY DEF IInv, FundingIsSound
    <3>4. \A d \in given' \cup granted' : Funded(d)'
      BY <2>8, <3>1, <3>2, <3>3 DEF Grows, IInv, GivenInv
    <3>5. \A o \in Payouts : outcome'[o] # "idle" => Funded(o[2])'
      BY <2>8, <3>1, <3>3, PayoutPairs DEF Grows, IInv, GivenInv
    <3>. QED
      BY <3>4, <3>5 DEF GivenInv
  <2>. QED
    BY <2>1, <2>2, <2>3, <2>4, <2>5, <2>6, <2>9, <2>10 DEF IInv
<1>2. CASE UNCHANGED vars
  <2> USE <1>2 DEF IInv, vars, rowVars, bookVars, worldVars, payoutVars, callVars
  <2>1. TypeOK' /\ RetryInv' /\ MemoInv' /\ FoundInv' /\ OpenInv' /\ FundingIsSound'
    BY DEF TypeOK, TransferTypeOK, RetryInv, MemoInv, FoundInv, OpenInv, FundingIsSound, Funded
  <2>2. ExecutorInv' /\ PayoutInv' /\ PendingInv'
    BY DEF ExecutorInv, PayoutInv, PendingInv
  <2>3. CompletedIsDelivered' /\ GivenInv' /\ BooksInv' /\ BooksAgree'
    BY DEF CompletedIsDelivered, PaidOut, GivenInv, Funded, BooksInv, BooksAgree
  <2>. QED
    BY <2>1, <2>2, <2>3
<1>. QED
  BY <1>1, <1>2

\* The inductive invariant holds throughout.
LEMMA Invariance == Spec => []IInv
<1>. QED
  BY InitInv, StepInv, PTL DEF Spec

\* Every variable keeps its type; a retry count never exceeds maxRetries.
THEOREM TypeCorrect == Spec => []TypeOK
<1>1. IInv => TypeOK
  BY DEF IInv
<1>. QED
  BY <1>1, Invariance, PTL

(***************************************************************************)
(* A verified deal rests on a payment made for it, and no two deals on the *)
(* same payment, however many verifiers look for payments at once          *)
(* (claimGiftPayment, used_transactions).                                  *)
(***************************************************************************)
THEOREM FundingSound == Spec => []FundingIsSound
<1>1. IInv => FundingIsSound
  BY DEF IInv
<1>. QED
  BY <1>1, Invariance, PTL

\* The lock of executeDeal: TON leaves the wallet at most once for a deal.
THEOREM NoDoublePayout == Spec => []PaysOutOnce
<1>1. IInv => PaysOutOnce
  <2> SUFFICES ASSUME IInv, NEW d \in DealIds, NEW v \in Verifiers, NEW w \in Verifiers,
                      <<v, d>> \in paid, <<w, d>> \in paid
               PROVE  v = w
    BY DEF PaysOutOnce
  <2> DEFINE p == <<v, d>>
             q == <<w, d>>
  <2>1. p \in Payouts /\ q \in Payouts /\ p[2] = q[2] /\ p \in paid /\ q \in paid
    BY PayoutPairs
  <2>2. p = q
    <3> HIDE DEF p, q
    <3>. QED
      BY <2>1 DEF IInv, PayoutInv
  <2>. QED
    BY <2>2
<1>. QED
  BY <1>1, Invariance, PTL

(***************************************************************************)
(* executeDeal marks a deal completed only when its asset has left the     *)
(* agent, or when sendTon has taken a transaction from before a crash for  *)
(* the payout: no other order of polls, tools and crashes can do it.       *)
(***************************************************************************)
THEOREM CompletionHonest == Spec => []CompletedIsDelivered
<1>1. IInv => CompletedIsDelivered
  BY DEF IInv
<1>. QED
  BY <1>1, Invariance, PTL

\* A payout that executeDeal left pending keeps its deal locked for good.
THEOREM PendingKeepsLock == Spec => []PendingStaysLocked
<1>1. IInv => PendingStaysLocked
  BY DEF IInv, PendingInv, PendingStaysLocked
<1>. QED
  BY <1>1, Invariance, PTL

(***************************************************************************)
(* The executor's promises together: one payout, delivered before the deal *)
(* is completed (a payout mistaken after a crash excepted), and locked as  *)
(* long as it is undecided.                                                *)
(***************************************************************************)
THEOREM PayoutsAreSound == Spec => []PayoutIsSound
<1>1. PaysOutOnce /\ CompletedIsDelivered /\ PendingStaysLocked => PayoutIsSound
  BY DEF PayoutIsSound
<1>. QED
  BY NoDoublePayout, CompletionHonest, PendingKeepsLock, <1>1, PTL

\* The poller counts a trade at most once, and only one that stays completed.
THEOREM BooksSound == Spec => []BooksAgree
<1>1. IInv => BooksAgree
  BY DEF IInv
<1>. QED
  BY <1>1, Invariance, PTL

\* No verifier revives a deal that was declined, cancelled, expired or failed.
THEOREM DeadForGood == Spec => DeadStaysDead
<1>1. ASSUME IInv, [Next]_vars
      PROVE  [\A d \in DealIds : status[d] \in Dead => status'[d] = status[d]]_vars
  <2>1. CASE Next
    <3>1. Moves
      <4>1. TypeOK'
        BY <1>1, <2>1, TypeStep DEF IInv
      <4>. QED
        BY <1>1, <2>1, <4>1, MoveStep DEF IInv
    <3>2. \A e \in Lifecycle : e[1] \notin Dead
      BY DEF Lifecycle, Dead
    <3>. QED
      BY <3>1, <3>2 DEF Moves
  <2>2. CASE UNCHANGED vars
    BY <2>2
  <2>. QED
    BY <1>1, <2>1, <2>2
<1>. QED
  BY <1>1, Invariance, PTL DEF Spec, DeadStaysDead
-----------------------------------------------------------------------------
(* Deals implements Escrow.                                                *)

Delivered == {d \in DealIds : PaidOut(d)}
Closed    == {d \in DealIds : status[d] \in Dead /\ (status[d] = "failed" => ~Funded(d))}

\* The step moves neither payments nor assets.
Quiet == UNCHANGED <<evidence, given, paid>>

\* A step that moves neither payments nor assets can only close unfunded deals.
LEMMA QuietCloses ==
  ASSUME IInv, Moves, Quiet
  PROVE  /\ evidence' = evidence
         /\ Delivered' = Delivered
         /\ Closed' = Closed \cup (Closed' \ Closed)
         /\ \A d \in Closed' \ Closed : evidence[d] = NoPayment
<1>1. Delivered' = Delivered
  BY DEF Quiet, Delivered, PaidOut
<1>2. \A d \in DealIds : d \in Closed => d \in Closed'
  BY DEF Quiet, Closed, Moves, Lifecycle, Dead, Funded
<1>3. \A d \in DealIds : d \in Closed' /\ d \notin Closed => evidence[d] = NoPayment
  BY DEF Quiet, Closed, Moves, Lifecycle, Dead, Funded, IInv, OpenInv, Open
<1>. QED
  BY <1>1, <1>2, <1>3 DEF Quiet, Closed

\* What a delivery step looks like to Escrow: Deliver, or a stutter when d was delivered before.
LEMMA DeliveryRefines ==
  ASSUME NEW d \in DealIds, Funded(d), evidence' = evidence, Closed' = Closed,
         Delivered' \in {Delivered, Delivered \cup {d}}
  PROVE  [AsEscrow!EscrowNext]_(AsEscrow!escrowVars)
<1>1. CASE d \in Delivered \/ Delivered' = Delivered
  BY <1>1 DEF AsEscrow!escrowVars, Delivered, Closed
<1>2. CASE d \notin Delivered /\ Delivered' = Delivered \cup {d}
  BY <1>2 DEF AsEscrow!EscrowNext, AsEscrow!Deliver, Delivered, Closed, Funded
<1>. QED
  BY <1>1, <1>2

\* Every step of Deals is a step of Escrow, or leaves what Escrow sees alone.
LEMMA EscrowStep ==
  ASSUME IInv, TypeOK', Moves, Next
  PROVE  [AsEscrow!EscrowNext]_(AsEscrow!escrowVars)
<1> USE DEF rowVars, bookVars, worldVars, payoutVars, callVars
<1>1. ASSUME NEW d \in DealIds, Propose(d) PROVE Quiet
  BY <1>1 DEF Quiet, Propose, SetStatus
<1>2. ASSUME NEW d \in DealIds, Lapse(d) PROVE Quiet
  BY <1>2 DEF Quiet, Lapse
<1>3. ASSUME NEW d \in DealIds, Accept(d) PROVE Quiet
  BY <1>3 DEF Quiet, Accept, SetStatus
<1>4. ASSUME NEW d \in DealIds, Decline(d) PROVE Quiet
  BY <1>4 DEF Quiet, Decline, SetStatus
<1>5. ASSUME NEW d \in DealIds, Sent(d) PROVE Quiet
  BY <1>5 DEF Quiet, Sent, SetStatus
<1>6. ASSUME NEW d \in DealIds, ExpireOnTouch(d) PROVE Quiet
  BY <1>6 DEF Quiet, ExpireOnTouch, SetStatus
<1>7. ASSUME NEW d \in DealIds, Cancel(d) PROVE Quiet
  BY <1>7 DEF Quiet, Cancel, SetStatus
<1>8. ASSUME NEW d \in DealIds, GrantTransfer(d) PROVE Quiet
  BY <1>8 DEF Quiet, GrantTransfer
<1>9. ASSUME ExpireStale PROVE Quiet
  BY <1>9 DEF Quiet, ExpireStale
<1>10. ASSUME NEW p \in TonPayments, NEW d \in DealIds, UserSendsTon(p, d) PROVE Quiet
  BY <1>10 DEF Quiet, UserSendsTon, UserPays
<1>11. ASSUME NEW p \in GiftPayments, UserSendsGift(p) PROVE Quiet
  BY <1>11 DEF Quiet, UserSendsGift, UserPays
<1>12. ASSUME NEW v \in Polls, PollStart(v) PROVE Quiet
  BY <1>12 DEF Quiet, PollStart
<1>13. ASSUME NEW v \in Polls, PollEnd(v) PROVE Quiet
  BY <1>13 DEF Quiet, PollEnd
<1>14. ASSUME NEW v \in Polls, PollReport(v) PROVE Quiet
  BY <1>14 DEF Quiet, PollReport
<1>15. ASSUME NEW v \in Polls, PollReportError(v) PROVE Quiet
  BY <1>15 DEF Quiet, PollReportError
<1>16. ASSUME NEW v \in Polls, NEW d \in DealIds, PollVerify(v, d) PROVE Quiet
  BY <1>16 DEF Quiet, PollVerify
<1>17. ASSUME NEW v \in Polls, NEW d \in DealIds, PollTimeout(v, d) PROVE Quiet
  BY <1>17 DEF Quiet, PollTimeout
<1>18. ASSUME NEW v \in Polls, NEW d \in DealIds, PollForget(v, d) PROVE Quiet
  BY <1>18 DEF Quiet, PollForget
<1>19. ASSUME NEW v \in Tools, NEW d \in DealIds, ToolStart(v, d) PROVE Quiet
  BY <1>19 DEF Quiet, ToolStart
<1>20. ASSUME NEW v \in Verifiers, NEW p \in TonPayments, FindTon(v, p) PROVE Quiet
  BY <1>20 DEF Quiet, FindTon
<1>21. ASSUME NEW v \in Verifiers, NEW p \in GiftPayments, FindGift(v, p) PROVE Quiet
  BY <1>21 DEF Quiet, FindGift
<1>22. ASSUME NEW v \in Verifiers, FindNothing(v) PROVE Quiet
  BY <1>22 DEF Quiet, FindNothing
<1>23. ASSUME NEW v \in Verifiers, VerifyLost(v) PROVE Quiet
  BY <1>23 DEF Quiet, VerifyLost
<1>24. ASSUME NEW v \in Verifiers, Execute(v) PROVE Quiet
  BY <1>24 DEF Quiet, Execute, Request
<1>25. ASSUME NEW v \in Verifiers, ExecuteStops(v) PROVE Quiet
  BY <1>25 DEF Quiet, ExecuteStops
<1>26. ASSUME NEW v \in Verifiers, TonSent(v) PROVE Quiet
  BY <1>26 DEF Quiet, TonSent, Answer, Complete
<1>27. ASSUME NEW v \in Verifiers, TonPending(v) PROVE Quiet
  BY <1>27 DEF Quiet, TonPending, Answer
<1>28. ASSUME NEW v \in Verifiers, TonFailed(v) PROVE Quiet
  BY <1>28 DEF Quiet, TonFailed, Answer
<1>29. ASSUME NEW v \in Verifiers, NotifyDone(v) PROVE Quiet
  BY <1>29 DEF Quiet, NotifyDone
<1>30. ASSUME NEW v \in Verifiers, NotifyError(v) PROVE Quiet
  BY <1>30 DEF Quiet, NotifyError
<1>31. ASSUME Crash PROVE Quiet
  BY <1>31 DEF Quiet, Crash, Lose
<1>37. ASSUME StrayLands PROVE Quiet
  BY <1>37 DEF Quiet, StrayLands, StrayPays
<1>32. ASSUME Quiet
      PROVE  [AsEscrow!EscrowNext]_(AsEscrow!escrowVars)
  <2> DEFINE D == Closed' \ Closed
  <2>1. /\ evidence' = evidence /\ Delivered' = Delivered
        /\ Closed' = Closed \cup D
        /\ \A d \in D : evidence[d] = NoPayment
    BY <1>32, QuietCloses
  <2>2. D \in SUBSET DealIds
    BY DEF Closed
  <2> HIDE DEF D
  <2>3. PICK E \in SUBSET DealIds : /\ evidence' = evidence /\ Delivered' = Delivered
                                    /\ Closed' = Closed \cup E
                                    /\ \A d \in E : evidence[d] = NoPayment
    BY <2>1, <2>2
  <2>4. AsEscrow!Close(E)
    BY <2>3 DEF AsEscrow!Close, Delivered, Closed
  <2>5. AsEscrow!EscrowNext
    BY <2>4 DEF AsEscrow!EscrowNext
  <2>. QED
    BY <2>5
<1>33. ASSUME NEW v \in Verifiers, Verify(v)
      PROVE  [AsEscrow!EscrowNext]_(AsEscrow!escrowVars)
  <2> DEFINE d == cur[v]
             p == found[v]
  <2>1. d \in DealIds /\ p \in Payments /\ status[d] \in {"accepted", "payment_claimed"}
    BY <1>33 DEF Verify, Verifiable, Expected, IInv, TypeOK, FoundInv
  <2>2. evidence[d] = NoPayment
    BY <2>1 DEF IInv, OpenInv, Open, Funded
  <2>3. \A e \in DealIds : evidence[e] # p
    <3>1. CASE UserGives[d] = "gift"
      BY <1>33, <3>1 DEF Verify, Verifiable
    <3>2. CASE UserGives[d] = "ton"
      <4>1. p \in TonPayments /\ d \in settles[p]
        BY <1>33, <3>2 DEF Verify, IInv, FoundInv
      <4>2. p # NoPayment
        BY <4>1, DealsAssumption DEF Payments
      <4>3. \A e \in DealIds : evidence[e] = p => e \in settles[p]
        BY <4>2 DEF IInv, FundingIsSound, Funded
      <4>4. \A e \in DealIds : evidence[e] = p => e = d
        BY <4>1, <4>3 DEF IInv, MemoInv
      <4>. QED
        BY <2>2, <4>2, <4>4
    <3>. QED
      BY <2>1, <3>1, <3>2, DealsAssumption DEF Assets
  <2>4. evidence' = [evidence EXCEPT ![d] = p] /\ Delivered' = Delivered
    BY <1>33 DEF Verify, Delivered, PaidOut
  <2>5. d \notin Closed /\ Closed' = Closed
    <3>1. d \notin Closed /\ d \notin Closed'
      BY <1>33, <2>1 DEF Verify, Closed, Dead, IInv, TypeOK
    <3>2. \A e \in DealIds \ {d} : status'[e] = status[e] /\ evidence'[e] = evidence[e]
      BY <1>33 DEF Verify, IInv, TypeOK
    <3>. QED
      BY <3>1, <3>2 DEF Closed, Funded
  <2> HIDE DEF d, p
  <2>6. AsEscrow!Fund(d, p)
    BY <2>2, <2>3, <2>4, <2>5 DEF AsEscrow!Fund, Delivered, Closed
  <2>. QED
    BY <2>1, <2>6 DEF AsEscrow!EscrowNext
<1>34. ASSUME NEW d \in DealIds, TransferCollectible(d)
      PROVE  [AsEscrow!EscrowNext]_(AsEscrow!escrowVars)
  <2>1. Funded(d)
    BY <1>34 DEF TransferCollectible, IInv, GivenInv
  <2>2. evidence' = evidence /\ Closed' = Closed
    BY <1>34 DEF TransferCollectible, Closed, Funded
  <2>3. Delivered' \in {Delivered, Delivered \cup {d}}
    BY <1>34 DEF TransferCollectible, Delivered, PaidOut
  <2>. QED
    BY <2>1, <2>2, <2>3, DeliveryRefines
<1>35. ASSUME NEW v \in Verifiers, GiftSent(v) \/ GiftFailed(v)
      PROVE  [AsEscrow!EscrowNext]_(AsEscrow!escrowVars)
  <2>1. cur[v] \in DealIds /\ status[cur[v]] = "verified" /\ Funded(cur[v])
    BY <1>35 DEF GiftSent, GiftFailed, IInv, TypeOK, ExecutorInv, FundingIsSound
  <2>2. evidence' = evidence
    BY <1>35 DEF GiftSent, GiftFailed, Complete
  <2>3. Closed' = Closed
    <3>1. \A d \in DealIds \ {cur[v]} : status'[d] = status[d]
      BY <1>35 DEF GiftSent, GiftFailed, Complete, IInv, TypeOK
    <3>2. status'[cur[v]] \in {"completed", "failed"}
      BY <1>35, <2>1 DEF GiftSent, GiftFailed, Complete, IInv, TypeOK
    <3>. QED
      BY <2>1, <2>2, <3>1, <3>2 DEF Closed, Dead, Funded
  <2>4. Delivered' \in {Delivered, Delivered \cup {cur[v]}}
    BY <1>35, <2>1 DEF GiftSent, GiftFailed, Delivered, PaidOut
  <2>. QED
    BY <2>1, <2>2, <2>3, <2>4, DeliveryRefines
<1>36. ASSUME NEW v \in Verifiers, NEW d \in DealIds, WalletPays(v, d)
      PROVE  [AsEscrow!EscrowNext]_(AsEscrow!escrowVars)
  <2> DEFINE p == <<v, d>>
  <2>1. p \in Payouts /\ p[2] = d /\ outcome[p] # "idle" /\ paid' = paid \cup {p}
    BY <1>36, PayoutPairs DEF WalletPays, Pay
  <2>2. evidence' = evidence /\ status' = status /\ given' = given
    BY <1>36 DEF WalletPays
  <2>3. Funded(d)
    <3> HIDE DEF p
    <3>. QED
      BY <2>1 DEF IInv, GivenInv
  <2>4. Closed' = Closed
    BY <2>2 DEF Closed, Funded
  <2>5. Delivered' = Delivered \cup {d}
    BY <2>1, <2>2 DEF Delivered, PaidOut
  <2>. QED
    BY <2>2, <2>3, <2>4, <2>5, DeliveryRefines
<1>. QED
  BY <1>1, <1>2, <1>3, <1>4, <1>5, <1>6, <1>7, <1>8, <1>9, <1>10, <1>11, <1>12, <1>13, <1>14,
     <1>15, <1>16, <1>17, <1>18, <1>19, <1>20, <1>21, <1>22, <1>23, <1>24, <1>25, <1>26,
     <1>27, <1>28, <1>29, <1>30, <1>31, <1>32, <1>33, <1>34, <1>35, <1>36, <1>37
     DEF Next, Row, PollStep, Lookup, Settle

(***************************************************************************)
(* The deals subsystem implements the escrow: whatever buttons, polls,     *)
(* tools, crashes and payments do, one payment funds one deal, the agent   *)
(* delivers only on a funded deal, and a deal closed unfunded stays so.    *)
(***************************************************************************)
THEOREM DealsImplementEscrow == Spec => ImplementsEscrow
<1>1. Init => AsEscrow!EscrowInit
  BY DEF Init, TransferInit, AsEscrow!EscrowInit, PaidOut, Dead
<1>2. ASSUME IInv, IInv', [Next]_vars
      PROVE  [AsEscrow!EscrowNext]_(AsEscrow!escrowVars)
  <2>1. CASE Next
    <3>1. TypeOK'
      BY <1>2 DEF IInv
    <3>2. Moves
      BY <1>2, <2>1, <3>1, MoveStep DEF IInv
    <3>. QED
      BY <1>2, <2>1, <3>1, <3>2, EscrowStep
  <2>2. CASE UNCHANGED vars
    BY <2>2 DEF vars, rowVars, worldVars, payoutVars, AsEscrow!escrowVars, PaidOut, Funded
  <2>. QED
    BY <1>2, <2>1, <2>2
<1>. QED
  BY <1>1, <1>2, Invariance, PTL DEF Spec, ImplementsEscrow, AsEscrow!EscrowSpec
=============================================================================
