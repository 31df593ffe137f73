--------------------------- MODULE WebhooksProofs ---------------------------
(***************************************************************************)
(* What Webhooks guarantees for any set of webhooks, any number of events, *)
(* retries, updates and crashes, and any window of the inbound endpoint.   *)
(***************************************************************************)
EXTENDS Webhooks, TLAPS

\* The counters behind the bounds of the histories.
CountInv == crashes <= trouble /\ \A d \in Deliveries : manual[d] <= trouble

\* Only a loop that is running awaits anything, and it awaits one request.
LoopInv ==
  /\ OneAwaited
  /\ \A e \in Events : Awaiting(e) => event[e] = "loop"

\* What the loop has served has a row, and what it has not served has none.
FanInv ==
  \A e \in Events :
    /\ event[e] \in {"none", "queued"} =>
         matched[e] = {} /\ \A w \in Hooks : status[<<e, w>>] = "none"
    /\ event[e] = "loop" =>
         /\ \A w \in todo[e] : status[<<e, w>>] = "none"
         /\ \A w \in matched[e] \ todo[e] : status[<<e, w>>] # "none"

(***************************************************************************)
(* A delivery that nobody retries by hand has one driver: a timer or one   *)
(* request, none before its row exists and none once it is decided.  The   *)
(* attempts on disk count the requests, but for those a crash interrupted  *)
(* and the one that is open.  A request beyond the limit in force is the   *)
(* last one, since its own snapshot of the limit says so.                  *)
(***************************************************************************)
Counted(d) ==
  /\ \A q, r \in flight[d] : q = r
  /\ \A r \in flight[d] : /\ r.n = attempts[d] + 1
                         /\ r.limit <= high[d]
                         /\ over[d] <= crashes + (IF r.n > r.limit THEN 1 ELSE 0)
  /\ flight[d] # {} => d \notin timers
  /\ status[d] \in {"none", "delivered", "failed"} => flight[d] = {} /\ d \notin timers
  /\ status[d] = "none" => attempts[d] = 0 /\ sent[d] = 0 /\ over[d] = 0
  /\ attempts[d] <= high[d]
  /\ status[d] \in Open => attempts[d] < high[d]
  /\ status[d] \in Open /\ flight[d] = {} => over[d] <= crashes
  /\ over[d] <= 1 + crashes
  /\ sent[d] <= high[d] + crashes
  /\ status[d] # "gone" => sent[d] <= attempts[d] + crashes + (IF flight[d] = {} THEN 0 ELSE 1)

RetryInv ==
  \A d \in Deliveries :
    /\ status[d] = "none" => manual[d] = 0
    /\ manual[d] = 0 => Counted(d)

\* The receipt of an accepted request lasts until the end of the window.
InboundInv ==
  \A w \in Hooks :
    /\ accepted[w] <= 2
    /\ now <= Stamp + Window => accepted[w] = 0 \/ (accepted[w] = 1 /\ receipt[w] = Stamp + Window)

IInv ==
  /\ TypeOK
  /\ CountInv
  /\ LoopInv
  /\ Driven
  /\ FannedOut
  /\ FanInv
  /\ RetryInv
  /\ InboundInv
-----------------------------------------------------------------------------
\* A delivery is the pair of its event and its webhook.
LEMMA DeliveryPair ==
  /\ \A d \in Deliveries : d[1] \in Events /\ d[2] \in Hooks /\ d = <<d[1], d[2]>>
  /\ \A e \in Events, w \in Hooks : <<e, w>> \in Deliveries
  BY DEF Deliveries

\* A request carries the number of its attempt and a limit within MaxRetries.
LEMMA RequestType ==
  ASSUME TypeOK, NEW d \in Deliveries, NEW b \in BOOLEAN
  PROVE  /\ Request(d, b) \in Requests
         /\ Request(d, b).n = attempts[d] + 1
         /\ Request(d, b).limit = maxRetries[d[2]]
         /\ Request(d, b).loop = b
  BY DeliveryPair DEF TypeOK, Request, Requests

\* What the start of an attempt changes.
LEMMA AttemptStarts ==
  ASSUME TypeOK, NEW d \in Deliveries, NEW b \in BOOLEAN, Attempt(d, b)
  PROVE  /\ flight' \in [Deliveries -> SUBSET Requests] /\ sent' \in [Deliveries -> Nat]
         /\ flight'[d] = flight[d] \cup {Request(d, b)} /\ sent'[d] = sent[d] + 1
         /\ high' \in [Deliveries -> 0..MaxRetries] /\ over' \in [Deliveries -> Nat]
         /\ high'[d] >= high[d] /\ high'[d] >= maxRetries[d[2]]
         /\ over'[d] = over[d] + (IF attempts[d] + 1 > maxRetries[d[2]] THEN 1 ELSE 0)
         /\ \A c \in Deliveries : c # d => /\ flight'[c] = flight[c] /\ sent'[c] = sent[c]
                                          /\ high'[c] = high[c] /\ over'[c] = over[c]
         /\ ~b => \A c \in Deliveries : \A r \in flight'[c] : r.loop => r \in flight[c]
<1>1. Request(d, b) \in Requests /\ Request(d, b).loop = b
  BY RequestType
<1>2. flight' \in [Deliveries -> SUBSET Requests] /\ sent' \in [Deliveries -> Nat]
  BY <1>1 DEF TypeOK, Attempt
<1>3. flight'[d] = flight[d] \cup {Request(d, b)} /\ sent'[d] = sent[d] + 1
  BY DEF TypeOK, Attempt
<1>4. \A c \in Deliveries : c # d => /\ flight'[c] = flight[c] /\ sent'[c] = sent[c]
                                     /\ high'[c] = high[c] /\ over'[c] = over[c]
  BY DEF TypeOK, Attempt
<1>5. d[2] \in Hooks /\ maxRetries[d[2]] \in 1..MaxRetries /\ high[d] \in 0..MaxRetries
  BY DeliveryPair DEF TypeOK
<1>6. high' \in [Deliveries -> 0..MaxRetries] /\ over' \in [Deliveries -> Nat]
  BY <1>5, WebhooksAssumption DEF TypeOK, Attempt
<1>7. high'[d] >= high[d] /\ high'[d] >= maxRetries[d[2]]
  BY <1>5, WebhooksAssumption DEF TypeOK, Attempt
<1>8. over'[d] = over[d] + (IF attempts[d] + 1 > maxRetries[d[2]] THEN 1 ELSE 0)
  BY <1>5 DEF TypeOK, Attempt
<1>. QED
  BY <1>1, <1>2, <1>3, <1>4, <1>6, <1>7, <1>8

\* A step that starts no request for a loop, and ends no loop that still awaits one.
LEMMA LoopKept ==
  ASSUME IInv,
         \A c \in Deliveries : \A r \in flight'[c] : r.loop => r \in flight[c],
         \A f \in Events : Awaiting(f)' /\ event[f] = "loop" => event'[f] = "loop"
  PROVE  LoopInv'
<1> USE DeliveryPair
<1>1. OneAwaited'
  <2> SUFFICES ASSUME NEW e \in Events, NEW v \in Hooks, NEW w \in Hooks,
                      NEW q \in flight'[<<e, v>>], NEW r \in flight'[<<e, w>>],
                      q.loop, r.loop
               PROVE  v = w /\ q = r
    BY DEF OneAwaited
  <2>1. q \in flight[<<e, v>>] /\ r \in flight[<<e, w>>]
    OBVIOUS
  <2>. QED
    BY <2>1 DEF IInv, LoopInv, OneAwaited
<1>2. ASSUME NEW f \in Events, Awaiting(f)'
      PROVE  event'[f] = "loop"
  <2>1. Awaiting(f)
    BY <1>2 DEF Awaiting
  <2>. QED
    BY <1>2, <2>1 DEF IInv, LoopInv
<1>. QED
  BY <1>1, <1>2 DEF LoopInv

\* Steps that touch neither rows nor loops keep what is said about them.
LEMMA RowsKept ==
  ASSUME IInv, UNCHANGED <<loopVars, rowVars, crashes>>
  PROVE  (LoopInv /\ Driven /\ FannedOut /\ FanInv /\ RetryInv)'
  BY DEF IInv, loopVars, rowVars, tallyVars, LoopInv, OneAwaited, Awaiting, Driven, FannedOut, FanInv, RetryInv, Counted

\* The routes that create and update webhooks keep the invariant.
LEMMA HookStep ==
  ASSUME IInv, NEW w \in Hooks, Create(w) \/ Update(w)
  PROVE  IInv'
<1> USE WebhooksAssumption
<1>1. TypeOK'
  BY DEF IInv, TypeOK, Create, Update, Trouble, inVars, loopVars, rowVars, tallyVars, countVars
<1>2. CountInv'
  BY DEF IInv, TypeOK, CountInv, Create, Update, Trouble, rowVars, tallyVars, countVars
<1>3. InboundInv'
  BY DEF IInv, InboundInv, Create, Update, inVars
<1>4. UNCHANGED <<loopVars, rowVars, crashes>>
  BY DEF Create, Update, countVars
<1>. QED
  BY <1>1, <1>2, <1>3, <1>4, RowsKept DEF IInv

\* Deleting a webhook keeps the invariant: its rows go, its timers and requests stay.
LEMMA DeleteStep ==
  ASSUME IInv, NEW w \in Hooks, Delete(w)
  PROVE  IInv'
<1> USE WebhooksAssumption, DeliveryPair
<1>1. TypeOK'
  BY DEF IInv, TypeOK, Delete, inVars, loopVars, countVars, tallyVars, Open
<1>2. CountInv' /\ InboundInv'
  BY DEF IInv, CountInv, InboundInv, Delete, inVars, countVars
<1>3. LoopInv'
  BY DEF IInv, LoopInv, OneAwaited, Awaiting, Delete, loopVars
<1>4. Driven'
  BY DEF IInv, TypeOK, Driven, Delete, Open
<1>5. FannedOut' /\ FanInv'
  BY DEF IInv, TypeOK, FannedOut, FanInv, Delete, loopVars
<1>6. RetryInv'
  BY DEF IInv, TypeOK, RetryInv, Counted, Delete, countVars, tallyVars, Open
<1>. QED
  BY <1>1, <1>2, <1>3, <1>4, <1>5, <1>6 DEF IInv

\* An inbound request is refused while its receipt lasts, and too old afterwards.
LEMMA InboundStep ==
  ASSUME IInv, (\E w \in Hooks, t \in now..MaxTime : Receive(w, t)) \/ Tick
  PROVE  IInv'
<1> USE WebhooksAssumption
<1>1. TypeOK' /\ CountInv'
  <2>1. UNCHANGED <<hookVars, loopVars, rowVars, countVars>>
    BY DEF Receive, Tick
  <2>2. CASE Tick
    <3>1. now' \in 0..MaxTime /\ UNCHANGED <<receipt, accepted>>
      BY <2>2 DEF IInv, TypeOK, Tick
    <3>. QED
      BY <2>1, <3>1 DEF IInv, TypeOK, CountInv, hookVars, loopVars, rowVars, tallyVars, countVars
  <2>3. ASSUME NEW w \in Hooks, NEW t \in now..MaxTime, Receive(w, t)
        PROVE  TypeOK' /\ CountInv'
    <3>. DEFINE kept == [v \in Hooks |-> IF receipt[v] < t THEN -1 ELSE receipt[v]]
    <3>1. /\ receipt \in [Hooks -> Int] /\ accepted \in [Hooks -> Nat] /\ now \in 0..MaxTime
          /\ t \in 0..MaxTime /\ now' = t /\ Stamp + Window \in Int
      BY <2>3 DEF IInv, TypeOK, Receive
    <3>2. kept \in [Hooks -> Int]
      BY <3>1
    <3>3. CASE kept[w] = -1
      <4>1. receipt' = [kept EXCEPT ![w] = Stamp + Window] /\ accepted' = [accepted EXCEPT ![w] = @ + 1]
        BY <2>3, <3>3 DEF Receive, Expires
      <4>. HIDE DEF kept
      <4>. QED
        BY <3>1, <3>2, <4>1, <2>1
          DEF IInv, TypeOK, CountInv, hookVars, loopVars, rowVars, tallyVars, countVars
    <3>4. CASE kept[w] # -1
      <4>1. receipt' = kept /\ accepted' = accepted
        BY <2>3, <3>4 DEF Receive
      <4>. HIDE DEF kept
      <4>. QED
        BY <3>1, <3>2, <4>1, <2>1
          DEF IInv, TypeOK, CountInv, hookVars, loopVars, rowVars, tallyVars, countVars
    <3>. QED
      BY <3>3, <3>4
  <2>. QED
    BY <2>2, <2>3
<1>2. InboundInv'
  <2>1. CASE Tick
    BY <2>1 DEF IInv, TypeOK, InboundInv, Tick
  <2>2. ASSUME NEW w \in Hooks, NEW t \in now..MaxTime, Receive(w, t)
        PROVE  InboundInv'
    <3>1. /\ now \in Nat /\ t \in Nat /\ now' = t /\ now <= t /\ now <= Stamp + Window
          /\ receipt \in [Hooks -> Int] /\ accepted \in [Hooks -> Nat]
      BY <2>2 DEF IInv, TypeOK, Receive, Stale
    <3>. SUFFICES ASSUME NEW v \in Hooks
                  PROVE  /\ accepted'[v] <= 2
                         /\ t <= Stamp + Window =>
                              \/ accepted'[v] = 0
                              \/ accepted'[v] = 1 /\ receipt'[v] = Stamp + Window
      BY <3>1 DEF InboundInv
    <3>2. accepted[v] = 0 \/ (accepted[v] = 1 /\ receipt[v] = Stamp + Window)
      BY <3>1 DEF IInv, InboundInv
    <3>. DEFINE kept == [u \in Hooks |-> IF receipt[u] < t THEN -1 ELSE receipt[u]]
    <3>3. t <= Stamp + Window /\ accepted[v] = 1 => kept[v] = Stamp + Window /\ kept[v] # -1
      BY <3>1, <3>2
    <3>4. CASE kept[w] = -1
      <4>1. receipt' = [kept EXCEPT ![w] = Stamp + Window] /\ accepted' = [accepted EXCEPT ![w] = @ + 1]
        BY <2>2, <3>4 DEF Receive, Expires
      <4>2. CASE v = w
        BY <3>1, <3>2, <3>3, <3>4, <4>1, <4>2
      <4>3. CASE v # w
        <5>1. accepted'[v] = accepted[v] /\ receipt'[v] = kept[v]
          BY <3>1, <4>1, <4>3
        <5>. QED
          BY <3>2, <3>3, <5>1
      <4>. QED
        BY <4>2, <4>3
    <3>5. CASE kept[w] # -1
      <4>1. receipt' = kept /\ accepted' = accepted
        BY <2>2, <3>5 DEF Receive
      <4>. QED
        BY <3>2, <3>3, <4>1
    <3>. QED
      BY <3>4, <3>5
  <2>. QED
    BY <2>1, <2>2
<1>3. UNCHANGED <<loopVars, rowVars, crashes>>
  BY DEF Receive, Tick, countVars
<1>. QED
  BY <1>1, <1>2, <1>3, RowsKept DEF IInv

\* Publishing an event keeps the invariant.
LEMMA PublishStep ==
  ASSUME IInv, NEW e \in Events, Publish(e)
  PROVE  IInv'
<1> USE WebhooksAssumption
<1>1. TypeOK' /\ CountInv' /\ InboundInv'
  BY DEF IInv, TypeOK, CountInv, InboundInv, Publish, Fresh, inVars, hookVars, rowVars, tallyVars, countVars, Finished
<1>2. LoopInv'
  <2>1. \A f \in Events : event[f] = "loop" => event'[f] = "loop"
    BY DEF IInv, TypeOK, Publish, Fresh
  <2>. QED
    BY <2>1 DEF IInv, LoopInv, OneAwaited, Awaiting, Publish, rowVars, tallyVars
<1>3. Driven' /\ RetryInv'
  BY DEF IInv, Driven, RetryInv, Counted, Publish, rowVars, tallyVars, countVars
<1>4. FannedOut' /\ FanInv'
  BY DEF IInv, TypeOK, FannedOut, FanInv, Publish, Fresh, rowVars, tallyVars
<1>. QED
  BY <1>1, <1>2, <1>3, <1>4 DEF IInv

\* Starting the loop over the active webhooks keeps the invariant.
LEMMA DispatchStep ==
  ASSUME IInv, NEW e \in Events, Dispatch(e)
  PROVE  IInv'
<1> USE WebhooksAssumption
<1>1. TypeOK' /\ CountInv' /\ InboundInv'
  BY DEF IInv, TypeOK, CountInv, InboundInv, Dispatch, inVars, hookVars, rowVars, tallyVars, countVars, Finished
<1>2. LoopInv'
  BY DEF IInv, TypeOK, LoopInv, OneAwaited, Awaiting, Dispatch, rowVars, tallyVars
<1>3. Driven' /\ RetryInv'
  BY DEF IInv, Driven, RetryInv, Counted, Dispatch, rowVars, tallyVars, countVars
<1>4. FannedOut' /\ FanInv'
  BY DEF IInv, TypeOK, FannedOut, FanInv, Dispatch, rowVars, tallyVars
<1>. QED
  BY <1>1, <1>2, <1>3, <1>4 DEF IInv

\* A row that is inserted and attempted at once is driven, and counted from zero.
LEMMA InsertRow ==
  ASSUME IInv, NEW d \in Deliveries, NEW b \in BOOLEAN, status[d] = "none",
         Insert(d, b), UNCHANGED crashes
  PROVE  Driven' /\ RetryInv'
<1> USE WebhooksAssumption
<1>1. Driven'
  BY RequestType DEF IInv, TypeOK, Driven, Insert, Attempt
<1>2. ASSUME NEW c \in Deliveries, manual'[c] = 0
      PROVE  Counted(c)'
  <2>1. Counted(c)
    BY <1>2 DEF IInv, RetryInv, Insert
  <2>2. CASE c = d
    <3>1. /\ flight[d] = {} /\ attempts[d] = 0 /\ sent[d] = 0 /\ over[d] = 0 /\ d \notin timers
          /\ high[d] \in Nat /\ crashes \in Nat
      BY <2>1, <2>2 DEF IInv, TypeOK, Counted
    <3>2. /\ flight'[d] = {Request(d, b)} /\ sent'[d] = 1 /\ attempts'[d] = 0 /\ d \notin timers'
          /\ status'[d] = "pending"
      BY <3>1, AttemptStarts DEF Insert, IInv, TypeOK
    <3>3. Request(d, b).n = 1 /\ Request(d, b).limit = maxRetries[d[2]] /\ maxRetries[d[2]] \in 1..MaxRetries
      BY <3>1, RequestType, DeliveryPair DEF IInv, TypeOK
    <3>4. /\ high'[d] \in Nat /\ high'[d] >= maxRetries[d[2]] /\ high'[d] >= 1
          /\ over'[d] = 0
      BY <3>1, <3>3, AttemptStarts DEF Insert, IInv
    <3>. QED
      BY <2>2, <3>1, <3>2, <3>3, <3>4 DEF Counted, Open
  <2>3. CASE c # d
    BY <2>1, <2>3 DEF IInv, TypeOK, Counted, Insert, Attempt
  <2>. QED
    BY <2>2, <2>3
<1>3. \A c \in Deliveries : status'[c] = "none" => manual'[c] = 0
  BY DEF IInv, TypeOK, RetryInv, Insert
<1>. QED
  BY <1>1, <1>2, <1>3 DEF RetryInv

\* The next round of the loop keeps the invariant.
LEMMA NextHookStep ==
  ASSUME IInv, NEW e \in Events, NEW w \in Hooks, NextHook(e, w)
  PROVE  IInv'
<1> USE WebhooksAssumption, DeliveryPair
<1> DEFINE d == <<e, w>>
<1>0. event[e] = "loop" /\ ~Awaiting(e) /\ w \in todo[e] /\ status[d] = "none" /\ d \in Deliveries
  BY DEF NextHook, IInv, FanInv
<1>1. CASE hook[w] = "deleted"
  <2>1. TypeOK' /\ CountInv' /\ InboundInv'
    BY <1>1 DEF IInv, TypeOK, CountInv, InboundInv, NextHook, inVars, hookVars, rowVars, tallyVars, countVars, Finished
  <2>2. Driven' /\ RetryInv'
    BY <1>1 DEF IInv, Driven, RetryInv, Counted, NextHook, rowVars, tallyVars, countVars
  <2>3. LoopInv'
    <3>1. UNCHANGED flight /\ \A f \in Events : f # e => event'[f] = event[f]
      BY <1>1 DEF IInv, TypeOK, NextHook, rowVars, tallyVars
    <3>2. ~Awaiting(e)'
      BY <1>0, <3>1 DEF Awaiting
    <3>. QED
      BY <3>1, <3>2, LoopKept
  <2>4. FannedOut' /\ FanInv'
    <3>1. UNCHANGED <<status, matched>> /\ event' = [event EXCEPT ![e] = "aborted"]
          /\ todo' = [todo EXCEPT ![e] = {}]
      BY <1>1 DEF NextHook, rowVars, tallyVars
    <3>. QED
      BY <3>1 DEF IInv, TypeOK, FannedOut, FanInv
  <2>. QED
    BY <2>1, <2>2, <2>3, <2>4 DEF IInv
<1>2. CASE hook[w] # "deleted"
  <2>0. Insert(d, TRUE) /\ todo' = [todo EXCEPT ![e] = @ \ {w}]
        /\ UNCHANGED <<event, inVars, hookVars, matched, countVars>>
    BY <1>2 DEF NextHook
  <2>1. TypeOK' /\ CountInv' /\ InboundInv'
    <3>1. /\ flight' \in [Deliveries -> SUBSET Requests] /\ sent' \in [Deliveries -> Nat]
          /\ high' \in [Deliveries -> 0..MaxRetries] /\ over' \in [Deliveries -> Nat]
      BY <1>0, <2>0, AttemptStarts DEF IInv, Insert
    <3>. QED
      BY <1>0, <2>0, <3>1 DEF IInv, TypeOK, CountInv, InboundInv, Insert, inVars, hookVars, countVars, Open
  <2>2. Driven' /\ RetryInv'
    BY <1>0, <2>0, InsertRow DEF countVars
  <2>3. LoopInv'
    <3>1. flight' = [flight EXCEPT ![d] = @ \cup {Request(d, TRUE)}]
      BY <2>0 DEF Insert, Attempt
    <3>2. \A v \in Hooks : \A q \in flight'[<<e, v>>] :
             q.loop => v = w /\ q = Request(d, TRUE)
      BY <1>0, <3>1 DEF IInv, TypeOK, Awaiting
    <3>3. \A f \in Events, v \in Hooks : f # e => flight'[<<f, v>>] = flight[<<f, v>>]
      BY <3>1 DEF IInv, TypeOK
    <3>4. OneAwaited'
      <4> SUFFICES ASSUME NEW f \in Events, NEW u \in Hooks, NEW v \in Hooks,
                          NEW q \in flight'[<<f, u>>], NEW r \in flight'[<<f, v>>],
                          q.loop, r.loop
                   PROVE  u = v /\ q = r
        BY DEF OneAwaited
      <4>1. CASE f = e
        BY <3>2, <4>1, ZenonT(30)
      <4>2. CASE f # e
        BY <3>3, <4>2 DEF IInv, LoopInv, OneAwaited
      <4>. QED
        BY <4>1, <4>2
    <3>5. \A f \in Events : Awaiting(f)' => event'[f] = "loop"
      BY <1>0, <2>0, <3>3 DEF IInv, LoopInv, Awaiting
    <3>. QED
      BY <3>4, <3>5 DEF LoopInv
  <2>4. FannedOut' /\ FanInv'
    BY <1>0, <2>0 DEF IInv, TypeOK, FannedOut, FanInv, Insert
  <2>. QED
    BY <2>1, <2>2, <2>3, <2>4 DEF IInv
<1>. QED
  BY <1>1, <1>2

\* A request of the route that tests a webhook keeps the invariant.
LEMMA TestStep ==
  ASSUME IInv, NEW e \in Events, NEW w \in Hooks, Test(e, w)
  PROVE  IInv'
<1> USE WebhooksAssumption, DeliveryPair
<1> DEFINE d == <<e, w>>
<1>0. /\ Insert(d, FALSE) /\ event[e] = "none" /\ event' = [event EXCEPT ![e] = "done"]
      /\ status[d] = "none" /\ matched[e] = {} /\ d \in Deliveries
      /\ UNCHANGED <<inVars, hookVars, todo, matched, countVars>>
  BY DEF Test, Fresh, IInv, FanInv
<1>1. TypeOK' /\ CountInv' /\ InboundInv'
  <2>1. /\ flight' \in [Deliveries -> SUBSET Requests] /\ sent' \in [Deliveries -> Nat]
        /\ high' \in [Deliveries -> 0..MaxRetries] /\ over' \in [Deliveries -> Nat]
    BY <1>0, AttemptStarts DEF IInv, Insert
  <2>. QED
    BY <1>0, <2>1 DEF IInv, TypeOK, CountInv, InboundInv, Insert, inVars, hookVars, countVars, Open, Finished
<1>2. Driven' /\ RetryInv'
  BY <1>0, InsertRow DEF countVars
<1>3. LoopInv'
  <2>1. \A c \in Deliveries : \A r \in flight'[c] : r.loop => r \in flight[c]
    BY <1>0, RequestType DEF IInv, TypeOK, Insert, Attempt
  <2>2. \A f \in Events : event[f] = "loop" => event'[f] = "loop"
    BY <1>0 DEF IInv, TypeOK
  <2>. QED
    BY <2>1, <2>2, LoopKept
<1>4. FannedOut' /\ FanInv'
  BY <1>0 DEF IInv, TypeOK, FannedOut, FanInv, Insert
<1>. QED
  BY <1>1, <1>2, <1>3, <1>4 DEF IInv

\* The loop that an ended attempt hands control back to is in order.
LEMMA ResumeLoop ==
  ASSUME IInv, NEW d \in Deliveries, NEW r \in flight[d], NEW ok \in BOOLEAN,
         flight' = [flight EXCEPT ![d] = @ \ {r}],
         \A c \in Deliveries : status[c] = "none" <=> status'[c] = "none",
         Resume(d, r, ok)
  PROVE  /\ event' \in [Events -> Finished \cup {"none", "queued", "loop"}]
         /\ todo' \in [Events -> SUBSET Hooks]
         /\ matched' = matched
         /\ LoopInv' /\ FannedOut' /\ FanInv'
<1> USE DeliveryPair
<1> DEFINE e == d[1]
<1>0. \A c \in Deliveries : flight'[c] \subseteq flight[c]
  BY DEF IInv, TypeOK
<1>1. CASE ~r.loop
  <2>1. UNCHANGED loopVars
    BY <1>1 DEF Resume
  <2>2. LoopInv'
    BY <1>0, <2>1, LoopKept DEF loopVars
  <2>3. FannedOut' /\ FanInv'
    BY <2>1 DEF IInv, TypeOK, FannedOut, FanInv, loopVars
  <2>. QED
    BY <2>1, <2>2, <2>3 DEF IInv, TypeOK, loopVars
<1>2. CASE r.loop
  <2>0. /\ event' = [event EXCEPT ![e] = IF status[d] = "gone" THEN "aborted"
                                         ELSE IF todo[e] = {} THEN "done" ELSE @]
        /\ todo' = [todo EXCEPT ![e] = IF status[d] = "gone" THEN {} ELSE @]
        /\ matched' = matched
    BY <1>2 DEF Resume
  <2>1. event[e] = "loop"
    BY <1>2 DEF IInv, LoopInv, Awaiting
  <2>2. ~Awaiting(e)'
    <3> SUFFICES ASSUME NEW w \in Hooks, NEW q \in flight'[<<e, w>>], q.loop
                 PROVE  FALSE
      BY DEF Awaiting
    <3>1. q \in flight[<<e, w>>]
      BY <1>0
    <3>2. w = d[2] /\ q = r
      BY <1>2, <3>1 DEF IInv, LoopInv, OneAwaited
    <3>. QED
      BY <3>2 DEF IInv, TypeOK
  <2>3. LoopInv'
    <3>1. \A f \in Events : f # e => event'[f] = event[f]
      BY <2>0 DEF IInv, TypeOK
    <3>. QED
      BY <1>0, <2>2, <3>1, LoopKept
  <2>4. FannedOut' /\ FanInv'
    <3>1. ASSUME NEW f \in Events, f # e
          PROVE  event'[f] = event[f] /\ todo'[f] = todo[f] /\ matched'[f] = matched[f]
      BY <2>0, <3>1 DEF IInv, TypeOK
    <3>2. /\ event'[e] \in {"aborted", "done", "loop"}
          /\ event'[e] = "done" => todo[e] = {}
          /\ event'[e] = "loop" => todo'[e] = todo[e]
      BY <2>0, <2>1 DEF IInv, TypeOK
    <3>3. \A f \in Events, w \in Hooks :
            status'[<<f, w>>] = "none" <=> status[<<f, w>>] = "none"
      OBVIOUS
    <3>4. matched[e] \subseteq Hooks /\ todo[e] \subseteq Hooks /\ e \in Events
      BY DEF IInv, TypeOK
    <3>5. \A f \in Events : matched[f] \subseteq Hooks /\ todo[f] \subseteq Hooks
      BY DEF IInv, TypeOK
    <3>6. FanInv'
      <4> SUFFICES ASSUME NEW f \in Events
                   PROVE  /\ event'[f] \in {"none", "queued"} =>
                               matched'[f] = {} /\ \A w \in Hooks : status'[<<f, w>>] = "none"
                          /\ event'[f] = "loop" =>
                               /\ \A w \in todo'[f] : status'[<<f, w>>] = "none"
                               /\ \A w \in matched'[f] \ todo'[f] : status'[<<f, w>>] # "none"
        BY DEF FanInv
      <4>1. CASE f = e
        BY <2>0, <2>1, <3>2, <3>3, <3>4, <4>1 DEF IInv, FanInv
      <4>2. CASE f # e
        BY <3>1, <3>3, <3>5, <4>2 DEF IInv, FanInv
      <4>. QED
        BY <4>1, <4>2
    <3>7. FannedOut'
      <4> SUFFICES ASSUME NEW f \in Events, event'[f] = "done", NEW w \in matched'[f]
                   PROVE  status'[<<f, w>>] # "none"
        BY DEF FannedOut
      <4>1. CASE f = e
        BY <2>0, <2>1, <3>2, <3>3, <3>4, <4>1 DEF IInv, FanInv
      <4>2. CASE f # e
        BY <2>0, <3>1, <3>3, <3>5, <4>2 DEF IInv, FannedOut
      <4>. QED
        BY <4>1, <4>2
    <3>. QED
      BY <3>6, <3>7
  <2>5. event' \in [Events -> Finished \cup {"none", "queued", "loop"}]
    BY <2>0 DEF IInv, TypeOK, Finished
  <2>6. todo' \in [Events -> SUBSET Hooks]
    BY <2>0 DEF IInv, TypeOK
  <2>. QED
    BY <2>0, <2>3, <2>4, <2>5, <2>6
<1>. QED
  BY <1>1, <1>2

(***************************************************************************)
(* The end of an attempt keeps the invariant, if the row it writes is      *)
(* "retrying" exactly when it also sets the timer.                         *)
(***************************************************************************)
LEMMA SettleStep ==
  ASSUME IInv, NEW d \in Deliveries, NEW r \in flight[d], NEW ok \in BOOLEAN,
         NEW s \in {"delivered", "failed", "retrying"},
         flight' = [flight EXCEPT ![d] = @ \ {r}],
         Write(d, s, r.n),
         timers' = IF s = "retrying" THEN timers \cup {d} ELSE timers,
         s = "retrying" => r.n < r.limit,
         Resume(d, r, ok),
         UNCHANGED <<inVars, hookVars, tallyVars, manual, countVars>>
  PROVE  IInv'
<1> USE WebhooksAssumption
<1>0. r \in Requests /\ r.n \in Nat /\ r.limit \in 1..MaxRetries
  BY DEF IInv, TypeOK, Requests
<1>1. status[d] # "none"
  BY DEF IInv, RetryInv, Counted
<1>2. /\ status' \in [Deliveries -> Open \cup {"none", "delivered", "failed", "gone"}]
      /\ attempts' \in [Deliveries -> Nat]
  BY <1>0 DEF IInv, TypeOK, Write, Open
<1>3. \A c \in Deliveries : status[c] = "none" <=> status'[c] = "none"
  BY <1>1 DEF IInv, TypeOK, Write
<1>4. /\ event' \in [Events -> Finished \cup {"none", "queued", "loop"}]
      /\ todo' \in [Events -> SUBSET Hooks]
      /\ matched' = matched
      /\ LoopInv' /\ FannedOut' /\ FanInv'
  BY <1>3, ResumeLoop
<1>5. TypeOK'
  BY <1>2, <1>4 DEF IInv, TypeOK, inVars, hookVars, tallyVars, countVars
<1>6. CountInv' /\ InboundInv'
  BY DEF IInv, CountInv, InboundInv, inVars, countVars
<1>7. Driven'
  BY DEF IInv, TypeOK, Driven, Write, Open
<1>8. RetryInv'
  <2>1. \A c \in Deliveries : status'[c] = "none" => manual'[c] = 0
    BY <1>3 DEF IInv, RetryInv
  <2>2. ASSUME NEW c \in Deliveries, manual'[c] = 0
        PROVE  Counted(c)'
    <3>1. Counted(c)
      BY <2>2 DEF IInv, RetryInv
    <3>2. CASE c # d
      BY <3>1, <3>2 DEF IInv, TypeOK, Counted, Write, countVars, tallyVars
    <3>3. CASE c = d
      <4>1. /\ flight'[d] = {} /\ r.n = attempts[d] + 1 /\ d \notin timers
            /\ r.limit <= high[d] /\ over[d] <= crashes + (IF r.n > r.limit THEN 1 ELSE 0)
            /\ UNCHANGED <<sent, high, over, crashes>>
        BY <3>1, <3>3 DEF IInv, TypeOK, Counted, tallyVars, countVars
      <4>2. CASE status[d] = "gone"
        BY <3>1, <3>3, <4>1, <4>2 DEF Counted, Write, Open
      <4>3. CASE status[d] # "gone"
        <5>1. status'[d] = s /\ attempts'[d] = attempts[d] + 1
          BY <4>1, <4>3 DEF IInv, TypeOK, Write
        <5>2. status[d] \in Open
          BY <1>1, <3>1, <3>3, <4>3 DEF IInv, TypeOK, Counted
        <5>3. /\ attempts[d] \in Nat /\ sent[d] \in Nat /\ crashes \in Nat
              /\ high[d] \in Nat /\ over[d] \in Nat
          BY DEF IInv, TypeOK
        <5>4. attempts[d] < high[d] /\ sent[d] <= attempts[d] + crashes + 1
              /\ over[d] <= 1 + crashes /\ sent[d] <= high[d] + crashes
          BY <3>1, <3>3, <4>3, <5>2, <5>3 DEF Counted
        <5>5. s = "retrying" => attempts[d] + 1 < high[d] /\ over[d] <= crashes
          BY <1>0, <4>1, <5>3
        <5>. QED
          BY <3>3, <4>1, <5>1, <5>3, <5>4, <5>5 DEF Counted, Open
      <4>. QED
        BY <4>2, <4>3
    <3>. QED
      BY <3>2, <3>3
  <2>. QED
    BY <2>1, <2>2 DEF RetryInv
<1>. QED
  BY <1>4, <1>5, <1>6, <1>7, <1>8 DEF IInv

\* An answer of the receiver, or its absence, keeps the invariant.
LEMMA AnswerStep ==
  ASSUME IInv, NEW d \in Deliveries, Settle(d)
  PROVE  IInv'
<1>1. ASSUME NEW r \in flight[d], Succeed(d, r)
      PROVE  IInv'
  BY <1>1, SettleStep DEF Succeed
<1>2. ASSUME NEW r \in flight[d], NEW p \in BOOLEAN, FailAttempt(d, r, p)
      PROVE  IInv'
  <2>1. r.n \in Nat /\ r.limit \in Nat
    BY DEF IInv, TypeOK, Requests
  <2>2. CASE Exhausted(r) \/ p
    BY <1>2, <2>2, SettleStep DEF FailAttempt
  <2>3. CASE ~(Exhausted(r) \/ p)
    <3>1. r.n < r.limit
      BY <2>1, <2>3 DEF Exhausted
    <3>. QED
      BY <1>2, <2>3, <3>1, SettleStep DEF FailAttempt
  <2>. QED
    BY <2>2, <2>3
<1>. QED
  BY <1>1, <1>2 DEF Settle

\* The timer of a retry keeps the invariant.
LEMMA FireStep ==
  ASSUME IInv, NEW d \in Deliveries, Fire(d)
  PROVE  IInv'
<1> USE WebhooksAssumption
<1>0. d \in timers /\ timers' = timers \ {d}
      /\ UNCHANGED <<inVars, hookVars, loopVars, status, attempts, manual, countVars>>
  BY DEF Fire
<1>1. /\ flight' \in [Deliveries -> SUBSET Requests] /\ sent' \in [Deliveries -> Nat]
      /\ \A c \in Deliveries : \A r \in flight'[c] : r.loop => r \in flight[c]
      /\ high' \in [Deliveries -> 0..MaxRetries] /\ over' \in [Deliveries -> Nat]
      /\ \A c \in Deliveries : c # d \/ status[d] = "gone" =>
           /\ flight'[c] = flight[c] /\ sent'[c] = sent[c]
           /\ high'[c] = high[c] /\ over'[c] = over[c]
      /\ status[d] # "gone" =>
           /\ flight'[d] = flight[d] \cup {Request(d, FALSE)} /\ sent'[d] = sent[d] + 1
           /\ high'[d] >= high[d] /\ high'[d] >= maxRetries[d[2]]
           /\ over'[d] = over[d] + (IF attempts[d] + 1 > maxRetries[d[2]] THEN 1 ELSE 0)
  <2>1. CASE status[d] = "gone"
    BY <2>1 DEF Fire, IInv, TypeOK, tallyVars
  <2>2. CASE status[d] # "gone"
    BY <2>2, AttemptStarts DEF Fire, IInv
  <2>. QED
    BY <2>1, <2>2
<1>2. TypeOK'
  BY <1>0, <1>1 DEF IInv, TypeOK, inVars, hookVars, loopVars, countVars
<1>3. CountInv' /\ InboundInv' /\ FannedOut' /\ FanInv'
  BY <1>0 DEF IInv, CountInv, InboundInv, FannedOut, FanInv, inVars, loopVars, countVars
<1>4. LoopInv'
  BY <1>0, <1>1, LoopKept DEF loopVars
<1>5. Driven'
  BY <1>0, <1>1 DEF IInv, TypeOK, Driven, Open
<1>6. RetryInv'
  <2>1. ASSUME NEW c \in Deliveries, manual'[c] = 0
        PROVE  Counted(c)'
    <3>1. Counted(c)
      BY <1>0, <2>1 DEF IInv, RetryInv
    <3>2. CASE c # d
      BY <1>0, <1>1, <3>1, <3>2 DEF Counted, countVars
    <3>3. CASE c = d /\ status[d] = "gone"
      BY <1>0, <1>1, <3>1, <3>3 DEF Counted, countVars
    <3>4. CASE c = d /\ status[d] # "gone"
      <4>1. flight[d] = {} /\ status[d] \in Open
        BY <1>0, <3>1, <3>4 DEF IInv, TypeOK, Counted
      <4>2. /\ attempts[d] \in Nat /\ sent[d] \in Nat /\ crashes \in Nat /\ over[d] \in Nat
            /\ high[d] \in Nat /\ high'[d] \in Nat /\ maxRetries[d[2]] \in Nat
        BY <1>1, DeliveryPair DEF IInv, TypeOK
      <4>3. Request(d, FALSE).n = attempts[d] + 1 /\ Request(d, FALSE).limit = maxRetries[d[2]]
        BY RequestType DEF IInv
      <4>4. /\ flight'[d] = {Request(d, FALSE)} /\ sent'[d] = sent[d] + 1 /\ d \notin timers'
            /\ UNCHANGED <<status, attempts, crashes>>
        BY <1>0, <1>1, <3>4, <4>1 DEF countVars
      <4>5. sent[d] <= attempts[d] + crashes /\ attempts[d] < high[d] /\ over[d] <= crashes
        BY <3>1, <3>4, <4>1, <4>2 DEF Counted
      <4>10. high'[d] >= high[d] /\ high'[d] >= maxRetries[d[2]]
             /\ over'[d] = over[d] + (IF attempts[d] + 1 > maxRetries[d[2]] THEN 1 ELSE 0)
        BY <1>1, <3>4
      <4>6. /\ sent'[d] <= high'[d] + crashes' /\ sent'[d] <= attempts'[d] + crashes' + 1
            /\ attempts'[d] < high'[d] /\ over'[d] <= 1 + crashes'
        BY <4>2, <4>4, <4>5, <4>10
      <4>11. over'[d] <= crashes' + (IF attempts'[d] + 1 > maxRetries[d[2]] THEN 1 ELSE 0)
        BY <4>2, <4>4, <4>5, <4>10
      <4>7. /\ flight'[d] # {}
            /\ \A q, r \in flight'[d] : q = r
            /\ \A r \in flight'[d] : /\ r.n = attempts'[d] + 1
                                    /\ r.limit <= high'[d]
                                    /\ over'[d] <= crashes' + (IF r.n > r.limit THEN 1 ELSE 0)
        BY <4>3, <4>4, <4>10, <4>11
      <4>8. status'[d] \notin {"none", "delivered", "failed"}
        BY <4>1, <4>4 DEF Open
      <4>9. attempts'[d] <= high'[d]
        BY <4>2, <4>4, <4>6
      <4>. QED
        BY <3>4, <4>4, <4>6, <4>7, <4>8, <4>9 DEF Counted
    <3>. QED
      BY <3>2, <3>3, <3>4
  <2>. QED
    BY <1>0, <2>1 DEF IInv, RetryInv
<1>. QED
  BY <1>2, <1>3, <1>4, <1>5, <1>6 DEF IInv

\* A retry by hand keeps the invariant.
LEMMA RetryDeliveryStep ==
  ASSUME IInv, NEW d \in Deliveries, RetryDelivery(d)
  PROVE  IInv'
<1> USE WebhooksAssumption
<1>1. /\ flight' \in [Deliveries -> SUBSET Requests] /\ sent' \in [Deliveries -> Nat]
      /\ \A c \in Deliveries : \A r \in flight'[c] : r.loop => r \in flight[c]
      /\ high' \in [Deliveries -> 0..MaxRetries] /\ over' \in [Deliveries -> Nat]
      /\ \A c \in Deliveries : c # d => /\ flight'[c] = flight[c] /\ sent'[c] = sent[c]
                                       /\ high'[c] = high[c] /\ over'[c] = over[c]
      /\ flight'[d] # {}
  BY AttemptStarts DEF RetryDelivery, IInv
<1>2. /\ manual' \in [Deliveries -> 0..MaxTrouble] /\ trouble' \in 0..MaxTrouble
      /\ \A c \in Deliveries : manual'[c] <= trouble'
      /\ crashes' <= trouble'
  BY DEF IInv, TypeOK, CountInv, RetryDelivery, Trouble
<1>3. TypeOK' /\ CountInv'
  BY <1>1, <1>2 DEF IInv, TypeOK, CountInv, RetryDelivery, inVars, hookVars, loopVars, Open
<1>7. InboundInv' /\ FannedOut' /\ FanInv'
  BY DeliveryPair
     DEF IInv, TypeOK, InboundInv, FannedOut, FanInv, RetryDelivery, inVars, loopVars, Open
<1>4. LoopInv'
  BY <1>1, LoopKept DEF RetryDelivery, loopVars
<1>5. Driven'
  BY <1>1 DEF IInv, TypeOK, Driven, RetryDelivery, Open
<1>6. RetryInv'
  <2>1. manual'[d] # 0
    BY DEF IInv, TypeOK, RetryDelivery
  <2>2. ASSUME NEW c \in Deliveries, c # d
        PROVE  /\ status'[c] = "none" => manual'[c] = 0
               /\ manual'[c] = 0 => Counted(c)'
    BY <1>1, <2>2 DEF IInv, TypeOK, RetryInv, Counted, RetryDelivery
  <2>3. status'[d] # "none"
    BY DEF IInv, TypeOK, RetryDelivery
  <2>. QED
    BY <2>1, <2>2, <2>3 DEF RetryInv
<1>. QED
  BY <1>3, <1>4, <1>5, <1>6, <1>7 DEF IInv

\* The death of the process and its next start keep the invariant.
LEMMA RestartStep ==
  ASSUME IInv, Restart
  PROVE  IInv'
<1> USE WebhooksAssumption
<1>1. TypeOK' /\ CountInv'
  BY DEF IInv, TypeOK, CountInv, Restart, Trouble, OnDisk, inVars, hookVars, tallyVars, Finished
<1>2. InboundInv' /\ FannedOut' /\ FanInv'
  BY DEF IInv, TypeOK, InboundInv, FannedOut, FanInv, Restart, inVars
<1>3. LoopInv'
  BY DeliveryPair DEF LoopInv, OneAwaited, Awaiting, Restart
<1>4. Driven'
  BY DEF Driven, Restart, OnDisk
<1>5. RetryInv'
  <2>1. ASSUME NEW c \in Deliveries, manual'[c] = 0
        PROVE  Counted(c)'
    <3>1. Counted(c)
      BY <2>1 DEF IInv, RetryInv, Restart
    <3>2. crashes' = crashes + 1 /\ crashes \in Nat /\ attempts[c] \in Nat /\ sent[c] \in Nat
          /\ high[c] \in Nat /\ over[c] \in Nat
      BY DEF IInv, TypeOK, Restart
    <3>3. flight'[c] = {} /\ (c \in timers' <=> status[c] \in Open)
          /\ UNCHANGED <<status, attempts, sent, high, over>>
      BY DEF Restart, OnDisk, tallyVars
    <3>. QED
      BY <3>1, <3>2, <3>3 DEF Counted, Open
  <2>. QED
    BY <2>1 DEF IInv, RetryInv, Restart
<1>. QED
  BY <1>1, <1>2, <1>3, <1>4, <1>5 DEF IInv

\* Nothing is registered, published or received.
LEMMA InitIInv == Init => IInv
<1> SUFFICES ASSUME Init PROVE IInv
  OBVIOUS
<1> USE WebhooksAssumption, DeliveryPair
<1>1. TypeOK /\ CountInv /\ InboundInv
  BY DEF Init, TypeOK, CountInv, InboundInv, Finished, Open
<1>2. LoopInv /\ Driven
  BY DEF Init, LoopInv, OneAwaited, Awaiting, Driven, Open
<1>3. FannedOut /\ FanInv /\ RetryInv
  BY DEF Init, FannedOut, FanInv, RetryInv, Counted, Open
<1>. QED
  BY <1>1, <1>2, <1>3 DEF IInv

\* Every step of the specification keeps the inductive invariant.
LEMMA NextIInv == IInv /\ [Next]_vars => IInv'
<1> SUFFICES ASSUME IInv, [Next]_vars
             PROVE  IInv'
  OBVIOUS
<1>1. CASE Next
  BY <1>1, HookStep, DeleteStep, InboundStep, PublishStep, DispatchStep, NextHookStep, TestStep,
     AnswerStep, FireStep, RetryDeliveryStep, RestartStep DEF Next, Loop
<1>2. CASE UNCHANGED vars
  <2>1. TypeOK' /\ CountInv' /\ InboundInv'
    BY <1>2 DEF vars, inVars, hookVars, loopVars, rowVars, tallyVars, countVars, IInv, TypeOK, CountInv, InboundInv
  <2>2. UNCHANGED <<loopVars, rowVars, crashes>>
    BY <1>2 DEF vars, countVars
  <2>. QED
    BY <2>1, <2>2, RowsKept DEF IInv
<1>. QED
  BY <1>1, <1>2

\* IInv is an invariant of the specification.
THEOREM Inductive == Spec => []IInv
  BY InitIInv, NextIInv, PTL DEF Spec
-----------------------------------------------------------------------------
(***************************************************************************)
(* Whatever overlaps (retries by hand, updates, deletions, restarts), no   *)
(* open delivery is left with nothing to move it, a loop of dispatchEvent  *)
(* awaits one request at a time, and the variables keep their types.       *)
(***************************************************************************)
THEOREM NothingStranded == Spec => []Consistent
<1>1. IInv => Consistent
  BY DEF IInv, LoopInv, Consistent
<1>. QED
  BY Inductive, <1>1, PTL

(***************************************************************************)
(* However often max_retries is edited while attempts are open, and        *)
(* wherever the process dies, a delivery that nobody retries by hand is    *)
(* requested no more often than the largest max_retries its webhook had    *)
(* for one of its requests, and once more per crash; and beyond the        *)
(* max_retries in force once, and once more per crash.                     *)
(***************************************************************************)
THEOREM RequestsAreBounded == Spec => []RequestsBounded
<1>1. IInv => RequestsBounded
  BY DEF IInv, RetryInv, Counted, RequestsBounded
<1>. QED
  BY Inductive, <1>1, PTL

(***************************************************************************)
(* dispatchEvent passes no webhook over: when its loop has run to its end, *)
(* every webhook that was active at the dispatch has its delivery, whether *)
(* or not the receivers before it answered.  A loop that a deletion breaks *)
(* off does not run to its end.                                            *)
(***************************************************************************)
THEOREM EveryHookServed == Spec => []FannedOut
<1>1. IInv => FannedOut
  BY DEF IInv
<1>. QED
  BY Inductive, <1>1, PTL

(***************************************************************************)
(* verifyIncomingSignature accepts a signed request once while the window  *)
(* of its timestamp lasts, for every timestamp and window, and once more   *)
(* at most, when the clock leaves the window between its two reads.        *)
(***************************************************************************)
THEOREM NoReplay == Spec => []AcceptedOnce
<1>1. IInv => AcceptedOnce
  <2> SUFFICES ASSUME IInv, NEW w \in Hooks
               PROVE  accepted[w] <= IF now <= Stamp + Window THEN 1 ELSE 2
    BY DEF AcceptedOnce
  <2>1. accepted[w] \in Nat /\ accepted[w] <= 2
    BY DEF IInv, TypeOK, InboundInv
  <2>2. now <= Stamp + Window => accepted[w] \in {0, 1}
    BY DEF IInv, InboundInv
  <2>. QED
    BY <2>1, <2>2
<1>. QED
  BY Inductive, <1>1, PTL

(***************************************************************************)
(* What was delivered, and never retried by hand, is not sent again: no    *)
(* step of the dispatcher, a restart included, touches it, but for the     *)
(* deletion of its webhook.                                                *)
(***************************************************************************)
THEOREM DeliveredIsFinal == Spec => DeliveredStays
<1>1. ASSUME IInv, [Next]_vars, NEW d \in Deliveries, status[d] = "delivered", manual[d] = 0
      PROVE  status'[d] \in {"delivered", "gone"} /\ sent'[d] = sent[d]
  <2> USE DeliveryPair
  <2>1. flight[d] = {} /\ d \notin timers
    BY <1>1 DEF IInv, RetryInv, Counted
  <2>2. ASSUME NEW w \in Hooks, Create(w) \/ Update(w) \/ \E t \in now..MaxTime : Receive(w, t)
        PROVE  UNCHANGED rowVars
    BY <2>2 DEF Create, Update, Receive
  <2>3. ASSUME NEW w \in Hooks, Delete(w)
        PROVE  status'[d] \in {"delivered", "gone"} /\ sent'[d] = sent[d]
    BY <1>1, <2>3 DEF Delete, tallyVars
  <2>4. ASSUME NEW e \in Events, Publish(e) \/ Dispatch(e)
        PROVE  UNCHANGED rowVars
    BY <2>4 DEF Publish, Dispatch
  <2>5. ASSUME NEW e \in Events, NEW w \in Hooks, NextHook(e, w)
        PROVE  status'[d] = "delivered" /\ sent'[d] = sent[d]
    <3>1. status[<<e, w>>] = "none"
      BY <1>1, <2>5 DEF NextHook, IInv, FanInv
    <3>. QED
      BY <1>1, <2>5, <3>1 DEF NextHook, Insert, Attempt, rowVars, tallyVars, IInv, TypeOK
  <2>6. ASSUME NEW e \in Events, NEW w \in Hooks, Test(e, w)
        PROVE  status'[d] = "delivered" /\ sent'[d] = sent[d]
    <3>1. status[<<e, w>>] = "none"
      BY <1>1, <2>6 DEF Test, Fresh, IInv, FanInv
    <3>. QED
      BY <1>1, <2>6, <3>1 DEF Test, Insert, Attempt, IInv, TypeOK
  <2>7. ASSUME NEW c \in Deliveries, Settle(c)
        PROVE  status'[d] = "delivered" /\ sent'[d] = sent[d]
    BY <1>1, <2>1, <2>7, ZenonT(30) DEF Settle, Succeed, FailAttempt, Write, tallyVars, IInv, TypeOK
  <2>8. ASSUME NEW c \in Deliveries, Fire(c)
        PROVE  status'[d] = "delivered" /\ sent'[d] = sent[d]
    BY <1>1, <2>1, <2>8 DEF Fire, Attempt, tallyVars, IInv, TypeOK
  <2>9. ASSUME NEW c \in Deliveries, RetryDelivery(c)
        PROVE  status'[d] = "delivered" /\ sent'[d] = sent[d]
    BY <1>1, <2>9 DEF RetryDelivery, Attempt, Open, IInv, TypeOK
  <2>10. ASSUME Tick \/ Restart \/ UNCHANGED vars
         PROVE  UNCHANGED <<status, sent>>
    BY <2>10 DEF Tick, Restart, vars, rowVars, tallyVars
  <2>. QED
    BY <1>1, <2>2, <2>3, <2>4, <2>5, <2>6, <2>7, <2>8, <2>9, <2>10 DEF Next, Loop, rowVars, tallyVars
<1>2. IInv /\ [Next]_vars
        => [\A d \in Deliveries : status[d] = "delivered" /\ manual[d] = 0
              => status'[d] \in {"delivered", "gone"} /\ sent'[d] = sent[d]]_vars
  BY <1>1
<1>. QED
  BY <1>2, Inductive, PTL DEF Spec, DeliveredStays
=============================================================================
