------------------------------ MODULE Webhooks ------------------------------
(***************************************************************************)
(* The event bus (src/src/services/event-bus.ts) and the webhook           *)
(* dispatcher (services/webhook-dispatcher.ts) with its routes             *)
(* (webui/routes/webhooks.ts): fan-out of an event to the active webhooks, *)
(* delivery with retries that outlive the process, retries by hand, and    *)
(* the protection of the inbound endpoint against replays.                 *)
(*                                                                         *)
(* A delivery <<e, w>> is the row of event e for webhook w.  Each attempt  *)
(* to deliver it is one request that is awaited while everything else runs.*)
(***************************************************************************)
EXTENDS Integers

CONSTANTS
  Hooks,        \* webhooks that may ever be registered
  NumEvents,    \* bound: events ever published, tests included
  MaxRetries,   \* the largest max_retries a webhook may have
  MaxTrouble,   \* bound: updates, retries by hand and crashes, together
  Stamp,        \* the timestamp an inbound request is signed with
  Window,       \* how far a timestamp may be from now
  MaxTime       \* bound: the clock

Events == 1..NumEvents
Deliveries == Events \X Hooks

ASSUME WebhooksAssumption ==
  /\ NumEvents \in Nat /\ MaxRetries \in Nat \ {0} /\ MaxTrouble \in Nat
  /\ Stamp \in Nat /\ Window \in Nat /\ MaxTime \in Nat

VARIABLES
  \* rows of the database
  hook,        \* a webhook: "none", "active", "inactive" or "deleted"
  maxRetries,  \* its max_retries
  status,      \* of a delivery; "gone" once its webhook is deleted
  attempts,
  receipt,     \* webhook_incoming_receipts of a webhook: expires_at, -1 if there is none
  \* the process
  event,       \* how far the dispatch of an event is
  todo,        \* the webhooks the loop of dispatchEvent still has to serve
  timers,      \* deliveries with a scheduled retry
  flight,      \* the attempts of a delivery that await their answer
  \* the environment
  now,
  \* history
  matched,     \* the webhooks that were active when the event was dispatched
  sent,        \* requests made for a delivery
  manual,      \* retries by hand
  high,        \* the largest max_retries a request for the delivery was made under
  over,        \* requests made with a number beyond the max_retries then in force
  accepted,    \* how often the signed inbound request for a webhook was accepted
  trouble,     \* updates, retries by hand and crashes so far
  crashes

inVars == <<receipt, now, accepted>>
hookVars == <<hook, maxRetries>>
countVars == <<trouble, crashes>>
loopVars == <<event, todo, matched>>
tallyVars == <<sent, high, over>>
rowVars == <<status, attempts, timers, flight, tallyVars, manual>>
vars == <<inVars, hookVars, loopVars, rowVars, countVars>>

Open == {"pending", "retrying"}
Finished == {"done", "aborted", "lost"}

Init ==
  /\ hook = [w \in Hooks |-> "none"]
  /\ maxRetries = [w \in Hooks |-> MaxRetries]
  /\ status = [d \in Deliveries |-> "none"]
  /\ attempts = [d \in Deliveries |-> 0]
  /\ receipt = [w \in Hooks |-> -1]
  /\ event = [e \in Events |-> "none"]
  /\ todo = [e \in Events |-> {}]
  /\ timers = {}
  /\ flight = [d \in Deliveries |-> {}]
  /\ now = 0
  /\ matched = [e \in Events |-> {}]
  /\ sent = [d \in Deliveries |-> 0]
  /\ manual = [d \in Deliveries |-> 0]
  /\ high = [d \in Deliveries |-> 0]
  /\ over = [d \in Deliveries |-> 0]
  /\ accepted = [w \in Hooks |-> 0]
  /\ trouble = 0
  /\ crashes = 0
-----------------------------------------------------------------------------
\* One more of the interferences that MaxTrouble bounds.
Trouble == trouble < MaxTrouble /\ trouble' = trouble + 1

(* The routes that keep the webhooks.                                      *)

Create(w) ==
  /\ hook[w] = "none"
  /\ \E a \in {"active", "inactive"} : hook' = [hook EXCEPT ![w] = a]
  /\ \E n \in 1..MaxRetries : maxRetries' = [maxRetries EXCEPT ![w] = n]
  /\ UNCHANGED <<inVars, loopVars, rowVars, countVars>>

\* updateWebhook: any of its fields.
Update(w) ==
  /\ hook[w] \in {"active", "inactive"}
  /\ Trouble
  /\ \E a \in {"active", "inactive"} : hook' = [hook EXCEPT ![w] = a]
  /\ \E n \in 1..MaxRetries : maxRetries' = [maxRetries EXCEPT ![w] = n]
  /\ <<hook, maxRetries>>' # <<hook, maxRetries>>
  /\ UNCHANGED <<inVars, loopVars, rowVars, crashes>>

\* deleteWebhook: the rows go first; timers and open requests stay.
Delete(w) ==
  /\ hook[w] \in {"active", "inactive"}
  /\ hook' = [hook EXCEPT ![w] = "deleted"]
  /\ status' = [d \in Deliveries |-> IF d[2] = w /\ status[d] # "none" THEN "gone" ELSE status[d]]
  /\ UNCHANGED <<inVars, maxRetries, loopVars, attempts, timers, flight, tallyVars, manual, countVars>>
-----------------------------------------------------------------------------
(* Attempts.                                                               *)

\* Plausible bug: the limit of the dispatcher instead of the webhook's own.
RequestDefault(d, byLoop) ==
  [n |-> attempts[d] + 1, id |-> sent[d] + 1, limit |-> MaxRetries, loop |-> byLoop]

Request(d, byLoop) ==
  [n |-> attempts[d] + 1, id |-> sent[d] + 1, limit |-> maxRetries[d[2]], loop |-> byLoop]

\* attemptDelivery, up to the await: status and active are not looked at.
Attempt(d, byLoop) ==
  /\ flight' = [flight EXCEPT ![d] = @ \cup {Request(d, byLoop)}]
  /\ sent' = [sent EXCEPT ![d] = @ + 1]
  /\ high' = [high EXCEPT ![d] = IF maxRetries[d[2]] > @ THEN maxRetries[d[2]] ELSE @]
  /\ over' = [over EXCEPT ![d] = IF attempts[d] + 1 > maxRetries[d[2]] THEN @ + 1 ELSE @]

\* dispatchToWebhook: the row is inserted and attempted at once.
Insert(d, byLoop) ==
  /\ status' = [status EXCEPT ![d] = "pending"]
  /\ Attempt(d, byLoop)
  /\ UNCHANGED <<attempts, timers, manual>>

\* Plausible bug: the loop ends at the first webhook that is not served.
ResumeGreedy(d, r, ok) ==
  IF r.loop
  THEN /\ event' = [event EXCEPT ![d[1]] = IF status[d] = "gone" THEN "aborted"
                                           ELSE IF todo[d[1]] = {} \/ ~ok THEN "done" ELSE @]
       /\ todo' = [todo EXCEPT ![d[1]] = IF status[d] = "gone" \/ ~ok THEN {} ELSE @]
       /\ matched' = matched
  ELSE UNCHANGED loopVars

(***************************************************************************)
(* The end of an attempt hands control back to the loop that awaits it.    *)
(* If the row is gone it throws, and that is the end of the loop.          *)
(***************************************************************************)
Resume(d, r, ok) ==
  IF r.loop
  THEN /\ event' = [event EXCEPT ![d[1]] = IF status[d] = "gone" THEN "aborted"
                                           ELSE IF todo[d[1]] = {} THEN "done" ELSE @]
       /\ todo' = [todo EXCEPT ![d[1]] = IF status[d] = "gone" THEN {} ELSE @]
       /\ matched' = matched
  ELSE UNCHANGED loopVars

\* The UPDATE of a row, which does nothing when the row is gone.
Write(d, s, n) ==
  IF status[d] = "gone" THEN UNCHANGED <<status, attempts>>
  ELSE /\ status' = [status EXCEPT ![d] = s]
       /\ attempts' = [attempts EXCEPT ![d] = n]

\* The receiver answered 2xx.  A timer that another attempt has set stays.
Succeed(d, r) ==
  /\ flight' = [flight EXCEPT ![d] = @ \ {r}]
  /\ Write(d, "delivered", r.n)
  /\ Resume(d, r, TRUE)
  /\ UNCHANGED <<inVars, hookVars, timers, tallyVars, manual, countVars>>

Exhausted(r) == r.n >= r.limit

(***************************************************************************)
(* An error, another answer or the timeout of 5 seconds.  A URL that is    *)
(* refused is permanent.  The retry is scheduled even for a row that is    *)
(* gone.                                                                   *)
(***************************************************************************)
FailAttempt(d, r, permanent) ==
  /\ flight' = [flight EXCEPT ![d] = @ \ {r}]
  /\ IF Exhausted(r) \/ permanent
     THEN Write(d, "failed", r.n) /\ timers' = timers
     ELSE Write(d, "retrying", r.n) /\ timers' = timers \cup {d}
  /\ Resume(d, r, FALSE)
  /\ UNCHANGED <<inVars, hookVars, tallyVars, manual, countVars>>

\* Plausible bug: a webhook that was switched off is not tried again.
FireActiveOnly(d) ==
  /\ d \in timers
  /\ timers' = timers \ {d}
  /\ IF status[d] = "gone" \/ hook[d[2]] # "active" THEN UNCHANGED <<flight, tallyVars>>
     ELSE Attempt(d, FALSE)
  /\ UNCHANGED <<inVars, hookVars, loopVars, status, attempts, manual, countVars>>

\* The timer of scheduleRetry.
Fire(d) ==
  /\ d \in timers
  /\ timers' = timers \ {d}
  /\ IF status[d] = "gone" THEN UNCHANGED <<flight, tallyVars>> ELSE Attempt(d, FALSE)
  /\ UNCHANGED <<inVars, hookVars, loopVars, status, attempts, manual, countVars>>

\* retryDelivery: whatever else is under way for the delivery.
RetryDelivery(d) ==
  /\ status[d] \in Open \cup {"failed"}
  /\ Trouble
  /\ manual' = [manual EXCEPT ![d] = @ + 1]
  /\ timers' = timers \ {d}
  /\ status' = [status EXCEPT ![d] = "pending"]
  /\ Attempt(d, FALSE)
  /\ UNCHANGED <<inVars, hookVars, loopVars, attempts, crashes>>
-----------------------------------------------------------------------------
(* Events.                                                                 *)

Fresh(e) == event[e] = "none" /\ \A f \in 1..e - 1 : event[f] # "none"

\* publish: the event is logged, and its subscribers run in a later tick.
Publish(e) ==
  /\ Fresh(e)
  /\ event' = [event EXCEPT ![e] = "queued"]
  /\ UNCHANGED <<inVars, hookVars, todo, matched, rowVars, countVars>>

\* dispatchEvent: the webhooks are read once.
Dispatch(e) ==
  LET active == {w \in Hooks : hook[w] = "active"} IN
  /\ event[e] = "queued"
  /\ todo' = [todo EXCEPT ![e] = active]
  /\ matched' = [matched EXCEPT ![e] = active]
  /\ event' = [event EXCEPT ![e] = IF active = {} THEN "done" ELSE "loop"]
  /\ UNCHANGED <<inVars, hookVars, rowVars, countVars>>

Awaiting(e) == \E w \in Hooks : \E r \in flight[<<e, w>>] : r.loop

\* The next webhook of the loop.  One that was deleted meanwhile breaks the foreign key.
NextHook(e, w) ==
  /\ event[e] = "loop"
  /\ ~Awaiting(e)
  /\ w \in todo[e]
  /\ IF hook[w] = "deleted"
     THEN /\ event' = [event EXCEPT ![e] = "aborted"]
          /\ todo' = [todo EXCEPT ![e] = {}]
          /\ UNCHANGED rowVars
     ELSE /\ Insert(<<e, w>>, TRUE)
          /\ todo' = [todo EXCEPT ![e] = @ \ {w}]
          /\ event' = event
  /\ UNCHANGED <<inVars, hookVars, matched, countVars>>

\* testWebhook: a delivery of its own, to a webhook that may be inactive.
Test(e, w) ==
  /\ Fresh(e)
  /\ hook[w] \in {"active", "inactive"}
  /\ event' = [event EXCEPT ![e] = "done"]
  /\ Insert(<<e, w>>, FALSE)
  /\ UNCHANGED <<inVars, hookVars, todo, matched, countVars>>
-----------------------------------------------------------------------------
(* Inbound requests.                                                       *)

\* Plausible bug: the receipt is kept for one window from now.
ExpiresFromNow(t) == t + Window

\* expires_at of a receipt that is claimed at t.
Expires(t) == Stamp + Window

\* The request is too old, or too far ahead.
Stale == now > Stamp + Window \/ now + Window < Stamp

(***************************************************************************)
(* verifyIncomingSignature for the one signed request of a webhook, which  *)
(* may arrive again and again.  The clock is read twice: for the request's *)
(* age, and at t for the receipts to delete, those of every webhook.  The  *)
(* event that the route publishes for it has a type which dispatchEvent    *)
(* leaves alone.                                                           *)
(***************************************************************************)
Receive(w, t) ==
  LET kept == [v \in Hooks |-> IF receipt[v] < t THEN -1 ELSE receipt[v]] IN
  /\ hook[w] = "active"
  /\ ~Stale
  /\ now' = t
  /\ IF kept[w] = -1
     THEN /\ receipt' = [kept EXCEPT ![w] = Expires(t)]
          /\ accepted' = [accepted EXCEPT ![w] = @ + 1]
     ELSE /\ receipt' = kept
          /\ accepted' = accepted
  /\ UNCHANGED <<hookVars, loopVars, rowVars, countVars>>

Tick ==
  /\ now < MaxTime
  /\ now' = now + 1
  /\ UNCHANGED <<receipt, accepted, hookVars, loopVars, rowVars, countVars>>
-----------------------------------------------------------------------------
\* Plausible bug: deliveries that were never answered are forgotten.
OnDiskRetrying == {d \in Deliveries : status[d] = "retrying"}

\* Plausible bug: every delivery of the table is scheduled.
OnDiskAll == {d \in Deliveries : status[d] \notin {"none", "gone"}}

\* What start schedules.
OnDisk == {d \in Deliveries : status[d] \in Open}

\* The process dies, and the next one runs start.
Restart ==
  /\ Trouble
  /\ crashes' = crashes + 1
  /\ event' = [e \in Events |-> IF event[e] \in {"queued", "loop"} THEN "lost" ELSE event[e]]
  /\ todo' = [e \in Events |-> {}]
  /\ flight' = [d \in Deliveries |-> {}]
  /\ timers' = OnDisk
  /\ UNCHANGED <<inVars, hookVars, matched, status, attempts, tallyVars, manual>>
-----------------------------------------------------------------------------
Settle(d) == \E r \in flight[d] : Succeed(d, r) \/ \E p \in BOOLEAN : FailAttempt(d, r, p)

Loop(e) == Dispatch(e) \/ \E w \in Hooks : NextHook(e, w)

Next ==
  \/ \E w \in Hooks : Create(w) \/ Update(w) \/ Delete(w) \/ \E t \in now..MaxTime : Receive(w, t)
  \/ \E e \in Events : Publish(e) \/ Loop(e) \/ \E w \in Hooks : Test(e, w)
  \/ \E d \in Deliveries : Settle(d) \/ Fire(d) \/ RetryDelivery(d)
  \/ Tick
  \/ Restart

(***************************************************************************)
(* The event loop runs what is due, every request has a timeout, and       *)
(* timers fire.                                                            *)
(***************************************************************************)
Fairness ==
  /\ \A e \in Events : WF_vars(Loop(e))
  /\ \A d \in Deliveries : WF_vars(Settle(d)) /\ WF_vars(Fire(d))

Spec == Init /\ [][Next]_vars /\ Fairness
-----------------------------------------------------------------------------
Requests == [n : Nat, id : Nat, limit : 1..MaxRetries, loop : BOOLEAN]

\* The values of the variables.
TypeOK ==
  /\ hook \in [Hooks -> {"none", "active", "inactive", "deleted"}]
  /\ maxRetries \in [Hooks -> 1..MaxRetries]
  /\ status \in [Deliveries -> Open \cup {"none", "delivered", "failed", "gone"}]
  /\ attempts \in [Deliveries -> Nat]
  /\ sent \in [Deliveries -> Nat]
  /\ manual \in [Deliveries -> 0..MaxTrouble]
  /\ event \in [Events -> Finished \cup {"none", "queued", "loop"}]
  /\ todo \in [Events -> SUBSET Hooks]
  /\ matched \in [Events -> SUBSET Hooks]
  /\ timers \subseteq Deliveries
  /\ flight \in [Deliveries -> SUBSET Requests]
  /\ high \in [Deliveries -> 0..MaxRetries] /\ over \in [Deliveries -> Nat]
  /\ receipt \in [Hooks -> Int] /\ now \in 0..MaxTime /\ accepted \in [Hooks -> Nat]
  /\ trouble \in 0..MaxTrouble /\ crashes \in 0..MaxTrouble

\* The loop over the webhooks of an event awaits one request at a time.
OneAwaited ==
  \A e \in Events : \A v, w \in Hooks : \A q \in flight[<<e, v>>], r \in flight[<<e, w>>] :
    q.loop /\ r.loop => v = w /\ q = r

(***************************************************************************)
(* A delivery that is pending or retrying is driven: a timer or an open    *)
(* request will move it, through overlapping retries by hand and through   *)
(* every restart.                                                          *)
(***************************************************************************)
Driven == \A d \in Deliveries : status[d] \in Open => d \in timers \/ flight[d] # {}

(***************************************************************************)
(* Every variable has a value of its type, a loop awaits one request at a  *)
(* time, and no open delivery is left with nothing to move it.             *)
(***************************************************************************)
Consistent == TypeOK /\ OneAwaited /\ Driven

(***************************************************************************)
(* Without a retry by hand the requests of a delivery are counted: no more *)
(* of them are made than the largest max_retries that its webhook had for  *)
(* one of them, but for the one that each crash interrupts.  When          *)
(* max_retries is lowered below what was already tried, one request more   *)
(* is the last, but for the crashes again.                                 *)
(***************************************************************************)
RequestsBounded ==
  \A d \in Deliveries :
    manual[d] = 0 => sent[d] <= high[d] + crashes /\ over[d] <= 1 + crashes

(***************************************************************************)
(* When the loop over the webhooks has run to its end, every webhook that  *)
(* was active at the dispatch has got its delivery, whatever became of     *)
(* the deliveries before it.                                               *)
(***************************************************************************)
FannedOut ==
  \A e \in Events : event[e] = "done" => \A w \in matched[e] : status[<<e, w>>] # "none"

(***************************************************************************)
(* While the window of its timestamp lasts, a signed inbound request is    *)
(* accepted once by its webhook, also when the timestamp lies ahead of the *)
(* clock, when receipts are deleted for another webhook and after a        *)
(* restart.  Once more it can be accepted only when the clock passes the   *)
(* end of the window between the two reads of one call, and then never     *)
(* again.                                                                  *)
(***************************************************************************)
AcceptedOnce ==
  \A w \in Hooks : accepted[w] <= IF now <= Stamp + Window THEN 1 ELSE 2

(***************************************************************************)
(* A delivery that was not retried by hand and has been delivered stays    *)
(* so: no timer is left to send it again.                                  *)
(***************************************************************************)
DeliveredStays ==
  [][\A d \in Deliveries : status[d] = "delivered" /\ manual[d] = 0
       => status'[d] \in {"delivered", "gone"} /\ sent'[d] = sent[d]]_vars

\* Every event is dispatched or lost with the process, and every delivery settles.
EverythingSettles ==
  /\ \A e \in Events : event[e] # "none" ~> event[e] \in Finished
  /\ \A d \in Deliveries : status[d] # "none" ~> status[d] \in {"delivered", "failed", "gone"}
=============================================================================
