------------------------------- MODULE Inbox -------------------------------
(***************************************************************************)
(* The path of a Telegram message to the agent in user mode: the debouncer *)
(* of group messages (src/src/telegram/debounce.ts), deduplication, policy *)
(* and the serial queue per chat (telegram/handlers.ts), and the processed *)
(* offset with its deferred write to disk (telegram/offset-store.ts).      *)
(*                                                                         *)
(* Message ids grow with time.  A delivery <<m, k>> is the k-th event that *)
(* GramJS fires for message m; its steps run from one await to the next.   *)
(***************************************************************************)
EXTENDS Integers, FiniteSets, Sequences, TLC

CONSTANTS
  NumMsgs,      \* bound: messages ever posted
  Chats,
  Groups,       \* the chats that are groups
  BufSize,      \* maxBufferSize
  MaxSlots,     \* maxConcurrent
  MaxDups,      \* bound: how often an event is fired again
  MaxCrashes,   \* bound: how often the process dies
  None

Msgs == 1..NumMsgs
Deliveries == Msgs \X (1..1 + MaxDups)

ASSUME InboxAssumption ==
  /\ NumMsgs \in Nat \ {0} /\ BufSize \in Nat \ {0} /\ MaxSlots \in Nat \ {0}
  /\ MaxDups \in Nat /\ MaxCrashes \in Nat
  /\ Groups \subseteq Chats
  /\ None \notin Deliveries \cup Chats

VARIABLES
  \* Telegram
  posted,     \* how many messages there are
  chat,       \* where a message was posted
  command,    \* the messages that are admin commands passed on to the agent
  \* the process
  pc,         \* where a delivery stands
  buffers,    \* the debouncer's buffer of a chat, <<>> if there is none
  flushes,    \* flushes under way: what is left, and who waits for the end
  seen,       \* recentMessageIds
  chain,      \* the deliveries in the queue of a chat
  active,     \* activeTasks
  waitQueue,  \* the deliveries that wait for a slot
  offset,     \* the last processed message of a chat, in memory
  \* the rest
  disk,       \* the offset file
  answers,    \* how often a message was answered: a reply went out, or a silent one was given
  crashes

worldVars == <<posted, chat, command>>
queueVars == <<chain, active, waitQueue>>
vars == <<worldVars, pc, buffers, flushes, seen, queueVars, offset, disk, answers, crashes>>

Ended == {"skipped", "ended"}   \* skipped as processed, or ended in any other way
Turn == {"work", "sent", "retry"}   \* the agent's turn: at work, replied, waiting to retry
Holding == {"slot"} \cup Turn

Id(h)     == h[1]
ChatOf(h) == chat[h[1]]

Init ==
  /\ posted = 0
  /\ chat = [m \in Msgs |-> None]
  /\ command = {}
  /\ pc = [h \in Deliveries |-> "none"]
  /\ buffers = [c \in Chats |-> <<>>]
  /\ flushes = {}
  /\ seen = {}
  /\ chain = [c \in Chats |-> <<>>]
  /\ active = 0
  /\ waitQueue = <<>>
  /\ offset = [c \in Chats |-> 0]
  /\ disk = [c \in Chats |-> 0]
  /\ answers = [m \in Msgs |-> 0]
  /\ crashes = 0
-----------------------------------------------------------------------------
(* Telegram.                                                               *)

\* Someone writes, and k says whether it is a command.
Post(c, k) ==
  /\ posted < NumMsgs
  /\ posted' = posted + 1
  /\ chat' = [chat EXCEPT ![posted + 1] = c]
  /\ k => c \in Groups
  /\ command' = IF k THEN command \cup {posted + 1} ELSE command
  /\ UNCHANGED <<pc, buffers, flushes, seen, queueVars, offset, disk, answers, crashes>>

\* Events of one chat are first fired in order; later an event may be fired again.
Fires(h) ==
  /\ Id(h) <= posted
  /\ pc[h] = "none"
  /\ h[2] > 1 => /\ pc[<<Id(h), h[2] - 1>>] # "none"
                 /\ Cardinality({g \in Deliveries : g[2] > 1 /\ pc[g] # "none"}) < MaxDups
  /\ h[2] = 1 => \A m \in 1..Id(h) - 1 : chat[m] = ChatOf(h) => pc[<<m, 1>>] # "none"
-----------------------------------------------------------------------------
(* The debouncer.                                                          *)

Debounced(h) == ChatOf(h) \in Groups /\ Id(h) \notin command

Sorted(buf) == SortSeq(buf, LAMBDA g, h : Id(g) < Id(h))

Full(c) == Len(buffers[c]) >= BufSize

InBatch(buf, h) == \E i \in DOMAIN buf : buf[i] = h

\* flushKey: the buffer leaves the map and its messages are handled in turn.
Flush(c, more, w) ==
  /\ flushes' = flushes \cup {[rest |-> Sorted(buffers[c]) \o more, waiter |-> w]}
  /\ buffers' = [buffers EXCEPT ![c] = <<>>]

(***************************************************************************)
(* enqueue.  A message that is not debounced flushes the buffer and        *)
(* follows it; one that meets a full buffer waits for the flush to end.    *)
(***************************************************************************)
Enqueue(h) ==
  LET c == ChatOf(h) IN
  /\ Fires(h)
  /\ \/ /\ ~Debounced(h)
        /\ Flush(c, <<h>>, None)
        /\ pc' = [g \in Deliveries |-> IF g = h \/ InBatch(buffers[c], g) THEN "batch" ELSE pc[g]]
     \/ /\ Debounced(h)
        /\ Full(c)
        /\ Flush(c, <<>>, h)
        /\ pc' = [g \in Deliveries |-> IF g = h THEN "blocked"
                                       ELSE IF InBatch(buffers[c], g) THEN "batch" ELSE pc[g]]
     \/ /\ Debounced(h)
        /\ ~Full(c)
        /\ buffers' = [buffers EXCEPT ![c] = Append(@, h)]
        /\ pc' = [pc EXCEPT ![h] = "buffered"]
        /\ flushes' = flushes
  /\ UNCHANGED <<worldVars, seen, queueVars, offset, disk, answers, crashes>>

\* The timer of a buffer, or flushAll.
FlushKey(c) ==
  /\ buffers[c] # <<>>
  /\ Flush(c, <<>>, None)
  /\ pc' = [g \in Deliveries |-> IF InBatch(buffers[c], g) THEN "batch" ELSE pc[g]]
  /\ UNCHANGED <<worldVars, seen, queueVars, offset, disk, answers, crashes>>

(***************************************************************************)
(* A message of the batch has ended: the next one's turn, or the end of    *)
(* the flush.  The message that waited for it starts a new buffer, in      *)
(* place of the one another message may have started meanwhile.            *)
(***************************************************************************)
Advance(f) ==
  /\ f \in flushes
  /\ pc[Head(f.rest)] \in Ended
  /\ IF Len(f.rest) > 1
     THEN /\ flushes' = (flushes \ {f}) \cup {[rest |-> Tail(f.rest), waiter |-> f.waiter]}
          /\ UNCHANGED <<buffers, pc>>
     ELSE /\ flushes' = flushes \ {f}
          /\ IF f.waiter = None THEN UNCHANGED <<buffers, pc>>
             ELSE /\ buffers' = [buffers EXCEPT ![ChatOf(f.waiter)] = <<f.waiter>>]
                  /\ pc' = [pc EXCEPT ![f.waiter] = "buffered"]
  /\ UNCHANGED <<worldVars, seen, queueVars, offset, disk, answers, crashes>>
-----------------------------------------------------------------------------
(* handleMessage.                                                          *)

(***************************************************************************)
(* The dedup cache, whose entries expire or are evicted by others; then    *)
(* the message is stored, and that is an await.                            *)
(***************************************************************************)
HandleMessage(h) ==
  /\ pc[h] = "batch"
  /\ \E f \in flushes : Head(f.rest) = h
  /\ \/ /\ Id(h) \in seen
        /\ pc' = [pc EXCEPT ![h] = "ended"]
        /\ seen' = seen
     \/ /\ pc' = [pc EXCEPT ![h] = "store"]
        /\ seen' = seen \cup {Id(h)}
  /\ UNCHANGED <<worldVars, buffers, flushes, queueVars, offset, disk, answers, crashes>>

Processed(h) == Id(h) <= offset[ChatOf(h)]

(***************************************************************************)
(* analyzeMessage and the rate limits; what they let pass goes to the      *)
(* queue of its chat.                                                      *)
(***************************************************************************)
Analyze(h) ==
  /\ pc[h] = "store"
  /\ \/ /\ Processed(h)
        /\ pc' = [pc EXCEPT ![h] = "skipped"]
        /\ chain' = chain
     \/ /\ ~Processed(h)
        /\ pc' = [pc EXCEPT ![h] = "ended"]
        /\ chain' = chain
     \/ /\ ~Processed(h)
        /\ pc' = [pc EXCEPT ![h] = "queued"]
        /\ chain' = [chain EXCEPT ![ChatOf(h)] = Append(@, h)]
  /\ UNCHANGED <<worldVars, buffers, flushes, seen, active, waitQueue, offset, disk, answers, crashes>>

\* acquireSlot, when the delivery before it in the chain has ended.
AcquireSlot(h) ==
  /\ pc[h] = "queued"
  /\ Head(chain[ChatOf(h)]) = h
  /\ IF active < MaxSlots
     THEN /\ active' = active + 1
          /\ pc' = [pc EXCEPT ![h] = "slot"]
          /\ waitQueue' = waitQueue
     ELSE /\ waitQueue' = Append(waitQueue, h)
          /\ pc' = [pc EXCEPT ![h] = "waiting"]
          /\ active' = active
  /\ UNCHANGED <<worldVars, buffers, flushes, seen, chain, offset, disk, answers, crashes>>

\* Plausible bug: the slot that is handed over is given back as well.
EndTaskMiscounted(h, outcome) ==
  /\ chain' = [chain EXCEPT ![ChatOf(h)] = Tail(@)]
  /\ active' = active - 1
  /\ IF waitQueue = <<>>
     THEN /\ pc' = [pc EXCEPT ![h] = outcome]
          /\ waitQueue' = waitQueue
     ELSE /\ pc' = [pc EXCEPT ![h] = outcome, ![Head(waitQueue)] = "slot"]
          /\ waitQueue' = Tail(waitQueue)

\* Plausible bug: the slot is free again, and nobody is told.
EndTaskUnwoken(h, outcome) ==
  /\ chain' = [chain EXCEPT ![ChatOf(h)] = Tail(@)]
  /\ active' = active - 1
  /\ pc' = [pc EXCEPT ![h] = outcome]
  /\ waitQueue' = waitQueue

\* releaseSlot: the first that waits gets the slot.  The next of the chain may follow.
EndTask(h, outcome) ==
  /\ chain' = [chain EXCEPT ![ChatOf(h)] = Tail(@)]
  /\ IF waitQueue = <<>>
     THEN /\ active' = active - 1
          /\ pc' = [pc EXCEPT ![h] = outcome]
          /\ waitQueue' = waitQueue
     ELSE /\ active' = active
          /\ pc' = [pc EXCEPT ![h] = outcome, ![Head(waitQueue)] = "slot"]
          /\ waitQueue' = Tail(waitQueue)

\* The offset is read again after the wait; a stale duplicate ends here.
SkipAfterWait(h) ==
  /\ pc[h] = "slot"
  /\ Processed(h)
  /\ EndTask(h, "skipped")
  /\ UNCHANGED <<worldVars, buffers, flushes, seen, offset, disk, answers, crashes>>

\* Plausible bug: the offset is not read again.
StartUnchecked(h) ==
  /\ pc[h] = "slot"
  /\ pc' = [pc EXCEPT ![h] = "work"]
  /\ UNCHANGED <<worldVars, buffers, flushes, seen, queueVars, offset, disk, answers, crashes>>

\* The agent is given the message.
Start(h) ==
  /\ pc[h] = "slot"
  /\ ~Processed(h)
  /\ pc' = [pc EXCEPT ![h] = "work"]
  /\ UNCHANGED <<worldVars, buffers, flushes, seen, queueVars, offset, disk, answers, crashes>>

(***************************************************************************)
(* The agent has replied, or one of its tools has: what it says is sent    *)
(* part by part, and each is an await.                                     *)
(***************************************************************************)
Reply(h) ==
  /\ pc[h] = "work"
  /\ answers' = [answers EXCEPT ![Id(h)] = @ + 1]
  /\ pc' = [pc EXCEPT ![h] = "sent"]
  /\ UNCHANGED <<worldVars, buffers, flushes, seen, queueVars, offset, disk, crashes>>

\* writeOffset, when every part is sent.
WriteOffset(h) ==
  LET c == ChatOf(h) IN
  /\ pc[h] = "sent"
  /\ offset' = [offset EXCEPT ![c] = IF Id(h) > @ THEN Id(h) ELSE @]
  /\ EndTask(h, "ended")
  /\ UNCHANGED <<worldVars, buffers, flushes, seen, disk, answers, crashes>>

\* Plausible bug: a message that failed counts as processed.
FailMarked(h) ==
  /\ pc[h] \in {"work", "sent"}
  /\ offset' = [offset EXCEPT ![ChatOf(h)] = IF Id(h) > @ THEN Id(h) ELSE @]
  /\ EndTask(h, "ended")
  /\ UNCHANGED <<worldVars, buffers, flushes, seen, disk, answers, crashes>>

\* The agent throws, or the sending does after some parts: the offset stays.
Fail(h) ==
  /\ pc[h] \in {"work", "sent"}
  /\ EndTask(h, "ended")
  /\ UNCHANGED <<worldVars, buffers, flushes, seen, offset, disk, answers, crashes>>

\* The provider's rate limit, or Telegram's: the slot is kept for 90 seconds.
RateLimited(h) ==
  /\ pc[h] \in {"work", "sent"}
  /\ pc' = [pc EXCEPT ![h] = "retry"]
  /\ UNCHANGED <<worldVars, buffers, flushes, seen, queueVars, offset, disk, answers, crashes>>

\* The second attempt answers, or an apology is sent; neither writes the offset.
Retry(h) ==
  /\ pc[h] = "retry"
  /\ answers' \in {answers, [answers EXCEPT ![Id(h)] = @ + 1]}
  /\ EndTask(h, "ended")
  /\ UNCHANGED <<worldVars, buffers, flushes, seen, offset, disk, crashes>>
-----------------------------------------------------------------------------
\* scheduleDiskFlush, or flushOffsets when the agent stops.
SaveOffsets ==
  /\ disk # offset
  /\ disk' = offset
  /\ UNCHANGED <<worldVars, pc, buffers, flushes, seen, queueVars, offset, answers, crashes>>

\* The process dies.  What it was working on is gone, unless the event is fired again.
Crash ==
  /\ crashes < MaxCrashes
  /\ crashes' = crashes + 1
  /\ pc' = [h \in Deliveries |-> IF pc[h] = "none" THEN "none" ELSE "ended"]
  /\ buffers' = [c \in Chats |-> <<>>]
  /\ flushes' = {}
  /\ seen' = {}
  /\ chain' = [c \in Chats |-> <<>>]
  /\ active' = 0
  /\ waitQueue' = <<>>
  /\ offset' = disk
  /\ UNCHANGED <<worldVars, disk, answers>>
-----------------------------------------------------------------------------
Handler(h) ==
  \/ HandleMessage(h) \/ Analyze(h) \/ AcquireSlot(h) \/ SkipAfterWait(h)
  \/ Start(h) \/ Reply(h) \/ WriteOffset(h) \/ Fail(h) \/ RateLimited(h) \/ Retry(h)

Debouncer == (\E c \in Chats : FlushKey(c)) \/ (\E f \in flushes : Advance(f))

Next ==
  \/ \E c \in Chats, k \in BOOLEAN : Post(c, k)
  \/ \E h \in Deliveries : Enqueue(h) \/ Handler(h)
  \/ Debouncer
  \/ SaveOffsets
  \/ Crash

(***************************************************************************)
(* Timers fire and awaits return: the agent's turn and every call of       *)
(* Telegram have their timeouts.                                           *)
(***************************************************************************)
Fairness == WF_vars(Debouncer) /\ \A h \in Deliveries : WF_vars(Handler(h))

Spec == Init /\ [][Next]_vars /\ Fairness
-----------------------------------------------------------------------------
Of(state) == {h \in Deliveries : pc[h] \in state}

\* The values of the variables; a delivery in a queue is where its state says.
TypeOK ==
  /\ posted \in 0..NumMsgs
  /\ chat \in [Msgs -> Chats \cup {None}]
  /\ command \subseteq Msgs
  /\ pc \in [Deliveries -> Ended \cup Holding
             \cup {"none", "blocked", "buffered", "batch", "store", "queued", "waiting"}]
  /\ seen \subseteq Msgs
  /\ active \in Nat
  /\ offset \in [Chats -> 0..NumMsgs] /\ disk \in [Chats -> 0..NumMsgs]
  /\ \A c \in Chats : disk[c] <= offset[c]
  /\ answers \in [Msgs -> Nat]
  /\ crashes \in 0..MaxCrashes
  /\ Of({"waiting"}) = {waitQueue[i] : i \in DOMAIN waitQueue}
  /\ \A c \in Chats : Len(buffers[c]) <= BufSize
  /\ \A c \in Chats : \A i \in DOMAIN chain[c] :
       pc[chain[c][i]] \in IF i = 1 THEN {"queued", "waiting"} \cup Holding ELSE {"queued"}

(***************************************************************************)
(* The slots that activeTasks counts are those in use, and no more than    *)
(* maxConcurrent; and the turns of one chat never overlap, so the agent's  *)
(* session has one writer.                                                 *)
(***************************************************************************)
SlotsExact ==
  /\ active = Cardinality(Of(Holding))
  /\ active <= MaxSlots
  /\ \A g, h \in Of(Turn) : ChatOf(g) = ChatOf(h) => g = h

(***************************************************************************)
(* Queues, buffers and states agree with each other, and the count of      *)
(* slots with those in use.                                                *)
(***************************************************************************)
Consistent == TypeOK /\ SlotsExact

(***************************************************************************)
(* An answer, that of the retry after a rate limit included, only goes out *)
(* for a message past the offset of its chat, however often its event is   *)
(* fired and whatever the dedup cache has forgotten.  So a message whose   *)
(* answer was marked is not answered again in that life of the process;    *)
(* one whose answer left no offset (the retry's, or one that broke off     *)
(* while it was sent) may be.                                              *)
(***************************************************************************)
AnswersPastOffset ==
  [][\A m \in Msgs : answers'[m] > answers[m] => m > offset[chat[m]]]_vars

(***************************************************************************)
(* A message is only skipped as processed when it, or one after it in its  *)
(* chat, has been answered: no failure moves the offset.                   *)
(***************************************************************************)
SkippedForCause ==
  \A h \in Of({"skipped"}) :
    \E m \in Id(h)..posted : chat[m] = ChatOf(h) /\ answers[m] > 0

\* A flush was awaited and the buffer set anew: nothing refers to the old one.
Replaced(h) == pc[h] = "buffered" /\ \A c \in Chats : ~InBatch(buffers[c], h)

(***************************************************************************)
(* Every delivery comes to an end: no message waits for ever behind a full *)
(* buffer, in a batch, in the queue of its chat or for a slot.  The one    *)
(* exception is a delivery whose buffer was replaced (Advance).            *)
(***************************************************************************)
EveryDeliveryEnds ==
  \A h \in Deliveries : pc[h] # "none" ~> pc[h] \in Ended \/ Replaced(h)
=============================================================================
