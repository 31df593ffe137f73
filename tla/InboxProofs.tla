---------------------------- MODULE InboxProofs ----------------------------
(***************************************************************************)
(* What Inbox guarantees for any number of messages, chats, duplicates,    *)
(* slots and crashes.                                                      *)
(***************************************************************************)
EXTENDS Inbox, FiniteSetTheorems, TLAPS

\* The states in which a delivery is in the queue of its chat.
InQueue == {"queued", "waiting"} \cup Holding
States  == Ended \cup InQueue \cup {"none", "blocked", "buffered", "batch", "store"}

\* The deliveries: only a message that was posted has events.
EventInv ==
  /\ posted \in 0..NumMsgs
  /\ chat \in [Msgs -> Chats \cup {None}]
  /\ command \subseteq Msgs
  /\ pc \in [Deliveries -> States]
  /\ seen \subseteq Msgs
  /\ crashes \in 0..MaxCrashes
  /\ \A m \in Msgs : m <= posted => chat[m] \in Chats
  /\ \A h \in Deliveries : pc[h] # "none" => Id(h) <= posted

\* A buffer holds buffered deliveries of its chat, and a flush blocks one delivery at most.
BufferInv ==
  /\ buffers \in [Chats -> Seq(Deliveries)]
  /\ \A c \in Chats : Len(buffers[c]) <= BufSize
  /\ \A c \in Chats : \A i \in 1..Len(buffers[c]) :
       pc[buffers[c][i]] = "buffered" /\ ChatOf(buffers[c][i]) = c
  /\ \A f \in flushes :
       f.waiter # None => f.waiter \in Deliveries /\ pc[f.waiter] = "blocked"
  /\ \A e, f \in flushes : e.waiter # None /\ e.waiter = f.waiter => e = f

(***************************************************************************)
(* The queue of a chat: its first delivery may wait for a slot or hold     *)
(* one, the others do neither, and none is in it twice.                    *)
(***************************************************************************)
ChainOk(c) ==
  /\ chain[c] \in Seq(Deliveries)
  /\ \A i \in 1..Len(chain[c]) :
       /\ ChatOf(chain[c][i]) = c
       /\ pc[chain[c][i]] \in IF i = 1 THEN InQueue ELSE {"queued"}
  /\ \A i, j \in 1..Len(chain[c]) : chain[c][i] = chain[c][j] => i = j

InChain(h) ==
  pc[h] \in InQueue =>
    ChatOf(h) \in Chats /\ \E i \in 1..Len(chain[ChatOf(h)]) : chain[ChatOf(h)][i] = h

\* The deliveries that wait for a slot, in turn.
WaitInv ==
  /\ waitQueue \in Seq(Deliveries)
  /\ \A h \in Deliveries : pc[h] = "waiting" <=> \E i \in 1..Len(waitQueue) : waitQueue[i] = h
  /\ \A i, j \in 1..Len(waitQueue) : waitQueue[i] = waitQueue[j] => i = j

SlotInv ==
  /\ IsFiniteSet(Of(Holding))
  /\ active = Cardinality(Of(Holding))
  /\ active <= MaxSlots

QueueInv ==
  /\ chain \in [Chats -> Seq(Deliveries)]
  /\ \A c \in Chats : ChainOk(c)
  /\ \A h \in Deliveries : InChain(h)
  /\ WaitInv
  /\ SlotInv

\* An offset is the id of a message of the chat that was answered, or 0.
Witnessed(o) ==
  \A c \in Chats : o[c] > 0 => o[c] <= posted /\ chat[o[c]] = c /\ answers[o[c]] > 0

(***************************************************************************)
(* The answers and the offsets.  A delivery in its turn is not processed   *)
(* yet, and one whose reply is out has its answer counted.                 *)
(***************************************************************************)
OffsetInv ==
  /\ offset \in [Chats -> 0..NumMsgs] /\ disk \in [Chats -> 0..NumMsgs]
  /\ \A c \in Chats : disk[c] <= offset[c]
  /\ answers \in [Msgs -> Nat]
  /\ Witnessed(offset) /\ Witnessed(disk)
  /\ \A h \in Deliveries : /\ pc[h] \in Turn => Id(h) > offset[ChatOf(h)]
                           /\ pc[h] = "sent" => answers[Id(h)] > 0
  /\ SkippedForCause

IInv == EventInv /\ BufferInv /\ QueueInv /\ OffsetInv

\* What a step may do to the answers: one more at most.
Counted == \E m \in Msgs : answers' = [answers EXCEPT ![m] = @ + 1]

\* What a step that moves no offset may do to a delivery.
Sound(h) ==
  /\ pc'[h] \in Turn => pc[h] # "none" /\ (pc[h] \in Turn \/ ~Processed(h))
  /\ pc'[h] = "sent" => pc[h] = "sent" \/ answers'[Id(h)] > 0
  /\ pc'[h] = "skipped" => pc[h] # "none" /\ (pc[h] = "skipped" \/ Processed(h))
-----------------------------------------------------------------------------
\* The id of a delivery is that of a message.
LEMMA IdIsMsg ==
  ASSUME NEW h \in Deliveries
  PROVE  Id(h) \in Msgs /\ Id(h) \in Nat \ {0}
<1>1. Id(h) \in Msgs
  BY DEF Deliveries, Id
<1>. QED
  BY <1>1, InboxAssumption DEF Msgs

\* A delivery that was fired belongs to a chat.
LEMMA ChatOfIsChat ==
  ASSUME EventInv, NEW h \in Deliveries, pc[h] # "none" \/ Id(h) <= posted
  PROVE  ChatOf(h) \in Chats /\ ChatOf(h) = chat[Id(h)]
<1>1. Id(h) <= posted /\ Id(h) \in Msgs
  BY IdIsMsg DEF EventInv
<1>. QED
  BY <1>1 DEF EventInv, ChatOf, Id

\* In one chat, one delivery at most is past the head of the queue.
LEMMA OneTurn ==
  ASSUME QueueInv, NEW g \in Deliveries, NEW h \in Deliveries,
         pc[g] \in InQueue \ {"queued"}, pc[h] \in InQueue \ {"queued"}, ChatOf(g) = ChatOf(h)
  PROVE  g = h /\ ChatOf(h) \in Chats /\ chain[ChatOf(h)] # <<>> /\ h = chain[ChatOf(h)][1]
<1>1. PICK i \in 1..Len(chain[ChatOf(h)]) : chain[ChatOf(h)][i] = h
  BY DEF QueueInv, InChain
<1>2. PICK j \in 1..Len(chain[ChatOf(h)]) : chain[ChatOf(h)][j] = g
  BY DEF QueueInv, InChain
<1>3. ChatOf(h) \in Chats /\ ChainOk(ChatOf(h))
  BY DEF QueueInv, InChain
<1>4. i = 1 /\ j = 1
  BY <1>1, <1>2, <1>3 DEF ChainOk
<1>. QED
  BY <1>1, <1>2, <1>3, <1>4 DEF ChainOk
-----------------------------------------------------------------------------
(* What leaves a part of the invariant alone.                              *)

\* A step that moves no delivery into, out of or inside the queues.
LEMMA QueueFrame ==
  ASSUME EventInv, QueueInv, EventInv', UNCHANGED queueVars,
         \A h \in Deliveries : \/ pc'[h] = pc[h]
                               \/ pc[h] \notin InQueue /\ pc'[h] \notin InQueue
                               \/ pc[h] \in Holding /\ pc'[h] \in Holding,
         \A h \in Deliveries : pc[h] # "none" => ChatOf(h)' = ChatOf(h)
  PROVE  QueueInv'
<1>1. chain' = chain /\ active' = active /\ waitQueue' = waitQueue
  BY DEF queueVars
<1>2. \A h \in Deliveries : pc[h] \in InQueue => pc[h] # "none"
  BY DEF InQueue, Holding, Turn
<1>3. ASSUME NEW c \in Chats PROVE ChainOk(c)'
  <2>1. ChainOk(c)
    BY DEF QueueInv
  <2>2. ASSUME NEW i \in 1..Len(chain[c])
        PROVE  /\ ChatOf(chain[c][i])' = c
               /\ pc'[chain[c][i]] \in IF i = 1 THEN InQueue ELSE {"queued"}
    <3>1. chain[c][i] \in Deliveries
      BY <2>1 DEF ChainOk
    <3>2. ChatOf(chain[c][i]) = c /\ pc[chain[c][i]] \in IF i = 1 THEN InQueue ELSE {"queued"}
      BY <2>1 DEF ChainOk
    <3>3. pc[chain[c][i]] \in InQueue /\ (i # 1 => pc[chain[c][i]] \notin Holding)
      BY <3>2 DEF InQueue, Holding, Turn
    <3>4. ChatOf(chain[c][i])' = c
      BY <3>1, <3>2, <3>3, <1>1, <1>2 DEF ChatOf
    <3>5. pc'[chain[c][i]] = pc[chain[c][i]]
            \/ (i = 1 /\ pc'[chain[c][i]] \in Holding)
      BY <3>1, <3>3
    <3>. QED
      BY <3>2, <3>4, <3>5 DEF InQueue
  <2>. QED
    BY <1>1, <2>1, <2>2 DEF ChainOk, ChatOf
<1>4. ASSUME NEW h \in Deliveries PROVE InChain(h)'
  <2>1. SUFFICES ASSUME pc'[h] \in InQueue
                 PROVE  /\ ChatOf(h)' \in Chats
                        /\ \E i \in 1..Len(chain[ChatOf(h)']) : chain[ChatOf(h)'][i] = h
    BY <1>1 DEF InChain
  <2>2. pc[h] \in InQueue
    BY <2>1 DEF InQueue
  <2>3. ChatOf(h)' = ChatOf(h)
    BY <2>2, <1>2
  <2>. QED
    BY <2>2, <2>3 DEF QueueInv, InChain
<1>5. WaitInv'
  <2>1. \A h \in Deliveries : pc'[h] = "waiting" <=> pc[h] = "waiting"
    BY DEF InQueue, Holding, Turn
  <2>. QED
    BY <1>1, <2>1 DEF QueueInv, WaitInv
<1>6. SlotInv'
  <2>1. \A h \in Deliveries : pc'[h] \in Holding <=> pc[h] \in Holding
    BY DEF InQueue
  <2>2. Of(Holding)' = Of(Holding)
    BY <2>1 DEF Of, Holding
  <2>. QED
    BY <1>1, <2>2 DEF QueueInv, SlotInv
<1>. QED
  BY <1>1, <1>3, <1>4, <1>5, <1>6 DEF QueueInv

\* A step that touches neither the buffers nor what is in them or waits for a flush.
LEMMA BufferFrame ==
  ASSUME BufferInv, UNCHANGED <<buffers, flushes>>,
         \A h \in Deliveries : pc[h] \in {"buffered", "blocked"} =>
                                 pc'[h] = pc[h] /\ ChatOf(h)' = ChatOf(h)
  PROVE  BufferInv'
<1>1. ASSUME NEW c \in Chats, NEW i \in 1..Len(buffers[c])
      PROVE  pc'[buffers[c][i]] = "buffered" /\ chat'[buffers[c][i][1]] = c
  <2>1. buffers[c][i] \in Deliveries
    BY DEF BufferInv
  <2>. QED
    BY <2>1 DEF BufferInv, ChatOf
<1>2. ASSUME NEW f \in flushes, f.waiter # None
      PROVE  f.waiter \in Deliveries /\ pc'[f.waiter] = "blocked"
  BY <1>2 DEF BufferInv
<1>. QED
  BY <1>1, <1>2 DEF BufferInv, ChatOf

\* What is processed was answered, or a later message of its chat was.
LEMMA ProcessedForCause ==
  ASSUME EventInv, OffsetInv, NEW h \in Deliveries, ChatOf(h) \in Chats, Processed(h)
  PROVE  \E m \in Id(h)..posted : chat[m] = ChatOf(h) /\ answers[m] > 0
<1>1. Id(h) \in Nat \ {0} /\ offset[ChatOf(h)] \in 0..NumMsgs /\ posted \in Nat
  BY IdIsMsg DEF OffsetInv, EventInv
<1>2. Id(h) <= offset[ChatOf(h)] /\ offset[ChatOf(h)] > 0
  BY <1>1, InboxAssumption DEF Processed
<1>3. /\ offset[ChatOf(h)] <= posted
      /\ chat[offset[ChatOf(h)]] = ChatOf(h) /\ answers[offset[ChatOf(h)]] > 0
  BY <1>2 DEF OffsetInv, Witnessed
<1>4. offset[ChatOf(h)] \in Id(h)..posted
  BY <1>1, <1>2, <1>3, InboxAssumption
<1>. QED
  BY <1>3, <1>4

\* A step that moves no offset, and gives the agent nothing that is processed.
LEMMA OffsetFrame ==
  ASSUME EventInv, OffsetInv, EventInv', offset' = offset,
         answers' = answers \/ Counted,
         disk' \in {disk, offset}, posted <= posted',
         \A m \in Msgs : m <= posted => chat'[m] = chat[m],
         \A h \in Deliveries : Sound(h)
  PROVE  OffsetInv'
<1>1. /\ offset \in [Chats -> 0..NumMsgs] /\ disk' \in [Chats -> 0..NumMsgs]
      /\ \A c \in Chats : disk'[c] <= offset[c]
  BY InboxAssumption DEF OffsetInv
<1>2. posted \in Nat /\ posted' \in Nat /\ answers' \in [Msgs -> Nat]
  BY InboxAssumption DEF EventInv, OffsetInv, Counted
<1>5. \A m \in Msgs : answers[m] > 0 => answers'[m] > 0
  BY DEF OffsetInv, Counted
<1>3. ASSUME NEW o \in [Chats -> 0..NumMsgs], Witnessed(o)
      PROVE  \A c \in Chats : o[c] > 0 => o[c] <= posted' /\ chat'[o[c]] = c /\ answers'[o[c]] > 0
  <2>. SUFFICES ASSUME NEW c \in Chats, o[c] > 0
                PROVE  o[c] <= posted' /\ chat'[o[c]] = c /\ answers'[o[c]] > 0
    OBVIOUS
  <2>1. o[c] \in Msgs /\ o[c] <= posted /\ chat[o[c]] = c /\ answers[o[c]] > 0
    BY <1>3, InboxAssumption DEF Witnessed, Msgs
  <2>. QED
    BY <2>1, <1>2, <1>5, InboxAssumption DEF Msgs
<1>4. Witnessed(offset)' /\ Witnessed(disk)'
  BY <1>1, <1>3 DEF OffsetInv, Witnessed
<1>6. \A h \in Deliveries : pc[h] # "none" => /\ Id(h) <= posted /\ Id(h) \in Msgs
                                              /\ ChatOf(h) \in Chats /\ ChatOf(h)' = ChatOf(h)
  <2>. SUFFICES ASSUME NEW h \in Deliveries, pc[h] # "none"
                PROVE  /\ Id(h) <= posted /\ Id(h) \in Msgs
                       /\ ChatOf(h) \in Chats /\ ChatOf(h)' = ChatOf(h)
    OBVIOUS
  <2>1. Id(h) <= posted /\ Id(h) \in Msgs
    BY IdIsMsg DEF EventInv
  <2>. QED
    BY <2>1, ChatOfIsChat DEF ChatOf, Id
<1>7. ASSUME NEW h \in Deliveries, pc'[h] \in Turn
      PROVE  Id(h) > offset[ChatOf(h)']
  <2>1. offset[ChatOf(h)] \in Nat /\ Id(h) \in Nat
    BY <1>1, <1>6, <1>7, IdIsMsg, InboxAssumption DEF Sound
  <2>. QED
    BY <2>1, <1>6, <1>7 DEF OffsetInv, Processed, Sound
<1>10. ASSUME NEW h \in Deliveries, pc'[h] = "sent"
       PROVE  answers'[Id(h)] > 0
  BY <1>5, <1>10, IdIsMsg DEF OffsetInv, Sound
<1>8. ASSUME NEW h \in Deliveries, pc'[h] = "skipped"
      PROVE  \E m \in Id(h)..posted' : chat'[m] = ChatOf(h)' /\ answers'[m] > 0
  <2>1. PICK m \in Id(h)..posted : chat[m] = ChatOf(h) /\ answers[m] > 0
    <3>1. CASE pc[h] = "skipped"
      BY <3>1 DEF OffsetInv, SkippedForCause, Of
    <3>2. CASE Processed(h)
      BY <3>2, <1>6, <1>8, ProcessedForCause DEF Sound
    <3>. QED
      BY <3>1, <3>2, <1>8 DEF Sound
  <2>2. m \in Msgs /\ m \in Id(h)..posted'
    BY <2>1, <1>2, IdIsMsg, InboxAssumption DEF EventInv, Msgs
  <2>. QED
    BY <2>1, <2>2, <1>2, <1>5, <1>6, <1>8, IdIsMsg DEF Sound
<1>9. SkippedForCause'
  BY <1>8 DEF SkippedForCause, Of, Id, ChatOf
<1>. QED
  BY <1>1, <1>2, <1>4, <1>7, <1>9, <1>10 DEF OffsetInv, Id, ChatOf
-----------------------------------------------------------------------------
(* Telegram and the debouncer.                                             *)

\* A new message has no deliveries, so nothing that refers to one changes.
LEMMA PostKeeps ==
  ASSUME IInv, NEW c \in Chats, NEW k \in BOOLEAN, Post(c, k)
  PROVE  IInv'
<1>1. posted \in Nat /\ posted' = posted + 1 /\ posted + 1 \in Msgs /\ pc' = pc
  BY InboxAssumption DEF IInv, EventInv, Post, Msgs
<1>2. chat' \in [Msgs -> Chats \cup {None}] /\ chat'[posted + 1] = c
      /\ \A m \in Msgs : m # posted + 1 => chat'[m] = chat[m]
  BY <1>1 DEF IInv, EventInv, Post
<1>3. EventInv'
  <2>1. posted' \in 0..NumMsgs /\ command' \subseteq Msgs
    BY <1>1, InboxAssumption DEF IInv, EventInv, Post, Msgs
  <2>2. \A m \in Msgs : m <= posted' => chat'[m] \in Chats
    <3>. SUFFICES ASSUME NEW m \in Msgs, m <= posted' PROVE chat'[m] \in Chats
      OBVIOUS
    <3>1. CASE m = posted + 1
      BY <3>1, <1>2
    <3>2. CASE m # posted + 1
      BY <3>2, <1>1, <1>2, InboxAssumption DEF IInv, EventInv, Msgs
    <3>. QED
      BY <3>1, <3>2
  <2>3. \A h \in Deliveries : pc[h] # "none" => Id(h) <= posted'
    BY <1>1, IdIsMsg DEF IInv, EventInv
  <2>. QED
    BY <1>1, <1>2, <2>1, <2>2, <2>3 DEF EventInv, IInv, Post, Id
<1>4. \A h \in Deliveries : pc[h] # "none" => ChatOf(h)' = ChatOf(h)
  <2>. SUFFICES ASSUME NEW h \in Deliveries, pc[h] # "none" PROVE chat'[h[1]] = chat[h[1]]
    BY DEF ChatOf
  <2>1. Id(h) <= posted /\ Id(h) \in Msgs /\ Id(h) \in Nat
    BY IdIsMsg DEF IInv, EventInv
  <2>. QED
    BY <1>1, <1>2, <2>1 DEF Id
<1>5. QueueInv'
  <2>1. UNCHANGED queueVars
    BY DEF Post, queueVars
  <2>2. \A h \in Deliveries : \/ pc'[h] = pc[h]
                              \/ pc[h] \notin InQueue /\ pc'[h] \notin InQueue
                              \/ pc[h] \in Holding /\ pc'[h] \in Holding
    BY <1>1
  <2>3. EventInv /\ QueueInv
    BY DEF IInv
  <2>. QED
    BY <1>3, <1>4, <2>1, <2>2, <2>3, QueueFrame, Zenon
<1>6. BufferInv'
  BY <1>1, <1>4, BufferFrame DEF IInv, Post
<1>7. OffsetInv'
  <2>1. \A m \in Msgs : m <= posted => chat'[m] = chat[m]
    BY <1>1, <1>2, InboxAssumption DEF Msgs
  <2>2. posted <= posted' /\ disk' \in {disk, offset} /\ UNCHANGED <<offset, answers>>
    BY <1>1 DEF Post
  <2>3. \A h \in Deliveries : Sound(h)
    BY <1>1 DEF Sound, Turn
  <2>. QED
    BY <1>1, <1>3, <2>1, <2>2, <2>3, OffsetFrame DEF IInv
<1>. QED
  BY <1>3, <1>5, <1>6, <1>7 DEF IInv

\* A step of the process that leaves the deliveries' messages as they are.
LEMMA EventFrame ==
  ASSUME EventInv, UNCHANGED <<worldVars, crashes>>, seen' \subseteq Msgs,
         pc' \in [Deliveries -> States],
         \A h \in Deliveries : pc'[h] # "none" => Id(h) <= posted
  PROVE  EventInv' /\ \A h \in Deliveries : ChatOf(h)' = ChatOf(h)
BY DEF EventInv, worldVars, ChatOf, Id

\* A flush: the buffer is empty, and what was in it belongs to the batch.
LEMMA FlushKeeps ==
  ASSUME EventInv, BufferInv, NEW c \in Chats, NEW more, NEW w, Flush(c, more, w),
         chat' = chat,
         w # None => w \in Deliveries /\ pc[w] = "none" /\ pc'[w] = "blocked",
         \A g \in Deliveries : pc[g] = "blocked" => pc'[g] = "blocked",
         \A g \in Deliveries : pc[g] = "buffered" /\ ~InBatch(buffers[c], g) => pc'[g] = "buffered"
  PROVE  BufferInv'
<1>1. buffers' \in [Chats -> Seq(Deliveries)] /\ buffers'[c] = <<>>
      /\ \A d \in Chats : d # c => buffers'[d] = buffers[d]
  BY DEF Flush, BufferInv
<1>2. \A d \in Chats : Len(buffers'[d]) <= BufSize
  BY <1>1, InboxAssumption DEF BufferInv
<1>3. ASSUME NEW d \in Chats, NEW i \in 1..Len(buffers'[d])
      PROVE  pc'[buffers'[d][i]] = "buffered" /\ chat'[buffers'[d][i][1]] = d
  <2>1. d # c /\ buffers'[d] = buffers[d]
    BY <1>1, <1>3
  <2>2. /\ buffers[d][i] \in Deliveries /\ pc[buffers[d][i]] = "buffered"
        /\ chat[buffers[d][i][1]] = d
    BY <2>1, <1>3 DEF BufferInv, ChatOf
  <2>3. ~InBatch(buffers[c], buffers[d][i])
    BY <2>1, <2>2 DEF BufferInv, InBatch, ChatOf
  <2>. QED
    BY <2>1, <2>2, <2>3
<1>4. PICK e : flushes' = flushes \cup {e} /\ e.waiter = w
  <2>1. flushes' = flushes \cup {[rest |-> Sorted(buffers[c]) \o more, waiter |-> w]}
    BY DEF Flush
  <2>2. [rest |-> Sorted(buffers[c]) \o more, waiter |-> w].waiter = w
    OBVIOUS
  <2>. QED
    BY <2>1, <2>2, Zenon
<1>5. ASSUME NEW f \in flushes', f.waiter # None
      PROVE  f.waiter \in Deliveries /\ pc'[f.waiter] = "blocked"
  BY <1>4, <1>5 DEF BufferInv
<1>6. ASSUME NEW f \in flushes', NEW g \in flushes', f.waiter # None, f.waiter = g.waiter
      PROVE  f = g
  BY <1>4, <1>6 DEF BufferInv
<1>. QED
  BY <1>1, <1>2, <1>3, <1>5, <1>6 DEF BufferInv, ChatOf

\* What the debouncer's steps share: they touch the buffers, and states before the queue.
LEMMA DebouncerFrame ==
  ASSUME IInv, pc' \in [Deliveries -> States],
         UNCHANGED <<worldVars, seen, queueVars, offset, disk, answers, crashes>>,
         \A h \in Deliveries :
           \/ pc'[h] = pc[h]
           \/ /\ pc[h] \in {"none", "blocked", "buffered"} /\ Id(h) <= posted
              /\ pc'[h] \in {"blocked", "buffered", "batch"}
  PROVE  EventInv' /\ QueueInv' /\ OffsetInv'
<1>1. EventInv' /\ \A h \in Deliveries : ChatOf(h)' = ChatOf(h)
  <2>1. \A h \in Deliveries : pc'[h] # "none" => Id(h) <= posted
    BY DEF IInv, EventInv
  <2>. QED
    BY <2>1, EventFrame DEF IInv, EventInv
<1>2. QueueInv'
  <2>1. \A h \in Deliveries : \/ pc'[h] = pc[h]
                              \/ pc[h] \notin InQueue /\ pc'[h] \notin InQueue
                              \/ pc[h] \in Holding /\ pc'[h] \in Holding
    BY DEF InQueue, Holding, Turn
  <2>2. UNCHANGED queueVars
    BY DEF queueVars
  <2>3. EventInv /\ QueueInv
    BY DEF IInv
  <2>. QED
    BY <1>1, <2>1, <2>2, <2>3, QueueFrame, Zenon
<1>3. OffsetInv'
  <2>1. posted' = posted /\ chat' = chat /\ posted <= posted
    BY InboxAssumption DEF worldVars, IInv, EventInv
  <2>2. \A h \in Deliveries : Sound(h)
    BY DEF Sound, Turn
  <2>3. disk' \in {disk, offset} /\ UNCHANGED <<offset, answers>>
    OBVIOUS
  <2>. QED
    BY <1>1, <2>1, <2>2, <2>3, OffsetFrame DEF IInv
<1>. QED
  BY <1>1, <1>2, <1>3

\* What is in a buffer is in the state buffered.
LEMMA InBatchIsBuffered ==
  ASSUME EventInv, BufferInv, NEW c \in Chats, NEW g \in Deliveries, InBatch(buffers[c], g)
  PROVE  pc[g] = "buffered" /\ Id(g) <= posted
<1>1. pc[g] = "buffered"
  BY DEF BufferInv, InBatch
<1>. QED
  BY <1>1 DEF EventInv

\* The timer's flush, or flushAll, keeps the invariant.
LEMMA FlushKeyKeeps ==
  ASSUME IInv, NEW c \in Chats, FlushKey(c)
  PROVE  IInv'
<1>1. pc' = [g \in Deliveries |-> IF InBatch(buffers[c], g) THEN "batch" ELSE pc[g]]
  BY DEF FlushKey
<1>2. pc' \in [Deliveries -> States]
  BY <1>1 DEF IInv, EventInv, States
<1>3. \A g \in Deliveries : IF InBatch(buffers[c], g) THEN pc[g] = "buffered" /\ Id(g) <= posted /\ pc'[g] = "batch"
                             ELSE pc'[g] = pc[g]
  BY <1>1, InBatchIsBuffered DEF IInv
<1>4. EventInv' /\ QueueInv' /\ OffsetInv'
  <2>1. UNCHANGED <<worldVars, seen, queueVars, offset, disk, answers, crashes>>
    BY DEF FlushKey
  <2>. QED
    BY <1>2, <1>3, <2>1, DebouncerFrame
<1>5. BufferInv'
  <2>1. Flush(c, <<>>, None) /\ chat' = chat
    BY DEF FlushKey, worldVars
  <2>2. EventInv /\ BufferInv
    BY DEF IInv
  <2>. QED
    BY <1>3, <2>1, <2>2, FlushKeeps
<1>. QED
  BY <1>4, <1>5 DEF IInv

\* enqueue keeps the invariant on each of its three paths.
LEMMA EnqueueKeeps ==
  ASSUME IInv, NEW h \in Deliveries, Enqueue(h)
  PROVE  IInv'
<1>. DEFINE c == ChatOf(h)
<1>1. pc[h] = "none" /\ Id(h) <= posted /\ c \in Chats
  BY ChatOfIsChat DEF IInv, Enqueue, Fires
<1>2. EventInv /\ BufferInv
  BY DEF IInv
<1>3. UNCHANGED <<worldVars, seen, queueVars, offset, disk, answers, crashes>> /\ chat' = chat
  BY DEF Enqueue, worldVars
<1>4. \A g \in Deliveries : InBatch(buffers[c], g) => /\ pc[g] = "buffered" /\ Id(g) <= posted
                                                      /\ g # h
  BY <1>1, <1>2, InBatchIsBuffered
<1>5. CASE /\ ~Debounced(h)
           /\ Flush(c, <<h>>, None)
           /\ pc' = [g \in Deliveries |-> IF g = h \/ InBatch(buffers[c], g) THEN "batch" ELSE pc[g]]
  <2>1. pc' \in [Deliveries -> States]
    BY <1>2, <1>5 DEF EventInv, States
  <2>2. \A g \in Deliveries : \/ pc'[g] = pc[g] /\ g # h /\ ~InBatch(buffers[c], g)
                              \/ /\ pc[g] \in {"none", "buffered"} /\ Id(g) <= posted
                                 /\ pc'[g] = "batch"
                                 /\ (InBatch(buffers[c], g) \/ pc[g] = "none")
    BY <1>1, <1>4, <1>5
  <2>3. EventInv' /\ QueueInv' /\ OffsetInv'
    BY <1>3, <2>1, <2>2, DebouncerFrame
  <2>4. BufferInv'
    BY <1>1, <1>2, <1>3, <1>5, <2>2, FlushKeeps
  <2>. QED
    BY <2>3, <2>4 DEF IInv
<1>6. CASE /\ Debounced(h)
           /\ Flush(c, <<>>, h)
           /\ pc' = [g \in Deliveries |-> IF g = h THEN "blocked"
                                          ELSE IF InBatch(buffers[c], g) THEN "batch" ELSE pc[g]]
  <2>1. pc' \in [Deliveries -> States]
    BY <1>2, <1>6 DEF EventInv, States
  <2>2. \A g \in Deliveries : \/ pc'[g] = pc[g] /\ g # h /\ ~InBatch(buffers[c], g)
                              \/ /\ pc[g] = "buffered" /\ Id(g) <= posted /\ pc'[g] = "batch"
                                 /\ InBatch(buffers[c], g) /\ g # h
                              \/ g = h /\ pc'[g] = "blocked"
    BY <1>1, <1>4, <1>6
  <2>3. EventInv' /\ QueueInv' /\ OffsetInv'
    BY <1>1, <1>3, <2>1, <2>2, DebouncerFrame
  <2>4. BufferInv'
    BY <1>1, <1>2, <1>3, <1>6, <2>2, FlushKeeps
  <2>. QED
    BY <2>3, <2>4 DEF IInv
<1>7. CASE /\ Debounced(h)
           /\ ~Full(c)
           /\ buffers' = [buffers EXCEPT ![c] = Append(@, h)]
           /\ pc' = [pc EXCEPT ![h] = "buffered"]
           /\ flushes' = flushes
  <2>1. pc' \in [Deliveries -> States] /\ pc'[h] = "buffered"
        /\ \A g \in Deliveries : g # h => pc'[g] = pc[g]
    BY <1>2, <1>7 DEF EventInv, States
  <2>2. EventInv' /\ QueueInv' /\ OffsetInv'
    BY <1>1, <1>3, <2>1, DebouncerFrame
  <2>3. buffers' \in [Chats -> Seq(Deliveries)] /\ buffers'[c] = Append(buffers[c], h)
        /\ \A d \in Chats : d # c => buffers'[d] = buffers[d]
    BY <1>1, <1>2, <1>7 DEF BufferInv
  <2>4. \A d \in Chats : Len(buffers'[d]) <= BufSize
    <3>1. buffers[c] \in Seq(Deliveries)
      BY <1>1, <1>2 DEF BufferInv
    <3>2. Len(buffers'[c]) <= BufSize
      BY <1>7, <2>3, <3>1, InboxAssumption DEF Full
    <3>. QED
      BY <1>2, <2>3, <3>2 DEF BufferInv
  <2>5. ASSUME NEW d \in Chats, NEW i \in 1..Len(buffers'[d])
        PROVE  pc'[buffers'[d][i]] = "buffered" /\ chat'[buffers'[d][i][1]] = d
    <3>1. buffers[d] \in Seq(Deliveries)
      BY <1>2 DEF BufferInv
    <3>2. CASE i \in 1..Len(buffers[d])
      <4>1. buffers'[d][i] = buffers[d][i] /\ buffers[d][i] \in Deliveries
        BY <2>3, <3>1, <3>2, <1>1
      <4>2. pc[buffers[d][i]] = "buffered" /\ chat[buffers[d][i][1]] = d
        BY <1>2, <3>2 DEF BufferInv, ChatOf
      <4>. QED
        BY <4>1, <4>2, <1>1, <1>3, <2>1
    <3>3. CASE i \notin 1..Len(buffers[d])
      <4>1. d = c /\ buffers'[d][i] = h
        BY <2>3, <2>5, <3>1, <3>3, <1>1
      <4>. QED
        BY <4>1, <2>1, <1>3 DEF ChatOf
    <3>. QED
      BY <3>2, <3>3
  <2>6. ASSUME NEW f \in flushes, f.waiter # None
        PROVE  f.waiter \in Deliveries /\ pc'[f.waiter] = "blocked"
    BY <1>1, <1>2, <2>1, <2>6 DEF BufferInv
  <2>7. BufferInv'
    BY <1>2, <1>7, <2>3, <2>4, <2>5, <2>6 DEF BufferInv, ChatOf
  <2>. QED
    BY <2>2, <2>7 DEF IInv
<1>. QED
  BY <1>5, <1>6, <1>7 DEF Enqueue

\* The end of a flush unblocks the one delivery that waited for it.
LEMMA AdvanceKeeps ==
  ASSUME IInv, NEW f \in flushes, Advance(f)
  PROVE  IInv'
<1>1. EventInv /\ BufferInv
  BY DEF IInv
<1>2. UNCHANGED <<worldVars, seen, queueVars, offset, disk, answers, crashes>> /\ chat' = chat
  BY DEF Advance, worldVars
<1>3. CASE pc' = pc /\ buffers' = buffers
  <2>1. EventInv' /\ QueueInv' /\ OffsetInv'
    BY <1>1, <1>2, <1>3, DebouncerFrame DEF EventInv
  <2>2. PICK e : e.waiter = f.waiter /\ flushes' \in {flushes \ {f}, (flushes \ {f}) \cup {e}}
    <3>1. [rest |-> Tail(f.rest), waiter |-> f.waiter].waiter = f.waiter
      OBVIOUS
    <3>. QED
      BY <3>1 DEF Advance
  <2>3. ASSUME NEW g \in flushes', g.waiter # None
        PROVE  g.waiter \in Deliveries /\ pc[g.waiter] = "blocked"
    BY <1>1, <2>2, <2>3 DEF BufferInv
  <2>4. ASSUME NEW d \in flushes', NEW g \in flushes', d.waiter # None, d.waiter = g.waiter
        PROVE  d = g
    BY <1>1, <2>2, <2>4 DEF BufferInv
  <2>5. BufferInv'
    BY <1>1, <1>2, <1>3, <2>3, <2>4 DEF BufferInv, ChatOf
  <2>. QED
    BY <2>1, <2>5 DEF IInv
<1>4. CASE ~(pc' = pc /\ buffers' = buffers)
  <2>1. PICK w : w = f.waiter
    OBVIOUS
  <2>2. /\ w # None /\ flushes' = flushes \ {f}
        /\ buffers' = [buffers EXCEPT ![ChatOf(w)] = <<w>>]
        /\ pc' = [pc EXCEPT ![w] = "buffered"]
    BY <1>4, <2>1 DEF Advance
  <2>3. w \in Deliveries /\ pc[w] = "blocked" /\ Id(w) <= posted /\ ChatOf(w) \in Chats
    <3>1. w \in Deliveries /\ pc[w] = "blocked"
      BY <1>1, <2>1, <2>2 DEF BufferInv
    <3>. QED
      BY <1>1, <3>1, ChatOfIsChat DEF EventInv
  <2>4. pc' \in [Deliveries -> States] /\ pc'[w] = "buffered"
        /\ \A g \in Deliveries : g # w => pc'[g] = pc[g]
    BY <1>1, <2>2, <2>3 DEF EventInv, States
  <2>5. EventInv' /\ QueueInv' /\ OffsetInv'
    BY <1>2, <2>3, <2>4, DebouncerFrame
  <2>6. buffers' \in [Chats -> Seq(Deliveries)] /\ buffers'[ChatOf(w)] = <<w>>
        /\ \A d \in Chats : d # ChatOf(w) => buffers'[d] = buffers[d]
    BY <1>1, <2>2, <2>3 DEF BufferInv
  <2>7. \A d \in Chats : Len(buffers'[d]) <= BufSize
    <3>1. Len(<<w>>) = 1 /\ 1 <= BufSize
      BY InboxAssumption
    <3>2. Len(buffers'[ChatOf(w)]) <= BufSize
      BY <2>6, <3>1
    <3>. QED
      BY <1>1, <2>6, <3>2 DEF BufferInv
  <2>8. ASSUME NEW d \in Chats, NEW i \in 1..Len(buffers'[d])
        PROVE  pc'[buffers'[d][i]] = "buffered" /\ chat'[buffers'[d][i][1]] = d
    <3>1. CASE d = ChatOf(w)
      BY <1>2, <2>4, <2>6, <2>8, <3>1 DEF ChatOf
    <3>2. CASE d # ChatOf(w)
      <4>1. /\ buffers'[d] = buffers[d] /\ buffers[d][i] \in Deliveries
            /\ pc[buffers[d][i]] = "buffered" /\ chat[buffers[d][i][1]] = d
        BY <1>1, <2>6, <2>8, <3>2 DEF BufferInv, ChatOf
      <4>. QED
        BY <4>1, <1>2, <2>3, <2>4
    <3>. QED
      BY <3>1, <3>2
  <2>9. ASSUME NEW g \in flushes', g.waiter # None
        PROVE  g.waiter \in Deliveries /\ pc'[g.waiter] = "blocked"
    BY <1>1, <2>1, <2>2, <2>4, <2>9 DEF BufferInv
  <2>10. BufferInv'
    <3>1. \A d, g \in flushes' : d.waiter # None /\ d.waiter = g.waiter => d = g
      BY <1>1, <2>2 DEF BufferInv
    <3>. QED
      BY <2>6, <2>7, <2>8, <2>9, <3>1 DEF BufferInv, ChatOf
  <2>. QED
    BY <2>5, <2>10 DEF IInv
<1>. QED
  BY <1>3, <1>4
-----------------------------------------------------------------------------
(* handleMessage and the queues.                                           *)

\* What the handler's steps share: one delivery moves on, past the buffers.
LEMMA HandlerFrame ==
  ASSUME IInv, UNCHANGED <<worldVars, buffers, flushes, crashes>>, seen' \subseteq Msgs,
         pc' \in [Deliveries -> States],
         \A g \in Deliveries : pc'[g] = pc[g] \/ pc[g] \in InQueue \cup {"batch", "store"}
  PROVE  EventInv' /\ BufferInv' /\ \A g \in Deliveries : ChatOf(g)' = ChatOf(g)
<1>1. EventInv' /\ \A h \in Deliveries : ChatOf(h)' = ChatOf(h)
  <2>1. \A h \in Deliveries : pc'[h] # "none" => Id(h) <= posted
    BY DEF IInv, EventInv, InQueue, Holding, Turn
  <2>. QED
    BY <2>1, EventFrame DEF IInv
<1>2. BufferInv'
  <2>1. \A h \in Deliveries : pc[h] \in {"buffered", "blocked"} =>
                                 pc'[h] = pc[h] /\ ChatOf(h)' = ChatOf(h)
    BY <1>1 DEF InQueue, Holding, Turn
  <2>. QED
    BY <2>1, BufferFrame DEF IInv
<1>. QED
  BY <1>1, <1>2

\* The same with the offsets untouched.
LEMMA StillFrame ==
  ASSUME IInv, EventInv', UNCHANGED <<worldVars, offset, disk>>, answers' = answers \/ Counted,
         \A h \in Deliveries : Sound(h)
  PROVE  OffsetInv'
<1>1. posted' = posted /\ chat' = chat /\ posted <= posted
  BY InboxAssumption DEF worldVars, IInv, EventInv
<1>2. disk' \in {disk, offset} /\ offset' = offset
  OBVIOUS
<1>. QED
  BY <1>1, <1>2, OffsetFrame DEF IInv

\* A step of one delivery that stays outside the queues or inside its slot.
LEMMA MoveKeeps ==
  ASSUME IInv, NEW h \in Deliveries, NEW s \in States, pc' = [pc EXCEPT ![h] = s],
         \/ pc[h] \in {"batch", "store"} /\ s \notin InQueue
         \/ pc[h] \in Holding /\ s \in Holding,
         s \in Turn => pc[h] \in Turn \/ ~Processed(h),
         s = "sent" => answers'[Id(h)] > 0,
         s = "skipped" => Processed(h),
         seen' \subseteq Msgs, answers' = answers \/ Counted,
         UNCHANGED <<worldVars, buffers, flushes, queueVars, offset, disk, crashes>>
  PROVE  IInv'
<1>1. /\ pc' \in [Deliveries -> States] /\ pc'[h] = s
      /\ \A g \in Deliveries : g # h => pc'[g] = pc[g]
      /\ pc[h] # "none"
  BY DEF IInv, EventInv, Holding, Turn
<1>2. EventInv' /\ BufferInv' /\ \A g \in Deliveries : ChatOf(g)' = ChatOf(g)
  <2>1. \A g \in Deliveries : pc'[g] = pc[g] \/ pc[g] \in InQueue \cup {"batch", "store"}
    BY <1>1 DEF InQueue
  <2>. QED
    BY <1>1, <2>1, HandlerFrame
<1>3. QueueInv'
  <2>1. \A g \in Deliveries : \/ pc'[g] = pc[g]
                              \/ pc[g] \notin InQueue /\ pc'[g] \notin InQueue
                              \/ pc[g] \in Holding /\ pc'[g] \in Holding
    BY <1>1 DEF InQueue, Holding, Turn
  <2>2. EventInv /\ QueueInv /\ UNCHANGED queueVars
    BY DEF IInv, queueVars
  <2>. QED
    BY <1>2, <2>1, <2>2, QueueFrame
<1>4. OffsetInv'
  <2>1. \A g \in Deliveries : Sound(g)
    BY <1>1 DEF Sound, Turn
  <2>. QED
    BY <1>1, <1>2, <2>1, StillFrame
<1>. QED
  BY <1>2, <1>3, <1>4 DEF IInv

\* The dedup check and the storing of a message keep the invariant.
LEMMA HandleMessageKeeps ==
  ASSUME IInv, NEW h \in Deliveries, HandleMessage(h)
  PROVE  IInv'
<1>1. PICK s \in {"ended", "store"} : pc' = [pc EXCEPT ![h] = s]
  BY DEF HandleMessage
<1>2. s \in States /\ s \notin InQueue /\ s \notin Turn /\ s # "sent" /\ s # "skipped"
  BY DEF States, Ended, InQueue, Holding, Turn
<1>3. seen' \subseteq Msgs
  BY IdIsMsg DEF HandleMessage, IInv, EventInv
<1>4. /\ pc[h] \in {"batch", "store"}
      /\ UNCHANGED <<worldVars, buffers, flushes, queueVars, offset, disk, answers, crashes>>
  BY DEF HandleMessage
<1>. QED
  BY <1>1, <1>2, <1>3, <1>4, MoveKeeps

\* Only a message that is not processed is given to the agent.
LEMMA StartKeeps ==
  ASSUME IInv, NEW h \in Deliveries, Start(h)
  PROVE  IInv'
<1>1. /\ pc' = [pc EXCEPT ![h] = "work"] /\ ~Processed(h) /\ seen' \subseteq Msgs
      /\ UNCHANGED <<worldVars, buffers, flushes, queueVars, offset, disk, answers, crashes>>
  BY DEF Start, IInv, EventInv
<1>2. "work" \in States /\ "work" \in Holding /\ pc[h] \in Holding
  BY DEF Start, States, InQueue, Holding, Turn
<1>. QED
  BY <1>1, <1>2, MoveKeeps

\* A reply is counted, and its turn goes on.
LEMMA ReplyKeeps ==
  ASSUME IInv, NEW h \in Deliveries, Reply(h)
  PROVE  IInv'
<1>1. /\ pc' = [pc EXCEPT ![h] = "sent"] /\ seen' \subseteq Msgs /\ pc[h] \in Turn
      /\ UNCHANGED <<worldVars, buffers, flushes, queueVars, offset, disk, crashes>>
  BY DEF Reply, IInv, EventInv, Turn
<1>2. "sent" \in States /\ "sent" \in Holding /\ pc[h] \in Holding
  BY <1>1 DEF States, InQueue, Holding, Turn
<1>3. Id(h) \in Msgs /\ answers \in [Msgs -> Nat] /\ answers' = [answers EXCEPT ![Id(h)] = @ + 1]
  BY IdIsMsg DEF Reply, IInv, OffsetInv
<1>4. Counted
  BY <1>3 DEF Counted
<1>5. answers'[Id(h)] > 0
  BY <1>3
<1>. QED
  BY <1>1, <1>2, <1>4, <1>5, MoveKeeps

\* A turn that waits to try again keeps its slot.
LEMMA RateLimitedKeeps ==
  ASSUME IInv, NEW h \in Deliveries, RateLimited(h)
  PROVE  IInv'
<1>1. /\ pc' = [pc EXCEPT ![h] = "retry"] /\ seen' \subseteq Msgs /\ pc[h] \in Turn
      /\ UNCHANGED <<worldVars, buffers, flushes, queueVars, offset, disk, answers, crashes>>
  BY DEF RateLimited, IInv, EventInv, Turn
<1>2. "retry" \in States /\ "retry" \in Holding /\ pc[h] \in Holding
  BY <1>1 DEF States, InQueue, Holding, Turn
<1>. QED
  BY <1>1, <1>2, MoveKeeps

\* Writing the offsets to disk keeps the invariant.
LEMMA SaveOffsetsKeeps ==
  ASSUME IInv, SaveOffsets
  PROVE  IInv'
<1>1. UNCHANGED <<posted, chat, command, pc, buffers, flushes, seen, chain, active, waitQueue,
                  offset, answers, crashes>> /\ disk' = offset
  BY DEF SaveOffsets, worldVars, queueVars
<1>2. EventInv' /\ BufferInv'
  <2>1. UNCHANGED <<worldVars, buffers, flushes, crashes>> /\ seen' \subseteq Msgs
        /\ pc' \in [Deliveries -> States] /\ pc' = pc
    BY <1>1 DEF IInv, EventInv, worldVars
  <2>. QED
    BY <2>1, HandlerFrame
<1>3. QueueInv'
  <2>1. EventInv /\ QueueInv /\ UNCHANGED queueVars
    BY <1>1 DEF IInv, queueVars
  <2>2. \A h \in Deliveries : pc'[h] = pc[h] /\ ChatOf(h)' = ChatOf(h)
    BY <1>1 DEF ChatOf
  <2>. QED
    BY <1>2, <2>1, <2>2, QueueFrame
<1>4. OffsetInv'
  <2>1. posted <= posted' /\ disk' \in {disk, offset} /\ UNCHANGED <<offset, answers>>
    BY <1>1, InboxAssumption DEF IInv, EventInv
  <2>2. \A h \in Deliveries : Sound(h)
    BY <1>1 DEF Sound, Turn
  <2>. QED
    BY <1>1, <1>2, <2>1, <2>2, OffsetFrame DEF IInv
<1>. QED
  BY <1>2, <1>3, <1>4 DEF IInv

\* A delivery joins the queue of its chat at the end, once.
LEMMA AnalyzeKeeps ==
  ASSUME IInv, NEW h \in Deliveries, Analyze(h)
  PROVE  IInv'
<1>1. /\ pc[h] = "store" /\ seen' \subseteq Msgs
      /\ UNCHANGED <<worldVars, buffers, flushes, active, waitQueue, offset, disk, answers, crashes>>
  BY DEF Analyze, IInv, EventInv
<1>2. CASE chain' = chain /\ Processed(h) /\ pc' = [pc EXCEPT ![h] = "skipped"]
  <2>1. "skipped" \in States /\ "skipped" \notin InQueue /\ "skipped" \notin Turn
    BY DEF States, Ended, InQueue, Holding, Turn
  <2>. QED
    BY <1>1, <1>2, <2>1, MoveKeeps DEF queueVars
<1>3. CASE chain' = chain /\ pc' = [pc EXCEPT ![h] = "ended"]
  <2>1. "ended" \in States /\ "ended" \notin InQueue /\ "ended" \notin Turn
    BY DEF States, Ended, InQueue, Holding, Turn
  <2>. QED
    BY <1>1, <1>3, <2>1, MoveKeeps DEF queueVars
<1>4. CASE pc' = [pc EXCEPT ![h] = "queued"] /\ chain' = [chain EXCEPT ![ChatOf(h)] = Append(@, h)]
  <2>. DEFINE c == ChatOf(h)
  <2>1. c \in Chats
    BY <1>1, ChatOfIsChat DEF IInv
  <2>2. /\ pc' \in [Deliveries -> States] /\ pc'[h] = "queued"
        /\ \A g \in Deliveries : g # h => pc'[g] = pc[g]
    BY <1>4 DEF IInv, EventInv, States, InQueue
  <2>3. EventInv' /\ BufferInv' /\ \A g \in Deliveries : ChatOf(g)' = ChatOf(g)
    BY <1>1, <2>2, HandlerFrame
  <2>4. OffsetInv'
    <3>1. \A g \in Deliveries : Sound(g)
      BY <2>2 DEF Sound, Turn
    <3>. QED
      BY <1>1, <2>3, <3>1, StillFrame
  <2>5. /\ chain \in [Chats -> Seq(Deliveries)] /\ chain' \in [Chats -> Seq(Deliveries)]
        /\ chain'[c] = Append(chain[c], h)
        /\ \A d \in Chats : d # c => chain'[d] = chain[d]
    BY <1>4, <2>1 DEF IInv, QueueInv
  <2>6. ASSUME NEW d \in Chats
        PROVE  /\ \A i \in 1..Len(chain[d]) : /\ chain'[d][i] = chain[d][i]
                                              /\ chain[d][i] \in Deliveries \ {h}
               /\ IF d = c THEN /\ Len(chain'[d]) = Len(chain[d]) + 1
                                /\ chain'[d][Len(chain[d]) + 1] = h
                           ELSE Len(chain'[d]) = Len(chain[d])
               /\ Len(chain[d]) \in Nat
    <3>1. chain[d] \in Seq(Deliveries)
      BY <2>5
    <3>2. \A i \in 1..Len(chain[d]) : chain[d][i] \in Deliveries \ {h}
      BY <3>1, <1>1 DEF IInv, QueueInv, ChainOk, InQueue, Holding, Turn
    <3>3. Len(chain[d]) \in Nat
      BY <3>1
    <3>4. CASE d = c
      BY <2>5, <3>1, <3>2, <3>3, <3>4, SMTT(30)
    <3>5. CASE d # c
      BY <2>5, <3>2, <3>3, <3>5
    <3>. QED
      BY <3>4, <3>5
  <2>7. ASSUME NEW d \in Chats PROVE ChainOk(d)'
    <3>1. ASSUME NEW i \in 1..Len(chain'[d])
          PROVE  /\ chat'[chain'[d][i][1]] = d
                 /\ pc'[chain'[d][i]] \in IF i = 1 THEN InQueue ELSE {"queued"}
      <4>1. CASE i \in 1..Len(chain[d])
        <5>1. /\ chat[chain[d][i][1]] = d
              /\ pc[chain[d][i]] \in IF i = 1 THEN InQueue ELSE {"queued"}
          BY <4>1 DEF IInv, QueueInv, ChainOk, ChatOf
        <5>. QED
          BY <5>1, <4>1, <2>2, <2>3, <2>6 DEF ChatOf
      <4>2. CASE i \notin 1..Len(chain[d])
        <5>1. d = c /\ chain'[d][i] = h
          BY <4>2, <3>1, <2>6
        <5>. QED
          BY <5>1, <2>2, <2>3 DEF ChatOf, InQueue
      <4>. QED
        BY <4>1, <4>2
    <3>2. ASSUME NEW i \in 1..Len(chain'[d]), NEW j \in 1..Len(chain'[d]), chain'[d][i] = chain'[d][j]
          PROVE  i = j
      <4>1. \A k \in 1..Len(chain'[d]) : k \in 1..Len(chain[d]) \/ (d = c /\ k = Len(chain[d]) + 1 /\ chain'[d][k] = h)
        BY <2>6
      <4>2. CASE i \in 1..Len(chain[d]) /\ j \in 1..Len(chain[d])
        BY <4>2, <3>2, <2>6 DEF IInv, QueueInv, ChainOk
      <4>3. CASE ~(i \in 1..Len(chain[d]) /\ j \in 1..Len(chain[d]))
        BY <4>3, <4>1, <3>2, <2>6
      <4>. QED
        BY <4>2, <4>3
    <3>. QED
      BY <2>5, <3>1, <3>2 DEF ChainOk, ChatOf
  <2>8. ASSUME NEW g \in Deliveries PROVE InChain(g)'
    <3>. SUFFICES ASSUME pc'[g] \in InQueue
                  PROVE  /\ ChatOf(g)' \in Chats
                         /\ \E i \in 1..Len(chain'[ChatOf(g)']) : chain'[ChatOf(g)'][i] = g
      BY DEF InChain
    <3>1. CASE g = h
      <4>1. Len(chain[c]) + 1 \in 1..Len(chain'[c]) /\ chain'[c][Len(chain[c]) + 1] = h
        BY <2>1, <2>6
      <4>. QED
        BY <3>1, <4>1, <2>1, <2>3
    <3>2. CASE g # h
      <4>1. /\ ChatOf(g) \in Chats
            /\ \E i \in 1..Len(chain[ChatOf(g)]) : chain[ChatOf(g)][i] = g
        BY <3>2, <2>2 DEF IInv, QueueInv, InChain
      <4>. QED
        BY <4>1, <2>3, <2>6
    <3>. QED
      BY <3>1, <3>2
  <2>9. WaitInv' /\ SlotInv'
    <3>1. \A g \in Deliveries : /\ pc'[g] = "waiting" <=> pc[g] = "waiting"
                                /\ pc'[g] \in Holding <=> pc[g] \in Holding
      BY <1>1, <2>2 DEF Holding, Turn
    <3>2. Of(Holding)' = Of(Holding)
      BY <3>1 DEF Of, Holding
    <3>. QED
      BY <1>1, <3>1, <3>2 DEF IInv, QueueInv, WaitInv, SlotInv
  <2>. QED
    BY <2>3, <2>4, <2>5, <2>7, <2>8, <2>9 DEF IInv, QueueInv
<1>. QED
  BY <1>2, <1>3, <1>4 DEF Analyze

\* The head of a queue takes a free slot or waits, and is counted once.
LEMMA AcquireSlotKeeps ==
  ASSUME IInv, NEW h \in Deliveries, AcquireSlot(h)
  PROVE  IInv'
<1>. DEFINE c == ChatOf(h)
<1>1. /\ pc[h] = "queued" /\ seen' \subseteq Msgs /\ chain' = chain
      /\ UNCHANGED <<worldVars, buffers, flushes, offset, disk, answers, crashes>>
  BY DEF AcquireSlot, IInv, EventInv
<1>2. PICK s \in {"slot", "waiting"} : pc' = [pc EXCEPT ![h] = s]
  BY DEF AcquireSlot
<1>3. /\ pc' \in [Deliveries -> States] /\ pc'[h] = s
      /\ \A g \in Deliveries : g # h => pc'[g] = pc[g]
  BY <1>2 DEF IInv, EventInv, States, InQueue, Holding
<1>4. EventInv' /\ BufferInv' /\ \A g \in Deliveries : ChatOf(g)' = ChatOf(g)
  <2>1. \A g \in Deliveries : pc'[g] = pc[g] \/ pc[g] \in InQueue \cup {"batch", "store"}
    BY <1>1, <1>3 DEF InQueue
  <2>. QED
    BY <1>1, <1>3, <2>1, HandlerFrame
<1>5. OffsetInv'
  <2>1. \A g \in Deliveries : Sound(g)
    BY <1>3 DEF Sound, Turn
  <2>. QED
    BY <1>1, <1>4, <2>1, StillFrame
<1>6. c \in Chats /\ chain[c] \in Seq(Deliveries) /\ chain[c] # <<>> /\ h = chain[c][1]
  <2>1. c \in Chats /\ \E i \in 1..Len(chain[c]) : chain[c][i] = h
    BY <1>1 DEF IInv, QueueInv, InChain, InQueue
  <2>2. chain[c] \in Seq(Deliveries) /\ chain[c] # <<>>
    BY <2>1 DEF IInv, QueueInv
  <2>. QED
    BY <2>1, <2>2 DEF AcquireSlot
<1>7. ASSUME NEW d \in Chats PROVE ChainOk(d)'
  <2>1. ChainOk(d)
    BY DEF IInv, QueueInv
  <2>2. ASSUME NEW i \in 1..Len(chain[d])
        PROVE  /\ chat'[chain[d][i][1]] = d
               /\ pc'[chain[d][i]] \in IF i = 1 THEN InQueue ELSE {"queued"}
    <3>1. /\ chain[d][i] \in Deliveries /\ chat[chain[d][i][1]] = d
          /\ pc[chain[d][i]] \in IF i = 1 THEN InQueue ELSE {"queued"}
      BY <2>1 DEF ChainOk, ChatOf
    <3>2. CASE chain[d][i] = h
      <4>1. d = c /\ i = 1
        BY <3>1, <3>2, <1>6, <2>1 DEF ChainOk, ChatOf
      <4>2. s \in InQueue
        BY DEF InQueue, Holding
      <4>. QED
        BY <4>1, <4>2, <3>2, <1>3, <1>4, <3>1 DEF ChatOf
    <3>3. CASE chain[d][i] # h
      BY <3>1, <3>3, <1>3, <1>4 DEF ChatOf
    <3>. QED
      BY <3>2, <3>3
  <2>. QED
    BY <2>1, <2>2, <1>1 DEF ChainOk, ChatOf
<1>8. ASSUME NEW g \in Deliveries PROVE InChain(g)'
  <2>1. pc'[g] \in InQueue => pc[g] \in InQueue
    BY <1>1, <1>3 DEF InQueue
  <2>. QED
    BY <1>1, <1>4, <2>1 DEF IInv, QueueInv, InChain
<1>9. /\ waitQueue \in Seq(Deliveries)
      /\ \A g \in Deliveries : pc[g] = "waiting" <=> \E i \in 1..Len(waitQueue) : waitQueue[i] = g
      /\ \A i, j \in 1..Len(waitQueue) : waitQueue[i] = waitQueue[j] => i = j
  BY DEF IInv, QueueInv, WaitInv
<1>10. /\ IsFiniteSet(Of(Holding)) /\ active = Cardinality(Of(Holding)) /\ active <= MaxSlots
       /\ active \in Nat
  BY FS_CardinalityType DEF IInv, QueueInv, SlotInv
<1>11. CASE active < MaxSlots
  <2>1. active' = active + 1 /\ waitQueue' = waitQueue /\ pc'[h] = "slot"
    BY <1>11, <1>3 DEF AcquireSlot, IInv, EventInv
  <2>2. WaitInv'
    BY <1>1, <1>3, <1>9, <2>1 DEF WaitInv
  <2>3. Of(Holding)' = Of(Holding) \cup {h} /\ h \notin Of(Holding)
    BY <1>1, <1>3, <2>1 DEF Of, Holding, Turn
  <2>4. SlotInv'
    <3>1. /\ IsFiniteSet(Of(Holding) \cup {h})
          /\ Cardinality(Of(Holding) \cup {h}) = Cardinality(Of(Holding)) + 1
      BY <1>10, <2>3, FS_AddElement
    <3>. QED
      BY <1>10, <1>11, <2>1, <2>3, <3>1, InboxAssumption DEF SlotInv
  <2>. QED
    BY <1>1, <1>4, <1>5, <1>7, <1>8, <2>2, <2>4 DEF IInv, QueueInv
<1>12. CASE ~(active < MaxSlots)
  <2>1. active' = active /\ waitQueue' = Append(waitQueue, h) /\ pc'[h] = "waiting"
    BY <1>12, <1>3 DEF AcquireSlot, IInv, EventInv
  <2>2. WaitInv'
    <3>. DEFINE n == Len(waitQueue)
    <3>1. /\ n \in Nat /\ waitQueue' \in Seq(Deliveries) /\ Len(waitQueue') = n + 1
          /\ waitQueue'[n + 1] = h /\ \A i \in 1..n : waitQueue'[i] = waitQueue[i]
      BY <1>9, <2>1
    <3>2. \A i \in 1..n : waitQueue[i] # h
      BY <1>1, <1>9
    <3>. HIDE DEF n
    <3>3. ASSUME NEW g \in Deliveries
          PROVE  pc'[g] = "waiting" <=> \E i \in 1..n + 1 : waitQueue'[i] = g
      <4>1. CASE g = h
        BY <4>1, <2>1, <3>1
      <4>2. CASE g # h
        <5>1. pc'[g] = "waiting" <=> \E i \in 1..n : waitQueue[i] = g
          BY <4>2, <1>3, <1>9 DEF n
        <5>2. (\E i \in 1..n : waitQueue[i] = g) <=> \E i \in 1..n + 1 : waitQueue'[i] = g
          BY <4>2, <3>1
        <5>. QED
          BY <5>1, <5>2
      <4>. QED
        BY <4>1, <4>2
    <3>4. ASSUME NEW i \in 1..n + 1, NEW j \in 1..n + 1, waitQueue'[i] = waitQueue'[j]
          PROVE  i = j
      <4>1. \A k, l \in 1..n : waitQueue[k] = waitQueue[l] => k = l
        BY <1>9 DEF n
      <4>. QED
        BY <4>1, <3>1, <3>2, <3>4
    <3>. QED
      BY <3>1, <3>3, <3>4 DEF WaitInv
  <2>3. Of(Holding)' = Of(Holding)
    <3>1. \A g \in Deliveries : pc'[g] \in Holding <=> pc[g] \in Holding
      BY <1>1, <1>3, <2>1 DEF Holding, Turn
    <3>. QED
      BY <3>1 DEF Of, Holding
  <2>4. SlotInv'
    BY <1>10, <2>1, <2>3 DEF SlotInv
  <2>. QED
    BY <1>1, <1>4, <1>5, <1>7, <1>8, <2>2, <2>4 DEF IInv, QueueInv
<1>. QED
  BY <1>11, <1>12

\* The end of a turn: the chain moves on, and so does the slot.
LEMMA EndTaskKeeps ==
  ASSUME IInv, NEW h \in Deliveries, NEW outcome \in Ended, pc[h] \in Holding,
         EndTask(h, outcome), UNCHANGED <<worldVars, buffers, flushes, seen, crashes>>
  PROVE  /\ EventInv' /\ BufferInv' /\ QueueInv' /\ pc'[h] = outcome
         /\ \A g \in Deliveries : g # h => pc'[g] = pc[g] \/ (pc[g] = "waiting" /\ pc'[g] = "slot")
<1>. DEFINE c == ChatOf(h)
            n == Len(waitQueue)
<1>1. c \in Chats /\ chain[c] \in Seq(Deliveries) /\ chain[c] # <<>> /\ h = chain[c][1]
  <2>1. pc[h] \in InQueue \ {"queued"}
    BY DEF InQueue, Holding, Turn
  <2>. QED
    BY <2>1, OneTurn DEF IInv, QueueInv
<1>2. /\ waitQueue \in Seq(Deliveries)
      /\ \A g \in Deliveries : pc[g] = "waiting" <=> \E i \in 1..n : waitQueue[i] = g
      /\ \A i, j \in 1..n : waitQueue[i] = waitQueue[j] => i = j
  BY DEF IInv, QueueInv, WaitInv
<1>3. /\ IsFiniteSet(Of(Holding)) /\ active = Cardinality(Of(Holding)) /\ active <= MaxSlots
      /\ active \in Nat
  BY FS_CardinalityType DEF IInv, QueueInv, SlotInv
<1>4. outcome \in States /\ outcome \notin InQueue
  BY DEF States, Ended, InQueue, Holding, Turn
<1>5. PICK W : /\ W = IF waitQueue = <<>> THEN {} ELSE {waitQueue[1]}
               /\ W \subseteq Deliveries
               /\ \A w \in W : pc[w] = "waiting"
  <2>1. waitQueue # <<>> => waitQueue[1] \in Deliveries /\ pc[waitQueue[1]] = "waiting"
    BY <1>2
  <2>2. PICK V : V = IF waitQueue = <<>> THEN {} ELSE {waitQueue[1]}
    BY Zenon
  <2>3. V \subseteq Deliveries /\ \A w \in V : pc[w] = "waiting"
    BY <2>1, <2>2
  <2>. QED
    BY <2>2, <2>3
<1>6. /\ pc' \in [Deliveries -> States] /\ pc'[h] = outcome
      /\ \A g \in Deliveries \ {h} : pc'[g] = IF g \in W THEN "slot" ELSE pc[g]
  <2>1. pc \in [Deliveries -> States] /\ "slot" \in States
    BY DEF IInv, EventInv, States, InQueue, Holding
  <2>2. CASE waitQueue = <<>>
    BY <2>1, <2>2, <1>4, <1>5 DEF EndTask
  <2>3. CASE waitQueue # <<>>
    <3>1. Head(waitQueue) = waitQueue[1] /\ waitQueue[1] \in W /\ waitQueue[1] # h
      BY <2>3, <1>2, <1>5 DEF Holding, Turn
    <3>. QED
      BY <2>1, <2>3, <3>1, <1>4, <1>5 DEF EndTask
  <2>. QED
    BY <2>2, <2>3
<1>7. EventInv' /\ BufferInv' /\ \A g \in Deliveries : ChatOf(g)' = ChatOf(g)
  <2>1. \A g \in Deliveries : pc'[g] = pc[g] \/ pc[g] \in InQueue \cup {"batch", "store"}
    BY <1>5, <1>6 DEF InQueue
  <2>2. seen' \subseteq Msgs
    BY DEF IInv, EventInv
  <2>. QED
    BY <1>6, <2>1, <2>2, HandlerFrame
<1>8. /\ chain \in [Chats -> Seq(Deliveries)] /\ chain' \in [Chats -> Seq(Deliveries)]
      /\ \A d \in Chats : d # c => chain'[d] = chain[d]
      /\ Len(chain[c]) \in Nat /\ Len(chain'[c]) = Len(chain[c]) - 1
      /\ \A i \in 1..Len(chain'[c]) : i + 1 \in 1..Len(chain[c]) /\ chain'[c][i] = chain[c][i + 1]
  <2>1. chain \in [Chats -> Seq(Deliveries)] /\ chain' = [chain EXCEPT ![c] = Tail(chain[c])]
    BY DEF IInv, QueueInv, EndTask
  <2>2. chain'[c] = Tail(chain[c]) /\ Tail(chain[c]) \in Seq(Deliveries)
    BY <1>1, <2>1
  <2>3. Len(chain[c]) \in Nat /\ Len(chain'[c]) = Len(chain[c]) - 1
    BY <1>1, <2>2
  <2>4. \A i \in 1..Len(chain'[c]) : i + 1 \in 1..Len(chain[c]) /\ chain'[c][i] = chain[c][i + 1]
    BY <1>1, <2>2, <2>3
  <2>5. chain' \in [Chats -> Seq(Deliveries)] /\ \A d \in Chats : d # c => chain'[d] = chain[d]
    BY <1>1, <2>1, <2>2
  <2>. QED
    BY <2>1, <2>3, <2>4, <2>5
<1>. HIDE DEF c, n
<1>9. ASSUME NEW d \in Chats PROVE ChainOk(d)'
  <2>1. ChainOk(d)
    BY DEF IInv, QueueInv
  <2>2. ASSUME NEW i \in 1..Len(chain[d]), d = c => i # 1
        PROVE  /\ chain[d][i] \in Deliveries /\ chat'[chain[d][i][1]] = d
               /\ pc'[chain[d][i]] \in IF i = 1 THEN InQueue ELSE {"queued"}
    <3>1. /\ chain[d][i] \in Deliveries /\ chat[chain[d][i][1]] = d
          /\ pc[chain[d][i]] \in IF i = 1 THEN InQueue ELSE {"queued"}
      BY <2>1 DEF ChainOk, ChatOf
    <3>2. chain[d][i] # h
      <4>1. CASE d = c
        <5>1. pc[chain[d][i]] = "queued"
          BY <4>1, <2>2, <3>1
        <5>. QED
          BY <5>1 DEF Holding, Turn
      <4>2. CASE d # c
        BY <4>2, <3>1 DEF c, ChatOf
      <4>. QED
        BY <4>1, <4>2
    <3>3. pc'[chain[d][i]] = pc[chain[d][i]] \/ (i = 1 /\ pc'[chain[d][i]] = "slot")
      BY <3>1, <3>2, <1>5, <1>6
    <3>. QED
      BY <3>1, <3>3, <1>7 DEF ChatOf, InQueue, Holding
  <2>3. CASE d # c
    BY <2>1, <2>2, <2>3, <1>8 DEF ChainOk, ChatOf
  <2>4. CASE d = c
    <3>1. ASSUME NEW i \in 1..Len(chain'[c])
          PROVE  /\ chat'[chain'[c][i][1]] = c
                 /\ pc'[chain'[c][i]] \in IF i = 1 THEN InQueue ELSE {"queued"}
      <4>1. i + 1 \in 1..Len(chain[c]) /\ i + 1 # 1 /\ chain'[c][i] = chain[c][i + 1]
        BY <1>8
      <4>2. chat'[chain[c][i + 1][1]] = c /\ pc'[chain[c][i + 1]] = "queued"
        BY <2>2, <2>4, <4>1
      <4>. QED
        BY <4>1, <4>2 DEF InQueue
    <3>2. ASSUME NEW i \in 1..Len(chain'[c]), NEW j \in 1..Len(chain'[c]), chain'[c][i] = chain'[c][j]
          PROVE  i = j
      <4>1. i + 1 = j + 1
        BY <2>1, <2>4, <3>2, <1>8 DEF ChainOk
      <4>. QED
        BY <4>1
    <3>. QED
      BY <2>4, <3>1, <3>2, <1>8 DEF ChainOk, ChatOf
  <2>. QED
    BY <2>3, <2>4
<1>10. ASSUME NEW g \in Deliveries PROVE InChain(g)'
  <2>. SUFFICES ASSUME pc'[g] \in InQueue
                PROVE  /\ ChatOf(g)' \in Chats
                       /\ \E i \in 1..Len(chain'[ChatOf(g)']) : chain'[ChatOf(g)'][i] = g
    BY DEF InChain
  <2>1. g # h /\ pc[g] \in InQueue
    BY <1>4, <1>5, <1>6 DEF InQueue
  <2>2. PICK i \in 1..Len(chain[ChatOf(g)]) : chain[ChatOf(g)][i] = g
    BY <2>1 DEF IInv, QueueInv, InChain
  <2>3. ChatOf(g) \in Chats /\ ChatOf(g)' = ChatOf(g)
    BY <2>1, <1>7 DEF IInv, QueueInv, InChain
  <2>4. CASE ChatOf(g) # c
    BY <2>2, <2>3, <2>4, <1>8
  <2>5. CASE ChatOf(g) = c
    <3>1. i # 1
      BY <2>1, <2>2, <2>5, <1>1 DEF c
    <3>2. i - 1 \in 1..Len(chain'[c]) /\ i = (i - 1) + 1
      BY <3>1, <2>2, <2>5, <1>8
    <3>3. chain'[c][i - 1] = chain[c][(i - 1) + 1]
      BY <3>2, <1>8
    <3>4. chain'[c][i - 1] = g
      BY <3>2, <3>3, <2>2, <2>5
    <3>. QED
      BY <2>3, <2>5, <3>2, <3>4
  <2>. QED
    BY <2>4, <2>5
<1>11. CASE waitQueue = <<>>
  <2>1. active' = active - 1 /\ waitQueue' = waitQueue /\ W = {}
    BY <1>11, <1>5 DEF EndTask
  <2>2. WaitInv'
    <3>1. \A g \in Deliveries : pc'[g] = "waiting" <=> pc[g] = "waiting"
      BY <1>6, <1>4, <2>1 DEF InQueue, Holding, Turn
    <3>. QED
      BY <1>2, <2>1, <3>1 DEF WaitInv, n
  <2>3. Of(Holding)' = Of(Holding) \ {h} /\ h \in Of(Holding)
    BY <1>6, <1>4, <2>1 DEF Of, InQueue, Holding
  <2>4. SlotInv'
    <3>1. /\ IsFiniteSet(Of(Holding) \ {h})
          /\ Cardinality(Of(Holding) \ {h}) = Cardinality(Of(Holding)) - 1
      BY <1>3, <2>3, FS_RemoveElement
    <3>. QED
      BY <1>3, <2>1, <2>3, <3>1, InboxAssumption DEF SlotInv
  <2>. QED
    BY <1>5, <1>6, <1>7, <1>8, <1>9, <1>10, <2>2, <2>4 DEF QueueInv
<1>12. CASE waitQueue # <<>>
  <2>1. active' = active /\ waitQueue' = Tail(waitQueue) /\ W = {waitQueue[1]}
    BY <1>12, <1>5 DEF EndTask
  <2>2. PICK w \in Deliveries : w = waitQueue[1] /\ pc[w] = "waiting" /\ w # h /\ W = {w}
    BY <2>1, <1>5 DEF Holding, Turn
  <2>3. /\ n \in Nat \ {0} /\ waitQueue' \in Seq(Deliveries) /\ Len(waitQueue') = n - 1
        /\ \A i \in 1..n - 1 : waitQueue'[i] = waitQueue[i + 1]
    BY <1>2, <1>12, <2>1 DEF n
  <2>4. WaitInv'
    <3>1. ASSUME NEW g \in Deliveries
          PROVE  pc'[g] = "waiting" <=> \E i \in 1..n - 1 : waitQueue'[i] = g
      <4>1. pc'[g] = "waiting" <=> pc[g] = "waiting" /\ g # w
        BY <1>4, <1>6, <2>2 DEF InQueue, Holding, Turn
      <4>2. ASSUME pc[g] = "waiting", g # w PROVE \E i \in 1..n - 1 : waitQueue'[i] = g
        <5>1. PICK i \in 1..n : waitQueue[i] = g
          BY <4>2, <1>2
        <5>2. i - 1 \in 1..n - 1 /\ (i - 1) + 1 = i
          BY <5>1, <4>2, <2>2, <2>3
        <5>3. waitQueue'[i - 1] = waitQueue[(i - 1) + 1]
          BY <5>2, <2>3
        <5>. QED
          BY <5>1, <5>2, <5>3
      <4>3. ASSUME NEW i \in 1..n - 1, waitQueue'[i] = g PROVE pc[g] = "waiting" /\ g # w
        <5>1. i + 1 \in 1..n /\ i + 1 # 1 /\ waitQueue[i + 1] = g /\ 1 \in 1..n
          BY <4>3, <2>3
        <5>. QED
          BY <5>1, <1>2, <2>2
      <4>. QED
        BY <4>1, <4>2, <4>3
    <3>2. ASSUME NEW i \in 1..n - 1, NEW j \in 1..n - 1, waitQueue'[i] = waitQueue'[j]
          PROVE  i = j
      <4>1. i + 1 \in 1..n /\ j + 1 \in 1..n /\ waitQueue[i + 1] = waitQueue[j + 1]
        BY <3>2, <2>3
      <4>2. i + 1 = j + 1
        BY <4>1, <1>2
      <4>. QED
        BY <4>2
    <3>. QED
      BY <2>3, <3>1, <3>2 DEF WaitInv
  <2>5. /\ Of(Holding)' = (Of(Holding) \ {h}) \cup {w} /\ h \in Of(Holding)
        /\ w \notin Of(Holding) \ {h}
    BY <1>6, <1>4, <2>2 DEF Of, InQueue, Holding, Turn
  <2>6. SlotInv'
    <3>1. /\ IsFiniteSet(Of(Holding) \ {h})
          /\ Cardinality(Of(Holding) \ {h}) = Cardinality(Of(Holding)) - 1
      BY <1>3, <2>5, FS_RemoveElement
    <3>2. /\ IsFiniteSet((Of(Holding) \ {h}) \cup {w})
          /\ Cardinality((Of(Holding) \ {h}) \cup {w}) = Cardinality(Of(Holding) \ {h}) + 1
      BY <3>1, <2>5, FS_AddElement
    <3>. QED
      BY <1>3, <2>1, <2>5, <3>1, <3>2 DEF SlotInv
  <2>. QED
    BY <1>5, <1>6, <1>7, <1>8, <1>9, <1>10, <2>4, <2>6 DEF QueueInv
<1>. QED
  BY <1>11, <1>12

\* A turn that ends because the offset has moved meanwhile keeps the invariant.
LEMMA SkipAfterWaitKeeps ==
  ASSUME IInv, NEW h \in Deliveries, SkipAfterWait(h)
  PROVE  IInv'
<1>1. /\ pc[h] \in Holding /\ pc[h] # "none" /\ Processed(h) /\ EndTask(h, "skipped") /\ "skipped" \in Ended
      /\ UNCHANGED <<worldVars, buffers, flushes, seen, crashes>>
      /\ UNCHANGED <<worldVars, offset, disk, answers, crashes>>
  BY DEF SkipAfterWait, Holding, Ended
<1>2. /\ EventInv' /\ BufferInv' /\ QueueInv' /\ pc'[h] = "skipped"
      /\ \A g \in Deliveries : g # h => pc'[g] = pc[g] \/ (pc[g] = "waiting" /\ pc'[g] = "slot")
  BY <1>1, EndTaskKeeps
<1>3. OffsetInv'
  <2>1. \A g \in Deliveries : Sound(g)
    BY <1>1, <1>2 DEF Sound, Turn
  <2>. QED
    BY <1>1, <1>2, <2>1, StillFrame
<1>. QED
  BY <1>2, <1>3 DEF IInv

\* A turn that failed ends, and so does one that was tried again; neither moves the offset.
LEMMA FailOrRetryKeeps ==
  ASSUME IInv, NEW h \in Deliveries, Fail(h) \/ Retry(h)
  PROVE  IInv'
<1>1. /\ pc[h] \in Holding /\ EndTask(h, "ended") /\ "ended" \in Ended
      /\ UNCHANGED <<worldVars, buffers, flushes, seen, crashes>>
      /\ UNCHANGED <<worldVars, offset, disk, crashes>>
      /\ answers' = answers \/ Counted
  BY IdIsMsg DEF Fail, Retry, Holding, Turn, Ended, Counted
<1>2. /\ EventInv' /\ BufferInv' /\ QueueInv' /\ pc'[h] = "ended"
      /\ \A g \in Deliveries : g # h => pc'[g] = pc[g] \/ (pc[g] = "waiting" /\ pc'[g] = "slot")
  BY <1>1, EndTaskKeeps
<1>3. OffsetInv'
  <2>1. \A g \in Deliveries : Sound(g)
    BY <1>1, <1>2 DEF Sound, Turn
  <2>. QED
    BY <1>1, <1>2, <2>1, StillFrame
<1>. QED
  BY <1>2, <1>3 DEF IInv

\* The only step that moves an offset: the message was not processed, and no other is in its turn.
LEMMA WriteOffsetKeeps ==
  ASSUME IInv, NEW h \in Deliveries, WriteOffset(h)
  PROVE  IInv'
<1>1. /\ pc[h] = "sent" /\ pc[h] \in Turn /\ pc[h] \in Holding /\ EndTask(h, "ended") /\ "ended" \in Ended
      /\ UNCHANGED <<worldVars, buffers, flushes, seen, crashes>> /\ disk' = disk /\ answers' = answers
  BY DEF WriteOffset, Holding, Turn, Ended
<1>2. /\ EventInv' /\ BufferInv' /\ QueueInv' /\ pc'[h] = "ended"
      /\ \A g \in Deliveries : g # h => pc'[g] = pc[g] \/ (pc[g] = "waiting" /\ pc'[g] = "slot")
  BY <1>1, EndTaskKeeps
<1>3. PICK c, m : c = ChatOf(h) /\ m = Id(h)
  OBVIOUS
<1>4. /\ c \in Chats /\ m \in Msgs /\ m \in Nat \ {0} /\ m <= posted /\ chat[m] = c /\ m <= NumMsgs
  <2>1. pc[h] # "none" /\ EventInv
    BY <1>1 DEF IInv
  <2>2. c \in Chats /\ c = chat[m]
    BY <1>3, <2>1, ChatOfIsChat
  <2>3. m \in Msgs /\ m \in Nat \ {0} /\ m <= posted
    BY <1>3, <2>1, IdIsMsg DEF EventInv
  <2>. QED
    BY <2>2, <2>3, InboxAssumption DEF Msgs
<1>5. /\ offset \in [Chats -> 0..NumMsgs] /\ disk \in [Chats -> 0..NumMsgs]
      /\ \A d \in Chats : disk[d] <= offset[d]
      /\ answers \in [Msgs -> Nat] /\ posted \in Nat /\ crashes \in Nat
      /\ Witnessed(offset) /\ Witnessed(disk)
  BY InboxAssumption DEF IInv, OffsetInv, EventInv
<1>6. posted' = posted /\ chat' = chat /\ crashes' = crashes
  BY <1>1 DEF worldVars
<1>7. m > offset[c]
  BY <1>1, <1>3 DEF IInv, OffsetInv
<1>8. /\ offset' \in [Chats -> 0..NumMsgs] /\ offset'[c] = m
      /\ \A d \in Chats : d # c => offset'[d] = offset[d]
  <2>1. offset' = [offset EXCEPT ![c] = IF m > offset[c] THEN m ELSE offset[c]]
    BY <1>3 DEF WriteOffset
  <2>2. (IF m > offset[c] THEN m ELSE offset[c]) = m
    BY <1>7, Zenon
  <2>3. offset' = [offset EXCEPT ![c] = m]
    BY <2>1, <2>2, Zenon
  <2>4. m \in 0..NumMsgs
    BY <1>4, InboxAssumption
  <2>. QED
    BY <2>3, <2>4, <1>4, <1>5
<1>9. answers[m] > 0
  BY <1>1, <1>3 DEF IInv, OffsetInv
<1>11. \A d \in Chats : disk[d] <= offset'[d] /\ offset[d] <= offset'[d]
  <2>. SUFFICES ASSUME NEW d \in Chats PROVE disk[d] <= offset'[d] /\ offset[d] <= offset'[d]
    OBVIOUS
  <2>1. disk[d] \in Nat /\ offset[d] \in Nat /\ disk[d] <= offset[d]
    BY <1>5, InboxAssumption
  <2>. QED
    BY <2>1, <1>4, <1>7, <1>8
<1>13. Witnessed(disk)'
  BY <1>1, <1>5, <1>6 DEF Witnessed
<1>14. Witnessed(offset)'
  <2>. SUFFICES ASSUME NEW d \in Chats, offset'[d] > 0
                PROVE  offset'[d] <= posted /\ chat[offset'[d]] = d /\ answers[offset'[d]] > 0
    BY <1>1, <1>6 DEF Witnessed
  <2>1. CASE d = c
    BY <2>1, <1>4, <1>5, <1>8, <1>9
  <2>2. CASE d # c
    BY <2>2, <1>5, <1>8 DEF Witnessed
  <2>. QED
    BY <2>1, <2>2
<1>15. \A g \in Deliveries : pc'[g] = "sent" => answers[Id(g)] > 0
  BY <1>2 DEF IInv, OffsetInv
<1>16. ASSUME NEW g \in Deliveries, pc'[g] \in Turn PROVE Id(g) > offset'[ChatOf(g)]
  <2>1. g # h /\ pc[g] \in Turn
    BY <1>2, <1>16 DEF Turn
  <2>2. ChatOf(g) \in Chats /\ Id(g) > offset[ChatOf(g)]
    BY <2>1, ChatOfIsChat DEF IInv, OffsetInv, Turn
  <2>3. ChatOf(g) # c
    BY <2>1, <1>1, <1>3, OneTurn DEF IInv, InQueue, Holding, Turn
  <2>. QED
    BY <2>2, <2>3, <1>8
<1>17. SkippedForCause'
  <2>1. \A g \in Deliveries : pc'[g] = "skipped" => pc[g] = "skipped"
    BY <1>2
  <2>. QED
    BY <2>1, <1>1, <1>6 DEF IInv, OffsetInv, SkippedForCause, Of, Id, ChatOf
<1>18. OffsetInv'
  BY <1>1, <1>5, <1>6, <1>8, <1>11, <1>13, <1>14, <1>15, <1>16, <1>17 DEF OffsetInv, Id, ChatOf
<1>. QED
  BY <1>2, <1>18 DEF IInv

\* A crash empties the queues, and the offsets fall back to those on disk.
LEMMA CrashKeeps ==
  ASSUME IInv, Crash
  PROVE  IInv'
<1>1. /\ pc' = [h \in Deliveries |-> IF pc[h] = "none" THEN "none" ELSE "ended"]
      /\ buffers' = [c \in Chats |-> <<>>] /\ flushes' = {} /\ seen' = {}
      /\ chain' = [c \in Chats |-> <<>>] /\ active' = 0 /\ waitQueue' = <<>>
      /\ offset' = disk /\ disk' = disk /\ answers' = answers
      /\ posted' = posted /\ chat' = chat /\ command' = command
      /\ crashes < MaxCrashes /\ crashes' = crashes + 1
  BY DEF Crash, worldVars
<1>2. \A h \in Deliveries : pc'[h] \in {"none", "ended"} /\ (pc'[h] # "none" => pc[h] # "none")
  BY <1>1
<1>3. pc' \in [Deliveries -> States]
  BY <1>1 DEF States, Ended
<1>4. crashes \in Nat /\ crashes' \in 0..MaxCrashes
  BY <1>1, InboxAssumption DEF IInv, EventInv
<1>5. EventInv'
  BY <1>1, <1>2, <1>3, <1>4 DEF IInv, EventInv, Id
<1>6. BufferInv'
  BY <1>1, InboxAssumption DEF BufferInv
<1>7. QueueInv'
  <2>1. chain' \in [Chats -> Seq(Deliveries)] /\ \A c \in Chats : ChainOk(c)'
    BY <1>1 DEF ChainOk
  <2>2. \A h \in Deliveries : InChain(h)'
    BY <1>2 DEF InChain, InQueue, Holding, Turn
  <2>3. WaitInv'
    BY <1>1, <1>2 DEF WaitInv
  <2>4. SlotInv'
    <3>1. Of(Holding)' = {}
      BY <1>2 DEF Of, Holding, Turn
    <3>. QED
      BY <1>1, <3>1, FS_EmptySet, InboxAssumption DEF SlotInv
  <2>. QED
    BY <2>1, <2>2, <2>3, <2>4 DEF QueueInv
<1>8. OffsetInv'
  <2>1. /\ disk \in [Chats -> 0..NumMsgs] /\ answers \in [Msgs -> Nat] /\ Witnessed(disk)
        /\ \A c \in Chats : disk[c] <= disk[c]
    BY InboxAssumption DEF IInv, OffsetInv
  <2>3. SkippedForCause'
    BY <1>2 DEF SkippedForCause, Of
  <2>4. Witnessed(offset)' /\ Witnessed(disk)'
    BY <1>1, <2>1 DEF Witnessed
  <2>. QED
    BY <1>1, <1>2, <2>1, <2>3, <2>4 DEF OffsetInv, Turn
<1>. QED
  BY <1>5, <1>6, <1>7, <1>8 DEF IInv
-----------------------------------------------------------------------------
\* The invariant holds at the start.
LEMMA InitKeeps == Init => IInv
<1>. SUFFICES ASSUME Init PROVE IInv
  OBVIOUS
<1>1. EventInv
  BY InboxAssumption DEF Init, EventInv, States, Msgs
<1>2. BufferInv
  BY InboxAssumption DEF Init, BufferInv
<1>3. QueueInv
  <2>1. chain \in [Chats -> Seq(Deliveries)] /\ \A c \in Chats : ChainOk(c)
    BY DEF Init, ChainOk
  <2>2. \A h \in Deliveries : InChain(h)
    BY DEF Init, InChain, InQueue, Holding, Turn
  <2>3. WaitInv
    BY DEF Init, WaitInv
  <2>4. Of(Holding) = {}
    BY DEF Init, Of, Holding, Turn
  <2>5. SlotInv
    BY <2>4, FS_EmptySet, InboxAssumption DEF Init, SlotInv
  <2>. QED
    BY <2>1, <2>2, <2>3, <2>5 DEF QueueInv
<1>4. OffsetInv
  <2>1. SkippedForCause
    BY DEF Init, SkippedForCause, Of
  <2>. QED
    BY <2>1, InboxAssumption DEF Init, OffsetInv, Witnessed, Turn
<1>. QED
  BY <1>1, <1>2, <1>3, <1>4 DEF IInv

\* Every step keeps the invariant.
LEMMA NextKeeps == IInv /\ [Next]_vars => IInv'
<1>. SUFFICES ASSUME IInv, [Next]_vars PROVE IInv'
  OBVIOUS
<1>1. CASE UNCHANGED vars
  <2>1. UNCHANGED <<posted, chat, command, pc, buffers, flushes, seen, chain, active, waitQueue,
                    offset, disk, answers, crashes>>
    BY <1>1 DEF vars, worldVars, queueVars
  <2>2. pc' \in [Deliveries -> States]
    BY <2>1 DEF IInv, EventInv
  <2>3. EventInv' /\ QueueInv' /\ OffsetInv'
    BY <2>1, <2>2, DebouncerFrame DEF worldVars, queueVars
  <2>4. BufferInv'
    BY <2>1, BufferFrame DEF IInv, ChatOf
  <2>. QED
    BY <2>3, <2>4 DEF IInv
<1>2. CASE \E c \in Chats, k \in BOOLEAN : Post(c, k)
  BY <1>2, PostKeeps
<1>3. ASSUME NEW h \in Deliveries, Enqueue(h) \/ Handler(h) PROVE IInv'
  BY <1>3, EnqueueKeeps, HandleMessageKeeps, AnalyzeKeeps, AcquireSlotKeeps, SkipAfterWaitKeeps,
     StartKeeps, ReplyKeeps, WriteOffsetKeeps, FailOrRetryKeeps, RateLimitedKeeps DEF Handler
<1>4. CASE Debouncer
  BY <1>4, FlushKeyKeeps, AdvanceKeeps DEF Debouncer
<1>5. CASE SaveOffsets
  BY <1>5, SaveOffsetsKeeps
<1>6. CASE Crash
  BY <1>6, CrashKeeps
<1>. QED
  BY <1>1, <1>2, <1>3, <1>4, <1>5, <1>6 DEF Next

\* The invariant holds in every state the process can reach, whatever is posted, fired again or lost in a crash.
THEOREM Inductive == Spec => []IInv
BY InitKeeps, NextKeeps, PTL DEF Spec

(***************************************************************************)
(* activeTasks counts exactly the turns that hold a slot and never exceeds *)
(* maxConcurrent, the turns of one chat never overlap, and buffers, chains *)
(* and the wait queue agree with the deliveries' states.                   *)
(***************************************************************************)
THEOREM QueuesAgree == Spec => []Consistent
<1>1. IInv => Consistent
  <2>. SUFFICES ASSUME IInv PROVE Consistent
    OBVIOUS
  <2>1. Of({"waiting"}) = {waitQueue[i] : i \in DOMAIN waitQueue}
    BY DEF IInv, QueueInv, WaitInv, Of
  <2>2. ASSUME NEW c \in Chats, NEW i \in DOMAIN chain[c]
        PROVE  pc[chain[c][i]] \in IF i = 1 THEN {"queued", "waiting"} \cup Holding ELSE {"queued"}
    BY DEF IInv, QueueInv, ChainOk, InQueue
  <2>3. \A c \in Chats : Len(buffers[c]) <= BufSize
    BY DEF IInv, BufferInv
  <2>4. active \in Nat /\ active = Cardinality(Of(Holding)) /\ active <= MaxSlots
    BY FS_CardinalityType DEF IInv, QueueInv, SlotInv
  <2>5. \A g, h \in Of(Turn) : ChatOf(g) = ChatOf(h) => g = h
    BY OneTurn DEF IInv, Of, InQueue, Holding, Turn
  <2>6. TypeOK
    BY <2>1, <2>2, <2>3, <2>4 DEF TypeOK, IInv, EventInv, OffsetInv, States, InQueue
  <2>. QED
    BY <2>4, <2>5, <2>6 DEF Consistent, SlotsExact
<1>. QED
  BY <1>1, Inductive, PTL

(***************************************************************************)
(* However often an event is fired again and whatever the dedup cache      *)
(* forgets, an answer only goes out for a message past the offset: the     *)
(* offset is read again when the turn comes, and it stays put during the   *)
(* turn, for a chat has one turn at a time and only that turn writes it.   *)
(***************************************************************************)
THEOREM NoAnswerBehindOffset == Spec => AnswersPastOffset
<1>1. IInv /\ [Next]_vars => [\A m \in Msgs : answers'[m] > answers[m] => m > offset[chat[m]]]_vars
  <2>. SUFFICES ASSUME IInv, Next, NEW m \in Msgs, answers'[m] > answers[m]
                PROVE  m > offset[chat[m]]
    OBVIOUS
  <2>1. answers \in [Msgs -> Nat] /\ answers' # answers
    BY DEF IInv, OffsetInv
  <2>2. PICK h \in Deliveries : Reply(h) \/ Retry(h)
    BY <2>1 DEF Next, Post, Enqueue, Handler, HandleMessage, Analyze, AcquireSlot, SkipAfterWait, Start,
              WriteOffset, Fail, RateLimited, Debouncer, FlushKey, Advance, SaveOffsets, Crash
  <2>3. pc[h] \in Turn /\ answers' = [answers EXCEPT ![Id(h)] = @ + 1]
    BY <2>1, <2>2 DEF Reply, Retry, Turn
  <2>4. m = Id(h)
    BY <2>1, <2>3
  <2>. QED
    BY <2>3, <2>4 DEF IInv, OffsetInv, ChatOf, Id
<1>. QED
  BY <1>1, Inductive, PTL DEF Spec, AnswersPastOffset

\* analyzeMessage and handleMessage skip a message as processed only when it or a later message of
\* its chat has been answered: a failed or retried turn moves no offset.
THEOREM NeverSkippedUnanswered == Spec => []SkippedForCause
<1>1. IInv => SkippedForCause
  BY DEF IInv, OffsetInv
<1>. QED
  BY <1>1, Inductive, PTL
=============================================================================
