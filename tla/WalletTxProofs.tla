--------------------------- MODULE WalletTxProofs ---------------------------
(***************************************************************************)
(* What WalletTx guarantees for any number of transfers and of crashes,    *)
(* and for all timeouts with ValidFor < ConfirmTimeout.                    *)
(***************************************************************************)
EXTENDS WalletTx, FiniteSetTheorems, TLAPS

\* The lock is exclusive: a running operation is the head of the chain.
LockInv == \A o \in Ops : stage[o] \in Running => IsHead(o)

\* What a caller can know at each stage of its call.
StageInv ==
  \A o \in Ops :
    /\ stage[o] \in {"new", "queued"} => result[o] = "none"
    /\ stage[o] \in Running => result[o] \in {"none", "timeout"}
    /\ stage[o] \in {"done", "lost"} => result[o] # "none"
    /\ stage[o] \in {"new", "queued", "prepare", "haveSeqno", "ready"} => fate[o] = "unsent"

\* The seqno of a call is older than its snapshot, and both are in the past.
SeqnoInv ==
  \A o \in Ops :
    /\ stage[o] \in {"haveSeqno", "ready", "confirm"} \/ fate[o] # "unsent"
         => seqno[o] <= Len(ledger)
    /\ stage[o] \in {"ready", "confirm"} => seqno[o] <= sinceLt[o]

\* A message still out was signed no later than the running call read its seqno.
OlderInv ==
  \A o, p \in Ops :
    stage[o] \in {"haveSeqno", "ready", "confirm"} /\ fate[p] = "live"
      => seqno[p] <= seqno[o]

\* While a call confirms, its committed transaction is the newest one.
NewestInv ==
  \A o \in Ops :
    stage[o] = "confirm" /\ fate[o] = "committed"
      => Len(ledger) > seqno[o] /\ ledger[Len(ledger)].ok

\* The message dies strictly before its confirmation window closes.
WindowInv ==
  \A o \in Ops : stage[o] = "confirm" /\ fate[o] = "live" => ttl[o] < left

\* What is decided stays decided.
FinalInv ==
  \A o \in Ops :
    /\ result[o] \in {"null", "error"} => fate[o] # "committed"
    /\ result[o] \in {"null", "error"} /\ fate[o] = "live" => seqno[o] < Len(ledger)
    /\ result[o] = "pending" => fate[o] # "live"

IInv ==
  /\ TypeOK
  /\ LockInv
  /\ StageInv
  /\ SeqnoInv
  /\ OlderInv
  /\ NewestInv
  /\ WindowInv
  /\ FinalInv

-----------------------------------------------------------------------------
\* Chaining a call behind the others keeps the invariant.
LEMMA CallStep ==
  ASSUME IInv, NEW o \in Ops, Call(o)
  PROVE  IInv'
<1> USE TimeoutAssumption
<1>1. TypeOK'
  BY DEF TypeOK, Stages, Results, Fates, Running, IInv, Call, callVars, chainVars, timeVars
<1>2. LockInv'
  <2> SUFFICES ASSUME NEW p \in Ops, stage'[p] \in Running
               PROVE  queue' # <<>> /\ Head(queue') = p
    BY DEF LockInv, IsHead
  <2>1. stage[p] \in Running
    BY DEF Call, Running, IInv, TypeOK
  <2>2. queue # <<>> /\ Head(queue) = p
    BY <2>1 DEF IInv, LockInv, IsHead
  <2>3. queue \in Seq(Ops) /\ queue' = Append(queue, o)
    BY DEF IInv, TypeOK, Call
  <2>. QED
    BY <2>2, <2>3
<1>3. StageInv'
  BY DEF TypeOK, StageInv, LockInv, IsHead, Running, Stages, IInv, Call, callVars, chainVars, timeVars
<1>4. SeqnoInv'
  BY DEF TypeOK, StageInv, SeqnoInv, IInv, Call, callVars, chainVars, timeVars
<1>5. OlderInv'
  BY DEF TypeOK, LockInv, IsHead, Running, StageInv, SeqnoInv, OlderInv, IInv, Call, callVars, chainVars, timeVars
<1>6. NewestInv'
  BY DEF TypeOK, LockInv, IsHead, Running, StageInv, SeqnoInv, OlderInv, NewestInv, IInv, Call, callVars, chainVars, timeVars
<1>7. WindowInv'
  BY DEF TypeOK, LockInv, IsHead, Running, StageInv, WindowInv, IInv, Call, callVars, chainVars, timeVars
<1>8. FinalInv'
  BY DEF TypeOK, StageInv, SeqnoInv, OlderInv, NewestInv, FinalInv, Running, IInv, Call, callVars, chainVars, timeVars
<1>. QED
  BY <1>1, <1>2, <1>3, <1>4, <1>5, <1>6, <1>7, <1>8 DEF IInv

\* Taking the lock keeps the invariant.
LEMMA AcquireStep ==
  ASSUME IInv, NEW o \in Ops, Acquire(o)
  PROVE  IInv'
<1> USE TimeoutAssumption
<1>1. TypeOK'
  BY DEF TypeOK, Stages, Results, Fates, Running, IInv, Acquire, callVars, chainVars, timeVars
<1>2. LockInv'
  BY DEF TypeOK, LockInv, IsHead, Running, Stages, IInv, Acquire, callVars, chainVars, timeVars
<1>3. StageInv'
  BY DEF TypeOK, StageInv, LockInv, IsHead, Running, Stages, IInv, Acquire, callVars, chainVars, timeVars
<1>4. SeqnoInv'
  BY DEF TypeOK, StageInv, SeqnoInv, IInv, Acquire, callVars, chainVars, timeVars
<1>5. OlderInv'
  BY DEF TypeOK, LockInv, IsHead, Running, StageInv, SeqnoInv, OlderInv, IInv, Acquire, callVars, chainVars, timeVars
<1>6. NewestInv'
  BY DEF TypeOK, LockInv, IsHead, Running, StageInv, SeqnoInv, OlderInv, NewestInv, IInv, Acquire, callVars, chainVars, timeVars
<1>7. WindowInv'
  BY DEF TypeOK, LockInv, IsHead, Running, StageInv, WindowInv, IInv, Acquire, callVars, chainVars, timeVars
<1>8. FinalInv'
  BY DEF TypeOK, StageInv, SeqnoInv, OlderInv, NewestInv, FinalInv, Running, IInv, Acquire, callVars, chainVars, timeVars
<1>. QED
  BY <1>1, <1>2, <1>3, <1>4, <1>5, <1>6, <1>7, <1>8 DEF IInv

\* Settling an operation keeps the invariant, if its answer is warranted.
LEMMA CompleteStep ==
  ASSUME IInv, NEW o \in Ops, NEW r \in Results,
         IsHead(o), stage[o] \in Running,
         r \in {"null", "error"} => fate[o] # "committed",
         r \in {"null", "error"} /\ fate[o] = "live" => seqno[o] < Len(ledger),
         r = "pending" => fate[o] # "live",
         r # "none",
         Complete(o, r)
  PROVE  IInv'
<1> USE TimeoutAssumption
<1>1. TypeOK'
  <2>1. Tail(queue) \in Seq(Ops)
    BY DEF IInv, TypeOK, IsHead
  <2>. QED
    BY <2>1 DEF TypeOK, Stages, Results, IInv, Complete, chainVars, timeVars
<1>2. LockInv'
  BY DEF TypeOK, LockInv, IsHead, Running, Stages, IInv, Complete, callVars, chainVars, timeVars
<1>3. StageInv'
  BY DEF TypeOK, StageInv, LockInv, IsHead, Running, Stages, IInv, Complete, callVars, chainVars, timeVars
<1>4. SeqnoInv'
  BY DEF TypeOK, StageInv, SeqnoInv, IInv, Complete, callVars, chainVars, timeVars
<1>5. OlderInv'
  BY DEF TypeOK, LockInv, IsHead, Running, StageInv, SeqnoInv, OlderInv, IInv, Complete, callVars, chainVars, timeVars
<1>6. NewestInv'
  BY DEF TypeOK, LockInv, IsHead, Running, StageInv, SeqnoInv, OlderInv, NewestInv, IInv, Complete, callVars, chainVars, timeVars
<1>7. WindowInv'
  BY DEF TypeOK, LockInv, IsHead, Running, StageInv, WindowInv, IInv, Complete, callVars, chainVars, timeVars
<1>8. FinalInv'
  <2> SUFFICES ASSUME NEW p \in Ops
               PROVE  /\ result'[p] \in {"null", "error"} => fate[p] # "committed"
                      /\ result'[p] \in {"null", "error"} /\ fate[p] = "live"
                           => seqno[p] < Len(ledger)
                      /\ result'[p] = "pending" => fate[p] # "live"
    BY DEF FinalInv, Complete, chainVars
  <2>1. CASE result'[p] = result[p]
    BY <2>1 DEF FinalInv, IInv
  <2>2. CASE p = o /\ result'[p] = r
    BY <2>2
  <2>. QED
    BY <2>1, <2>2 DEF Complete, IInv, TypeOK
<1>. QED
  BY <1>1, <1>2, <1>3, <1>4, <1>5, <1>6, <1>7, <1>8 DEF IInv

\* The timer's answer keeps the invariant.
LEMMA LockTimerStep ==
  ASSUME IInv, NEW o \in Ops, LockTimer(o)
  PROVE  IInv'
<1> USE TimeoutAssumption
<1>1. TypeOK'
  BY DEF TypeOK, Stages, Results, Fates, Running, IInv, LockTimer, callVars, chainVars, timeVars
<1>2. LockInv'
  BY DEF TypeOK, LockInv, IsHead, Running, Stages, IInv, LockTimer, callVars, chainVars, timeVars
<1>3. StageInv'
  BY DEF TypeOK, StageInv, LockInv, IsHead, Running, Stages, IInv, LockTimer, callVars, chainVars, timeVars
<1>4. SeqnoInv'
  BY DEF TypeOK, StageInv, SeqnoInv, IInv, LockTimer, callVars, chainVars, timeVars
<1>5. OlderInv'
  BY DEF TypeOK, LockInv, IsHead, Running, StageInv, SeqnoInv, OlderInv, IInv, LockTimer, callVars, chainVars, timeVars
<1>6. NewestInv'
  BY DEF TypeOK, LockInv, IsHead, Running, StageInv, SeqnoInv, OlderInv, NewestInv, IInv, LockTimer, callVars, chainVars, timeVars
<1>7. WindowInv'
  BY DEF TypeOK, LockInv, IsHead, Running, StageInv, WindowInv, IInv, LockTimer, callVars, chainVars, timeVars
<1>8. FinalInv'
  BY DEF TypeOK, StageInv, SeqnoInv, OlderInv, NewestInv, FinalInv, Running, IInv, LockTimer, callVars, chainVars, timeVars
<1>. QED
  BY <1>1, <1>2, <1>3, <1>4, <1>5, <1>6, <1>7, <1>8 DEF IInv

\* Reading the seqno keeps the invariant.
LEMMA ReadSeqnoStep ==
  ASSUME IInv, NEW o \in Ops, ReadSeqno(o)
  PROVE  IInv'
<1> USE TimeoutAssumption
<1>1. TypeOK'
  BY DEF TypeOK, Stages, Results, Fates, Running, IInv, ReadSeqno, callVars, chainVars, timeVars
<1>2. LockInv'
  BY DEF TypeOK, LockInv, IsHead, Running, Stages, IInv, ReadSeqno, callVars, chainVars, timeVars
<1>3. StageInv'
  BY DEF TypeOK, StageInv, LockInv, IsHead, Running, Stages, IInv, ReadSeqno, callVars, chainVars, timeVars
<1>4. SeqnoInv'
  BY DEF TypeOK, StageInv, SeqnoInv, IInv, ReadSeqno, callVars, chainVars, timeVars
<1>5. OlderInv'
  BY DEF TypeOK, LockInv, IsHead, Running, StageInv, SeqnoInv, OlderInv, IInv, ReadSeqno, callVars, chainVars, timeVars
<1>6. NewestInv'
  BY DEF TypeOK, LockInv, IsHead, Running, StageInv, SeqnoInv, OlderInv, NewestInv, IInv, ReadSeqno, callVars, chainVars, timeVars
<1>7. WindowInv'
  BY DEF TypeOK, LockInv, IsHead, Running, StageInv, WindowInv, IInv, ReadSeqno, callVars, chainVars, timeVars
<1>8. FinalInv'
  BY DEF TypeOK, StageInv, SeqnoInv, OlderInv, NewestInv, FinalInv, Running, IInv, ReadSeqno, callVars, chainVars, timeVars
<1>. QED
  BY <1>1, <1>2, <1>3, <1>4, <1>5, <1>6, <1>7, <1>8 DEF IInv

\* Taking the snapshot keeps the invariant.
LEMMA WalletTxLtStep ==
  ASSUME IInv, NEW o \in Ops, WalletTxLt(o)
  PROVE  IInv'
<1> USE TimeoutAssumption
<1>1. TypeOK'
  BY DEF TypeOK, Stages, Results, Fates, Running, IInv, WalletTxLt, callVars, chainVars, timeVars
<1>2. LockInv'
  BY DEF TypeOK, LockInv, IsHead, Running, Stages, IInv, WalletTxLt, callVars, chainVars, timeVars
<1>3. StageInv'
  BY DEF TypeOK, StageInv, LockInv, IsHead, Running, Stages, IInv, WalletTxLt, callVars, chainVars, timeVars
<1>4. SeqnoInv'
  BY DEF TypeOK, StageInv, SeqnoInv, IInv, WalletTxLt, callVars, chainVars, timeVars
<1>5. OlderInv'
  BY DEF TypeOK, LockInv, IsHead, Running, StageInv, SeqnoInv, OlderInv, IInv, WalletTxLt, callVars, chainVars, timeVars
<1>6. NewestInv'
  BY DEF TypeOK, LockInv, IsHead, Running, StageInv, SeqnoInv, OlderInv, NewestInv, IInv, WalletTxLt, callVars, chainVars, timeVars
<1>7. WindowInv'
  BY DEF TypeOK, LockInv, IsHead, Running, StageInv, WindowInv, IInv, WalletTxLt, callVars, chainVars, timeVars
<1>8. FinalInv'
  BY DEF TypeOK, StageInv, SeqnoInv, OlderInv, NewestInv, FinalInv, Running, IInv, WalletTxLt, callVars, chainVars, timeVars
<1>. QED
  BY <1>1, <1>2, <1>3, <1>4, <1>5, <1>6, <1>7, <1>8 DEF IInv

\* Broadcasting keeps the invariant.
LEMMA BroadcastStep ==
  ASSUME IInv, NEW o \in Ops, Broadcast(o)
  PROVE  IInv'
<1> USE TimeoutAssumption
<1>1. TypeOK'
  BY DEF TypeOK, Stages, Results, Fates, Running, IInv, Broadcast, callVars, chainVars, timeVars
<1>2. LockInv'
  BY DEF TypeOK, LockInv, IsHead, Running, Stages, IInv, Broadcast, callVars, chainVars, timeVars
<1>3. StageInv'
  BY DEF TypeOK, StageInv, LockInv, IsHead, Running, Stages, IInv, Broadcast, callVars, chainVars, timeVars
<1>4. SeqnoInv'
  BY DEF TypeOK, StageInv, SeqnoInv, IInv, Broadcast, callVars, chainVars, timeVars
<1>5. OlderInv'
  <2> SUFFICES ASSUME NEW q \in Ops, NEW p \in Ops,
                      stage'[q] \in {"haveSeqno", "ready", "confirm"}, fate'[p] = "live"
               PROVE  seqno'[p] <= seqno'[q]
    BY DEF OlderInv
  <2>1. q = o
    BY DEF Broadcast, IInv, TypeOK, LockInv, IsHead, Running
  <2>2. stage[o] = "ready" /\ seqno' = seqno /\ seqno[o] \in Nat
    BY DEF Broadcast, IInv, TypeOK
  <2>3. p # o => fate[p] = "live"
    BY DEF Broadcast, IInv, TypeOK
  <2>. QED
    BY <2>1, <2>2, <2>3 DEF IInv, OlderInv
<1>6. NewestInv'
  BY DEF TypeOK, LockInv, IsHead, Running, StageInv, SeqnoInv, OlderInv, NewestInv, IInv, Broadcast, callVars, chainVars, timeVars
<1>7. WindowInv'
  BY DEF TypeOK, LockInv, IsHead, Running, StageInv, WindowInv, IInv, Broadcast, callVars, chainVars, timeVars
<1>8. FinalInv'
  BY DEF TypeOK, StageInv, SeqnoInv, OlderInv, NewestInv, FinalInv, Running, IInv, Broadcast, callVars, chainVars, timeVars
<1>. QED
  BY <1>1, <1>2, <1>3, <1>4, <1>5, <1>6, <1>7, <1>8 DEF IInv

\* A transaction that lands keeps the invariant.
LEMMA LandStep ==
  ASSUME IInv, NEW o \in Ops, Land(o)
  PROVE  IInv'
<1> USE TimeoutAssumption
<1>1. TypeOK'
  BY DEF TypeOK, Stages, Results, Fates, Running, IInv, Land, CanLand, callVars, chainVars, timeVars
<1>2. LockInv'
  BY DEF TypeOK, LockInv, IsHead, Running, Stages, IInv, Land, CanLand, callVars, chainVars, timeVars
<1>3. StageInv'
  BY DEF TypeOK, StageInv, LockInv, IsHead, Running, Stages, IInv, Land, CanLand, callVars, chainVars, timeVars
<1>4. SeqnoInv'
  BY DEF TypeOK, StageInv, SeqnoInv, IInv, Land, CanLand, callVars, chainVars, timeVars
<1>5. OlderInv'
  BY DEF TypeOK, LockInv, IsHead, Running, StageInv, SeqnoInv, OlderInv, IInv, Land, CanLand, callVars, chainVars, timeVars
<1>6. NewestInv'
  BY DEF TypeOK, LockInv, IsHead, Running, StageInv, SeqnoInv, OlderInv, NewestInv, IInv, Land, CanLand, callVars, chainVars, timeVars
<1>7. WindowInv'
  BY DEF TypeOK, LockInv, IsHead, Running, StageInv, WindowInv, IInv, Land, CanLand, callVars, chainVars, timeVars
<1>8. FinalInv'
  BY DEF TypeOK, StageInv, SeqnoInv, OlderInv, NewestInv, FinalInv, Running, IInv, Land, CanLand, callVars, chainVars, timeVars
<1>. QED
  BY <1>1, <1>2, <1>3, <1>4, <1>5, <1>6, <1>7, <1>8 DEF IInv

\* The passing of time keeps the invariant.
LEMMA TickStep ==
  ASSUME IInv, Tick
  PROVE  IInv'
<1> USE TimeoutAssumption
<1>1. TypeOK'
  BY DEF TypeOK, Stages, Results, Fates, Running, IInv, Tick, TimerDue, WindowClosed, callVars, chainVars, timeVars
<1>2. LockInv'
  BY DEF TypeOK, LockInv, IsHead, Running, Stages, IInv, Tick, TimerDue, WindowClosed, callVars, chainVars, timeVars
<1>3. StageInv'
  BY DEF TypeOK, StageInv, LockInv, IsHead, Running, Stages, IInv, Tick, TimerDue, WindowClosed, callVars, chainVars, timeVars
<1>4. SeqnoInv'
  BY DEF TypeOK, StageInv, SeqnoInv, IInv, Tick, TimerDue, WindowClosed, callVars, chainVars, timeVars
<1>5. OlderInv'
  BY DEF TypeOK, LockInv, IsHead, Running, StageInv, SeqnoInv, OlderInv, IInv, Tick, TimerDue, WindowClosed, callVars, chainVars, timeVars
<1>6. NewestInv'
  BY DEF TypeOK, LockInv, IsHead, Running, StageInv, SeqnoInv, OlderInv, NewestInv, IInv, Tick, TimerDue, WindowClosed, callVars, chainVars, timeVars
<1>7. WindowInv'
  BY DEF TypeOK, LockInv, IsHead, Running, StageInv, WindowInv, IInv, Tick, TimerDue, WindowClosed, callVars, chainVars, timeVars
<1>8. FinalInv'
  BY DEF TypeOK, StageInv, SeqnoInv, OlderInv, NewestInv, FinalInv, Running, IInv, Tick, TimerDue, WindowClosed, callVars, chainVars, timeVars
<1>. QED
  BY <1>1, <1>2, <1>3, <1>4, <1>5, <1>6, <1>7, <1>8 DEF IInv

\* A process death keeps the invariant.
LEMMA CrashStep ==
  ASSUME IInv, Crash
  PROVE  IInv'
<1> USE TimeoutAssumption
<1>1. TypeOK'
  BY DEF TypeOK, Stages, Results, Fates, Running, IInv, Crash, callVars, chainVars, timeVars
<1>2. LockInv'
  BY DEF TypeOK, LockInv, IsHead, Running, Stages, IInv, Crash, callVars, chainVars, timeVars
<1>3. StageInv'
  BY DEF TypeOK, StageInv, LockInv, IsHead, Running, Stages, IInv, Crash, callVars, chainVars, timeVars
<1>4. SeqnoInv'
  BY DEF TypeOK, StageInv, SeqnoInv, IInv, Crash, callVars, chainVars, timeVars
<1>5. OlderInv'
  BY DEF TypeOK, LockInv, IsHead, Running, StageInv, SeqnoInv, OlderInv, IInv, Crash, callVars, chainVars, timeVars
<1>6. NewestInv'
  BY DEF TypeOK, LockInv, IsHead, Running, StageInv, SeqnoInv, OlderInv, NewestInv, IInv, Crash, callVars, chainVars, timeVars
<1>7. WindowInv'
  BY DEF TypeOK, LockInv, IsHead, Running, StageInv, WindowInv, IInv, Crash, callVars, chainVars, timeVars
<1>8. FinalInv'
  BY DEF TypeOK, StageInv, SeqnoInv, OlderInv, NewestInv, FinalInv, Running, IInv, Crash, callVars, chainVars, timeVars
<1>. QED
  BY <1>1, <1>2, <1>3, <1>4, <1>5, <1>6, <1>7, <1>8 DEF IInv

\* The four steps that settle an operation give a warranted answer.
LEMMA SettleStep ==
  ASSUME IInv, NEW o \in Ops,
         Refuse(o) \/ PrepareError(o) \/ ConfirmSeen(o) \/ ConfirmPending(o)
  PROVE  IInv'
<1> USE TimeoutAssumption
<1>1. CASE Refuse(o)
  BY <1>1, CompleteStep DEF Refuse, IInv, StageInv, Running, Results
<1>2. CASE PrepareError(o)
  BY <1>2, CompleteStep DEF PrepareError, IInv, StageInv, Running, Results
<1>3. CASE ConfirmSeen(o)
  <2> DEFINE r == IF ledger[Len(ledger)].ok THEN "sent" ELSE "null"
  <2>1. stage[o] = "confirm" /\ IsHead(o) /\ Complete(o, r) /\ r \in Results
    BY <1>3 DEF ConfirmSeen, Results
  <2>2. seqno[o] < Len(ledger)
    BY <1>3 DEF ConfirmSeen, Found, IInv, TypeOK, SeqnoInv
  <2>3. r = "null" => fate[o] # "committed"
    BY <2>1 DEF IInv, NewestInv
  <2>4. r \notin {"error", "pending", "none"}
    OBVIOUS
  <2> HIDE DEF r
  <2>. QED
    BY <2>1, <2>2, <2>3, <2>4, CompleteStep DEF Running
<1>4. CASE ConfirmPending(o)
  <2>1. fate[o] # "live"
    BY <1>4 DEF ConfirmPending, IInv, TypeOK, WindowInv
  <2>. QED
    BY <1>4, <2>1, CompleteStep DEF ConfirmPending, Running, Results
<1>. QED
  BY <1>1, <1>2, <1>3, <1>4

\* No call has been made and the wallet has no transaction.
LEMMA InitIInv == Init => IInv
  BY TimeoutAssumption
     DEF Init, IInv, TypeOK, LockInv, StageInv, SeqnoInv, OlderInv, NewestInv,
         WindowInv, FinalInv, Stages, Results, Fates, Running

\* A stuttering step keeps the invariant.
LEMMA StutterStep == ASSUME IInv, UNCHANGED vars PROVE IInv'
  BY DEF vars, callVars, chainVars, timeVars, IInv, TypeOK, LockInv, IsHead, StageInv,
         SeqnoInv, OlderInv, NewestInv, WindowInv, FinalInv

\* Every step of the specification keeps the inductive invariant.
LEMMA NextIInv == IInv /\ [Next]_vars => IInv'
<1> SUFFICES ASSUME IInv, [Next]_vars
             PROVE  IInv'
  OBVIOUS
<1>1. ASSUME NEW o \in Ops, Operation(o)
      PROVE  IInv'
  BY <1>1, AcquireStep, LockTimerStep, SettleStep, ReadSeqnoStep, WalletTxLtStep,
     BroadcastStep DEF Operation
<1>2. CASE Next
  BY <1>1, <1>2, CallStep, LandStep, TickStep, CrashStep DEF Next
<1>3. CASE UNCHANGED vars
  BY <1>3, StutterStep
<1>. QED
  BY <1>2, <1>3

\* IInv is an invariant of the specification.
THEOREM Inductive == Spec => []IInv
  BY InitIInv, NextIInv, PTL DEF Spec
-----------------------------------------------------------------------------
(***************************************************************************)
(* The variables of the send path keep their types, whatever the number of *)
(* calls, crashes and landed transactions.                                 *)
(***************************************************************************)
THEOREM TypeCorrect == Spec => []TypeOK
<1>1. IInv => TypeOK
  BY DEF IInv
<1>. QED
  BY Inductive, <1>1, PTL

(***************************************************************************)
(* sendTon's null and its pre-broadcast errors are safe to retry: the      *)
(* funds have not left and never will, after any number of crashes.        *)
(***************************************************************************)
THEOREM FailureIsSafe == Spec => []FailureIsFinal
<1>1. IInv => FailureIsFinal
  BY DEF IInv, TypeOK, FinalInv, FailureIsFinal, CanLand
<1>. QED
  BY Inductive, <1>1, PTL

(***************************************************************************)
(* After WalletTransferPendingError the message can no longer land: the    *)
(* confirmation window of confirm.ts outlives the message's validUntil.    *)
(***************************************************************************)
THEOREM PendingIsConclusive == Spec => []PendingIsFinal
<1>1. IInv => PendingIsFinal
  BY DEF IInv, FinalInv, PendingIsFinal, CanLand
<1>. QED
  BY Inductive, <1>1, PTL
(***************************************************************************)
(* Every verdict of sendTon other than "sent" is final, for any number of  *)
(* concurrent transfers, landed transactions and crashes.                  *)
(***************************************************************************)
THEOREM VerdictsAreFinal == Spec => []VerdictIsFinal
<1>1. FailureIsFinal /\ PendingIsFinal => VerdictIsFinal
  BY DEF VerdictIsFinal
<1>. QED
  BY FailureIsSafe, PendingIsConclusive, <1>1, PTL
-----------------------------------------------------------------------------
(***************************************************************************)
(* One life of the process.  A message is only out while its call holds    *)
(* the lock and confirms, so that nothing but that message can make the    *)
(* ledger grow past the snapshot the call has taken.                       *)
(***************************************************************************)
LifeInv ==
  crashes = 0 => \A o \in Ops :
    /\ fate[o] = "live" => stage[o] = "confirm"
    /\ stage[o] = "ready" => Len(ledger) = sinceLt[o]
    /\ stage[o] = "confirm" =>
         IF Len(ledger) > sinceLt[o]
         THEN fate[o] = (IF ledger[Len(ledger)].ok THEN "committed" ELSE "rejected")
         ELSE Len(ledger) = sinceLt[o] /\ fate[o] \in {"live", "expired"}
    /\ result[o] = "sent" => fate[o] = "committed"

\* A settled call leaves no message behind, and "sent" is about its own.
LEMMA SettledLife ==
  ASSUME IInv, LifeInv, crashes = 0, NEW o \in Ops, NEW r \in Results,
         IsHead(o), stage[o] \in Running, fate[o] # "live",
         r = "sent" => fate[o] = "committed",
         Complete(o, r)
  PROVE  LifeInv'
  BY DEF IInv, TypeOK, LifeInv, Complete, chainVars, timeVars, Running, Results, Stages

\* What the four settling steps do, within one life of the process.
LEMMA SettlesAs ==
  ASSUME IInv, LifeInv, crashes = 0, NEW o \in Ops,
         Refuse(o) \/ PrepareError(o) \/ ConfirmSeen(o) \/ ConfirmPending(o)
  PROVE  \E r \in {"sent", "null", "error", "pending"} :
           /\ IsHead(o) /\ stage[o] \in Running /\ Complete(o, r)
           /\ fate[o] # "live"
           /\ r = "sent" => fate[o] = "committed"
           /\ r \in {"null", "error"} => fate[o] # "committed"
<1>1. CASE Refuse(o)
  BY <1>1 DEF Refuse, IInv, StageInv, Running
<1>2. CASE PrepareError(o)
  BY <1>2 DEF PrepareError, IInv, StageInv, Running
<1>3. CASE ConfirmSeen(o)
  <2> DEFINE r == IF ledger[Len(ledger)].ok THEN "sent" ELSE "null"
  <2>1. IsHead(o) /\ stage[o] = "confirm" /\ Complete(o, r) /\ Len(ledger) > sinceLt[o]
    BY <1>3 DEF ConfirmSeen, Found
  <2>2. fate[o] = IF ledger[Len(ledger)].ok THEN "committed" ELSE "rejected"
    BY <2>1 DEF LifeInv
  <2>. QED
    BY <2>1, <2>2 DEF Running
<1>4. CASE ConfirmPending(o)
  BY <1>4 DEF ConfirmPending, Running, IInv, TypeOK, WindowInv
<1>. QED
  BY <1>1, <1>2, <1>3, <1>4

\* Every step of the specification keeps what holds within one life.
LEMMA NextLife == IInv /\ LifeInv /\ [Next]_vars => LifeInv'
<1> SUFFICES ASSUME IInv, LifeInv, [Next]_vars, crashes' = 0
             PROVE  LifeInv'
  BY DEF LifeInv
<1> USE TimeoutAssumption
<1>0. crashes = 0
  BY DEF Next, vars, Crash, Tick, Operation, Call, Land, Acquire, LockTimer, Refuse,
         PrepareError, Complete, ReadSeqno, WalletTxLt, Broadcast, ConfirmSeen,
         ConfirmPending, IInv, TypeOK
<1>1. ASSUME NEW o \in Ops, Call(o)
      PROVE  LifeInv'
  BY <1>0, <1>1 DEF Call, LifeInv, IInv, TypeOK, chainVars, timeVars
<1>2. ASSUME NEW o \in Ops, Acquire(o)
      PROVE  LifeInv'
  BY <1>0, <1>2 DEF Acquire, LifeInv, IInv, TypeOK, chainVars
<1>3. ASSUME NEW o \in Ops, LockTimer(o)
      PROVE  LifeInv'
  BY <1>0, <1>3 DEF LockTimer, LifeInv, IInv, TypeOK, chainVars, timeVars
<1>4. ASSUME NEW o \in Ops,
             Refuse(o) \/ PrepareError(o) \/ ConfirmSeen(o) \/ ConfirmPending(o)
      PROVE  LifeInv'
  BY <1>0, <1>4, SettlesAs, SettledLife DEF Results
<1>5. ASSUME NEW o \in Ops, ReadSeqno(o)
      PROVE  LifeInv'
  BY <1>0, <1>5 DEF ReadSeqno, LifeInv, IInv, TypeOK, chainVars, timeVars
<1>6. ASSUME NEW o \in Ops, WalletTxLt(o)
      PROVE  LifeInv'
  BY <1>0, <1>6 DEF WalletTxLt, LifeInv, IInv, TypeOK, chainVars, timeVars
<1>7. ASSUME NEW o \in Ops, Broadcast(o)
      PROVE  LifeInv'
  BY <1>0, <1>7 DEF Broadcast, LifeInv, IInv, TypeOK, StageInv, Running
<1>8. ASSUME NEW o \in Ops, Land(o)
      PROVE  LifeInv'
  <2>1. stage[o] = "confirm" /\ Len(ledger) = sinceLt[o] /\ fate[o] = "live"
    BY <1>0, <1>8 DEF Land, CanLand, LifeInv
  <2>2. \A p \in Ops : stage[p] \in {"ready", "confirm"} => p = o
    BY <2>1 DEF IInv, LockInv, IsHead, Running
  <2>3. PICK ok \in BOOLEAN :
          /\ ledger' = Append(ledger, [op |-> o, ok |-> ok])
          /\ fate' = [fate EXCEPT ![o] = IF ok THEN "committed" ELSE "rejected"]
    BY <1>8 DEF Land
  <2>4. Len(ledger') = Len(ledger) + 1 /\ ledger'[Len(ledger')].ok = ok
    BY <2>3 DEF IInv, TypeOK
  <2>5. UNCHANGED <<stage, result, sinceLt, crashes>>
    BY <1>8 DEF Land, callVars
  <2>. QED
    BY <1>0, <2>1, <2>2, <2>3, <2>4, <2>5 DEF LifeInv, IInv, TypeOK
<1>9. CASE Tick
  BY <1>0, <1>9 DEF Tick, LifeInv, IInv, TypeOK, callVars
<1>10. CASE UNCHANGED vars
  BY <1>10 DEF vars, callVars, chainVars, LifeInv
<1>11. ~Crash
  BY <1>0 DEF Crash
<1>. QED
  BY <1>1, <1>2, <1>3, <1>4, <1>5, <1>6, <1>7, <1>8, <1>9, <1>10, <1>11
     DEF Next, Operation

\* Both invariants hold throughout the specification.
THEOREM LifeHolds == Spec => [](IInv /\ LifeInv)
<1>1. Init => IInv /\ LifeInv
  BY InitIInv DEF Init, LifeInv
<1>. QED
  BY <1>1, NextIInv, NextLife, PTL DEF Spec

\* A set whose members are all equal has at most one.
LEMMA AtMostOne ==
  ASSUME NEW L, \A x, y \in L : x = y
  PROVE  Cardinality(L) <= 1
<1>1. CASE L = {}
  BY <1>1, FS_EmptySet
<1>2. ASSUME NEW x \in L
      PROVE  Cardinality(L) <= 1
  <2>1. L = {x}
    OBVIOUS
  <2>. QED
    BY <2>1, FS_Singleton
<1>. QED
  BY <1>1, <1>2

(***************************************************************************)
(* The tx-lock does what it is for, with any number of calls: until the    *)
(* process dies two messages of the wallet are never out together, and a   *)
(* hash is only returned for the caller's own committed transfer.          *)
(***************************************************************************)
THEOREM LockIsExclusive == Spec => []LockHolds
<1>1. IInv /\ LifeInv => LockHolds
  <2> SUFFICES ASSUME IInv, LifeInv, crashes = 0
               PROVE  LockHolds
    BY DEF LockHolds, OneLiveMessage, SentIsOurs
  <2> DEFINE L == {o \in Ops : fate[o] = "live"}
  <2>1. \A o, p \in L : o = p
    BY DEF LifeInv, IInv, LockInv, IsHead, Running
  <2> HIDE DEF L
  <2>2. Cardinality(L) <= 1
    BY <2>1, AtMostOne
  <2>. QED
    BY <2>2 DEF L, LifeInv, LockHolds, OneLiveMessage, SentIsOurs
<1>. QED
  BY LifeHolds, <1>1, PTL
-----------------------------------------------------------------------------
(***************************************************************************)
(* Across crashes.  Only a confirming call or one lost in a crash has a    *)
(* message that can land, so whatever committed past the snapshot of a     *)
(* call is its own transaction or a lost one.                              *)
(***************************************************************************)
LostPaid == \E p \in Ops : stage[p] = "lost" /\ fate[p] = "committed"

StrayInv ==
  \A o \in Ops :
    /\ stage[o] = "lost" => result[o] \in {"lost", "timeout"}
    /\ CanLand(o) => stage[o] \in {"confirm", "lost"}
    /\ stage[o] \in {"ready", "confirm"} /\ Len(ledger) > sinceLt[o] /\ ledger[Len(ledger)].ok
         => fate[o] = "committed" \/ LostPaid

\* The answers of the four settling steps, in any life of the process.
LEMMA SettlesAcross ==
  ASSUME IInv, StrayInv, NEW o \in Ops,
         Refuse(o) \/ PrepareError(o) \/ ConfirmSeen(o) \/ ConfirmPending(o)
  PROVE  \E r \in {"sent", "null", "error", "pending"} :
           /\ stage[o] \in Running /\ Complete(o, r)
           /\ ~CanLand(o)
           /\ r = "sent" => fate[o] = "committed" \/ LostPaid
           /\ r \in {"null", "error"} => fate[o] # "committed"
<1>1. CASE Refuse(o)
  BY <1>1 DEF Refuse, IInv, StageInv, Running, CanLand
<1>2. CASE PrepareError(o)
  BY <1>2 DEF PrepareError, IInv, StageInv, Running, CanLand
<1>3. CASE ConfirmSeen(o)
  <2> DEFINE r == IF ledger[Len(ledger)].ok THEN "sent" ELSE "null"
  <2>1. stage[o] = "confirm" /\ Complete(o, r) /\ Len(ledger) > sinceLt[o]
    BY <1>3 DEF ConfirmSeen, Found
  <2>2. seqno[o] < Len(ledger)
    BY <2>1 DEF IInv, TypeOK, SeqnoInv
  <2>3. r = "sent" => fate[o] = "committed" \/ LostPaid
    BY <2>1 DEF StrayInv
  <2>4. r = "null" => fate[o] # "committed"
    BY <2>1 DEF IInv, NewestInv
  <2>. QED
    BY <2>1, <2>2, <2>3, <2>4 DEF Running, CanLand
<1>4. CASE ConfirmPending(o)
  BY <1>4 DEF ConfirmPending, Running, IInv, TypeOK, WindowInv, CanLand
<1>. QED
  BY <1>1, <1>2, <1>3, <1>4

\* Every step of the specification keeps what holds across crashes.
LEMMA NextStray == IInv /\ StrayInv /\ [Next]_vars => StrayInv'
<1> SUFFICES ASSUME IInv, StrayInv, [Next]_vars
             PROVE  StrayInv'
  OBVIOUS
<1> USE TimeoutAssumption DEF CanLand, LostPaid
<1>1. ASSUME NEW o \in Ops, Call(o)
      PROVE  StrayInv'
  BY <1>1 DEF Call, StrayInv, IInv, TypeOK, StageInv, chainVars
<1>2. ASSUME NEW o \in Ops, Acquire(o)
      PROVE  StrayInv'
  BY <1>2 DEF Acquire, StrayInv, IInv, TypeOK, StageInv, chainVars
<1>3. ASSUME NEW o \in Ops, LockTimer(o)
      PROVE  StrayInv'
  BY <1>3 DEF LockTimer, StrayInv, IInv, TypeOK, chainVars
<1>4. ASSUME NEW o \in Ops,
             Refuse(o) \/ PrepareError(o) \/ ConfirmSeen(o) \/ ConfirmPending(o)
      PROVE  StrayInv'
  <2>1. PICK r \in {"sent", "null", "error", "pending"} :
          stage[o] \in Running /\ Complete(o, r) /\ ~CanLand(o)
    BY <1>4, SettlesAcross
  <2>. QED
    BY <2>1 DEF Complete, StrayInv, IInv, TypeOK, Running, chainVars
<1>5. ASSUME NEW o \in Ops, ReadSeqno(o)
      PROVE  StrayInv'
  BY <1>5 DEF ReadSeqno, StrayInv, IInv, TypeOK, StageInv, chainVars
<1>6. ASSUME NEW o \in Ops, WalletTxLt(o)
      PROVE  StrayInv'
  BY <1>6 DEF WalletTxLt, StrayInv, IInv, TypeOK, StageInv, chainVars
<1>7. ASSUME NEW o \in Ops, Broadcast(o)
      PROVE  StrayInv'
  <2>1. fate[o] = "unsent" /\ stage[o] = "ready"
    BY <1>7 DEF Broadcast, IInv, StageInv
  <2>2. LostPaid => LostPaid'
    BY <1>7, <2>1 DEF Broadcast, IInv, TypeOK
  <2>. QED
    BY <1>7, <2>1, <2>2 DEF Broadcast, StrayInv, IInv, TypeOK
<1>8. ASSUME NEW o \in Ops, Land(o)
      PROVE  StrayInv'
  <2>1. CanLand(o) /\ stage[o] \in {"confirm", "lost"}
    BY <1>8 DEF Land, StrayInv
  <2>2. PICK ok \in BOOLEAN :
          /\ ledger' = Append(ledger, [op |-> o, ok |-> ok])
          /\ fate' = [fate EXCEPT ![o] = IF ok THEN "committed" ELSE "rejected"]
    BY <1>8 DEF Land
  <2>3. Len(ledger') = Len(ledger) + 1 /\ ledger'[Len(ledger')].ok = ok
    BY <2>2 DEF IInv, TypeOK
  <2>4. UNCHANGED <<stage, result, seqno, sinceLt>>
    BY <1>8 DEF Land, callVars
  <2>5. \A p \in Ops : stage[p] \in {"ready", "confirm"} /\ stage[o] = "confirm" => p = o
    BY DEF IInv, LockInv, IsHead, Running
  <2>6. \A p \in Ops : ~CanLand(p)'
    BY <2>1, <2>2, <2>3, <2>4 DEF IInv, TypeOK, SeqnoInv
  <2>7. ASSUME NEW p \in Ops, stage[p] \in {"ready", "confirm"}, ok
        PROVE  fate'[p] = "committed" \/ LostPaid'
    BY <2>1, <2>2, <2>4, <2>5, <2>7 DEF IInv, TypeOK
  <2>. QED
    BY <2>3, <2>4, <2>6, <2>7 DEF StrayInv
<1>9. CASE Tick
  BY <1>9 DEF Tick, StrayInv, IInv, TypeOK, callVars
<1>10. CASE Crash
  <2>1. LostPaid => LostPaid'
    BY <1>10 DEF Crash, IInv, TypeOK, Running, chainVars
  <2>2. \A o \in Ops : stage'[o] \notin {"ready", "confirm"}
    BY <1>10 DEF Crash, IInv, TypeOK, Running
  <2>3. \A o \in Ops : CanLand(o)' => stage'[o] = "lost"
    BY <1>10 DEF Crash, StrayInv, IInv, TypeOK, Running, chainVars
  <2>4. \A o \in Ops : stage'[o] = "lost" => result'[o] \in {"lost", "timeout"}
    BY <1>10 DEF Crash, StrayInv, IInv, TypeOK, StageInv, Running
  <2>. QED
    BY <2>2, <2>3, <2>4 DEF StrayInv
<1>11. CASE UNCHANGED vars
  BY <1>11 DEF vars, callVars, chainVars, StrayInv
<1>. QED
  BY <1>1, <1>2, <1>3, <1>4, <1>5, <1>6, <1>7, <1>8, <1>9, <1>10, <1>11
     DEF Next, Operation

\* Both invariants hold throughout the specification.
THEOREM StrayHolds == Spec => [](IInv /\ StrayInv)
<1>1. Init => IInv /\ StrayInv
  BY InitIInv DEF Init, StrayInv, CanLand
<1>. QED
  BY <1>1, NextIInv, NextStray, PTL DEF Spec

\* What stray messages look like to a caller depends on the stages and fates only.
LEMMA StrayIs ==
  /\ LostPaid <=> Stray = "paid"
  /\ Stray = "out" <=> ~LostPaid /\ \E o \in Ops : stage[o] = "lost"
  /\ Stray \in {"none", "out", "paid"}
  BY DEF Stray, LostPaid

\* Settling a call answers its caller, unless the timer already has.
LEMMA CompleteAnswers ==
  ASSUME IInv, NEW o \in Ops, NEW r \in {"sent", "null", "error", "pending"},
         stage[o] \in Running, Complete(o, r),
         r = "sent" => fate[o] = "committed" \/ LostPaid,
         r \in {"null", "error"} => fate[o] # "committed"
  PROVE  Contract!Answer(o, r) \/ UNCHANGED Contract!transferVars
<1>1. UNCHANGED fate /\ stage' = [stage EXCEPT ![o] = "done"]
      /\ result' = [result EXCEPT ![o] = IF @ = "none" THEN r ELSE @]
  BY DEF Complete, chainVars
<1>2. \A p \in Ops : stage'[p] = "lost" <=> stage[p] = "lost"
  BY <1>1 DEF IInv, TypeOK, Running
<1>3. Stray' = Stray
  BY <1>1, <1>2 DEF Stray
<1>4. CASE result[o] = "none"
  BY <1>1, <1>3, <1>4, StrayIs DEF Contract!Answer, IInv, TypeOK, Running, Stages
<1>5. CASE result[o] # "none"
  BY <1>1, <1>3, <1>5 DEF Contract!transferVars, IInv, TypeOK, Running, Stages
<1>. QED
  BY <1>4, <1>5

\* Every step is one that Transfer allows, or hidden from it.
LEMMA StepKeepsContract ==
  ASSUME IInv, StrayInv, [Next]_vars
  PROVE  [Contract!TransferNext]_(Contract!transferVars)
<1> USE TimeoutAssumption
<1>1. ASSUME NEW o \in Ops, Call(o)
      PROVE  Contract!Request(o)
  BY <1>1 DEF Call, Contract!Request, Stray, chainVars, IInv, TypeOK, StageInv
<1>2. ASSUME NEW o \in Ops, Acquire(o) \/ ReadSeqno(o) \/ WalletTxLt(o)
      PROVE  UNCHANGED Contract!transferVars
  <2>1. /\ UNCHANGED <<fate, result>>
        /\ \A p \in Ops : stage'[p] = "lost" <=> stage[p] = "lost"
    BY <1>2 DEF Acquire, ReadSeqno, WalletTxLt, chainVars, IInv, TypeOK
  <2>2. Stray' = Stray
    BY <2>1 DEF Stray
  <2> QED
    BY <1>2, <2>1, <2>2 DEF Acquire, ReadSeqno, WalletTxLt, Contract!transferVars, IInv, TypeOK
<1>3. ASSUME NEW o \in Ops, LockTimer(o)
      PROVE  Contract!Answer(o, "timeout")
  BY <1>3 DEF LockTimer, Contract!Answer, Stray, chainVars, IInv, TypeOK, Running
<1>4. ASSUME NEW o \in Ops,
             Refuse(o) \/ PrepareError(o) \/ ConfirmSeen(o) \/ ConfirmPending(o)
      PROVE  \/ \E a \in {"sent", "null", "error", "pending"} : Contract!Answer(o, a)
             \/ UNCHANGED Contract!transferVars
  BY <1>4, SettlesAcross, CompleteAnswers
<1>5. ASSUME NEW o \in Ops, Broadcast(o)
      PROVE  UNCHANGED Contract!transferVars
  BY <1>5 DEF Broadcast, Contract!transferVars, Stray, IInv, TypeOK, StageInv
<1>6. ASSUME NEW o \in Ops, Land(o)
      PROVE  Contract!Pay(o) \/ UNCHANGED Contract!transferVars
  <2>1. stage[o] \in {"confirm", "lost"} /\ fate[o] = "live"
    BY <1>6 DEF Land, CanLand, StrayInv
  <2>2. /\ stage[o] = "confirm" => result[o] \in {"none", "timeout"}
        /\ stage[o] = "lost" => result[o] \in {"lost", "timeout"}
    BY <2>1 DEF IInv, StageInv, StrayInv, Running
  <2>3. PICK ok \in BOOLEAN :
          fate' = [fate EXCEPT ![o] = IF ok THEN "committed" ELSE "rejected"]
    BY <1>6 DEF Land
  <2>4. UNCHANGED <<stage, result>>
    BY <1>6 DEF Land, callVars
  <2>5. CASE ok /\ stage[o] = "confirm"
    <3>1. Stray' = Stray
      BY <2>3, <2>4, <2>5 DEF Stray, IInv, TypeOK
    <3>. QED
      BY <2>1, <2>2, <2>3, <2>4, <2>5, <3>1 DEF Contract!Pay, IInv, TypeOK
  <2>6. CASE ok /\ stage[o] = "lost"
    <3>1. Stray # "none" /\ Stray' = "paid"
      BY <2>3, <2>4, <2>6 DEF Stray, IInv, TypeOK
    <3>. QED
      BY <2>1, <2>2, <2>3, <2>4, <2>6, <3>1 DEF Contract!Pay, IInv, TypeOK
  <2>7. CASE ~ok
    <3>1. \A p \in Ops : fate'[p] = "committed" <=> fate[p] = "committed"
      BY <2>1, <2>3, <2>7 DEF IInv, TypeOK
    <3>. QED
      BY <2>4, <3>1 DEF Contract!transferVars, Stray
  <2>. QED
    BY <2>1, <2>5, <2>6, <2>7
<1>7. ASSUME Tick
      PROVE  UNCHANGED Contract!transferVars
  <2>1. \A p \in Ops : fate'[p] = "committed" <=> fate[p] = "committed"
    BY <1>7 DEF Tick, IInv, TypeOK
  <2>. QED
    BY <1>7, <2>1 DEF Tick, Contract!transferVars, Stray, callVars
<1>8. ASSUME Crash
      PROVE  Contract!Lose
  <2>1. \A p \in Ops : stage'[p] = "new" <=> stage[p] = "new"
    BY <1>8 DEF Crash, IInv, TypeOK, Running
  <2>2. \A p \in Ops : result'[p] = IF stage[p] # "new" /\ result[p] = "none"
                                    THEN "lost" ELSE result[p]
    <3>1. \A p \in Ops : stage[p] \in {"done", "lost"} => result[p] # "none"
      BY DEF IInv, StageInv
    <3>. QED
      BY <1>8, <3>1 DEF Crash, IInv, TypeOK, StageInv, Stages, Running
  <2>3. UNCHANGED fate
    BY <1>8 DEF Crash, chainVars
  <2>4. \A p \in Ops : stage[p] = "lost" => stage'[p] = "lost"
    BY <1>8 DEF Crash, IInv, TypeOK, Running
  <2>5. \A p \in Ops : stage'[p] = "lost" /\ fate[p] = "committed" => stage[p] = "lost"
    BY <1>8 DEF Crash, IInv, TypeOK, Running
  <2>6. Stray' = Stray \/ (Stray = "none" /\ Stray' = "out")
    BY <2>3, <2>4, <2>5 DEF Stray
  <2> DEFINE known(p)  == IF stage[p] = "new" THEN "idle"
                          ELSE IF result[p] = "none" THEN "waiting" ELSE result[p]
             known2(p) == IF stage'[p] = "new" THEN "idle"
                          ELSE IF result'[p] = "none" THEN "waiting" ELSE result'[p]
  <2>7. \A p \in Ops : known2(p) = IF known(p) = "waiting" THEN "lost" ELSE known(p)
    BY <2>1, <2>2 DEF IInv, TypeOK, Results
  <2>8. [p \in Ops |-> known2(p)]
          = [p \in Ops |-> IF [q \in Ops |-> known(q)][p] = "waiting" THEN "lost"
                          ELSE [q \in Ops |-> known(q)][p]]
    <3> HIDE DEF known, known2
    <3>. QED
      BY <2>7
  <2>. QED
    BY <2>3, <2>6, <2>8 DEF Contract!Lose
<1>9. CASE UNCHANGED vars
  BY <1>9 DEF vars, callVars, chainVars, Contract!transferVars, Stray
<1>. QED
  BY <1>1, <1>2, <1>3, <1>4, <1>5, <1>6, <1>7, <1>8, <1>9
     DEF Next, Operation, Contract!TransferNext, Contract!Answers

(***************************************************************************)
(* sendTon implements Transfer, in every life of the process: no schedule  *)
(* of calls, timers, crashes and landing messages pays after null, error   *)
(* or pending, pays twice, or answers "sent" for what was not paid, unless *)
(* a message that was out at a crash has landed since.                     *)
(***************************************************************************)
THEOREM ImplementsTransfer == Spec => KeepsContract
<1>1. Init => Contract!TransferInit
  BY DEF Init, Contract!TransferInit, Stray
<1>2. IInv /\ StrayInv /\ [Next]_vars => [Contract!TransferNext]_(Contract!transferVars)
  BY StepKeepsContract
<1>. QED
  BY <1>1, <1>2, StrayHolds, PTL DEF Spec, KeepsContract, Contract!TransferSpec
=============================================================================
