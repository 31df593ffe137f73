------------------------------ MODULE WalletTx ------------------------------
(***************************************************************************)
(* The wallet's send path: the tx-lock (src/src/ton/tx-lock.ts), the       *)
(* broadcast and on-chain confirmation (src/src/ton/confirm.ts) and        *)
(* sendTon (src/src/ton/transfer.ts), with the wallet contract and the     *)
(* chain they talk to.  Time passes in ticks of 15 seconds.                *)
(***************************************************************************)
EXTENDS Integers, Sequences, FiniteSets

CONSTANTS Ops,              \* the transfers asked for
          LockTimeout,      \* TX_LOCK_TIMEOUT_MS
          ConfirmTimeout,   \* TON_CONFIRM_TIMEOUT_MS
          ValidFor,         \* life of a broadcast message: ConfirmTimeout less 30 s
          MaxCrashes        \* bound: how often the process may die

ASSUME TimeoutAssumption ==
  /\ LockTimeout \in Nat \ {0}
  /\ ConfirmTimeout \in Nat
  /\ ValidFor \in Nat \ {0}
  /\ ValidFor < ConfirmTimeout
  /\ MaxCrashes \in Nat

VARIABLES
  queue,      \* the promise chain `pending`: its head holds the lock
  stage,      \* where each sendTon call stands
  result,     \* what its caller has been told
  seqno,      \* the seqno it read
  sinceLt,    \* the newest logical time it read
  fate,       \* what became of its message
  ttl,        \* ticks until the message's validUntil
  held,       \* ticks since the head took the lock, up to LockTimeout
  left,       \* ticks of the head's confirmation window that remain
  ledger,     \* the wallet's external-in transactions, oldest first
  crashes

callVars  == <<stage, result, seqno, sinceLt>>
chainVars == <<fate, ttl, ledger>>
timeVars  == <<held, left>>
vars == <<queue, callVars, chainVars, timeVars, crashes>>

Stages  == {"new", "queued", "prepare", "haveSeqno", "ready", "confirm", "done", "lost"}
Results == {"none", "sent", "null", "error", "pending", "timeout", "lost"}
Fates   == {"unsent", "live", "expired", "committed", "rejected"}

\* The stages in which a call holds the lock and its operation is running.
Running == {"prepare", "haveSeqno", "ready", "confirm"}

TypeOK ==
  /\ queue \in Seq(Ops)
  /\ stage \in [Ops -> Stages]
  /\ result \in [Ops -> Results]
  /\ seqno \in [Ops -> Nat]
  /\ sinceLt \in [Ops -> Nat]
  /\ fate \in [Ops -> Fates]
  /\ ttl \in [Ops -> 0..ValidFor]
  /\ held \in 0..LockTimeout
  /\ left \in 0..ConfirmTimeout
  /\ ledger \in Seq([op : Ops, ok : BOOLEAN])
  /\ crashes \in 0..MaxCrashes

Init ==
  /\ queue = <<>>
  /\ stage = [o \in Ops |-> "new"]
  /\ result = [o \in Ops |-> "none"]
  /\ seqno = [o \in Ops |-> 0]
  /\ sinceLt = [o \in Ops |-> 0]
  /\ fate = [o \in Ops |-> "unsent"]
  /\ ttl = [o \in Ops |-> 0]
  /\ held = 0
  /\ left = 0
  /\ ledger = <<>>
  /\ crashes = 0
-----------------------------------------------------------------------------
\* sendTon -> withTxLock: the call is chained behind `pending`.
Call(o) ==
  /\ stage[o] = "new"
  /\ stage' = [stage EXCEPT ![o] = "queued"]
  /\ queue' = Append(queue, o)
  /\ UNCHANGED <<result, seqno, sinceLt, chainVars, timeVars, crashes>>

IsHead(o) == queue # <<>> /\ Head(queue) = o

\* guarded(): the turn comes, the timer is armed and the operation starts.
Acquire(o) ==
  /\ IsHead(o)
  /\ stage[o] = "queued"
  /\ stage' = [stage EXCEPT ![o] = "prepare"]
  /\ held' = 0
  /\ UNCHANGED <<queue, result, seqno, sinceLt, chainVars, left, crashes>>

\* Plausible bug: the chain only moves on when the operation succeeds.
CompleteOnSuccessOnly(o, r) ==
  /\ stage' = [stage EXCEPT ![o] = "done"]
  /\ result' = [result EXCEPT ![o] = IF @ = "none" THEN r ELSE @]
  /\ queue' = IF r = "sent" THEN Tail(queue) ELSE queue
  /\ UNCHANGED <<seqno, sinceLt, chainVars, timeVars, crashes>>

(***************************************************************************)
(* The operation settles: the chain moves on to the next call, and the     *)
(* caller learns the outcome unless the timer has already answered it.     *)
(***************************************************************************)
Complete(o, r) ==
  /\ stage' = [stage EXCEPT ![o] = "done"]
  /\ result' = [result EXCEPT ![o] = IF @ = "none" THEN r ELSE @]
  /\ queue' = Tail(queue)
  /\ UNCHANGED <<seqno, sinceLt, chainVars, timeVars, crashes>>

\* Plausible bug: the timer also hands the lock to the next call.
LockTimerReleases(o) ==
  /\ IsHead(o)
  /\ stage[o] \in Running
  /\ held = LockTimeout
  /\ result[o] = "none"
  /\ result' = [result EXCEPT ![o] = "timeout"]
  /\ queue' = Tail(queue)
  /\ UNCHANGED <<stage, seqno, sinceLt, chainVars, timeVars, crashes>>

\* The timer of withTxLock answers the caller; the lock stays taken.
LockTimer(o) ==
  /\ IsHead(o)
  /\ stage[o] \in Running
  /\ held = LockTimeout
  /\ result[o] = "none"
  /\ result' = [result EXCEPT ![o] = "timeout"]
  /\ UNCHANGED <<queue, stage, seqno, sinceLt, chainVars, timeVars, crashes>>

\* Bad amount or address, or no wallet: null, before anything is sent.
Refuse(o) ==
  /\ IsHead(o)
  /\ stage[o] = "prepare"
  /\ Complete(o, "null")

\* The key pair, the client, getSeqno or walletTxLt throws.
PrepareError(o) ==
  /\ IsHead(o)
  /\ stage[o] \in {"prepare", "haveSeqno"}
  /\ Complete(o, "error")

\* contract.getSeqno(): every transaction of the wallet consumes one seqno.
ReadSeqno(o) ==
  /\ IsHead(o)
  /\ stage[o] = "prepare"
  /\ seqno' = [seqno EXCEPT ![o] = Len(ledger)]
  /\ stage' = [stage EXCEPT ![o] = "haveSeqno"]
  /\ UNCHANGED <<queue, result, sinceLt, chainVars, timeVars, crashes>>

\* walletTxLt(): the snapshot that tells our transaction from older ones.
WalletTxLt(o) ==
  /\ IsHead(o)
  /\ stage[o] = "haveSeqno"
  /\ sinceLt' = [sinceLt EXCEPT ![o] = Len(ledger)]
  /\ stage' = [stage EXCEPT ![o] = "ready"]
  /\ UNCHANGED <<queue, result, seqno, chainVars, timeVars, crashes>>

\* Plausible bug: the seqno is read after the logical-time snapshot.
BroadcastLateSeqno(o) ==
  /\ IsHead(o)
  /\ stage[o] = "ready"
  /\ stage' = [stage EXCEPT ![o] = "confirm"]
  /\ left' = ConfirmTimeout
  /\ \E f \in {"live", "expired"} : fate' = [fate EXCEPT ![o] = f]
  /\ ttl' = [ttl EXCEPT ![o] = ValidFor]
  /\ seqno' = [seqno EXCEPT ![o] = Len(ledger)]
  /\ UNCHANGED <<queue, result, sinceLt, ledger, held, crashes>>

\* Plausible bug: validUntil is the end of the confirmation window, without the margin.
BroadcastNoMargin(o) ==
  /\ IsHead(o)
  /\ stage[o] = "ready"
  /\ stage' = [stage EXCEPT ![o] = "confirm"]
  /\ left' = ConfirmTimeout
  /\ \E f \in {"live", "expired"} : fate' = [fate EXCEPT ![o] = f]
  /\ ttl' = [ttl EXCEPT ![o] = ConfirmTimeout]
  /\ UNCHANGED <<queue, result, seqno, sinceLt, ledger, held, crashes>>

(***************************************************************************)
(* contract.sendTransfer(), whatever it returns: the message is out until  *)
(* validUntil, or it never left.  The confirmation window opens.           *)
(***************************************************************************)
Broadcast(o) ==
  /\ IsHead(o)
  /\ stage[o] = "ready"
  /\ stage' = [stage EXCEPT ![o] = "confirm"]
  /\ left' = ConfirmTimeout
  /\ \E f \in {"live", "expired"} : fate' = [fate EXCEPT ![o] = f]
  /\ ttl' = [ttl EXCEPT ![o] = ValidFor]
  /\ UNCHANGED <<queue, result, seqno, sinceLt, ledger, held, crashes>>

\* The wallet contract takes a live message whose seqno is its own.
CanLand(o) == fate[o] = "live" /\ seqno[o] = Len(ledger)

Land(o) ==
  /\ CanLand(o)
  /\ \E ok \in BOOLEAN :
       /\ ledger' = Append(ledger, [op |-> o, ok |-> ok])
       /\ fate' = [fate EXCEPT ![o] = IF ok THEN "committed" ELSE "rejected"]
  /\ UNCHANGED <<queue, callVars, ttl, timeVars, crashes>>

\* confirmWalletTx's `ours`: the newest external-in past the snapshot.
Found(o) == Len(ledger) > sinceLt[o]

\* Plausible bug: a transaction whose action phase failed counts as sent.
ConfirmSeqnoBump(o) ==
  /\ IsHead(o)
  /\ stage[o] = "confirm"
  /\ left > 0
  /\ Found(o)
  /\ Complete(o, "sent")

\* confirmWalletTx sees a transaction it takes for its own.
ConfirmSeen(o) ==
  /\ IsHead(o)
  /\ stage[o] = "confirm"
  /\ left > 0
  /\ Found(o)
  /\ Complete(o, IF ledger[Len(ledger)].ok THEN "sent" ELSE "null")

\* The window closes without a conclusive answer: WalletTransferPendingError.
ConfirmPending(o) ==
  /\ IsHead(o)
  /\ stage[o] = "confirm"
  /\ left = 0
  /\ Complete(o, "pending")

TimerDue(o) == IsHead(o) /\ stage[o] \in Running /\ held = LockTimeout /\ result[o] = "none"
WindowClosed(o) == IsHead(o) /\ stage[o] = "confirm" /\ left = 0

(***************************************************************************)
(* 15 seconds pass.  A timer that is due fires first; a live message is    *)
(* dropped by the network when its validUntil is reached.                  *)
(***************************************************************************)
Tick ==
  /\ \A o \in Ops : ~TimerDue(o) /\ ~WindowClosed(o)
  /\ held' = IF held < LockTimeout THEN held + 1 ELSE held
  /\ left' = IF left > 0 THEN left - 1 ELSE 0
  /\ ttl' = [o \in Ops |-> IF ttl[o] > 0 THEN ttl[o] - 1 ELSE 0]
  /\ fate' = [o \in Ops |-> IF fate[o] = "live" /\ ttl[o] <= 1 THEN "expired" ELSE fate[o]]
  /\ UNCHANGED <<queue, callVars, ledger, crashes>>

(***************************************************************************)
(* The process dies; the lock is in its memory, the messages are not.  A   *)
(* call is "lost" when its message is still out and nobody waits for it.   *)
(***************************************************************************)
Crash ==
  /\ crashes < MaxCrashes
  /\ crashes' = crashes + 1
  /\ queue' = <<>>
  /\ stage' = [o \in Ops |-> IF stage[o] \notin Running \cup {"queued"} THEN stage[o]
                             ELSE IF fate[o] = "live" THEN "lost" ELSE "done"]
  /\ result' = [o \in Ops |-> IF stage[o] \in Running \cup {"queued"} /\ result[o] = "none"
                              THEN "lost" ELSE result[o]]
  /\ held' = 0
  /\ left' = 0
  /\ UNCHANGED <<seqno, sinceLt, chainVars>>

Operation(o) ==
  \/ Acquire(o) \/ LockTimer(o) \/ Refuse(o) \/ PrepareError(o)
  \/ ReadSeqno(o) \/ WalletTxLt(o) \/ Broadcast(o)
  \/ ConfirmSeen(o) \/ ConfirmPending(o)

Next ==
  \/ \E o \in Ops : Call(o) \/ Operation(o) \/ Land(o)
  \/ Tick
  \/ Crash

(***************************************************************************)
(* The event loop runs: a turn is taken, every RPC call returns, timers    *)
(* fire and time passes.  The chain owes nothing: no fairness on Land.     *)
(***************************************************************************)
Fairness ==
  /\ \A o \in Ops : WF_vars(Operation(o))
  /\ WF_vars(Tick)

Spec == Init /\ [][Next]_vars /\ Fairness
-----------------------------------------------------------------------------
(***************************************************************************)
(* Within one life of the process, two messages of the wallet are never    *)
(* out at the same time, so that none can consume the seqno another was    *)
(* signed with: the lock is kept past its timer and until the message's    *)
(* validUntil (tx-lock.ts, confirm.ts).                                    *)
(***************************************************************************)
OneLiveMessage == crashes = 0 => Cardinality({o \in Ops : fate[o] = "live"}) <= 1

(***************************************************************************)
(* A hash is only returned to the caller whose own transfer committed: the *)
(* snapshot of the logical time tells it from every other transaction, as  *)
(* long as no message from before a crash is about.                        *)
(***************************************************************************)
SentIsOurs ==
  crashes = 0 => \A o \in Ops : result[o] = "sent" => fate[o] = "committed"

(***************************************************************************)
(* What the lock is for: messages do not meet, and answers reach the       *)
(* caller they belong to, though the timer answers while the lock is held. *)
(***************************************************************************)
LockHolds == OneLiveMessage /\ SentIsOurs

(***************************************************************************)
(* A caller that is told null, or is given an error raised before the      *)
(* broadcast, may retry: its funds have not left and never will, even when *)
(* a message from before a crash lands in between.                         *)
(***************************************************************************)
FailureIsFinal ==
  \A o \in Ops : result[o] \in {"null", "error"} => fate[o] # "committed" /\ ~CanLand(o)

(***************************************************************************)
(* After WalletTransferPendingError the chain is conclusive: the message   *)
(* has landed by then or never will, so it can be reconciled.              *)
(***************************************************************************)
PendingIsFinal == \A o \in Ops : result[o] = "pending" => ~CanLand(o)

(***************************************************************************)
(* Every verdict sendTon gives other than "sent" is final: what it calls   *)
(* failed never leaves, what it calls pending is decided by then.          *)
(***************************************************************************)
VerdictIsFinal == FailureIsFinal /\ PendingIsFinal

\* Every call of sendTon is answered, however the calls before it end.
EveryCallAnswered == \A o \in Ops : stage[o] = "queued" ~> result[o] # "none"

\* The messages that were out when the process died, and what became of them.
Stray ==
  LET lost == {o \in Ops : stage[o] = "lost"}
  IN  IF \E o \in lost : fate[o] = "committed" THEN "paid"
      ELSE IF lost # {} THEN "out" ELSE "none"

\* The promise a caller sees: sendTon implements Transfer.
Contract == INSTANCE Transfer WITH
  outcome <- [o \in Ops |-> IF stage[o] = "new" THEN "idle"
                            ELSE IF result[o] = "none" THEN "waiting" ELSE result[o]],
  paid <- {o \in Ops : fate[o] = "committed"},
  stray <- Stray

(***************************************************************************)
(* sendTon keeps the contract of module Transfer, also across crashes:     *)
(* funds leave at most once and never after null, error or pending, and    *)
(* "sent" means paid, unless a message that was out when the process died  *)
(* has landed since and is taken for this one.                             *)
(***************************************************************************)
KeepsContract == Contract!TransferSpec
=============================================================================
