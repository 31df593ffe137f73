------------------------------ MODULE Transfer ------------------------------
(***************************************************************************)
(* What a caller of sendTon (src/src/ton/transfer.ts) is promised about    *)
(* one outgoing transfer, with the wallet, the lock and the chain hidden.  *)
(* WalletTx implements it; Deals uses it for the payout of a deal.         *)
(***************************************************************************)
CONSTANT Ops                \* the transfers

VARIABLES outcome,          \* what the caller of each transfer knows
          paid,             \* the transfers whose funds have left the wallet
          stray             \* transfers under way when the process died: there are
                            \* "none", some may be "out", or one was "paid" since

transferVars == <<outcome, paid, stray>>

(***************************************************************************)
(* "sent": resolved with a hash.  "null": resolved with null (nothing was  *)
(* sent, or the chain rejected it).  "error": rejected before anything was *)
(* broadcast.  "pending": WalletTransferPendingError.  "timeout": the      *)
(* tx-lock's timer rejected the caller.  "lost": the process died.         *)
(***************************************************************************)
Answers == {"sent", "null", "error", "pending", "timeout"}

Outcomes == {"idle", "waiting", "lost"} \cup Answers

TransferTypeOK ==
  /\ outcome \in [Ops -> Outcomes]
  /\ paid \subseteq Ops
  /\ stray \in {"none", "out", "paid"}

TransferInit ==
  /\ outcome = [o \in Ops |-> "idle"]
  /\ paid = {}
  /\ stray = "none"

\* The caller starts to await sendTon.
Request(o) ==
  /\ outcome[o] = "idle"
  /\ outcome' = [outcome EXCEPT ![o] = "waiting"]
  /\ UNCHANGED <<paid, stray>>

(***************************************************************************)
(* The funds leave, at most once: while the caller waits, or behind the    *)
(* back of a caller that was told "timeout" or has died.                   *)
(***************************************************************************)
Pay(o) ==
  /\ outcome[o] \in {"waiting", "timeout", "lost"}
  /\ o \notin paid
  /\ paid' = paid \cup {o}
  /\ \/ outcome[o] # "lost" /\ stray' = stray
     \/ outcome[o] # "waiting" /\ stray # "none" /\ stray' = "paid"
  /\ UNCHANGED outcome

\* So do those of a transfer that somebody else had under way when the process died.
StrayPays ==
  /\ stray = "out"
  /\ stray' = "paid"
  /\ UNCHANGED <<outcome, paid>>

(***************************************************************************)
(* "null" and "error" mean unpaid, for good.  "sent" means paid, unless    *)
(* the wallet has paid a transfer from before a crash: the confirmation    *)
(* takes any newer transaction of the wallet for the one it waits for.     *)
(***************************************************************************)
Answer(o, a) ==
  /\ outcome[o] = "waiting"
  /\ a = "sent" => o \in paid \/ stray = "paid"
  /\ a \in {"null", "error"} => o \notin paid
  /\ outcome' = [outcome EXCEPT ![o] = a]
  /\ UNCHANGED <<paid, stray>>

(***************************************************************************)
(* The process dies: nobody will hear of the waiting transfers, but a      *)
(* waiting, a timed-out or somebody else's one may still be on its way.    *)
(***************************************************************************)
Lose ==
  /\ outcome' = [o \in Ops |-> IF outcome[o] = "waiting" THEN "lost" ELSE outcome[o]]
  /\ \/ stray' = stray
     \/ stray = "none" /\ stray' = "out"
  /\ UNCHANGED paid

TransferNext ==
  \/ \E o \in Ops : Request(o) \/ Pay(o) \/ \E a \in Answers : Answer(o, a)
  \/ StrayPays
  \/ Lose

TransferSpec == TransferInit /\ [][TransferNext]_transferVars
=============================================================================
