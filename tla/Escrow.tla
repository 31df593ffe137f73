------------------------------- MODULE Escrow -------------------------------
(***************************************************************************)
(* What a deal promises both sides, with bots, pollers, tools and tables   *)
(* hidden: the user always sends first, one payment funds one deal, the    *)
(* agent only delivers on a funded deal, and a deal that was closed        *)
(* unfunded stays so.                                                      *)
(***************************************************************************)
CONSTANTS DealIds, Payments, NoPayment

VARIABLES funding,          \* the payment that funds each deal
          delivered,        \* the deals whose asset the agent has handed over
          closed            \* the deals given up before they were funded

escrowVars == <<funding, delivered, closed>>

EscrowInit ==
  /\ funding = [d \in DealIds |-> NoPayment]
  /\ delivered = {}
  /\ closed = {}

Fund(d, p) ==
  /\ d \notin closed
  /\ funding[d] = NoPayment
  /\ \A e \in DealIds : funding[e] # p
  /\ funding' = [funding EXCEPT ![d] = p]
  /\ UNCHANGED <<delivered, closed>>

Deliver(d) ==
  /\ funding[d] # NoPayment
  /\ d \notin delivered
  /\ delivered' = delivered \cup {d}
  /\ UNCHANGED <<funding, closed>>

\* Deals are declined, cancelled, timed out, or expire several at a time.
Close(D) ==
  /\ \A d \in D : funding[d] = NoPayment
  /\ closed' = closed \cup D
  /\ UNCHANGED <<funding, delivered>>

EscrowNext ==
  \/ \E d \in DealIds : Deliver(d) \/ \E p \in Payments : Fund(d, p)
  \/ \E D \in SUBSET DealIds : Close(D)

EscrowSpec == EscrowInit /\ [][EscrowNext]_escrowVars
=============================================================================
