----------------------------- MODULE MCWebhooks -----------------------------
(***************************************************************************)
(* The webhooks, for TLC.  Outgoing deliveries do not read the clock of    *)
(* the incoming requests, so the behaviours checked are those of Webhooks  *)
(* in which that clock moves or events are published, not both.  Neither   *)
(* step is a fair one.                                                     *)
(***************************************************************************)
EXTENDS Webhooks

Within == now > 0 => \A e \in Events : event[e] = "none"

MCSpec == Init /\ [][Next /\ Within']_vars /\ Fairness
=============================================================================
