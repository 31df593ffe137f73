------------------------------ MODULE MCDeals -------------------------------
(***************************************************************************)
(* Instances of Deals for TLC: what the user and the agent give in each    *)
(* of the deals of a run.                                                  *)
(***************************************************************************)
EXTENDS Deals, TLC

CONSTANTS d1, d2

OneTon     == d1 :> "ton"
OneGift    == d1 :> "gift"
TwoTon     == d1 :> "ton" @@ d2 :> "ton"
TwoGifts   == d1 :> "gift" @@ d2 :> "gift"
TonAndGift == d1 :> "ton" @@ d2 :> "gift"
=============================================================================
