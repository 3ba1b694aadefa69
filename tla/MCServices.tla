----------------------------- MODULE MCServices ----------------------------
(* The services beside the front desk, for TLC.  They share no state, so a   *)
(* behaviour exercises one of them, chosen at the start, and the others      *)
(* stand still: online payments, the split of a restaurant bill, the room    *)
(* cache, the request quota, the language-model providers, loyalty points,   *)
(* linen, and the connections of a pool.                                     *)
EXTENDS GatewayPayment, BillSplit, RoomCache, RateLimit, AiGateway, Loyalty, Linen, ConnPool, TLC

CONSTANTS a1, a2, a3, a4, g1, b1, o1, o2

VARIABLE part
vars == <<part, payVars, splitVars, roomCacheVars, rateVars, aiVars, loyaltyVars, linenVars, connVars>>

AllPayOps == {"checkout", "razorpay", "hold", "recheckout", "reorder", "complete", "verify",
              "by_id", "rates"}

MCMenus == {<<1999, 2501, 333>>, <<100>>, <<49, 50>>, <<7, 7, 7>>}
Plain == [discount_type |-> "none", discount_value |-> 0, tip_type |-> "none",
          tip_value |-> 0, rounding |-> 0, tax_rate |-> TaxRate]
MCAdjustments ==
    {Plain,
     [Plain EXCEPT !.discount_type = "percent", !.discount_value = 33],
     [Plain EXCEPT !.discount_type = "flat", !.discount_value = 10],
     [Plain EXCEPT !.discount_type = "percent", !.discount_value = 100],
     [Plain EXCEPT !.discount_type = "percent", !.discount_value = 100, !.tip_type = "flat", !.tip_value = 101],
     [Plain EXCEPT !.tip_type = "percent", !.tip_value = 7, !.rounding = 1],
     [Plain EXCEPT !.tax_rate = 12]}

MCQuota == (0 :> 1) @@ (1 :> 2)

(* Requests are the same values in every part; four open tables.             *)
RequestSymmetry == Permutations({a1, a2})

Init ==
    /\ PayInit /\ SplitInit /\ RoomCacheInit /\ RateInit /\ AiInit /\ LoyaltyInit /\ LinenInit /\ ConnInit
    /\ part \in {"pay", "split", "rooms", "rate", "ai", "points", "linen", "pool"}
    /\ part # "pay" => active = "stripe"
    /\ part # "split" => lines = <<100>>
    /\ part # "rate" => rank = 0

PayPart == part = "pay" /\ PayNext
    /\ UNCHANGED <<splitVars, roomCacheVars, rateVars, aiVars, loyaltyVars, linenVars, connVars>>
SplitPart == part = "split" /\ SplitNext
    /\ UNCHANGED <<payVars, roomCacheVars, rateVars, aiVars, loyaltyVars, linenVars, connVars>>
RoomsPart == part = "rooms" /\ RoomCacheNext
    /\ UNCHANGED <<payVars, splitVars, rateVars, aiVars, loyaltyVars, linenVars, connVars>>
RatePart == part = "rate" /\ RateNext
    /\ UNCHANGED <<payVars, splitVars, roomCacheVars, aiVars, loyaltyVars, linenVars, connVars>>
AiPart == part = "ai" /\ AiNext
    /\ UNCHANGED <<payVars, splitVars, roomCacheVars, rateVars, loyaltyVars, linenVars, connVars>>
PointsPart == part = "points" /\ LoyaltyNext
    /\ UNCHANGED <<payVars, splitVars, roomCacheVars, rateVars, aiVars, linenVars, connVars>>
LinenPart == part = "linen" /\ LinenNext
    /\ UNCHANGED <<payVars, splitVars, roomCacheVars, rateVars, aiVars, loyaltyVars, connVars>>
PoolPart == part = "pool" /\ ConnNext
    /\ UNCHANGED <<payVars, splitVars, roomCacheVars, rateVars, aiVars, loyaltyVars, linenVars>>

Next ==
    /\ UNCHANGED part
    /\ \/ PayPart \/ SplitPart \/ RoomsPart \/ RatePart \/ AiPart
       \/ PointsPart \/ LinenPart \/ PoolPart

Spec == Init /\ [][Next]_vars
=============================================================================
