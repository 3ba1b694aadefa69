------------------------------ MODULE Loyalty ------------------------------
(* Loyalty points of one guest (crm_handler.go): the running balance in     *)
(* loyalty_members and the entries in loyalty_transactions, written by two  *)
(* statements with no transaction around them.                              *)
EXTENDS Integers, FiniteSets, FiniteSetsExt

CONSTANTS
  Tellers,        \* requests in flight
  PointSizes,     \* points a request awards or redeems
  MaxLifetime,    \* bound: points ever awarded
  MaxLoyaltyFaults

ASSUME LoyaltyAssumption == PointSizes \subseteq Nat \ {0} /\ MaxLifetime \in Nat

VARIABLES
  points, lifetime,   \* loyalty_members
  earned, redeemed,   \* loyalty_transactions: sums by type
  teller,             \* requests between their statements
  unlogged,           \* history: points moved whose entry failed to be written
  loyaltyFaults

loyaltyVars == <<points, lifetime, earned, redeemed, teller, unlogged, loyaltyFaults>>

NoTeller == [at |-> "idle", n |-> 0]

LoyaltyInit ==
    /\ points = 0 /\ lifetime = 0 /\ earned = 0 /\ redeemed = 0
    /\ teller = [t \in Tellers |-> NoTeller]
    /\ unlogged = 0 /\ loyaltyFaults = 0

CanFail == loyaltyFaults < MaxLoyaltyFaults

----------------------------------------------------------------------------
(* AwardPoints: an upsert adds to points and lifetime points, then the      *)
(* entry is inserted; an error there is answered but nothing is undone.     *)
AwardUpsert(t, n) ==
    /\ teller[t].at = "idle" /\ lifetime + n <= MaxLifetime
    /\ points' = points + n /\ lifetime' = lifetime + n
    /\ teller' = [teller EXCEPT ![t] = [at |-> "earn", n |-> n]]
    /\ UNCHANGED <<earned, redeemed, unlogged, loyaltyFaults>>

AwardLog(t) ==
    /\ teller[t].at = "earn"
    /\ teller' = [teller EXCEPT ![t] = NoTeller]
    /\ \/ /\ earned' = earned + teller[t].n
          /\ UNCHANGED <<unlogged, loyaltyFaults>>
       \/ /\ CanFail
          /\ loyaltyFaults' = loyaltyFaults + 1
          /\ unlogged' = unlogged + teller[t].n
          /\ UNCHANGED earned
    /\ UNCHANGED <<points, lifetime, redeemed>>

AwardPoints(t) == (\E n \in PointSizes : AwardUpsert(t, n)) \/ AwardLog(t)

(* RedeemPoints: the balance is read and compared; the UPDATE subtracts     *)
(* without looking again.                                                   *)
EnoughRead(n) == n <= points

RedeemLook(t, n) ==
    /\ teller[t].at = "idle" /\ EnoughRead(n)
    /\ teller' = [teller EXCEPT ![t] = [at |-> "take", n |-> n]]
    /\ UNCHANGED <<points, lifetime, earned, redeemed, unlogged, loyaltyFaults>>

RedeemUpdate(t) ==
    /\ teller[t].at = "take"
    /\ \/ /\ points' = points - teller[t].n
          /\ teller' = [teller EXCEPT ![t].at = "redeem"]
          /\ UNCHANGED loyaltyFaults
       \/ /\ CanFail
          /\ loyaltyFaults' = loyaltyFaults + 1
          /\ teller' = [teller EXCEPT ![t] = NoTeller]
          /\ UNCHANGED points
    /\ UNCHANGED <<lifetime, earned, redeemed, unlogged>>

RedeemLogAsEarned(t) ==
    /\ teller[t].at = "redeem"
    /\ teller' = [teller EXCEPT ![t] = NoTeller]
    /\ earned' = earned + teller[t].n
    /\ UNCHANGED <<points, lifetime, redeemed, unlogged, loyaltyFaults>>

RedeemLog(t) ==
    /\ teller[t].at = "redeem"
    /\ teller' = [teller EXCEPT ![t] = NoTeller]
    /\ \/ /\ redeemed' = redeemed + teller[t].n
          /\ UNCHANGED <<unlogged, loyaltyFaults>>
       \/ /\ CanFail
          /\ loyaltyFaults' = loyaltyFaults + 1
          /\ unlogged' = unlogged - teller[t].n
          /\ UNCHANGED redeemed
    /\ UNCHANGED <<points, lifetime, earned>>

RedeemPoints(t) == (\E n \in PointSizes : RedeemLook(t, n)) \/ RedeemUpdate(t) \/ RedeemLog(t)

LoyaltyNext == \E t \in Tellers : AwardPoints(t) \/ RedeemPoints(t)

LoyaltySpec == LoyaltyInit /\ [][LoyaltyNext]_loyaltyVars

----------------------------------------------------------------------------
(* Points moved by requests whose entry is still to be written.             *)
AwaitingLog(at) ==
    MapThenSumSet(LAMBDA t : IF teller[t].at = at THEN teller[t].n ELSE 0, Tellers)

(* The balance is what the entries say, but for the requests between their  *)
(* two statements and the entries that failed to be written: nothing else   *)
(* makes the balance of AwardPoints and RedeemPoints drift from the log.    *)
PointsMatchLog ==
    points = earned - redeemed + unlogged + AwaitingLog("earn") - AwaitingLog("redeem")

=============================================================================
