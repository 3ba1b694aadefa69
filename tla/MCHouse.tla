------------------------------- MODULE MCHouse -------------------------------
(* Scenes of the front office for TLC, each with its own operations and     *)
(* bounds: rooms turning over between two desks and housekeeping, a single  *)
(* desk with every desk operation, two desks and the cashier, and two desks *)
(* while housekeeping and the staff set task and room states by hand.       *)
EXTENDS FrontDesk, FiniteSetsExt, TLC

VARIABLE scene
sceneVars == <<scene, vars>>

AllOps == {"create", "promo", "settle", "update", "move", "cancel", "checkin", "checkout",
           "charge", "pay", "clean", "task", "status"}

Booking(d) == CreateRead(d) \/ CreateTx(d)
Moving(d) == MoveRead(d) \/ MoveCheck(d) \/ MoveTx(d)
Cancelling(d) == CancelRead(d) \/ SoftCancelStay(d) \/ CancelLook(d) \/ CancelFree(d)
Arriving(d) == CheckInRead(d) \/ CheckInTx(d)
Leaving(d) == CheckOutRead(d) \/ CheckOutBalance(d) \/ CheckOutTx(d)
Cleaning(r) ==
    FinishTask(r) \/ ReleaseRoom(r) \/ \E passed \in BOOLEAN : InspectTask(r, passed)

(* Bounds of a scene: one night; no promo code or payment with the booking;  *)
(* one request at a time; two cleaning tasks on the board; one room in use.  *)
OneNight == \A d \in Desks : job[d].to <= 1
PlainBooking == \A d \in Desks : job[d].at = "create_tx" => ~job[d].promo /\ ~job[d].paid
TwoTasks == MapThenSumSet(LAMBDA r : work[r].open + work[r].done + releasing[r], Rooms) <= 2
OneRequest == Cardinality({d \in Desks : job[d] # Idle}) <= 1
RoomsInUse ==
    {r \in Rooms : \/ room[r] # "available" \/ work[r].open + work[r].done + releasing[r] > 0
                   \/ \E s \in Stays : stay[s].room = r
                   \/ \E d \in Desks : job[d].room = r}
OneRoom == Cardinality(RoomsInUse) <= 1

SceneInit == Init /\ scene \in {"turnover", "desk", "cashier", "floor"}

TurnoverNext ==
    \/ \E d \in Desks : Booking(d) \/ Moving(d) \/ Cancelling(d) \/ Arriving(d) \/ Leaving(d)
    \/ \E r \in Rooms : Cleaning(r)

DeskNext == \E d \in Desks : DeskStep(d)

CashierNext ==
    \/ \E d \in Desks : Booking(d) \/ Cancelling(d) \/ Arriving(d) \/ Leaving(d)
    \/ \E s \in Stays : BillingStep(s)

FloorNext ==
    \/ \E d \in Desks : Booking(d) \/ Cancelling(d) \/ Arriving(d) \/ Leaving(d)
    \/ \E s \in Stays : CreateFolio(s) \/ RecordPayment(s)
    \/ \E r \in Rooms : FloorStep(r)

SceneNext ==
    /\ UNCHANGED scene
    /\ \/ scene = "turnover" /\ TurnoverNext /\ OneNight' /\ PlainBooking' /\ TwoTasks'
       \/ scene = "desk" /\ DeskNext /\ OneRequest'
       \/ scene = "cashier" /\ CashierNext /\ OneNight' /\ OneRoom'
       \/ scene = "floor" /\ FloorNext /\ OneNight' /\ PlainBooking' /\ OneRoom'

SceneSpec == SceneInit /\ [][SceneNext]_sceneVars

Symmetry == Permutations(Stays) \cup Permutations(Desks) \cup Permutations(Rooms)

(* Between two desks and housekeeping a dirty room is offered only by the   *)
(* release after a passed inspection or by a cancellation.                  *)
TurnoverOfferedAfterInspection ==
    [][scene = "turnover" => \A r \in Rooms : OfferedAfterInspection(r)]_sceneVars

(* With one request at a time, the guards CheckIn, Cancel, Update and       *)
(* MoveRoom read do what their comments say: no guest in house is recorded  *)
(* as cancelled,                                                            *)
OneDeskNoCancelledInHouse == scene = "desk" => NoCancelledInHouse

(* and an unpaid stay costs what its room and nights cost.                  *)
OneDeskPriceMatchesStay == scene = "desk" => PriceMatchesStay
=============================================================================
