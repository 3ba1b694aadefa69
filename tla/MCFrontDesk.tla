---------------------------- MODULE MCFrontDesk ----------------------------
(* Instances of FrontDesk for TLC: the operations each run exercises and    *)
(* the permutations under which its states are the same.                    *)
EXTENDS FrontDesk, TLC

CalendarOps == {"create", "update", "cancel", "checkin"}
RaceOps == {"create", "cancel", "checkin", "checkout"}

(* The steps of the four operations that move the calendar, as a run of     *)
(* their own; the scenes of MCHouse have the others.                        *)
BookingsStep(d) ==
    \/ CreateRead(d) \/ CreateTx(d)
    \/ UpdateRead(d) \/ UpdateCheck(d) \/ UpdateTx(d)
    \/ CancelRead(d) \/ SoftCancelStay(d) \/ CancelLook(d) \/ CancelFree(d)
    \/ CheckInRead(d) \/ CheckInTx(d)
BookingsSpec == Init /\ [][\E d \in Desks : BookingsStep(d)]_vars

Symmetry == Permutations(Stays) \cup Permutations(Desks) \cup Permutations(Rooms)
=============================================================================
