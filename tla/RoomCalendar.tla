---------------------------- MODULE RoomCalendar ----------------------------
(***************************************************************************)
(* What every writer of guest_stays promises: a calendar of room nights in  *)
(* which a stay takes a slot only while no other stay's slot shares a night *)
(* of the same room with it, and may give its slot up at any time.          *)
(***************************************************************************)
EXTENDS Integers

CONSTANTS Rooms, Stays, LastDay, None
VARIABLE held   \* the slot each stay holds, or None

Slots == {slot \in Rooms \X (0 .. LastDay) \X (0 .. LastDay) : slot[2] < slot[3]}

(* Half-open intervals: a guest leaving on day n does not block one arriving. *)
Clash(a, b) == a[1] = b[1] /\ a[2] < b[3] /\ b[2] < a[3]

Init == held = [s \in Stays |-> None]

Hold(s, slot) ==
    /\ \A t \in Stays \ {s} : held[t] # None => ~Clash(held[t], slot)
    /\ held' = [held EXCEPT ![s] = slot]

Release(s) == held' = [held EXCEPT ![s] = None]

Next == \E s \in Stays : Release(s) \/ \E slot \in Slots : Hold(s, slot)

Spec == Init /\ [][Next]_held
=============================================================================
