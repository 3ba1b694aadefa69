------------------------------ MODULE FrontDesk ------------------------------
(***************************************************************************)
(* The front office: guest stays, rooms, folios and housekeeping tasks, as  *)
(* the handlers of internal/handler/reservation_handler.go drive them.      *)
(*                                                                          *)
(* A handler reads the rows it decides on with autocommit statements and    *)
(* writes later, in one READ COMMITTED transaction or in further autocommit *)
(* statements.  Each desk therefore carries a job between its read step and *)
(* its write step, and the steps of different desks interleave.  A write    *)
(* transaction is one step: its first statement locks the stay's row (or    *)
(* inserts it), which serialises it with the others about that stay, and    *)
(* the overlap constraint waits for a conflicting writer to commit.         *)
(***************************************************************************)
EXTENDS Integers, FiniteSets

CONSTANTS
    Rooms,        \* rooms of one hotel
    Stays,        \* identifiers guest_stays rows may take (bounds the bookings)
    Desks,        \* requests being served at the same time
    LastDay,      \* bound: stays lie within days 0..LastDay
    PromoLimit,   \* promotions.usage_limit of the promo code, 0 = unlimited
    MaxUnits,     \* bound: folio charges, and payments, of one stay
    MaxTasks,     \* bound: cleaning tasks of one room that are open, or finished
    Ops,          \* the operations that this instance exercises
    None

ASSUME LastDayAssumption == LastDay \in Nat \ {0}
ASSUME LimitAssumption == PromoLimit \in Nat /\ MaxUnits \in Nat /\ MaxTasks \in Nat
ASSUME StaysAssumption == IsFiniteSet(Stays)

VARIABLES
    stay,       \* guest_stays, by id
    room,       \* rooms.status, by room
    work,       \* housekeeping_assignments of type checkout_clean, by room
    releasing,  \* inspections passed whose room update has not run yet, by room
    folio,      \* status of the folio opened for a stay
    charges,    \* units charged to that folio
    payments,   \* units of completed payments of a stay
    used,       \* promotions.used_count of the promo code
    job         \* what each desk has read and is about to write

vars == <<stay, room, work, releasing, folio, charges, payments, used, job>>
books == <<folio, charges, payments, used>>
upkeep == <<work, releasing>>

Days == 0 .. LastDay
RoomStatuses == {"available", "occupied", "cleaning", "maintenance", "out_of_order"}
StayStatuses == {"absent", "confirmed", "in_house", "checked_out", "cancelled"}
Steps == {"idle", "create_tx", "update_check", "update_tx", "move_check", "move_tx",
          "cancel_tx", "cancel_look", "cancel_free", "checkin_tx",
          "checkout_check", "checkout_tx"}

(***************************************************************************)
(* A row of guest_stays.  price is what total_amount and tax_amount were    *)
(* computed from: the room and the nights.                                  *)
(***************************************************************************)
Price == (Rooms \cup {None}) \X Days \X Days
Row == [room : Rooms \cup {None}, from : Days, to : Days, status : StayStatuses,
        in : BOOLEAN, out : BOOLEAN, price : Price, promo : BOOLEAN]

NoRow == [room |-> None, from |-> 0, to |-> 0, status |-> "absent",
          in |-> FALSE, out |-> FALSE, price |-> <<None, 0, 0>>, promo |-> FALSE]

(***************************************************************************)
(* A request in flight: the step it is at, the stay it is about and the     *)
(* copy of the row it read, the room and dates it asks for, which of the    *)
(* dates an update sets, and what it read about payments and the folio.     *)
(***************************************************************************)
Job == [at : Steps, id : Stays \cup {None}, seen : Row, room : Rooms \cup {None},
        from : Days, to : Days, sets : SUBSET {"from", "to"}, promo : BOOLEAN,
        paid : BOOLEAN, folio : BOOLEAN]

Idle == [at |-> "idle", id |-> None, seen |-> NoRow, room |-> None, from |-> 0,
         to |-> 0, sets |-> {}, promo |-> FALSE, paid |-> FALSE, folio |-> FALSE]

Init ==
    /\ stay = [s \in Stays |-> NoRow]
    /\ room = [r \in Rooms |-> "available"]
    /\ work = [r \in Rooms |-> [open |-> 0, done |-> 0]]
    /\ releasing = [r \in Rooms |-> 0]
    /\ folio = [s \in Stays |-> "none"]
    /\ charges = [s \in Stays |-> 0]
    /\ payments = [s \in Stays |-> 0]
    /\ used = 0
    /\ job = [d \in Desks |-> Idle]

-----------------------------------------------------------------------------
(***************************************************************************)
(* Queries.                                                                 *)
(***************************************************************************)
Holds(row) == row.status \notin {"absent", "cancelled"}
OverlapAtStart(row, r, from, to) == row.room = r /\ row.from >= from /\ row.from < to
Overlap(row, r, from, to) == row.room = r /\ row.from < to /\ row.to > from

RoomIsFree(r, from, to, except) ==
    \A s \in Stays \ {except} : ~(Holds(stay[s]) /\ Overlap(stay[s], r, from, to))

Sellable(status) == status \notin {"maintenance", "out_of_order"}

RoomHasActiveStay(r) ==
    \E s \in Stays : stay[s].room = r /\ stay[s].in /\ ~stay[s].out

hasCompletedPayment(s) == payments[s] > 0
folioOutstanding(s) == IF folio[s] = "open" THEN charges[s] - payments[s] ELSE 0
PromoUsesOffByOne == PromoLimit = 0 \/ used <= PromoLimit
PromoHasUses == PromoLimit = 0 \/ used < PromoLimit

(***************************************************************************)
(* The last line: constraint guest_stays_no_overlap and the dates CHECK, as *)
(* the database evaluates them on writing row under id s.                   *)
(***************************************************************************)
NoOverlapIfConfirmed(s, row) ==
    row.status = "confirmed" =>
        \A t \in Stays \ {s} : ~(stay[t].status = "confirmed" /\ Overlap(stay[t], row.room, row.from, row.to))
NoOverlapConstraint(s, row) ==
    Holds(row) => \A t \in Stays \ {s} : ~(Holds(stay[t]) /\ Overlap(stay[t], row.room, row.from, row.to))
DatesCheck(row) == row.to > row.from
Accepts(s, row) == NoOverlapConstraint(s, row) /\ DatesCheck(row)

(* An open cleaning task is raised unless the room already has one. *)
RaiseTask(w, r) == IF w[r].open > 0 THEN w ELSE [w EXCEPT ![r].open = 1]

Finish(d) == job' = [job EXCEPT ![d] = Idle]

-----------------------------------------------------------------------------
(***************************************************************************)
(* Create: the availability and promo pre-checks, then one transaction that *)
(* inserts the stay, redeems the promo and settles the payment, or nothing. *)
(* FreshIdLeft is the bound on bookings: a new id is always to be had.      *)
(***************************************************************************)
FreshIdLeft ==
    Cardinality({s \in Stays : stay[s].status = "absent"}) >
        Cardinality({d \in Desks : job[d].at = "create_tx"})

CreateJob(r, from, to, promo, pay) ==
    [Idle EXCEPT !.at = "create_tx", !.room = r, !.from = from, !.to = to, !.promo = promo,
                 !.paid = pay]

CreateRead(d) ==
    /\ "create" \in Ops /\ job[d].at = "idle"
    /\ FreshIdLeft
    /\ \E r \in Rooms, from, to \in Days, promo, pay \in BOOLEAN :
        /\ promo => "promo" \in Ops
        /\ pay => "settle" \in Ops
        /\ from < to
        /\ RoomIsFree(r, from, to, None)
        /\ promo => PromoHasUses
        /\ job' = [job EXCEPT ![d] = CreateJob(r, from, to, promo, pay)]
    /\ UNCHANGED <<stay, room, upkeep, books>>

BookedRow(j) ==
    [NoRow EXCEPT !.room = j.room, !.from = j.from, !.to = j.to, !.status = "confirmed",
                  !.price = <<j.room, j.from, j.to>>, !.promo = j.promo]

CreateTx(d) ==
    LET j == job[d] row == BookedRow(j) IN
    /\ j.at = "create_tx"
    /\ \E s \in Stays :
        /\ stay[s].status = "absent"
        /\ \/ /\ Accepts(s, row) /\ (j.promo => PromoHasUses)
              /\ stay' = [stay EXCEPT ![s] = row]
              /\ used' = IF j.promo THEN used + 1 ELSE used
              /\ payments' = IF j.paid THEN [payments EXCEPT ![s] = 1] ELSE payments
              /\ Finish(d)
           \/ /\ ~(Accepts(s, row) /\ (j.promo => PromoHasUses))
              /\ Finish(d)
              /\ UNCHANGED <<stay, used, payments>>
    /\ UNCHANGED <<room, upkeep, folio, charges>>

(***************************************************************************)
(* Update of the stay dates.  Either date may be left out of the request;   *)
(* the row's own date, as read, stands in for it in the checks and in the   *)
(* price, and only the dates given are written.                             *)
(***************************************************************************)
UpdateRead(d) ==
    /\ "update" \in Ops /\ job[d].at = "idle"
    /\ \E s \in Stays, sets \in SUBSET {"from", "to"} \ {{}}, from, to \in Days :
        /\ Holds(stay[s])
        /\ "from" \notin sets => from = stay[s].from
        /\ "to" \notin sets => to = stay[s].to
        /\ job' = [job EXCEPT ![d] = [Idle EXCEPT !.at = "update_check", !.id = s,
                       !.seen = stay[s], !.from = from, !.to = to, !.sets = sets]]
    /\ UNCHANGED <<stay, room, upkeep, books>>

UpdateCheck(d) ==
    LET j == job[d]
        ok == /\ ~hasCompletedPayment(j.id)
              /\ j.to > j.from
              /\ RoomIsFree(j.seen.room, j.from, j.to, j.id) IN
    /\ j.at = "update_check"
    /\ \/ ok /\ job' = [job EXCEPT ![d].at = "update_tx"]
       \/ ~ok /\ Finish(d)
    /\ UNCHANGED <<stay, room, upkeep, books>>

UpdatedRow(row, j) ==
    [row EXCEPT !.from = IF "from" \in j.sets THEN j.from ELSE @,
                !.to = IF "to" \in j.sets THEN j.to ELSE @,
                !.price = <<j.seen.room, j.from, j.to>>]

UpdateTx(d) ==
    LET j == job[d] row == UpdatedRow(stay[j.id], j) IN
    /\ j.at = "update_tx"
    /\ \/ /\ Accepts(j.id, row)
          /\ stay' = [stay EXCEPT ![j.id] = row]
          /\ Finish(d)
       \/ /\ ~Accepts(j.id, row)
          /\ Finish(d)
          /\ UNCHANGED stay
    /\ UNCHANGED <<room, upkeep, books>>

(***************************************************************************)
(* MoveRoom.  The transaction reprices the stay unless it was paid, and if  *)
(* the guest was in house hands the old room to housekeeping; all three are *)
(* decided on the row read first.                                           *)
(***************************************************************************)
MoveRead(d) ==
    /\ "move" \in Ops /\ job[d].at = "idle"
    /\ \E s \in Stays, r \in Rooms :
        /\ Holds(stay[s]) /\ ~stay[s].out /\ stay[s].room # r
        /\ job' = [job EXCEPT ![d] = [Idle EXCEPT !.at = "move_check", !.id = s,
                       !.seen = stay[s], !.room = r]]
    /\ UNCHANGED <<stay, room, upkeep, books>>

MoveCheck(d) ==
    LET j == job[d]
        ok == Sellable(room[j.room]) /\ RoomIsFree(j.room, j.seen.from, j.seen.to, j.id) IN
    /\ j.at = "move_check"
    /\ \/ ok /\ job' = [job EXCEPT ![d].at = "move_tx", ![d].paid = hasCompletedPayment(j.id)]
       \/ ~ok /\ Finish(d)
    /\ UNCHANGED <<stay, room, upkeep, books>>

MovedRowOldPrice(row, j) == [row EXCEPT !.room = j.room]
MovedRow(row, j) ==
    [row EXCEPT !.room = j.room,
                !.price = IF j.paid THEN @ ELSE <<j.room, j.seen.from, j.seen.to>>]

MoveTx(d) ==
    LET j == job[d] row == MovedRow(stay[j.id], j) IN
    /\ j.at = "move_tx"
    /\ \/ /\ Accepts(j.id, row)
          /\ stay' = [stay EXCEPT ![j.id] = row]
          /\ IF j.seen.in
             THEN /\ room' = [room EXCEPT ![j.room] = "occupied", ![j.seen.room] = "cleaning"]
                  /\ work' = RaiseTask(work, j.seen.room)
             ELSE UNCHANGED <<room, work>>
          /\ Finish(d)
       \/ /\ ~Accepts(j.id, row)
          /\ Finish(d)
          /\ UNCHANGED <<stay, room, work>>
    /\ UNCHANGED <<releasing, books>>

(***************************************************************************)
(* Cancel: the row and its payments are read, SoftCancelStay marks the row  *)
(* with its own guard, and two further statements release the room.         *)
(***************************************************************************)
CancelReadAnyStay(d) ==
    /\ "cancel" \in Ops /\ job[d].at = "idle"
    /\ \E s \in Stays :
        /\ Holds(stay[s]) /\ ~hasCompletedPayment(s)
        /\ job' = [job EXCEPT ![d] = [Idle EXCEPT !.at = "cancel_tx", !.id = s, !.seen = stay[s]]]
    /\ UNCHANGED <<stay, room, upkeep, books>>

CancelRead(d) ==
    /\ "cancel" \in Ops /\ job[d].at = "idle"
    /\ \E s \in Stays :
        /\ Holds(stay[s]) /\ ~stay[s].in /\ ~hasCompletedPayment(s)
        /\ job' = [job EXCEPT ![d] = [Idle EXCEPT !.at = "cancel_tx", !.id = s, !.seen = stay[s]]]
    /\ UNCHANGED <<stay, room, upkeep, books>>

SoftCancelStay(d) ==
    LET j == job[d] IN
    /\ j.at = "cancel_tx"
    /\ \/ /\ Holds(stay[j.id])
          /\ stay' = [stay EXCEPT ![j.id].status = "cancelled"]
          /\ job' = [job EXCEPT ![d].at = "cancel_look"]
       \/ /\ ~Holds(stay[j.id])
          /\ Finish(d)
          /\ UNCHANGED stay
    /\ UNCHANGED <<room, upkeep, books>>

CancelLook(d) ==
    LET j == job[d] IN
    /\ j.at = "cancel_look"
    /\ \/ RoomHasActiveStay(j.seen.room) /\ Finish(d)
       \/ ~RoomHasActiveStay(j.seen.room) /\ job' = [job EXCEPT ![d].at = "cancel_free"]
    /\ UNCHANGED <<stay, room, upkeep, books>>

CancelFree(d) ==
    /\ job[d].at = "cancel_free"
    /\ room' = [room EXCEPT ![job[d].seen.room] = "available"]
    /\ Finish(d)
    /\ UNCHANGED <<stay, upkeep, books>>

(***************************************************************************)
(* CheckIn: the stay, the room and the folio move together, on a guard read *)
(* before the transaction.                                                  *)
(***************************************************************************)
CheckInRead(d) ==
    /\ "checkin" \in Ops /\ job[d].at = "idle"
    /\ \E s \in Stays :
        /\ Holds(stay[s]) /\ ~stay[s].in
        /\ job' = [job EXCEPT ![d] = [Idle EXCEPT !.at = "checkin_tx", !.id = s, !.seen = stay[s]]]
    /\ UNCHANGED <<stay, room, upkeep, books>>

ReopenFolioOnly(s) ==
    folio' = IF folio[s] = "closed" THEN [folio EXCEPT ![s] = "open"] ELSE folio

EnsureFolioForBooking(s) ==
    folio' = IF folio[s] = "none" THEN [folio EXCEPT ![s] = "open"] ELSE folio

CheckInTx(d) ==
    LET j == job[d] row == [stay[j.id] EXCEPT !.in = TRUE, !.status = "in_house"] IN
    /\ j.at = "checkin_tx"
    /\ \/ /\ Accepts(j.id, row)
          /\ stay' = [stay EXCEPT ![j.id] = row]
          /\ room' = [room EXCEPT ![j.seen.room] = "occupied"]
          /\ EnsureFolioForBooking(j.id)
          /\ Finish(d)
       \/ /\ ~Accepts(j.id, row)
          /\ Finish(d)
          /\ UNCHANGED <<stay, room, folio>>
    /\ UNCHANGED <<upkeep, charges, payments, used>>

(***************************************************************************)
(* CheckOut: the folio balance is read, and refused unless it is settled or *)
(* the desk overrides, before the transaction that ends the stay, closes    *)
(* the folio read and hands the room to housekeeping.                       *)
(***************************************************************************)
CheckOutRead(d) ==
    /\ "checkout" \in Ops /\ job[d].at = "idle"
    /\ \E s \in Stays :
        /\ stay[s].in /\ ~stay[s].out
        /\ job' = [job EXCEPT ![d] = [Idle EXCEPT !.at = "checkout_check", !.id = s, !.seen = stay[s]]]
    /\ UNCHANGED <<stay, room, upkeep, books>>

CheckOutBalance(d) ==
    LET j == job[d] IN
    /\ j.at = "checkout_check"
    /\ \E allow_outstanding \in BOOLEAN :
        \/ /\ folioOutstanding(j.id) <= 0 \/ allow_outstanding
           /\ job' = [job EXCEPT ![d].at = "checkout_tx", ![d].folio = folio[j.id] = "open"]
        \/ /\ folioOutstanding(j.id) > 0 /\ ~allow_outstanding
           /\ Finish(d)
    /\ UNCHANGED <<stay, room, upkeep, books>>

CheckOutTx(d) ==
    LET j == job[d] row == [stay[j.id] EXCEPT !.out = TRUE, !.status = "checked_out"] IN
    /\ j.at = "checkout_tx"
    /\ \/ /\ Accepts(j.id, row)
          /\ stay' = [stay EXCEPT ![j.id] = row]
          /\ room' = [room EXCEPT ![j.seen.room] = "cleaning"]
          /\ folio' = IF j.folio THEN [folio EXCEPT ![j.id] = "closed"] ELSE folio
          /\ work' = RaiseTask(work, j.seen.room)
          /\ Finish(d)
       \/ /\ ~Accepts(j.id, row)
          /\ Finish(d)
          /\ UNCHANGED <<stay, room, folio, work>>
    /\ UNCHANGED <<releasing, charges, payments, used>>

-----------------------------------------------------------------------------
(***************************************************************************)
(* Billing: the cashier's own folio, charges and payments.  AddCharge does  *)
(* not look at the folio's status; a meal signed to the room asks for a     *)
(* guest in house and an open folio.  Bounds: one folio a stay, MaxUnits.   *)
(***************************************************************************)
CreateFolio(s) ==
    /\ "pay" \in Ops /\ stay[s].status # "absent" /\ folio[s] = "none"
    /\ folio' = [folio EXCEPT ![s] = "open"]
    /\ UNCHANGED <<stay, room, upkeep, charges, payments, used, job>>

AddCharge(s) ==
    /\ "charge" \in Ops /\ folio[s] # "none" /\ charges[s] < MaxUnits
    /\ charges' = [charges EXCEPT ![s] = @ + 1]
    /\ UNCHANGED <<stay, room, upkeep, folio, payments, used, job>>

RoomCharge(s) ==
    /\ "charge" \in Ops /\ charges[s] < MaxUnits
    /\ Holds(stay[s]) /\ stay[s].in /\ ~stay[s].out
    /\ charges' = [charges EXCEPT ![s] = IF folio[s] = "closed" THEN 1 ELSE @ + 1]
    /\ folio' = [folio EXCEPT ![s] = "open"]
    /\ UNCHANGED <<stay, room, upkeep, payments, used, job>>

RecordPayment(s) ==
    /\ "pay" \in Ops /\ folio[s] # "none" /\ payments[s] < MaxUnits
    /\ payments' = [payments EXCEPT ![s] = @ + 1]
    /\ UNCHANGED <<stay, room, upkeep, folio, charges, used, job>>

(***************************************************************************)
(* Housekeeping.  The floor reports a task done; a supervisor signs off     *)
(* finished work, which in a second statement returns a cleaning room to    *)
(* sale, or sends it back.  UpdateTask accepts any status (a task that it   *)
(* takes off the board or reopens), and CreateTask asks for no reason.      *)
(***************************************************************************)
FinishTaskOffers(r) ==
    /\ "clean" \in Ops /\ work[r].open > 0 /\ work[r].done < MaxTasks
    /\ work' = [work EXCEPT ![r].open = @ - 1, ![r].done = @ + 1]
    /\ room' = [room EXCEPT ![r] = IF @ = "cleaning" THEN "available" ELSE @]
    /\ UNCHANGED <<stay, releasing, books, job>>

FinishTask(r) ==
    /\ "clean" \in Ops /\ work[r].open > 0 /\ work[r].done < MaxTasks
    /\ work' = [work EXCEPT ![r].open = @ - 1, ![r].done = @ + 1]
    /\ UNCHANGED <<stay, room, releasing, books, job>>

InspectTask(r, passed) ==
    /\ "clean" \in Ops /\ work[r].done > 0 /\ releasing[r] < MaxTasks
    /\ IF passed
       THEN /\ work' = [work EXCEPT ![r].done = @ - 1]
            /\ releasing' = [releasing EXCEPT ![r] = @ + 1]
       ELSE /\ work' = [work EXCEPT ![r].done = @ - 1, ![r].open = @ + 1]
            /\ UNCHANGED releasing
    /\ UNCHANGED <<stay, room, books, job>>

ReleaseRoom(r) ==
    /\ releasing[r] > 0
    /\ releasing' = [releasing EXCEPT ![r] = @ - 1]
    /\ room' = [room EXCEPT ![r] = IF @ = "cleaning" THEN "available" ELSE @]
    /\ UNCHANGED <<stay, work, books, job>>

CreateTask(r) ==
    /\ "task" \in Ops /\ work[r].open < MaxTasks
    /\ work' = [work EXCEPT ![r].open = @ + 1]
    /\ UNCHANGED <<stay, room, releasing, books, job>>

UpdateTask(r) ==
    /\ "task" \in Ops
    /\ \/ work[r].open > 0 /\ work' = [work EXCEPT ![r].open = @ - 1]
       \/ work[r].done > 0 /\ work' = [work EXCEPT ![r].done = @ - 1]
       \/ work[r].done > 0 /\ work' = [work EXCEPT ![r].done = @ - 1, ![r].open = @ + 1]
    /\ UNCHANGED <<stay, room, releasing, books, job>>

(* RoomHandler.UpdateStatus: staff set any valid status. *)
UpdateStatus(r, status) ==
    /\ "status" \in Ops
    /\ room' = [room EXCEPT ![r] = status]
    /\ UNCHANGED <<stay, upkeep, books, job>>

-----------------------------------------------------------------------------
DeskStep(d) ==
    \/ CreateRead(d) \/ CreateTx(d)
    \/ UpdateRead(d) \/ UpdateCheck(d) \/ UpdateTx(d)
    \/ MoveRead(d) \/ MoveCheck(d) \/ MoveTx(d)
    \/ CancelRead(d) \/ SoftCancelStay(d) \/ CancelLook(d) \/ CancelFree(d)
    \/ CheckInRead(d) \/ CheckInTx(d)
    \/ CheckOutRead(d) \/ CheckOutBalance(d) \/ CheckOutTx(d)

BillingStep(s) == CreateFolio(s) \/ AddCharge(s) \/ RoomCharge(s) \/ RecordPayment(s)

FloorStep(r) ==
    \/ FinishTask(r) \/ ReleaseRoom(r) \/ CreateTask(r) \/ UpdateTask(r)
    \/ \E passed \in BOOLEAN : InspectTask(r, passed)
    \/ \E status \in RoomStatuses : UpdateStatus(r, status)

Next ==
    \/ \E d \in Desks : DeskStep(d)
    \/ \E s \in Stays : BillingStep(s)
    \/ \E r \in Rooms : FloorStep(r)

Spec == Init /\ [][Next]_vars

-----------------------------------------------------------------------------
(* The front desk implements the room calendar: what a live stay holds.     *)
heldSlots == [s \in Stays |-> IF Holds(stay[s]) THEN <<stay[s].room, stay[s].from, stay[s].to>>
                                               ELSE None]
Calendar == INSTANCE RoomCalendar WITH held <- heldSlots

(* Every step of every desk is a step of the calendar: a slot is taken only *)
(* while it is free of all others, or given up, or nothing changes.         *)
CalendarSpec == Calendar!Spec

(* Every variable has the shape the code gives it. *)
TypeOK ==
    /\ stay \in [Stays -> Row]
    /\ room \in [Rooms -> RoomStatuses]
    /\ work \in [Rooms -> [open : Nat, done : Nat]]
    /\ releasing \in [Rooms -> Nat]
    /\ folio \in [Stays -> {"none", "open", "closed"}]
    /\ charges \in [Stays -> Nat]
    /\ payments \in [Stays -> Nat]
    /\ used \in Nat
    /\ job \in [Desks -> Job]

(* No two live stays hold one room on overlapping nights, whatever the      *)
(* desks' stale pre-checks let through: Create, Update, MoveRoom and also   *)
(* CheckIn, which can put a stay cancelled meanwhile back on the calendar.  *)
NoDoubleBooking ==
    \A s, t \in Stays :
        s # t /\ Holds(stay[s]) /\ Holds(stay[t])
            => ~Overlap(stay[s], stay[t].room, stay[t].from, stay[t].to)

(* A stay never ends before it begins, although each Update cross-checks    *)
(* only the dates it read: two updates of one date each cannot invert it.   *)
DatesOrdered == \A s \in Stays : stay[s].status # "absent" => stay[s].from < stay[s].to

(* The status and the arrival and departure marks tell one story: nobody    *)
(* left without arriving, a guest in house has arrived, a departed one has  *)
(* left, and whoever arrived has a folio for charges to post to.            *)
LifecycleConsistent ==
    \A s \in Stays :
        /\ stay[s].out => stay[s].in
        /\ stay[s].status = "in_house" => stay[s].in
        /\ stay[s].status = "checked_out" => stay[s].out
        /\ stay[s].in => folio[s] # "none"

(* A promo code is used as often as bookings carry it and never past its    *)
(* limit, although every desk checks the limit before its transaction.      *)
PromoWithinLimit ==
    /\ PromoLimit > 0 => used <= PromoLimit
    /\ used = Cardinality({s \in Stays : stay[s].promo})

(* A room is put back on sale dirty by nothing but the release after a      *)
(* passed inspection, which may come late, and a cancellation, which does   *)
(* not look: neither a finished task nor a move nor a departure does it.    *)
OfferedAfterInspection(r) ==
    room[r] = "cleaning" /\ room'[r] = "available"
        => \/ releasing'[r] < releasing[r]
           \/ \E d \in Desks : job[d].at = "cancel_free" /\ job[d].seen.room = r

StaysEnded(s) ==
    stay[s].status \in {"cancelled", "checked_out"} => stay'[s].status # "in_house"

(* "A stay can only be checked in once": a cancelled or departed stay is    *)
(* never turned back into one in house.                                     *)
NeverResurrected == [][\A s \in Stays : StaysEnded(s)]_vars

(* A guest who is in the house is not recorded as cancelled.                *)
NoCancelledInHouse ==
    \A s \in Stays : ~(stay[s].status = "cancelled" /\ stay[s].in /\ ~stay[s].out)

(* The amount of an unpaid stay was computed from the room and the nights   *)
(* it is booked for.                                                        *)
PriceMatchesStay ==
    \A s \in Stays : Holds(stay[s]) /\ payments[s] = 0
        => stay[s].price = <<stay[s].room, stay[s].from, stay[s].to>>

=============================================================================
