------------------------------ MODULE FrontDeskProofs ------------------------------
(***************************************************************************)
(* Proofs about the front desk and the folios of a stay, for every hotel,  *)
(* every number of desks and every bound: the types, the room calendar and *)
(* the lifecycle of a stay; then what a stay owes, is charged and has paid *)
(* when it is closed.                                                      *)
(***************************************************************************)
EXTENDS FrontDesk, Folios, TLAPS

(* A stored stay has a room; an id not yet used carries no marks.           *)
RowsSane ==
    \A s \in Stays :
        /\ stay[s].status # "absent" => stay[s].room \in Rooms
        /\ stay[s].status = "absent" => ~stay[s].in /\ ~stay[s].out /\ ~stay[s].promo

(* What a job at each step relies on: the room it asks for, that the stay   *)
(* it read still exists, and that a departing guest has arrived.            *)
JobOK(j, rows) ==
    /\ j.at \in {"create_tx", "move_check", "move_tx"} => j.room \in Rooms
    /\ j.at \notin {"idle", "create_tx"} => j.id \in Stays /\ rows[j.id].status # "absent"
    /\ j.at \in {"checkout_check", "checkout_tx"} => rows[j.id].in
JobsSane == \A d \in Desks : JobOK(job[d], stay)

Inv == TypeOK /\ RowsSane /\ JobsSane /\ NoDoubleBooking /\ DatesOrdered /\ LifecycleConsistent

-----------------------------------------------------------------------------
(* The empty row and the idle job are well formed. *)
LEMMA Blanks == NoRow \in Row /\ Idle \in Job
<1> USE LastDayAssumption
<1>1. 0 \in Days  BY SMTT(30) DEF Days
<1>2. NoRow \in Row  BY <1>1, Zenon DEF NoRow, Row, Price, StayStatuses
<1>3. Idle \in Job  BY <1>1, <1>2, Zenon DEF Idle, Job, Steps
<1> QED  BY <1>2, <1>3, Zenon

(* The initial state satisfies the invariant. *)
LEMMA InitInv == Init => Inv
<1> SUFFICES ASSUME Init PROVE Inv  BY Zenon
<1> USE DEF Init
<1>1. TypeOK  BY Blanks, Zenon DEF TypeOK, RoomStatuses
<1>2. RowsSane  BY Zenon DEF RowsSane, NoRow
<1>3. JobsSane  BY Zenon DEF JobsSane, JobOK, Idle
<1>4. NoDoubleBooking  BY Zenon DEF NoDoubleBooking, Holds, NoRow
<1>5. DatesOrdered  BY Zenon DEF DatesOrdered, NoRow
<1>6. LifecycleConsistent  BY Zenon DEF LifecycleConsistent, NoRow
<1> QED  BY <1>1, <1>2, <1>3, <1>4, <1>5, <1>6, Zenon DEF Inv

(* Writing a row the database accepts keeps the calendar and the dates. *)
LEMMA WriteKeepsCalendar ==
    ASSUME TypeOK, NoDoubleBooking, DatesOrdered,
           NEW s \in Stays, NEW row \in Row, Accepts(s, row),
           stay' = [stay EXCEPT ![s] = row]
    PROVE  NoDoubleBooking' /\ DatesOrdered'
<1>1. \A t \in Stays : stay'[t] = IF t = s THEN row ELSE stay[t]  BY Zenon DEF TypeOK
<1>2. \A t \in Stays : stay[t] \in Row  BY Zenon DEF TypeOK
<1>3. NoDoubleBooking'
  <2> SUFFICES ASSUME NEW t \in Stays, NEW u \in Stays, t # u,
                      Holds(stay'[t]), Holds(stay'[u])
               PROVE  ~Overlap(stay'[t], stay'[u].room, stay'[u].from, stay'[u].to)
    BY Zenon DEF NoDoubleBooking, Holds, Overlap
  <2>1. CASE t # s /\ u # s  BY <1>1, <2>1, Zenon DEF NoDoubleBooking
  <2>2. CASE u = s  BY <1>1, <2>2, Zenon DEF Accepts, NoOverlapConstraint
  <2>3. CASE t = s
    <3>1. ~Overlap(stay[u], row.room, row.from, row.to)
      BY <1>1, <2>3, Zenon DEF Accepts, NoOverlapConstraint
    <3>2. stay[u].from \in Int /\ stay[u].to \in Int /\ row.from \in Int /\ row.to \in Int
      BY <1>2, SMTT(30) DEF Row, Days
    <3> QED  BY <1>1, <2>3, <3>1, <3>2, Zenon DEF Overlap
  <2> QED  BY <2>1, <2>2, <2>3, Zenon
<1>4. DatesOrdered'
  <2> SUFFICES ASSUME NEW t \in Stays, stay'[t].status # "absent"
               PROVE  stay'[t].from < stay'[t].to
    BY Zenon DEF DatesOrdered
  <2>1. CASE t = s
    <3>1. row.from \in Int /\ row.to \in Int  BY SMTT(30) DEF Row, Days
    <3> QED  BY <1>1, <2>1, <3>1, Zenon DEF Accepts, DatesCheck
  <2>2. CASE t # s  BY <1>1, <2>2, Zenon DEF DatesOrdered
  <2> QED  BY <2>1, <2>2, Zenon
<1> QED  BY <1>3, <1>4, Zenon

(* A step that only moves a desk's job on: reads, checks and refusals. *)
LEMMA ReadStep ==
    ASSUME Inv, NEW d \in Desks, NEW j \in Job, JobOK(j, stay),
           job' = [job EXCEPT ![d] = j], UNCHANGED <<stay, room, upkeep, books>>
    PROVE  Inv'
<1> USE DEF upkeep, books
<1>1. TypeOK'  BY Zenon DEF Inv, TypeOK
<1>2. JobsSane'  BY Zenon DEF Inv, TypeOK, JobsSane, JobOK
<1>3. RowsSane' /\ NoDoubleBooking' /\ DatesOrdered' /\ LifecycleConsistent'
  BY Zenon DEF Inv, RowsSane, NoDoubleBooking, DatesOrdered, LifecycleConsistent, Holds, Overlap
<1> QED  BY <1>1, <1>2, <1>3, Zenon DEF Inv

(* A step that stores a row the database accepts and moves a desk's job on. *)
LEMMA WriteStep ==
    ASSUME Inv, NEW d \in Desks, NEW j \in Job, NEW s \in Stays, NEW row \in Row,
           Accepts(s, row), stay' = [stay EXCEPT ![s] = row], job' = [job EXCEPT ![d] = j],
           row.status # "absent", row.room \in Rooms, stay[s].in => row.in,
           row.out => row.in, row.status = "in_house" => row.in,
           row.status = "checked_out" => row.out, row.in => folio'[s] # "none",
           \A t \in Stays : folio[t] # "none" => folio'[t] # "none",
           room' \in [Rooms -> RoomStatuses], work' \in [Rooms -> [open : Nat, done : Nat]],
           releasing' \in [Rooms -> Nat], folio' \in [Stays -> {"none", "open", "closed"}],
           charges' \in [Stays -> Nat], payments' \in [Stays -> Nat], used' \in Nat,
           JobOK(j, stay')
    PROVE  Inv'
<1>1. \A t \in Stays : stay'[t] = IF t = s THEN row ELSE stay[t]  BY Zenon DEF Inv, TypeOK
<1>2. TypeOK'  BY Zenon DEF Inv, TypeOK
<1>3. RowsSane'  BY <1>1, Zenon DEF Inv, RowsSane
<1>4. JobsSane'
  <2> SUFFICES ASSUME NEW e \in Desks PROVE JobOK(job'[e], stay')  BY Zenon DEF JobsSane
  <2>1. CASE e = d  BY <2>1, Zenon DEF Inv, TypeOK
  <2>2. CASE e # d
    <3>1. job'[e] = job[e] /\ JobOK(job[e], stay)  BY <2>2, Zenon DEF Inv, TypeOK, JobsSane
    <3> QED  BY <1>1, <3>1, SMTT(30) DEF JobOK
  <2> QED  BY <2>1, <2>2, Zenon
<1>5. NoDoubleBooking' /\ DatesOrdered'  BY WriteKeepsCalendar, Zenon DEF Inv
<1>6. LifecycleConsistent'  BY <1>1, SMTT(30) DEF Inv, LifecycleConsistent
<1> QED  BY <1>2, <1>3, <1>4, <1>5, <1>6, Zenon DEF Inv

(* A step of billing or housekeeping, which touches neither stays nor desks. *)
LEMMA SideStep ==
    ASSUME Inv, UNCHANGED <<stay, job>>,
           \A t \in Stays : folio[t] # "none" => folio'[t] # "none",
           room' \in [Rooms -> RoomStatuses], work' \in [Rooms -> [open : Nat, done : Nat]],
           releasing' \in [Rooms -> Nat], folio' \in [Stays -> {"none", "open", "closed"}],
           charges' \in [Stays -> Nat], payments' \in [Stays -> Nat], used' \in Nat
    PROVE  Inv'
<1>1. TypeOK'  BY Zenon DEF Inv, TypeOK
<1>2. RowsSane' /\ JobsSane' /\ NoDoubleBooking' /\ DatesOrdered' /\ LifecycleConsistent'
  BY Zenon DEF Inv, RowsSane, JobsSane, JobOK, NoDoubleBooking, DatesOrdered, LifecycleConsistent,
         Holds, Overlap
<1> QED  BY <1>1, <1>2, Zenon DEF Inv

-----------------------------------------------------------------------------
(* A desk that finishes, or is refused, is idle again. *)
LEMMA Finished == JobOK(Idle, stay) /\ JobOK(Idle, stay')
<1>1. Idle \in Job /\ Idle.at = "idle"  BY Blanks, Zenon DEF Idle
<1> QED  BY <1>1, Zenon DEF JobOK

(* A handler that returns without writing, or whose write is refused.       *)
LEMMA FinishStep ==
    ASSUME Inv, NEW d \in Desks, Finish(d), UNCHANGED <<stay, room, upkeep, books>>
    PROVE  Inv'
BY ReadStep, Finished, Blanks, Zenon DEF Finish

(* The first step of an update, a move, a cancellation, a check-in or a     *)
(* check-out keeps a copy of a stored row.                                  *)
LEMMA ReadsAStay ==
    ASSUME Inv, NEW d \in Desks, NEW s \in Stays, stay[s].status # "absent", NEW j \in Job,
           j.id = s, j.at \in {"move_check"} => j.room \in Rooms,
           j.at \in {"checkout_check"} => stay[s].in,
           j.at \in {"update_check", "move_check", "cancel_tx", "checkin_tx", "checkout_check"},
           job' = [job EXCEPT ![d] = j], UNCHANGED <<stay, room, upkeep, books>>
    PROVE  Inv'
<1>1. JobOK(j, stay)  BY Zenon DEF JobOK
<1> QED  BY <1>1, ReadStep, Zenon

(* The first read of every handler keeps the invariant. *)
LEMMA ReadingKeepsInv ==
    ASSUME Inv, NEW d \in Desks,
           \/ CreateRead(d) \/ UpdateRead(d) \/ MoveRead(d) \/ CancelRead(d)
           \/ CheckInRead(d) \/ CheckOutRead(d)
    PROVE  Inv'
<1> USE Blanks
<1>0. \A s \in Stays : stay[s] \in Row  BY Zenon DEF Inv, TypeOK
<1>1. CASE CreateRead(d)
  <2>1. PICK r \in Rooms, from \in Days, to \in Days, promo \in BOOLEAN, pay \in BOOLEAN :
          job' = [job EXCEPT ![d] = CreateJob(r, from, to, promo, pay)]
    BY <1>1, Zenon DEF CreateRead
  <2> DEFINE j == CreateJob(r, from, to, promo, pay)
  <2>2. j \in Job /\ j.at = "create_tx" /\ j.room = r  BY Zenon DEF CreateJob, Job, Steps
  <2>3. JobOK(j, stay)  BY <2>2, Zenon DEF JobOK
  <2>4. UNCHANGED <<stay, room, upkeep, books>>  BY <1>1, Zenon DEF CreateRead
  <2> QED  BY <2>1, <2>2, <2>3, <2>4, ReadStep, Zenon
<1>2. CASE UpdateRead(d)
  <2>1. PICK s \in Stays, sets \in SUBSET {"from", "to"}, from \in Days, to \in Days :
          /\ Holds(stay[s])
          /\ job' = [job EXCEPT ![d] = [Idle EXCEPT !.at = "update_check", !.id = s,
                       !.seen = stay[s], !.from = from, !.to = to, !.sets = sets]]
    BY <1>2, ZenonT(30) DEF UpdateRead
  <2> DEFINE j == [Idle EXCEPT !.at = "update_check", !.id = s,
                       !.seen = stay[s], !.from = from, !.to = to, !.sets = sets]
  <2>2. j \in Job /\ j.at = "update_check" /\ j.id = s  BY <1>0, Zenon DEF Job, Steps
  <2>3. UNCHANGED <<stay, room, upkeep, books>>  BY <1>2, Zenon DEF UpdateRead
  <2>4. stay[s].status # "absent"  BY <2>1, Zenon DEF Holds
  <2> QED  BY <2>1, <2>2, <2>3, <2>4, ReadsAStay, Zenon
<1>3. CASE MoveRead(d)
  <2>1. PICK s \in Stays, r \in Rooms :
          /\ Holds(stay[s])
          /\ job' = [job EXCEPT ![d] = [Idle EXCEPT !.at = "move_check", !.id = s,
                       !.seen = stay[s], !.room = r]]
    BY <1>3, Zenon DEF MoveRead
  <2> DEFINE j == [Idle EXCEPT !.at = "move_check", !.id = s, !.seen = stay[s], !.room = r]
  <2>2. j \in Job /\ j.at = "move_check" /\ j.id = s /\ j.room = r  BY <1>0, Zenon DEF Job, Steps
  <2>3. UNCHANGED <<stay, room, upkeep, books>>  BY <1>3, Zenon DEF MoveRead
  <2>4. stay[s].status # "absent"  BY <2>1, Zenon DEF Holds
  <2> QED  BY <2>1, <2>2, <2>3, <2>4, ReadsAStay, Zenon
<1>4. CASE CancelRead(d)
  <2>1. PICK s \in Stays :
          /\ Holds(stay[s])
          /\ job' = [job EXCEPT ![d] = [Idle EXCEPT !.at = "cancel_tx", !.id = s, !.seen = stay[s]]]
    BY <1>4, Zenon DEF CancelRead
  <2> DEFINE j == [Idle EXCEPT !.at = "cancel_tx", !.id = s, !.seen = stay[s]]
  <2>2. j \in Job /\ j.at = "cancel_tx" /\ j.id = s  BY <1>0, Zenon DEF Job, Steps
  <2>3. UNCHANGED <<stay, room, upkeep, books>>  BY <1>4, Zenon DEF CancelRead
  <2>4. stay[s].status # "absent"  BY <2>1, Zenon DEF Holds
  <2> QED  BY <2>1, <2>2, <2>3, <2>4, ReadsAStay, Zenon
<1>5. CASE CheckInRead(d)
  <2>1. PICK s \in Stays :
          /\ Holds(stay[s])
          /\ job' = [job EXCEPT ![d] = [Idle EXCEPT !.at = "checkin_tx", !.id = s, !.seen = stay[s]]]
    BY <1>5, Zenon DEF CheckInRead
  <2> DEFINE j == [Idle EXCEPT !.at = "checkin_tx", !.id = s, !.seen = stay[s]]
  <2>2. j \in Job /\ j.at = "checkin_tx" /\ j.id = s  BY <1>0, Zenon DEF Job, Steps
  <2>3. UNCHANGED <<stay, room, upkeep, books>>  BY <1>5, Zenon DEF CheckInRead
  <2>4. stay[s].status # "absent"  BY <2>1, Zenon DEF Holds
  <2> QED  BY <2>1, <2>2, <2>3, <2>4, ReadsAStay, Zenon
<1>6. CASE CheckOutRead(d)
  <2>1. PICK s \in Stays :
          /\ stay[s].in
          /\ job' = [job EXCEPT ![d] = [Idle EXCEPT !.at = "checkout_check", !.id = s, !.seen = stay[s]]]
    BY <1>6, Zenon DEF CheckOutRead
  <2> DEFINE j == [Idle EXCEPT !.at = "checkout_check", !.id = s, !.seen = stay[s]]
  <2>2. j \in Job /\ j.at = "checkout_check" /\ j.id = s  BY <1>0, Zenon DEF Job, Steps
  <2>3. UNCHANGED <<stay, room, upkeep, books>>  BY <1>6, Zenon DEF CheckOutRead
  <2>4. stay[s].status # "absent"  BY <2>1, Zenon DEF Inv, RowsSane
  <2> QED  BY <2>1, <2>2, <2>3, <2>4, ReadsAStay, Zenon
<1> QED  BY <1>1, <1>2, <1>3, <1>4, <1>5, <1>6, Zenon

(* The checks made between the first read and the write keep the invariant. *)
LEMMA CheckingKeepsInv ==
    ASSUME Inv, NEW d \in Desks,
           UpdateCheck(d) \/ MoveCheck(d) \/ CancelLook(d) \/ CheckOutBalance(d)
    PROVE  Inv'
<1>0. job[d] \in Job /\ JobOK(job[d], stay)  BY Zenon DEF Inv, TypeOK, JobsSane
<1>1. UNCHANGED <<stay, room, upkeep, books>>
  BY Zenon DEF UpdateCheck, MoveCheck, CancelLook, CheckOutBalance
<1>2. CASE Finish(d)  BY <1>1, <1>2, FinishStep, Zenon
<1>3. CASE job[d].at = "update_check" /\ job' = [job EXCEPT ![d].at = "update_tx"]
  <2> DEFINE j == [job[d] EXCEPT !.at = "update_tx"]
  <2>1. j \in Job  BY <1>0, Zenon DEF Job, Steps
  <2>2. JobOK(j, stay)  BY <1>0, <1>3, Zenon DEF Job, JobOK
  <2>3. job' = [job EXCEPT ![d] = j]  BY <1>3, Zenon DEF Inv, TypeOK
  <2> QED  BY <1>1, <2>1, <2>2, <2>3, ReadStep, Zenon
<1>4. CASE /\ job[d].at = "move_check"
           /\ job' = [job EXCEPT ![d].at = "move_tx", ![d].paid = hasCompletedPayment(job[d].id)]
  <2> DEFINE j == [job[d] EXCEPT !.at = "move_tx", !.paid = hasCompletedPayment(job[d].id)]
  <2>0. hasCompletedPayment(job[d].id) \in BOOLEAN  BY SMTT(30) DEF hasCompletedPayment
  <2>1. j \in Job  BY <1>0, <2>0, Zenon DEF Job, Steps
  <2>2. JobOK(j, stay)  BY <1>0, <1>4, Zenon DEF Job, JobOK
  <2>3. job' = [job EXCEPT ![d] = j]  BY <1>4, Zenon DEF Inv, TypeOK
  <2> QED  BY <1>1, <2>1, <2>2, <2>3, ReadStep, Zenon
<1>5. CASE job[d].at = "cancel_look" /\ job' = [job EXCEPT ![d].at = "cancel_free"]
  <2> DEFINE j == [job[d] EXCEPT !.at = "cancel_free"]
  <2>1. j \in Job  BY <1>0, Zenon DEF Job, Steps
  <2>2. JobOK(j, stay)  BY <1>0, <1>5, Zenon DEF Job, JobOK
  <2>3. job' = [job EXCEPT ![d] = j]  BY <1>5, Zenon DEF Inv, TypeOK
  <2> QED  BY <1>1, <2>1, <2>2, <2>3, ReadStep, Zenon
<1>6. CASE /\ job[d].at = "checkout_check"
           /\ job' = [job EXCEPT ![d].at = "checkout_tx", ![d].folio = folio[job[d].id] = "open"]
  <2> DEFINE j == [job[d] EXCEPT !.at = "checkout_tx", !.folio = folio[job[d].id] = "open"]
  <2>1. j \in Job  BY <1>0, Zenon DEF Job, Steps
  <2>2. JobOK(j, stay)  BY <1>0, <1>6, Zenon DEF Job, JobOK
  <2>3. job' = [job EXCEPT ![d] = j]  BY <1>6, Zenon DEF Inv, TypeOK
  <2> QED  BY <1>1, <2>1, <2>2, <2>3, ReadStep, Zenon
<1> QED  BY <1>2, <1>3, <1>4, <1>5, <1>6, Zenon DEF UpdateCheck, MoveCheck, CancelLook, CheckOutBalance

(* Raising a cleaning task keeps the board well formed. *)
LEMMA RaiseTaskType ==
    ASSUME NEW w \in [Rooms -> [open : Nat, done : Nat]], NEW r
    PROVE  RaiseTask(w, r) \in [Rooms -> [open : Nat, done : Nat]]
BY Zenon DEF RaiseTask

(* The booking transaction keeps the invariant: it stores an accepted row   *)
(* under an unused id or leaves everything as it was.                       *)
LEMMA CreateTxInv ==
    ASSUME Inv, NEW d \in Desks, CreateTx(d)
    PROVE  Inv'
<1> DEFINE j == job[d]  row == BookedRow(j)
<1>0. j \in Job /\ j.at = "create_tx" /\ j.room \in Rooms  BY Zenon DEF Inv, TypeOK, JobsSane, JobOK, CreateTx
<1>1. row \in Row /\ row.status = "confirmed" /\ row.room = j.room /\ ~row.in /\ ~row.out
  BY <1>0, Blanks, ZenonT(30) DEF BookedRow, Job, Row, Price, StayStatuses, NoRow
<1>2. CASE Finish(d) /\ UNCHANGED <<stay, used, payments>>
  BY <1>2, FinishStep, Zenon DEF CreateTx, books
<1>3. ASSUME NEW s \in Stays, stay[s].status = "absent", Accepts(s, row),
             stay' = [stay EXCEPT ![s] = row],
             used' = IF j.promo THEN used + 1 ELSE used,
             payments' = IF j.paid THEN [payments EXCEPT ![s] = 1] ELSE payments,
             Finish(d)
      PROVE  Inv'
  <2>1. UNCHANGED <<room, upkeep, folio, charges>>  BY Zenon DEF CreateTx
  <2>2. ~stay[s].in  BY <1>3, Zenon DEF Inv, RowsSane
  <2>3. used' \in Nat /\ payments' \in [Stays -> Nat]  BY <1>3, SMTT(30) DEF Inv, TypeOK
  <2>4. /\ room' \in [Rooms -> RoomStatuses] /\ work' \in [Rooms -> [open : Nat, done : Nat]]
        /\ releasing' \in [Rooms -> Nat] /\ folio' \in [Stays -> {"none", "open", "closed"}]
        /\ charges' \in [Stays -> Nat]
    BY <2>1, Zenon DEF Inv, TypeOK, upkeep
  <2>5. job' = [job EXCEPT ![d] = Idle] /\ Idle \in Job /\ JobOK(Idle, stay')
    BY <1>3, Blanks, Finished, Zenon DEF Finish
  <2> QED  BY <1>0, <1>1, <1>3, <2>1, <2>2, <2>3, <2>4, <2>5, WriteStep, Zenon
<1> QED  BY <1>2, <1>3, Zenon DEF CreateTx

(* Facts about the row and the job of a desk at a writing step. *)
LEMMA AtWrite ==
    ASSUME Inv, NEW d \in Desks, job[d].at \notin {"idle", "create_tx"}
    PROVE  /\ job[d] \in Job /\ job[d].id \in Stays
           /\ stay[job[d].id] \in Row /\ stay[job[d].id].room \in Rooms
           /\ stay[job[d].id].status # "absent"
           /\ stay[job[d].id].in => folio[job[d].id] # "none"
           /\ stay[job[d].id].out => stay[job[d].id].in
           /\ stay[job[d].id].status = "in_house" => stay[job[d].id].in
           /\ stay[job[d].id].status = "checked_out" => stay[job[d].id].out
<1>1. job[d] \in Job /\ JobOK(job[d], stay)  BY Zenon DEF Inv, TypeOK, JobsSane
<1>2. job[d].id \in Stays /\ stay[job[d].id].status # "absent"  BY <1>1, Zenon DEF JobOK
<1> QED  BY <1>1, <1>2, Zenon DEF Inv, TypeOK, RowsSane, LifecycleConsistent

(* A date change keeps the invariant. *)
LEMMA UpdateTxInv ==
    ASSUME Inv, NEW d \in Desks, UpdateTx(d)
    PROVE  Inv'
<1> DEFINE j == job[d]  s == job[d].id  old == stay[job[d].id]  row == UpdatedRow(old, j)
<1>0. j.at = "update_tx" /\ UNCHANGED <<room, upkeep, books>>  BY Zenon DEF UpdateTx
<1>1. /\ j \in Job /\ s \in Stays /\ old \in Row /\ old.room \in Rooms /\ old.status # "absent"
      /\ old.in => folio[s] # "none"
      /\ (old.out => old.in) /\ (old.status = "in_house" => old.in)
      /\ (old.status = "checked_out" => old.out)
  BY <1>0, AtWrite, Zenon
<1>2. /\ row \in Row /\ row.status = old.status /\ row.room = old.room
      /\ (row.in <=> old.in) /\ (row.out <=> old.out)
  <2>1. j.from \in Days /\ j.to \in Days /\ j.seen.room \in Rooms \cup {None}  BY <1>1, Zenon DEF Job, Row
  <2> QED  BY <1>1, <2>1, Zenon DEF UpdatedRow, Row, Price
<1>7. /\ (old.in => row.in) /\ (row.out => row.in)
      /\ (row.status = "in_house" => row.in) /\ (row.status = "checked_out" => row.out)
      /\ (row.in => folio[s] # "none")
  BY <1>1, <1>2, Zenon
<1>3. CASE Finish(d) /\ UNCHANGED stay  BY <1>0, <1>3, FinishStep, Zenon
<1>4. CASE Accepts(s, row) /\ stay' = [stay EXCEPT ![s] = row] /\ Finish(d)
  <2>1. job' = [job EXCEPT ![d] = Idle] /\ Idle \in Job /\ JobOK(Idle, stay')
    BY <1>4, Blanks, Finished, Zenon DEF Finish
  <2>2. /\ room' \in [Rooms -> RoomStatuses] /\ work' \in [Rooms -> [open : Nat, done : Nat]]
        /\ releasing' \in [Rooms -> Nat] /\ folio' \in [Stays -> {"none", "open", "closed"}]
        /\ charges' \in [Stays -> Nat] /\ payments' \in [Stays -> Nat] /\ used' \in Nat
        /\ folio' = folio
    BY <1>0, Zenon DEF Inv, TypeOK, upkeep, books
  <2> QED  BY <1>1, <1>2, <1>4, <1>7, <2>1, <2>2, WriteStep, Zenon
<1> QED  BY <1>3, <1>4, Zenon DEF UpdateTx

(* A room move keeps the invariant. *)
LEMMA MoveTxInv ==
    ASSUME Inv, NEW d \in Desks, MoveTx(d)
    PROVE  Inv'
<1> DEFINE j == job[d]  s == job[d].id  old == stay[job[d].id]  row == MovedRow(old, j)
<1>0. j.at = "move_tx" /\ UNCHANGED <<releasing, books>>  BY Zenon DEF MoveTx
<1>1. /\ j \in Job /\ s \in Stays /\ old \in Row /\ old.status # "absent"
      /\ old.in => folio[s] # "none"
      /\ (old.out => old.in) /\ (old.status = "in_house" => old.in)
      /\ (old.status = "checked_out" => old.out)
  BY <1>0, AtWrite, Zenon
<1>2. j.room \in Rooms  BY <1>0, Zenon DEF Inv, JobsSane, JobOK
<1>3. /\ row \in Row /\ row.status = old.status /\ row.room = j.room
      /\ (row.in <=> old.in) /\ (row.out <=> old.out)
  <2>1. j.seen.from \in Days /\ j.seen.to \in Days  BY <1>1, Zenon DEF Job, Row
  <2> QED  BY <1>1, <1>2, <2>1, Zenon DEF MovedRow, Row, Price
<1>7. /\ (old.in => row.in) /\ (row.out => row.in)
      /\ (row.status = "in_house" => row.in) /\ (row.status = "checked_out" => row.out)
      /\ (row.in => folio[s] # "none")
  BY <1>1, <1>3, Zenon
<1>4. CASE Finish(d) /\ UNCHANGED <<stay, room, work>>
  BY <1>0, <1>4, FinishStep, Zenon DEF upkeep
<1>5. CASE /\ Accepts(s, row) /\ stay' = [stay EXCEPT ![s] = row] /\ Finish(d)
           /\ IF j.seen.in
              THEN /\ room' = [room EXCEPT ![j.room] = "occupied", ![j.seen.room] = "cleaning"]
                   /\ work' = RaiseTask(work, j.seen.room)
              ELSE UNCHANGED <<room, work>>
  <2>1. job' = [job EXCEPT ![d] = Idle] /\ Idle \in Job /\ JobOK(Idle, stay')
    BY <1>5, Blanks, Finished, Zenon DEF Finish
  <2>2. room' \in [Rooms -> RoomStatuses]  BY <1>5, Zenon DEF Inv, TypeOK, RoomStatuses
  <2>3. work' \in [Rooms -> [open : Nat, done : Nat]]  BY <1>5, RaiseTaskType, SMTT(30) DEF Inv, TypeOK
  <2>4. /\ releasing' \in [Rooms -> Nat] /\ folio' \in [Stays -> {"none", "open", "closed"}]
        /\ charges' \in [Stays -> Nat] /\ payments' \in [Stays -> Nat] /\ used' \in Nat
        /\ folio' = folio
    BY <1>0, Zenon DEF Inv, TypeOK, books
  <2> QED  BY <1>1, <1>2, <1>3, <1>5, <1>7, <2>1, <2>2, <2>3, <2>4, WriteStep, ZenonT(30)
<1> QED  BY <1>4, <1>5, Zenon DEF MoveTx

(* Cancelling keeps the invariant: a cancelled row holds no nights. *)
LEMMA SoftCancelInv ==
    ASSUME Inv, NEW d \in Desks, SoftCancelStay(d)
    PROVE  Inv'
<1> DEFINE s == job[d].id  old == stay[job[d].id]  row == [old EXCEPT !.status = "cancelled"]
           j == [job[d] EXCEPT !.at = "cancel_look"]
<1>0. job[d].at = "cancel_tx" /\ UNCHANGED <<room, upkeep, books>>  BY Zenon DEF SoftCancelStay
<1>1. /\ job[d] \in Job /\ s \in Stays /\ old \in Row /\ old.room \in Rooms /\ old.status # "absent"
      /\ old.in => folio[s] # "none"
      /\ old.out => old.in
  BY <1>0, AtWrite, Zenon
<1>2. CASE Finish(d) /\ UNCHANGED stay  BY <1>0, <1>2, FinishStep, Zenon
<1>3. CASE stay' = [stay EXCEPT ![s].status = "cancelled"] /\ job' = [job EXCEPT ![d].at = "cancel_look"]
  <2>1. /\ row \in Row /\ row.status = "cancelled" /\ row.room = old.room
        /\ row.from = old.from /\ row.to = old.to /\ (row.in <=> old.in) /\ (row.out <=> old.out)
    BY <1>1, Zenon DEF Row, StayStatuses
  <2>2. stay' = [stay EXCEPT ![s] = row] /\ job' = [job EXCEPT ![d] = j]
    BY <1>1, <1>3, Zenon DEF Inv, TypeOK
  <2>3. Accepts(s, row)
    <3>1. old.from < old.to  BY <1>1, Zenon DEF Inv, DatesOrdered
    <3>2. old.from \in Int /\ old.to \in Int  BY <1>1, SMTT(30) DEF Row, Days
    <3> QED  BY <2>1, <3>1, <3>2, Zenon DEF Accepts, NoOverlapConstraint, DatesCheck, Holds
  <2>4. j \in Job /\ j.at = "cancel_look" /\ j.id = s  BY <1>1, Zenon DEF Job, Steps
  <2>5. stay'[s].status # "absent"  BY <1>1, <1>3, <2>1, <2>2, Zenon DEF Inv, TypeOK
  <2>6. JobOK(j, stay')  BY <1>1, <2>4, <2>5, Zenon DEF JobOK
  <2>7. /\ room' \in [Rooms -> RoomStatuses] /\ work' \in [Rooms -> [open : Nat, done : Nat]]
        /\ releasing' \in [Rooms -> Nat] /\ folio' \in [Stays -> {"none", "open", "closed"}]
        /\ charges' \in [Stays -> Nat] /\ payments' \in [Stays -> Nat] /\ used' \in Nat
        /\ folio' = folio
    BY <1>0, Zenon DEF Inv, TypeOK, upkeep, books
  <2> HIDE DEF row, j
  <2> QED  BY <1>1, <2>1, <2>2, <2>3, <2>4, <2>6, <2>7, WriteStep, Zenon
<1> QED  BY <1>2, <1>3, Zenon DEF SoftCancelStay

(* A check-in keeps the invariant, even of a stay cancelled meanwhile. *)
LEMMA CheckInTxInv ==
    ASSUME Inv, NEW d \in Desks, CheckInTx(d)
    PROVE  Inv'
<1> DEFINE s == job[d].id  old == stay[job[d].id]
           row == [old EXCEPT !.in = TRUE, !.status = "in_house"]
<1>0. job[d].at = "checkin_tx" /\ UNCHANGED <<upkeep, charges, payments, used>>  BY Zenon DEF CheckInTx
<1>1. job[d] \in Job /\ s \in Stays /\ old \in Row /\ old.room \in Rooms
  BY <1>0, AtWrite, Zenon
<1>2. CASE Finish(d) /\ UNCHANGED <<stay, room, folio>>
  BY <1>0, <1>2, FinishStep, Zenon DEF books
<1>3. CASE /\ Accepts(s, row) /\ stay' = [stay EXCEPT ![s] = row]
           /\ room' = [room EXCEPT ![job[d].seen.room] = "occupied"]
           /\ EnsureFolioForBooking(s) /\ Finish(d)
  <2>1. row \in Row /\ row.status = "in_house" /\ row.room = old.room /\ row.in
    BY <1>1, Zenon DEF Row, StayStatuses
  <2>2. job' = [job EXCEPT ![d] = Idle] /\ Idle \in Job /\ JobOK(Idle, stay')
    BY <1>3, Blanks, Finished, Zenon DEF Finish
  <2>3. /\ folio' \in [Stays -> {"none", "open", "closed"}] /\ folio'[s] # "none"
        /\ \A t \in Stays : folio[t] # "none" => folio'[t] # "none"
    BY <1>1, <1>3, Zenon DEF EnsureFolioForBooking, Inv, TypeOK
  <2>4. room' \in [Rooms -> RoomStatuses]  BY <1>3, Zenon DEF Inv, TypeOK, RoomStatuses
  <2>5. /\ work' \in [Rooms -> [open : Nat, done : Nat]] /\ releasing' \in [Rooms -> Nat]
        /\ charges' \in [Stays -> Nat] /\ payments' \in [Stays -> Nat] /\ used' \in Nat
    BY <1>0, Zenon DEF Inv, TypeOK, upkeep
  <2> HIDE DEF row
  <2> QED  BY <1>1, <1>3, <2>1, <2>2, <2>3, <2>4, <2>5, WriteStep, Zenon
<1> QED  BY <1>2, <1>3, Zenon DEF CheckInTx

(* A check-out keeps the invariant: the guest it read in house still is. *)
LEMMA CheckOutTxInv ==
    ASSUME Inv, NEW d \in Desks, CheckOutTx(d)
    PROVE  Inv'
<1> DEFINE s == job[d].id  old == stay[job[d].id]
           row == [old EXCEPT !.out = TRUE, !.status = "checked_out"]
<1>0. job[d].at = "checkout_tx" /\ UNCHANGED <<releasing, charges, payments, used>>
  BY Zenon DEF CheckOutTx
<1>1. /\ job[d] \in Job /\ s \in Stays /\ old \in Row /\ old.room \in Rooms
      /\ (old.in => folio[s] # "none")
  BY <1>0, AtWrite, Zenon
<1>2. old.in  BY <1>0, Zenon DEF Inv, JobsSane, JobOK
<1>3. CASE Finish(d) /\ UNCHANGED <<stay, room, folio, work>>
  BY <1>0, <1>3, FinishStep, Zenon DEF books, upkeep
<1>4. CASE /\ Accepts(s, row) /\ stay' = [stay EXCEPT ![s] = row]
           /\ room' = [room EXCEPT ![job[d].seen.room] = "cleaning"]
           /\ folio' = IF job[d].folio THEN [folio EXCEPT ![s] = "closed"] ELSE folio
           /\ work' = RaiseTask(work, job[d].seen.room) /\ Finish(d)
  <2>1. row \in Row /\ row.status = "checked_out" /\ row.room = old.room /\ row.in /\ row.out
    BY <1>1, <1>2, Zenon DEF Row, StayStatuses
  <2>2. job' = [job EXCEPT ![d] = Idle] /\ Idle \in Job /\ JobOK(Idle, stay')
    BY <1>4, Blanks, Finished, Zenon DEF Finish
  <2>3. /\ folio' \in [Stays -> {"none", "open", "closed"}] /\ folio'[s] # "none"
        /\ \A t \in Stays : folio[t] # "none" => folio'[t] # "none"
    BY <1>1, <1>2, <1>4, Zenon DEF Inv, TypeOK
  <2>4. room' \in [Rooms -> RoomStatuses]  BY <1>4, Zenon DEF Inv, TypeOK, RoomStatuses
  <2>5. work' \in [Rooms -> [open : Nat, done : Nat]]  BY <1>4, RaiseTaskType, Zenon DEF Inv, TypeOK
  <2>6. /\ releasing' \in [Rooms -> Nat] /\ charges' \in [Stays -> Nat]
        /\ payments' \in [Stays -> Nat] /\ used' \in Nat
    BY <1>0, Zenon DEF Inv, TypeOK
  <2> HIDE DEF row
  <2> QED  BY <1>1, <1>4, <2>1, <2>2, <2>3, <2>4, <2>5, <2>6, WriteStep, Zenon
<1> QED  BY <1>3, <1>4, Zenon DEF CheckOutTx

(* Releasing the room after a cancellation keeps the invariant. *)
LEMMA CancelFreeInv ==
    ASSUME Inv, NEW d \in Desks, CancelFree(d)
    PROVE  Inv'
<1>1. job' = [job EXCEPT ![d] = Idle] /\ Idle \in Job /\ JobOK(Idle, stay)
  BY Blanks, Finished, Zenon DEF CancelFree, Finish
<1>2. UNCHANGED <<stay, work, releasing, folio, charges, payments, used>>
  BY Zenon DEF CancelFree, upkeep, books
<1>3. TypeOK'  BY <1>1, <1>2, Zenon DEF Inv, TypeOK, CancelFree, RoomStatuses
<1>4. JobsSane'  BY <1>1, <1>2, Zenon DEF Inv, TypeOK, JobsSane, JobOK
<1>5. RowsSane' /\ NoDoubleBooking' /\ DatesOrdered' /\ LifecycleConsistent'
  BY <1>2, Zenon
     DEF Inv, RowsSane, NoDoubleBooking, DatesOrdered, LifecycleConsistent, Holds, Overlap
<1> QED  BY <1>3, <1>4, <1>5, Zenon DEF Inv

(* The cashier's operations keep the invariant. *)
LEMMA BillingInv ==
    ASSUME Inv, NEW s \in Stays, BillingStep(s)
    PROVE  Inv'
<1> USE DEF upkeep
<1>1. UNCHANGED <<stay, job, room, work, releasing, used>>
  BY Zenon DEF BillingStep, CreateFolio, AddCharge, RoomCharge, RecordPayment
<1>2. /\ \A t \in Stays : folio[t] # "none" => folio'[t] # "none"
      /\ folio' \in [Stays -> {"none", "open", "closed"}]
  BY Zenon DEF Inv, TypeOK, BillingStep, CreateFolio, AddCharge, RoomCharge, RecordPayment
<1>3. charges' \in [Stays -> Nat] /\ payments' \in [Stays -> Nat]
  BY SMTT(30) DEF Inv, TypeOK, BillingStep, CreateFolio, AddCharge, RoomCharge, RecordPayment
<1> QED  BY <1>1, <1>2, <1>3, SideStep, Zenon DEF Inv, TypeOK

(* Housekeeping and the status switch keep the invariant. *)
LEMMA FloorInv ==
    ASSUME Inv, NEW r \in Rooms, FloorStep(r)
    PROVE  Inv'
<1> USE DEF books
<1>0. /\ work[r].open \in Nat /\ work[r].done \in Nat /\ releasing[r] \in Nat
      /\ room[r] \in RoomStatuses
  BY Zenon DEF Inv, TypeOK
<1>1. UNCHANGED <<stay, job, folio, charges, payments, used>>
  BY Zenon DEF FloorStep, FinishTask, ReleaseRoom, CreateTask, UpdateTask, InspectTask, UpdateStatus
<1>2. room' \in [Rooms -> RoomStatuses]
  BY Zenon
     DEF Inv, TypeOK, RoomStatuses, FloorStep, FinishTask, ReleaseRoom, CreateTask, UpdateTask,
         InspectTask,
         UpdateStatus
<1>3. work' \in [Rooms -> [open : Nat, done : Nat]]
  <2>0. work \in [Rooms -> [open : Nat, done : Nat]]  BY Zenon DEF Inv, TypeOK
  <2>1. CASE FinishTask(r) \/ CreateTask(r)  BY <1>0, <2>0, <2>1, SMTT(30) DEF FinishTask, CreateTask
  <2>2. CASE UpdateTask(r)  BY <1>0, <2>0, <2>2, SMTT(30) DEF UpdateTask
  <2>3. CASE \E passed \in BOOLEAN : InspectTask(r, passed)  BY <1>0, <2>0, <2>3, SMTT(30) DEF InspectTask
  <2>4. CASE ReleaseRoom(r) \/ \E status \in RoomStatuses : UpdateStatus(r, status)
    BY <2>0, <2>4, Zenon DEF ReleaseRoom, UpdateStatus, upkeep
  <2> QED  BY <2>1, <2>2, <2>3, <2>4, Zenon DEF FloorStep
<1>4. releasing' \in [Rooms -> Nat]
  BY <1>0, SMTT(30)
     DEF Inv, TypeOK, FloorStep, FinishTask, ReleaseRoom, CreateTask, UpdateTask, InspectTask,
         UpdateStatus,
              upkeep
<1> QED  BY <1>1, <1>2, <1>3, <1>4, SideStep, Zenon DEF Inv, TypeOK

-----------------------------------------------------------------------------
(* Every step of every desk, cashier and housekeeper keeps the invariant. *)
LEMMA NextInv == Inv /\ [Next]_vars => Inv'
<1> SUFFICES ASSUME Inv, [Next]_vars PROVE Inv'  BY Zenon
<1>1. ASSUME NEW d \in Desks, DeskStep(d) PROVE Inv'
  BY <1>1, ReadingKeepsInv, CheckingKeepsInv, CreateTxInv, UpdateTxInv, MoveTxInv, SoftCancelInv,
     CancelFreeInv, CheckInTxInv, CheckOutTxInv, Zenon DEF DeskStep
<1>2. ASSUME NEW s \in Stays, BillingStep(s) PROVE Inv'  BY <1>2, BillingInv, Zenon
<1>3. ASSUME NEW r \in Rooms, FloorStep(r) PROVE Inv'  BY <1>3, FloorInv, Zenon
<1>4. CASE UNCHANGED vars  BY <1>4, SideStep, Zenon DEF vars, Inv, TypeOK
<1> QED  BY <1>1, <1>2, <1>3, <1>4, Zenon DEF Next

(* The inductive invariant of the desk holds in every reachable state:      *)
(* types, sane rows, what each job under way relies on, and the properties  *)
(* below.                                                                   *)
THEOREM InductiveInvariant == Spec => []Inv
BY InitInv, NextInv, PTL DEF Spec

(* The handlers keep every row, job and counter well formed. *)
THEOREM TypeCorrect == Spec => []TypeOK
<1>1. Inv => TypeOK  BY Zenon DEF Inv
<1> QED  BY <1>1, InductiveInvariant, PTL

(* However many desks book, amend, move, cancel and check in at once, no    *)
(* two live stays ever hold one room on one night.                          *)
THEOREM NoDoubleBookingHolds == Spec => []NoDoubleBooking
<1>1. Inv => NoDoubleBooking  BY Zenon DEF Inv
<1> QED  BY <1>1, InductiveInvariant, PTL

(* No interleaving of date changes leaves a stay ending before it begins. *)
THEOREM DatesOrderedHolds == Spec => []DatesOrdered
<1>1. Inv => DatesOrdered  BY Zenon DEF Inv
<1> QED  BY <1>1, InductiveInvariant, PTL

(* The status, the arrival and departure marks and the folio of a stay      *)
(* always tell one story, whatever the order of the desks' transactions.    *)
THEOREM LifecycleConsistentHolds == Spec => []LifecycleConsistent
<1>1. Inv => LifecycleConsistent  BY Zenon DEF Inv
<1> QED  BY <1>1, InductiveInvariant, PTL

-----------------------------------------------------------------------------
(* The only steps that change a stay store, under one id, a row the         *)
(* database accepts, and only a booking redeems a promo code.               *)
LEMMA StepWrites ==
    ASSUME Inv, [Next]_vars
    PROVE  \/ stay' = stay /\ used' = used
           \/ \E s \in Stays, row \in Row :
                /\ Accepts(s, row) /\ row.room \in Rooms /\ stay' = [stay EXCEPT ![s] = row]
                /\ \/ (row.promo <=> stay[s].promo) /\ used' = used
                   \/ ~stay[s].promo /\ row.promo /\ PromoHasUses /\ used' = used + 1
<1> DEFINE Goal ==
      \/ stay' = stay /\ used' = used
      \/ \E s \in Stays, row \in Row :
           /\ Accepts(s, row) /\ row.room \in Rooms /\ stay' = [stay EXCEPT ![s] = row]
           /\ \/ (row.promo <=> stay[s].promo) /\ used' = used
              \/ ~stay[s].promo /\ row.promo /\ PromoHasUses /\ used' = used + 1
<1>1. CASE UNCHANGED vars  BY <1>1, Zenon DEF vars
<1>2. ASSUME NEW s \in Stays, BillingStep(s) PROVE Goal
  BY <1>2, Zenon DEF BillingStep, CreateFolio, AddCharge, RoomCharge, RecordPayment
<1>3. ASSUME NEW r \in Rooms, FloorStep(r) PROVE Goal
  BY <1>3, Zenon
     DEF FloorStep, FinishTask, ReleaseRoom, CreateTask, UpdateTask, InspectTask, UpdateStatus,
         books
<1>4. ASSUME NEW d \in Desks,
             \/ CreateRead(d) \/ UpdateRead(d) \/ MoveRead(d) \/ CancelRead(d) \/ CheckInRead(d)
             \/ CheckOutRead(d) \/ UpdateCheck(d) \/ MoveCheck(d) \/ CancelLook(d)
             \/ CheckOutBalance(d) \/ CancelFree(d)
      PROVE  Goal
  <2>1. stay' = stay /\ used' = used
    BY <1>4, Zenon
       DEF CreateRead, UpdateRead, MoveRead, CancelRead, CheckInRead, CheckOutRead, UpdateCheck,
                MoveCheck, CancelLook, CheckOutBalance, CancelFree, books
  <2> QED  BY <2>1, Zenon
<1>5. ASSUME NEW d \in Desks, CreateTx(d) PROVE Goal
  <2>1. job[d] \in Job /\ job[d].room \in Rooms
    BY <1>5, Zenon DEF Inv, TypeOK, JobsSane, JobOK, CreateTx
  <2>2. /\ BookedRow(job[d]) \in Row /\ BookedRow(job[d]).room = job[d].room
        /\ (BookedRow(job[d]).promo <=> job[d].promo)
    BY <2>1, Blanks, ZenonT(30) DEF BookedRow, Job, Row, Price, StayStatuses, NoRow
  <2>3. ASSUME NEW s \in Stays, stay[s].status = "absent", Accepts(s, BookedRow(job[d])),
               job[d].promo => PromoHasUses, stay' = [stay EXCEPT ![s] = BookedRow(job[d])],
               used' = IF job[d].promo THEN used + 1 ELSE used
        PROVE  Goal
    <3>1. ~stay[s].promo  BY <2>3, Zenon DEF Inv, RowsSane
    <3> QED  BY <2>1, <2>2, <2>3, <3>1, Zenon
  <2> QED  BY <1>5, <2>3, Zenon DEF CreateTx
<1>6. ASSUME NEW d \in Desks, UpdateTx(d) \/ MoveTx(d) \/ CheckInTx(d) \/ CheckOutTx(d) PROVE Goal
  <2> DEFINE j == job[d]  old == stay[job[d].id]
  <2>0. job[d].at \notin {"idle", "create_tx"} /\ used' = used
    BY <1>6, Zenon DEF UpdateTx, MoveTx, CheckInTx, CheckOutTx, books
  <2>1. j \in Job /\ j.id \in Stays /\ old \in Row /\ old.room \in Rooms  BY <2>0, AtWrite, Zenon
  <2>2. CASE UpdateTx(d)
    <3>1. j.from \in Days /\ j.to \in Days /\ j.seen.room \in Rooms \cup {None}  BY <2>1, Zenon DEF Job, Row
    <3>2. /\ UpdatedRow(old, j) \in Row /\ UpdatedRow(old, j).room = old.room
          /\ (UpdatedRow(old, j).promo <=> old.promo)
      BY <2>1, <3>1, Zenon DEF UpdatedRow, Row, Price
    <3> QED  BY <2>0, <2>1, <2>2, <3>2, Zenon DEF UpdateTx
  <2>3. CASE MoveTx(d)
    <3>1. j.room \in Rooms  BY <2>3, Zenon DEF Inv, JobsSane, JobOK, MoveTx
    <3>2. j.seen.from \in Days /\ j.seen.to \in Days  BY <2>1, Zenon DEF Job, Row
    <3>3. /\ MovedRow(old, j) \in Row /\ MovedRow(old, j).room = j.room
          /\ (MovedRow(old, j).promo <=> old.promo)
      BY <2>1, <3>1, <3>2, Zenon DEF MovedRow, Row, Price
    <3> QED  BY <2>0, <2>1, <2>3, <3>1, <3>3, Zenon DEF MoveTx
  <2>4. CASE CheckInTx(d)
    <3> DEFINE row == [old EXCEPT !.in = TRUE, !.status = "in_house"]
    <3>1. row \in Row /\ row.room = old.room /\ (row.promo <=> old.promo)
      BY <2>1, Zenon DEF Row, StayStatuses
    <3> QED  BY <2>0, <2>1, <2>4, <3>1, Zenon DEF CheckInTx
  <2>5. CASE CheckOutTx(d)
    <3> DEFINE row == [old EXCEPT !.out = TRUE, !.status = "checked_out"]
    <3>1. row \in Row /\ row.room = old.room /\ (row.promo <=> old.promo)
      BY <2>1, Zenon DEF Row, StayStatuses
    <3> QED  BY <2>0, <2>1, <2>5, <3>1, Zenon DEF CheckOutTx
  <2> QED  BY <1>6, <2>2, <2>3, <2>4, <2>5, Zenon
<1>7. ASSUME NEW d \in Desks, SoftCancelStay(d) PROVE Goal
  <2> DEFINE s == job[d].id  old == stay[job[d].id]  row == [old EXCEPT !.status = "cancelled"]
  <2>0. job[d].at = "cancel_tx" /\ used' = used  BY <1>7, Zenon DEF SoftCancelStay, books
  <2>1. s \in Stays /\ old \in Row /\ old.room \in Rooms /\ old.status # "absent"
    BY <2>0, AtWrite, Zenon
  <2>2. /\ row \in Row /\ row.room = old.room /\ (row.promo <=> old.promo)
        /\ row.status = "cancelled" /\ row.from = old.from /\ row.to = old.to
    BY <2>1, Zenon DEF Row, StayStatuses
  <2>3. Accepts(s, row)
    <3>1. old.from < old.to  BY <2>1, Zenon DEF Inv, DatesOrdered
    <3>2. old.from \in Int /\ old.to \in Int  BY <2>1, SMTT(30) DEF Row, Days
    <3> QED  BY <2>2, <3>1, <3>2, Zenon DEF Accepts, NoOverlapConstraint, DatesCheck, Holds
  <2>4. stay' = stay \/ stay' = [stay EXCEPT ![s] = row]
    BY <1>7, <2>1, Zenon DEF SoftCancelStay, Inv, TypeOK
  <2> QED  BY <2>0, <2>1, <2>2, <2>3, <2>4, Zenon
<1> QED  BY <1>1, <1>2, <1>3, <1>4, <1>5, <1>6, <1>7, Zenon DEF Next, DeskStep

(* The front desk implements the abstract calendar: each step of a handler  *)
(* takes a slot that no other live stay clashes with, gives one up, or      *)
(* leaves the calendar alone.                                               *)
THEOREM ImplementsCalendar == Spec => CalendarSpec
<1>1. Init => Calendar!Init  BY SMTT(30) DEF Init, NoRow, Calendar!Init, heldSlots, Holds
<1>2. Inv /\ [Next]_vars => [Calendar!Next]_heldSlots
  <2> SUFFICES ASSUME Inv, [Next]_vars PROVE [Calendar!Next]_heldSlots  BY Zenon
  <2>1. CASE stay' = stay  BY <2>1, Zenon DEF heldSlots, Holds
  <2>2. ASSUME NEW s \in Stays, NEW row \in Row, Accepts(s, row), row.room \in Rooms,
               stay' = [stay EXCEPT ![s] = row]
        PROVE  Calendar!Next
    <3> DEFINE slot == <<row.room, row.from, row.to>>
    <3>1. \A t \in Stays : stay'[t] = IF t = s THEN row ELSE stay[t]  BY <2>2, Zenon DEF Inv, TypeOK
    <3>2. CASE ~Holds(row)
      <4>1. heldSlots' = [heldSlots EXCEPT ![s] = None]  BY <3>1, <3>2, Zenon DEF heldSlots, Holds
      <4> QED  BY <4>1, Zenon DEF Calendar!Next, Calendar!Release
    <3>3. CASE Holds(row)
      <4>1. heldSlots' = [heldSlots EXCEPT ![s] = slot]  BY <3>1, <3>3, Zenon DEF heldSlots, Holds
      <4>2. slot \in Calendar!Slots  BY <2>2, Zenon DEF Calendar!Slots, Row, Days, Accepts, DatesCheck
      <4>3. \A t \in Stays \ {s} : heldSlots[t] # None => ~Calendar!Clash(heldSlots[t], slot)
        <5> SUFFICES ASSUME NEW t \in Stays \ {s}, heldSlots[t] # None
                     PROVE  ~Calendar!Clash(heldSlots[t], slot)
          BY Zenon
        <5>1. Holds(stay[t]) /\ heldSlots[t] = <<stay[t].room, stay[t].from, stay[t].to>>
          BY Zenon DEF heldSlots
        <5>2. ~Overlap(stay[t], row.room, row.from, row.to)
          BY <2>2, <3>3, <5>1, Zenon DEF Accepts, NoOverlapConstraint
        <5>3. /\ stay[t].from \in Int /\ stay[t].to \in Int
              /\ row.from \in Int /\ row.to \in Int
          BY <2>2, SMTT(30) DEF Inv, TypeOK, Row, Days
        <5> QED  BY <5>1, <5>2, <5>3, SMTT(30) DEF Calendar!Clash, Overlap
      <4> QED  BY <4>1, <4>2, <4>3, Zenon DEF Calendar!Next, Calendar!Hold
    <3> QED  BY <3>2, <3>3, Zenon
  <2> QED  BY <2>1, <2>2, StepWrites, Zenon
<1> QED  BY <1>1, <1>2, InductiveInvariant, PTL DEF Spec, CalendarSpec, Calendar!Spec

-----------------------------------------------------------------------------
(* The folios of one stay.                                                  *)
CallRows == [at : {"idle", "create", "in", "in_tx", "meal", "out_sum", "out_paid", "out_tx",
                   "get_canon", "get_paid", "invoice"},
             f : FolioIds \cup {0}, new : BOOLEAN, made : Nat, m : Meals \cup {0}, sum : Nat,
             canon : BOOLEAN, allow : BOOLEAN, lapped : BOOLEAN, crossed : BOOLEAN]
FolioRows == [status : {"none", "open", "closed"}, made : Nat]
InvoiceRows == [f : FolioIds \cup {0}, total : Nat, status : {"none", "draft", "sent"}]

FolioTypes ==
  /\ arrived \in BOOLEAN /\ departed \in BOOLEAN
  /\ folios \in [FolioIds -> FolioRows] /\ charged \in [FolioIds -> Nat]
  /\ paid \in Nat /\ stamp \in Nat
  /\ invoice \in [Invoices -> InvoiceRows]
  /\ call \in [Cashiers -> CallRows]
  /\ ghost \in [extra : Nat, walked : BOOLEAN, late : BOOLEAN]

(* What a request in flight has read and may still rely on. *)
CallKnown(x) ==
  /\ x.at \in {"out_sum", "out_paid", "get_canon", "get_paid", "invoice"} => x.f \in Rows
  /\ x.at \in {"get_canon", "get_paid", "invoice"} => x.sum <= charged[x.f]
  /\ x.at = "get_paid" /\ ~x.canon => ~Canonical(x.f)
  /\ x.at = "out_paid" /\ ~x.crossed => x.sum = charged[x.f]
  /\ x.at = "out_tx" /\ ~x.crossed /\ ~x.allow =>
       \/ x.f = 0 /\ Rows = {}
       \/ x.f \in Rows /\ charged[x.f] <= paid
  /\ x.at = "out_tx" => x.f = 0 \/ x.f \in Rows
  /\ x.at = "meal" /\ departed => x.crossed
  /\ x.at = "meal" /\ ~x.new => x.f \in Rows
  /\ x.new => x.at \in {"create", "in_tx", "meal"}
  /\ x.at = "create" => x.new

(* An opening that none overlapped is the only one, and still finds no folio. *)
Alone(k) ==
  call[k].new /\ ~call[k].lapped =>
    /\ \A j \in Cashiers : call[j].new => j = k
    /\ call[k].at \in {"in_tx", "meal"} => Rows = {}

Closings == ~departed => \A f \in FolioIds : folios[f].status # "closed"
InvoiceCovered(i) == invoice[i].status # "none" => invoice[i].f \in FolioIds /\ invoice[i].total <= charged[invoice[i].f]

FolioInv ==
  /\ FolioTypes
  /\ \A k \in Cashiers : CallKnown(call[k]) /\ Alone(k)
  /\ Closings
  /\ \A i \in Invoices : InvoiceCovered(i)
  /\ Cardinality(Rows) <= 1 + ghost.extra
  /\ ~ghost.walked /\ ~ghost.late

(* A free slot has the shape of a call and concerns no folio.               *)
LEMMA NoCallShape ==
  /\ NoCall \in CallRows /\ NoCall.at = "idle" /\ ~NoCall.new /\ NoCall.f = 0 /\ ~NoCall.crossed
BY Zenon DEF NoCall, CallRows

(* A call that has read nothing relies on nothing.                          *)
LEMMA IdleKnown == \A x : x.at \in {"idle", "in"} /\ ~x.new => CallKnown(x)
BY Zenon DEF CallKnown

(* What a step of another request leaves of a request's state. *)
Kin(x, y) ==
  /\ y.at = x.at /\ y.f = x.f /\ y.sum = x.sum /\ y.canon = x.canon /\ y.allow = x.allow /\ y.new = x.new
  /\ x.crossed => y.crossed
CheckOutAt == {"out_sum", "out_paid", "out_tx"}

(* What a step may do to the folios. *)
FoliosGrow ==
  /\ Rows \subseteq Rows' /\ \A f \in Rows : folios'[f].made = folios[f].made
  /\ \A f \in FolioIds : charged[f] <= charged'[f]
  /\ paid <= paid'

(* A folio that is not the canonical one never becomes it.                  *)
LEMMA CanonicalLost ==
  ASSUME FoliosGrow, NEW f \in Rows, ~Canonical(f)
  PROVE  ~Canonical(f)'
<1>1. PICK g \in Rows \ {f} : ~(folios[f].made < folios[g].made \/ (folios[f].made = folios[g].made /\ f < g))
  BY Zenon DEF Canonical
<1>2. g \in Rows' /\ folios'[f].made = folios[f].made /\ folios'[g].made = folios[g].made
  BY <1>1, Zenon DEF FoliosGrow
<1> QED
  BY <1>1, <1>2, Zenon DEF Canonical

(* What a call has read stays true enough: folios are only added, and a     *)
(* check-out that was overtaken is marked.                                  *)
LEMMA StillKnown ==
  ASSUME FolioTypes, FolioTypes', NEW x \in CallRows, NEW y \in CallRows, CallKnown(x), Kin(x, y), FoliosGrow,
         x.at \in CheckOutAt => y.crossed \/ (Rows' = Rows /\ charged' = charged),
         x.at = "meal" /\ departed' => departed \/ y.crossed
  PROVE  CallKnown(y)'
<1>1. x.f \in Rows => y.f \in Rows'
  BY Zenon DEF Kin, FoliosGrow
<1>2. Rows \subseteq FolioIds
  BY Zenon DEF Rows
<1>3. ASSUME NEW f \in Rows PROVE charged[f] \in Nat /\ charged'[f] \in Nat /\ charged[f] <= charged'[f]
  BY <1>2, <1>3, Zenon DEF FolioTypes, FoliosGrow
<1>4. x.sum \in Nat /\ y.sum \in Nat /\ paid \in Nat /\ paid' \in Nat
  BY Zenon DEF CallRows, FolioTypes
<1>5. y.at \in {"get_canon", "get_paid", "invoice"} => y.sum <= charged'[y.f]
  BY <1>3, <1>4, SMTT(30) DEF CallKnown, Kin
<1>6. y.at = "get_paid" /\ ~y.canon => ~Canonical(y.f)'
  BY CanonicalLost, Zenon DEF CallKnown, Kin
<1>7. y.at = "out_paid" /\ ~y.crossed => y.sum = charged'[y.f]
  BY Zenon DEF CallKnown, Kin, CheckOutAt
<1>8. y.at = "out_tx" /\ ~y.crossed /\ ~y.allow =>
       \/ y.f = 0 /\ Rows' = {}
       \/ y.f \in Rows' /\ charged'[y.f] <= paid'
  <2> SUFFICES ASSUME y.at = "out_tx", ~y.crossed, ~y.allow
               PROVE  (y.f = 0 /\ Rows' = {}) \/ (y.f \in Rows' /\ charged'[y.f] <= paid')
    BY Zenon
  <2>1. Rows' = Rows /\ charged' = charged /\ x.f = y.f /\ paid <= paid'
    BY Zenon DEF Kin, CheckOutAt, FoliosGrow
  <2>2. (x.f = 0 /\ Rows = {}) \/ (x.f \in Rows /\ charged[x.f] <= paid)
    BY Zenon DEF CallKnown, Kin
  <2>3. CASE x.f \in Rows /\ charged[x.f] <= paid
    BY <1>3, <1>4, <2>1, <2>3, SMTT(30)
  <2> QED
    BY <2>1, <2>2, <2>3, Zenon
<1>9. y.at = "meal" /\ departed' => y.crossed
  BY Zenon DEF CallKnown, Kin
<1> QED
  BY <1>1, <1>5, <1>6, <1>7, <1>8, <1>9, Zenon DEF CallKnown, Kin

(* The calls other than those of K only notice the step. *)
LEMMA CallsKnown ==
  ASSUME FolioInv, FolioTypes', FoliosGrow, NEW K \in SUBSET Cashiers,
         \A k \in K : CallKnown(call[k])',
         \A j \in Cashiers \ K : Kin(call[j], call'[j]),
         \A j \in Cashiers \ K : call[j].at \in CheckOutAt => call'[j].crossed \/ (Rows' = Rows /\ charged' = charged),
         \A j \in Cashiers \ K : call[j].at = "meal" /\ departed' => departed \/ call'[j].crossed
  PROVE  \A j \in Cashiers : CallKnown(call[j])'
<1> SUFFICES ASSUME NEW j \in Cashiers \ K PROVE CallKnown(call[j])'
  BY Zenon
<1>1. PICK x \in CallRows : x = call[j]
  BY Zenon DEF FolioInv, FolioTypes
<1>2. PICK y \in CallRows : y = call'[j]
  BY Zenon DEF FolioTypes
<1>3. CallKnown(x) /\ FolioTypes
  BY <1>1, Zenon DEF FolioInv
<1>4. CallKnown(y)'
  BY <1>1, <1>2, <1>3, StillKnown, Zenon
<1> QED
  BY <1>2, <1>4, Zenon DEF CallKnown

(* Calls about to make a folio know of each other, after a step in which    *)
(* none starts.                                                             *)
LEMMA AloneKept ==
  ASSUME FolioInv, NEW K \in SUBSET Cashiers, \A k \in K : ~call'[k].new,
         \A j \in Cashiers \ K : /\ call'[j].new = call[j].new /\ call'[j].lapped = call[j].lapped
                                 /\ call'[j].at = call[j].at,
         Rows' = Rows \/ \E k \in K : call[k].new
  PROVE  \A j \in Cashiers : Alone(j)'
<1> SUFFICES ASSUME NEW j \in Cashiers, call'[j].new, ~call'[j].lapped
             PROVE  /\ \A i \in Cashiers : call'[i].new => i = j
                    /\ call'[j].at \in {"in_tx", "meal"} => Rows' = {}
  BY Zenon DEF Alone
<1>1. j \notin K /\ call[j].new /\ ~call[j].lapped /\ call'[j].at = call[j].at
  BY Zenon
<1>2. /\ \A i \in Cashiers : call[i].new => i = j
      /\ call[j].at \in {"in_tx", "meal"} => Rows = {}
  BY <1>1, Zenon DEF FolioInv, Alone
<1>3. \A i \in Cashiers : call'[i].new => call[i].new
  BY Zenon
<1> QED
  BY <1>1, <1>2, <1>3, Zenon

(* An invoice within its folio stays within it.                             *)
LEMMA InvoicesKept ==
  ASSUME FolioInv, FolioTypes', FoliosGrow, invoice' = invoice
  PROVE  \A i \in Invoices : InvoiceCovered(i)'
<1> SUFFICES ASSUME NEW i \in Invoices PROVE InvoiceCovered(i)'
  BY Zenon
<1>1. InvoiceCovered(i) /\ invoice[i].total \in Nat
  BY Zenon DEF FolioInv, FolioTypes, InvoiceRows
<1>2. \A f \in FolioIds : charged[f] \in Nat /\ charged'[f] \in Nat /\ charged[f] <= charged'[f]
  BY Zenon DEF FolioInv, FolioTypes, FoliosGrow
<1> QED
  BY <1>1, <1>2, SMTT(30) DEF InvoiceCovered

(* A call that moves on and writes nothing keeps the invariant.             *)
LEMMA QuietCall ==
  ASSUME FolioInv, NEW k \in Cashiers, NEW z \in CallRows, call' = [call EXCEPT ![k] = z], CallKnown(z), ~z.new,
         UNCHANGED <<arrived, departed, folios, charged, signed, paid, invoice, stamp, ghost>>
  PROVE  FolioInv'
<1>1. FolioTypes' /\ call'[k] = z /\ \A j \in Cashiers \ {k} : call'[j] = call[j]
  BY Zenon DEF FolioInv, FolioTypes
<1>2. Rows' = Rows
  BY Zenon DEF Rows
<1>3. FoliosGrow
  BY <1>2, SMTT(30) DEF FoliosGrow, FolioInv, FolioTypes
<1>4. CallKnown(z)'
  BY <1>2, Zenon DEF CallKnown, Canonical
<1>5. CallKnown(call[k])'
  BY <1>1, <1>4, Zenon DEF CallKnown
<1>6. \A j \in Cashiers : CallKnown(call[j])'
  <2>1. \A j \in Cashiers \ {k} : Kin(call[j], call'[j])
    BY <1>1, Zenon DEF Kin
  <2>2. {k} \in SUBSET Cashiers /\ \A i \in {k} : CallKnown(call[i])'
    BY <1>5, Zenon
  <2>3. /\ \A j \in Cashiers \ {k} : call[j].at \in CheckOutAt => call'[j].crossed \/ (Rows' = Rows /\ charged' = charged)
        /\ \A j \in Cashiers \ {k} : call[j].at = "meal" /\ departed' => departed \/ call'[j].crossed
    BY <1>2, Zenon
  <2> QED
    BY <1>1, <1>3, <2>1, <2>2, <2>3, CallsKnown, Zenon
<1>7. \A j \in Cashiers : Alone(j)'
  <2>1. {k} \in SUBSET Cashiers /\ \A i \in {k} : ~call'[i].new
    BY <1>1, Zenon
  <2> QED
    BY <1>1, <1>2, <2>1, AloneKept, Zenon
<1>8. \A i \in Invoices : InvoiceCovered(i)'
  BY <1>1, <1>3, InvoicesKept, Zenon
<1> QED
  BY <1>1, <1>2, <1>6, <1>7, <1>8, Zenon DEF FolioInv, Closings

(* A read in the middle of a call.                                          *)
LEMMA FolioReadStep ==
  ASSUME FolioInv, NEW k \in Cashiers,
         CheckInGuard(k) \/ CheckOutSum(k) \/ CheckOutPaid(k) \/ GetFolioCanonical(k) \/ GetFolioPayments(k)
  PROVE  FolioInv'
<1>0. PICK c \in CallRows : c = call[k]
  BY Zenon DEF FolioInv, FolioTypes
<1>1. CallKnown(c)
  BY <1>0, Zenon DEF FolioInv
<1>2. CASE CheckInGuard(k)
  <2>1. PICK z \in CallRows : z = [c EXCEPT !.at = "in"]
    BY Zenon DEF CallRows
  <2>2. z.at = "in" /\ z.new = c.new /\ call' = [call EXCEPT ![k] = z]
    BY <1>0, <1>2, <2>1, Zenon DEF CallRows, CheckInGuard
  <2>3. ~z.new
    BY <1>0, <1>1, <1>2, <2>2, Zenon DEF CheckInGuard, AtRest, CallKnown
  <2> QED
    BY <1>2, <2>2, <2>3, IdleKnown, QuietCall, Zenon DEF CheckInGuard
<1>3. CASE CheckOutSum(k)
  <2>1. c.at = "out_sum" /\ c.f \in Rows /\ Rows \subseteq FolioIds
    BY <1>0, <1>1, <1>3, Zenon DEF CheckOutSum, CallKnown, Rows
  <2>2. PICK n \in Nat : n = charged[c.f]
    BY <2>1, Zenon DEF FolioInv, FolioTypes
  <2>3. PICK z \in CallRows : z = [c EXCEPT !.at = "out_paid", !.sum = n]
    BY Zenon DEF CallRows
  <2>4. z.at = "out_paid" /\ z.new = c.new /\ z.f = c.f /\ z.sum = n
    BY <2>3, Zenon DEF CallRows
  <2>5. call' = [call EXCEPT ![k] = z]
    BY <1>0, <1>3, <2>2, <2>3, Zenon DEF CheckOutSum, FolioInv, FolioTypes
  <2>6. CallKnown(z) /\ ~z.new
    BY <1>1, <2>1, <2>2, <2>4, Zenon DEF CallKnown
  <2> QED
    BY <1>3, <2>5, <2>6, QuietCall, Zenon DEF CheckOutSum
<1>4. CASE CheckOutPaid(k) /\ Replied(k)
  BY <1>4, NoCallShape, IdleKnown, QuietCall, Zenon DEF CheckOutPaid, Replied
<1>5. CASE CheckOutPaid(k) /\ ~Replied(k)
  <2>1. c.at = "out_paid" /\ c.f \in Rows /\ Rows \subseteq FolioIds /\ (~RefuseOwing(k) \/ c.allow)
    BY <1>0, <1>1, <1>5, Zenon DEF CheckOutPaid, CallKnown, Rows
  <2>2. PICK z \in CallRows : z = [c EXCEPT !.at = "out_tx"]
    BY Zenon DEF CallRows
  <2>3. z.at = "out_tx" /\ z.new = c.new /\ z.f = c.f /\ z.sum = c.sum /\ z.allow = c.allow /\ z.crossed = c.crossed
    BY <2>2, Zenon DEF CallRows
  <2>4. call' = [call EXCEPT ![k] = z]
    BY <1>0, <1>5, <2>2, Zenon DEF CheckOutPaid, FolioInv, FolioTypes
  <2>5. charged[c.f] \in Nat /\ paid \in Nat
    BY <2>1, Zenon DEF FolioInv, FolioTypes
  <2>6. ~c.crossed /\ ~c.allow => charged[c.f] <= paid
    BY <1>0, <1>1, <2>1, <2>5, SMTT(30) DEF CallKnown, RefuseOwing
  <2>7. CallKnown(z) /\ ~z.new
    BY <1>1, <2>1, <2>3, <2>6, Zenon DEF CallKnown
  <2> QED
    BY <1>5, <2>4, <2>7, QuietCall, Zenon DEF CheckOutPaid
<1>6. CASE GetFolioCanonical(k)
  <2>1. c.at = "get_canon"
    BY <1>0, <1>6, Zenon DEF GetFolioCanonical
  <2>2. PICK b \in BOOLEAN : b = Canonical(c.f)
    BY Zenon DEF Canonical
  <2>3. PICK z \in CallRows : z = [c EXCEPT !.at = "get_paid", !.canon = b]
    BY Zenon DEF CallRows
  <2>4. z.at = "get_paid" /\ z.new = c.new /\ z.f = c.f /\ z.sum = c.sum /\ z.canon = b
    BY <2>3, Zenon DEF CallRows
  <2>5. call' = [call EXCEPT ![k] = z]
    BY <1>0, <1>6, <2>2, <2>3, Zenon DEF GetFolioCanonical, FolioInv, FolioTypes
  <2>6. CallKnown(z) /\ ~z.new
    BY <1>1, <2>1, <2>2, <2>4, Zenon DEF CallKnown
  <2> QED
    BY <1>6, <2>5, <2>6, QuietCall, Zenon DEF GetFolioCanonical
<1>7. CASE GetFolioPayments(k)
  BY <1>7, NoCallShape, IdleKnown, QuietCall, Zenon DEF GetFolioPayments, Replied
<1> QED
  BY <1>2, <1>3, <1>4, <1>5, <1>6, <1>7, Zenon

(* A call that starts by reading.                                           *)
LEMMA StartStep ==
  ASSUME FolioInv, NEW k \in Cashiers,
         \/ \E allow \in BOOLEAN : CheckOutPick(k, allow)
         \/ \E f \in FolioIds : GetFolioCharges(k, f) \/ InvoiceCharges(k, f)
  PROVE  FolioInv'
<1>0. Rows \subseteq FolioIds /\ OpenRows \subseteq Rows
  BY Zenon DEF Rows, OpenRows
<1>1. CASE \E allow \in BOOLEAN : CheckOutPick(k, allow)
  <2>1. PICK allow \in BOOLEAN : CheckOutPick(k, allow)
    BY <1>1, Zenon
  <2>2. CASE \E f \in OpenRows :
               call' = [call EXCEPT ![k] = [NoCall EXCEPT !.at = "out_sum", !.f = f, !.allow = allow]]
    <3>1. PICK f \in OpenRows : call' = [call EXCEPT ![k] = [NoCall EXCEPT !.at = "out_sum", !.f = f, !.allow = allow]]
      BY <2>2, Zenon
    <3>2. f \in FolioIds /\ f \in Rows
      BY <1>0, Zenon
    <3> DEFINE z == [NoCall EXCEPT !.at = "out_sum", !.f = f, !.allow = allow]
    <3>3. z \in CallRows /\ z.at = "out_sum" /\ ~z.new /\ z.f = f
      BY <3>2, Zenon DEF NoCall, CallRows
    <3>4. call' = [call EXCEPT ![k] = z]
      BY <3>1, Zenon
    <3> HIDE DEF z
    <3>5. CallKnown(z)
      BY <3>2, <3>3, Zenon DEF CallKnown
    <3> QED
      BY <2>1, <3>3, <3>4, <3>5, QuietCall, ZenonT(30) DEF CheckOutPick
  <2>3. CASE /\ OpenRows = {}
             /\ call' = [call EXCEPT ![k] = [NoCall EXCEPT !.at = "out_tx", !.allow = allow]]
    <3> DEFINE z == [NoCall EXCEPT !.at = "out_tx", !.allow = allow]
    <3>1. z \in CallRows /\ z.at = "out_tx" /\ ~z.new /\ z.f = 0
      BY Zenon DEF NoCall, CallRows
    <3>2. call' = [call EXCEPT ![k] = z]
      BY <2>3, Zenon
    <3> HIDE DEF z
    <3>3. Rows = {}
      BY <2>1, <2>3, Zenon
         DEF CheckOutPick, InHouse, FolioInv, Closings, Rows, OpenRows, FolioTypes, FolioRows
    <3>4. CallKnown(z)
      BY <3>1, <3>3, Zenon DEF CallKnown
    <3> QED
      BY <2>1, <3>1, <3>2, <3>4, QuietCall, Zenon DEF CheckOutPick
  <2> QED
    BY <2>1, <2>2, <2>3, Zenon DEF CheckOutPick
<1>2. ASSUME NEW f \in FolioIds, NEW at \in {"get_canon", "invoice"}, f \in Rows,
             call' = [call EXCEPT ![k] = [NoCall EXCEPT !.at = at, !.f = f, !.sum = charged[f]]],
             UNCHANGED <<arrived, departed, folios, charged, signed, paid, invoice, stamp, ghost>>
      PROVE  FolioInv'
  <2>1. PICK n \in Nat : n = charged[f]
    BY Zenon DEF FolioInv, FolioTypes
  <2> DEFINE z == [NoCall EXCEPT !.at = at, !.f = f, !.sum = n]
  <2>2. z \in CallRows /\ z.at = at /\ ~z.new /\ z.f = f /\ z.sum = n
    BY ZenonT(30) DEF NoCall, CallRows
  <2>3. call' = [call EXCEPT ![k] = z]
    BY <1>2, <2>1, Zenon
  <2> HIDE DEF z
  <2>4. CallKnown(z)
    BY <1>2, <2>1, <2>2, SMTT(30) DEF CallKnown
  <2> QED
    BY <1>2, <2>2, <2>3, <2>4, QuietCall, Zenon
<1>3. CASE \E f \in FolioIds : GetFolioCharges(k, f)
  BY <1>2, <1>3, Zenon DEF GetFolioCharges
<1>4. CASE \E f \in FolioIds : InvoiceCharges(k, f)
  BY <1>2, <1>4, Zenon DEF InvoiceCharges
<1> QED
  BY <1>1, <1>3, <1>4, Zenon

(* A call that found no open folio is about to make one.                    *)
LEMMA OpeningStep ==
  ASSUME FolioInv, NEW k \in Cashiers, NEW at \in {"create", "in_tx", "meal"}, NEW m \in Meals \cup {0},
         AtRest(k) \/ call[k].at = "in", Opening(k, at, m),
         at # "create" => Rows = {}, at = "meal" => ~departed,
         UNCHANGED <<arrived, departed, folios, charged, signed, paid, invoice, ghost>>
  PROVE  FolioInv'
<1>0. stamp \in Nat /\ call \in [Cashiers -> CallRows]
  BY Zenon DEF FolioInv, FolioTypes
<1>1. PICK t \in Nat : t = stamp + 1
  BY <1>0, SMTT(30)
<1>2. PICK l \in BOOLEAN : l <=> Pending # {}
  BY Zenon
<1>3. PICK z \in CallRows : z = [NoCall EXCEPT !.at = at, !.new = TRUE, !.made = t, !.m = m, !.lapped = l]
  BY ZenonT(30) DEF NoCall, CallRows
<1>4. z.at = at /\ z.new /\ z.lapped = l
  BY <1>3, Zenon DEF NoCall
<1>5. call'[k] = z
  BY <1>1, <1>2, <1>3, Zenon DEF Opening
<1>6. ASSUME NEW j \in Cashiers \ {k}
      PROVE  /\ call'[j] \in CallRows /\ Kin(call[j], call'[j])
             /\ call'[j].lapped <=> (call[j].lapped \/ call[j].new)
  <2>1. PICK c \in CallRows : c = call[j]
    BY <1>0, Zenon
  <2>2. PICK b \in BOOLEAN : b = (c.lapped \/ c.new)
    BY Zenon
  <2>3. PICK y \in CallRows : y = [c EXCEPT !.lapped = b]
    BY Zenon DEF CallRows
  <2>4. call'[j] = y
    BY <2>1, <2>2, <2>3, Zenon DEF Opening
  <2>5. y.lapped = b /\ Kin(c, y)
    BY <2>3, Zenon DEF CallRows, Kin
  <2> QED
    BY <2>1, <2>2, <2>4, <2>5, Zenon
<1>7. FolioTypes'
  <2>1. call' \in [Cashiers -> CallRows]
    <3>1. DOMAIN call' = Cashiers /\ call' = [j \in Cashiers |-> call'[j]]
      BY Zenon DEF Opening
    <3>2. \A j \in Cashiers : call'[j] \in CallRows
      BY <1>5, <1>6, Zenon
    <3> QED
      BY <3>1, <3>2, Zenon
  <2>2. stamp' \in Nat
    BY <1>1, Zenon DEF Opening
  <2> QED
    BY <2>1, <2>2, Zenon DEF FolioInv, FolioTypes
<1>8. Rows' = Rows
  BY Zenon DEF Rows
<1>9. FoliosGrow
  BY <1>8, SMTT(30) DEF FoliosGrow, FolioInv, FolioTypes
<1>10. CallKnown(z)'
  BY <1>4, Zenon DEF CallKnown
<1>11. \A j \in Cashiers : CallKnown(call[j])'
  <2>1. {k} \in SUBSET Cashiers /\ \A i \in {k} : CallKnown(call[i])'
    BY <1>5, <1>10, SMTT(30) DEF CallKnown
  <2>2. /\ \A j \in Cashiers \ {k} : Kin(call[j], call'[j])
        /\ \A j \in Cashiers \ {k} : call[j].at \in CheckOutAt => call'[j].crossed \/ (Rows' = Rows /\ charged' = charged)
        /\ \A j \in Cashiers \ {k} : call[j].at = "meal" /\ departed' => departed \/ call'[j].crossed
    BY <1>6, <1>8, Zenon
  <2> QED
    BY <1>7, <1>9, <2>1, <2>2, CallsKnown, Zenon
<1>12. ASSUME NEW j \in Cashiers, call'[j].new, ~call'[j].lapped
       PROVE  /\ \A i \in Cashiers : call'[i].new => i = j
              /\ call'[j].at \in {"in_tx", "meal"} => Rows' = {}
  <2>1. j = k
    BY <1>6, <1>12, Zenon DEF Kin
  <2>2. Pending = {}
    BY <1>2, <1>4, <1>5, <1>12, <2>1, Zenon
  <2>3. \A i \in Cashiers \ {k} : ~call'[i].new
    BY <1>6, <2>2, Zenon DEF Pending, Kin
  <2> QED
    BY <1>4, <1>5, <1>8, <2>1, <2>3, Zenon
<1>13. \A j \in Cashiers : Alone(j)'
  BY <1>12, Zenon DEF Alone
<1>14. \A i \in Invoices : InvoiceCovered(i)'
  BY <1>7, <1>9, InvoicesKept, Zenon
<1> QED
  BY <1>7, <1>8, <1>11, <1>13, <1>14, Zenon DEF FolioInv, Closings

(* A write ends the calls of K and marks every check-out under way as       *)
(* crossed.                                                                 *)
LEMMA MoveFrame ==
  ASSUME FolioInv, NEW K \in SUBSET Cashiers,
         call' = [j \in Cashiers |-> IF j \in K THEN NoCall ELSE [call[j] EXCEPT !.crossed = @ \/ CheckingOut(j)]]
  PROVE  /\ call' \in [Cashiers -> CallRows] /\ \A k \in K : call'[k] = NoCall
         /\ \A j \in Cashiers \ K : /\ Kin(call[j], call'[j]) /\ call'[j].lapped = call[j].lapped
                                    /\ call[j].at \in CheckOutAt => call'[j].crossed
<1>0. call \in [Cashiers -> CallRows]
  BY Zenon DEF FolioInv, FolioTypes
<1>1. \A k \in K : call'[k] = NoCall
  BY Zenon
<1>2. ASSUME NEW j \in Cashiers \ K
      PROVE  /\ call'[j] \in CallRows /\ Kin(call[j], call'[j]) /\ call'[j].lapped = call[j].lapped
             /\ call[j].at \in CheckOutAt => call'[j].crossed
  <2>1. PICK c \in CallRows : c = call[j]
    BY <1>0, Zenon
  <2>2. PICK b \in BOOLEAN : b = (c.crossed \/ c.at \in CheckOutAt)
    BY Zenon
  <2>3. PICK y \in CallRows : y = [c EXCEPT !.crossed = b]
    BY Zenon DEF CallRows
  <2>4. call'[j] = y
    BY <2>1, <2>2, <2>3, Zenon DEF CheckingOut, CheckOutAt
  <2>5. y.crossed = b /\ y.lapped = c.lapped /\ Kin(c, y)
    BY <2>2, <2>3, SMTT(30) DEF CallRows, Kin
  <2> QED
    BY <2>1, <2>2, <2>4, <2>5, Zenon
<1>3. call' \in [Cashiers -> CallRows]
  <2>1. DOMAIN call' = Cashiers /\ call' = [j \in Cashiers |-> call'[j]]
    BY Zenon
  <2>2. \A j \in Cashiers : call'[j] \in CallRows
    BY <1>1, <1>2, NoCallShape, Zenon
  <2> QED
    BY <2>1, <2>2, Zenon
<1> QED
  BY <1>1, <1>2, <1>3, Zenon

(* A write that adds folios, charges or payments keeps the invariant.       *)
LEMMA MoveStep ==
  ASSUME FolioInv, NEW K \in SUBSET Cashiers,
         call' = [j \in Cashiers |-> IF j \in K THEN NoCall ELSE [call[j] EXCEPT !.crossed = @ \/ CheckingOut(j)]],
         arrived' \in BOOLEAN, departed' = departed, folios' \in [FolioIds -> FolioRows], Closings',
         Rows \subseteq Rows', \A f \in Rows : folios'[f].made = folios[f].made,
         Rows' = Rows \/ \E k \in K : call[k].new,
         charged' \in [FolioIds -> Nat], \A f \in FolioIds : charged[f] <= charged'[f],
         paid' = paid, invoice' = invoice, stamp' = stamp,
         ghost' \in [extra : Nat, walked : BOOLEAN, late : BOOLEAN],
         Cardinality(Rows') <= 1 + ghost'.extra, ~ghost'.walked, ~ghost'.late
  PROVE  FolioInv'
<1>1. /\ call' \in [Cashiers -> CallRows] /\ \A k \in K : call'[k] = NoCall
      /\ \A j \in Cashiers \ K : /\ Kin(call[j], call'[j]) /\ call'[j].lapped = call[j].lapped
                                 /\ call[j].at \in CheckOutAt => call'[j].crossed
  BY MoveFrame, Zenon
<1>2. FolioTypes'
  BY <1>1, Zenon DEF FolioInv, FolioTypes
<1>3. FoliosGrow
  BY SMTT(30) DEF FoliosGrow, FolioInv, FolioTypes
<1>4. \A k \in K : CallKnown(call[k])'
  <2>1. CallKnown(NoCall)'
    BY NoCallShape, Zenon DEF CallKnown
  <2> QED
    BY <1>1, <2>1, Zenon DEF CallKnown
<1>5. \A j \in Cashiers : CallKnown(call[j])'
  <2>1. /\ \A j \in Cashiers \ K : Kin(call[j], call'[j])
        /\ \A j \in Cashiers \ K : call[j].at \in CheckOutAt => call'[j].crossed \/ (Rows' = Rows /\ charged' = charged)
        /\ \A j \in Cashiers \ K : call[j].at = "meal" /\ departed' => departed \/ call'[j].crossed
    BY <1>1, Zenon
  <2> QED
    BY <1>2, <1>3, <1>4, <2>1, CallsKnown, Zenon
<1>6. \A j \in Cashiers : Alone(j)'
  <2>1. \A k \in K : ~call'[k].new
    BY <1>1, NoCallShape, Zenon
  <2>2. \A j \in Cashiers \ K : /\ call'[j].new = call[j].new /\ call'[j].lapped = call[j].lapped
                                /\ call'[j].at = call[j].at
    BY <1>1, Zenon DEF Kin
  <2> QED
    BY <2>1, <2>2, AloneKept, Zenon
<1>7. \A i \in Invoices : InvoiceCovered(i)'
  BY <1>2, <1>3, InvoicesKept, Zenon
<1> QED
  BY <1>2, <1>5, <1>6, <1>7, Zenon DEF FolioInv

(* A new folio leaves the others as they were.                              *)
LEMMA OpenedRow ==
  ASSUME FolioInv, NEW k \in Cashiers, NEW f \in FolioIds, Opened(k, f)
  PROVE  /\ folios' \in [FolioIds -> FolioRows] /\ Rows' = Rows \cup {f} /\ f \notin Rows
         /\ \A g \in Rows : folios'[g].made = folios[g].made
         /\ departed' = departed => Closings'
<1>0. folios \in [FolioIds -> FolioRows] /\ call[k].made \in Nat
  BY Zenon DEF FolioInv, FolioTypes, CallRows
<1>1. PICK r \in FolioRows : r = [status |-> "open", made |-> call[k].made]
  BY <1>0, Zenon DEF FolioRows
<1>2. r.status = "open"
  BY <1>1, Zenon
<1>3. folios' = [folios EXCEPT ![f] = r] /\ f \notin Rows
  BY <1>1, Zenon DEF Opened
<1>4. folios' \in [FolioIds -> FolioRows] /\ folios'[f] = r /\ \A g \in FolioIds \ {f} : folios'[g] = folios[g]
  BY <1>0, <1>3, Zenon
<1>5. Rows' = Rows \cup {f}
  BY <1>2, <1>4, Zenon DEF Rows
<1>6. \A g \in Rows : folios'[g].made = folios[g].made
  BY <1>3, <1>4, Zenon DEF Rows
<1>7. departed' = departed => Closings'
  BY <1>2, <1>4, SMTT(30) DEF FolioInv, Closings
<1> QED
  BY <1>3, <1>4, <1>5, <1>6, <1>7, Zenon

(* A call that found no folio, and that none was made under, still finds    *)
(* none.                                                                    *)
LEMMA UnlappedFindsNone ==
  ASSUME FolioInv, NEW k \in Cashiers, call[k].new, ~call[k].lapped, call[k].at \in {"in_tx", "meal"}
  PROVE  Rows = {}
BY Zenon DEF FolioInv, Alone

GhostRows == [extra : Nat, walked : BOOLEAN, late : BOOLEAN]

(* What the invariant says of the history.                                  *)
LEMMA GhostFacts == ASSUME FolioInv PROVE ghost \in GhostRows /\ ghost.extra \in Nat /\ ~ghost.walked /\ ~ghost.late
BY Zenon DEF FolioInv, FolioTypes, GhostRows

(* A charge adds to one folio.                                              *)
LEMMA ChargedMore ==
  ASSUME FolioInv, NEW f \in FolioIds, charged' = [charged EXCEPT ![f] = @ + 1]
  PROVE  charged' \in [FolioIds -> Nat] /\ \A g \in FolioIds : charged[g] <= charged'[g]
BY SMTT(30) DEF FolioInv, FolioTypes

(* A call looks for the open folio of the stay.                             *)
LEMMA LookupStep ==
  ASSUME FolioInv, NEW k \in Cashiers,
         CreateFolioStart(k) \/ CheckInFolio(k) \/ \E m \in Meals : resolveFolioForRoomCharge(k, m)
  PROVE  FolioInv'
<1>0. PICK c \in CallRows : c = call[k]
  BY Zenon DEF FolioInv, FolioTypes
<1>1. CallKnown(c)
  BY <1>0, Zenon DEF FolioInv
<1>2. CASE CreateFolioStart(k)
  BY <1>2, OpeningStep, Zenon DEF CreateFolioStart
<1>3. CASE CheckInFolio(k) /\ Rows = {}
  BY <1>3, OpeningStep, Zenon DEF CheckInFolio, EnsureFolio
<1>4. CASE CheckInFolio(k) /\ Rows # {}
  <2>1. PICK z \in CallRows : z = [c EXCEPT !.at = "in_tx"]
    BY Zenon DEF CallRows
  <2>2. z.at = "in_tx" /\ z.new = c.new
    BY <2>1, Zenon DEF CallRows
  <2>3. call' = [call EXCEPT ![k] = z] /\ c.at = "in"
    BY <1>0, <1>4, <2>1, Zenon DEF CheckInFolio, EnsureFolio, FolioInv, FolioTypes
  <2>4. CallKnown(z) /\ ~z.new
    BY <1>1, <2>2, <2>3, Zenon DEF CallKnown
  <2>5. UNCHANGED <<arrived, departed, folios, charged, signed, paid, invoice, stamp, ghost>>
    BY <1>4, Zenon DEF CheckInFolio, EnsureFolio
  <2> QED
    BY <2>3, <2>4, <2>5, QuietCall, Zenon
<1>5. ASSUME NEW m \in Meals, resolveFolioForRoomCharge(k, m) PROVE FolioInv'
  <2>1. AtRest(k) /\ ~departed /\ UNCHANGED <<arrived, departed, folios, charged, signed, paid, invoice, ghost>>
    BY <1>5, Zenon DEF resolveFolioForRoomCharge, InHouse
  <2>2. CASE OpenRows = {} /\ Opening(k, "meal", m)
    <3>1. Rows = {}
      BY <2>1, <2>2, Zenon DEF FolioInv, Closings, Rows, OpenRows, FolioTypes, FolioRows
    <3> QED
      BY <2>1, <2>2, <3>1, OpeningStep, Zenon
  <2>3. CASE \E f \in OpenRows : /\ call' = [call EXCEPT ![k] = [NoCall EXCEPT !.at = "meal", !.f = f, !.m = m]]
                                 /\ UNCHANGED stamp
    <3>1. PICK f \in OpenRows : /\ call' = [call EXCEPT ![k] = [NoCall EXCEPT !.at = "meal", !.f = f, !.m = m]]
                                /\ UNCHANGED stamp
      BY <2>3, Zenon
    <3>2. f \in FolioIds /\ f \in Rows
      BY Zenon DEF OpenRows, Rows
    <3> DEFINE z == [NoCall EXCEPT !.at = "meal", !.f = f, !.m = m]
    <3>3. z \in CallRows /\ z.at = "meal" /\ ~z.new /\ z.f = f
      BY <3>2, Zenon DEF NoCall, CallRows
    <3>4. call' = [call EXCEPT ![k] = z]
      BY <3>1, Zenon
    <3> HIDE DEF z
    <3>5. CallKnown(z)
      BY <2>1, <3>2, <3>3, Zenon DEF CallKnown
    <3> QED
      BY <2>1, <3>1, <3>3, <3>4, <3>5, QuietCall, Zenon
  <2> QED
    BY <1>5, <2>2, <2>3, ZenonT(30) DEF resolveFolioForRoomCharge
<1> QED
  BY <1>2, <1>3, <1>4, <1>5, Zenon

(* A step that changes no folio and no call keeps the invariant.            *)
LEMMA ElsewhereFolio ==
  ASSUME FolioInv, FolioTypes', call' = call, folios' = folios, charged' = charged, paid <= paid', departed' = departed,
         ghost' = ghost, \A i \in Invoices : InvoiceCovered(i)'
  PROVE  FolioInv'
<1>1. Rows' = Rows
  BY Zenon DEF Rows
<1>2. FoliosGrow
  BY <1>1, SMTT(30) DEF FoliosGrow, FolioInv, FolioTypes
<1>3. \A j \in Cashiers : CallKnown(call[j])'
  <2>1. /\ \A j \in Cashiers \ {} : Kin(call[j], call'[j])
        /\ \A j \in Cashiers \ {} : call[j].at \in CheckOutAt => call'[j].crossed \/ (Rows' = Rows /\ charged' = charged)
        /\ \A j \in Cashiers \ {} : call[j].at = "meal" /\ departed' => departed \/ call'[j].crossed
    BY <1>1, Zenon DEF Kin
  <2>2. {} \in SUBSET Cashiers /\ \A k \in {} : CallKnown(call[k])'
    BY Zenon
  <2> QED
    BY <1>2, <2>1, <2>2, CallsKnown, Zenon
<1>4. \A j \in Cashiers : Alone(j)'
  BY <1>1, Zenon DEF FolioInv, Alone
<1> QED
  BY <1>1, <1>3, <1>4, Zenon DEF FolioInv, Closings

(* A payment is recorded.                                                   *)
LEMMA FolioPaymentStep == ASSUME FolioInv, NEW f \in FolioIds, FolioPayment(f) PROVE FolioInv'
<1>1. FolioTypes' /\ paid <= paid'
  BY SMTT(30) DEF FolioInv, FolioTypes, FolioPayment
<1>2. \A i \in Invoices : InvoiceCovered(i)'
  BY Zenon DEF FolioInv, InvoiceCovered, FolioPayment
<1> QED
  BY <1>1, <1>2, ElsewhereFolio, Zenon DEF FolioPayment

(* An invoice is sent.                                                      *)
LEMMA EmailStep == ASSUME FolioInv, NEW i \in Invoices, EmailInvoice(i) PROVE FolioInv'
<1>1. invoice \in [Invoices -> InvoiceRows]
  BY Zenon DEF FolioInv, FolioTypes
<1>2. PICK r \in InvoiceRows : r = [invoice[i] EXCEPT !.status = "sent"]
  BY <1>1, Zenon DEF InvoiceRows
<1>3. r.f = invoice[i].f /\ r.total = invoice[i].total
  BY <1>1, <1>2, Zenon DEF InvoiceRows
<1>4. invoice' = [invoice EXCEPT ![i] = r]
  BY <1>1, <1>2, Zenon DEF EmailInvoice
<1>5. FolioTypes' /\ paid <= paid'
  BY <1>4, SMTT(30) DEF FolioInv, FolioTypes, EmailInvoice
<1>6. ASSUME NEW j \in Invoices PROVE InvoiceCovered(j)'
  <2>1. invoice[i].status # "none" /\ charged' = charged
    BY Zenon DEF EmailInvoice
  <2>2. InvoiceCovered(j) /\ InvoiceCovered(i)
    BY Zenon DEF FolioInv
  <2> QED
    BY <1>1, <1>3, <1>4, <2>1, <2>2, Zenon DEF InvoiceCovered
<1> QED
  BY <1>5, <1>6, ElsewhereFolio, Zenon DEF EmailInvoice

(* An invoice is made from the charges read.                                *)
LEMMA InvoiceInsertStep == ASSUME FolioInv, NEW k \in Cashiers, InvoiceInsert(k) PROVE FolioInv'
<1>1. PICK i \in Invoices :
        invoice' = [invoice EXCEPT ![i] = [f |-> call[k].f, total |-> call[k].sum, status |-> "draft"]]
  BY Zenon DEF InvoiceInsert
<1>2. call[k] \in CallRows /\ call[k].f \in Rows /\ call[k].sum <= charged[call[k].f] /\ Rows \subseteq FolioIds
  BY Zenon DEF InvoiceInsert, FolioInv, FolioTypes, CallKnown, Rows
<1>3. PICK r \in InvoiceRows : r = [f |-> call[k].f, total |-> call[k].sum, status |-> "draft"]
  BY <1>2, Zenon DEF InvoiceRows, CallRows
<1>4. r.f = call[k].f /\ r.total = call[k].sum
  BY <1>3, Zenon
<1>5. invoice \in [Invoices -> InvoiceRows] /\ invoice' = [invoice EXCEPT ![i] = r]
  BY <1>1, <1>3, Zenon DEF FolioInv, FolioTypes
<1>6. \A j \in Invoices : InvoiceCovered(j)'
  BY <1>2, <1>4, <1>5, Zenon DEF FolioInv, InvoiceCovered, InvoiceInsert
<1>7. call' = [call EXCEPT ![k] = NoCall]
  BY Zenon DEF InvoiceInsert, Replied
<1>8. /\ FolioTypes' /\ Rows' = Rows
      /\ call'[k] = NoCall /\ \A j \in Cashiers \ {k} : call'[j] = call[j]
  BY <1>5, <1>7, NoCallShape, Zenon DEF InvoiceInsert, FolioInv, FolioTypes, Rows
<1>9. FoliosGrow
  BY <1>8, SMTT(30) DEF FoliosGrow, FolioInv, FolioTypes, InvoiceInsert
<1>10. \A j \in Cashiers : CallKnown(call[j])'
  <2>1. CallKnown(NoCall)'
    BY NoCallShape, Zenon DEF CallKnown
  <2>2. {k} \in SUBSET Cashiers /\ \A j \in {k} : CallKnown(call[j])'
    BY <1>8, <2>1, SMTT(30) DEF CallKnown
  <2>3. /\ \A j \in Cashiers \ {k} : Kin(call[j], call'[j])
        /\ \A j \in Cashiers \ {k} : call[j].at \in CheckOutAt => call'[j].crossed \/ (Rows' = Rows /\ charged' = charged)
        /\ \A j \in Cashiers \ {k} : call[j].at = "meal" /\ departed' => departed \/ call'[j].crossed
    BY <1>8, Zenon DEF Kin, InvoiceInsert
  <2> QED
    BY <1>8, <1>9, <2>2, <2>3, CallsKnown, Zenon
<1>11. \A j \in Cashiers : Alone(j)'
  <2>1. {k} \in SUBSET Cashiers /\ \A j \in {k} : ~call'[j].new
    BY <1>8, NoCallShape, Zenon
  <2> QED
    BY <1>8, <2>1, AloneKept, Zenon
<1> QED
  BY <1>6, <1>8, <1>10, <1>11, Zenon DEF FolioInv, Closings, InvoiceInsert

(* CheckOut commits: it closes the folios of a stay that it found settled.  *)
LEMMA CheckOutCommitStep == ASSUME FolioInv, NEW k \in Cashiers, CheckOutCommit(k) PROVE FolioInv'
<1>0. /\ call \in [Cashiers -> CallRows] /\ folios \in [FolioIds -> FolioRows] /\ Rows \subseteq FolioIds
      /\ charged \in [FolioIds -> Nat] /\ paid \in Nat
  BY Zenon DEF FolioInv, FolioTypes, Rows
<1>1. CallKnown(call[k]) /\ call[k].at = "out_tx"
  BY Zenon DEF FolioInv, CheckOutCommit
<1>2. folios' \in [FolioIds -> FolioRows] /\ Rows' = Rows /\ \A f \in FolioIds : folios'[f].made = folios[f].made
  <2>1. CASE call[k].f = 0
    <3>1. folios' = folios
      BY <2>1, Zenon DEF CheckOutCommit
    <3> QED
      BY <1>0, <3>1, Zenon DEF Rows
  <2>2. CASE call[k].f # 0
    <3>1. PICK f \in Rows : f = call[k].f
      BY <1>1, <2>2, Zenon DEF CallKnown
    <3>2. PICK r \in FolioRows : r = [folios[f] EXCEPT !.status = "closed"]
      BY <1>0, Zenon DEF FolioRows
    <3>3. r.status = "closed" /\ r.made = folios[f].made
      BY <1>0, <3>2, Zenon DEF FolioRows
    <3>4. folios' = [folios EXCEPT ![f] = r]
      BY <1>0, <2>2, <3>1, <3>2, Zenon DEF CheckOutCommit
    <3>5. folios' \in [FolioIds -> FolioRows] /\ folios'[f] = r /\ \A g \in FolioIds \ {f} : folios'[g] = folios[g]
      BY <1>0, <3>4, Zenon
    <3>6. Rows' = Rows
      BY <1>0, <3>3, <3>5, Zenon DEF Rows
    <3> QED
      BY <1>0, <3>3, <3>5, <3>6, Zenon
  <2> QED
    BY <2>1, <2>2, Zenon
<1>3. ghost \in GhostRows /\ ghost.extra \in Nat /\ ~ghost.walked /\ ~ghost.late
  BY GhostFacts, Zenon
<1>4. ~(/\ ~call[k].allow /\ ~call[k].crossed /\ \E f \in FolioIds : Rows = {f} /\ charged[f] > paid)
  <2>1. ~call[k].crossed /\ ~call[k].allow =>
          Rows = {} \/ (call[k].f \in Rows /\ charged[call[k].f] <= paid)
    BY <1>1, Zenon DEF CallKnown
  <2> QED
    BY <1>0, <2>1, SMTT(30)
<1>5. ghost' \in GhostRows /\ ghost'.extra = ghost.extra /\ ~ghost'.walked /\ ~ghost'.late
  <2>1. ghost' = [ghost EXCEPT !.walked = FALSE]
    BY <1>3, <1>4, Zenon DEF CheckOutCommit
  <2> QED
    BY <1>3, <2>1, Zenon DEF GhostRows
<1>6. call'[k] = NoCall
  BY Zenon DEF CheckOutCommit
<1>7. ASSUME NEW j \in Cashiers \ {k}
      PROVE  /\ call'[j] \in CallRows /\ Kin(call[j], call'[j]) /\ call'[j].lapped = call[j].lapped
             /\ call[j].at = "meal" => call'[j].crossed
  <2>1. PICK c \in CallRows : c = call[j]
    BY <1>0, Zenon
  <2>2. PICK b \in BOOLEAN : b = (c.crossed \/ c.at = "meal")
    BY Zenon
  <2>3. PICK y \in CallRows : y = [c EXCEPT !.crossed = b]
    BY Zenon DEF CallRows
  <2>4. call'[j] = y
    BY <2>1, <2>2, <2>3, Zenon DEF CheckOutCommit
  <2>5. y.crossed = b /\ y.lapped = c.lapped /\ Kin(c, y)
    BY <2>2, <2>3, SMTT(30) DEF CallRows, Kin
  <2> QED
    BY <2>1, <2>2, <2>4, <2>5, Zenon
<1>8. call' \in [Cashiers -> CallRows]
  <2>1. DOMAIN call' = Cashiers /\ call' = [j \in Cashiers |-> call'[j]]
    BY Zenon DEF CheckOutCommit
  <2>2. \A j \in Cashiers : call'[j] \in CallRows
    BY <1>6, <1>7, NoCallShape, Zenon
  <2> QED
    BY <2>1, <2>2, Zenon
<1>9. departed' = TRUE /\ UNCHANGED <<arrived, charged, signed, paid, invoice, stamp>>
  BY Zenon DEF CheckOutCommit
<1>10. FolioTypes'
  BY <1>2, <1>5, <1>8, <1>9, Zenon DEF FolioInv, FolioTypes, GhostRows
<1>11. FoliosGrow
  BY <1>0, <1>2, <1>9, SMTT(30) DEF FoliosGrow
<1>12. \A j \in Cashiers : CallKnown(call[j])'
  <2>1. CallKnown(NoCall)'
    BY NoCallShape, Zenon DEF CallKnown
  <2>2. {k} \in SUBSET Cashiers /\ \A j \in {k} : CallKnown(call[j])'
    BY <1>6, <2>1, SMTT(30) DEF CallKnown
  <2>3. /\ \A j \in Cashiers \ {k} : Kin(call[j], call'[j])
        /\ \A j \in Cashiers \ {k} : call[j].at \in CheckOutAt => call'[j].crossed \/ (Rows' = Rows /\ charged' = charged)
        /\ \A j \in Cashiers \ {k} : call[j].at = "meal" /\ departed' => departed \/ call'[j].crossed
    BY <1>2, <1>7, <1>9, Zenon
  <2> QED
    BY <1>10, <1>11, <2>2, <2>3, CallsKnown, Zenon
<1>13. \A j \in Cashiers : Alone(j)'
  <2>1. {k} \in SUBSET Cashiers /\ \A j \in {k} : ~call'[j].new
    BY <1>6, NoCallShape, Zenon
  <2>2. \A j \in Cashiers \ {k} : /\ call'[j].new = call[j].new /\ call'[j].lapped = call[j].lapped
                                  /\ call'[j].at = call[j].at
    BY <1>7, Zenon DEF Kin
  <2> QED
    BY <1>2, <2>1, <2>2, AloneKept, Zenon
<1>14. \A i \in Invoices : InvoiceCovered(i)'
  BY <1>9, <1>10, <1>11, InvoicesKept, Zenon
<1>15. Closings' /\ Cardinality(Rows') <= 1 + ghost'.extra
  BY <1>2, <1>5, <1>9, Zenon DEF Closings, FolioInv
<1> QED
  BY <1>5, <1>10, <1>12, <1>13, <1>14, <1>15, Zenon DEF FolioInv

-----------------------------------------------------------------------------
INSTANCE FiniteSetTheorems

(* Bookings counted.                                                        *)

(* A promo code's counter equals the bookings that carry it and stays       *)
(* within the limit: the redemption's own WHERE clause re-checks what every *)
(* desk checked before its transaction.                                     *)
THEOREM PromoWithinLimitHolds == Spec => []PromoWithinLimit
<1> DEFINE Carrying == {s \in Stays : stay[s].promo}
<1>1. Init => PromoWithinLimit
  <2> SUFFICES ASSUME Init PROVE PromoWithinLimit  BY Zenon
  <2>1. Carrying = {}  BY Zenon DEF Init, NoRow
  <2>2. Cardinality(Carrying) = 0  BY <2>1, FS_EmptySet, Zenon
  <2> QED  BY <2>2, LimitAssumption, SMTT(30) DEF Init, PromoWithinLimit
<1>2. Inv /\ PromoWithinLimit /\ [Next]_vars => PromoWithinLimit'
  <2> SUFFICES ASSUME Inv, PromoWithinLimit, [Next]_vars PROVE PromoWithinLimit'  BY Zenon
  <2>1. IsFiniteSet(Carrying)  BY StaysAssumption, FS_Subset, Zenon
  <2>2. CASE stay' = stay /\ used' = used  BY <2>2, Zenon DEF PromoWithinLimit
  <2>3. ASSUME NEW s \in Stays, NEW row \in Row, stay' = [stay EXCEPT ![s] = row],
               row.promo <=> stay[s].promo, used' = used
        PROVE  PromoWithinLimit'
    <3>1. \A t \in Stays : stay'[t].promo <=> stay[t].promo  BY <2>3, Zenon DEF Inv, TypeOK
    <3>2. Carrying' = Carrying  BY <3>1, Zenon
    <3> QED  BY <2>3, <3>2, Zenon DEF PromoWithinLimit
  <2>4. ASSUME NEW s \in Stays, NEW row \in Row, stay' = [stay EXCEPT ![s] = row],
               ~stay[s].promo, row.promo, PromoHasUses, used' = used + 1
        PROVE  PromoWithinLimit'
    <3>1. \A t \in Stays : stay'[t].promo <=> (t = s \/ stay[t].promo)
      BY <2>4, Zenon DEF Inv, TypeOK
    <3>2. Carrying' = Carrying \cup {s} /\ s \notin Carrying  BY <2>4, <3>1, Zenon
    <3>3. Cardinality(Carrying') = Cardinality(Carrying) + 1  BY <2>1, <3>2, FS_AddElement, Zenon
    <3>4. PromoLimit > 0 => used' <= PromoLimit
      BY <2>4, LimitAssumption, SMTT(30) DEF PromoHasUses, Inv, TypeOK
    <3> QED  BY <2>4, <3>3, <3>4, Zenon DEF PromoWithinLimit
  <2> QED  BY <2>2, <2>3, <2>4, StepWrites, Zenon
<1> QED  BY <1>1, <1>2, InductiveInvariant, PTL DEF Spec

-----------------------------------------------------------------------------
(* Folios counted, and what rests on that.                                  *)

(* Init establishes the invariant.                                          *)
LEMMA FolioInitInv == FoliosInit => FolioInv
<1> SUFFICES ASSUME FoliosInit PROVE FolioInv
  BY Zenon
<1>1. FolioTypes
  BY NoCallShape, Zenon DEF FoliosInit, FolioTypes, FolioRows, InvoiceRows
<1>2. \A k \in Cashiers : call[k] = NoCall
  BY Zenon DEF FoliosInit
<1>3. \A k \in Cashiers : CallKnown(call[k]) /\ Alone(k)
  BY <1>2, NoCallShape, IdleKnown, Zenon DEF Alone
<1>4. Closings /\ \A i \in Invoices : InvoiceCovered(i)
  BY Zenon DEF FoliosInit, Closings, InvoiceCovered
<1>5. Rows = {} /\ ghost.extra = 0 /\ ~ghost.walked /\ ~ghost.late
  BY Zenon DEF FoliosInit, Rows
<1>6. Cardinality(Rows) = 0
  BY <1>5, FS_EmptySet, Zenon
<1> QED
  BY <1>1, <1>3, <1>4, <1>5, <1>6, SMTT(30) DEF FolioInv

(* A new folio is one more.                                                 *)
LEMMA RowsCounted ==
  ASSUME FolioInv, NEW f \in FolioIds, f \notin Rows
  PROVE  Cardinality(Rows) \in Nat /\ Cardinality(Rows \cup {f}) = Cardinality(Rows) + 1
<1>1. Rows \subseteq FolioIds /\ IsFiniteSet(FolioIds)
  BY FolioAssumption, Zenon DEF Rows
<1>2. IsFiniteSet(Rows)
  BY <1>1, FS_Subset, Zenon
<1> QED
  BY <1>2, FS_AddElement, FS_CardinalityType, Zenon

(* The commit of a call that makes a folio.                                 *)
LEMMA CommitStep ==
  ASSUME FolioInv, NEW k \in Cashiers, call[k].new, NEW f \in FolioIds, Opened(k, f), RepliedMoving(k),
         arrived' \in BOOLEAN, departed' = departed, charged' \in [FolioIds -> Nat],
         \A g \in FolioIds : charged[g] <= charged'[g], paid' = paid, invoice' = invoice, stamp' = stamp,
         ghost' \in [extra : Nat, walked : BOOLEAN, late : BOOLEAN], ~ghost'.walked, ~ghost'.late,
         \/ ghost'.extra = ghost.extra + 1
         \/ ghost'.extra = ghost.extra /\ Rows = {}
  PROVE  FolioInv'
<1>1. /\ folios' \in [FolioIds -> FolioRows] /\ Rows' = Rows \cup {f} /\ f \notin Rows
      /\ \A g \in Rows : folios'[g].made = folios[g].made
      /\ Closings'
  BY OpenedRow, Zenon
<1>2. Cardinality(Rows) \in Nat /\ Cardinality(Rows') = Cardinality(Rows) + 1
  BY <1>1, RowsCounted, Zenon
<1>3. ghost.extra \in Nat /\ Cardinality(Rows) <= 1 + ghost.extra
  BY Zenon DEF FolioInv, FolioTypes
<1>4. Cardinality(Rows') <= 1 + ghost'.extra
  <2>1. Rows = {} => Cardinality(Rows) = 0
    BY FS_EmptySet, Zenon
  <2> QED
    BY <1>2, <1>3, <2>1, SMTT(30)
<1>5. call' = [j \in Cashiers |-> IF j \in {k} THEN NoCall ELSE [call[j] EXCEPT !.crossed = @ \/ CheckingOut(j)]]
  BY Zenon DEF RepliedMoving
<1>6. {k} \in SUBSET Cashiers /\ Rows \subseteq Rows' /\ \E j \in {k} : call[j].new
  BY <1>1, Zenon
<1> QED
  BY <1>1, <1>4, <1>5, <1>6, MoveStep, Zenon

(* A write that makes no folio.                                             *)
LEMMA StandingStep ==
  ASSUME FolioInv, NEW K \in SUBSET Cashiers,
         call' = [j \in Cashiers |-> IF j \in K THEN NoCall ELSE [call[j] EXCEPT !.crossed = @ \/ CheckingOut(j)]],
         arrived' \in BOOLEAN, departed' = departed, folios' = folios, charged' \in [FolioIds -> Nat],
         \A g \in FolioIds : charged[g] <= charged'[g], paid' = paid, invoice' = invoice, stamp' = stamp,
         ghost' \in [extra : Nat, walked : BOOLEAN, late : BOOLEAN], ~ghost'.walked, ~ghost'.late,
         ghost.extra <= ghost'.extra
  PROVE  FolioInv'
<1>1. Rows' = Rows /\ folios' \in [FolioIds -> FolioRows] /\ Closings'
  BY Zenon DEF Rows, FolioInv, FolioTypes, Closings
<1>2. Cardinality(Rows) \in Nat
  <2>1. Rows \subseteq FolioIds /\ IsFiniteSet(FolioIds)
    BY FolioAssumption, Zenon DEF Rows
  <2>2. IsFiniteSet(Rows)
    BY <2>1, FS_Subset, Zenon
  <2> QED
    BY <2>2, FS_CardinalityType, Zenon
<1>3. Cardinality(Rows') <= 1 + ghost'.extra
  BY <1>1, <1>2, SMTT(30) DEF FolioInv, FolioTypes
<1> QED
  BY <1>1, <1>3, MoveStep, Zenon

(* CreateFolio commits.                                                     *)
LEMMA CreateCommitStep == ASSUME FolioInv, NEW k \in Cashiers, CreateFolioCommit(k) PROVE FolioInv'
<1>1. PICK f \in FolioIds : Opened(k, f)
  BY Zenon DEF CreateFolioCommit
<1>2. ghost \in GhostRows /\ ghost.extra \in Nat /\ ~ghost.walked /\ ~ghost.late
  BY GhostFacts, Zenon
<1>3. PICK n \in Nat : n = ghost.extra + 1
  BY <1>2, SMTT(30)
<1>4. ghost' = [ghost EXCEPT !.extra = n]
  BY <1>3, Zenon DEF CreateFolioCommit
<1>5. ghost' \in GhostRows /\ ghost'.extra = n /\ ~ghost'.walked /\ ~ghost'.late
  BY <1>2, <1>4, Zenon DEF GhostRows
<1>6. call[k].at = "create" /\ UNCHANGED <<arrived, departed, charged, signed, paid, invoice, stamp>> /\ RepliedMoving(k)
  BY Zenon DEF CreateFolioCommit
<1>7. charged \in [FolioIds -> Nat] /\ \A g \in FolioIds : charged[g] <= charged'[g]
  BY <1>6, SMTT(30) DEF FolioInv, FolioTypes
<1>8. arrived' \in BOOLEAN
  BY <1>6, Zenon DEF FolioInv, FolioTypes
<1>9. CASE call[k].new
  BY <1>1, <1>3, <1>5, <1>6, <1>7, <1>8, <1>9, CommitStep, Zenon DEF GhostRows
<1>10. call[k].new
  BY <1>6, Zenon DEF FolioInv, CallKnown
<1> QED
  BY <1>9, <1>10, Zenon

(* CheckIn commits.                                                         *)
LEMMA CheckInCommitStep == ASSUME FolioInv, NEW k \in Cashiers, CheckInCommit(k) PROVE FolioInv'
<1>1. ghost \in GhostRows /\ ghost.extra \in Nat /\ ~ghost.walked /\ ~ghost.late
  BY GhostFacts, Zenon
<1>2. /\ call[k].at = "in_tx" /\ arrived' \in BOOLEAN /\ RepliedMoving(k)
      /\ UNCHANGED <<departed, charged, signed, paid, invoice, stamp>>
  BY Zenon DEF CheckInCommit
<1>3. charged' \in [FolioIds -> Nat] /\ \A g \in FolioIds : charged[g] <= charged'[g]
  BY <1>2, SMTT(30) DEF FolioInv, FolioTypes
<1>4. CASE call[k].new
  <2>1. PICK f \in FolioIds : Opened(k, f)
    BY <1>4, Zenon DEF CheckInCommit
  <2>2. PICK n \in Nat : n = IF call[k].lapped THEN ghost.extra + 1 ELSE ghost.extra
    BY <1>1, SMTT(30)
  <2>3. ghost' = [ghost EXCEPT !.extra = n]
    BY <1>4, <2>2, Zenon DEF CheckInCommit
  <2>4. ghost' \in GhostRows /\ ghost'.extra = n /\ ~ghost'.walked /\ ~ghost'.late
    BY <1>1, <2>3, Zenon DEF GhostRows
  <2>5. ghost'.extra = ghost.extra + 1 \/ (ghost'.extra = ghost.extra /\ Rows = {})
    BY <1>2, <1>4, <2>2, <2>4, UnlappedFindsNone, Zenon
  <2> QED
    BY <1>2, <1>3, <1>4, <2>1, <2>4, <2>5, CommitStep, Zenon DEF GhostRows
<1>5. CASE ~call[k].new
  <2>1. folios' = folios /\ ghost' = ghost
    BY <1>5, Zenon DEF CheckInCommit
  <2>2. call' = [j \in Cashiers |-> IF j \in {k} THEN NoCall ELSE [call[j] EXCEPT !.crossed = @ \/ CheckingOut(j)]]
    BY <1>2, Zenon DEF RepliedMoving
  <2>3. {k} \in SUBSET Cashiers /\ ghost.extra <= ghost'.extra
    BY <1>1, <2>1, SMTT(30)
  <2> QED
    BY <1>1, <1>2, <1>3, <2>1, <2>2, <2>3, StandingStep, Zenon DEF GhostRows
<1> QED
  BY <1>4, <1>5, Zenon

(* postFolioCharge puts a meal on the folio.                                *)
LEMMA PostChargeStep == ASSUME FolioInv, NEW k \in Cashiers, postFolioCharge(k) PROVE FolioInv'
<1>1. ghost \in GhostRows /\ ghost.extra \in Nat /\ ~ghost.walked /\ ~ghost.late
  BY GhostFacts, Zenon
<1>2. /\ call[k].at = "meal" /\ RepliedMoving(k)
      /\ UNCHANGED <<arrived, departed, paid, invoice, stamp>>
  BY Zenon DEF postFolioCharge
<1>3. PICK f \in FolioIds : /\ IF call[k].new THEN Opened(k, f) ELSE f = call[k].f /\ UNCHANGED folios
                            /\ charged' = [charged EXCEPT ![f] = @ + 1]
  BY Zenon DEF postFolioCharge
<1>4. charged' \in [FolioIds -> Nat] /\ \A g \in FolioIds : charged[g] <= charged'[g]
  BY <1>3, ChargedMore, Zenon
<1>5. departed => call[k].crossed
  BY <1>2, Zenon DEF FolioInv, CallKnown
<1>6. PICK n \in Nat : n = IF call[k].lapped THEN ghost.extra + 1 ELSE ghost.extra
  BY <1>1, SMTT(30)
<1>7. PICK b \in BOOLEAN : b = (ghost.late \/ (departed /\ ~call[k].crossed))
  BY Zenon
<1>8. ~b
  BY <1>1, <1>5, <1>7, Zenon
<1>9. ghost' = [ghost EXCEPT !.extra = n, !.late = b]
  BY <1>6, <1>7, Zenon DEF postFolioCharge
<1>10. ghost' \in GhostRows /\ ghost'.extra = n /\ ~ghost'.walked /\ ~ghost'.late
  BY <1>1, <1>8, <1>9, Zenon DEF GhostRows
<1>11. arrived' \in BOOLEAN
  BY <1>2, Zenon DEF FolioInv, FolioTypes
<1>12. CASE call[k].new
  <2>1. Opened(k, f)
    BY <1>3, <1>12, Zenon
  <2>2. ghost'.extra = ghost.extra + 1 \/ (ghost'.extra = ghost.extra /\ Rows = {})
    BY <1>2, <1>6, <1>10, <1>12, UnlappedFindsNone, Zenon
  <2> QED
    BY <1>2, <1>4, <1>10, <1>11, <1>12, <2>1, <2>2, CommitStep, Zenon DEF GhostRows
<1>13. CASE ~call[k].new
  <2>1. folios' = folios
    BY <1>3, <1>13, Zenon
  <2>2. call' = [j \in Cashiers |-> IF j \in {k} THEN NoCall ELSE [call[j] EXCEPT !.crossed = @ \/ CheckingOut(j)]]
    BY <1>2, Zenon DEF RepliedMoving
  <2>3. {k} \in SUBSET Cashiers /\ ghost.extra <= ghost'.extra
    BY <1>1, <1>6, <1>10, SMTT(30)
  <2> QED
    BY <1>2, <1>4, <1>10, <1>11, <2>1, <2>2, <2>3, StandingStep, Zenon DEF GhostRows
<1> QED
  BY <1>12, <1>13, Zenon

(* AddCharge puts a charge on a folio.                                      *)
LEMMA AddChargeStep == ASSUME FolioInv, NEW f \in FolioIds, FolioCharge(f) PROVE FolioInv'
<1>1. ghost \in GhostRows /\ ghost.extra \in Nat /\ ~ghost.walked /\ ~ghost.late
  BY GhostFacts, Zenon
<1>2. UNCHANGED <<arrived, departed, folios, signed, paid, invoice, stamp, ghost>>
  BY Zenon DEF FolioCharge
<1>3. charged' \in [FolioIds -> Nat] /\ \A g \in FolioIds : charged[g] <= charged'[g]
  BY ChargedMore, Zenon DEF FolioCharge
<1>4. call' = [j \in Cashiers |-> IF j \in {} THEN NoCall ELSE [call[j] EXCEPT !.crossed = @ \/ CheckingOut(j)]]
  BY Zenon DEF FolioCharge
<1>5. {} \in SUBSET Cashiers /\ ghost.extra <= ghost'.extra /\ arrived' \in BOOLEAN
  BY <1>1, <1>2, SMTT(30) DEF FolioInv, FolioTypes
<1> QED
  BY <1>1, <1>2, <1>3, <1>4, <1>5, StandingStep, Zenon DEF GhostRows

(* The invariant is inductive.                                              *)
LEMMA FolioStep == FolioInv /\ [FoliosNext]_folioVars => FolioInv'
<1> SUFFICES ASSUME FolioInv, [FoliosNext]_folioVars PROVE FolioInv'
  BY Zenon
<1>1. ASSUME NEW k \in Cashiers, NewFolio(k) PROVE FolioInv'
  BY <1>1, LookupStep, CreateCommitStep, Zenon DEF NewFolio
<1>2. ASSUME NEW k \in Cashiers, CheckIn(k) PROVE FolioInv'
  BY <1>2, LookupStep, FolioReadStep, CheckInCommitStep, Zenon DEF CheckIn
<1>3. ASSUME NEW k \in Cashiers, CheckOut(k) PROVE FolioInv'
  BY <1>3, StartStep, FolioReadStep, CheckOutCommitStep, Zenon DEF CheckOut
<1>4. ASSUME NEW k \in Cashiers, GetFolio(k) PROVE FolioInv'
  BY <1>4, StartStep, FolioReadStep, Zenon DEF GetFolio
<1>5. ASSUME NEW k \in Cashiers, GenerateInvoice(k) PROVE FolioInv'
  BY <1>5, StartStep, InvoiceInsertStep, Zenon DEF GenerateInvoice
<1>6. ASSUME NEW k \in Cashiers, postFolioCharge(k) PROVE FolioInv'
  BY <1>6, PostChargeStep, Zenon
<1>7. ASSUME NEW k \in Cashiers, NEW m \in Meals, resolveFolioForRoomCharge(k, m) PROVE FolioInv'
  BY <1>7, LookupStep, Zenon
<1>8. ASSUME NEW f \in FolioIds, FolioCharge(f) \/ FolioPayment(f) PROVE FolioInv'
  BY <1>8, AddChargeStep, FolioPaymentStep, Zenon
<1>9. ASSUME NEW i \in Invoices, EmailInvoice(i) PROVE FolioInv'
  BY <1>9, EmailStep, Zenon
<1>10. CASE UNCHANGED folioVars
  <2>1. FolioTypes' /\ \A i \in Invoices : InvoiceCovered(i)'
    BY <1>10, Zenon DEF folioVars, FolioInv, FolioTypes, InvoiceCovered
  <2>2. paid <= paid'
    BY <1>10, SMTT(30) DEF folioVars, FolioInv, FolioTypes
  <2> QED
    BY <1>10, <2>1, <2>2, ElsewhereFolio, Zenon DEF folioVars
<1> QED
  BY <1>1, <1>2, <1>3, <1>4, <1>5, <1>6, <1>7, <1>8, <1>9, <1>10, Zenon DEF FoliosNext

(* The invariant holds in every reachable state.                            *)
LEMMA FolioInvariant == FoliosSpec => []FolioInv
BY FolioInitInv, FolioStep, PTL DEF FoliosSpec

(* CheckOut never lets a stay with one folio go owing when it had no        *)
(* override and nothing crossed it: no charge, payment or folio between its *)
(* reading of the balance and its transaction.                              *)
THEOREM DeparturesSettled == FoliosSpec => []DepartedSettled
<1>1. FolioInv => DepartedSettled
  BY Zenon DEF FolioInv, DepartedSettled
<1> QED
  BY <1>1, FolioInvariant, PTL

(* CheckIn and a meal signed to the room never split a stay over two folios *)
(* by themselves: ensureFolioForBooking makes one only where it found none. *)
THEOREM StayNotSplit == FoliosSpec => []FoliosAccountedFor
<1>1. FolioInv => FoliosAccountedFor
  BY Zenon DEF FolioInv, FoliosAccountedFor
<1> QED
  BY <1>1, FolioInvariant, PTL

(* A meal whose look-up of the stay came after the departure is never       *)
(* posted to its folio.                                                     *)
THEOREM NoLateMeals == FoliosSpec => []NoMealAfterDeparture
<1>1. FolioInv => NoMealAfterDeparture
  BY Zenon DEF FolioInv, NoMealAfterDeparture
<1> QED
  BY <1>1, FolioInvariant, PTL

(* An invoice made from a folio asks for no more than that folio was        *)
(* charged, for any number of folios and requests.                          *)
THEOREM InvoicesStayWithinFolio == FoliosSpec => []InvoicesBillOnlyTheirFolio
<1>1. FolioInv => InvoicesBillOnlyTheirFolio
  BY Zenon DEF FolioInv, InvoiceCovered, InvoicesBillOnlyTheirFolio
<1> QED
  BY <1>1, FolioInvariant, PTL

(* GetFolio reads charges, the canonical folio and payments in three        *)
(* statements; the balance it answers never exceeds what the folio owes.    *)
THEOREM BalanceNotOverstated == FoliosSpec => NeverOverstated
<1>1. FolioInv /\ [FoliosNext]_folioVars =>
        [\A k \in Cashiers : (call[k].at = "get_paid" /\ call'[k] = NoCall) => Answer(k) <= ListBalance(call[k].f)]_folioVars
  <2> SUFFICES ASSUME FolioInv, NEW k \in Cashiers, call[k].at = "get_paid"
               PROVE  Answer(k) <= ListBalance(call[k].f)
    BY Zenon
  <2>1. /\ call[k].f \in Rows /\ call[k].sum <= charged[call[k].f]
        /\ ~call[k].canon => ~Canonical(call[k].f)
    BY Zenon DEF FolioInv, CallKnown
  <2>2. call[k].f \in FolioIds /\ call[k].sum \in Nat /\ paid \in Nat
    BY <2>1, Zenon DEF FolioInv, FolioTypes, CallRows, Rows
  <2>3. charged[call[k].f] \in Nat
    BY <2>2, Zenon DEF FolioInv, FolioTypes
  <2> QED
    BY <2>1, <2>2, <2>3, SMTT(30) DEF Answer, ListBalance, ListPaid
<1> QED
  BY <1>1, FolioInvariant, PTL DEF NeverOverstated, FoliosSpec

=============================================================================
