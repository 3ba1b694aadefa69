--------------------------- MODULE ChannelIngest ---------------------------
(***************************************************************************)
(* Reservations pushed by booking channels (internal/handler/               *)
(* channel_ingest.go) on top of the worker pool.  A delivery is stored,     *)
(* answered 202 and processed by a job; the channel redelivers whatever it  *)
(* got no success for, possibly while the first delivery is still being     *)
(* processed, and may cancel at any time.  Every booking is for the same    *)
(* nights, so a room holds one live stay.                                   *)
(*                                                                          *)
(* A job of the pool is a delivery.  Its transaction picks a room and then  *)
(* inserts the stay, the constraint having the last word; marking the       *)
(* delivery is a statement of its own after the commit.  Cancel is a chain  *)
(* of autocommit statements.                                                *)
(***************************************************************************)
EXTENDS WorkerPool, FiniteSetsExt

CONSTANTS
    Bookings,     \* external references of one channel
    Rooms,        \* numbered in the order of floor and room number
    Stays,        \* identifiers of guest_stays, numbered in the order they are made
    Cancellers,   \* cancellation requests (bounds them)
    Ops,          \* what this instance exercises beside deliveries
    None

ASSUME ChannelAssumption ==
    Rooms \subseteq Nat /\ Stays \subseteq Nat /\ None \notin Bookings \cup Rooms \cup Stays

VARIABLES
    row,       \* channel_bookings: status and guest_stay_id by reference
    job,       \* what each delivery's job has got to
    stay,      \* guest_stays: booking, room, status, arrival
    room,      \* rooms.status
    ledger,    \* journal entries of a stay: sale, commission and reversals
    cancel,    \* what each cancellation has got to
    desk,      \* the stay the desk has read to check in
    disturbed  \* bookings delivered again while in progress, or interrupted

data == <<row, job, stay, room, ledger, cancel, desk, disturbed>>
vars == <<pool, data>>

RowStatuses == {"none", "received", "processed", "failed", "cancelled"}
JobSteps == {"none", "start", "picked", "refused", "made", "unmarked"}
CancelSteps == {"idle", "soft", "look", "free", "sale", "comm", "mark", "over"}
NoJob == [booking |-> None, step |-> "none", room |-> None, stay |-> None]
NoStay == [booking |-> None, room |-> None, status |-> "absent", in |-> FALSE, revived |-> FALSE]
NoEntries == [sale |-> 0, comm |-> 0, saleBack |-> 0, commBack |-> 0]
NotCancelling == [step |-> "idle", booking |-> None, stay |-> None, cut |-> FALSE]

Init ==
    /\ PoolInit
    /\ row = [b \in Bookings |-> [status |-> "none", stay |-> None]]
    /\ job = [d \in Jobs |-> NoJob]
    /\ stay = [s \in Stays |-> NoStay]
    /\ room = [r \in Rooms |-> "available"]
    /\ ledger = [s \in Stays |-> NoEntries]
    /\ cancel = [c \in Cancellers |-> NotCancelling]
    /\ desk = None
    /\ disturbed = {}

-----------------------------------------------------------------------------
Live(s) == stay[s].status \in {"confirmed", "in_house"}
StaysOf(b) == {s \in Stays : stay[s].booking = b /\ stay[s].status # "absent"}
FreshStays == {s \in Stays : stay[s].status = "absent"}
StayLeft == Cardinality(FreshStays) > Cardinality(InMemory)   \* bound: a stay for each delivery

(* Room search: no status condition on the stays it looks at. *)
ListRoomsAvailableBetween ==
    {r \in Rooms : \A s \in Stays : stay[s].room # r}

NoOverlapIfConfirmed(r) == \A s \in Stays : stay[s].status = "confirmed" => stay[s].room # r
(* guest_stays_no_overlap. *)
NoOverlap(r) == \A s \in Stays : Live(s) => stay[s].room # r

InProgress(b) == {d \in InMemory : job[d].booking = b}

(***************************************************************************)
(* Ingest: store the delivery under its reference; a processed one is       *)
(* answered as a duplicate, which changes nothing, any other goes to the    *)
(* pool.                                                                    *)
(***************************************************************************)
AlwaysNew(b) == FALSE
Duplicate(b) == row[b].status = "processed"

IngestStore(d, b) ==
    /\ ~Duplicate(b)
    /\ StayLeft
    /\ Arrive(d)
    /\ row' = [row EXCEPT ![b].status = IF @ = "none" THEN "received" ELSE @]
    /\ job' = [job EXCEPT ![d] = [NoJob EXCEPT !.booking = b, !.step = "start"]]
    /\ disturbed' = IF InProgress(b) = {} THEN disturbed ELSE disturbed \cup {b}
    /\ UNCHANGED <<stay, room, ledger, cancel, desk>>

IngestSubmit(d) == SubmitOrRun(d) /\ UNCHANGED data

(***************************************************************************)
(* The job.  "fail" instances let any statement after the transaction fail: *)
(* the database is gone, or the context of the job or request has expired.  *)
(***************************************************************************)
StatementsFail == "fail" \in Ops

(* Reject the payload, find no room, or settle on the first one found. *)
ProcessPick(d) ==
    /\ Runs(d) /\ job[d].step = "start"
    /\ \/ /\ ListRoomsAvailableBetween # {}
          /\ job' = [job EXCEPT ![d].step = "picked", ![d].room = Min(ListRoomsAvailableBetween)]
       \/ job' = [job EXCEPT ![d].step = "refused"]
    /\ UNCHANGED <<pool, row, stay, room, ledger, cancel, desk, disturbed>>

(* The stay with its receivable and the commission, in one transaction. *)
ProcessInsert(d) ==
    /\ Runs(d) /\ job[d].step = "picked"
    /\ IF NoOverlap(job[d].room)
       THEN /\ FreshStays # {}
            /\ LET s == Min(FreshStays) IN
                 /\ stay' = [stay EXCEPT ![s] = [NoStay EXCEPT !.booking = job[d].booking,
                                                    !.room = job[d].room, !.status = "confirmed"]]
                 /\ ledger' = [ledger EXCEPT ![s].sale = 1, ![s].comm = 1]
                 /\ job' = [job EXCEPT ![d].step = "made", ![d].stay = s]
       ELSE /\ job' = [job EXCEPT ![d].step = "refused"]
            /\ UNCHANGED <<stay, ledger>>
    /\ UNCHANGED <<pool, row, room, cancel, desk, disturbed>>

MarkLost(d) ==
    /\ StatementsFail
    /\ job' = [job EXCEPT ![d].step = "unmarked"]
    /\ disturbed' = disturbed \cup {job[d].booking}
    /\ UNCHANGED row

FailureUnmarked(d) ==
    /\ Runs(d) /\ job[d].step = "refused"
    /\ Return(d, FALSE)
    /\ UNCHANGED data

MarkFailed(d) ==
    /\ Runs(d) /\ job[d].step = "refused"
    /\ Return(d, FALSE)
    /\ \/ /\ row' = [row EXCEPT ![job[d].booking].status = "failed"]
          /\ UNCHANGED <<job, disturbed>>
       \/ MarkLost(d)
    /\ UNCHANGED <<stay, room, ledger, cancel, desk>>

(* The job succeeds even when its delivery could not be marked. *)
MarkProcessed(d) ==
    /\ Runs(d) /\ job[d].step = "made"
    /\ Return(d, TRUE)
    /\ \/ /\ row' = [row EXCEPT ![job[d].booking] = [status |-> "processed", stay |-> job[d].stay]]
          /\ UNCHANGED <<job, disturbed>>
       \/ MarkLost(d)
    /\ UNCHANGED <<stay, room, ledger, cancel, desk>>

JobStep(d) ==
    \/ ProcessPick(d)
    \/ ProcessInsert(d)
    \/ MarkFailed(d)
    \/ MarkProcessed(d)

(***************************************************************************)
(* Cancel: look the reservation up, soft-cancel it, free the room if nobody *)
(* is in it, reverse both entries, mark the delivery.                       *)
(***************************************************************************)
CancelGoesOn(c, step) ==
    /\ cancel' = [cancel EXCEPT ![c].step = step]
    /\ UNCHANGED <<pool, job, desk, disturbed>>

CancelRead(c, b) ==
    /\ server = "up"
    /\ cancel[c].step = "idle"
    /\ row[b].stay # None
    /\ ~stay[row[b].stay].in
    /\ cancel' = [cancel EXCEPT ![c] = [step |-> "soft", booking |-> b,
                                        stay |-> row[b].stay, cut |-> FALSE]]
    /\ UNCHANGED <<pool, row, job, stay, room, ledger, desk, disturbed>>

(* A stay that is cancelled already is answered already_cancelled. *)
SoftCancelStay(c) ==
    /\ cancel[c].step = "soft"
    /\ stay' = [stay EXCEPT ![cancel[c].stay].status = "cancelled"]
    /\ CancelGoesOn(c, IF stay[cancel[c].stay].status = "cancelled" THEN "over" ELSE "look")
    /\ UNCHANGED <<row, room, ledger>>

RoomHasActiveStay(r) == \E s \in Stays : stay[s].room = r /\ stay[s].in

CancelLook(c) ==
    /\ cancel[c].step = "look"
    /\ CancelGoesOn(c, IF RoomHasActiveStay(stay[cancel[c].stay].room) THEN "sale" ELSE "free")
    /\ UNCHANGED <<row, stay, room, ledger>>

CancelFree(c) ==
    /\ cancel[c].step = "free"
    /\ room' = [room EXCEPT ![stay[cancel[c].stay].room] = "available"]
    /\ CancelGoesOn(c, "sale")
    /\ UNCHANGED <<row, stay, ledger>>

ReverseSale(c) ==
    /\ cancel[c].step = "sale"
    /\ ledger' = [ledger EXCEPT ![cancel[c].stay].saleBack = @ + ledger[cancel[c].stay].sale]
    /\ CancelGoesOn(c, "comm")
    /\ UNCHANGED <<row, stay, room>>

CommissionStands(c) ==
    /\ cancel[c].step = "comm"
    /\ CancelGoesOn(c, "mark")
    /\ UNCHANGED <<row, stay, room, ledger>>

ReverseCommission(c) ==
    /\ cancel[c].step = "comm"
    /\ ledger' = [ledger EXCEPT ![cancel[c].stay].commBack = @ + ledger[cancel[c].stay].comm]
    /\ CancelGoesOn(c, "mark")
    /\ UNCHANGED <<row, stay, room>>

MarkCancelled(c) ==
    /\ cancel[c].step = "mark"
    /\ row' = [row EXCEPT ![cancel[c].booking].status = "cancelled"]
    /\ CancelGoesOn(c, "over")
    /\ UNCHANGED <<stay, room, ledger>>

(* A statement fails: a failed soft-cancel is answered 500, any later       *)
(* failure is ignored or logged and the handler goes on.                    *)
AfterFailure == [soft |-> "over", look |-> "sale", free |-> "sale",
                 sale |-> "comm", comm |-> "mark", mark |-> "over"]

StatementFails(c) ==
    /\ StatementsFail
    /\ cancel[c].step \in DOMAIN AfterFailure
    /\ cancel' = [cancel EXCEPT ![c].step = AfterFailure[@],
                                ![c].cut = @ \/ cancel[c].step \in {"sale", "comm"}]
    /\ UNCHANGED <<pool, row, job, stay, room, ledger, desk, disturbed>>

CancelStep(c) ==
    \/ SoftCancelStay(c) \/ CancelLook(c) \/ CancelFree(c)
    \/ ReverseSale(c) \/ ReverseCommission(c) \/ MarkCancelled(c)
    \/ StatementFails(c)

-----------------------------------------------------------------------------
(* The front desk sells a room to somebody else, and checks guests in. *)
DeskBooks(r) ==
    /\ "desk" \in Ops
    /\ StayLeft /\ NoOverlap(r)
    /\ stay' = [stay EXCEPT ![Min(FreshStays)] = [NoStay EXCEPT !.room = r, !.status = "confirmed"]]
    /\ UNCHANGED <<pool, row, job, room, ledger, cancel, desk, disturbed>>

CheckInRead(s) ==
    /\ "desk" \in Ops /\ desk = None
    /\ Live(s) /\ ~stay[s].in
    /\ desk' = s
    /\ UNCHANGED <<pool, row, job, stay, room, ledger, cancel, disturbed>>

(* CheckIn writes whatever has happened to the stay since it was read,      *)
(* unless the room has been sold again.                                     *)
CheckInTx ==
    /\ desk # None
    /\ LET refused == \E o \in Stays \ {desk} : Live(o) /\ stay[o].room = stay[desk].room IN
         \/ /\ ~refused
            /\ stay' = [stay EXCEPT ![desk].status = "in_house", ![desk].in = TRUE,
                                    ![desk].revived = @ \/ stay[desk].status = "cancelled"]
            /\ room' = [room EXCEPT ![stay[desk].room] = "occupied"]
         \/ refused /\ UNCHANGED <<stay, room>>
    /\ desk' = None
    /\ UNCHANGED <<pool, row, job, ledger, cancel, disturbed>>

(* The process ends: cancellations and a check-in stop where they are. *)
ProcessEnds ==
    /\ Restart
    /\ cancel' = [c \in Cancellers |->
                     IF cancel[c].step \in {"idle", "over"} THEN cancel[c]
                     ELSE [cancel[c] EXCEPT !.step = "over", !.cut = TRUE]]
    /\ desk' = None
    /\ disturbed' = disturbed \cup {b \in Bookings : InProgress(b) # {}}
    /\ UNCHANGED <<row, job, stay, room, ledger>>

ChannelStep ==
    \/ \E d \in Jobs, b \in Bookings : IngestStore(d, b)
    \/ \E c \in Cancellers, b \in Bookings : CancelRead(c, b)

ServerStep ==
    \/ \E d \in Jobs : IngestSubmit(d) \/ JobStep(d)
    \/ \E c \in Cancellers : CancelStep(c)
    \/ PoolStep /\ UNCHANGED data

Next ==
    \/ ChannelStep
    \/ ServerStep
    \/ (Signal \/ CloseJobs \/ Shutdown) /\ UNCHANGED data
    \/ ProcessEnds
    \/ \E r \in Rooms : DeskBooks(r)
    \/ \E s \in Stays : CheckInRead(s)
    \/ CheckInTx

Spec == Init /\ [][Next]_vars

(* The Go scheduler runs every goroutine that can run, and jobs return:     *)
(* their context has a deadline.                                            *)
FairSpec ==
    /\ Spec
    /\ \A d \in Jobs : WF_vars(IngestSubmit(d)) /\ WF_vars(JobStep(d))
    /\ WF_vars(PoolStep /\ UNCHANGED data)

-----------------------------------------------------------------------------
TypeOK ==
    /\ PoolTypeOK
    /\ row \in [Bookings -> [status : RowStatuses, stay : Stays \cup {None}]]
    /\ job \in [Jobs -> [booking : Bookings \cup {None}, step : JobSteps,
                         room : Rooms \cup {None}, stay : Stays \cup {None}]]
    /\ stay \in [Stays -> [booking : Bookings \cup {None}, room : Rooms \cup {None},
                           status : {"absent", "confirmed", "in_house", "cancelled"},
                           in : BOOLEAN, revived : BOOLEAN]]
    /\ room \in [Rooms -> {"available", "occupied"}]
    /\ ledger \in [Stays -> [sale : 0 .. 1, comm : 0 .. 1, saleBack : Nat, commBack : Nat]]
    /\ cancel \in [Cancellers -> [step : CancelSteps, booking : Bookings \cup {None},
                                  stay : Stays \cup {None}, cut : BOOLEAN]]
    /\ desk \in Stays \cup {None}
    /\ disturbed \subseteq Bookings

(* "an OTA and the desk cannot sell the same room concurrently": nor two    *)
(* deliveries that were handed the same room by the search.                 *)
RoomSoldOnce == \A s, o \in Stays : Live(s) /\ Live(o) /\ s # o => stay[s].room # stay[o].room

(* "one guest becoming four reservations": a booking whose deliveries       *)
(* followed one another, each with its mark written and no end of the       *)
(* process between, holds at most one live stay through failures, retries,  *)
(* cancellation and booking anew.  A check-in that revives a cancelled stay *)
(* of the booking ends that: the stay can then be cancelled twice, and the  *)
(* second cancellation marks the row of a stay booked since.                *)
OneLiveStay ==
    \A b \in Bookings \ disturbed :
        (\A s \in StaysOf(b) : ~stay[s].revived) => Cardinality({s \in StaysOf(b) : Live(s)}) <= 1

(* The same for every booking: the header of the handler says that the      *)
(* unique index is what stops it.                                           *)
OneStayPerBooking == \A b \in Bookings : Cardinality({s \in StaysOf(b) : Live(s)}) <= 1

(* However many cancellations of a booking race, no entry is reversed       *)
(* twice, and none of a stay that still waits for its guest.  A check-in    *)
(* that overwrites the cancellation, which frontdesk_resurrect is about,    *)
(* lets a cancellation still in progress reverse again.                     *)
ReversedOnce ==
    \A s \in Stays : ~stay[s].revived =>
        /\ ledger[s].saleBack <= ledger[s].sale /\ ledger[s].commBack <= ledger[s].comm
        /\ (ledger[s].saleBack + ledger[s].commBack > 0 => stay[s].status # "confirmed")

(* "Both legs are reversed, the sale and the commission": the entries of a  *)
(* cancelled stay net to zero once no cancellation of it is in progress,    *)
(* unless one was cut short by a failed reversal or the end of the process. *)
CancelledNets ==
    \A s \in Stays : stay[s].status = "cancelled" /\ ~stay[s].revived =>
        \/ ledger[s].saleBack = ledger[s].sale /\ ledger[s].commBack = ledger[s].comm
        \/ \E c \in Cancellers : cancel[c].stay = s /\ (cancel[c].step # "over" \/ cancel[c].cut)

(* "a failure leaves a row marked 'failed' ... rather than a lost booking": *)
(* a delivery that was stored ends up marked processed, failed or           *)
(* cancelled, unless the process ends first, the channel was answered 500,  *)
(* or the mark itself could not be written.                                 *)
DeliverySettles ==
    \A d \in Jobs : at[d] = "asked"
        ~> \/ at[d] \in {"lost", "panicked"}
           \/ /\ at[d] = "ended"
              /\ row[job[d].booking].status # "received" \/ job[d].step = "unmarked"
=============================================================================
