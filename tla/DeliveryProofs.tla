---------------------------- MODULE DeliveryProofs --------------------------
(***************************************************************************)
(* The worker pool and the deliveries of booking channels it carries, for   *)
(* any number of jobs, workers, bookings, rooms and cancellations.  First   *)
(* the pool by itself: drained, it has run all it accepted, and its         *)
(* counters account for every job.  Then the deliveries: each of their      *)
(* steps is a step of the pool, and those of the jobs and the front desk    *)
(* preserve the invariant that ChannelProofs draws its theorems from.       *)
(***************************************************************************)
EXTENDS ChannelIngest, TLAPS

(* The channel holds exactly the jobs that are queued, each once; a worker  *)
(* leaves only a closed, empty channel; a job is uncounted only once sent.  *)
QueueExact ==
    /\ \A i \in DOMAIN queue : queue[i] \in Queued
    /\ \A j \in Queued : \E i \in DOMAIN queue : queue[i] = j
    /\ \A i, k \in DOMAIN queue : queue[i] = queue[k] => i = k

WorkersSane ==
    /\ Cardinality(Running) + exited <= Workers
    /\ (exited > 0 => Closed /\ queue = <<>>)
    /\ (server = "drained" => exited = Workers)

SentOnly == \A j \in uncounted : at[j] \notin {"new", "asked"}

PoolInv == PoolTypeOK /\ QueueExact /\ WorkersSane /\ SentOnly /\ CountersAccount

(* Moving one job changes the sets by that job. *)
LEMMA Moved ==
  ASSUME PoolTypeOK, NEW j \in Jobs, NEW p \in Places, at' = [at EXCEPT ![j] = p]
  PROVE  /\ Queued' = (IF p = "queued" THEN Queued \cup {j} ELSE Queued \ {j})
         /\ Running' = (IF p = "running" THEN Running \cup {j} ELSE Running \ {j})
         /\ at' \in [Jobs -> Places]
  BY Zenon DEF PoolTypeOK, Queued, Running

(* A job that is not queued or running moves on without being accepted. *)
LEMMA UnacceptedInv ==
  ASSUME PoolInv, NEW j \in Jobs, Arrive(j) \/ Detach(j) \/ SubmitPanics(j) \/ DetachedEnds(j)
  PROVE  PoolInv'
<1>1. PICK p \in {"asked", "detached", "panicked", "ended"} : at' = [at EXCEPT ![j] = p]
  BY Zenon DEF Arrive, Detach, SubmitPanics, DetachedEnds
<1>2. at[j] \in {"new", "asked", "detached"} /\ (p = "asked" => at[j] = "new")
  BY <1>1, Zenon DEF Arrive, Detach, SubmitPanics, DetachedEnds, PoolInv, PoolTypeOK
<1>3. Queued' = Queued /\ Running' = Running /\ at' \in [Jobs -> Places]
  BY <1>1, <1>2, Moved, Zenon DEF PoolInv, Places, Queued, Running
<1>4. /\ UNCHANGED <<queue, exited, server, uncounted, restarts>>
      /\ counted' \in [submitted : Nat, completed : Nat, failed : Nat, dropped : Nat]
      /\ counted'.submitted = counted.submitted
      /\ counted'.completed = counted.completed /\ counted'.failed = counted.failed
  BY SMTT(30) DEF Arrive, Detach, SubmitPanics, DetachedEnds, PoolInv, PoolTypeOK
<1>5. PoolTypeOK'
  BY <1>3, <1>4, Zenon DEF PoolInv, PoolTypeOK
<1>6. SentOnly'
  BY <1>1, <1>2, <1>4, Zenon DEF PoolInv, PoolTypeOK, SentOnly
<1>7. QueueExact'
  BY <1>3, <1>4, Zenon DEF PoolInv, QueueExact
<1>8. WorkersSane' /\ CountersAccount'
  BY <1>3, <1>4, Zenon DEF PoolInv, WorkersSane, CountersAccount, Closed
<1> QED
  BY <1>5, <1>6, <1>7, <1>8, Zenon DEF PoolInv

-----------------------------------------------------------------------------

(* What the rows, jobs and cancellations point at exists, and belongs to the *)
(* booking they are about; the stay of a job that has yet to mark its row is *)
(* known to nobody else.                                                     *)
JobHolds(d) ==
    /\ job[d].booking \in Bookings /\ job[d].step # "none"
    /\ at[d] \in {"asked", "queued"} => job[d].step = "start"
    /\ job[d].step = "picked" => job[d].room \in Rooms
    /\ job[d].step = "made" =>
          /\ job[d].stay \in Stays /\ job[d].stay \in StaysOf(job[d].booking)
          /\ \A b \in Bookings : row[b].stay # job[d].stay
          /\ \A c \in Cancellers : cancel[c].step # "idle" => cancel[c].stay # job[d].stay
          /\ \A e \in InMemory \ {d} : job[e].step = "made" => job[e].stay # job[d].stay

Links ==
    /\ \A b \in Bookings : row[b].stay # None => row[b].stay \in StaysOf(b)
    /\ \A c \in Cancellers : cancel[c].step # "idle" =>
          cancel[c].booking \in Bookings /\ cancel[c].stay \in StaysOf(cancel[c].booking)
    /\ \A d \in InMemory : JobHolds(d)
    /\ desk # None => desk \in Stays /\ stay[desk].status # "absent"
    /\ \A s \in Stays : stay[s].status = "absent" => ~stay[s].revived
    /\ \A c \in Cancellers : cancel[c].step = "idle" => ~cancel[c].cut

(* A cancellation past its soft-cancel is alone with the stay's entries: it  *)
(* has reversed what lies behind it, unless a statement of it failed.        *)
Past == {"look", "free", "sale", "comm", "mark"}
Nets(s) == ledger[s].saleBack = ledger[s].sale /\ ledger[s].commBack = ledger[s].comm

ReversalHolds(s) ==
    /\ ledger[s].saleBack <= ledger[s].sale /\ ledger[s].commBack <= ledger[s].comm
    /\ stay[s].status # "cancelled" =>
          /\ ledger[s].saleBack = 0 /\ ledger[s].commBack = 0
          /\ \A c \in Cancellers : cancel[c].stay = s => cancel[c].step \notin Past
    /\ \A c \in Cancellers : cancel[c].stay = s /\ cancel[c].step \in Past =>
          /\ \A e \in Cancellers \ {c} : cancel[e].stay = s => cancel[e].step \notin Past
          /\ cancel[c].step \in {"look", "free", "sale"} =>
                ledger[s].saleBack = 0 /\ ledger[s].commBack = 0
          /\ cancel[c].step = "comm" =>
                ledger[s].commBack = 0 /\ (cancel[c].cut \/ ledger[s].saleBack = ledger[s].sale)
          /\ cancel[c].step = "mark" => cancel[c].cut \/ Nets(s)
    /\ stay[s].status = "cancelled" =>
          \/ Nets(s)
          \/ \E c \in Cancellers : cancel[c].stay = s /\ (cancel[c].step \in Past \/ cancel[c].cut)

(* One delivery at a time: it finds no live stay of its booking, and without *)
(* one the live stay is the one the row names; a cancellation past its       *)
(* soft-cancel keeps further deliveries out.                                 *)
BookingHolds(b) ==
    /\ \A d, e \in InProgress(b) : d = e
    /\ \A d \in InProgress(b) :
          /\ row[b].status # "processed"
          /\ \A s \in StaysOf(b) : Live(s) => job[d].step = "made" /\ s = job[d].stay
    /\ InProgress(b) = {} =>
          \A s \in StaysOf(b) : Live(s) => row[b].status = "processed" /\ row[b].stay = s
    /\ \A c \in Cancellers : cancel[c].booking = b /\ cancel[c].step \in Past =>
          row[b].status = "processed" /\ row[b].stay = cancel[c].stay

Undisturbed(b) == b \notin disturbed /\ \A s \in StaysOf(b) : ~stay[s].revived

Reversals == \A s \in Stays : ~stay[s].revived => ReversalHolds(s)
OnceEach == \A b \in Bookings : Undisturbed(b) => BookingHolds(b)

ChannelInv ==
    PoolInv /\ TypeOK /\ RoomSoldOnce /\ Links /\ Reversals /\ OnceEach

-----------------------------------------------------------------------------
(* Every step of the deliveries is a step of the pool, or leaves it alone.   *)
LEMMA StepOfPool == [Next]_vars => [PoolNext]_pool
<1> SUFFICES ASSUME [Next]_vars PROVE [PoolNext]_pool
  BY Zenon
<1>1. ASSUME NEW d \in Jobs, NEW b \in Bookings, IngestStore(d, b) PROVE PoolNext
  BY <1>1, Zenon DEF IngestStore, PoolNext
<1>2. ASSUME NEW d \in Jobs, IngestSubmit(d) PROVE PoolNext
  BY <1>2, Zenon DEF IngestSubmit, PoolNext
<1>3. ASSUME NEW d \in Jobs, JobStep(d) PROVE [PoolNext]_pool
  <2>1. CASE MarkFailed(d) \/ MarkProcessed(d)
    BY <2>1, Zenon DEF MarkFailed, MarkProcessed, PoolNext
  <2>2. CASE ProcessPick(d) \/ ProcessInsert(d)
    BY <2>2, Zenon DEF ProcessPick, ProcessInsert
  <2> QED
    BY <1>3, <2>1, <2>2, Zenon DEF JobStep
<1>4. ASSUME NEW c \in Cancellers, CancelStep(c) PROVE UNCHANGED pool
  BY <1>4, Zenon
     DEF CancelStep, SoftCancelStay, CancelLook, CancelFree, ReverseSale, ReverseCommission,
              MarkCancelled, StatementFails, CancelGoesOn
<1>5. ASSUME NEW c \in Cancellers, NEW b \in Bookings, CancelRead(c, b) PROVE UNCHANGED pool
  BY <1>5, Zenon DEF CancelRead
<1>6. CASE PoolStep \/ Signal \/ CloseJobs \/ Shutdown
  BY <1>6, Zenon DEF PoolNext, MainStep
<1>7. CASE ProcessEnds
  BY <1>7, ZenonT(30) DEF ProcessEnds, PoolNext, MainStep
<1>8. CASE (\E r \in Rooms : DeskBooks(r)) \/ (\E s \in Stays : CheckInRead(s)) \/ CheckInTx
  BY <1>8, Zenon DEF DeskBooks, CheckInRead, CheckInTx
<1>9. CASE UNCHANGED vars
  BY <1>9, Zenon DEF vars
<1> QED
  BY <1>1, <1>2, <1>3, <1>4, <1>5, <1>6, <1>7, <1>8, <1>9, Zenon DEF Next, ChannelStep, ServerStep

(* What SubmitOrRun, the workers and main promise of a pool they promise of  *)
(* the server's: the deliveries implement the pool.                          *)
THEOREM DeliveriesUsePool == Spec => PoolSpec
<1>1. Init => PoolInit
  BY Zenon DEF Init
<1> QED
  BY <1>1, StepOfPool, PTL DEF Spec, PoolSpec

-----------------------------------------------------------------------------
JobRecords == [booking : Bookings \cup {None}, step : JobSteps,
               room : Rooms \cup {None}, stay : Stays \cup {None}]
StayRecords == [booking : Bookings \cup {None}, room : Rooms \cup {None},
                status : {"absent", "confirmed", "in_house", "cancelled"},
                in : BOOLEAN, revived : BOOLEAN]
CancelRecords == [step : CancelSteps, booking : Bookings \cup {None},
                  stay : Stays \cup {None}, cut : BOOLEAN]
EntryRecords == [sale : 0 .. 1, comm : 0 .. 1, saleBack : Nat, commBack : Nat]
RowRecords == [status : RowStatuses, stay : Stays \cup {None}]

(* The type invariant, with the sets of records named.                      *)
LEMMA TypesNamed ==
  TypeOK <=> /\ PoolTypeOK /\ row \in [Bookings -> RowRecords] /\ job \in [Jobs -> JobRecords]
             /\ stay \in [Stays -> StayRecords] /\ room \in [Rooms -> {"available", "occupied"}]
             /\ ledger \in [Stays -> EntryRecords] /\ cancel \in [Cancellers -> CancelRecords]
             /\ desk \in Stays \cup {None} /\ disturbed \subseteq Bookings
BY Zenon DEF TypeOK, RowRecords, JobRecords, StayRecords, EntryRecords, CancelRecords

(* A step that keeps each variable in its set keeps the type invariant.     *)
LEMMA TypesNext ==
  ASSUME PoolInv', row' \in [Bookings -> RowRecords], job' \in [Jobs -> JobRecords],
         stay' \in [Stays -> StayRecords], room' \in [Rooms -> {"available", "occupied"}],
         ledger' \in [Stays -> EntryRecords], cancel' \in [Cancellers -> CancelRecords],
         desk' \in Stays \cup {None}, disturbed' \subseteq Bookings
  PROVE  TypeOK'
BY Zenon DEF TypeOK, PoolInv, RowRecords, JobRecords, StayRecords, EntryRecords, CancelRecords

(* The rows that stand for nothing have their types.                        *)
LEMMA Blanks ==
    /\ NoJob \in JobRecords /\ NoStay \in StayRecords /\ NoEntries \in EntryRecords
    /\ NotCancelling \in CancelRecords /\ NotCancelling.step = "idle" /\ NotCancelling.stay = None
    /\ ~NotCancelling.cut /\ NoStay.status = "absent" /\ ~NoStay.revived
    /\ NoEntries.sale = 0 /\ NoEntries.comm = 0 /\ NoEntries.saleBack = 0 /\ NoEntries.commBack = 0
BY SMTT(30)
   DEF NoJob, NoStay, NoEntries, NotCancelling, JobRecords, StayRecords, EntryRecords,
       CancelRecords,
       JobSteps, CancelSteps

-----------------------------------------------------------------------------
(* Steps that leave the reservations, their entries and the cancellations    *)
(* alone keep what only speaks of those.                                     *)
LEMMA StaysKept ==
  ASSUME ChannelInv, UNCHANGED stay
  PROVE  /\ RoomSoldOnce' /\ \A s \in Stays : Live(s)' = Live(s)
         /\ \A b \in Bookings : StaysOf(b)' = StaysOf(b)
BY Zenon DEF ChannelInv, RoomSoldOnce, Live, StaysOf

(* A step that touches no stay, entry or cancellation leaves the reversals  *)
(* as they are.                                                             *)
LEMMA EntriesKept ==
  ASSUME ChannelInv, UNCHANGED <<stay, ledger, cancel>>
  PROVE  Reversals'
BY SMTT(30) DEF ChannelInv, Reversals, ReversalHolds, Nets, Past

(* A booking is left as it was by steps that bring none of its stays to life *)
(* and neither start a job or a soft-cancel of it nor mark its row; a job    *)
(* that ends here had yet to make its stay.                                  *)
LEMMA BookingKept ==
  ASSUME NEW b \in Bookings, BookingHolds(b), row'[b] = row[b],
         \A s \in StaysOf(b)' : Live(s)' => s \in StaysOf(b) /\ Live(s),
         InProgress(b)' \subseteq InProgress(b),
         \A d \in InProgress(b) : job[d].step = "made" =>
             d \in InProgress(b)' /\ job'[d].step = "made" /\ job'[d].stay = job[d].stay,
         \A c \in Cancellers : cancel'[c].booking = b /\ cancel'[c].step \in Past =>
             cancel[c].booking = b /\ cancel[c].step \in Past /\ cancel'[c].stay = cancel[c].stay
  PROVE  BookingHolds(b)'
<1>1. \A d, e \in InProgress(b)' : d = e
  BY Zenon DEF BookingHolds
<1>2. ASSUME NEW d \in InProgress(b)'
      PROVE  /\ row'[b].status # "processed"
             /\ \A s \in StaysOf(b)' : Live(s)' => job'[d].step = "made" /\ s = job'[d].stay
  BY SMTT(30) DEF BookingHolds
<1>3. ASSUME InProgress(b)' = {}, NEW s \in StaysOf(b)', Live(s)'
      PROVE  row'[b].status = "processed" /\ row'[b].stay = s
  <2>1. s \in StaysOf(b) /\ Live(s)
    BY <1>3, Zenon
  <2>2. InProgress(b) = {}
    BY <1>3, <2>1, Zenon DEF BookingHolds
  <2> QED
    BY <2>1, <2>2, Zenon DEF BookingHolds
<1>4. \A c \in Cancellers : cancel'[c].booking = b /\ cancel'[c].step \in Past =>
          row'[b].status = "processed" /\ row'[b].stay = cancel'[c].stay
  BY Zenon DEF BookingHolds
<1> QED
  BY <1>1, <1>2, <1>3, <1>4, Zenon DEF BookingHolds, Past

(* The entries of a stay are left alone, and so are the cancellations past   *)
(* its soft-cancel and those cut short.                                      *)
LEMMA ReversalKept ==
  ASSUME NEW s \in Stays, ReversalHolds(s), ledger'[s] = ledger[s],
         stay'[s].status = "cancelled" <=> stay[s].status = "cancelled",
         \A e \in Cancellers : cancel'[e].stay = s /\ cancel'[e].step \in Past => cancel'[e] = cancel[e],
         \A e \in Cancellers : cancel[e].stay = s /\ cancel[e].step \in Past => cancel'[e] = cancel[e],
         \A e \in Cancellers : cancel[e].stay = s /\ cancel[e].cut => cancel'[e].stay = s /\ cancel'[e].cut
  PROVE  ReversalHolds(s)'
<1>1. /\ ledger'[s].saleBack <= ledger'[s].sale /\ ledger'[s].commBack <= ledger'[s].comm
      /\ Nets(s)' = Nets(s)
  BY Zenon DEF ReversalHolds, Nets
<1>2. stay'[s].status # "cancelled" =>
        /\ ledger'[s].saleBack = 0 /\ ledger'[s].commBack = 0
        /\ \A c \in Cancellers : cancel'[c].stay = s => cancel'[c].step \notin Past
  BY Zenon DEF ReversalHolds
<1>3. ASSUME NEW c \in Cancellers, cancel'[c].stay = s, cancel'[c].step \in Past
      PROVE  /\ \A e \in Cancellers \ {c} : cancel'[e].stay = s => cancel'[e].step \notin Past
             /\ cancel'[c].step \in {"look", "free", "sale"} =>
                   ledger'[s].saleBack = 0 /\ ledger'[s].commBack = 0
             /\ cancel'[c].step = "comm" =>
                   ledger'[s].commBack = 0 /\ (cancel'[c].cut \/ ledger'[s].saleBack = ledger'[s].sale)
             /\ cancel'[c].step = "mark" => cancel'[c].cut \/ Nets(s)
  BY <1>3, Zenon DEF ReversalHolds
<1>4. stay'[s].status = "cancelled" =>
        \/ Nets(s)
        \/ \E c \in Cancellers : cancel'[c].stay = s /\ (cancel'[c].step \in Past \/ cancel'[c].cut)
  BY Zenon DEF ReversalHolds
<1> QED
  BY <1>1, <1>2, <1>3, <1>4, Zenon DEF ReversalHolds, Past

(* Nothing is pointed at anew, and what was pointed at is still there.       *)
LEMMA LinksKept ==
  ASSUME Links, \A b \in Bookings : StaysOf(b)' = StaysOf(b), \A b \in Bookings : row'[b].stay = row[b].stay,
         \A c \in Cancellers : cancel'[c].stay = cancel[c].stay /\ cancel'[c].booking = cancel[c].booking,
         \A c \in Cancellers : cancel'[c].step = "idle" <=> cancel[c].step = "idle",
         \A c \in Cancellers : cancel'[c].step = "idle" => cancel'[c].cut = cancel[c].cut,
         InMemory' \subseteq InMemory, \A d \in InMemory' : job'[d] = job[d],
         \A d \in InMemory' : at'[d] \in {"asked", "queued"} => at[d] \in {"asked", "queued"},
         desk' # None => desk' \in Stays /\ stay'[desk'].status # "absent",
         \A s \in Stays : stay'[s].status = "absent" => ~stay'[s].revived
  PROVE  Links'
<1>1. \A b \in Bookings : row'[b].stay # None => row'[b].stay \in StaysOf(b)'
  BY ZenonT(30) DEF Links
<1>2. ASSUME NEW c \in Cancellers, cancel'[c].step # "idle"
      PROVE  cancel'[c].booking \in Bookings /\ cancel'[c].stay \in StaysOf(cancel[c].booking)
  BY <1>2, Zenon DEF Links
<1>3. ASSUME NEW d \in InMemory' PROVE JobHolds(d)'
  <2>1. JobHolds(d) /\ d \in InMemory /\ job'[d] = job[d]
    BY Zenon DEF Links
  <2>2. PICK b \in Bookings : b = job[d].booking
    BY <2>1, Zenon DEF JobHolds
  <2>3. job[d].step = "made" => \A c \in Cancellers : cancel'[c].step # "idle" => cancel'[c].stay # job[d].stay
    BY <2>1, Zenon DEF JobHolds
  <2>4. job[d].step = "made" => \A e \in InMemory' \ {d} : job'[e].step = "made" => job'[e].stay # job[d].stay
    BY <2>1, Zenon DEF JobHolds
  <2> QED
    BY <2>1, <2>2, <2>3, <2>4, SMTT(30) DEF JobHolds
<1>4. \A c \in Cancellers : cancel'[c].step = "idle" => ~cancel'[c].cut
  BY Zenon DEF Links
<1> QED
  BY <1>1, <1>2, <1>3, <1>4, SMTT(30) DEF Links

(* The pool moves its jobs along and gives up none but those still asked.    *)
LEMMA PoolOnly ==
  ASSUME ChannelInv, PoolInv', UNCHANGED data, InMemory' \subseteq InMemory,
         \A d \in InMemory' : at'[d] \in {"asked", "queued"} => at[d] \in {"asked", "queued"},
         \A d \in InMemory \ InMemory' : at[d] = "asked"
  PROVE  ChannelInv'
<1>1. TypeOK'
  BY Zenon DEF ChannelInv, TypeOK, PoolInv, data
<1>2. RoomSoldOnce' /\ Reversals' /\ \A s \in Stays : Live(s)' = Live(s)
  BY StaysKept, EntriesKept, Zenon DEF data
<1>3. \A b \in Bookings : StaysOf(b)' = StaysOf(b)
  BY StaysKept, Zenon DEF data
<1>4. Links'
  <2>1. Links /\ row' = row /\ cancel' = cancel /\ job' = job /\ desk' = desk /\ stay' = stay
    BY Zenon DEF ChannelInv, data
  <2>2. /\ desk' # None => desk' \in Stays /\ stay'[desk'].status # "absent"
        /\ \A s \in Stays : stay'[s].status = "absent" => ~stay'[s].revived
    BY <2>1, Zenon DEF Links
  <2> QED
    BY <1>3, <2>1, <2>2, LinksKept, Zenon
<1>5. OnceEach'
  <2> SUFFICES ASSUME NEW b \in Bookings, Undisturbed(b)' PROVE BookingHolds(b)'
    BY Zenon DEF OnceEach
  <2>1. Undisturbed(b) /\ BookingHolds(b)
    BY <1>3, Zenon DEF ChannelInv, OnceEach, Undisturbed, data
  <2>2. InProgress(b)' \subseteq InProgress(b)
    BY Zenon DEF InProgress, data
  <2>3. \A d \in InProgress(b) \ InProgress(b)' : job[d].step = "start"
    BY Zenon DEF InProgress, data, ChannelInv, Links, JobHolds
  <2> QED
    <3>1. \A s \in StaysOf(b)' : Live(s)' => s \in StaysOf(b) /\ Live(s)
      BY <1>2, <1>3, Zenon DEF StaysOf
    <3>2. row'[b] = row[b] /\ job' = job /\ cancel' = cancel
      BY Zenon DEF data
    <3>3. \A d \in InProgress(b) : job[d].step = "made" => d \in InProgress(b)'
      BY <2>3, Zenon
    <3> QED
      BY <2>1, <2>2, <3>1, <3>2, <3>3, BookingKept, Zenon
<1> QED
  BY <1>1, <1>2, <1>4, <1>5, Zenon DEF ChannelInv

(* A step of the worker pool alone keeps the invariant.                     *)
LEMMA PoolSteps ==
  ASSUME ChannelInv, PoolInv', UNCHANGED data,
         (\E d \in Jobs : SubmitOrRun(d)) \/ PoolStep \/ Signal \/ CloseJobs \/ Shutdown
            \/ UNCHANGED pool
  PROVE  ChannelInv'
<1>1. at \in [Jobs -> Places]
  BY Zenon DEF ChannelInv, PoolInv, PoolTypeOK
<1>2. ASSUME NEW d \in Jobs, SubmitOrRun(d) PROVE ChannelInv'
  <2>1. at[d] = "asked" /\ \E p \in {"queued", "detached", "panicked"} : at' = [at EXCEPT ![d] = p]
    BY <1>2, Zenon DEF SubmitOrRun, Enqueue, Detach, SubmitPanics
  <2> QED
    BY <1>1, <2>1, PoolOnly, Zenon DEF InMemory
<1>3. CASE Take
  <2>1. PICK d \in Jobs : at[d] = "queued" /\ at' = [at EXCEPT ![d] = "running"]
    <3>1. Head(queue) = queue[1] /\ 1 \in DOMAIN queue
      BY <1>3, SMTT(30) DEF Take, ChannelInv, PoolInv, PoolTypeOK
    <3>2. Head(queue) \in Queued
      BY <3>1, SMTT(30) DEF ChannelInv, PoolInv, QueueExact
    <3> QED
      BY <1>3, <3>2, Zenon DEF Take, Queued
  <2> QED
    BY <1>1, <2>1, PoolOnly, Zenon DEF InMemory
<1>4. CASE UNCHANGED at
  BY <1>4, PoolOnly, Zenon DEF InMemory
<1> QED
  BY <1>2, <1>3, <1>4, Zenon
     DEF PoolStep, LeaveLoop, CountSubmitted, Signal, CloseJobs, Shutdown, pool

-----------------------------------------------------------------------------
(* A delivery is stored, or recognised as a duplicate.                      *)
LEMMA IngestStoreInv ==
  ASSUME ChannelInv, PoolInv', NEW d \in Jobs, NEW b \in Bookings, IngestStore(d, b)
  PROVE  ChannelInv'
<1> DEFINE r == [NoJob EXCEPT !.booking = b, !.step = "start"]
<1>1. r \in JobRecords /\ r.booking = b /\ r.step = "start"
  BY Zenon DEF NoJob, JobRecords, JobSteps
<1>2. job' = [job EXCEPT ![d] = r] /\ at[d] = "new" /\ at' = [at EXCEPT ![d] = "asked"]
  BY Zenon DEF IngestStore, Arrive
<1> HIDE DEF r
<1>3. /\ at \in [Jobs -> Places] /\ job \in [Jobs -> JobRecords] /\ row \in [Bookings -> RowRecords]
  BY TypesNamed, Zenon DEF ChannelInv, PoolInv, PoolTypeOK
<1>4. UNCHANGED <<stay, room, ledger, cancel, desk>>
  BY Zenon DEF IngestStore
<1>5. InMemory' = InMemory \cup {d} /\ d \notin InMemory
  BY <1>2, <1>3, Zenon DEF InMemory
<1>6. /\ row' \in [Bookings -> RowRecords] /\ row[b].status # "processed" /\ row'[b].status # "processed"
      /\ \A x \in Bookings : row'[x].stay = row[x].stay /\ (x # b => row'[x] = row[x])
  <2>1. PICK st \in RowStatuses : row' = [row EXCEPT ![b].status = st] /\ st # "processed"
    BY <1>3, Zenon DEF IngestStore, RowRecords, RowStatuses, Duplicate
  <2> QED
    BY <1>3, <2>1, SMTT(30) DEF RowRecords, IngestStore, Duplicate
<1>7. TypeOK'
  <2>1. disturbed' \subseteq Bookings
    BY Zenon DEF IngestStore, ChannelInv, TypeOK
  <2> QED
    BY <1>1, <1>2, <1>3, <1>4, <1>6, <2>1, TypesNamed, TypesNext, Zenon DEF ChannelInv
<1>8. RoomSoldOnce' /\ Reversals' /\ (\A s \in Stays : Live(s)' = Live(s))
  BY <1>4, StaysKept, EntriesKept, Zenon
<1>9. \A x \in Bookings : StaysOf(x)' = StaysOf(x)
  BY <1>4, StaysKept, Zenon
<1>10. Links'
  <2>1. ASSUME NEW e \in InMemory' PROVE JobHolds(e)'
    <3>1. CASE e = d
      BY <1>1, <1>2, <1>3, <3>1, Zenon DEF JobHolds
    <3>2. CASE e # d
      <4>1. JobHolds(e) /\ e \in InMemory /\ e \in Jobs
        BY <1>5, <3>2, Zenon DEF ChannelInv, Links, InMemory
      <4>2. \A f \in InMemory' \ {e} : job'[f].step = "made" => f \in InMemory /\ job'[f] = job[f]
        BY <1>1, <1>2, <1>3, <1>5, Zenon DEF InMemory
      <4> QED
        BY <1>2, <1>3, <1>4, <1>6, <1>9, <3>2, <4>1, <4>2, ZenonT(30) DEF JobHolds
    <3> QED
      BY <3>1, <3>2, Zenon
  <2> QED
    BY <1>4, <1>6, <1>9, <2>1, Zenon DEF ChannelInv, Links
<1>11. OnceEach'
  <2> SUFFICES ASSUME NEW x \in Bookings, Undisturbed(x)' PROVE BookingHolds(x)'
    BY Zenon DEF OnceEach
  <2>1. Undisturbed(x) /\ BookingHolds(x) /\ (x = b => InProgress(b) = {})
    BY <1>4, <1>9, Zenon DEF ChannelInv, OnceEach, Undisturbed, IngestStore
  <2>2. CASE x = b
    <3>1. InProgress(b)' = {d}
      BY <1>1, <1>2, <1>3, <1>5, <2>1, <2>2, Zenon DEF InProgress, InMemory
    <3>2. \A s \in StaysOf(b) : ~Live(s)
      BY <1>6, <2>1, <2>2, ZenonT(30) DEF BookingHolds
    <3>3. \A c \in Cancellers : cancel[c].booking = b => cancel[c].step \notin Past
      BY <1>6, <2>1, <2>2, Zenon DEF BookingHolds
    <3> QED
      BY <1>4, <1>6, <1>8, <1>9, <2>2, <3>1, <3>2, <3>3, Zenon DEF BookingHolds, Past, StaysOf
  <2>3. CASE x # b
    <3>1. InProgress(x)' = InProgress(x)
      BY <1>1, <1>2, <1>3, <1>5, <2>3, Zenon DEF InProgress, InMemory
    <3>2. \A e \in InProgress(x) : job'[e] = job[e]
      BY <1>2, <1>3, <1>5, Zenon DEF InProgress, InMemory
    <3>3. \A s \in StaysOf(x)' : Live(s)' => s \in StaysOf(x) /\ Live(s)
      BY <1>8, <1>9, Zenon DEF StaysOf
    <3> QED
      BY <1>4, <1>6, <2>1, <2>3, <3>1, <3>2, <3>3, BookingKept, Zenon
  <2> QED
    BY <2>2, <2>3, Zenon
<1> QED
  BY <1>7, <1>8, <1>10, <1>11, Zenon DEF ChannelInv

(* The job picks a room or is refused one.                                   *)
LEMMA JobGoesOn ==
  ASSUME ChannelInv, PoolInv', NEW d \in Jobs, Runs(d), job[d].step \in {"start", "picked"},
         NEW r \in JobRecords, r.booking = job[d].booking, r.step \in {"picked", "refused"},
         r.step = "picked" => r.room \in Rooms, job' = [job EXCEPT ![d] = r],
         UNCHANGED <<pool, row, stay, room, ledger, cancel, desk, disturbed>>
  PROVE  ChannelInv'
<1>1. job \in [Jobs -> JobRecords] /\ InMemory' = InMemory /\ d \in InMemory
  BY TypesNamed, Zenon DEF ChannelInv, pool, InMemory, Runs
<1>2. TypeOK'
  BY <1>1, TypesNamed, TypesNext, Zenon DEF ChannelInv
<1>3. RoomSoldOnce' /\ Reversals' /\ (\A s \in Stays : Live(s)' = Live(s))
  BY StaysKept, EntriesKept, Zenon
<1>4. \A x \in Bookings : StaysOf(x)' = StaysOf(x)
  BY StaysKept, Zenon
<1>5. Links'
  <2>1. ASSUME NEW e \in InMemory' PROVE JobHolds(e)'
    <3>1. JobHolds(e) /\ e \in Jobs /\ at' = at
      BY <1>1, ZenonT(30) DEF ChannelInv, Links, InMemory, pool
    <3>2. CASE e = d
      BY <1>1, <3>1, <3>2, Zenon DEF JobHolds, Runs
    <3>3. CASE e # d
      <4>1. \A f \in InMemory' \ {e} : job'[f].step = "made" => f \in InMemory /\ job'[f] = job[f]
        BY <1>1, Zenon DEF InMemory
      <4> QED
        BY <1>1, <1>4, <3>1, <3>3, <4>1, ZenonT(30) DEF JobHolds
    <3> QED
      BY <3>2, <3>3, Zenon
  <2> QED
    BY <1>4, <2>1, Zenon DEF ChannelInv, Links
<1>6. OnceEach'
  <2> SUFFICES ASSUME NEW x \in Bookings, Undisturbed(x)' PROVE BookingHolds(x)'
    BY Zenon DEF OnceEach
  <2>1. BookingHolds(x)
    BY <1>4, Zenon DEF ChannelInv, OnceEach, Undisturbed
  <2>2. InProgress(x)' = InProgress(x)
    BY <1>1, Zenon DEF InProgress, InMemory
  <2>3. \A e \in InProgress(x) : job[e].step = "made" => job'[e] = job[e]
    BY <1>1, Zenon DEF InProgress, InMemory
  <2>4. \A s \in StaysOf(x)' : Live(s)' => s \in StaysOf(x) /\ Live(s)
    BY <1>3, <1>4, Zenon DEF StaysOf
  <2> QED
    BY <2>1, <2>2, <2>3, <2>4, BookingKept, Zenon
<1> QED
  BY <1>2, <1>3, <1>5, <1>6, Zenon DEF ChannelInv

(* The job ends, its delivery marked or, when the mark is lost, disturbed.   *)
LEMMA JobEnds ==
  ASSUME ChannelInv, PoolInv', NEW d \in Jobs, Runs(d), at' = [at EXCEPT ![d] = "ended"],
         UNCHANGED <<stay, room, ledger, cancel, desk>>,
         NEW q \in RowRecords,
         IF job[d].step = "made" THEN q.status = "processed" /\ q.stay = job[d].stay
                                 ELSE q.stay = row[job[d].booking].stay,
         \/ row' = [row EXCEPT ![job[d].booking] = q] /\ UNCHANGED <<job, disturbed>>
         \/ MarkLost(d)
  PROVE  ChannelInv'
<1> DEFINE b == job[d].booking
<1>1. /\ at \in [Jobs -> Places] /\ job \in [Jobs -> JobRecords] /\ row \in [Bookings -> RowRecords]
      /\ disturbed \subseteq Bookings
  BY TypesNamed, Zenon DEF ChannelInv, PoolInv, PoolTypeOK
<1>2. InMemory' = InMemory \ {d} /\ d \in InMemory
  BY <1>1, Zenon DEF InMemory, Runs
<1>3. JobHolds(d) /\ b \in Bookings
  BY <1>2, Zenon DEF ChannelInv, Links, JobHolds
<1>4. /\ row' \in [Bookings -> RowRecords] /\ disturbed' \subseteq Bookings /\ disturbed \subseteq disturbed'
      /\ job' \in [Jobs -> JobRecords] /\ \A e \in Jobs \ {d} : job'[e] = job[e]
      /\ \A x \in Bookings \ {b} : row'[x] = row[x]
      /\ b \notin disturbed' => row'[b] = q
      /\ row'[b] = q \/ row'[b] = row[b]
  BY <1>1, <1>3, SMTT(30) DEF MarkLost, JobRecords, JobSteps
<1>5. TypeOK'
  BY <1>1, <1>4, TypesNamed, TypesNext, ZenonT(30) DEF ChannelInv
<1>6. RoomSoldOnce' /\ Reversals' /\ (\A s \in Stays : Live(s)' = Live(s))
  BY StaysKept, EntriesKept, Zenon
<1>7. \A x \in Bookings : StaysOf(x)' = StaysOf(x)
  BY StaysKept, Zenon
<1>8. Links'
  <2>0. \A x \in Bookings :
          \/ row'[x].stay = row[x].stay
          \/ x = b /\ job[d].step = "made" /\ row'[x].stay = job[d].stay
    BY <1>4, ZenonT(30)
  <2>1. ASSUME NEW e \in InMemory' PROVE JobHolds(e)'
    <3>1. JobHolds(e) /\ e \in Jobs /\ e # d /\ job'[e] = job[e] /\ at'[e] = at[e] /\ e \in InMemory
      BY <1>1, <1>2, <1>4, ZenonT(30) DEF ChannelInv, Links, InMemory
    <3>2. \A f \in InMemory' \ {e} : f \in InMemory /\ job'[f] = job[f]
      BY <1>2, <1>4, Zenon DEF InMemory
    <3>3. job[e].step = "made" => \A x \in Bookings : row'[x].stay # job[e].stay
      <4>1. job[e].step = "made" => \A x \in Bookings : row[x].stay # job[e].stay
        BY <3>1, ZenonT(30) DEF JobHolds
      <4>2. job[e].step = "made" /\ job[d].step = "made" => job[d].stay # job[e].stay
        BY <1>2, <3>1, Zenon DEF JobHolds
      <4> QED
        BY <2>0, <4>1, <4>2, Zenon
    <3>4. PICK y \in Bookings : y = job[e].booking
      BY <3>1, Zenon DEF JobHolds
    <3>5. job[e].step = "made" => job[e].stay \in Stays /\ job[e].stay \in StaysOf(y)'
      BY <1>7, <3>1, <3>4, ZenonT(30) DEF JobHolds
    <3>6. job[e].step = "made" =>
             /\ \A c \in Cancellers : cancel'[c].step # "idle" => cancel'[c].stay # job[e].stay
             /\ \A f \in InMemory' \ {e} : job'[f].step = "made" => job'[f].stay # job[e].stay
      BY <3>1, <3>2, ZenonT(30) DEF JobHolds
    <3> QED
      BY <3>1, <3>3, <3>4, <3>5, <3>6, ZenonT(30) DEF JobHolds
  <2>2. \A x \in Bookings : row'[x].stay # None => row'[x].stay \in StaysOf(x)
    <3>1. \A x \in Bookings : row[x].stay # None => row[x].stay \in StaysOf(x)
      BY Zenon DEF ChannelInv, Links
    <3>2. job[d].step = "made" => job[d].stay \in StaysOf(b)
      BY <1>3, Zenon DEF JobHolds
    <3> QED
      BY <2>0, <3>1, <3>2, ZenonT(30)
  <2>3. /\ \A c \in Cancellers : cancel[c].step # "idle" =>
              cancel[c].booking \in Bookings /\ cancel[c].stay \in StaysOf(cancel[c].booking)
        /\ desk # None => desk \in Stays /\ stay[desk].status # "absent"
        /\ \A s \in Stays : stay[s].status = "absent" => ~stay[s].revived
        /\ \A c \in Cancellers : cancel[c].step = "idle" => ~cancel[c].cut
    BY Zenon DEF ChannelInv, Links
  <2> QED
    BY <1>7, <2>1, <2>2, <2>3, ZenonT(30) DEF Links
<1>9. OnceEach'
  <2> SUFFICES ASSUME NEW x \in Bookings, Undisturbed(x)' PROVE BookingHolds(x)'
    BY Zenon DEF OnceEach
  <2>1. BookingHolds(x)
    BY <1>4, <1>7, ZenonT(30) DEF ChannelInv, OnceEach, Undisturbed
  <2>2. \A s \in StaysOf(x)' : Live(s)' => s \in StaysOf(x) /\ Live(s)
    BY <1>6, <1>7, Zenon DEF StaysOf
  <2>3. CASE x = b
    <3>1. InProgress(x) = {d}
      BY <1>2, <2>1, <2>3, ZenonT(30) DEF InProgress, BookingHolds
    <3>2. InProgress(x)' = {}
      BY <1>2, <1>4, <3>1, Zenon DEF InProgress, InMemory
    <3>3. row'[x] = q
      BY <1>4, <2>3, Zenon DEF Undisturbed
    <3>4. \A c \in Cancellers : cancel[c].booking = x => cancel[c].step \notin Past
      BY <2>1, <3>1, ZenonT(30) DEF BookingHolds
    <3>5. \A s \in StaysOf(x) : Live(s) => q.status = "processed" /\ q.stay = s
      BY <2>1, <3>1, ZenonT(30) DEF BookingHolds
    <3> QED
      BY <2>2, <3>2, <3>3, <3>4, <3>5, ZenonT(30) DEF BookingHolds, Past
  <2>4. CASE x # b
    <3>1. InProgress(x)' = InProgress(x)
      BY <1>2, <1>4, <2>4, ZenonT(30) DEF InProgress, InMemory
    <3>2. \A e \in InProgress(x) : job'[e] = job[e]
      BY <1>4, <2>4, Zenon DEF InProgress, InMemory
    <3> QED
      BY <1>4, <2>1, <2>2, <2>4, <3>1, <3>2, BookingKept, ZenonT(30)
  <2> QED
    BY <2>3, <2>4, Zenon
<1> QED
  BY <1>5, <1>6, <1>8, <1>9, Zenon DEF ChannelInv

(* A job marks its delivery failed or processed.                            *)
LEMMA MarkInv ==
  ASSUME ChannelInv, PoolInv', NEW d \in Jobs, MarkFailed(d) \/ MarkProcessed(d)
  PROVE  ChannelInv'
<1>1. job \in [Jobs -> JobRecords] /\ row \in [Bookings -> RowRecords] /\ Runs(d)
  BY TypesNamed, Zenon DEF ChannelInv, MarkFailed, MarkProcessed
<1>2. job[d].booking \in Bookings /\ (job[d].step = "made" => job[d].stay \in Stays)
  BY <1>1, Zenon DEF ChannelInv, Links, JobHolds, InMemory, Runs
<1>3. at' = [at EXCEPT ![d] = "ended"] /\ UNCHANGED <<stay, room, ledger, cancel, desk>>
  BY Zenon DEF MarkFailed, MarkProcessed, Return, exec, DetachedEnds
<1>4. CASE MarkFailed(d)
  <2> DEFINE q == [row[job[d].booking] EXCEPT !.status = "failed"]
  <2>1. q \in RowRecords /\ q.stay = row[job[d].booking].stay
    BY <1>1, <1>2, Zenon DEF RowRecords, RowStatuses
  <2>2. \/ row' = [row EXCEPT ![job[d].booking] = q] /\ UNCHANGED <<job, disturbed>>
        \/ MarkLost(d)
    BY <1>1, <1>2, <1>4, Zenon DEF MarkFailed
  <2> HIDE DEF q
  <2> QED
    BY <1>1, <1>3, <1>4, <2>1, <2>2, JobEnds, Zenon DEF MarkFailed
<1>5. CASE MarkProcessed(d)
  <2> DEFINE q == [status |-> "processed", stay |-> job[d].stay]
  <2>1. q \in RowRecords /\ q.status = "processed" /\ q.stay = job[d].stay
    BY <1>2, <1>5, Zenon DEF RowRecords, RowStatuses, MarkProcessed
  <2>2. \/ row' = [row EXCEPT ![job[d].booking] = q] /\ UNCHANGED <<job, disturbed>>
        \/ MarkLost(d)
    BY <1>5, Zenon DEF MarkProcessed
  <2> HIDE DEF q
  <2> QED
    BY <1>1, <1>3, <1>5, <2>1, <2>2, JobEnds, Zenon DEF MarkProcessed
<1> QED
  BY <1>4, <1>5, Zenon

-----------------------------------------------------------------------------
(* A stay is made: in a room no live stay holds, known to nobody yet.        *)
LEMMA NewStay ==
  ASSUME ChannelInv, NEW t \in Stays, stay[t].status = "absent", NEW q \in StayRecords,
         q.status = "confirmed", ~q.revived, NoOverlap(q.room), stay' = [stay EXCEPT ![t] = q]
  PROVE  /\ stay' \in [Stays -> StayRecords] /\ RoomSoldOnce'
         /\ \A s \in Stays : s # t => stay'[s] = stay[s] /\ Live(s)' = Live(s)
         /\ \A x \in Bookings : q.booking = x => StaysOf(x)' = StaysOf(x) \cup {t}
         /\ \A x \in Bookings : q.booking # x => StaysOf(x)' = StaysOf(x)
         /\ \A b \in Bookings : row[b].stay # t
         /\ \A c \in Cancellers : cancel[c].step # "idle" => cancel[c].stay # t
         /\ \A d \in InMemory : job[d].step = "made" => job[d].stay # t
         /\ desk # t /\ ReversalHolds(t)
         /\ \A x \in Bookings : Undisturbed(x)' /\ disturbed \subseteq disturbed' => Undisturbed(x)
<1>1. stay \in [Stays -> StayRecords] /\ t # None
  BY TypesNamed, ChannelAssumption, Zenon DEF ChannelInv
<1>2. stay' \in [Stays -> StayRecords] /\ stay'[t] = q /\ \A s \in Stays : s # t => stay'[s] = stay[s]
  BY <1>1, Zenon
<1>3. \A s \in Stays : s # t => Live(s)' = Live(s)
  BY <1>2, Zenon DEF Live
<1>4. RoomSoldOnce'
  BY <1>2, <1>3, Zenon DEF ChannelInv, RoomSoldOnce, NoOverlap
<1>5. \A x \in Bookings : t \notin StaysOf(x)
  BY Zenon DEF StaysOf
<1>6. /\ \A x \in Bookings : q.booking = x => StaysOf(x)' = StaysOf(x) \cup {t}
      /\ \A x \in Bookings : q.booking # x => StaysOf(x)' = StaysOf(x)
  BY <1>2, Zenon DEF StaysOf
<1>7. \A b \in Bookings : row[b].stay # t
  BY <1>1, <1>5, Zenon DEF ChannelInv, Links
<1>8. \A c \in Cancellers : cancel[c].step # "idle" => cancel[c].stay # t
  BY <1>5, Zenon DEF ChannelInv, Links
<1>9. \A d \in InMemory : job[d].step = "made" => job[d].stay # t
  BY <1>5, Zenon DEF ChannelInv, Links, JobHolds
<1>10. desk # t /\ ReversalHolds(t)
  BY <1>1, Zenon DEF ChannelInv, Links, Reversals
<1>11. \A x \in Bookings : Undisturbed(x)' /\ disturbed \subseteq disturbed' => Undisturbed(x)
  BY <1>2, <1>5, <1>6, Zenon DEF Undisturbed, StaysOf
<1> QED
  BY <1>2, <1>3, <1>4, <1>5, <1>6, <1>7, <1>8, <1>9, <1>10, <1>11, Zenon

(* A check-in reads a stay and writes it as checked in.                     *)
LEMMA CheckInReadInv ==
  ASSUME ChannelInv, PoolInv', NEW s \in Stays, CheckInRead(s)
  PROVE  ChannelInv'
<1>1. /\ UNCHANGED <<pool, row, job, stay, room, ledger, cancel, disturbed>> /\ desk' = s
      /\ stay[s].status # "absent" /\ InMemory' = InMemory /\ at' = at
  BY Zenon DEF CheckInRead, Live, InMemory, pool
<1>2. TypeOK'
  BY <1>1, TypesNamed, TypesNext, Zenon DEF ChannelInv
<1>3. RoomSoldOnce' /\ Reversals' /\ (\A x \in Stays : Live(x)' = Live(x))
  BY <1>1, StaysKept, EntriesKept, Zenon
<1>4. \A x \in Bookings : StaysOf(x)' = StaysOf(x)
  BY <1>1, StaysKept, Zenon
<1>5. Links'
  <2>1. Links
    BY Zenon DEF ChannelInv
  <2>2. /\ desk' # None => desk' \in Stays /\ stay'[desk'].status # "absent"
        /\ \A t \in Stays : stay'[t].status = "absent" => ~stay'[t].revived
    BY <1>1, <2>1, ZenonT(30) DEF Links
  <2> QED
    BY <1>1, <1>4, <2>1, <2>2, LinksKept, Zenon
<1>6. OnceEach'
  <2> SUFFICES ASSUME NEW x \in Bookings, Undisturbed(x)' PROVE BookingHolds(x)'
    BY Zenon DEF OnceEach
  <2>1. BookingHolds(x)
    BY <1>1, <1>4, Zenon DEF ChannelInv, OnceEach, Undisturbed
  <2>2. InProgress(x)' = InProgress(x)
    BY <1>1, Zenon DEF InProgress
  <2>3. \A t \in StaysOf(x)' : Live(t)' => t \in StaysOf(x) /\ Live(t)
    BY <1>3, <1>4, Zenon DEF StaysOf
  <2> QED
    BY <1>1, <2>1, <2>2, <2>3, BookingKept, Zenon
<1> QED
  BY <1>2, <1>3, <1>5, <1>6, Zenon DEF ChannelInv

(* The check-in writes the stay it read: one cancelled since counts as       *)
(* revived from then on.                                                     *)
LEMMA CheckInTxInv ==
  ASSUME ChannelInv, PoolInv', CheckInTx
  PROVE  ChannelInv'
<1>1. /\ UNCHANGED <<pool, row, job, ledger, cancel, disturbed>> /\ desk' = None
      /\ InMemory' = InMemory /\ at' = at
  BY Zenon DEF CheckInTx, InMemory, pool
<1>2. PICK t \in Stays : t = desk /\ stay[t].status # "absent"
  BY Zenon DEF CheckInTx, ChannelInv, Links
<1>3. stay \in [Stays -> StayRecords] /\ room \in [Rooms -> {"available", "occupied"}]
  BY TypesNamed, Zenon DEF ChannelInv
<1>4. /\ stay' \in [Stays -> StayRecords] /\ room' \in [Rooms -> {"available", "occupied"}]
      /\ \A s \in Stays : s # t => stay'[s] = stay[s]
      /\ \A s \in Stays : stay'[s].booking = stay[s].booking /\ stay'[s].room = stay[s].room
      /\ \/ stay'[t] = stay[t]
         \/ /\ stay'[t].status = "in_house"
            /\ stay'[t].revived = (stay[t].revived \/ stay[t].status = "cancelled")
            /\ \A o \in Stays \ {t} : Live(o) => stay[o].room # stay[t].room
  <2>1. CASE UNCHANGED <<stay, room>>
    BY <1>3, <2>1, Zenon
  <2>2. CASE /\ stay' = [stay EXCEPT ![t].status = "in_house", ![t].in = TRUE,
                                   ![t].revived = @ \/ stay[t].status = "cancelled"]
             /\ room' = [room EXCEPT ![stay[t].room] = "occupied"]
             /\ \A o \in Stays \ {t} : Live(o) => stay[o].room # stay[t].room
    <3>1. PICK k \in BOOLEAN : k = (stay[t].revived \/ stay[t].status = "cancelled")
      BY Zenon
    <3> DEFINE q == [stay[t] EXCEPT !.status = "in_house", !.in = TRUE, !.revived = k]
    <3>2. stay[t] \in StayRecords
      BY <1>3, Zenon
    <3>3. /\ q \in StayRecords /\ q.status = "in_house" /\ q.revived = k
          /\ q.booking = stay[t].booking /\ q.room = stay[t].room
      BY <3>2, Zenon DEF StayRecords
    <3>4. stay' = [stay EXCEPT ![t] = q]
      BY <1>3, <2>2, <3>1, Zenon
    <3> HIDE DEF q
    <3>5. room' \in [Rooms -> {"available", "occupied"}]
      BY <1>3, <2>2, Zenon
    <3>6. stay'[t] = q /\ \A s \in Stays : s # t => stay'[s] = stay[s]
      BY <1>3, <3>4, Zenon
    <3>7. \A s \in Stays : stay'[s].booking = stay[s].booking /\ stay'[s].room = stay[s].room
      BY <3>3, <3>6, Zenon
    <3>8. stay' \in [Stays -> StayRecords]
      BY <1>3, <3>3, <3>4, Zenon
    <3> QED
      BY <2>2, <3>1, <3>3, <3>5, <3>6, <3>7, <3>8, Zenon
  <2> QED
    BY <1>2, <2>1, <2>2, Zenon DEF CheckInTx
<1>5. TypeOK'
  BY <1>1, <1>4, TypesNamed, TypesNext, ZenonT(30) DEF ChannelInv
<1>6. RoomSoldOnce'
  <2> SUFFICES ASSUME NEW s \in Stays, NEW o \in Stays, Live(s)', Live(o)', s # o
               PROVE  stay'[s].room # stay'[o].room
    BY Zenon DEF RoomSoldOnce
  <2>1. \A x \in Stays : x # t => (Live(x)' <=> Live(x))
    BY <1>4, Zenon DEF Live
  <2>2. CASE stay'[t] = stay[t]
    <3>1. Live(s) /\ Live(o)
      BY <1>4, <2>1, <2>2, Zenon DEF Live
    <3> QED
      BY <1>4, <3>1, ZenonT(30) DEF ChannelInv, RoomSoldOnce
  <2>3. CASE \A x \in Stays \ {t} : Live(x) => stay[x].room # stay[t].room
    <3>1. CASE s = t \/ o = t
      BY <1>4, <2>1, <2>3, <3>1, Zenon
    <3>2. CASE s # t /\ o # t
      BY <1>4, <2>1, <3>2, SMTT(30) DEF ChannelInv, RoomSoldOnce
    <3> QED
      BY <3>1, <3>2, Zenon
  <2> QED
    BY <1>4, <2>2, <2>3, Zenon
<1>7. \A x \in Bookings : StaysOf(x)' = StaysOf(x)
  BY <1>2, <1>4, SMTT(30) DEF StaysOf
<1>8. \A s \in Stays : ~stay'[s].revived => ~stay[s].revived /\ (Live(s)' <=> Live(s))
                       /\ (stay'[s].status = "cancelled" <=> stay[s].status = "cancelled")
  <2>1. stay[t].status \in {"confirmed", "in_house", "cancelled"}
    BY <1>2, <1>3, Zenon DEF StayRecords
  <2> QED
    BY <1>4, <2>1, Zenon DEF Live
<1>9. Links'
  <2>1. Links
    BY Zenon DEF ChannelInv
  <2>2. \A s \in Stays : stay'[s].status = "absent" => ~stay'[s].revived
    BY <1>2, <1>4, <2>1, ZenonT(30) DEF Links
  <2> QED
    BY <1>1, <1>7, <2>1, <2>2, LinksKept, Zenon
<1>10. Reversals'
  <2> SUFFICES ASSUME NEW s \in Stays, ~stay'[s].revived PROVE ReversalHolds(s)'
    BY Zenon DEF Reversals
  <2>1. ReversalHolds(s)
    BY <1>8, Zenon DEF ChannelInv, Reversals
  <2> QED
    BY <1>1, <1>8, <2>1, Zenon DEF ReversalHolds, Nets, Past
<1>11. OnceEach'
  <2> SUFFICES ASSUME NEW x \in Bookings, Undisturbed(x)' PROVE BookingHolds(x)'
    BY Zenon DEF OnceEach
  <2>1. \A s \in StaysOf(x)' : ~stay'[s].revived /\ s \in Stays
    BY Zenon DEF Undisturbed, StaysOf
  <2>2. BookingHolds(x)
    BY <1>1, <1>7, <1>8, <2>1, Zenon DEF ChannelInv, OnceEach, Undisturbed
  <2>3. InProgress(x)' = InProgress(x)
    BY <1>1, Zenon DEF InProgress
  <2>4. \A s \in StaysOf(x)' : Live(s)' => s \in StaysOf(x) /\ Live(s)
    BY <1>7, <1>8, <2>1, Zenon
  <2> QED
    BY <1>1, <2>2, <2>3, <2>4, BookingKept, Zenon
<1> QED
  BY <1>5, <1>6, <1>9, <1>10, <1>11, Zenon DEF ChannelInv

(* The process stops with whatever its jobs had in hand.                    *)
LEMMA ProcessEndsInv ==
  ASSUME ChannelInv, PoolInv', ProcessEnds
  PROVE  ChannelInv'
<1>1. /\ UNCHANGED <<row, job, stay, room, ledger>> /\ desk' = None
      /\ disturbed' = disturbed \cup {b \in Bookings : InProgress(b) # {}}
  BY ZenonT(30) DEF ProcessEnds
<1>2. InMemory' = {}
  BY Zenon DEF ProcessEnds, Restart, InMemory
<1>3. cancel \in [Cancellers -> CancelRecords] /\ disturbed \subseteq Bookings
  BY TypesNamed, Zenon DEF ChannelInv
<1>4. ASSUME NEW c \in Cancellers
      PROVE  /\ cancel'[c] \in CancelRecords /\ cancel'[c].stay = cancel[c].stay
             /\ cancel'[c].booking = cancel[c].booking /\ cancel'[c].step \in {"idle", "over"}
             /\ (cancel'[c].step = "idle" <=> cancel[c].step = "idle")
             /\ (cancel'[c].step = "idle" => cancel'[c].cut = cancel[c].cut)
             /\ (cancel[c].cut \/ cancel[c].step \in Past => cancel'[c].cut)
  <2> DEFINE q == [cancel[c] EXCEPT !.step = "over", !.cut = TRUE]
  <2>1. cancel[c] \in CancelRecords
    BY <1>3, Zenon
  <2>2. q \in CancelRecords /\ q.step = "over" /\ q.cut = TRUE /\ q.stay = cancel[c].stay /\ q.booking = cancel[c].booking
    BY <2>1, Zenon DEF CancelRecords, CancelSteps
  <2>3. cancel'[c] = (IF cancel[c].step \in {"idle", "over"} THEN cancel[c] ELSE q)
    BY Zenon DEF ProcessEnds
  <2> HIDE DEF q
  <2> QED
    BY <2>1, <2>2, <2>3, Zenon DEF Past
<1>5. cancel' \in [Cancellers -> CancelRecords]
  <2>1. DOMAIN cancel' = Cancellers /\ cancel' = [c \in Cancellers |-> cancel'[c]]
    BY Zenon DEF ProcessEnds
  <2> QED
    BY <1>4, <2>1, Zenon
<1>6. TypeOK'
  BY <1>1, <1>3, <1>5, TypesNamed, TypesNext, Zenon DEF ChannelInv
<1>7. RoomSoldOnce' /\ (\A x \in Stays : Live(x)' = Live(x))
  BY <1>1, StaysKept, Zenon
<1>8. \A x \in Bookings : StaysOf(x)' = StaysOf(x)
  BY <1>1, StaysKept, Zenon
<1>9. Links'
  <2>1. Links
    BY Zenon DEF ChannelInv
  <2>2. \A s \in Stays : stay'[s].status = "absent" => ~stay'[s].revived
    BY <1>1, <2>1, ZenonT(30) DEF Links
  <2> QED
    BY <1>1, <1>2, <1>4, <1>8, <2>1, <2>2, LinksKept, Zenon
<1>10. Reversals'
  <2> SUFFICES ASSUME NEW s \in Stays, ~stay'[s].revived PROVE ReversalHolds(s)'
    BY Zenon DEF Reversals
  <2>1. ReversalHolds(s)
    BY <1>1, Zenon DEF ChannelInv, Reversals
  <2>2. \A c \in Cancellers : cancel'[c].step \notin Past
    BY <1>4, Zenon DEF Past
  <2>3. stay[s].status = "cancelled" => Nets(s) \/ \E c \in Cancellers : cancel'[c].stay = s /\ cancel'[c].cut
    BY <1>4, <2>1, ZenonT(30) DEF ReversalHolds
  <2> QED
    BY <1>1, <2>1, <2>2, <2>3, Zenon DEF ReversalHolds, Nets, Past
<1>11. OnceEach'
  <2> SUFFICES ASSUME NEW x \in Bookings, Undisturbed(x)' PROVE BookingHolds(x)'
    BY Zenon DEF OnceEach
  <2>1. BookingHolds(x) /\ InProgress(x) = {}
    BY <1>1, <1>8, Zenon DEF ChannelInv, OnceEach, Undisturbed
  <2>2. InProgress(x)' = {}
    BY <1>2, Zenon DEF InProgress
  <2>3. \A t \in StaysOf(x)' : Live(t)' => t \in StaysOf(x) /\ Live(t)
    BY <1>7, <1>8, Zenon DEF StaysOf
  <2>4. \A c \in Cancellers : cancel'[c].step \notin Past
    BY <1>4, Zenon DEF Past
  <2> QED
    BY <1>1, <2>1, <2>2, <2>3, <2>4, BookingKept, Zenon
<1> QED
  BY <1>6, <1>7, <1>9, <1>10, <1>11, Zenon DEF ChannelInv

-----------------------------------------------------------------------------
INSTANCE FiniteSetTheorems

(* Jobs counted, and what rests on that.                                    *)

(* The sets the invariant counts are finite. *)
LEMMA FiniteJobs ==
  ASSUME PoolTypeOK
  PROVE  /\ IsFiniteSet(Queued) /\ Cardinality(Queued) \in Nat
         /\ IsFiniteSet(Running) /\ Cardinality(Running) \in Nat
         /\ IsFiniteSet(uncounted) /\ Cardinality(uncounted) \in Nat
<1>1. Queued \subseteq Jobs /\ Running \subseteq Jobs /\ uncounted \subseteq Jobs
  BY Zenon DEF Queued, Running, PoolTypeOK
<1> QED
  BY <1>1, PoolAssumption, FS_Subset, FS_CardinalityType, Zenon

(* What CountersAccount adds up are natural numbers. *)
LEMMA CountsNat ==
  ASSUME PoolTypeOK
  PROVE  /\ Cardinality(Queued) \in Nat /\ Cardinality(Running) \in Nat /\ Cardinality(uncounted) \in Nat
         /\ counted.completed \in Nat /\ counted.failed \in Nat /\ counted.submitted \in Nat
  BY FiniteJobs, Zenon DEF PoolTypeOK

(* No job is queued and running when the process starts. *)
LEMMA PoolInitInv == PoolInit => PoolInv
<1> SUFFICES ASSUME PoolInit PROVE PoolInv
  BY Zenon
<1>1. Queued = {} /\ Running = {} /\ uncounted = {}
  BY Zenon DEF PoolInit, Queued, Running
<1>2. PoolTypeOK
  BY PoolAssumption, SMTT(30) DEF PoolInit, PoolTypeOK, Places, ServerStates, Zero
<1>3. QueueExact
  BY <1>1, SMTT(30) DEF PoolInit, QueueExact
<1>4. WorkersSane /\ SentOnly /\ CountersAccount
  BY <1>1, FS_EmptySet, PoolAssumption, SMTT(30)
     DEF PoolInit, WorkersSane, SentOnly, CountersAccount, Zero
<1> QED
  BY <1>2, <1>3, <1>4, Zenon DEF PoolInv

(* Submit adds a job that is neither queued nor counted. *)
LEMMA EnqueueInv ==
  ASSUME PoolInv, NEW j \in Jobs, Enqueue(j)
  PROVE  PoolInv'
<1>1. at' = [at EXCEPT ![j] = "queued"] /\ at[j] = "asked" /\ ~Closed
  BY Zenon DEF Enqueue
<1>2. /\ Queued' = Queued \cup {j} /\ Running' = Running /\ at' \in [Jobs -> Places]
      /\ j \notin Queued /\ j \notin uncounted
  BY <1>1, Moved, Zenon DEF PoolInv, Places, Queued, Running, SentOnly
<1>3. PoolTypeOK'
  BY <1>2, SMTT(30) DEF Enqueue, PoolInv, PoolTypeOK
<1>4. QueueExact'
  <2>1. /\ queue \in Seq(Jobs) /\ queue' = Append(queue, j)
        /\ Len(queue') = Len(queue) + 1 /\ queue'[Len(queue) + 1] = j
        /\ \A i \in 1 .. Len(queue) : queue'[i] = queue[i]
    BY SMTT(30) DEF Enqueue, PoolInv, PoolTypeOK
  <2>2. DOMAIN queue = 1 .. Len(queue) /\ DOMAIN queue' = 1 .. Len(queue) + 1 /\ Len(queue) \in Nat
    BY <2>1, SMTT(30)
  <2> QED
    BY <1>2, <2>1, <2>2, SMTT(30) DEF PoolInv, QueueExact
<1>5. WorkersSane' /\ SentOnly'
  BY <1>1, <1>2, Zenon DEF Enqueue, PoolInv, PoolTypeOK, WorkersSane, SentOnly, Closed
<1>6. CountersAccount'
  <2>1. /\ Cardinality(Queued') = Cardinality(Queued) + 1
        /\ Cardinality(uncounted') = Cardinality(uncounted) + 1
    BY <1>2, FiniteJobs, FS_AddElement, Zenon DEF Enqueue, PoolInv
  <2>2. /\ counted'.submitted = counted.submitted
        /\ counted'.completed = counted.completed /\ counted'.failed = counted.failed
        /\ Cardinality(Running') = Cardinality(Running)
    BY <1>2, Zenon DEF Enqueue
  <2> QED
    BY <2>1, <2>2, CountsNat, SMTT(30) DEF PoolInv, CountersAccount
<1> QED
  BY <1>3, <1>4, <1>5, <1>6, Zenon DEF PoolInv

(* Counting a submission moves it from one side of the account to the other. *)
LEMMA CountSubmittedInv ==
  ASSUME PoolInv, NEW j \in Jobs, CountSubmitted(j)
  PROVE  PoolInv'
<1>1. Queued' = Queued /\ Running' = Running
  BY Zenon DEF CountSubmitted, Queued, Running
<1>2. PoolTypeOK' /\ SentOnly'
  BY SMTT(30) DEF CountSubmitted, PoolInv, PoolTypeOK, SentOnly
<1>3. QueueExact' /\ WorkersSane'
  BY <1>1, Zenon DEF CountSubmitted, PoolInv, QueueExact, WorkersSane, Closed
<1>4. CountersAccount'
  <2>1. Cardinality(uncounted') = Cardinality(uncounted) - 1
    BY FiniteJobs, FS_RemoveElement, Zenon DEF CountSubmitted, PoolInv
  <2>2. /\ counted'.submitted = counted.submitted + 1
        /\ counted'.completed = counted.completed /\ counted'.failed = counted.failed
    BY Zenon DEF CountSubmitted, PoolInv, PoolTypeOK
  <2>3. Cardinality(Queued') = Cardinality(Queued) /\ Cardinality(Running') = Cardinality(Running)
    BY <1>1, Zenon
  <2> QED
    BY <2>1, <2>2, <2>3, CountsNat, SMTT(30) DEF PoolInv, CountersAccount
<1> QED
  BY <1>2, <1>3, <1>4, Zenon DEF PoolInv

(* A worker takes the oldest job. *)
LEMMA TakeInv ==
  ASSUME PoolInv, Take
  PROVE  PoolInv'
<1> DEFINE j == Head(queue)
<1>1. /\ queue \in Seq(Jobs) /\ queue # <<>> /\ Len(queue) \in Nat \ {0}
      /\ DOMAIN queue = 1 .. Len(queue) /\ j = queue[1] /\ j \in Jobs
  BY SMTT(30) DEF Take, PoolInv, PoolTypeOK
<1>2. /\ queue' = Tail(queue) /\ queue' \in Seq(Jobs) /\ Len(queue') = Len(queue) - 1
      /\ DOMAIN queue' = 1 .. Len(queue) - 1
      /\ \A i \in 1 .. Len(queue) - 1 : queue'[i] = queue[i + 1]
  BY <1>1, SMTT(30) DEF Take
<1>3. j \in Queued /\ j \notin Running
  BY <1>1, SMTT(30) DEF PoolInv, QueueExact, Queued, Running
<1>4. at' = [at EXCEPT ![j] = "running"]
  BY Zenon DEF Take
<1>5. Queued' = Queued \ {j} /\ Running' = Running \cup {j} /\ at' \in [Jobs -> Places]
  BY <1>1, <1>4, Moved, Zenon DEF PoolInv, Places
<1> HIDE DEF j
<1>6. PoolTypeOK'
  BY <1>2, <1>5, Zenon DEF Take, PoolInv, PoolTypeOK
<1>7. QueueExact'
  <2>1. \A i \in DOMAIN queue' : queue'[i] \in Queued'
    BY <1>1, <1>2, <1>5, SMTT(30) DEF PoolInv, QueueExact
  <2>2. ASSUME NEW o \in Queued' PROVE \E i \in DOMAIN queue' : queue'[i] = o
    <3>1. PICK i \in DOMAIN queue : queue[i] = o
      BY <1>5, <2>2, Zenon DEF PoolInv, QueueExact
    <3>2. i # 1
      BY <1>1, <1>5, <2>2, <3>1, Zenon
    <3>3. i - 1 \in 1 .. Len(queue) - 1 /\ queue'[i - 1] = queue[(i - 1) + 1] /\ (i - 1) + 1 = i
      BY <1>1, <1>2, <3>1, <3>2, SMTT(30)
    <3> QED
      BY <1>2, <3>1, <3>3, Zenon
  <2>3. \A i, k \in DOMAIN queue' : queue'[i] = queue'[k] => i = k
    <3>1. SUFFICES ASSUME NEW i \in 1 .. Len(queue) - 1, NEW k \in 1 .. Len(queue) - 1,
                          queue[i + 1] = queue[k + 1]
                   PROVE  i = k
      BY <1>2, SMTT(30)
    <3>2. i + 1 \in DOMAIN queue /\ k + 1 \in DOMAIN queue
      BY <1>1, SMTT(30)
    <3>3. i + 1 = k + 1
      BY <3>1, <3>2, Zenon DEF PoolInv, QueueExact
    <3> QED
      BY <3>3, SMTT(30)
  <2> QED
    BY <2>1, <2>2, <2>3, Zenon DEF QueueExact
<1>8. /\ Cardinality(Queued') = Cardinality(Queued) - 1
      /\ Cardinality(Running') = Cardinality(Running) + 1
  BY <1>3, <1>5, FiniteJobs, FS_AddElement, FS_RemoveElement, Zenon DEF PoolInv
<1>9. WorkersSane'
  BY <1>8, FiniteJobs, PoolAssumption, SMTT(30)
     DEF Take, IdleWorker, PoolInv, PoolTypeOK, WorkersSane, Closed
<1>10. SentOnly'
  BY <1>1, <1>4, Zenon DEF Take, PoolInv, PoolTypeOK, SentOnly
<1>11. CountersAccount'
  <2>1. counted' = counted /\ uncounted' = uncounted
    BY Zenon DEF Take
  <2> QED
    BY <1>8, <2>1, CountsNat, SMTT(30) DEF PoolInv, CountersAccount
<1> QED
  BY <1>6, <1>7, <1>9, <1>10, <1>11, Zenon DEF PoolInv

(* A job that returns leaves its worker and is counted once. *)
LEMMA execInv ==
  ASSUME PoolInv, NEW j \in Jobs, NEW ok \in BOOLEAN, exec(j, ok)
  PROVE  PoolInv'
<1>1. at' = [at EXCEPT ![j] = "ended"] /\ j \in Running /\ j \notin Queued
  BY Zenon DEF exec, Running, Queued
<1>2. Queued' = Queued /\ Running' = Running \ {j} /\ at' \in [Jobs -> Places]
  <2>1. Queued' = Queued \ {j} /\ Running' = Running \ {j} /\ at' \in [Jobs -> Places]
    BY <1>1, Moved, Zenon DEF PoolInv, Places
  <2> QED
    BY <1>1, <2>1, Zenon
<1>3. Cardinality(Running') = Cardinality(Running) - 1
  BY <1>1, <1>2, FiniteJobs, FS_RemoveElement, Zenon DEF PoolInv
<1>4. /\ counted' \in [submitted : Nat, completed : Nat, failed : Nat, dropped : Nat]
      /\ counted'.submitted = counted.submitted
      /\ counted'.completed + counted'.failed = counted.completed + counted.failed + 1
  <2>1. CASE ok
    <3>1. counted' = [counted EXCEPT !.completed = @ + 1]
      BY <2>1, Zenon DEF exec
    <3>2. counted \in [submitted : Nat, completed : Nat, failed : Nat, dropped : Nat]
      BY Zenon DEF PoolInv, PoolTypeOK
    <3>3. /\ counted' \in [submitted : Nat, completed : Nat, failed : Nat, dropped : Nat]
          /\ counted'.submitted = counted.submitted
      BY <3>1, <3>2, SMTT(30)
    <3>4. counted'.completed = counted.completed + 1 /\ counted'.failed = counted.failed
      BY <3>1, <3>2, Zenon
    <3> QED
      BY <3>2, <3>3, <3>4, SMTT(30)
  <2>2. CASE ~ok
    <3>1. counted' = [counted EXCEPT !.failed = @ + 1]
      BY <2>2, Zenon DEF exec
    <3>2. counted \in [submitted : Nat, completed : Nat, failed : Nat, dropped : Nat]
      BY Zenon DEF PoolInv, PoolTypeOK
    <3>3. /\ counted' \in [submitted : Nat, completed : Nat, failed : Nat, dropped : Nat]
          /\ counted'.submitted = counted.submitted
      BY <3>1, <3>2, SMTT(30)
    <3>4. counted'.failed = counted.failed + 1 /\ counted'.completed = counted.completed
      BY <3>1, <3>2, Zenon
    <3> QED
      BY <3>2, <3>3, <3>4, SMTT(30)
  <2> QED
    BY <2>1, <2>2, Zenon
<1>5. UNCHANGED <<queue, exited, server, uncounted, restarts>>
  BY Zenon DEF exec
<1>6. PoolTypeOK'
  BY <1>2, <1>4, <1>5, Zenon DEF PoolInv, PoolTypeOK
<1>7. QueueExact'
  BY <1>2, <1>5, Zenon DEF PoolInv, QueueExact
<1>8. WorkersSane'
  BY <1>3, <1>5, FiniteJobs, PoolAssumption, SMTT(30) DEF PoolInv, PoolTypeOK, WorkersSane, Closed
<1>9. SentOnly'
  BY <1>1, <1>5, Zenon DEF PoolInv, PoolTypeOK, SentOnly
<1>10. CountersAccount'
  <2>1. Cardinality(Queued') = Cardinality(Queued) /\ Cardinality(uncounted') = Cardinality(uncounted)
    BY <1>2, <1>5, Zenon
  <2>2. counted'.completed \in Nat /\ counted'.failed \in Nat
    BY <1>4, Zenon
  <2> QED
    BY <1>3, <1>4, <2>1, <2>2, CountsNat, SMTT(30) DEF PoolInv, CountersAccount
<1> QED
  BY <1>6, <1>7, <1>8, <1>9, <1>10, Zenon DEF PoolInv

(* Workers leave an empty channel; main moves on. *)
LEMMA MainInv ==
  ASSUME PoolInv, LeaveLoop \/ Signal \/ CloseJobs \/ Shutdown
  PROVE  PoolInv'
<1>1. UNCHANGED <<at, queue, counted, uncounted, restarts>> /\ Queued' = Queued /\ Running' = Running
  BY Zenon DEF LeaveLoop, Signal, CloseJobs, Shutdown, Queued, Running
<1>2. QueueExact' /\ SentOnly' /\ CountersAccount'
  BY <1>1, Zenon DEF PoolInv, QueueExact, SentOnly, CountersAccount
<1>3. PoolTypeOK' /\ WorkersSane'
  <2>1. CASE LeaveLoop
    BY <1>1, <2>1, FiniteJobs, PoolAssumption, SMTT(30)
       DEF LeaveLoop, IdleWorker, PoolInv, PoolTypeOK, WorkersSane, Closed
  <2>2. CASE Signal \/ CloseJobs \/ Shutdown
    BY <1>1, <2>2, FiniteJobs, PoolAssumption, Zenon
       DEF Signal, CloseJobs, Shutdown, PoolInv, PoolTypeOK, WorkersSane, Closed, ServerStates
  <2> QED
    BY <2>1, <2>2, Zenon
<1> QED
  BY <1>2, <1>3, Zenon DEF PoolInv

(* A new process starts with nothing in memory. *)
LEMMA RestartInv ==
  ASSUME PoolInv, Restart
  PROVE  PoolInv'
<1>1. Queued' = {} /\ Running' = {}
  BY Zenon DEF Restart, Queued, Running, InMemory
<1>2. PoolTypeOK'
  BY PoolAssumption, SMTT(30) DEF Restart, PoolInv, PoolTypeOK, Places, ServerStates, Zero
<1>3. QueueExact' /\ SentOnly'
  BY <1>1, SMTT(30) DEF Restart, QueueExact, SentOnly
<1>4. WorkersSane'
  BY <1>1, FS_EmptySet, PoolAssumption, SMTT(30) DEF Restart, WorkersSane
<1>5. CountersAccount'
  BY <1>1, FS_EmptySet, SMTT(30) DEF Restart, CountersAccount, Zero
<1> QED
  BY <1>2, <1>3, <1>4, <1>5, Zenon DEF PoolInv

(* Every step of requests, workers and main keeps the invariant. *)
LEMMA PoolNextInv == PoolInv /\ [PoolNext]_pool => PoolInv'
<1> SUFFICES ASSUME PoolInv, [PoolNext]_pool PROVE PoolInv'
  BY Zenon
<1>1. CASE UNCHANGED pool
  BY <1>1, Zenon DEF pool, PoolInv, PoolTypeOK, QueueExact, WorkersSane, SentOnly, CountersAccount,
              Queued, Running, Closed
<1>2. ASSUME NEW j \in Jobs, Arrive(j) \/ SubmitOrRun(j) PROVE PoolInv'
  BY <1>2, UnacceptedInv, EnqueueInv, Zenon DEF SubmitOrRun
<1>3. ASSUME NEW j \in Jobs, NEW ok \in BOOLEAN, Return(j, ok) PROVE PoolInv'
  BY <1>3, UnacceptedInv, execInv, Zenon DEF Return
<1>4. CASE PoolStep
  BY <1>4, TakeInv, MainInv, CountSubmittedInv, Zenon DEF PoolStep
<1>5. CASE MainStep
  BY <1>5, MainInv, RestartInv, Zenon DEF MainStep
<1> QED
  BY <1>1, <1>2, <1>3, <1>4, <1>5, Zenon DEF PoolNext

(* The invariant implies what Shutdown promises: all workers gone means no  *)
(* job running, and they leave only an empty channel.                       *)
LEMMA InvDrains == PoolInv => DrainRunsAll
<1> SUFFICES ASSUME PoolInv, server = "drained" PROVE Queued \cup Running = {}
  BY Zenon DEF DrainRunsAll
<1>1. exited = Workers /\ queue = <<>> /\ Cardinality(Running) = 0
  BY FiniteJobs, PoolAssumption, SMTT(30) DEF PoolInv, PoolTypeOK, WorkersSane
<1>2. Running = {}
  BY <1>1, FiniteJobs, FS_EmptySet, Zenon DEF PoolInv
<1>3. Queued = {}
  BY <1>1, SMTT(30) DEF PoolInv, QueueExact
<1> QED
  BY <1>2, <1>3, Zenon

(* worker.Pool, whatever its jobs do: Shutdown reports the pool drained     *)
(* only after every accepted job has run, and the counters it logs account  *)
(* for every accepted job.                                                  *)
THEOREM PoolDrains == PoolSpec => [](DrainRunsAll /\ CountersAccount)
<1>1. PoolInv => DrainRunsAll /\ CountersAccount
  BY InvDrains, Zenon DEF PoolInv
<1> QED
  BY <1>1, PoolInitInv, PoolNextInv, PTL DEF PoolSpec

(* The two counters Shutdown logs never lose or double a job: what ran to   *)
(* the end and what panicked, with what is queued and running, is what      *)
(* Submit counted and what it has accepted but not counted yet.             *)
THEOREM CountersAccounted == PoolSpec => []CountersAccount
  BY PoolDrains, PTL

(* A set of natural numbers that is not empty has a least element.           *)
LEMMA MinInSet ==
  ASSUME NEW S, S \subseteq Nat, S # {}
  PROVE  Min(S) \in S
<1> DEFINE R == {ss \in Nat \X Nat : ss[1] < ss[2]}
<1>1. OpToRel(<, Nat) = R
  BY Zenon DEF OpToRel
<1>2. PICK x \in S : \A y \in S : ~(<<y, x>> \in R)
  <2>1. IsWellFoundedOn(R, Nat)
    BY <1>1, NatLessThanWellFounded, Zenon
  <2> HIDE DEF R
  <2> QED
    BY <2>1, WFMin, Zenon
<1>3. \A y \in S : x \in Nat /\ y \in Nat /\ x <= y
  <2> TAKE y \in S
  <2>1. x \in Nat /\ y \in Nat
    BY Zenon
  <2>2. ~(y < x)
    BY <1>2, <2>1, Zenon
  <2> QED
    BY <2>1, <2>2, SMTT(30)
<1> QED
  BY <1>3, Zenon DEF Min

(* When Shutdown reports the pool drained, every delivery the queue accepted *)
(* has been processed to its end.                                            *)
THEOREM DeliveriesDrain == Spec => []DrainRunsAll
<1> QED
  BY DeliveriesUsePool, PoolDrains, PTL

(* Init establishes the invariant.                                          *)
LEMMA ChannelStart == Init => ChannelInv
<1> SUFFICES ASSUME Init PROVE ChannelInv
  BY Zenon
<1>1. PoolInv /\ PoolTypeOK
  BY PoolInitInv, Zenon DEF Init, PoolInv
<1>2. TypeOK
  <2>1. [status |-> "none", stay |-> None] \in RowRecords
    BY Zenon DEF RowRecords, RowStatuses
  <2> QED
    BY <1>1, <2>1, Blanks, TypesNamed, Zenon DEF Init
<1>3. \A s \in Stays : stay[s].status = "absent" /\ ~stay[s].revived
  BY Blanks, Zenon DEF Init
<1>4. \A b \in Bookings : StaysOf(b) = {}
  BY <1>3, Zenon DEF StaysOf
<1>5. \A c \in Cancellers : cancel[c].step = "idle" /\ cancel[c].stay = None /\ ~cancel[c].cut
  BY Blanks, Zenon DEF Init
<1>6. InMemory = {}
  BY Zenon DEF Init, PoolInit, InMemory
<1>7. RoomSoldOnce
  BY <1>3, Zenon DEF RoomSoldOnce, Live
<1>8. Links
  BY <1>3, <1>5, <1>6, Zenon DEF Links, Init
<1>9. \A s \in Stays : ReversalHolds(s)
  BY <1>3, <1>5, Blanks, ChannelAssumption, SMTT(30) DEF ReversalHolds, Init, Past
<1>10. \A b \in Bookings : BookingHolds(b)
  BY <1>4, <1>5, <1>6, Zenon DEF BookingHolds, InProgress, Past
<1> QED
  BY <1>1, <1>2, <1>7, <1>8, <1>9, <1>10, Zenon DEF ChannelInv, Reversals, OnceEach

(* A job picks a room that is free when it looks.                           *)
LEMMA ProcessPickInv ==
  ASSUME ChannelInv, PoolInv', NEW d \in Jobs, ProcessPick(d)
  PROVE  ChannelInv'
<1>1. job \in [Jobs -> JobRecords]
  BY TypesNamed, Zenon DEF ChannelInv
<1>2. ASSUME NEW rm \in Rooms, job' = [job EXCEPT ![d].step = "picked", ![d].room = rm]
      PROVE  ChannelInv'
  <2> DEFINE r == [job[d] EXCEPT !.step = "picked", !.room = rm]
  <2>1. /\ r \in JobRecords /\ r.booking = job[d].booking /\ r.step = "picked" /\ r.room = rm
        /\ job' = [job EXCEPT ![d] = r]
    BY <1>1, <1>2, Zenon DEF JobRecords, JobSteps
  <2> HIDE DEF r
  <2> QED
    BY <2>1, JobGoesOn, Zenon DEF ProcessPick
<1>3. ASSUME job' = [job EXCEPT ![d].step = "refused"] PROVE ChannelInv'
  <2> DEFINE r == [job[d] EXCEPT !.step = "refused"]
  <2>1. /\ r \in JobRecords /\ r.booking = job[d].booking /\ r.step = "refused"
        /\ job' = [job EXCEPT ![d] = r]
    BY <1>1, <1>3, Zenon DEF JobRecords, JobSteps
  <2> HIDE DEF r
  <2> QED
    BY <2>1, JobGoesOn, Zenon DEF ProcessPick
<1>4. CASE ListRoomsAvailableBetween # {} /\
           job' = [job EXCEPT ![d].step = "picked", ![d].room = Min(ListRoomsAvailableBetween)]
  <2>1. ListRoomsAvailableBetween \subseteq Nat /\ ListRoomsAvailableBetween \subseteq Rooms
    BY ChannelAssumption, ZenonT(30) DEF ListRoomsAvailableBetween
  <2>2. Min(ListRoomsAvailableBetween) \in Rooms
    BY <1>4, <2>1, MinInSet, Zenon
  <2> QED
    BY <1>2, <1>4, <2>2, Zenon
<1> QED
  BY <1>3, <1>4, Zenon DEF ProcessPick

(* The desk takes a room.                                                   *)
LEMMA DeskBooksInv ==
  ASSUME ChannelInv, PoolInv', NEW r \in Rooms, DeskBooks(r)
  PROVE  ChannelInv'
<1> DEFINE q == [NoStay EXCEPT !.room = r, !.status = "confirmed"]
<1>1. q \in StayRecords /\ q.status = "confirmed" /\ ~q.revived /\ q.room = r /\ q.booking = None
  BY Zenon DEF NoStay, StayRecords
<1>2. PICK t \in Stays : stay[t].status = "absent" /\ stay' = [stay EXCEPT ![t] = q]
  <2>1. FreshStays # {}
    <3>1. IsFiniteSet(InMemory)
      BY PoolAssumption, FS_Subset, Zenon DEF InMemory
    <3>2. Cardinality(InMemory) \in Nat /\ Cardinality(FreshStays) > Cardinality(InMemory)
      BY <3>1, FS_CardinalityType, Zenon DEF DeskBooks, StayLeft
    <3> QED
      BY <3>2, FS_EmptySet, SMTT(30)
  <2>2. Min(FreshStays) \in FreshStays
    BY <2>1, MinInSet, ChannelAssumption, Zenon DEF FreshStays
  <2> QED
    BY <2>2, Zenon DEF DeskBooks, FreshStays
<1> HIDE DEF q
<1>3. UNCHANGED <<pool, row, job, room, ledger, cancel, desk, disturbed>> /\ NoOverlap(q.room)
  BY <1>1, Zenon DEF DeskBooks
<1>4. /\ stay' \in [Stays -> StayRecords] /\ RoomSoldOnce'
      /\ \A s \in Stays : s # t => stay'[s] = stay[s] /\ Live(s)' = Live(s)
      /\ \A x \in Bookings : Undisturbed(x)' => Undisturbed(x)
      /\ desk # t /\ ReversalHolds(t) /\ stay'[t] = q
  BY <1>1, <1>2, <1>3, NewStay, ZenonT(30)
<1>5. \A x \in Bookings : StaysOf(x)' = StaysOf(x)
  BY <1>1, <1>2, <1>3, NewStay, ChannelAssumption, ZenonT(30)
<1>6. InMemory' = InMemory /\ at' = at
  BY <1>3, Zenon DEF InMemory, pool
<1>7. TypeOK'
  BY <1>3, <1>4, TypesNamed, TypesNext, Zenon DEF ChannelInv
<1>8. Links'
  <2>1. Links
    BY Zenon DEF ChannelInv
  <2>2. /\ desk' # None => desk' \in Stays /\ stay'[desk'].status # "absent"
        /\ \A s \in Stays : stay'[s].status = "absent" => ~stay'[s].revived
    BY <1>1, <1>3, <1>4, <2>1, ZenonT(30) DEF Links
  <2> QED
    BY <1>3, <1>5, <1>6, <2>1, <2>2, LinksKept, Zenon
<1>9. Reversals'
  <2> SUFFICES ASSUME NEW s \in Stays, ~stay'[s].revived PROVE ReversalHolds(s)'
    BY Zenon DEF Reversals
  <2>1. ReversalHolds(s)
    BY <1>4, Zenon DEF ChannelInv, Reversals
  <2> QED
    BY <1>1, <1>2, <1>3, <1>4, <2>1, Zenon DEF ReversalHolds, Nets, Past
<1>10. OnceEach'
  <2> SUFFICES ASSUME NEW x \in Bookings, Undisturbed(x)' PROVE BookingHolds(x)'
    BY Zenon DEF OnceEach
  <2>1. BookingHolds(x)
    BY <1>4, Zenon DEF ChannelInv, OnceEach
  <2>2. InProgress(x)' = InProgress(x)
    BY <1>3, <1>6, Zenon DEF InProgress
  <2>3. \A s \in StaysOf(x)' : Live(s)' => s \in StaysOf(x) /\ Live(s)
    BY <1>2, <1>4, <1>5, Zenon DEF StaysOf
  <2> QED
    BY <1>3, <2>1, <2>2, <2>3, BookingKept, Zenon
<1> QED
  BY <1>4, <1>7, <1>8, <1>9, <1>10, Zenon DEF ChannelInv

(* A job inserts the stay and books it.                                     *)
LEMMA ProcessInsertInv ==
  ASSUME ChannelInv, PoolInv', NEW d \in Jobs, ProcessInsert(d)
  PROVE  ChannelInv'
<1>1. /\ job \in [Jobs -> JobRecords] /\ ledger \in [Stays -> EntryRecords]
      /\ Runs(d) /\ job[d].step = "picked" /\ d \in InMemory /\ InMemory' = InMemory /\ at' = at
      /\ UNCHANGED <<pool, row, room, cancel, desk, disturbed>>
  BY TypesNamed, Zenon DEF ChannelInv, ProcessInsert, InMemory, Runs, pool
<1>2. JobHolds(d)
  BY <1>1, Zenon DEF ChannelInv, Links
<1>3. PICK b \in Bookings : b = job[d].booking
  BY <1>2, Zenon DEF JobHolds
<1>4. CASE ~NoOverlap(job[d].room)
  <2> DEFINE r == [job[d] EXCEPT !.step = "refused"]
  <2>1. /\ r \in JobRecords /\ r.booking = job[d].booking /\ r.step = "refused"
        /\ job' = [job EXCEPT ![d] = r] /\ UNCHANGED <<stay, ledger>>
    BY <1>1, <1>4, Zenon DEF JobRecords, JobSteps, ProcessInsert
  <2> HIDE DEF r
  <2> QED
    BY <1>1, <2>1, JobGoesOn, Zenon
<1>5. CASE NoOverlap(job[d].room)
  <2>1. PICK t \in Stays : t = Min(FreshStays) /\ stay[t].status = "absent"
    <3>1. FreshStays # {}
      BY <1>5, Zenon DEF ProcessInsert
    <3> QED
      BY <3>1, MinInSet, ChannelAssumption, Zenon DEF FreshStays
  <2>2. PICK rm \in Rooms : rm = job[d].room
    BY <1>1, <1>2, Zenon DEF JobHolds
  <2> DEFINE q == [NoStay EXCEPT !.booking = b, !.room = rm, !.status = "confirmed"]
  <2>3. q \in StayRecords /\ q.status = "confirmed" /\ ~q.revived /\ q.room = rm /\ q.booking = b
    BY Zenon DEF NoStay, StayRecords
  <2>4. stay' = [stay EXCEPT ![t] = q]
    BY <1>3, <1>5, <2>1, <2>2, Zenon DEF ProcessInsert
  <2> HIDE DEF q
  <2> DEFINE r == [job[d] EXCEPT !.step = "made", !.stay = t]
  <2>5. r \in JobRecords /\ r.step = "made" /\ r.stay = t /\ r.booking = b /\ job' = [job EXCEPT ![d] = r]
    BY <1>1, <1>3, <1>5, <2>1, Zenon DEF ProcessInsert, JobRecords, JobSteps
  <2> HIDE DEF r
  <2>6. /\ ledger' \in [Stays -> EntryRecords] /\ \A s \in Stays : s # t => ledger'[s] = ledger[s]
        /\ ledger'[t].saleBack = ledger[t].saleBack /\ ledger'[t].commBack = ledger[t].commBack
    <3>1. ledger' = [ledger EXCEPT ![t].sale = 1, ![t].comm = 1]
      BY <1>5, <2>1, Zenon DEF ProcessInsert
    <3> DEFINE p == [ledger[t] EXCEPT !.sale = 1, !.comm = 1]
    <3>2. p \in EntryRecords /\ p.saleBack = ledger[t].saleBack /\ p.commBack = ledger[t].commBack
      <4>1. ledger[t] \in EntryRecords /\ 1 \in 0 .. 1
        BY <1>1, SMTT(30)
      <4> QED
        BY <4>1, Zenon DEF EntryRecords
    <3>3. ledger' = [ledger EXCEPT ![t] = p]
      BY <1>1, <3>1, Zenon
    <3> HIDE DEF p
    <3> QED
      BY <1>1, <3>2, <3>3, Zenon
  <2>7. /\ stay' \in [Stays -> StayRecords] /\ RoomSoldOnce'
        /\ \A s \in Stays : s # t => stay'[s] = stay[s] /\ Live(s)' = Live(s)
        /\ \A x \in Bookings : Undisturbed(x)' => Undisturbed(x)
        /\ desk # t /\ ReversalHolds(t) /\ stay'[t] = q
    BY <1>1, <1>5, <2>1, <2>2, <2>3, <2>4, NewStay, ZenonT(30)
  <2>8. /\ \A x \in Bookings : row[x].stay # t
        /\ \A c \in Cancellers : cancel[c].step # "idle" => cancel[c].stay # t
        /\ \A e \in InMemory : job[e].step = "made" => job[e].stay # t
    BY <1>5, <2>1, <2>2, <2>3, <2>4, NewStay, ZenonT(30)
  <2>9. /\ \A x \in Bookings : x = b => StaysOf(x)' = StaysOf(x) \cup {t}
        /\ \A x \in Bookings : x # b => StaysOf(x)' = StaysOf(x)
    BY <1>5, <2>1, <2>2, <2>3, <2>4, NewStay, ZenonT(30)
  <2>10. TypeOK'
    BY <1>1, <2>5, <2>6, <2>7, TypesNamed, TypesNext, Zenon DEF ChannelInv
  <2>11. Links'
    <3>1. ASSUME NEW e \in InMemory' PROVE JobHolds(e)'
      <4>1. JobHolds(e) /\ e \in InMemory /\ e \in Jobs
        BY <1>1, ZenonT(30) DEF ChannelInv, Links, InMemory
      <4>2. CASE e = d
        <5>1. job'[e] = r /\ e \in InMemory
          BY <1>1, <2>5, <4>1, <4>2, Zenon
        <5>2. \A f \in InMemory' \ {e} : job'[f] = job[f] /\ f \in InMemory
          BY <1>1, <2>5, <4>2, Zenon DEF InMemory
        <5>3. t \in StaysOf(b)'
          BY <2>9, Zenon
        <5>4. at[e] \notin {"asked", "queued"}
          BY <1>1, <4>2, Zenon DEF Runs
        <5> QED
          BY <1>1, <2>5, <2>8, <5>1, <5>2, <5>3, <5>4, Zenon DEF JobHolds
      <4>3. CASE e # d
        <5>1. job'[e] = job[e] /\ at'[e] = at[e]
          BY <1>1, <2>5, <4>1, <4>3, Zenon
        <5>2. job[e].step = "made" => \A f \in InMemory' \ {e} : job'[f].step = "made" => job'[f].stay # job[e].stay
          <6> SUFFICES ASSUME job[e].step = "made", NEW f \in InMemory \ {e}, job'[f].step = "made"
                       PROVE  job'[f].stay # job[e].stay
            BY <1>1, Zenon
          <6>1. CASE f = d
            BY <1>1, <2>5, <2>8, <4>1, <6>1, ZenonT(30)
          <6>2. CASE f # d
            BY <1>1, <2>5, <4>1, <6>2, ZenonT(30) DEF JobHolds, InMemory
          <6> QED
            BY <6>1, <6>2, Zenon
        <5>3. PICK y \in Bookings : y = job[e].booking
          BY <4>1, ZenonT(30) DEF JobHolds
        <5>4. job[e].step = "made" => job[e].stay \in StaysOf(y)'
          BY <2>9, <4>1, <5>3, Zenon DEF JobHolds
        <5> QED
          BY <1>1, <4>1, <5>1, <5>2, <5>3, <5>4, Zenon DEF JobHolds
      <4> QED
        BY <4>2, <4>3, Zenon
    <3> QED
      BY <1>1, <2>1, <2>3, <2>7, <2>9, <3>1, Zenon DEF ChannelInv, Links
  <2>12. Reversals'
    <3> SUFFICES ASSUME NEW s \in Stays, ~stay'[s].revived PROVE ReversalHolds(s)'
      BY Zenon DEF Reversals
    <3>1. ReversalHolds(s)
      BY <2>7, Zenon DEF ChannelInv, Reversals
    <3>2. CASE s # t
      BY <1>1, <2>6, <2>7, <3>1, <3>2, ReversalKept, Zenon
    <3>3. CASE s = t
      <4>1. ledger'[t].saleBack = 0 /\ ledger'[t].commBack = 0
        BY <2>1, <2>6, <3>1, <3>3, Zenon DEF ReversalHolds
      <4>2. ledger'[t].saleBack <= ledger'[t].sale /\ ledger'[t].commBack <= ledger'[t].comm
        BY <2>6, <4>1, SMTT(30) DEF EntryRecords
      <4> QED
        BY <1>1, <2>1, <2>3, <2>7, <3>1, <3>3, <4>1, <4>2, ZenonT(30) DEF ReversalHolds, Past
    <3> QED
      BY <3>2, <3>3, Zenon
  <2>13. OnceEach'
    <3> SUFFICES ASSUME NEW x \in Bookings, Undisturbed(x)' PROVE BookingHolds(x)'
      BY Zenon DEF OnceEach
    <3>1. BookingHolds(x)
      BY <2>7, Zenon DEF ChannelInv, OnceEach
    <3>2. InProgress(x)' = InProgress(x)
      BY <1>1, <1>3, <2>5, Zenon DEF InProgress, InMemory
    <3>3. CASE x = b
      <4>1. InProgress(x) = {d}
        BY <1>1, <1>3, <3>1, <3>3, Zenon DEF InProgress, BookingHolds
      <4>2. job'[d] = r
        BY <1>1, <2>5, Zenon
      <4>3. \A s \in StaysOf(x) : ~Live(s)
        BY <1>1, <3>1, <4>1, ZenonT(30) DEF BookingHolds
      <4>4. \A s \in StaysOf(x)' : Live(s)' => s = t
        BY <2>7, <2>9, <4>3, ZenonT(30) DEF StaysOf
      <4>5. row[x].status # "processed" /\ \A c \in Cancellers : cancel[c].booking = x => cancel[c].step \notin Past
        BY <3>1, <4>1, ZenonT(30) DEF BookingHolds
      <4>6. InProgress(x)' = {d} /\ row'[x].status # "processed"
        BY <1>1, <3>2, <4>1, <4>5, Zenon
      <4>7. \A s \in StaysOf(x)' : Live(s)' => job'[d].step = "made" /\ s = job'[d].stay
        BY <2>5, <4>2, <4>4, Zenon
      <4>8. \A c \in Cancellers : cancel'[c].booking = x => cancel'[c].step \notin Past
        BY <1>1, <4>5, Zenon
      <4> QED
        BY <4>6, <4>7, <4>8, Zenon DEF BookingHolds, Past
    <3>4. CASE x # b
      <4>1. \A e \in InProgress(x) : job'[e] = job[e]
        BY <1>1, <1>3, <2>5, <3>4, Zenon DEF InProgress, InMemory
      <4>2. \A s \in StaysOf(x)' : Live(s)' => s \in StaysOf(x) /\ Live(s)
        BY <2>1, <2>7, <2>9, <3>4, Zenon DEF StaysOf
      <4> QED
        BY <1>1, <3>1, <3>2, <4>1, <4>2, BookingKept, ZenonT(30)
    <3> QED
      BY <3>3, <3>4, Zenon
  <2> QED
    BY <2>7, <2>10, <2>11, <2>12, <2>13, Zenon DEF ChannelInv
<1> QED
  BY <1>4, <1>5, Zenon

=============================================================================
