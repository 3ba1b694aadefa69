---------------------------- MODULE ChannelProofs ---------------------------
(***************************************************************************)
(* Reservations from booking channels, continued: the cancellations, and    *)
(* what the invariant of DeliveryProofs says.  For any number of            *)
(* deliveries, bookings, rooms and cancellations a room is sold once, a     *)
(* booking holds one live stay, and what is cancelled is reversed once.     *)
(***************************************************************************)
EXTENDS DeliveryProofs

(* A cancellation takes a step: what is not about reversals.                 *)
LEMMA CancelMoves ==
  ASSUME ChannelInv, PoolInv', NEW c \in Cancellers, NEW q \in CancelRecords,
         cancel' = [cancel EXCEPT ![c] = q], q.step # "idle", q.booking \in Bookings,
         q.stay \in StaysOf(q.booking),
         \A d \in InMemory : job[d].step = "made" => job[d].stay # q.stay,
         q.step \in Past =>
             cancel[c].step \in Past /\ q.booking = cancel[c].booking /\ q.stay = cancel[c].stay,
         UNCHANGED <<pool, row, job, stay, desk, disturbed>>,
         ledger' \in [Stays -> EntryRecords], room' \in [Rooms -> {"available", "occupied"}]
  PROVE  TypeOK' /\ RoomSoldOnce' /\ Links' /\ OnceEach'
<1>1. /\ cancel \in [Cancellers -> CancelRecords] /\ InMemory' = InMemory /\ at' = at
  BY TypesNamed, Zenon DEF ChannelInv, pool, InMemory
<1>2. TypeOK'
  BY <1>1, TypesNamed, TypesNext, Zenon DEF ChannelInv
<1>3. RoomSoldOnce' /\ (\A s \in Stays : Live(s)' = Live(s))
  BY StaysKept, Zenon
<1>4. \A x \in Bookings : StaysOf(x)' = StaysOf(x)
  BY StaysKept, Zenon
<1>5. Links'
  <2>1. ASSUME NEW d \in InMemory' PROVE JobHolds(d)'
    <3>1. JobHolds(d) /\ d \in InMemory
      BY <1>1, Zenon DEF ChannelInv, Links
    <3>2. job[d].step = "made" => \A e \in Cancellers : cancel'[e].step # "idle" => cancel'[e].stay # job[d].stay
      BY <1>1, <3>1, Zenon DEF JobHolds
    <3> QED
      BY <1>1, <1>4, <3>1, <3>2, Zenon DEF JobHolds
  <2>2. \A e \in Cancellers : cancel'[e].step # "idle" =>
           cancel'[e].booking \in Bookings /\ cancel'[e].stay \in StaysOf(cancel'[e].booking)
    BY <1>1, Zenon DEF ChannelInv, Links
  <2>3. \A e \in Cancellers : cancel'[e].step = "idle" => ~cancel'[e].cut
    BY <1>1, Zenon DEF ChannelInv, Links
  <2> QED
    BY <1>4, <2>1, <2>2, <2>3, Zenon DEF ChannelInv, Links
<1>6. OnceEach'
  <2> SUFFICES ASSUME NEW x \in Bookings, Undisturbed(x)' PROVE BookingHolds(x)'
    BY Zenon DEF OnceEach
  <2>1. BookingHolds(x)
    BY <1>4, Zenon DEF ChannelInv, OnceEach, Undisturbed
  <2>2. InProgress(x)' = InProgress(x)
    BY <1>1, Zenon DEF InProgress
  <2>3. \A s \in StaysOf(x)' : Live(s)' => s \in StaysOf(x) /\ Live(s)
    BY <1>3, <1>4, Zenon DEF StaysOf
  <2>4. \A e \in Cancellers : cancel'[e].booking = x /\ cancel'[e].step \in Past =>
             cancel[e].booking = x /\ cancel[e].step \in Past /\ cancel'[e].stay = cancel[e].stay
    BY <1>1, Zenon
  <2> QED
    BY <2>1, <2>2, <2>3, <2>4, BookingKept, Zenon
<1> QED
  BY <1>2, <1>3, <1>5, <1>6, Zenon

(* A cancellation reads the stay of its booking.                            *)
LEMMA CancelReadInv ==
  ASSUME ChannelInv, PoolInv', NEW c \in Cancellers, NEW b \in Bookings, CancelRead(c, b)
  PROVE  ChannelInv'
<1> DEFINE q == [step |-> "soft", booking |-> b, stay |-> row[b].stay, cut |-> FALSE]
<1>1. /\ row \in [Bookings -> RowRecords] /\ cancel \in [Cancellers -> CancelRecords]
      /\ room \in [Rooms -> {"available", "occupied"}] /\ ledger \in [Stays -> EntryRecords]
  BY TypesNamed, Zenon DEF ChannelInv
<1>2. row[b].stay \in StaysOf(b) /\ row[b].stay \in Stays
  BY Zenon DEF ChannelInv, Links, CancelRead, StaysOf
<1>3. /\ q \in CancelRecords /\ q.step = "soft" /\ q.booking = b /\ q.stay = row[b].stay
      /\ cancel' = [cancel EXCEPT ![c] = q] /\ cancel[c].step = "idle"
  BY <1>2, Zenon DEF CancelRead, CancelRecords, CancelSteps
<1> HIDE DEF q
<1>4. \A d \in InMemory : job[d].step = "made" => job[d].stay # q.stay
  BY <1>3, Zenon DEF ChannelInv, Links, JobHolds
<1>5. TypeOK' /\ RoomSoldOnce' /\ Links' /\ OnceEach'
  BY <1>1, <1>2, <1>3, <1>4, CancelMoves, ZenonT(30) DEF CancelRead, Past
<1>6. Reversals'
  <2> SUFFICES ASSUME NEW s \in Stays, ~stay'[s].revived PROVE ReversalHolds(s)'
    BY Zenon DEF Reversals
  <2>1. ReversalHolds(s) /\ stay' = stay /\ ledger' = ledger
    BY Zenon DEF ChannelInv, Reversals, CancelRead
  <2>2. ~cancel[c].cut /\ cancel[c].step \notin Past /\ q.step \notin Past
    BY <1>3, Zenon DEF ChannelInv, Links, Past
  <2>3. \A e \in Cancellers :
          cancel'[e].step \in Past \/ cancel[e].step \in Past \/ cancel[e].cut => cancel'[e] = cancel[e]
    BY <1>1, <1>3, <2>2, Zenon
  <2> QED
    BY <2>1, <2>3, ReversalKept, Zenon
<1> QED
  BY <1>5, <1>6, Zenon DEF ChannelInv

(* What a cancellation in state q finds in the entries p of its stay.        *)
ReversedUpTo(q, p) ==
    /\ p.saleBack <= p.sale /\ p.commBack <= p.comm
    /\ q.step \in {"look", "free", "sale"} => p.saleBack = 0 /\ p.commBack = 0
    /\ q.step = "comm" => p.commBack = 0 /\ (q.cut \/ p.saleBack = p.sale)
    /\ q.step \in {"mark", "over"} => q.cut \/ (p.saleBack = p.sale /\ p.commBack = p.comm)

(* A stay whose reversal is complete is reversed as far as its cancellation *)
(* says.                                                                    *)
LEMMA HoldsUpTo ==
  ASSUME ChannelInv, NEW c \in Cancellers, cancel[c].step \in Past, ReversalHolds(cancel[c].stay)
  PROVE  ReversedUpTo(cancel[c], ledger[cancel[c].stay])
BY Zenon DEF ReversalHolds, ReversedUpTo, Past, Nets

(* A cancellation past its reversals keeps them when it moves on.           *)
LEMMA PastReversal ==
  ASSUME NEW c \in Cancellers, cancel[c].step \in Past, NEW s \in Stays, cancel[c].stay = s, ReversalHolds(s),
         cancel \in [Cancellers -> CancelRecords], ledger \in [Stays -> EntryRecords],
         NEW q \in CancelRecords, q.step # "soft", q.step # "idle", q.stay = s,
         cancel' = [cancel EXCEPT ![c] = q],
         NEW p \in EntryRecords, ledger' = [ledger EXCEPT ![s] = p], ReversedUpTo(q, p), UNCHANGED stay
  PROVE  ReversalHolds(s)'
<1>1. stay[s].status = "cancelled" /\ \A e \in Cancellers \ {c} : cancel[e].stay = s => cancel[e].step \notin Past
  BY Zenon DEF ReversalHolds
<1>2. ledger'[s] = p /\ cancel'[c] = q /\ \A e \in Cancellers \ {c} : cancel'[e] = cancel[e]
  BY Zenon
<1>3. q.step \in Past \/ q.step = "over"
  BY Zenon DEF CancelRecords, CancelSteps, Past
<1>4. ASSUME NEW d \in Cancellers, cancel'[d].stay = s, cancel'[d].step \in Past
      PROVE  d = c
  BY <1>1, <1>2, <1>4, Zenon
<1>5. (p.saleBack = p.sale /\ p.commBack = p.comm) \/ q.step \in Past \/ q.cut
  BY <1>3, Zenon DEF ReversedUpTo
<1>6. Nets(s)' \/ \E d \in Cancellers : cancel'[d].stay = s /\ (cancel'[d].step \in Past \/ cancel'[d].cut)
  BY <1>2, <1>5, Zenon DEF Nets
<1>7. ASSUME NEW d \in Cancellers, cancel'[d].stay = s, cancel'[d].step \in Past
      PROVE  /\ \A e \in Cancellers \ {d} : cancel'[e].stay = s => cancel'[e].step \notin Past
             /\ cancel'[d].step \in {"look", "free", "sale"} =>
                   ledger'[s].saleBack = 0 /\ ledger'[s].commBack = 0
             /\ cancel'[d].step = "comm" =>
                   ledger'[s].commBack = 0 /\ (cancel'[d].cut \/ ledger'[s].saleBack = ledger'[s].sale)
             /\ cancel'[d].step = "mark" => cancel'[d].cut \/ Nets(s)'
  BY <1>2, <1>4, <1>7, Zenon DEF ReversedUpTo, Nets
<1> QED
  BY <1>1, <1>2, <1>6, <1>7, Zenon DEF ReversalHolds, ReversedUpTo, Past

(* Look, free the room, reverse one entry, fail one of these statements.     *)
LEMMA PastAdvances ==
  ASSUME ChannelInv, PoolInv', NEW c \in Cancellers, cancel[c].step \in Past,
         NEW q \in CancelRecords, q.step # "soft", q.step # "idle",
         q.booking = cancel[c].booking, q.stay = cancel[c].stay, cancel' = [cancel EXCEPT ![c] = q],
         NEW p \in EntryRecords, ledger' = [ledger EXCEPT ![cancel[c].stay] = p],
         ReversedUpTo(cancel[c], ledger[cancel[c].stay]) => ReversedUpTo(q, p),
         UNCHANGED <<pool, row, job, stay, desk, disturbed>>,
         room' \in [Rooms -> {"available", "occupied"}]
  PROVE  ChannelInv'
<1>1. cancel \in [Cancellers -> CancelRecords] /\ ledger \in [Stays -> EntryRecords]
  BY TypesNamed, Zenon DEF ChannelInv
<1>2. PICK t \in Stays : t = cancel[c].stay
  BY Zenon DEF ChannelInv, Links, StaysOf, Past
<1>3. ledger' = [ledger EXCEPT ![t] = p] /\ ledger' \in [Stays -> EntryRecords]
  BY <1>1, <1>2, Zenon
<1>4. q.booking \in Bookings /\ q.stay \in StaysOf(q.booking) /\ q.stay = t
  BY <1>2, Zenon DEF ChannelInv, Links, Past
<1>5. \A d \in InMemory : job[d].step = "made" => job[d].stay # q.stay
  BY Zenon DEF ChannelInv, Links, JobHolds, Past
<1>6. TypeOK' /\ RoomSoldOnce' /\ Links' /\ OnceEach'
  BY <1>3, <1>4, <1>5, CancelMoves, Zenon
<1>7. Reversals'
  <2> SUFFICES ASSUME NEW s \in Stays, ~stay'[s].revived PROVE ReversalHolds(s)'
    BY Zenon DEF Reversals
  <2>1. ReversalHolds(s)
    BY Zenon DEF ChannelInv, Reversals
  <2>2. CASE s = t
    <3>1. ReversedUpTo(q, p)
      BY <1>2, <2>1, <2>2, HoldsUpTo, Zenon
    <3> QED
      BY <1>1, <1>2, <1>3, <1>4, <2>1, <2>2, <3>1, PastReversal, Zenon
  <2>3. CASE s # t
    <3>1. ledger'[s] = ledger[s] /\ stay' = stay
      BY <1>1, <1>3, <2>3, Zenon
    <3>2. \A e \in Cancellers : cancel'[e].stay = s \/ cancel[e].stay = s => cancel'[e] = cancel[e]
      BY <1>1, <1>2, <1>4, <2>3, Zenon
    <3> QED
      BY <2>1, <3>1, <3>2, ReversalKept, Zenon
  <2> QED
    BY <2>2, <2>3, Zenon
<1> QED
  BY <1>6, <1>7, Zenon DEF ChannelInv

(* A cancellation looks for the stay, and frees its room.                   *)
LEMMA LookAndFreeInv ==
  ASSUME ChannelInv, PoolInv', NEW c \in Cancellers, CancelLook(c) \/ CancelFree(c)
  PROVE  ChannelInv'
<1>1. /\ cancel \in [Cancellers -> CancelRecords] /\ ledger \in [Stays -> EntryRecords]
      /\ room \in [Rooms -> {"available", "occupied"}] /\ cancel[c].step \in {"look", "free"}
  BY TypesNamed, Zenon DEF ChannelInv, CancelLook, CancelFree
<1>2. PICK st \in {"sale", "free"} : cancel' = [cancel EXCEPT ![c].step = st]
  BY Zenon DEF CancelLook, CancelFree, CancelGoesOn
<1> DEFINE q == [cancel[c] EXCEPT !.step = st]
<1>3. /\ q \in CancelRecords /\ q.step = st /\ q.booking = cancel[c].booking /\ q.stay = cancel[c].stay
      /\ q.cut = cancel[c].cut /\ cancel' = [cancel EXCEPT ![c] = q]
  BY <1>1, <1>2, Zenon DEF CancelRecords, CancelSteps
<1> HIDE DEF q
<1>4. PICK p \in EntryRecords : p = ledger[cancel[c].stay] /\ ledger' = [ledger EXCEPT ![cancel[c].stay] = p]
  <2>1. cancel[c].stay \in Stays
    BY <1>1, Zenon DEF ChannelInv, Links, StaysOf
  <2> QED
    BY <1>1, <2>1, SMTT(30) DEF CancelLook, CancelFree
<1>5. ReversedUpTo(cancel[c], p) => ReversedUpTo(q, p)
  BY <1>1, <1>3, Zenon DEF ReversedUpTo
<1>6. UNCHANGED <<pool, row, job, stay, desk, disturbed>> /\ room' \in [Rooms -> {"available", "occupied"}]
  BY <1>1, Zenon DEF CancelLook, CancelFree, CancelGoesOn
<1>7. cancel[c].step \in Past /\ q.step # "soft" /\ q.step # "idle"
  BY <1>1, <1>3, Zenon DEF Past
<1> QED
  BY <1>3, <1>4, <1>5, <1>6, <1>7, PastAdvances, Zenon

(* A cancellation reverses the sale and the commission.                     *)
LEMMA ReverseInv ==
  ASSUME ChannelInv, PoolInv', NEW c \in Cancellers, ReverseSale(c) \/ ReverseCommission(c)
  PROVE  ChannelInv'
<1>1. /\ cancel \in [Cancellers -> CancelRecords] /\ ledger \in [Stays -> EntryRecords]
      /\ room \in [Rooms -> {"available", "occupied"}] /\ cancel[c].step \in {"sale", "comm"}
  BY TypesNamed, Zenon DEF ChannelInv, ReverseSale, ReverseCommission
<1>2. PICK t \in Stays : t = cancel[c].stay
  BY <1>1, Zenon DEF ChannelInv, Links, StaysOf
<1>3. /\ ledger[t] \in EntryRecords /\ ledger[t].saleBack + ledger[t].sale \in Nat
      /\ ledger[t].commBack + ledger[t].comm \in Nat
  BY <1>1, SMTT(30) DEF EntryRecords
<1>4. PICK q \in CancelRecords :
        /\ q.step = (IF cancel[c].step = "sale" THEN "comm" ELSE "mark")
        /\ q.booking = cancel[c].booking /\ q.stay = cancel[c].stay /\ q.cut = cancel[c].cut
        /\ cancel' = [cancel EXCEPT ![c] = q]
  <2> DEFINE q == [cancel[c] EXCEPT !.step = IF cancel[c].step = "sale" THEN "comm" ELSE "mark"]
  <2>1. /\ q \in CancelRecords /\ q.step = (IF cancel[c].step = "sale" THEN "comm" ELSE "mark")
        /\ q.booking = cancel[c].booking /\ q.stay = cancel[c].stay /\ q.cut = cancel[c].cut
    BY <1>1, Zenon DEF CancelRecords, CancelSteps
  <2>2. cancel' = [cancel EXCEPT ![c] = q]
    BY <1>1, Zenon DEF ReverseSale, ReverseCommission, CancelGoesOn
  <2> HIDE DEF q
  <2> QED
    BY <2>1, <2>2, Zenon
<1>5. PICK p \in EntryRecords :
        /\ ledger' = [ledger EXCEPT ![t] = p] /\ p.sale = ledger[t].sale /\ p.comm = ledger[t].comm
        /\ IF cancel[c].step = "sale"
           THEN p.saleBack = ledger[t].saleBack + ledger[t].sale /\ p.commBack = ledger[t].commBack
           ELSE p.commBack = ledger[t].commBack + ledger[t].comm /\ p.saleBack = ledger[t].saleBack
  <2>1. CASE cancel[c].step = "sale"
    <3>1. PICK n \in Nat : n = ledger[t].saleBack + ledger[t].sale
      BY <1>3, Zenon
    <3> DEFINE p == [ledger[t] EXCEPT !.saleBack = n]
    <3>2. /\ p \in EntryRecords /\ p.sale = ledger[t].sale /\ p.comm = ledger[t].comm
          /\ p.saleBack = n /\ p.commBack = ledger[t].commBack
      BY <1>3, Zenon DEF EntryRecords
    <3>3. ledger' = [ledger EXCEPT ![t] = p]
      BY <1>1, <1>2, <2>1, <3>1, Zenon DEF ReverseSale, ReverseCommission
    <3> HIDE DEF p
    <3> QED
      BY <2>1, <3>1, <3>2, <3>3, Zenon
  <2>2. CASE cancel[c].step = "comm"
    <3>1. PICK n \in Nat : n = ledger[t].commBack + ledger[t].comm
      BY <1>3, Zenon
    <3> DEFINE p == [ledger[t] EXCEPT !.commBack = n]
    <3>2. /\ p \in EntryRecords /\ p.sale = ledger[t].sale /\ p.comm = ledger[t].comm
          /\ p.commBack = n /\ p.saleBack = ledger[t].saleBack
      BY <1>3, Zenon DEF EntryRecords
    <3>3. ledger' = [ledger EXCEPT ![t] = p]
      BY <1>1, <1>2, <2>2, <3>1, Zenon DEF ReverseSale, ReverseCommission
    <3> HIDE DEF p
    <3> QED
      BY <2>2, <3>1, <3>2, <3>3, Zenon
  <2> QED
    BY <1>1, <2>1, <2>2, Zenon
<1>6. ReversedUpTo(cancel[c], ledger[t]) => ReversedUpTo(q, p)
  <2> SUFFICES ASSUME ReversedUpTo(cancel[c], ledger[t]) PROVE ReversedUpTo(q, p)
    BY Zenon
  <2>1. ledger[t].sale \in Nat /\ ledger[t].comm \in Nat
    BY <1>3, SMTT(30) DEF EntryRecords
  <2>2. CASE cancel[c].step = "sale"
    <3>1. ledger[t].saleBack = 0 /\ ledger[t].commBack = 0
      BY <2>2, Zenon DEF ReversedUpTo
    <3>2. p.saleBack = p.sale /\ p.commBack = 0 /\ q.step = "comm" /\ p.saleBack <= p.sale /\ p.commBack <= p.comm
      BY <1>4, <1>5, <2>1, <2>2, <3>1, SMTT(30)
    <3> QED
      BY <3>2, Zenon DEF ReversedUpTo
  <2>3. CASE cancel[c].step = "comm"
    <3>1. ledger[t].commBack = 0 /\ (cancel[c].cut \/ ledger[t].saleBack = ledger[t].sale)
      BY <2>3, Zenon DEF ReversedUpTo
    <3>2. /\ p.commBack = p.comm /\ (q.cut \/ p.saleBack = p.sale) /\ q.step = "mark"
          /\ p.saleBack <= p.sale /\ p.commBack <= p.comm
      <4>1. ledger[t].saleBack <= ledger[t].sale
        BY Zenon DEF ReversedUpTo
      <4> QED
        BY <1>4, <1>5, <2>1, <2>3, <3>1, <4>1, SMTT(30)
    <3> QED
      BY <3>2, Zenon DEF ReversedUpTo
  <2> QED
    BY <1>1, <2>2, <2>3, Zenon
<1>7. UNCHANGED <<pool, row, job, stay, room, desk, disturbed>>
  BY Zenon DEF ReverseSale, ReverseCommission, CancelGoesOn
<1>8. cancel[c].step \in Past /\ q.step # "soft" /\ q.step # "idle"
  BY <1>1, <1>4, Zenon DEF Past
<1> QED
  BY <1>1, <1>2, <1>4, <1>5, <1>6, <1>7, <1>8, PastAdvances, Zenon

(* A statement of a cancellation fails and the error is dropped.            *)
LEMMA StatementFailsInv ==
  ASSUME ChannelInv, PoolInv', NEW c \in Cancellers, StatementFails(c)
  PROVE  ChannelInv'
<1> DEFINE S == cancel[c].step
<1>1. /\ cancel \in [Cancellers -> CancelRecords] /\ ledger \in [Stays -> EntryRecords]
      /\ room \in [Rooms -> {"available", "occupied"}]
      /\ S \in {"soft", "look", "free", "sale", "comm", "mark"}
  <2>1. S \in {"soft", "look", "free", "sale", "comm", "mark"}
    BY Zenon DEF StatementFails, AfterFailure
  <2> QED
    BY <2>1, TypesNamed, Zenon DEF ChannelInv
<1>2. UNCHANGED <<pool, row, job, stay, room, ledger, desk, disturbed>>
  BY Zenon DEF StatementFails
<1>3. AfterFailure[S] = (IF S \in {"soft", "mark"} THEN "over" ELSE IF S = "comm" THEN "mark"
                         ELSE IF S = "sale" THEN "comm" ELSE "sale")
  <2>1. CASE S \in {"soft", "look", "free"}
    BY <2>1, SMTT(30) DEF AfterFailure
  <2>2. CASE S \in {"sale", "comm", "mark"}
    BY <2>2, SMTT(30) DEF AfterFailure
  <2> QED
    BY <1>1, <2>1, <2>2, Zenon
<1>4. PICK q \in CancelRecords :
        /\ q.step = (IF S \in {"soft", "mark"} THEN "over" ELSE IF S = "comm" THEN "mark"
                     ELSE IF S = "sale" THEN "comm" ELSE "sale")
        /\ q.booking = cancel[c].booking /\ q.stay = cancel[c].stay
        /\ q.cut = (cancel[c].cut \/ S \in {"sale", "comm"}) /\ cancel' = [cancel EXCEPT ![c] = q]
  <2>1. PICK st \in CancelSteps : st = AfterFailure[S]
    BY <1>1, <1>3, Zenon DEF CancelSteps
  <2>2. PICK k \in BOOLEAN : k = (cancel[c].cut \/ S \in {"sale", "comm"})
    BY Zenon
  <2> DEFINE q == [cancel[c] EXCEPT !.step = st, !.cut = k]
  <2>3. /\ q \in CancelRecords /\ q.step = st /\ q.cut = k
        /\ q.booking = cancel[c].booking /\ q.stay = cancel[c].stay
    BY <1>1, Zenon DEF CancelRecords
  <2>4. cancel' = [cancel EXCEPT ![c] = q]
    BY <1>1, <2>1, <2>2, Zenon DEF StatementFails
  <2> HIDE DEF q
  <2> QED
    BY <1>3, <2>1, <2>2, <2>3, <2>4, Zenon
<1>5. PICK t \in Stays : t = cancel[c].stay /\ t \in StaysOf(cancel[c].booking) /\ cancel[c].booking \in Bookings
  BY <1>1, Zenon DEF ChannelInv, Links, StaysOf
<1>6. CASE S = "soft"
  <2>1. \A d \in InMemory : job[d].step = "made" => job[d].stay # q.stay
    BY <1>4, <1>6, Zenon DEF ChannelInv, Links, JobHolds
  <2>2. TypeOK' /\ RoomSoldOnce' /\ Links' /\ OnceEach'
    BY <1>1, <1>2, <1>4, <1>5, <1>6, <2>1, CancelMoves, Zenon DEF Past
  <2>3. Reversals'
    <3> SUFFICES ASSUME NEW s \in Stays, ~stay'[s].revived PROVE ReversalHolds(s)'
      BY Zenon DEF Reversals
    <3>1. ReversalHolds(s)
      BY <1>2, Zenon DEF ChannelInv, Reversals
    <3>2. \A e \in Cancellers : e # c => cancel'[e] = cancel[e]
      BY <1>1, <1>4, Zenon
    <3>3. /\ cancel'[c].stay = cancel[c].stay /\ cancel'[c].cut = cancel[c].cut
          /\ cancel'[c].step \notin Past /\ cancel[c].step \notin Past
      BY <1>1, <1>4, <1>6, Zenon DEF Past, CancelRecords
    <3> QED
      BY <1>2, <3>1, <3>2, <3>3, ReversalKept, Zenon
  <2> QED
    BY <2>2, <2>3, Zenon DEF ChannelInv
<1>7. CASE S # "soft"
  <2>1. PICK p \in EntryRecords : p = ledger[t] /\ ledger' = [ledger EXCEPT ![t] = p]
    BY <1>1, <1>2, <1>5, Zenon
  <2>2. ReversedUpTo(cancel[c], p) => ReversedUpTo(q, p)
    BY <1>1, <1>4, <1>7, Zenon DEF ReversedUpTo
  <2>3. cancel[c].step \in Past /\ q.step # "soft" /\ q.step # "idle"
    BY <1>1, <1>4, <1>7, Zenon DEF Past
  <2> QED
    BY <1>1, <1>2, <1>4, <1>5, <2>1, <2>2, <2>3, PastAdvances, Zenon
<1> QED
  BY <1>6, <1>7, Zenon

(* The row is marked cancelled: no delivery of the booking is in progress,   *)
(* and the stay that was the live one is cancelled.                          *)
LEMMA MarkCancelledInv ==
  ASSUME ChannelInv, PoolInv', NEW c \in Cancellers, MarkCancelled(c)
  PROVE  ChannelInv'
<1>1. /\ cancel \in [Cancellers -> CancelRecords] /\ row \in [Bookings -> RowRecords]
      /\ cancel[c].step = "mark" /\ InMemory' = InMemory /\ at' = at
      /\ UNCHANGED <<pool, job, stay, room, ledger, desk, disturbed>>
  BY TypesNamed, Zenon DEF ChannelInv, MarkCancelled, CancelGoesOn, InMemory, pool
<1>2. PICK b \in Bookings : b = cancel[c].booking /\ cancel[c].stay \in StaysOf(b) /\ cancel[c].stay \in Stays
  BY <1>1, Zenon DEF ChannelInv, Links, StaysOf
<1>3. /\ row' \in [Bookings -> RowRecords] /\ row'[b].status = "cancelled"
      /\ \A x \in Bookings : row'[x].stay = row[x].stay /\ (x # b => row'[x] = row[x])
  <2>1. row' = [row EXCEPT ![b].status = "cancelled"]
    BY <1>2, Zenon DEF MarkCancelled
  <2> QED
    BY <1>1, <2>1, Zenon DEF RowRecords, RowStatuses
<1>4. /\ cancel' \in [Cancellers -> CancelRecords] /\ cancel'[c].step = "over"
      /\ \A e \in Cancellers : /\ cancel'[e].stay = cancel[e].stay /\ cancel'[e].booking = cancel[e].booking
                               /\ cancel'[e].cut = cancel[e].cut
      /\ \A e \in Cancellers : e # c => cancel'[e] = cancel[e]
  <2>1. cancel' = [cancel EXCEPT ![c].step = "over"]
    BY Zenon DEF MarkCancelled, CancelGoesOn
  <2> QED
    BY <1>1, <2>1, Zenon DEF CancelRecords, CancelSteps
<1>5. TypeOK'
  BY <1>1, <1>3, <1>4, TypesNamed, TypesNext, Zenon DEF ChannelInv
<1>6. RoomSoldOnce' /\ (\A s \in Stays : Live(s)' = Live(s))
  BY <1>1, StaysKept, Zenon
<1>7. \A x \in Bookings : StaysOf(x)' = StaysOf(x)
  BY <1>1, StaysKept, Zenon
<1>8. \A e \in Cancellers : cancel'[e].step # "idle" <=> cancel[e].step # "idle"
  BY <1>1, <1>4, Zenon
<1>9. Links'
  <2>1. Links /\ (\A x \in Cancellers : cancel'[x].step = "idle" => cancel'[x].cut = cancel[x].cut)
    BY <1>4, Zenon DEF ChannelInv
  <2>2. /\ desk' # None => desk' \in Stays /\ stay'[desk'].status # "absent"
        /\ \A s \in Stays : stay'[s].status = "absent" => ~stay'[s].revived
    BY <1>1, <2>1, Zenon DEF Links
  <2> QED
    BY <1>1, <1>3, <1>4, <1>7, <1>8, <2>1, <2>2, LinksKept, Zenon
<1>10. Reversals'
  <2> SUFFICES ASSUME NEW s \in Stays, ~stay'[s].revived PROVE ReversalHolds(s)'
    BY Zenon DEF Reversals
  <2>1. ReversalHolds(s)
    BY <1>1, Zenon DEF ChannelInv, Reversals
  <2>2. CASE s = cancel[c].stay
    <3>1. Nets(s) \/ cancel[c].cut
      BY <1>1, <2>1, <2>2, Zenon DEF ReversalHolds, Past
    <3>2. Nets(s)' \/ cancel'[c].cut
      BY <1>1, <1>4, <3>1, Zenon DEF Nets
    <3>3. \A e \in Cancellers : cancel'[e].stay = s => cancel'[e].step \notin Past
      BY <1>1, <1>4, <2>1, <2>2, Zenon DEF ReversalHolds, Past
    <3>4. stay'[s].status # "cancelled" => ledger'[s].saleBack = 0 /\ ledger'[s].commBack = 0
      BY <1>1, <2>1, Zenon DEF ReversalHolds
    <3> QED
      BY <1>1, <1>4, <2>1, <2>2, <3>2, <3>3, <3>4, Zenon DEF ReversalHolds, Past
  <2>3. CASE s # cancel[c].stay
    BY <1>1, <1>4, <2>1, <2>3, ReversalKept, Zenon
  <2> QED
    BY <2>2, <2>3, Zenon
<1>11. OnceEach'
  <2> SUFFICES ASSUME NEW x \in Bookings, Undisturbed(x)' PROVE BookingHolds(x)'
    BY Zenon DEF OnceEach
  <2>1. BookingHolds(x) /\ Undisturbed(x)
    BY <1>1, <1>7, Zenon DEF ChannelInv, OnceEach, Undisturbed
  <2>2. InProgress(x)' = InProgress(x)
    BY <1>1, Zenon DEF InProgress
  <2>3. \A s \in StaysOf(x)' : Live(s)' => s \in StaysOf(x) /\ Live(s)
    BY <1>6, <1>7, Zenon DEF StaysOf
  <2>4. CASE x = b
    <3>1. row[b].status = "processed" /\ row[b].stay = cancel[c].stay
      BY <1>1, <1>2, <2>1, <2>4, Zenon DEF BookingHolds, Past
    <3>2. InProgress(x) = {}
      BY <2>1, <2>4, <3>1, Zenon DEF BookingHolds
    <3>3. ReversalHolds(cancel[c].stay)
      BY <1>2, <2>1, <2>4, Zenon DEF ChannelInv, Reversals, Undisturbed
    <3>4. stay[cancel[c].stay].status = "cancelled" /\
          \A e \in Cancellers \ {c} : cancel[e].stay = cancel[c].stay => cancel[e].step \notin Past
      BY <1>1, <3>3, ZenonT(30) DEF ReversalHolds, Past
    <3>5. \A s \in StaysOf(x) : ~Live(s)
      BY <2>1, <2>4, <3>1, <3>2, <3>4, Zenon DEF BookingHolds, Live
    <3>6. \A e \in Cancellers : cancel'[e].booking = x => cancel'[e].step \notin Past
      <4> SUFFICES ASSUME NEW e \in Cancellers, cancel'[e].booking = x, cancel'[e].step \in Past PROVE FALSE
        BY Zenon
      <4>1. e # c
        BY <1>4, Zenon DEF Past
      <4>2. cancel[e].booking = x /\ cancel[e].step \in Past
        BY <1>4, <4>1, Zenon
      <4> QED
        BY <2>1, <2>4, <3>1, <3>4, <4>1, <4>2, Zenon DEF BookingHolds
    <3> QED
      BY <2>2, <2>3, <3>2, <3>5, <3>6, Zenon DEF BookingHolds, Past
  <2>5. CASE x # b
    <3>1. \A e \in Cancellers : cancel'[e].booking = x => e # c /\ cancel'[e] = cancel[e]
      BY <1>2, <1>4, <2>5, Zenon
    <3> QED
      BY <1>1, <1>3, <2>1, <2>2, <2>3, <2>5, <3>1, BookingKept, Zenon
  <2> QED
    BY <2>4, <2>5, Zenon
<1> QED
  BY <1>5, <1>6, <1>9, <1>10, <1>11, Zenon DEF ChannelInv

(* The soft-cancel: the stay was the live one of its booking, or cancelled.  *)
LEMMA SoftCancelInv ==
  ASSUME ChannelInv, PoolInv', NEW c \in Cancellers, SoftCancelStay(c)
  PROVE  ChannelInv'
<1>1. /\ cancel \in [Cancellers -> CancelRecords] /\ stay \in [Stays -> StayRecords]
      /\ cancel[c].step = "soft" /\ InMemory' = InMemory /\ at' = at
      /\ UNCHANGED <<pool, row, job, room, ledger, desk, disturbed>>
  BY TypesNamed, Zenon DEF ChannelInv, SoftCancelStay, CancelGoesOn, InMemory, pool
<1>2. PICK b \in Bookings : b = cancel[c].booking /\ cancel[c].stay \in StaysOf(b) /\ cancel[c].stay \in Stays
  BY <1>1, Zenon DEF ChannelInv, Links, StaysOf
<1>3. PICK t \in Stays : t = cancel[c].stay /\ t \in StaysOf(b)
  BY <1>2, Zenon
<1>4. /\ stay' \in [Stays -> StayRecords] /\ stay'[t].status = "cancelled"
      /\ \A s \in Stays : /\ stay'[s].booking = stay[s].booking /\ stay'[s].room = stay[s].room
                          /\ stay'[s].revived = stay[s].revived
      /\ \A s \in Stays : s # t => stay'[s] = stay[s]
  <2>1. stay' = [stay EXCEPT ![t].status = "cancelled"]
    BY <1>3, Zenon DEF SoftCancelStay
  <2> QED
    BY <1>1, <2>1, Zenon DEF StayRecords
<1>5. /\ cancel' \in [Cancellers -> CancelRecords]
      /\ cancel'[c].step = (IF stay[t].status = "cancelled" THEN "over" ELSE "look")
      /\ \A e \in Cancellers : /\ cancel'[e].stay = cancel[e].stay /\ cancel'[e].booking = cancel[e].booking
                               /\ cancel'[e].cut = cancel[e].cut
      /\ \A e \in Cancellers : e # c => cancel'[e] = cancel[e]
  <2>1. PICK st \in {"over", "look"} : /\ cancel' = [cancel EXCEPT ![c].step = st]
                                       /\ st = (IF stay[t].status = "cancelled" THEN "over" ELSE "look")
    BY <1>3, Zenon DEF SoftCancelStay, CancelGoesOn
  <2> QED
    BY <1>1, <2>1, Zenon DEF CancelRecords, CancelSteps
<1>6. TypeOK'
  BY <1>1, <1>4, <1>5, TypesNamed, TypesNext, Zenon DEF ChannelInv
<1>7. stay[t].status # "absent" /\ \A s \in Stays : stay'[s].status = "absent" <=> stay[s].status = "absent"
  BY <1>3, <1>4, Zenon DEF StaysOf
<1>8. \A s \in Stays : Live(s)' => Live(s) /\ s # t
  BY <1>4, Zenon DEF Live
<1>9. \A x \in Bookings : StaysOf(x)' = StaysOf(x)
  BY <1>4, <1>7, Zenon DEF StaysOf
<1>10. RoomSoldOnce'
  BY <1>4, <1>8, SMTT(30) DEF ChannelInv, RoomSoldOnce
<1>11. \A e \in Cancellers : cancel'[e].step # "idle" <=> cancel[e].step # "idle"
  BY <1>1, <1>5, Zenon
<1>12. Links'
  <2>1. Links /\ (\A x \in Cancellers : cancel'[x].step = "idle" => cancel'[x].cut = cancel[x].cut)
    BY <1>5, Zenon DEF ChannelInv
  <2>2. /\ desk' # None => desk' \in Stays /\ stay'[desk'].status # "absent"
        /\ \A s \in Stays : stay'[s].status = "absent" => ~stay'[s].revived
    BY <1>1, <1>4, <1>7, <2>1, Zenon DEF Links
  <2> QED
    BY <1>1, <1>5, <1>9, <1>11, <2>1, <2>2, LinksKept, Zenon
<1>13. Reversals'
  <2> SUFFICES ASSUME NEW s \in Stays, ~stay'[s].revived PROVE ReversalHolds(s)'
    BY Zenon DEF Reversals
  <2>1. ReversalHolds(s) /\ ledger' = ledger
    BY <1>1, <1>4, Zenon DEF ChannelInv, Reversals
  <2>2. CASE s # t
    BY <1>1, <1>3, <1>4, <1>5, <2>1, <2>2, ReversalKept, ZenonT(30)
  <2>3. CASE s = t /\ stay[t].status = "cancelled"
    <3>1. \A e \in Cancellers : cancel'[e].step \in Past \/ cancel[e].step \in Past => e # c /\ cancel'[e] = cancel[e]
      BY <1>1, <1>5, <2>3, Zenon DEF Past
    <3>2. stay'[s].status = stay[s].status
      BY <1>4, <2>3, Zenon
    <3> QED
      BY <1>5, <2>1, <3>1, <3>2, ReversalKept, Zenon
  <2>4. CASE s = t /\ stay[t].status # "cancelled"
    <3>1. /\ ledger'[s].saleBack = 0 /\ ledger'[s].commBack = 0 /\ stay'[s].status = "cancelled"
          /\ \A e \in Cancellers \ {c} : cancel'[e].stay = s => cancel'[e].step \notin Past
      BY <1>4, <1>5, <2>1, <2>4, Zenon DEF ReversalHolds
    <3>2. cancel'[c].step = "look" /\ cancel'[c].stay = s
      BY <1>3, <1>5, <2>4, Zenon
    <3>3. ledger'[s].saleBack <= ledger'[s].sale /\ ledger'[s].commBack <= ledger'[s].comm
      BY <2>1, ZenonT(30) DEF ReversalHolds
    <3> QED
      BY <3>1, <3>2, <3>3, Zenon DEF ReversalHolds, Past
  <2> QED
    BY <2>2, <2>3, <2>4, Zenon
<1>14. OnceEach'
  <2> SUFFICES ASSUME NEW x \in Bookings, Undisturbed(x)' PROVE BookingHolds(x)'
    BY Zenon DEF OnceEach
  <2>1. BookingHolds(x) /\ Undisturbed(x)
    BY <1>1, <1>4, <1>9, Zenon DEF ChannelInv, OnceEach, Undisturbed, StaysOf
  <2>2. InProgress(x)' = InProgress(x)
    BY <1>1, Zenon DEF InProgress
  <2>3. \A s \in StaysOf(x)' : Live(s)' => s \in StaysOf(x) /\ Live(s)
    BY <1>8, <1>9, Zenon DEF StaysOf
  <2>4. CASE x = b /\ stay[t].status # "cancelled"
    <3>1. Live(t)
      BY <1>1, <1>7, <2>4, ZenonT(30) DEF Live, StayRecords
    <3>2. InProgress(x) = {}
      <4> SUFFICES ASSUME NEW d \in InProgress(x) PROVE FALSE
        BY Zenon
      <4>1. job[d].step = "made" /\ t = job[d].stay
        BY <1>3, <2>1, <2>4, <3>1, Zenon DEF BookingHolds
      <4> QED
        BY <1>1, <1>3, <4>1, Zenon DEF ChannelInv, Links, JobHolds, InProgress
    <3>3. row[x].status = "processed" /\ row[x].stay = t
      BY <1>3, <2>1, <2>4, <3>1, <3>2, Zenon DEF BookingHolds
    <3>4. \A s \in StaysOf(x)' : ~Live(s)'
      BY <1>8, <1>9, <2>1, <2>4, <3>2, <3>3, ZenonT(30) DEF BookingHolds, StaysOf
    <3>5. \A e \in Cancellers : cancel'[e].booking = x /\ cancel'[e].step \in Past => cancel'[e].stay = t
      BY <1>3, <1>5, <2>1, <3>3, ZenonT(30) DEF BookingHolds
    <3> QED
      BY <1>1, <2>2, <3>2, <3>3, <3>4, <3>5, ZenonT(30) DEF BookingHolds, Past
  <2>5. CASE x # b \/ stay[t].status = "cancelled"
    <3>1. \A e \in Cancellers : cancel'[e].booking = x /\ cancel'[e].step \in Past => e # c /\ cancel'[e] = cancel[e]
      BY <1>2, <1>5, <2>5, Zenon DEF Past
    <3> QED
      BY <1>1, <2>1, <2>2, <2>3, <3>1, BookingKept, ZenonT(30)
  <2> QED
    BY <2>4, <2>5, Zenon
<1> QED
  BY <1>6, <1>10, <1>12, <1>13, <1>14, Zenon DEF ChannelInv

-----------------------------------------------------------------------------
(* The invariant is inductive.                                              *)
LEMMA ChannelNextInv == ChannelInv /\ [Next]_vars => ChannelInv'
<1> SUFFICES ASSUME ChannelInv, [Next]_vars PROVE ChannelInv'
  BY Zenon
<1>1. PoolInv'
  BY StepOfPool, PoolNextInv, Zenon DEF ChannelInv
<1>2. CASE ChannelStep
  BY <1>1, <1>2, IngestStoreInv, CancelReadInv, Zenon DEF ChannelStep
<1>3. ASSUME NEW d \in Jobs, JobStep(d) PROVE ChannelInv'
  BY <1>1, <1>3, ProcessPickInv, ProcessInsertInv, MarkInv, Zenon DEF JobStep
<1>4. ASSUME NEW c \in Cancellers, CancelStep(c) PROVE ChannelInv'
  BY <1>1, <1>4, SoftCancelInv, LookAndFreeInv, ReverseInv, MarkCancelledInv, StatementFailsInv,
     Zenon
  DEF CancelStep
<1>5. CASE /\ UNCHANGED data
           /\ \/ (\E d \in Jobs : SubmitOrRun(d)) \/ PoolStep \/ Signal \/ CloseJobs \/ Shutdown
              \/ UNCHANGED pool
  BY <1>1, <1>5, PoolSteps, Zenon
<1>6. CASE ProcessEnds
  BY <1>1, <1>6, ProcessEndsInv, Zenon
<1>7. CASE (\E r \in Rooms : DeskBooks(r)) \/ (\E s \in Stays : CheckInRead(s)) \/ CheckInTx
  BY <1>1, <1>7, DeskBooksInv, CheckInReadInv, CheckInTxInv, Zenon
<1>8. CASE UNCHANGED vars
  BY <1>5, <1>8, Zenon DEF vars
<1>9. ServerStep => ChannelInv'
  BY <1>3, <1>4, <1>5, Zenon DEF ServerStep, IngestSubmit
<1> QED
  BY <1>2, <1>5, <1>6, <1>7, <1>8, <1>9, Zenon DEF Next

(* The invariant holds in every reachable state.                            *)
LEMMA ChannelInvariant == Spec => []ChannelInv
<1> QED
  BY ChannelStart, ChannelNextInv, PTL DEF Spec

(* No two live stays of these nights share a room, whichever of deliveries,  *)
(* redeliveries, front desk and check-ins race for it: the constraint        *)
(* guest_stays_no_overlap decides every insert, and CheckIn looks again.     *)
THEOREM ChannelSellsRoomOnce == Spec => []RoomSoldOnce
<1>1. ChannelInv => RoomSoldOnce
  BY Zenon DEF ChannelInv
<1> QED
  BY <1>1, ChannelInvariant, PTL

(* A booking whose deliveries followed one another holds at most one live    *)
(* stay, through failures, retries, cancellation and booking anew.           *)
THEOREM ChannelBooksOnce == Spec => []OneLiveStay
<1>1. ChannelInv => OneLiveStay
  <2> SUFFICES ASSUME ChannelInv, NEW b \in Bookings \ disturbed, \A s \in StaysOf(b) : ~stay[s].revived
               PROVE  Cardinality({s \in StaysOf(b) : Live(s)}) <= 1
    BY Zenon DEF OneLiveStay
  <2> DEFINE L == {s \in StaysOf(b) : Live(s)}
  <2>1. BookingHolds(b)
    BY Zenon DEF ChannelInv, OnceEach, Undisturbed
  <2>2. \A s, o \in L : s = o
    BY <2>1, Zenon DEF BookingHolds
  <2>3. CASE L = {}
    BY <2>3, FS_EmptySet, SMTT(30)
  <2>4. CASE L # {}
    <3>1. PICK s \in L : TRUE
      BY <2>4, Zenon
    <3>2. L = {s}
      BY <2>2, <3>1, Zenon
    <3> HIDE DEF L
    <3>3. Cardinality(L) = 1
      BY <3>2, FS_Singleton, Zenon
    <3> QED
      BY <3>3, SMTT(30) DEF L
  <2> QED
    BY <2>3, <2>4, Zenon
<1> QED
  BY <1>1, ChannelInvariant, PTL

(* The entries of a cancelled stay net to zero once no cancellation of it is *)
(* in progress, unless one was cut short by a failure.                       *)
THEOREM ChannelReversalsNet == Spec => []CancelledNets
<1>1. ChannelInv => CancelledNets
  BY Zenon DEF ChannelInv, Reversals, ReversalHolds, CancelledNets, Nets, Past
<1> QED
  BY <1>1, ChannelInvariant, PTL

(* No racing cancellations reverse an entry twice, and none of a stay that   *)
(* still waits for its guest is reversed.                                    *)
THEOREM ChannelReversesOnce == Spec => []ReversedOnce
<1>1. ChannelInv => ReversedOnce
  <2> SUFFICES ASSUME ChannelInv, NEW s \in Stays, ~stay[s].revived
               PROVE  /\ ledger[s].saleBack <= ledger[s].sale /\ ledger[s].commBack <= ledger[s].comm
                      /\ (ledger[s].saleBack + ledger[s].commBack > 0 => stay[s].status # "confirmed")
    BY Zenon DEF ReversedOnce
  <2>1. ReversalHolds(s)
    BY Zenon DEF ChannelInv, Reversals
  <2>2. ledger[s] \in EntryRecords
    BY TypesNamed, Zenon DEF ChannelInv
  <2>3. /\ ledger[s].sale \in Nat /\ ledger[s].comm \in Nat
        /\ ledger[s].saleBack \in Nat /\ ledger[s].commBack \in Nat
    BY <2>2, SMTT(30) DEF EntryRecords
  <2>4. /\ ledger[s].saleBack <= ledger[s].sale /\ ledger[s].commBack <= ledger[s].comm
        /\ stay[s].status = "confirmed" => ledger[s].saleBack = 0 /\ ledger[s].commBack = 0
    BY <2>1, Zenon DEF ReversalHolds
  <2> QED
    BY <2>3, <2>4, SMTT(30)
<1> QED
  BY <1>1, ChannelInvariant, PTL
=============================================================================
