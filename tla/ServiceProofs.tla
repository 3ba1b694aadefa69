------------------------------- MODULE ServiceProofs -------------------------------
(***************************************************************************)
(* Proofs about the services around the hotel: payment gateways, the rate  *)
(* limiter, the AI gateway's breaker, the cached room lists and the pool of*)
(* database connections; for any number of callers, rooms and failures.    *)
(***************************************************************************)
EXTENDS GatewayPayment, RateLimit, AiGateway, RoomCache, ConnPool, TLAPS

LookupSteps == {"resolve", "stay"}
WorkSteps == {"payment", "occupy", "call", "undo_payment", "undo_stay", "undo_room", "note"}

Checkouts == [at : Steps, op : BookingOps \cup AgainOps \cup SettleOps \cup {"none"},
              key : LockKeys \cup {<<"none", Nobody>>}, b : Bookings \cup {Nobody},
              room : Suites \cup {Nobody}, rate : Nat, order : Orders \cup {Nobody},
              locked : BOOLEAN, seen : {"absent", "pending", "completed"}]
PaymentRows == [status : {"absent", "pending", "completed"}, amount : Nat,
                method : {"none", "checkout", "razorpay", "hold", "stripe"},
                notes : Orders \cup {Nobody}, linked : BOOLEAN]
OrderRows == {NoOrder} \cup [gateway : {"stripe", "razorpay"}, of : Bookings, amount : Nat, captured : BOOLEAN]

PayTypes ==
  /\ held \in [Bookings -> Suites \cup {Nobody}]
  /\ pay \in [Bookings -> PaymentRows]
  /\ order \in [Orders -> OrderRows]
  /\ lock \in [LockKeys -> Requests \cup {Nobody}]
  /\ req \in [Requests -> Checkouts]

(* What a request knows, by its operation and its step. *)
Shape(x) ==
  /\ x.at = "idle" => x = NoRequest
  /\ x.op = "none" => x.at = "idle"
  /\ x.op \in BookingOps => \/ x.at \in LookupSteps /\ x.b = Nobody
                            \/ x.at \in WorkSteps /\ x.b \in Bookings
  /\ x.op \in AgainOps => x.at \in {"read", "call", "note", "amend", "session"} /\ x.b \in Bookings
  /\ x.op \in SettleOps => x.at \in {"capture", "settle"} /\ x.b \in Bookings /\ x.key \notin LockKeys
  /\ x.op \in BookingOps \cup AgainOps => x.key \in LockKeys
  /\ x.at = "stay" => x.room \in Suites
  /\ x.at \in {"occupy", "call", "note", "amend"} => x.seen = "pending"

(* The two rows of a booking. *)
Absent(b) == pay[b].status = "absent"
Whole(b) == (held[b] # Nobody <=> ~Absent(b)) /\ (~Absent(b) => pay[b].linked)
Stage(at, b) ==
  /\ at = "payment" => held[b] # Nobody /\ Absent(b)
  /\ at \in {"occupy", "call", "undo_payment", "note"} => held[b] # Nobody /\ ~Absent(b) /\ pay[b].linked
  /\ at = "undo_stay" => Absent(b)
  /\ at = "undo_room" => held[b] = Nobody /\ Absent(b)

(* A request that creates booking b. *)
Makes(x, b) == x.op \in BookingOps /\ x.b = b
OneMaker == \A p, q \in Requests, b \in Bookings : Makes(req[p], b) /\ Makes(req[q], b) => p = q
BookingKnown(b) ==
  b \notin stranded =>
    /\ (\A q \in Requests : ~Makes(req[q], b)) => Whole(b)
    /\ \A q \in Requests : Makes(req[q], b) => Stage(req[q].at, b)

LocksHeld ==
  \A k \in LockKeys \ lapsed, q \in Requests :
    req[q].at # "idle" /\ req[q].key = k => req[q].locked /\ lock[k] = q

(* Orders of the gateway and what refers to them. *)
Own(o, b) == o \in Orders /\ order[o].of = b /\ order[o].gateway = "razorpay"
Claim(x) ==
  /\ x.at = "note" \/ x.op = "verify" => Own(x.order, x.b)
  /\ x.op = "verify" /\ x.at = "settle" => order[x.order].captured
Backed(b) ==
  /\ pay[b].notes # Nobody => Own(pay[b].notes, b)
  /\ pay[b].status = "completed" /\ pay[b].method = "razorpay" =>
       \E o \in Orders : Own(o, b) /\ order[o].captured

PayInv ==
  /\ PayTypes
  /\ \A q \in Requests : Shape(req[q]) /\ Claim(req[q])
  /\ OneMaker
  /\ \A b \in Bookings : BookingKnown(b) /\ Backed(b)
  /\ LocksHeld

(* A request slot that is free has the shape of a request and works on      *)
(* nothing.                                                                 *)
LEMMA NoRequestShape == NoRequest \in Checkouts /\ Shape(NoRequest) /\ NoRequest.at = "idle" /\ NoRequest.op = "none"
                        /\ NoRequest.b = Nobody
<1>1. NoRequest \in Checkouts
  BY Zenon DEF NoRequest, Checkouts, Steps
<1>2. NoRequest.at = "idle" /\ NoRequest.op = "none" /\ NoRequest.b = Nobody
  BY Zenon DEF NoRequest
<1> QED
  BY <1>1, <1>2, Zenon DEF Shape, BookingOps, AgainOps, SettleOps

(* The rows that stand for no payment and no order have their types and     *)
(* refer to nothing.                                                        *)
LEMMA NothingThere == NoPayment \in PaymentRows /\ NoOrder \in OrderRows
                      /\ NoPayment.status = "absent" /\ NoPayment.notes = Nobody /\ NoOrder.of = Nobody
BY Zenon DEF NoPayment, PaymentRows, NoOrder, OrderRows

(* A free slot claims nothing.                                              *)
LEMMA IdleClaim == Claim(NoRequest)
BY Zenon DEF Claim, NoRequest

(* Init establishes the invariant.                                          *)
LEMMA PayInitInv == PayInit => PayInv
<1> SUFFICES ASSUME PayInit PROVE PayInv
  BY Zenon
<1>1. PayTypes
  BY NoRequestShape, NothingThere, Zenon DEF PayInit, PayTypes
<1>2. \A q \in Requests : req[q] = NoRequest
  BY Zenon DEF PayInit
<1>3. \A q \in Requests : \A b : ~Makes(req[q], b)
  BY <1>2, NoRequestShape, Zenon DEF Makes, BookingOps
<1>4. \A b \in Bookings : held[b] = Nobody /\ pay[b] = NoPayment
  BY Zenon DEF PayInit
<1>5. \A b \in Bookings : BookingKnown(b) /\ Backed(b)
  BY <1>3, <1>4, NothingThere, Zenon DEF BookingKnown, Backed, Whole, Absent
<1>6. LocksHeld
  BY <1>2, NoRequestShape, Zenon DEF LocksHeld
<1> QED
  BY <1>1, <1>2, <1>3, <1>5, <1>6, NoRequestShape, IdleClaim, Zenon DEF PayInv, OneMaker

(* Writing one slot leaves the others alone.                                *)
LEMMA Slot ==
  ASSUME PayInv, NEW q \in Requests, NEW x \in Checkouts, req' = [req EXCEPT ![q] = x]
  PROVE  /\ req' \in [Requests -> Checkouts] /\ req'[q] = x
         /\ \A p \in Requests \ {q} : req'[p] = req[p]
BY Zenon DEF PayInv, PayTypes

(* What a step may do to the rows of a booking that its request does not make. *)
SameRows(b) == held'[b] = held[b] /\ (Absent(b)' <=> Absent(b)) /\ pay'[b].linked = pay[b].linked
OrdersStand ==
  \A o \in Orders : order[o].of # Nobody =>
    order'[o].of = order[o].of /\ order'[o].gateway = order[o].gateway /\ (order[o].captured => order'[o].captured)

(* How a step of request q, which becomes x, may touch booking b. *)
MayTouch(q, x, b) ==
  /\ ~Makes(req[q], b) /\ ~Makes(x, b) => SameRows(b)
  /\ Makes(req[q], b) /\ ~Makes(x, b) => b \in stranded' \/ Whole(b)'
  /\ Makes(x, b) => /\ b \in stranded' \/ Stage(x.at, b)'
                    /\ Makes(req[q], b) \/ \A p \in Requests : ~Makes(req[p], b)

(* What a booking looks like at a stage depends on its own rows only.       *)
LEMMA RowsSame ==
  ASSUME NEW b, SameRows(b)
  PROVE  (Whole(b) => Whole(b)') /\ \A at : Stage(at, b) => Stage(at, b)'
BY Zenon DEF SameRows, Whole, Stage, Absent

(* A step that touches a booking only as its request may leaves the booking *)
(* accounted for.                                                           *)
LEMMA KnownKept ==
  ASSUME PayInv, NEW q \in Requests, NEW x \in Checkouts, req' = [req EXCEPT ![q] = x],
         stranded \subseteq stranded', NEW b \in Bookings, MayTouch(q, x, b)
  PROVE  BookingKnown(b)'
<1> SUFFICES ASSUME b \notin stranded'
             PROVE  /\ (\A p \in Requests : ~Makes(req'[p], b)) => Whole(b)'
                    /\ \A p \in Requests : Makes(req'[p], b) => \A at \in Steps : at = req'[p].at => Stage(at, b)'
  <2>1. \A p \in Requests : req'[p].at \in Steps
    BY Slot, Zenon DEF Checkouts
  <2> QED
    BY <2>1, Zenon DEF BookingKnown, Makes, Stage, Absent
<1>1. /\ (\A p \in Requests : ~Makes(req[p], b)) => Whole(b) \/ b \in stranded
      /\ \A p \in Requests : Makes(req[p], b) => Stage(req[p].at, b) \/ b \in stranded
  BY Zenon DEF PayInv, BookingKnown
<1>2. req'[q] = x /\ \A p \in Requests \ {q} : req'[p] = req[p]
  BY Slot, Zenon
<1>3. \A p, r \in Requests : Makes(req[p], b) /\ Makes(req[r], b) => p = r
  BY Zenon DEF PayInv, OneMaker
<1>4. CASE Makes(x, b)
  <2>1. \A p \in Requests \ {q} : ~Makes(req'[p], b)
    BY <1>2, <1>3, <1>4, Zenon DEF MayTouch
  <2>2. Stage(x.at, b)'
    BY <1>4, Zenon DEF MayTouch
  <2>3. \A at \in Steps : at = x.at => Stage(at, b)'
    BY <2>2, Zenon
  <2> QED
    BY <1>2, <1>4, <2>1, <2>3, Zenon
<1>5. CASE ~Makes(x, b) /\ Makes(req[q], b)
  <2>1. \A p \in Requests : ~Makes(req'[p], b)
    BY <1>2, <1>3, <1>5, Zenon
  <2> QED
    BY <1>5, <2>1, Zenon DEF MayTouch
<1>6. CASE ~Makes(x, b) /\ ~Makes(req[q], b)
  <2>1. (Whole(b) => Whole(b)') /\ \A at \in Steps : Stage(at, b) => Stage(at, b)'
    BY <1>6, RowsSame, Zenon DEF MayTouch
  <2>2. \A p \in Requests : Makes(req'[p], b) => p # q /\ req'[p] = req[p] /\ Makes(req[p], b)
    BY <1>2, <1>6, Zenon
  <2>3. (\A p \in Requests : ~Makes(req'[p], b)) => \A p \in Requests : ~Makes(req[p], b)
    BY <1>2, <1>6, Zenon
  <2>4. b \notin stranded
    BY Zenon
  <2> QED
    BY <1>1, <2>1, <2>2, <2>3, <2>4, Zenon
<1> QED
  BY <1>4, <1>5, <1>6, Zenon

(* A booking is made by one request at most, after a step that starts no    *)
(* second one.                                                              *)
LEMMA OneMakerKept ==
  ASSUME PayInv, NEW q \in Requests, NEW x \in Checkouts, req' = [req EXCEPT ![q] = x],
         \A b \in Bookings : MayTouch(q, x, b)
  PROVE  OneMaker'
<1> SUFFICES ASSUME NEW p \in Requests, NEW r \in Requests, NEW b \in Bookings,
                    Makes(req'[p], b), Makes(req'[r], b)
             PROVE  p = r
  BY Zenon DEF OneMaker, Makes
<1>1. req'[q] = x /\ \A s \in Requests \ {q} : req'[s] = req[s]
  BY Slot, Zenon
<1>2. \A s, t \in Requests : Makes(req[s], b) /\ Makes(req[t], b) => s = t
  BY Zenon DEF PayInv, OneMaker
<1>3. Makes(x, b) => Makes(req[q], b) \/ \A s \in Requests : ~Makes(req[s], b)
  BY Zenon DEF MayTouch
<1> QED
  BY <1>1, <1>2, <1>3, Zenon

(* An order stays the order of its booking, and stays captured.             *)
LEMMA OwnKept ==
  ASSUME PayInv, OrdersStand, NEW o, NEW b \in Bookings, Own(o, b)
  PROVE  Own(o, b)' /\ (order[o].captured => order'[o].captured)
<1>1. b # Nobody
  BY CheckoutAssumption, Zenon
<1> QED
  BY <1>1, Zenon DEF OrdersStand, Own

(* What a request relies on outlives any step that keeps the orders.        *)
LEMMA ClaimKept ==
  ASSUME PayInv, OrdersStand, NEW x \in Checkouts, Shape(x), Claim(x)
  PROVE  Claim(x)'
<1>1. x.at = "note" \/ x.op = "verify" => x.b \in Bookings
  BY Zenon DEF Shape, Checkouts, BookingOps, AgainOps, SettleOps, LookupSteps
<1> QED
  BY <1>1, OwnKept, Zenon DEF Claim

(* A completed payment keeps its captured order while its row stands.       *)
LEMMA BackedKept ==
  ASSUME PayInv, OrdersStand, NEW b \in Bookings, pay'[b].notes = pay[b].notes, pay'[b].method = pay[b].method,
         pay'[b].status = pay[b].status
  PROVE  Backed(b)'
<1>1. Backed(b)
  BY Zenon DEF PayInv
<1> QED
  BY <1>1, OwnKept, Zenon DEF Backed

(* A step of one request that stays within its booking keeps the invariant. *)
LEMMA RequestSteps ==
  ASSUME PayInv, NEW q \in Requests, NEW x \in Checkouts, req' = [req EXCEPT ![q] = x], Shape(x), Claim(x)',
         held' \in [Bookings -> Suites \cup {Nobody}], pay' \in [Bookings -> PaymentRows],
         order' \in [Orders -> OrderRows], lock' \in [LockKeys -> Requests \cup {Nobody}], LocksHeld',
         OrdersStand, stranded \subseteq stranded',
         \A b \in Bookings : MayTouch(q, x, b), \A b \in Bookings : Backed(b)'
  PROVE  PayInv'
<1>1. /\ req' \in [Requests -> Checkouts] /\ req'[q] = x
      /\ \A p \in Requests \ {q} : req'[p] = req[p]
  BY Slot, Zenon
<1>2. ASSUME NEW p \in Requests PROVE Shape(req'[p]) /\ Claim(req[p])'
  <2>1. CASE p = q
    BY <1>1, <2>1, Zenon DEF Claim, Own
  <2>2. CASE p # q
    <3>1. req[p] \in Checkouts /\ Shape(req[p]) /\ Claim(req[p]) /\ req'[p] = req[p]
      BY <1>1, <2>2, Zenon DEF PayInv, PayTypes
    <3> DEFINE y == req[p]
    <3>2. PICK z \in Checkouts : z = req[p]
      BY <3>1, Zenon
    <3>3. Claim(z)'
      BY <3>1, <3>2, ClaimKept, Zenon
    <3> QED
      BY <3>1, <3>2, <3>3, Zenon DEF Claim, Own
  <2> QED
    BY <2>1, <2>2, Zenon
<1>3. PayTypes'
  BY <1>1, Zenon DEF PayTypes
<1>4. \A b \in Bookings : BookingKnown(b)'
  BY KnownKept, Zenon
<1>5. OneMaker'
  BY OneMakerKept, Zenon
<1>6. \A p \in Requests : (Shape(req[p]) /\ Claim(req[p]))'
  BY <1>2, Zenon DEF Shape
<1> QED
  BY <1>3, <1>4, <1>5, <1>6, Zenon DEF PayInv

(* A step that keeps the key of a request keeps the locks accounted for.    *)
LEMMA LocksMove ==
  ASSUME PayInv, NEW q \in Requests, NEW x \in Checkouts, req' = [req EXCEPT ![q] = x],
         lock' = lock, lapsed \subseteq lapsed',
         x.at # "idle" /\ x.key \in LockKeys =>
           req[q].at # "idle" /\ x.key = req[q].key /\ x.locked = req[q].locked
  PROVE  LocksHeld' /\ lock' \in [LockKeys -> Requests \cup {Nobody}]
<1>1. LocksHeld /\ lock \in [LockKeys -> Requests \cup {Nobody}]
  BY Zenon DEF PayInv, PayTypes
<1>2. req'[q] = x /\ \A p \in Requests \ {q} : req'[p] = req[p]
  BY Slot, Zenon
<1>3. LocksHeld'
  <2> SUFFICES ASSUME NEW k \in LockKeys, k \notin lapsed', NEW p \in Requests, req'[p].at # "idle", req'[p].key = k
               PROVE  req'[p].locked /\ lock'[k] = p
    BY SMTT(30) DEF LocksHeld, LockKeys
  <2>1. k \notin lapsed
    BY Zenon
  <2>2. CASE p = q
    BY <1>1, <1>2, <2>1, <2>2, SMTT(30) DEF LocksHeld
  <2>3. CASE p # q
    BY <1>1, <1>2, <2>1, <2>3, SMTT(30) DEF LocksHeld
  <2> QED
    BY <2>2, <2>3, Zenon
<1> QED
  BY <1>1, <1>3, Zenon

(* So does the deferred Delete at the end of a request.                     *)
LEMMA LocksFinish ==
  ASSUME PayInv, NEW q \in Requests, Finish(q), lapsed \subseteq lapsed'
  PROVE  LocksHeld' /\ lock' \in [LockKeys -> Requests \cup {Nobody}]
<1>1. LocksHeld /\ lock \in [LockKeys -> Requests \cup {Nobody}]
  BY Zenon DEF PayInv, PayTypes
<1>2. req' = [req EXCEPT ![q] = NoRequest]
  BY Zenon DEF Finish
<1>3. req'[q] = NoRequest /\ \A p \in Requests \ {q} : req'[p] = req[p]
  BY <1>2, Slot, NoRequestShape, Zenon
<1>4. lock' \in [LockKeys -> Requests \cup {Nobody}]
  BY <1>1, Zenon DEF Finish, Unlock
<1>5. LocksHeld'
  <2> SUFFICES ASSUME NEW k \in LockKeys, k \notin lapsed', NEW p \in Requests, req'[p].at # "idle", req'[p].key = k
               PROVE  req'[p].locked /\ lock'[k] = p
    BY Zenon DEF LocksHeld, LockKeys
  <2>1. p # q /\ req'[p] = req[p]
    BY <1>3, NoRequestShape, Zenon
  <2>2. req[p].locked /\ lock[k] = p
    BY <1>1, <2>1, Zenon DEF LocksHeld
  <2>3. req[q].locked => req[q].key # k
    <3> SUFFICES ASSUME req[q].locked, req[q].key = k PROVE FALSE
      BY Zenon
    <3>1. req[q].at = "idle" => req[q] = NoRequest
      BY Zenon DEF PayInv, Shape
    <3>2. req[q].at # "idle"
      BY <3>1, SMTT(30) DEF NoRequest
    <3>3. lock[k] = q
      BY <1>1, <3>2, Zenon DEF LocksHeld
    <3> QED
      BY <2>1, <2>2, <3>3, Zenon
  <2> QED
    BY <1>1, <2>1, <2>2, <2>3, Zenon DEF Finish, Unlock
<1> QED
  BY <1>4, <1>5, Zenon

(* A request that moves on without writing a row keeps the invariant.       *)
LEMMA QuietMove ==
  ASSUME PayInv, NEW q \in Requests, NEW x \in Checkouts, req' = [req EXCEPT ![q] = x], Shape(x), Claim(x)',
         req[q].at # "idle", x.op = req[q].op, x.b = req[q].b, x.key = req[q].key, x.locked = req[q].locked,
         held' = held, pay' = pay, lock' = lock, lapsed' = lapsed, stranded' = stranded,
         order' \in [Orders -> OrderRows], OrdersStand,
         \A b \in Bookings : Makes(x, b) /\ Stage(req[q].at, b) => Stage(x.at, b)
  PROVE  PayInv'
<1>1. LocksHeld' /\ lock' \in [LockKeys -> Requests \cup {Nobody}]
  BY LocksMove, Zenon
<1>2. ASSUME NEW b \in Bookings PROVE MayTouch(q, x, b)
  <2>1. Makes(x, b) <=> Makes(req[q], b)
    BY Zenon DEF Makes
  <2>2. Makes(req[q], b) => b \in stranded \/ Stage(req[q].at, b)
    BY Zenon DEF PayInv, BookingKnown
  <2>3. \A at \in Steps : Stage(at, b)' <=> Stage(at, b)
    BY Zenon DEF Stage, Absent
  <2>4. SameRows(b)
    BY Zenon DEF SameRows, Absent
  <2>5. x.at \in Steps
    BY Zenon DEF Checkouts
  <2>6. Stage(x.at, b) => Stage(x.at, b)'
    BY <2>3, <2>5, Zenon
  <2> QED
    BY <2>1, <2>2, <2>4, <2>6, Zenon DEF MayTouch
<1>3. \A b \in Bookings : Backed(b)'
  BY BackedKept, Zenon
<1>4. held' \in [Bookings -> Suites \cup {Nobody}] /\ pay' \in [Bookings -> PaymentRows]
  BY Zenon DEF PayInv, PayTypes
<1> QED
  BY <1>1, <1>2, <1>3, <1>4, RequestSteps, Zenon

(* Orders that do not change stand.                                         *)
LEMMA OrdersSame == ASSUME PayInv, order' = order PROVE OrdersStand /\ order' \in [Orders -> OrderRows]
BY Zenon DEF OrdersStand, PayInv, PayTypes

(* A request that ends with its booking as it should be keeps the           *)
(* invariant.                                                               *)
LEMMA FinishSteps ==
  ASSUME PayInv, NEW q \in Requests, Finish(q), lapsed' = lapsed, stranded \subseteq stranded',
         held' \in [Bookings -> Suites \cup {Nobody}], pay' \in [Bookings -> PaymentRows],
         order' \in [Orders -> OrderRows], OrdersStand,
         \A b \in Bookings : Backed(b)',
         \A b \in Bookings : ~Makes(req[q], b) => SameRows(b),
         \A b \in Bookings : Makes(req[q], b) => b \in stranded' \/ Whole(b)'
  PROVE  PayInv'
<1>1. req' = [req EXCEPT ![q] = NoRequest]
  BY Zenon DEF Finish
<1>2. LocksHeld' /\ lock' \in [LockKeys -> Requests \cup {Nobody}]
  BY LocksFinish, Zenon
<1>3. \A b : ~Makes(NoRequest, b)
  BY NoRequestShape, Zenon DEF Makes, BookingOps
<1>4. \A b \in Bookings : MayTouch(q, NoRequest, b)
  BY <1>3, Zenon DEF MayTouch
<1>5. Claim(NoRequest)'
  BY Zenon DEF Claim, NoRequest
<1>6. NoRequest \in Checkouts /\ Shape(NoRequest)
  BY NoRequestShape, Zenon
<1> HIDE DEF NoRequest
<1> QED
  BY <1>1, <1>2, <1>4, <1>5, <1>6, RequestSteps, Zenon

(* A request that ends without writing a row keeps the invariant.           *)
LEMMA QuietFinish ==
  ASSUME PayInv, NEW q \in Requests, Finish(q), lapsed' = lapsed, stranded' = stranded,
         held' = held, pay' = pay, order' \in [Orders -> OrderRows], OrdersStand,
         req[q].at \notin {"payment", "undo_stay"}
  PROVE  PayInv'
<1>1. \A b \in Bookings : SameRows(b)
  BY Zenon DEF SameRows, Absent
<1>2. \A b \in Bookings : Backed(b)'
  BY BackedKept, Zenon
<1>3. ASSUME NEW b \in Bookings, Makes(req[q], b) PROVE b \in stranded' \/ Whole(b)'
  <2>1. b \in stranded \/ Stage(req[q].at, b)
    BY <1>3, Zenon DEF PayInv, BookingKnown
  <2>2. b # Nobody
    BY CheckoutAssumption, Zenon
  <2>3. req[q].at \in WorkSteps
    BY <1>3, <2>2, Zenon DEF Makes, PayInv, Shape
  <2>4. Stage(req[q].at, b) => Whole(b)
    BY <2>3, Zenon DEF Stage, Whole, WorkSteps
  <2> QED
    BY <2>1, <2>4, Zenon DEF Whole, Absent
<1>4. held' \in [Bookings -> Suites \cup {Nobody}] /\ pay' \in [Bookings -> PaymentRows]
  BY Zenon DEF PayInv, PayTypes
<1> QED
  BY <1>1, <1>2, <1>3, <1>4, FinishSteps, Zenon

(* SetNX takes a free lock, or goes on without one when Redis cannot be     *)
(* asked.                                                                   *)
LEMMA SetNXTakes ==
  ASSUME PayInv, NEW q \in Requests, NEW start \in Checkouts, start.at # "idle", start.key \in LockKeys, SetNX(q, start)
  PROVE  /\ LocksHeld' /\ lock' \in [LockKeys -> Requests \cup {Nobody}]
         /\ \E l \in BOOLEAN : req' = [req EXCEPT ![q] = [start EXCEPT !.locked = l]]
<1>1. LocksHeld /\ lock \in [LockKeys -> Requests \cup {Nobody}]
  BY Zenon DEF PayInv, PayTypes
<1>2. CASE /\ lock[start.key] = Nobody
           /\ lock' = [lock EXCEPT ![start.key] = q]
           /\ req' = [req EXCEPT ![q] = [start EXCEPT !.locked = TRUE]]
           /\ UNCHANGED <<lapsed, payFaults>>
  <2> DEFINE x == [start EXCEPT !.locked = TRUE]
  <2>1. x \in Checkouts /\ x.locked /\ x.key = start.key
    BY Zenon DEF Checkouts
  <2>2. req' = [req EXCEPT ![q] = x]
    BY <1>2, Zenon
  <2> HIDE DEF x
  <2>3. req'[q] = x /\ \A p \in Requests \ {q} : req'[p] = req[p]
    BY <2>1, <2>2, Slot, Zenon
  <2>4. LocksHeld'
    <3> SUFFICES ASSUME NEW k \in LockKeys, k \notin lapsed', NEW p \in Requests,
                        req'[p].at # "idle", req'[p].key = k
                 PROVE  req'[p].locked /\ lock'[k] = p
      BY Zenon DEF LocksHeld, LockKeys
    <3>1. CASE p = q
      BY <1>1, <1>2, <2>1, <2>3, <3>1, Zenon
    <3>2. CASE p # q
      <4>1. req[p].locked /\ lock[k] = p
        BY <1>1, <1>2, <2>3, <3>2, SMTT(30) DEF LocksHeld
      <4>2. k # start.key
        BY <1>2, <4>1, CheckoutAssumption, Zenon
      <4> QED
        BY <1>1, <1>2, <2>3, <3>2, <4>1, <4>2, Zenon
    <3> QED
      BY <3>1, <3>2, Zenon
  <2> QED
    BY <1>1, <1>2, <2>4, Zenon
<1>3. CASE /\ PayFault
           /\ req' = [req EXCEPT ![q] = start]
           /\ lapsed' = lapsed \cup {start.key}
           /\ UNCHANGED lock
  <2>1. req'[q] = start /\ \A p \in Requests \ {q} : req'[p] = req[p]
    BY <1>3, Slot, Zenon
  <2>2. LocksHeld'
    <3> SUFFICES ASSUME NEW k \in LockKeys, k \notin lapsed', NEW p \in Requests,
                        req'[p].at # "idle", req'[p].key = k
                 PROVE  req'[p].locked /\ lock'[k] = p
      BY Zenon DEF LocksHeld, LockKeys
    <3>1. p # q
      BY <1>3, <2>1, SMTT(30)
    <3> QED
      BY <1>1, <1>3, <2>1, <3>1, SMTT(30) DEF LocksHeld
  <2>3. start.locked \in BOOLEAN /\ start = [start EXCEPT !.locked = start.locked]
    BY Zenon DEF Checkouts
  <2> QED
    BY <1>1, <1>3, <2>2, <2>3, Zenon
<1> QED
  BY <1>2, <1>3, Zenon DEF SetNX

(* A request that takes its lock, or goes on without, keeps the invariant.  *)
LEMMA Begins ==
  ASSUME PayInv, NEW q \in Requests, NEW start \in Checkouts, SetNX(q, start), req[q].at = "idle",
         \/ start.at = "resolve" /\ start.op \in BookingOps /\ start.b = Nobody
         \/ start.at = "read" /\ start.op \in AgainOps /\ start.b \in Bookings,
         start.key \in LockKeys, UNCHANGED <<suite, held, pay, remote, stranded>>
  PROVE  PayInv'
<1>1. LocksHeld' /\ lock' \in [LockKeys -> Requests \cup {Nobody}]
  BY SetNXTakes, Zenon
<1>2. PICK l \in BOOLEAN : req' = [req EXCEPT ![q] = [start EXCEPT !.locked = l]]
  BY SetNXTakes, Zenon
<1> DEFINE x == [start EXCEPT !.locked = l]
<1>3. x \in Checkouts /\ x.at = start.at /\ x.op = start.op /\ x.b = start.b /\ x.key = start.key
  BY Zenon DEF Checkouts
<1>4. req' = [req EXCEPT ![q] = x]
  BY <1>2, Zenon
<1> HIDE DEF x
<1>5. Shape(x)
  BY <1>3, Zenon DEF Shape, BookingOps, AgainOps, SettleOps, LookupSteps
<1>6. Claim(x)'
  BY <1>3, Zenon DEF Claim, BookingOps, AgainOps
<1>7. ASSUME NEW b \in Bookings PROVE MayTouch(q, x, b)
  <2>1. ~Makes(x, b)
    BY <1>3, CheckoutAssumption, Zenon DEF Makes, BookingOps, AgainOps
  <2>2. req[q] = NoRequest
    BY Zenon DEF PayInv, Shape
  <2>3. ~Makes(req[q], b)
    BY <2>2, NoRequestShape, Zenon DEF Makes, BookingOps
  <2>4. SameRows(b)
    BY Zenon DEF SameRows, Absent
  <2> QED
    BY <2>1, <2>3, <2>4, Zenon DEF MayTouch
<1>8. OrdersStand /\ order' \in [Orders -> OrderRows]
  BY OrdersSame, Zenon DEF remote
<1>9. \A b \in Bookings : Backed(b)'
  BY <1>8, BackedKept, Zenon
<1>10. held' \in [Bookings -> Suites \cup {Nobody}] /\ pay' \in [Bookings -> PaymentRows]
  BY Zenon DEF PayInv, PayTypes
<1> QED
  BY <1>1, <1>3, <1>4, <1>5, <1>6, <1>7, <1>8, <1>9, <1>10, RequestSteps, Zenon

(* The start of a booking.                                                  *)
LEMMA BeginBookingStep ==
  ASSUME PayInv, NEW q \in Requests, NEW op \in BookingOps, BeginBooking(q, op)
  PROVE  PayInv'
<1>1. PICK g \in Guests : SetNX(q, [NoRequest EXCEPT !.at = "resolve", !.op = op, !.key = <<op, g>>])
  BY Zenon DEF BeginBooking
<1> DEFINE start == [NoRequest EXCEPT !.at = "resolve", !.op = op, !.key = <<op, g>>]
<1>2. <<op, g>> \in LockKeys
  BY Zenon DEF LockKeys
<1>3. start.at = "resolve" /\ start.op = op /\ start.b = Nobody /\ start.key = <<op, g>>
  BY Zenon DEF NoRequest
<1>4. start \in Checkouts
  BY <1>2, Zenon DEF NoRequest, Checkouts, Steps
<1>5. SetNX(q, start)
  BY <1>1, Zenon
<1> HIDE DEF start
<1> QED
  BY <1>2, <1>3, <1>4, <1>5, Begins, Zenon DEF BeginBooking

(* The start of a checkout for a booking that exists.                       *)
LEMMA BeginAgainStep ==
  ASSUME PayInv, NEW q \in Requests, NEW op \in AgainOps, BeginAgain(q, op)
  PROVE  PayInv'
<1>1. PICK b \in Bookings : SetNX(q, [NoRequest EXCEPT !.at = "read", !.op = op, !.key = <<op, b>>, !.b = b])
  BY Zenon DEF BeginAgain
<1> DEFINE start == [NoRequest EXCEPT !.at = "read", !.op = op, !.key = <<op, b>>, !.b = b]
<1>2. <<op, b>> \in LockKeys
  BY Zenon DEF LockKeys
<1>3. start.at = "read" /\ start.op = op /\ start.b = b /\ start.key = <<op, b>>
  BY Zenon DEF NoRequest
<1>4. start \in Checkouts
  BY <1>2, Zenon DEF NoRequest, Checkouts, Steps
<1>5. SetNX(q, start)
  BY <1>1, Zenon
<1> HIDE DEF start
<1> QED
  BY <1>2, <1>3, <1>4, <1>5, Begins, Zenon DEF BeginAgain

(* What the invariant says of one request.                                  *)
LEMMA RequestFacts ==
  ASSUME PayInv, NEW q \in Requests
  PROVE  req[q] \in Checkouts /\ Shape(req[q]) /\ Claim(req[q])
BY Zenon DEF PayInv, PayTypes

(* The rates a lookup may answer are amounts.                               *)
LEMMA AnswersNat == \A rate \in Answers : rate \in Nat
BY CheckoutAssumption, SMTT(30) DEF Answers

(* A request goes to its next step and writes nothing.                      *)
LEMMA GoMove ==
  ASSUME PayInv, NEW q \in Requests, NEW step \in Steps \ {"idle"}, Go(q, step), req[q].at # "idle",
         held' = held, pay' = pay, lock' = lock, lapsed' = lapsed, stranded' = stranded, order' = order,
         Shape([req[q] EXCEPT !.at = step]), step # "note",
         step = "settle" /\ req[q].op = "verify" => order[req[q].order].captured,
         \A b \in Bookings : Makes(req[q], b) /\ Stage(req[q].at, b) => Stage(step, b)
  PROVE  PayInv'
<1>1. req[q] \in Checkouts /\ Claim(req[q])
  BY RequestFacts, Zenon
<1>x. PICK x \in Checkouts : x = [req[q] EXCEPT !.at = step]
  BY <1>1, Zenon DEF Checkouts
<1>2. /\ x.at = step /\ x.op = req[q].op /\ x.b = req[q].b /\ x.key = req[q].key
      /\ x.locked = req[q].locked /\ x.order = req[q].order
  BY <1>1, <1>x, Zenon DEF Checkouts
<1>3. req' = [req EXCEPT ![q] = x] /\ Shape(x)
  BY <1>x, Zenon DEF Go, PayInv, PayTypes
<1>4. OrdersStand /\ order' \in [Orders -> OrderRows]
  BY OrdersSame, Zenon
<1>5. Claim(x)'
  BY <1>1, <1>2, Zenon DEF Claim, Own
<1>6. \A b \in Bookings : Makes(x, b) /\ Stage(req[q].at, b) => Stage(x.at, b)
  BY <1>2, Zenon DEF Makes
<1> QED
  BY <1>2, <1>3, <1>4, <1>5, <1>6, QuietMove, Zenon

(* resolveBookingRoom picks a room and its rate.                            *)
LEMMA ResolveStep ==
  ASSUME PayInv, NEW q \in Requests, req[q].op \in BookingOps, resolveBookingRoom(q)
  PROVE  PayInv'
<1>0. req[q].at = "resolve" /\ held' = held /\ pay' = pay /\ lapsed' = lapsed /\ stranded' = stranded
  BY Zenon DEF resolveBookingRoom, history
<1>1. req[q] \in Checkouts /\ Shape(req[q]) /\ Claim(req[q])
  BY RequestFacts, Zenon
<1>2. CASE Finish(q) /\ order' = order
  <2>1. OrdersStand /\ order' \in [Orders -> OrderRows]
    BY <1>2, OrdersSame, Zenon
  <2> QED
    BY <1>0, <1>2, <2>1, QuietFinish, Zenon
<1>3. CASE /\ lock' = lock /\ order' = order
           /\ \E r \in Suites, rate \in Answers :
                req' = [req EXCEPT ![q].at = "stay", ![q].room = r, ![q].rate = rate]
  <2>1. PICK r \in Suites, rate \in Nat : req' = [req EXCEPT ![q].at = "stay", ![q].room = r, ![q].rate = rate]
    BY <1>3, AnswersNat, Zenon
  <2>x. PICK x \in Checkouts : x = [req[q] EXCEPT !.at = "stay", !.room = r, !.rate = rate]
    BY <1>1, Zenon DEF Checkouts, Steps
  <2>2. req' = [req EXCEPT ![q] = x]
    BY <2>1, <2>x, Zenon DEF PayInv, PayTypes
  <2>3. /\ x.at = "stay" /\ x.op = req[q].op /\ x.b = req[q].b /\ x.key = req[q].key
        /\ x.locked = req[q].locked /\ x.room = r
    BY <1>1, <2>x, Zenon DEF Checkouts
  <2>4. req[q].b = Nobody /\ req[q].key \in LockKeys
    BY <1>0, <1>1, Zenon DEF Shape, WorkSteps
  <2>5. Shape(x)
    BY <2>3, <2>4, Zenon DEF Shape, BookingOps, AgainOps, SettleOps, LookupSteps
  <2>6. Claim(x)'
    BY <2>3, Zenon DEF Claim, BookingOps
  <2>7. OrdersStand /\ order' \in [Orders -> OrderRows]
    BY <1>3, OrdersSame, Zenon
  <2>8. \A b \in Bookings : ~Makes(x, b)
    BY <2>3, <2>4, CheckoutAssumption, Zenon DEF Makes
  <2> QED
    BY <1>0, <1>3, <2>2, <2>3, <2>5, <2>6, <2>7, <2>8, QuietMove, Zenon
<1> QED
  BY <1>2, <1>3, Zenon DEF resolveBookingRoom, remote

(* The stay of a booking is inserted, or the insert fails.                  *)
LEMMA CreateStayStep ==
  ASSUME PayInv, NEW q \in Requests, req[q].op \in BookingOps, CreateStay(q)
  PROVE  PayInv'
<1>0. req[q].at = "stay" /\ pay' = pay /\ order' = order /\ lapsed' = lapsed /\ stranded' = stranded
  BY Zenon DEF CreateStay, history, remote
<1>1. req[q] \in Checkouts /\ Shape(req[q]) /\ Claim(req[q])
  BY RequestFacts, Zenon
<1>2. OrdersStand /\ order' \in [Orders -> OrderRows]
  BY <1>0, OrdersSame, Zenon
<1>3. CASE Finish(q) /\ UNCHANGED held
  BY <1>0, <1>2, <1>3, QuietFinish, Zenon
<1>4. CASE \E b \in FreshBookings : /\ held' = [held EXCEPT ![b] = req[q].room]
                                    /\ req' = [req EXCEPT ![q].at = "payment", ![q].b = b]
                                    /\ UNCHANGED lock
  <2>1. PICK b \in FreshBookings : /\ held' = [held EXCEPT ![b] = req[q].room]
                                   /\ req' = [req EXCEPT ![q].at = "payment", ![q].b = b]
                                   /\ UNCHANGED lock
    BY <1>4, Zenon
  <2>2. b \in Bookings /\ pay[b] = NoPayment /\ \A p \in Requests : ~Makes(req[p], b)
    BY Zenon DEF FreshBookings, Makes
  <2>x. PICK x \in Checkouts : x = [req[q] EXCEPT !.at = "payment", !.b = b]
    BY <1>1, <2>2, Zenon DEF Checkouts, Steps
  <2>3. req' = [req EXCEPT ![q] = x]
    BY <2>1, <2>x, Zenon DEF PayInv, PayTypes
  <2>4. /\ x.at = "payment" /\ x.op = req[q].op /\ x.b = b /\ x.key = req[q].key
        /\ x.locked = req[q].locked
    BY <1>1, <2>x, Zenon DEF Checkouts
  <2>5. req[q].b = Nobody /\ req[q].key \in LockKeys /\ req[q].room \in Suites
    BY <1>0, <1>1, Zenon DEF Shape, WorkSteps
  <2>6. Shape(x)
    BY <2>2, <2>4, <2>5, Zenon DEF Shape, BookingOps, AgainOps, SettleOps, WorkSteps
  <2>7. Claim(x)'
    BY <2>4, Zenon DEF Claim, BookingOps
  <2>8. held' \in [Bookings -> Suites \cup {Nobody}] /\ pay' \in [Bookings -> PaymentRows]
        /\ held'[b] # Nobody /\ \A c \in Bookings \ {b} : held'[c] = held[c]
    BY <1>0, <2>1, <2>2, <2>5, CheckoutAssumption, Zenon DEF PayInv, PayTypes
  <2>9. ASSUME NEW c \in Bookings PROVE MayTouch(q, x, c)
    <3>1. ~Makes(req[q], c)
      BY <2>5, CheckoutAssumption, Zenon DEF Makes
    <3>2. CASE c = b
      <4>1. Makes(x, c) /\ Stage("payment", c)'
        BY <1>0, <2>2, <2>4, <2>8, <3>2, NothingThere, Zenon DEF Makes, Stage, Absent
      <4> QED
        BY <2>2, <2>4, <3>1, <3>2, <4>1, Zenon DEF MayTouch
    <3>3. CASE c # b
      <4>1. ~Makes(x, c) /\ SameRows(c)
        BY <1>0, <2>4, <2>8, <3>3, Zenon DEF Makes, SameRows, Absent
      <4> QED
        BY <3>1, <4>1, Zenon DEF MayTouch
    <3> QED
      BY <3>2, <3>3, Zenon
  <2>10. \A c \in Bookings : Backed(c)'
    BY <1>0, <1>2, BackedKept, Zenon
  <2>11. LocksHeld' /\ lock' \in [LockKeys -> Requests \cup {Nobody}]
    BY <1>0, <2>1, <2>3, <2>4, LocksMove, Zenon
  <2> QED
    BY <1>0, <1>2, <2>3, <2>4, <2>6, <2>7, <2>8, <2>9, <2>10, <2>11, RequestSteps, Zenon
<1> QED
  BY <1>3, <1>4, Zenon DEF CreateStay

(* The room of a booking is marked occupied, or the update fails.           *)
LEMMA OccupyStep ==
  ASSUME PayInv, NEW q \in Requests, req[q].op \in BookingOps, NEW next \in {"call", "done"}, Occupy(q, next)
  PROVE  PayInv'
<1> USE DEF Occupy, history, remote
<1>1. req[q] \in Checkouts /\ Shape(req[q]) /\ Claim(req[q])
  BY RequestFacts, Zenon
<1>2. OrdersStand /\ order' \in [Orders -> OrderRows]
  BY OrdersSame, Zenon
<1>3. CASE next = "done"
  BY <1>2, <1>3, QuietFinish, Zenon
<1>4. CASE next = "call"
  <2>1. Shape([req[q] EXCEPT !.at = "call"])
    BY <1>1, Zenon DEF Shape, BookingOps, AgainOps, SettleOps, WorkSteps, LookupSteps, Checkouts
  <2>2. \A b \in Bookings : Stage("occupy", b) => Stage("call", b)
    BY Zenon DEF Stage
  <2>3. "call" \in Steps \ {"idle"} /\ Go(q, "call") /\ lock' = lock
    BY <1>4, Zenon DEF Steps
  <2> QED
    BY <2>1, <2>2, <2>3, GoMove, Zenon
<1> QED
  BY <1>3, <1>4, Zenon

(* Deleting a stay unlinks its payment and touches no other booking.        *)
LEMMA DeletedStay ==
  ASSUME PayInv, NEW b \in Bookings, DeleteStay(b)
  PROVE  /\ held' \in [Bookings -> Suites \cup {Nobody}] /\ pay' \in [Bookings -> PaymentRows] /\ held'[b] = Nobody
         /\ \A c \in Bookings : /\ c # b => held'[c] = held[c] /\ pay'[c] = pay[c]
                                /\ pay'[c].status = pay[c].status /\ pay'[c].notes = pay[c].notes
                                /\ pay'[c].method = pay[c].method
<1>1. held \in [Bookings -> Suites \cup {Nobody}] /\ pay \in [Bookings -> PaymentRows] /\ pay[b] \in PaymentRows
  BY Zenon DEF PayInv, PayTypes
<1>2. PICK r \in PaymentRows : r = [pay[b] EXCEPT !.linked = FALSE]
  BY <1>1, Zenon DEF PaymentRows
<1>3. r.status = pay[b].status /\ r.notes = pay[b].notes /\ r.method = pay[b].method
  BY <1>1, <1>2, Zenon DEF PaymentRows
<1>4. pay' = [pay EXCEPT ![b] = r]
  BY <1>1, <1>2, Zenon DEF DeleteStay
<1>5. held' \in [Bookings -> Suites \cup {Nobody}] /\ held'[b] = Nobody /\ \A c \in Bookings \ {b} : held'[c] = held[c]
  BY <1>1, Zenon DEF DeleteStay
<1> QED
  BY <1>1, <1>3, <1>4, <1>5, Zenon

(* The payment of a booking is inserted, or fails and takes the stay with   *)
(* it.                                                                      *)
LEMMA CreatePaymentStep ==
  ASSUME PayInv, NEW q \in Requests, req[q].op \in BookingOps, NEW del \in BOOLEAN, CreatePayment(q, del)
  PROVE  PayInv'
<1>1. req[q] \in Checkouts /\ Shape(req[q]) /\ Claim(req[q])
  BY RequestFacts, Zenon
<1>2. req[q].at = "payment" /\ order' = order /\ lapsed' = lapsed
  BY Zenon DEF CreatePayment, remote
<1>3. OrdersStand /\ order' \in [Orders -> OrderRows]
  BY <1>2, OrdersSame, Zenon
<1>4. req[q].b \in Bookings /\ req[q].key \in LockKeys
  BY <1>1, <1>2, Zenon DEF Shape, LookupSteps
<1>5. PICK b \in Bookings : b = req[q].b
  BY <1>4, Zenon
<1>6. \A c \in Bookings : Makes(req[q], c) <=> c = b
  BY <1>5, Zenon DEF Makes
<1>7. b \in stranded \/ (held[b] # Nobody /\ Absent(b))
  BY <1>2, <1>6, Zenon DEF PayInv, BookingKnown, Stage
<1>8. held \in [Bookings -> Suites \cup {Nobody}] /\ pay \in [Bookings -> PaymentRows]
  BY Zenon DEF PayInv, PayTypes
<1>9. CASE /\ pay' = [pay EXCEPT ![b] = [status |-> "pending", amount |-> req[q].rate, method |-> req[q].op,
                                         notes |-> Nobody, linked |-> TRUE]]
           /\ req' = [req EXCEPT ![q].at = "occupy", ![q].seen = "pending"]
           /\ UNCHANGED <<lock, held, stranded, payFaults>>
  <2>1. PICK r \in PaymentRows : r = [status |-> "pending", amount |-> req[q].rate, method |-> req[q].op,
                                       notes |-> Nobody, linked |-> TRUE]
    BY <1>1, Zenon DEF PaymentRows, Checkouts, BookingOps
  <2>2. r.status = "pending" /\ r.notes = Nobody /\ r.linked
    BY <2>1, Zenon
  <2>3. pay' = [pay EXCEPT ![b] = r]
    BY <1>9, <2>1, Zenon
  <2>4. pay' \in [Bookings -> PaymentRows] /\ pay'[b] = r /\ \A c \in Bookings \ {b} : pay'[c] = pay[c]
    BY <1>8, <2>3, Zenon
  <2>x. PICK x \in Checkouts : x = [req[q] EXCEPT !.at = "occupy", !.seen = "pending"]
    BY <1>1, Zenon DEF Checkouts, Steps
  <2>5. req' = [req EXCEPT ![q] = x]
    BY <1>9, <2>x, Zenon DEF PayInv, PayTypes
  <2>6. /\ x.at = "occupy" /\ x.op = req[q].op /\ x.b = b /\ x.key = req[q].key
        /\ x.locked = req[q].locked /\ x.seen = "pending"
    BY <1>1, <1>5, <2>x, Zenon DEF Checkouts
  <2>7. Shape(x)
    BY <1>4, <2>6, Zenon DEF Shape, BookingOps, AgainOps, SettleOps, WorkSteps
  <2>8. Claim(x)'
    BY <2>6, Zenon DEF Claim, BookingOps
  <2>9. ASSUME NEW c \in Bookings PROVE MayTouch(q, x, c) /\ Backed(c)'
    <3>1. CASE c = b
      <4>1. Makes(x, c) /\ Makes(req[q], c)
        BY <1>6, <2>6, <3>1, Zenon DEF Makes
      <4>2. c \in stranded' \/ Stage("occupy", c)'
        BY <1>7, <1>9, <2>2, <2>4, <3>1, Zenon DEF Stage, Absent
      <4>3. Backed(c)'
        BY <2>2, <2>4, <3>1, Zenon DEF Backed
      <4> QED
        BY <2>6, <4>1, <4>2, <4>3, Zenon DEF MayTouch
    <3>2. CASE c # b
      <4>1. ~Makes(x, c) /\ ~Makes(req[q], c) /\ SameRows(c)
        BY <1>6, <1>9, <2>4, <2>6, <3>2, Zenon DEF Makes, SameRows, Absent
      <4>2. Backed(c)'
        BY <1>3, <2>4, <3>2, BackedKept, Zenon
      <4> QED
        BY <4>1, <4>2, Zenon DEF MayTouch
    <3> QED
      BY <3>1, <3>2, Zenon
  <2>10. LocksHeld' /\ lock' \in [LockKeys -> Requests \cup {Nobody}]
    BY <1>2, <1>9, <2>5, <2>6, LocksMove, Zenon
  <2>11. held' \in [Bookings -> Suites \cup {Nobody}] /\ stranded \subseteq stranded'
    BY <1>8, <1>9, Zenon
  <2> QED
    BY <1>3, <2>4, <2>5, <2>7, <2>8, <2>9, <2>10, <2>11, RequestSteps, Zenon
<1>10. CASE /\ PayFault
            /\ IF del THEN DeleteStay(b) ELSE UNCHANGED <<held, pay>>
            /\ stranded' = stranded \cup {b}
            /\ Finish(q)
  <2>1. /\ held' \in [Bookings -> Suites \cup {Nobody}] /\ pay' \in [Bookings -> PaymentRows]
        /\ \A c \in Bookings : /\ c # b => held'[c] = held[c] /\ pay'[c] = pay[c]
                               /\ pay'[c].status = pay[c].status /\ pay'[c].notes = pay[c].notes
                               /\ pay'[c].method = pay[c].method
    <3>1. CASE del
      BY <1>10, <3>1, DeletedStay, Zenon
    <3>2. CASE ~del
      BY <1>8, <1>10, <3>2, Zenon
    <3> QED
      BY <3>1, <3>2, Zenon
  <2>2. \A c \in Bookings : Backed(c)'
    BY <1>3, <2>1, BackedKept, Zenon
  <2>3. \A c \in Bookings : ~Makes(req[q], c) => SameRows(c)
    BY <1>6, <2>1, Zenon DEF SameRows, Absent
  <2>4. \A c \in Bookings : Makes(req[q], c) => c \in stranded'
    BY <1>6, <1>10, Zenon
  <2>5. Finish(q) /\ stranded \subseteq stranded'
    BY <1>10, Zenon
  <2> QED
    BY <1>2, <1>3, <2>1, <2>2, <2>3, <2>4, <2>5, FinishSteps, Zenon
<1> QED
  BY <1>5, <1>9, <1>10, Zenon DEF CreatePayment

(* A new order at a gateway leaves the others as they are.                  *)
LEMMA NewOrder ==
  ASSUME PayInv, OrderLeft, NEW r \in OrderRows, order' = [order EXCEPT ![FreshOrder] = r]
  PROVE  /\ FreshOrder \in Orders /\ OrdersStand /\ order' \in [Orders -> OrderRows] /\ order'[FreshOrder] = r
<1>1. FreshOrder \in Orders /\ order[FreshOrder] = NoOrder
  BY Zenon DEF OrderLeft, FreshOrder
<1>2. order \in [Orders -> OrderRows]
  BY Zenon DEF PayInv, PayTypes
<1> HIDE DEF FreshOrder
<1> QED
  BY <1>1, <1>2, NothingThere, Zenon DEF OrdersStand

(* A call to a gateway that fails sends a booking to its undo and ends any  *)
(* other request.                                                           *)
LEMMA CallFails ==
  ASSUME PayInv, NEW q \in Requests, NEW failed,
         \/ req[q].op \in BookingOps /\ failed = "undo_payment" /\ req[q].at = "call"
         \/ failed = "done" /\ req[q].at \in {"call", "session"},
         IF failed = "done" THEN Finish(q) ELSE Go(q, failed) /\ UNCHANGED lock,
         held' = held, pay' = pay, lapsed' = lapsed, stranded' = stranded, order' = order
  PROVE  PayInv'
<1>1. req[q] \in Checkouts /\ Shape(req[q]) /\ Claim(req[q])
  BY RequestFacts, Zenon
<1>2. OrdersStand /\ order' \in [Orders -> OrderRows]
  BY OrdersSame, Zenon
<1>3. CASE failed = "done"
  BY <1>2, <1>3, QuietFinish, Zenon
<1>4. CASE failed = "undo_payment"
  <2>1. Shape([req[q] EXCEPT !.at = "undo_payment"])
    BY <1>1, <1>4, Zenon
       DEF Shape, BookingOps, AgainOps, SettleOps, WorkSteps, LookupSteps, Checkouts
  <2>2. \A b \in Bookings : Stage("call", b) => Stage("undo_payment", b)
    BY Zenon DEF Stage
  <2>3. "undo_payment" \in Steps \ {"idle"} /\ Go(q, "undo_payment") /\ lock' = lock
    BY <1>4, Zenon DEF Steps
  <2> QED
    BY <1>4, <2>1, <2>2, <2>3, GoMove, Zenon
<1> QED
  BY <1>3, <1>4, Zenon

(* createRazorpayOrder answers with a new order, or fails.                  *)
LEMMA RazorpayOrderStep ==
  ASSUME PayInv, NEW q \in Requests, NEW failed, req[q].at = "call",
         \/ req[q].op \in BookingOps /\ failed = "undo_payment"
         \/ req[q].op \in AgainOps /\ failed = "done",
         createRazorpayOrder(q, failed), UNCHANGED <<suite, held, pay, fx, active, history>>
  PROVE  PayInv'
<1>1. req[q] \in Checkouts /\ Shape(req[q]) /\ Claim(req[q])
  BY RequestFacts, Zenon
<1>2. held' = held /\ pay' = pay /\ lapsed' = lapsed /\ stranded' = stranded
  BY Zenon DEF history
<1>3. req[q].b \in Bookings /\ req[q].key \in LockKeys /\ req[q].rate \in Nat /\ req[q].seen = "pending"
  BY <1>1, Zenon DEF Shape, LookupSteps, Checkouts
<1>4. CASE /\ OrderLeft
           /\ order' = [order EXCEPT ![FreshOrder] =
                    [gateway |-> "razorpay", of |-> req[q].b, amount |-> req[q].rate, captured |-> FALSE]]
           /\ req' = [req EXCEPT ![q].at = "note", ![q].order = FreshOrder]
           /\ UNCHANGED lock
  <2>1. PICK r \in OrderRows : r = [gateway |-> "razorpay", of |-> req[q].b, amount |-> req[q].rate, captured |-> FALSE]
    BY <1>3, Zenon DEF OrderRows
  <2>2. r.gateway = "razorpay" /\ r.of = req[q].b
    BY <2>1, Zenon
  <2>3. FreshOrder \in Orders /\ OrdersStand /\ order' \in [Orders -> OrderRows] /\ order'[FreshOrder] = r
    BY <1>4, <2>1, NewOrder, Zenon
  <2>4. PICK o \in Orders : o = FreshOrder
    BY <2>3, Zenon
  <2>x. PICK x \in Checkouts : x = [req[q] EXCEPT !.at = "note", !.order = o]
    BY <1>1, Zenon DEF Checkouts, Steps
  <2>5. req' = [req EXCEPT ![q] = x]
    BY <1>4, <2>4, <2>x, Zenon DEF PayInv, PayTypes
  <2>6. /\ x.at = "note" /\ x.op = req[q].op /\ x.b = req[q].b /\ x.key = req[q].key
        /\ x.locked = req[q].locked /\ x.seen = "pending" /\ x.order = o
    BY <1>1, <1>3, <2>x, Zenon DEF Checkouts
  <2>7. Shape(x)
    BY <1>3, <2>6, Zenon DEF Shape, BookingOps, AgainOps, SettleOps, WorkSteps
  <2>8. Claim(x)'
    BY <2>2, <2>3, <2>4, <2>6, Zenon DEF Claim, Own, BookingOps, AgainOps
  <2>9. \A b \in Bookings : Stage(req[q].at, b) => Stage(x.at, b)
    BY <2>6, Zenon DEF Stage
  <2> QED
    BY <1>2, <1>4, <2>3, <2>5, <2>6, <2>7, <2>8, <2>9, QuietMove, Zenon
<1>5. CASE /\ IF failed = "done" THEN Finish(q) ELSE Go(q, failed) /\ UNCHANGED lock
           /\ UNCHANGED order
  BY <1>1, <1>2, <1>5, CallFails, Zenon
<1> QED
  BY <1>4, <1>5, Zenon DEF createRazorpayOrder

(* createStripeSession answers with a new session, or fails.                *)
LEMMA StripeSessionStep ==
  ASSUME PayInv, NEW q \in Requests, NEW failed,
         \/ req[q].op \in BookingOps /\ failed = "undo_payment" /\ req[q].at = "call"
         \/ req[q].op \in AgainOps /\ failed = "done" /\ req[q].at = "session",
         createStripeSession(q, failed), UNCHANGED <<suite, held, pay, fx, active, history>>
  PROVE  PayInv'
<1>1. req[q] \in Checkouts /\ Shape(req[q]) /\ Claim(req[q])
  BY RequestFacts, Zenon
<1>2. held' = held /\ pay' = pay /\ lapsed' = lapsed /\ stranded' = stranded
  BY Zenon DEF history
<1>3. req[q].b \in Bookings /\ req[q].rate \in Nat
  BY <1>1, Zenon DEF Shape, LookupSteps, Checkouts
<1>4. CASE /\ OrderLeft
           /\ order' = [order EXCEPT ![FreshOrder] = [gateway |-> "stripe", of |-> req[q].b,
                            amount |-> req[q].rate, captured |-> FALSE]]
           /\ Finish(q)
  <2>1. [gateway |-> "stripe", of |-> req[q].b, amount |-> req[q].rate, captured |-> FALSE] \in OrderRows
    BY <1>3, ZenonT(30) DEF OrderRows
  <2>2. OrdersStand /\ order' \in [Orders -> OrderRows]
    BY <1>4, <2>1, NewOrder, ZenonT(30)
  <2> QED
    BY <1>2, <1>4, <2>2, QuietFinish, ZenonT(30)
<1>5. CASE Finish(q) /\ UNCHANGED order
  <2>1. OrdersStand /\ order' \in [Orders -> OrderRows]
    BY <1>5, OrdersSame, Zenon
  <2> QED
    BY <1>2, <1>5, <2>1, QuietFinish, ZenonT(30)
<1>6. CASE /\ IF failed = "done" THEN Finish(q) ELSE Go(q, failed) /\ UNCHANGED lock
           /\ UNCHANGED order
  BY <1>1, <1>2, <1>6, CallFails, Zenon
<1> QED
  BY <1>4, <1>5, <1>6, Zenon DEF createStripeSession

(* A booking undone by one step more keeps the invariant.                   *)
LEMMA GoSteps ==
  ASSUME PayInv, NEW q \in Requests, NEW step \in Steps \ {"idle", "note", "settle"}, Go(q, step), req[q].at # "idle",
         Shape([req[q] EXCEPT !.at = step]), lock' = lock, lapsed' = lapsed, order' = order,
         stranded \subseteq stranded', held' \in [Bookings -> Suites \cup {Nobody}],
         pay' \in [Bookings -> PaymentRows], \A b \in Bookings : Backed(b)',
         \A b \in Bookings : ~Makes(req[q], b) => SameRows(b),
         \A b \in Bookings : Makes(req[q], b) => b \in stranded' \/ Stage(step, b)'
  PROVE  PayInv'
<1>1. req[q] \in Checkouts /\ Claim(req[q])
  BY RequestFacts, Zenon
<1>x. PICK x \in Checkouts : x = [req[q] EXCEPT !.at = step]
  BY <1>1, Zenon DEF Checkouts
<1>2. /\ x.at = step /\ x.op = req[q].op /\ x.b = req[q].b /\ x.key = req[q].key
      /\ x.locked = req[q].locked /\ x.order = req[q].order
  BY <1>1, <1>x, Zenon DEF Checkouts
<1>3. req' = [req EXCEPT ![q] = x] /\ Shape(x)
  BY <1>x, Zenon DEF Go, PayInv, PayTypes
<1>4. OrdersStand /\ order' \in [Orders -> OrderRows]
  BY OrdersSame, Zenon
<1>5. Claim(x)'
  BY <1>1, <1>2, Zenon DEF Claim, Own
<1>6. \A b \in Bookings : MayTouch(q, x, b)
  BY <1>2, Zenon DEF MayTouch, Makes
<1>7. LocksHeld' /\ lock' \in [LockKeys -> Requests \cup {Nobody}]
  BY <1>2, <1>3, LocksMove, Zenon
<1> QED
  BY <1>3, <1>4, <1>5, <1>6, <1>7, RequestSteps, Zenon

(* The payment of a failed booking is deleted, or the deletion fails.       *)
LEMMA UndoPaymentStep ==
  ASSUME PayInv, NEW q \in Requests, req[q].op \in BookingOps, UndoPayment(q)
  PROVE  PayInv'
<1>1. req[q] \in Checkouts /\ Shape(req[q]) /\ Claim(req[q])
  BY RequestFacts, Zenon
<1>2. /\ req[q].at = "undo_payment" /\ order' = order /\ lapsed' = lapsed /\ lock' = lock /\ held' = held
      /\ Go(q, "undo_stay") /\ stranded \subseteq stranded'
  BY Zenon DEF UndoPayment, remote
<1>3. PICK b \in Bookings : b = req[q].b
  BY <1>1, <1>2, Zenon DEF Shape, LookupSteps
<1>4. \A c \in Bookings : Makes(req[q], c) <=> c = b
  BY <1>3, Zenon DEF Makes
<1>5. held \in [Bookings -> Suites \cup {Nobody}] /\ pay \in [Bookings -> PaymentRows]
  BY Zenon DEF PayInv, PayTypes
<1>6. OrdersStand
  BY <1>2, OrdersSame, Zenon
<1>7. /\ pay' \in [Bookings -> PaymentRows] /\ \A c \in Bookings \ {b} : pay'[c] = pay[c]
      /\ pay'[b] = NoPayment \/ (pay'[b] = pay[b] /\ b \in stranded')
  BY <1>3, <1>5, NothingThere, Zenon DEF UndoPayment
<1>8. ASSUME NEW c \in Bookings PROVE Backed(c)'
  <2>1. CASE pay'[c] = pay[c]
    BY <1>6, <2>1, BackedKept, Zenon
  <2>2. CASE pay'[c] = NoPayment
    BY <2>2, NothingThere, Zenon DEF Backed
  <2> QED
    BY <1>7, <2>1, <2>2, Zenon
<1>9. \A c \in Bookings : ~Makes(req[q], c) => SameRows(c)
  BY <1>2, <1>4, <1>7, Zenon DEF SameRows, Absent
<1>10. \A c \in Bookings : Makes(req[q], c) => c \in stranded' \/ Stage("undo_stay", c)'
  BY <1>4, <1>7, NothingThere, Zenon DEF Stage, Absent
<1>11. Shape([req[q] EXCEPT !.at = "undo_stay"])
  BY <1>1, <1>2, Zenon DEF Shape, BookingOps, AgainOps, SettleOps, WorkSteps, LookupSteps, Checkouts
<1>12. "undo_stay" \in Steps \ {"idle", "note", "settle"}
  BY Zenon DEF Steps
<1> QED
  BY <1>2, <1>5, <1>7, <1>8, <1>9, <1>10, <1>11, <1>12, GoSteps, Zenon

(* The stay of a failed booking is deleted, or the deletion fails.          *)
LEMMA UndoStayStep ==
  ASSUME PayInv, NEW q \in Requests, req[q].op \in BookingOps, UndoStay(q)
  PROVE  PayInv'
<1>1. req[q] \in Checkouts /\ Shape(req[q]) /\ Claim(req[q])
  BY RequestFacts, Zenon
<1>2. /\ req[q].at = "undo_stay" /\ order' = order /\ lapsed' = lapsed /\ lock' = lock
      /\ Go(q, "undo_room") /\ stranded \subseteq stranded'
  BY Zenon DEF UndoStay, remote
<1>3. PICK b \in Bookings : b = req[q].b
  BY <1>1, <1>2, Zenon DEF Shape, LookupSteps
<1>4. \A c \in Bookings : Makes(req[q], c) <=> c = b
  BY <1>3, Zenon DEF Makes
<1>5. held \in [Bookings -> Suites \cup {Nobody}] /\ pay \in [Bookings -> PaymentRows]
  BY SMTT(30) DEF PayInv, PayTypes
<1>6. OrdersStand
  BY <1>2, OrdersSame, Zenon
<1>7. /\ held' \in [Bookings -> Suites \cup {Nobody}] /\ pay' \in [Bookings -> PaymentRows]
      /\ held'[b] = Nobody \/ b \in stranded'
      /\ \A c \in Bookings : /\ c # b => held'[c] = held[c] /\ pay'[c] = pay[c]
                             /\ pay'[c].status = pay[c].status /\ pay'[c].notes = pay[c].notes
                             /\ pay'[c].method = pay[c].method
  <2>1. CASE DeleteStay(b)
    BY <2>1, DeletedStay, Zenon
  <2>2. CASE stranded' = stranded \cup {b} /\ UNCHANGED <<held, pay>>
    BY <1>5, <2>2, Zenon
  <2> QED
    BY <1>3, <2>1, <2>2, Zenon DEF UndoStay
<1>8. \A c \in Bookings : Backed(c)'
  BY <1>6, <1>7, BackedKept, Zenon
<1>9. \A c \in Bookings : ~Makes(req[q], c) => SameRows(c)
  BY <1>4, <1>7, Zenon DEF SameRows, Absent
<1>10. Absent(b) \/ b \in stranded
  BY <1>2, <1>4, Zenon DEF PayInv, BookingKnown, Stage
<1>11. \A c \in Bookings : Makes(req[q], c) => c \in stranded' \/ Stage("undo_room", c)'
  BY <1>2, <1>4, <1>7, <1>10, Zenon DEF Stage, Absent
<1>12. Shape([req[q] EXCEPT !.at = "undo_room"])
  BY <1>1, <1>2, Zenon DEF Shape, BookingOps, AgainOps, SettleOps, WorkSteps, LookupSteps, Checkouts
<1>13. "undo_room" \in Steps \ {"idle", "note", "settle"}
  BY Zenon DEF Steps
<1> QED
  BY <1>2, <1>7, <1>8, <1>9, <1>11, <1>12, <1>13, GoSteps, Zenon

(* The room of a failed booking is freed.                                   *)
LEMMA UndoRoomStep ==
  ASSUME PayInv, NEW q \in Requests, UndoRoom(q)
  PROVE  PayInv'
<1>1. OrdersStand /\ order' \in [Orders -> OrderRows]
  BY OrdersSame, Zenon DEF UndoRoom, remote
<1> QED
  BY <1>1, QuietFinish, Zenon DEF UndoRoom

(* UpdateAmountAndNotes changes one payment, and notes only an order of its *)
(* booking.                                                                 *)
LEMMA Updated ==
  ASSUME PayInv, NEW q \in Requests, NEW b \in Bookings, b = req[q].b, NEW method \in {"razorpay", "stripe"},
         NEW notes \in Orders \cup {Nobody}, UpdateAmountAndNotes(q, method, notes), OrdersStand,
         notes # Nobody => Own(notes, b)'
  PROVE  /\ pay' \in [Bookings -> PaymentRows]
         /\ \A c \in Bookings : (Absent(c)' <=> Absent(c)) /\ pay'[c].linked = pay[c].linked /\ Backed(c)'
<1>1. pay \in [Bookings -> PaymentRows] /\ pay[b] \in PaymentRows /\ req[q].rate \in Nat
  BY Zenon DEF PayInv, PayTypes, Checkouts
<1>2. PICK n \in Nat : n = req[q].rate
  BY <1>1, Zenon
<1>3. PICK r \in PaymentRows :
        r = IF pay[b].status = "absent" THEN pay[b]
            ELSE [pay[b] EXCEPT !.amount = n, !.method = method, !.status = "pending", !.notes = notes]
  BY <1>1, Zenon DEF PaymentRows
<1>4. pay' = [pay EXCEPT ![b] = r]
  BY <1>1, <1>2, <1>3, Zenon DEF UpdateAmountAndNotes
<1>5. /\ r.status = "absent" <=> pay[b].status = "absent"
      /\ r.linked = pay[b].linked
      /\ r = pay[b] \/ (r.status = "pending" /\ r.notes = notes)
  BY <1>1, <1>3, Zenon DEF PaymentRows
<1>6. pay' \in [Bookings -> PaymentRows] /\ pay'[b] = r /\ \A c \in Bookings \ {b} : pay'[c] = pay[c]
  BY <1>1, <1>4, Zenon
<1>7. ASSUME NEW c \in Bookings
      PROVE  (Absent(c)' <=> Absent(c)) /\ pay'[c].linked = pay[c].linked /\ Backed(c)'
  <2>1. (Absent(c)' <=> Absent(c)) /\ pay'[c].linked = pay[c].linked
    BY <1>5, <1>6, Zenon DEF Absent
  <2>2. CASE pay'[c] = pay[c]
    BY <2>1, <2>2, BackedKept, Zenon
  <2>3. CASE c = b /\ r.status = "pending" /\ r.notes = notes
    BY <1>6, <2>1, <2>3, Zenon DEF Backed
  <2> QED
    BY <1>5, <1>6, <2>2, <2>3, Zenon
<1> QED
  BY <1>6, <1>7, Zenon

(* The new order is noted on the payment.                                   *)
LEMMA NoteStep ==
  ASSUME PayInv, NEW q \in Requests, req[q].op \in BookingOps \cup AgainOps, Note(q)
  PROVE  PayInv'
<1>1. req[q] \in Checkouts /\ Shape(req[q]) /\ Claim(req[q])
  BY RequestFacts, Zenon
<1>2. /\ req[q].at = "note" /\ order' = order /\ lapsed' = lapsed /\ stranded' = stranded /\ held' = held
      /\ Finish(q)
  BY Zenon DEF Note, remote
<1>3. OrdersStand /\ order' \in [Orders -> OrderRows]
  BY <1>2, OrdersSame, Zenon
<1>4. PICK b \in Bookings : b = req[q].b
  BY <1>1, <1>2, Zenon DEF Shape, LookupSteps, BookingOps, AgainOps
<1>5. PICK o \in Orders : o = req[q].order /\ Own(o, b)
  BY <1>1, <1>2, <1>4, Zenon DEF Claim, Own
<1>6. Own(o, b)'
  BY <1>3, <1>5, OwnKept, Zenon
<1>7. held \in [Bookings -> Suites \cup {Nobody}] /\ pay \in [Bookings -> PaymentRows]
  BY Zenon DEF PayInv, PayTypes
<1>8. /\ pay' \in [Bookings -> PaymentRows]
      /\ \A c \in Bookings : (Absent(c)' <=> Absent(c)) /\ pay'[c].linked = pay[c].linked /\ Backed(c)'
  <2>1. CASE UpdateAmountAndNotes(q, "razorpay", o)
    BY <1>3, <1>4, <1>6, <2>1, Updated, Zenon
  <2>2. CASE pay' = pay
    <3>1. \A c \in Bookings : Backed(c)'
      BY <1>3, <2>2, BackedKept, Zenon
    <3> QED
      BY <1>7, <2>2, <3>1, Zenon DEF Absent
  <2> QED
    BY <1>5, <2>1, <2>2, Zenon DEF Note
<1>9. \A c \in Bookings : SameRows(c)
  BY <1>2, <1>8, Zenon DEF SameRows
<1>10. ASSUME NEW c \in Bookings, Makes(req[q], c) PROVE c \in stranded' \/ Whole(c)'
  <2>1. c \in stranded \/ Stage("note", c)
    BY <1>2, <1>10, Zenon DEF PayInv, BookingKnown
  <2>2. Stage("note", c) => Whole(c)
    BY Zenon DEF Stage, Whole
  <2>3. Whole(c) => Whole(c)'
    BY <1>9, RowsSame, Zenon
  <2> QED
    BY <1>2, <2>1, <2>2, <2>3, Zenon
<1>11. held' \in [Bookings -> Suites \cup {Nobody}] /\ stranded \subseteq stranded'
  BY <1>2, <1>7, Zenon
<1> QED
  BY <1>2, <1>3, <1>8, <1>9, <1>10, <1>11, FinishSteps, Zenon

(* A repeated checkout reads the payment, and the stay if it needs it.      *)
LEMMA ReadPaymentStep ==
  ASSUME PayInv, NEW q \in Requests, req[q].op \in AgainOps, NEW needsStay \in BOOLEAN, NEW next \in {"call", "amend"},
         ReadPayment(q, needsStay, next)
  PROVE  PayInv'
<1>1. req[q] \in Checkouts /\ Shape(req[q]) /\ Claim(req[q])
  BY RequestFacts, Zenon
<1>2. /\ req[q].at = "read" /\ order' = order /\ lapsed' = lapsed /\ stranded' = stranded /\ held' = held
      /\ pay' = pay
  BY Zenon DEF ReadPayment, history
<1>3. OrdersStand /\ order' \in [Orders -> OrderRows]
  BY <1>2, OrdersSame, Zenon
<1>4. req[q].b \in Bookings /\ req[q].key \in LockKeys
  BY <1>1, Zenon DEF Shape, BookingOps, AgainOps
<1>5. CASE Finish(q)
  BY <1>2, <1>3, <1>5, QuietFinish, Zenon
<1>6. CASE /\ pay[req[q].b].status # "absent" /\ pay[req[q].b].status # "completed" /\ lock' = lock
           /\ \E rate \in Answers :
                req' = [req EXCEPT ![q].at = next, ![q].rate = rate, ![q].seen = pay[req[q].b].status]
  <2>1. PICK rate \in Nat : req' = [req EXCEPT ![q].at = next, ![q].rate = rate, ![q].seen = pay[req[q].b].status]
    BY <1>6, AnswersNat, Zenon
  <2>2. pay[req[q].b].status = "pending"
    BY <1>4, <1>6, Zenon DEF PayInv, PayTypes, PaymentRows
  <2>x. PICK x \in Checkouts : x = [req[q] EXCEPT !.at = next, !.rate = rate, !.seen = "pending"]
    BY <1>1, Zenon DEF Checkouts, Steps
  <2>3. req' = [req EXCEPT ![q] = x]
    BY <2>1, <2>2, <2>x, Zenon DEF PayInv, PayTypes
  <2>4. /\ x.at = next /\ x.op = req[q].op /\ x.b = req[q].b /\ x.key = req[q].key
        /\ x.locked = req[q].locked /\ x.seen = "pending"
    BY <1>1, <2>x, Zenon DEF Checkouts
  <2>5. Shape(x)
    BY <1>4, <2>4, Zenon DEF Shape, BookingOps, AgainOps, SettleOps
  <2>6. Claim(x)'
    BY <2>4, Zenon DEF Claim, AgainOps
  <2>7. \A b \in Bookings : ~Makes(x, b)
    BY <2>4, Zenon DEF Makes, BookingOps, AgainOps
  <2> QED
    BY <1>2, <1>3, <1>6, <2>3, <2>4, <2>5, <2>6, <2>7, QuietMove, Zenon
<1> QED
  BY <1>5, <1>6, Zenon DEF ReadPayment

(* A repeated checkout writes the amount on the payment.                    *)
LEMMA AmendStep ==
  ASSUME PayInv, NEW q \in Requests, req[q].op = "recheckout", req[q].at = "amend",
         UpdateAmountAndNotes(q, "stripe", Nobody), Go(q, "session"),
         UNCHANGED <<suite, held, lock, remote, history>>
  PROVE  PayInv'
<1>1. req[q] \in Checkouts /\ Shape(req[q]) /\ Claim(req[q])
  BY RequestFacts, Zenon
<1>2. order' = order /\ lapsed' = lapsed /\ stranded' = stranded /\ held' = held /\ lock' = lock
  BY Zenon DEF remote, history
<1>3. OrdersStand /\ order' \in [Orders -> OrderRows]
  BY <1>2, OrdersSame, Zenon
<1>4. PICK b \in Bookings : b = req[q].b
  BY <1>1, Zenon DEF Shape, AgainOps
<1>5. /\ pay' \in [Bookings -> PaymentRows]
      /\ \A c \in Bookings : (Absent(c)' <=> Absent(c)) /\ pay'[c].linked = pay[c].linked /\ Backed(c)'
  BY <1>3, <1>4, Updated, ZenonT(30)
<1>6. \A c \in Bookings : SameRows(c) /\ ~Makes(req[q], c)
  BY <1>2, <1>5, Zenon DEF SameRows, Makes, BookingOps
<1>7. Shape([req[q] EXCEPT !.at = "session"])
  BY <1>1, Zenon DEF Shape, BookingOps, AgainOps, SettleOps, Checkouts
<1>8. "session" \in Steps \ {"idle", "note", "settle"}
  BY Zenon DEF Steps
<1>9. held' \in [Bookings -> Suites \cup {Nobody}] /\ stranded \subseteq stranded'
  BY <1>2, Zenon DEF PayInv, PayTypes
<1> QED
  BY <1>2, <1>3, <1>5, <1>6, <1>7, <1>8, <1>9, GoSteps, Zenon

(* UpdateStatus completes a payment, for Razorpay one whose capture was     *)
(* verified.                                                                *)
LEMMA SettleStep ==
  ASSUME PayInv, NEW q \in Requests, NEW method,
         \/ req[q].op = "complete" /\ method = "stripe"
         \/ req[q].op = "verify" /\ method = "razorpay",
         UpdateStatus(q, method)
  PROVE  PayInv'
<1>1. req[q] \in Checkouts /\ Shape(req[q]) /\ Claim(req[q])
  BY RequestFacts, Zenon
<1>2. /\ order' = order /\ lapsed' = lapsed /\ stranded' = stranded /\ held' = held /\ lock' = lock
      /\ req[q].at = "settle" /\ req' = [req EXCEPT ![q] = NoRequest]
  BY Zenon DEF UpdateStatus, remote, history
<1>3. OrdersStand /\ order' \in [Orders -> OrderRows]
  BY <1>2, OrdersSame, Zenon
<1>4. PICK b \in Bookings : b = req[q].b
  BY <1>1, Zenon DEF Shape, SettleOps
<1>5. pay \in [Bookings -> PaymentRows] /\ pay[b] \in PaymentRows /\ held \in [Bookings -> Suites \cup {Nobody}]
  BY Zenon DEF PayInv, PayTypes
<1>6. PICK r \in PaymentRows :
        r = IF pay[b].status = "absent" THEN pay[b] ELSE [pay[b] EXCEPT !.status = "completed", !.method = method]
  BY <1>5, Zenon DEF PaymentRows
<1>7. pay' = [pay EXCEPT ![b] = r]
  BY <1>4, <1>5, <1>6, Zenon DEF UpdateStatus
<1>8. /\ r.status = "absent" <=> pay[b].status = "absent"
      /\ r.linked = pay[b].linked
      /\ r = pay[b] \/ (r.method = method /\ r.notes = pay[b].notes)
  BY <1>5, <1>6, Zenon DEF PaymentRows
<1>9. pay' \in [Bookings -> PaymentRows] /\ pay'[b] = r /\ \A c \in Bookings \ {b} : pay'[c] = pay[c]
  BY <1>5, <1>7, Zenon
<1>10. \A c \in Bookings : SameRows(c)
  BY <1>2, <1>8, <1>9, Zenon DEF SameRows, Absent
<1>11. ASSUME NEW c \in Bookings PROVE Backed(c)'
  <2>1. CASE pay'[c] = pay[c]
    BY <1>3, <2>1, BackedKept, Zenon
  <2>2. CASE c = b /\ r.method = method /\ r.notes = pay[b].notes
    <3>1. Backed(b)
      BY Zenon DEF PayInv
    <3>2. method = "razorpay" => \E o \in Orders : Own(o, b) /\ order[o].captured
      BY <1>1, <1>2, <1>4, Zenon DEF Claim, Own
    <3> QED
      BY <1>2, <1>9, <2>2, <3>1, <3>2, ZenonT(30) DEF Backed, Own
  <2> QED
    BY <1>8, <1>9, <2>1, <2>2, Zenon
<1>12. req[q].op \notin BookingOps /\ NoRequest.op \notin BookingOps
  BY NoRequestShape, Zenon DEF BookingOps
<1>13. \A c \in Bookings : MayTouch(q, NoRequest, c)
  <2>1. \A c \in Bookings : ~Makes(req[q], c) /\ ~Makes(NoRequest, c)
    BY <1>12, Zenon DEF Makes
  <2> QED
    BY <1>10, <2>1, Zenon DEF MayTouch
<1>14. Claim(NoRequest)'
  BY Zenon DEF Claim, NoRequest
<1>15. NoRequest \in Checkouts /\ Shape(NoRequest) /\ NoRequest.at = "idle"
  BY NoRequestShape, Zenon
<1>16. LocksHeld' /\ lock' \in [LockKeys -> Requests \cup {Nobody}]
  BY <1>2, <1>15, LocksMove, Zenon
<1>17. held' \in [Bookings -> Suites \cup {Nobody}] /\ stranded \subseteq stranded'
  BY <1>2, <1>5, Zenon
<1> QED
  BY <1>2, <1>3, <1>9, <1>11, <1>13, <1>14, <1>15, <1>16, <1>17, RequestSteps, Zenon

(* A step of a request that makes no booking and holds no lock keeps the    *)
(* invariant.                                                               *)
LEMMA Aside ==
  ASSUME PayInv, NEW q \in Requests, NEW x \in Checkouts, req' = [req EXCEPT ![q] = x], Shape(x), Claim(x),
         x.op \notin BookingOps, x.at = "idle" \/ x.key \notin LockKeys, req[q].op \notin BookingOps,
         UNCHANGED <<suite, held, pay, lock, remote, history>>
  PROVE  PayInv'
<1>1. order' = order /\ lapsed' = lapsed /\ stranded' = stranded /\ held' = held /\ lock' = lock /\ pay' = pay
  BY Zenon DEF remote, history
<1>2. OrdersStand /\ order' \in [Orders -> OrderRows]
  BY <1>1, OrdersSame, Zenon
<1>3. \A b \in Bookings : MayTouch(q, x, b)
  BY <1>1, Zenon DEF MayTouch, Makes, SameRows, Absent
<1>4. Claim(x)'
  BY <1>1, Zenon DEF Claim, Own
<1>5. \A b \in Bookings : Backed(b)'
  BY <1>1, <1>2, BackedKept, Zenon
<1>6. LocksHeld' /\ lock' \in [LockKeys -> Requests \cup {Nobody}]
  BY <1>1, LocksMove, Zenon
<1>7. /\ held' \in [Bookings -> Suites \cup {Nobody}] /\ pay' \in [Bookings -> PaymentRows]
      /\ stranded \subseteq stranded'
  BY <1>1, Zenon DEF PayInv, PayTypes
<1> QED
  BY <1>2, <1>3, <1>4, <1>5, <1>6, <1>7, RequestSteps, ZenonT(30)

(* A free slot makes no booking.                                            *)
LEMMA IdleOp ==
  ASSUME PayInv, NEW q \in Requests, req[q].at = "idle"
  PROVE  req[q].op \notin BookingOps
BY NoRequestShape, Zenon DEF PayInv, Shape, BookingOps

(* The key of a request without a lock is the key of no lock.               *)
LEMMA NoneIsNoKey == <<"none", Nobody>> \notin LockKeys
BY Zenon DEF LockKeys, BookingOps, AgainOps

(* A Stripe completion starts.                                              *)
LEMMA CompleteStarts ==
  ASSUME PayInv, NEW q \in Requests, req[q].at = "idle", NEW o \in Orders, order[o].gateway = "stripe",
         req' = [req EXCEPT ![q] = [NoRequest EXCEPT !.at = "settle", !.op = "complete",
                                                     !.b = order[o].of, !.order = o]],
         UNCHANGED <<suite, held, pay, lock, remote, history>>
  PROVE  PayInv'
<1>1. PICK b \in Bookings : b = order[o].of
  <2>1. order[o] \in OrderRows /\ order[o] # NoOrder
    BY SMTT(30) DEF PayInv, PayTypes, NoOrder
  <2> QED
    BY <2>1, Zenon DEF OrderRows
<1> DEFINE x == [NoRequest EXCEPT !.at = "settle", !.op = "complete", !.b = b, !.order = o]
<1>2. x \in Checkouts
  BY ZenonT(30) DEF Checkouts, NoRequest, Steps, SettleOps
<1>3. x.at = "settle" /\ x.op = "complete" /\ x.b = b /\ x.key = <<"none", Nobody>>
  BY Zenon DEF NoRequest
<1>4. req' = [req EXCEPT ![q] = x]
  BY <1>1, Zenon
<1> HIDE DEF x
<1>5. Shape(x)
  BY <1>3, NoneIsNoKey, Zenon DEF Shape, BookingOps, AgainOps, SettleOps
<1>6. Claim(x) /\ x.op \notin BookingOps
  BY <1>3, Zenon DEF Claim, BookingOps
<1> QED
  BY <1>2, <1>3, <1>4, <1>5, <1>6, NoneIsNoKey, IdleOp, Aside, Zenon

(* A Razorpay verification reads the payment and its order.                 *)
LEMMA VerifyStarts ==
  ASSUME PayInv, NEW q \in Requests, VerifyRead(q)
  PROVE  PayInv'
<1>1. PICK b \in Bookings, o \in Orders :
       /\ pay[b].status = "pending" /\ pay[b].notes = o
       /\ req' = [req EXCEPT ![q] = [NoRequest EXCEPT !.at = "capture", !.op = "verify", !.b = b,
                                     !.order = o, !.rate = pay[b].amount]]
  BY Zenon DEF VerifyRead
<1>2. PICK n \in Nat : n = pay[b].amount
  BY Zenon DEF PayInv, PayTypes, PaymentRows
<1> DEFINE x == [NoRequest EXCEPT !.at = "capture", !.op = "verify", !.b = b, !.order = o, !.rate = n]
<1>3. x \in Checkouts
  BY Zenon DEF Checkouts, NoRequest, Steps, SettleOps
<1>4. x.at = "capture" /\ x.op = "verify" /\ x.b = b /\ x.key = <<"none", Nobody>> /\ x.order = o
  BY Zenon DEF NoRequest
<1>5. req' = [req EXCEPT ![q] = x]
  BY <1>1, <1>2, Zenon
<1> HIDE DEF x
<1>6. Shape(x)
  BY <1>4, NoneIsNoKey, Zenon DEF Shape, BookingOps, AgainOps, SettleOps
<1>7. Backed(b) /\ o # Nobody
  BY CheckoutAssumption, Zenon DEF PayInv
<1>8. Claim(x) /\ x.op \notin BookingOps
  BY <1>1, <1>4, <1>7, Zenon DEF Claim, BookingOps, Backed
<1>9. req[q].at = "idle" /\ UNCHANGED <<suite, held, pay, lock, remote, history>>
  BY Zenon DEF VerifyRead
<1> QED
  BY <1>3, <1>4, <1>5, <1>6, <1>8, <1>9, NoneIsNoKey, IdleOp, Aside, Zenon

(* A Razorpay verification asks the gateway whether the order was captured. *)
LEMMA CaptureStep ==
  ASSUME PayInv, NEW q \in Requests, req[q].at = "capture",
         IF verifyRazorpayPaymentCapture(req[q].order, req[q].rate)
         THEN Go(q, "settle") ELSE req' = [req EXCEPT ![q] = NoRequest],
         UNCHANGED <<suite, held, pay, lock, remote, history>>
  PROVE  PayInv'
<1>1. req[q] \in Checkouts /\ Shape(req[q]) /\ Claim(req[q])
  BY RequestFacts, Zenon
<1>2. req[q].op \in SettleOps
  BY <1>1, Zenon DEF Shape, Checkouts, BookingOps, AgainOps, LookupSteps, WorkSteps
<1>3. req[q].op \notin BookingOps /\ req[q].b \in Bookings /\ req[q].key \notin LockKeys
  BY <1>1, <1>2, Zenon DEF Shape, SettleOps, BookingOps
<1>4. CASE req' = [req EXCEPT ![q] = NoRequest]
  BY <1>3, <1>4, NoRequestShape, IdleClaim, Aside, Zenon DEF BookingOps
<1>5. CASE Go(q, "settle") /\ order[req[q].order].captured
  <2>x. PICK x \in Checkouts : x = [req[q] EXCEPT !.at = "settle"]
    BY <1>1, ZenonT(30) DEF Checkouts, Steps
  <2>1. /\ x.at = "settle" /\ x.op = req[q].op /\ x.b = req[q].b /\ x.key = req[q].key /\ x.order = req[q].order
    BY <1>1, <2>x, Zenon DEF Checkouts
  <2>2. req' = [req EXCEPT ![q] = x]
    BY <1>5, <2>x, Zenon DEF Go, PayInv, PayTypes
  <2>3. Shape(x)
    BY <1>2, <1>3, <2>1, Zenon DEF Shape, SettleOps, AgainOps, BookingOps
  <2>4. Claim(x)
    BY <1>1, <1>5, <2>1, Zenon DEF Claim
  <2> QED
    BY <1>3, <2>1, <2>2, <2>3, <2>4, Aside, Zenon
<1> QED
  BY <1>4, <1>5, Zenon DEF verifyRazorpayPaymentCapture

(* A step that is not a request's: the rows of the bookings stay. *)
LEMMA WorldSteps ==
  ASSUME PayInv, req' = req, held' = held, pay' = pay, stranded' = stranded, OrdersStand,
         order' \in [Orders -> OrderRows], lock' \in [LockKeys -> Requests \cup {Nobody}], LocksHeld'
  PROVE  PayInv'
<1>1. PayTypes' /\ OneMaker'
  BY Zenon DEF PayInv, PayTypes, OneMaker, Makes
<1>2. ASSUME NEW q \in Requests PROVE (Shape(req[q]) /\ Claim(req[q]))'
  <2>1. PICK x \in Checkouts : x = req[q]
    BY Zenon DEF PayInv, PayTypes
  <2>2. Shape(x) /\ Claim(x)
    BY <2>1, Zenon DEF PayInv
  <2>3. Claim(x)'
    BY <2>2, ClaimKept, Zenon
  <2> QED
    BY <2>1, <2>2, <2>3, Zenon DEF Claim, Own, Shape
<1>3. \A b \in Bookings : Backed(b)'
  BY BackedKept, Zenon
<1>4. \A b \in Bookings : BookingKnown(b)'
  BY Zenon DEF PayInv, BookingKnown, Whole, Stage, Absent, Makes
<1> QED
  BY <1>1, <1>2, <1>3, <1>4, Zenon DEF PayInv

(* The lock of a slow request expires.                                      *)
LEMMA LockExpiresStep == ASSUME PayInv, NEW k \in LockKeys, LockExpires(k) PROVE PayInv'
<1>1. OrdersStand /\ order' \in [Orders -> OrderRows]
  BY OrdersSame, Zenon DEF LockExpires, remote
<1>2. lock' \in [LockKeys -> Requests \cup {Nobody}]
  BY Zenon DEF LockExpires, PayInv, PayTypes
<1>3. LocksHeld'
  <2>1. LocksHeld /\ lock \in [LockKeys -> Requests \cup {Nobody}]
    BY Zenon DEF PayInv, PayTypes
  <2>2. lapsed' = lapsed \cup {k} /\ req' = req /\ lock' = [lock EXCEPT ![k] = Nobody]
    BY Zenon DEF LockExpires
  <2> SUFFICES ASSUME NEW j \in LockKeys, j \notin lapsed', NEW p \in Requests, req'[p].at # "idle", req'[p].key = j
               PROVE  req'[p].locked /\ lock'[j] = p
    BY Zenon DEF LocksHeld, LockKeys
  <2> QED
    BY <2>1, <2>2, Zenon DEF LocksHeld
<1> QED
  BY <1>1, <1>2, <1>3, WorldSteps, Zenon DEF LockExpires

(* The guest pays an order at the gateway.                                  *)
LEMMA GuestPaysStep == ASSUME PayInv, NEW o \in Orders, GuestPays(o) PROVE PayInv'
<1>1. order \in [Orders -> OrderRows] /\ order[o] \in OrderRows /\ order[o] # NoOrder
  BY NothingThere, Zenon DEF PayInv, PayTypes, GuestPays
<1>2. order[o] \in [gateway : {"stripe", "razorpay"}, of : Bookings, amount : Nat, captured : BOOLEAN]
  BY <1>1, Zenon DEF OrderRows
<1>3. PICK r \in OrderRows : r = [order[o] EXCEPT !.captured = TRUE]
  BY <1>2, Zenon DEF OrderRows
<1>4. r.of = order[o].of /\ r.gateway = order[o].gateway /\ r.captured
  BY <1>2, <1>3, Zenon
<1>5. order' = [order EXCEPT ![o] = r]
  BY <1>1, <1>3, Zenon DEF GuestPays
<1>6. OrdersStand /\ order' \in [Orders -> OrderRows]
  BY <1>1, <1>4, <1>5, Zenon DEF OrdersStand
<1>7. /\ req' = req /\ held' = held /\ pay' = pay /\ stranded' = stranded /\ lock' = lock /\ lapsed' = lapsed
  BY Zenon DEF GuestPays, history
<1>8. LocksHeld' /\ lock' \in [LockKeys -> Requests \cup {Nobody}]
  BY <1>7, Zenon DEF PayInv, PayTypes, LocksHeld
<1> QED
  BY <1>6, <1>7, <1>8, WorldSteps, Zenon

(* A step that touches nothing the invariant speaks of keeps it.            *)
LEMMA ElsewhereStep ==
  ASSUME PayInv, req' = req, held' = held, pay' = pay, stranded' = stranded, order' = order, lock' = lock, lapsed' = lapsed
  PROVE  PayInv'
<1>1. OrdersStand /\ order' \in [Orders -> OrderRows]
  BY OrdersSame, Zenon
<1>2. LocksHeld' /\ lock' \in [LockKeys -> Requests \cup {Nobody}]
  BY Zenon DEF PayInv, PayTypes, LocksHeld
<1> QED
  BY <1>1, <1>2, WorldSteps, Zenon

(* The process stops: its requests are gone, their locks and rows stay.     *)
LEMMA CrashStep == ASSUME PayInv, GatewayCrash PROVE PayInv'
<1>1. \A q \in Requests : req'[q] = NoRequest
  BY Zenon DEF GatewayCrash
<1>2. /\ held' = held /\ pay' = pay /\ order' = order /\ lock' = lock
      /\ stranded' = stranded \cup ({req[q].b : q \in Requests} \ {Nobody})
      /\ req' \in [Requests -> Checkouts]
  BY NoRequestShape, Zenon DEF GatewayCrash, remote
<1>3. PayTypes'
  BY <1>2, Zenon DEF PayInv, PayTypes
<1>4. \A q \in Requests : (Shape(req[q]) /\ Claim(req[q]))'
  <2>1. Shape(NoRequest) /\ Claim(NoRequest)'
    BY NoRequestShape, Zenon DEF Claim, NoRequest
  <2> QED
    BY <1>1, <2>1, Zenon DEF Shape, Claim, Own
<1>5. \A q \in Requests, b \in Bookings : ~Makes(req'[q], b)
  BY <1>1, NoRequestShape, Zenon DEF Makes, BookingOps
<1>6. OneMaker'
  BY <1>5, Zenon DEF OneMaker, Makes
<1>7. ASSUME NEW b \in Bookings PROVE (BookingKnown(b) /\ Backed(b))'
  <2>1. OrdersStand
    BY <1>2, OrdersSame, Zenon
  <2>2. Backed(b)'
    BY <1>2, <2>1, BackedKept, Zenon
  <2>3. b \notin stranded' => b \notin stranded /\ \A q \in Requests : ~Makes(req[q], b)
    BY <1>2, CheckoutAssumption, Zenon DEF Makes
  <2>4. b \notin stranded' => Whole(b)
    BY <2>3, Zenon DEF PayInv, BookingKnown
  <2>5. b \notin stranded' => Whole(b)'
    BY <1>2, <2>4, Zenon DEF Whole, Absent
  <2>6. BookingKnown(b)'
    BY <1>5, <2>5, Zenon DEF BookingKnown, Makes
  <2> QED
    BY <2>2, <2>6, Zenon
<1>8. LocksHeld'
  BY <1>1, NoRequestShape, Zenon DEF LocksHeld, LockKeys
<1> QED
  BY <1>3, <1>4, <1>6, <1>7, <1>8, Zenon DEF PayInv

(* Every step the two ways of booking share keeps the invariant.            *)
LEMMA BookingSteps ==
  ASSUME PayInv, NEW q \in Requests, req[q].op \in BookingOps,
         resolveBookingRoom(q) \/ CreateStay(q) \/ (\E del \in BOOLEAN : CreatePayment(q, del))
         \/ UndoPayment(q) \/ UndoStay(q) \/ UndoRoom(q) \/ Note(q)
  PROVE  PayInv'
BY ResolveStep, CreateStayStep, CreatePaymentStep, UndoPaymentStep, UndoStayStep, UndoRoomStep,
   NoteStep, Zenon

(* Every step of every kind of request keeps the invariant.                 *)
LEMMA CheckoutStep == ASSUME PayInv, NEW q \in Requests, Checkout(q) PROVE PayInv'
<1>1. CASE BookingCheckout(q)
  <2>1. "checkout" \in BookingOps
    BY Zenon DEF BookingOps
  <2>2. CASE BeginBooking(q, "checkout")
    BY <2>1, <2>2, BeginBookingStep, Zenon
  <2>3. CASE req[q].op = "checkout" /\ Occupy(q, "call")
    BY <2>1, <2>3, OccupyStep, Zenon
  <2>4. CASE /\ req[q].op = "checkout" /\ req[q].at = "call" /\ createStripeSession(q, "undo_payment")
             /\ UNCHANGED <<suite, held, pay, fx, active, history>>
    BY <2>1, <2>4, StripeSessionStep, Zenon
  <2> QED
    BY <1>1, <2>1, <2>2, <2>3, <2>4, BookingSteps, Zenon DEF BookingCheckout
<1>2. CASE CreateRazorpayBookingOrder(q)
  <2>1. "razorpay" \in BookingOps
    BY Zenon DEF BookingOps
  <2>2. CASE BeginBooking(q, "razorpay")
    BY <2>1, <2>2, BeginBookingStep, Zenon
  <2>3. CASE req[q].op = "razorpay" /\ Occupy(q, "call")
    BY <2>1, <2>3, OccupyStep, Zenon
  <2>4. CASE /\ req[q].op = "razorpay" /\ req[q].at = "call" /\ createRazorpayOrder(q, "undo_payment")
             /\ UNCHANGED <<suite, held, pay, fx, active, history>>
    BY <2>1, <2>4, RazorpayOrderStep, Zenon
  <2> QED
    BY <1>2, <2>1, <2>2, <2>3, <2>4, BookingSteps, Zenon DEF CreateRazorpayBookingOrder
<1>3. CASE HoldBooking(q)
  <2>1. "hold" \in BookingOps
    BY Zenon DEF BookingOps
  <2>2. CASE BeginBooking(q, "hold")
    BY <2>1, <2>2, BeginBookingStep, Zenon
  <2>3. CASE req[q].op = "hold" /\ Occupy(q, "done")
    BY <2>1, <2>3, OccupyStep, Zenon
  <2> QED
    BY <1>3, <2>1, <2>2, <2>3, BookingSteps, Zenon DEF HoldBooking
<1>4. CASE CreateRazorpayPaymentOrder(q)
  <2>1. "reorder" \in AgainOps
    BY Zenon DEF AgainOps
  <2>2. CASE BeginAgain(q, "reorder")
    BY <2>1, <2>2, BeginAgainStep, Zenon
  <2>3. CASE req[q].op = "reorder" /\ ReadPayment(q, FALSE, "call")
    BY <2>1, <2>3, ReadPaymentStep, Zenon
  <2>4. CASE /\ req[q].op = "reorder" /\ req[q].at = "call" /\ createRazorpayOrder(q, "done")
             /\ UNCHANGED <<suite, held, pay, fx, active, history>>
    BY <2>1, <2>4, RazorpayOrderStep, Zenon
  <2>5. CASE req[q].op = "reorder" /\ Note(q)
    BY <2>1, <2>5, NoteStep, Zenon
  <2> QED
    BY <1>4, <2>2, <2>3, <2>4, <2>5, Zenon DEF CreateRazorpayPaymentOrder
<1>5. CASE PaymentCheckout(q)
  <2>1. "recheckout" \in AgainOps
    BY Zenon DEF AgainOps
  <2>2. CASE BeginAgain(q, "recheckout")
    BY <2>1, <2>2, BeginAgainStep, Zenon
  <2>3. CASE req[q].op = "recheckout" /\ ReadPayment(q, TRUE, "amend")
    BY <2>1, <2>3, ReadPaymentStep, Zenon
  <2>4. CASE /\ req[q].op = "recheckout" /\ req[q].at = "amend" /\ UpdateAmountAndNotes(q, "stripe", Nobody)
             /\ Go(q, "session") /\ UNCHANGED <<suite, held, lock, remote, history>>
    BY <2>4, AmendStep, Zenon
  <2>5. CASE /\ req[q].op = "recheckout" /\ req[q].at = "session" /\ createStripeSession(q, "done")
             /\ UNCHANGED <<suite, held, pay, fx, active, history>>
    BY <2>1, <2>5, StripeSessionStep, Zenon
  <2> QED
    BY <1>5, <2>2, <2>3, <2>4, <2>5, Zenon DEF PaymentCheckout
<1>6. CASE CompletePayment(q)
  <2>1. CASE req[q].op = "complete" /\ UpdateStatus(q, "stripe")
    BY <2>1, SettleStep, Zenon
  <2>2. CASE /\ req[q].at = "idle" /\ UNCHANGED <<suite, held, pay, lock, remote, history>>
             /\ \E o \in Orders : /\ order[o].gateway = "stripe" /\ order[o].captured
                                  /\ req' = [req EXCEPT ![q] = [NoRequest EXCEPT !.at = "settle", !.op = "complete",
                                                                !.b = order[o].of, !.order = o]]
    BY <2>2, CompleteStarts, Zenon
  <2> QED
    BY <1>6, <2>1, <2>2, Zenon DEF CompletePayment
<1>7. CASE VerifyRazorpayPayment(q)
  <2>1. CASE req[q].op = "verify" /\ UpdateStatus(q, "razorpay")
    BY <2>1, SettleStep, Zenon
  <2>2. CASE VerifyRead(q)
    BY <2>2, VerifyStarts, Zenon
  <2>3. CASE /\ req[q].at = "capture"
             /\ IF verifyRazorpayPaymentCapture(req[q].order, req[q].rate)
                THEN Go(q, "settle") ELSE req' = [req EXCEPT ![q] = NoRequest]
             /\ UNCHANGED <<suite, held, pay, lock, remote, history>>
    BY <2>3, CaptureStep, Zenon
  <2> QED
    BY <1>7, <2>1, <2>2, <2>3, Zenon DEF VerifyRazorpayPayment
<1> QED
  BY <1>1, <1>2, <1>3, <1>4, <1>5, <1>6, <1>7, Zenon DEF Checkout

(* The invariant is inductive.                                              *)
LEMMA PayStep == PayInv /\ [PayNext]_payVars => PayInv'
<1> SUFFICES ASSUME PayInv, [PayNext]_payVars PROVE PayInv'
  BY Zenon
<1>1. CASE \E q \in Requests : Checkout(q)
  BY <1>1, CheckoutStep, Zenon
<1>2. CASE \E k \in LockKeys : LockExpires(k)
  BY <1>2, LockExpiresStep, Zenon
<1>3. CASE \E o \in Orders : GuestPays(o)
  BY <1>3, GuestPaysStep, Zenon
<1>4. CASE RateExpires
  BY <1>4, ElsewhereStep, Zenon DEF RateExpires, history
<1>5. CASE SwitchGateway
  BY <1>5, ElsewhereStep, Zenon DEF SwitchGateway
<1>6. CASE GatewayCrash
  BY <1>6, CrashStep, Zenon
<1>7. CASE UNCHANGED payVars
  BY <1>7, ElsewhereStep, Zenon DEF payVars
<1> QED
  BY <1>1, <1>2, <1>3, <1>4, <1>5, <1>6, <1>7, Zenon DEF PayNext

(* The invariant holds in every reachable state.                            *)
LEMMA PayInvariant == PaySpec => []PayInv
BY PayInitInv, PayStep, PTL DEF PaySpec

(* However the statements of concurrent bookings interleave, fail and are   *)
(* undone (payment_service.go), a booking that no request works on and none *)
(* of whose statements failed has both its stay and its payment, or         *)
(* neither.                                                                 *)
THEOREM BookingsWholeOrGone == PaySpec => []BookedWholeOrNotAtAll
<1>1. PayInv => BookedWholeOrNotAtAll
  <2> SUFFICES ASSUME PayInv, NEW b \in Bookings \ stranded, \A q \in Requests : req[q].b # b
               PROVE  /\ (held[b] # Nobody) <=> (pay[b].status # "absent")
                      /\ pay[b].status # "absent" => pay[b].linked
    BY Zenon DEF BookedWholeOrNotAtAll
  <2>1. \A q \in Requests : ~Makes(req[q], b)
    BY Zenon DEF Makes
  <2>2. Whole(b)
    BY <2>1, Zenon DEF PayInv, BookingKnown
  <2> QED
    BY <2>2, Zenon DEF Whole, Absent
<1> QED
  BY <1>1, PayInvariant, PTL

(* The Redis lock on a room or booking admits one request per key, except   *)
(* under a key whose lock expired or could not be asked for.                *)
THEOREM LocksExclude == PaySpec => []LockExclusive
<1>1. PayInv => LockExclusive
  BY SMTT(30) DEF PayInv, LocksHeld, LockExclusive
<1> QED
  BY <1>1, PayInvariant, PTL

(* Whatever a stale checkout, an expired lock or a restart does to it, a    *)
(* payment completed through Razorpay has a captured order of its own.      *)
THEOREM CompletedIsVerified == PaySpec => []VerifiedBeforeCompleted
<1>1. PayInv => VerifiedBeforeCompleted
  BY Zenon DEF PayInv, Backed, Own, VerifiedBeforeCompleted
<1> QED
  BY <1>1, PayInvariant, PTL

-----------------------------------------------------------------------------
(* The rate limiter: what is admitted in one minute.                        *)
Slots == 0 .. Minutes

RateTypes ==
  /\ minute \in Slots /\ rank \in DOMAIN Quota /\ best \in DOMAIN Quota
  /\ bucket \in [Slots -> Nat] /\ admitted \in [Slots -> Nat]
  /\ excused \in [Slots -> Nat] /\ restarts \in [Slots -> Nat]
  /\ hit \in [Hits -> [at : {"idle", "limited", "timed"}, b : Slots, limit : Nat]]

(* The counts of one minute, for a best quota q, r restarts, count c, e      *)
(* excused and a admitted requests.                                          *)
Within(q, r, c, e, a) == a <= q * r + c + e /\ a <= q * r + q + e

RateInv ==
  /\ RateTypes
  /\ Quota[rank] <= Quota[best]
  /\ \A h \in Hits : hit[h].limit <= Quota[best]
  /\ \A b \in Slots : Within(Quota[best], restarts[b], bucket[b], excused[b], admitted[b])

(* A product of naturals is one.                                            *)
LEMMA TimesNat == ASSUME NEW p \in Nat, NEW q \in Nat PROVE p * q \in Nat
  BY SMTT(30)

(* Multiplication is monotonic.                                             *)
LEMMA TimesMono == ASSUME NEW p \in Nat, NEW q \in Nat, NEW r \in Nat, p <= q PROVE p * r <= q * r
<1>1. PICK d \in Nat : q = p + d
  <2>1. q - p \in Nat /\ q = p + (q - p)
    OBVIOUS
  <2> QED
    BY <2>1, Zenon
<1>2. q * r = p * r + d * r
  BY <1>1, SMTT(30)
<1>3. d * r >= 0
  OBVIOUS
<1>4. p * r \in Nat /\ d * r \in Nat
  OBVIOUS
<1> QED
  BY <1>2, <1>3, <1>4, SMTT(30)

(* One factor more adds the other once.                                     *)
LEMMA TimesSucc == ASSUME NEW p \in Nat, NEW r \in Nat PROVE p * (r + 1) = p * r + p
OBVIOUS

(* Init establishes the invariant.                                          *)
LEMMA RateInitInv == RateInit => RateInv
<1> SUFFICES ASSUME RateInit PROVE RateInv
  BY Zenon
<1>1. RateTypes
  BY RateAssumption, SMTT(30) DEF RateInit, RateTypes, NoHit, Slots
<1>2. ASSUME NEW b \in Slots PROVE Within(Quota[best], restarts[b], bucket[b], excused[b], admitted[b])
  <2>1. restarts[b] = 0 /\ bucket[b] = 0 /\ excused[b] = 0 /\ admitted[b] = 0
    BY Zenon DEF RateInit, Slots
  <2>2. Quota[best] \in Nat
    BY <1>1, RateAssumption, Zenon DEF RateTypes
  <2> QED
    BY <2>1, <2>2, SMTT(30) DEF Within
<1>3. \A h \in Hits : hit[h].limit <= Quota[best]
  BY <1>1, RateAssumption, SMTT(30) DEF RateInit, NoHit, RateTypes
<1> QED
  BY <1>1, <1>2, <1>3, RateAssumption, SMTT(30) DEF RateInv, RateInit, RateTypes

(* A request reads the quota of its hotel.                                  *)
LEMMA ReadLimitInv == ASSUME RateInv, NEW h \in Hits, ReadLimit(h) PROVE RateInv'
<1> USE DEF RateInv
<1>1. PICK n \in Nat : /\ n <= Quota[best]
                       /\ hit' = [hit EXCEPT ![h] = [at |-> "limited", b |-> 0, limit |-> n]]
  <2>1. Quota[rank] \in Nat /\ Quota[0] \in Nat /\ Quota[0] <= Quota[best]
    BY RateAssumption, Zenon DEF RateTypes
  <2> QED
    BY <2>1, Zenon DEF ReadLimit
<1>2. RateTypes'
  <2>1. 0 \in Slots
    BY RateAssumption, SMTT(30) DEF Slots
  <2>2. hit' \in [Hits -> [at : {"idle", "limited", "timed"}, b : Slots, limit : Nat]]
    BY <1>1, <2>1, Zenon DEF RateTypes
  <2> QED
    BY <2>2, Zenon DEF RateTypes, ReadLimit
<1>3. \A j \in Hits : hit'[j].limit <= Quota[best]
  BY <1>1, Zenon DEF RateTypes
<1> QED
  BY <1>2, <1>3, Zenon DEF ReadLimit

(* A request reads the clock, which names its window.                       *)
LEMMA ReadClockInv == ASSUME RateInv, NEW h \in Hits, ReadClock(h) PROVE RateInv'
<1> USE DEF RateInv
<1>1. RateTypes'
  BY Zenon DEF RateTypes, ReadClock
<1>2. \A j \in Hits : hit'[j].limit <= Quota[best]
  BY Zenon DEF RateTypes, ReadClock
<1> QED
  BY <1>1, <1>2, Zenon DEF ReadClock

(* INCR counts a request in its window, and admits it within the quota.     *)
LEMMA CountInv == ASSUME RateInv, NEW h \in Hits, Count(h) PROVE RateInv'
<1> DEFINE b == hit[h].b
           q == Quota[best]
<1>1. b \in Slots /\ hit[h].limit \in Nat /\ hit[h].limit <= q
  BY Zenon DEF RateInv, RateTypes
<1>2. q \in Nat
  BY RateAssumption, Zenon DEF RateInv, RateTypes
<1>3. bucket[b] \in Nat /\ admitted[b] \in Nat /\ excused[b] \in Nat /\ restarts[b] \in Nat
  BY <1>1, Zenon DEF RateInv, RateTypes
<1>4. Within(q, restarts[b], bucket[b], excused[b], admitted[b])
  BY <1>1, Zenon DEF RateInv
<1>5. /\ minute' = minute /\ rank' = rank /\ restarts' = restarts /\ best' = best
      /\ hit' = [hit EXCEPT ![h] = NoHit]
  BY Zenon DEF Count
<1>6. hit' \in [Hits -> [at : {"idle", "limited", "timed"}, b : Slots, limit : Nat]]
  BY <1>5, RateAssumption, SMTT(30) DEF RateInv, RateTypes, NoHit, Slots
<1>7. \A j \in Hits : hit'[j].limit <= q
  BY <1>2, <1>5, SMTT(30) DEF RateInv, RateTypes, NoHit
<1>8. PICK r \in Nat : r = q * restarts[b]
  BY <1>2, <1>3, SMTT(30)
<1>9. CASE /\ bucket' = [bucket EXCEPT ![b] = bucket[b] + 1]
           /\ admitted' = IF Over(bucket[b] + 1, hit[h].limit) THEN admitted
                          ELSE [admitted EXCEPT ![b] = @ + 1]
           /\ excused' = excused
  <2>1. bucket' \in [Slots -> Nat] /\ admitted' \in [Slots -> Nat]
    BY <1>1, <1>3, <1>9, SMTT(30) DEF RateInv, RateTypes
  <2>2. Within(q, restarts[b], bucket'[b], excused[b], admitted'[b])
    <3>1. CASE Over(bucket[b] + 1, hit[h].limit)
      BY <1>1, <1>3, <1>4, <1>8, <1>9, <3>1, SMTT(30) DEF Within, RateInv, RateTypes
    <3>2. CASE ~Over(bucket[b] + 1, hit[h].limit)
      <4>1. bucket'[b] = bucket[b] + 1 /\ admitted'[b] = admitted[b] + 1
        BY <1>1, <1>9, <3>2, Zenon DEF RateInv, RateTypes
      <4> QED
        BY <1>1, <1>2, <1>3, <1>4, <1>8, <3>2, <4>1, SMTT(30) DEF Within, Over
    <3> QED
      BY <3>1, <3>2, Zenon
  <2>3. \A c \in Slots : Within(q, restarts[c], bucket'[c], excused[c], admitted'[c])
    <3> SUFFICES ASSUME NEW c \in Slots, c # b
                 PROVE Within(q, restarts[c], bucket'[c], excused[c], admitted'[c])
      BY <2>2, Zenon
    <3>1. bucket'[c] = bucket[c] /\ admitted'[c] = admitted[c]
      BY <1>9, Zenon DEF RateInv, RateTypes
    <3> QED
      BY <3>1, Zenon DEF RateInv
  <2> QED
    BY <1>5, <1>6, <1>7, <1>9, <2>1, <2>3, Zenon DEF RateInv, RateTypes
<1>10. CASE /\ bucket' = bucket
            /\ admitted' = [admitted EXCEPT ![b] = @ + 1]
            /\ excused' = [excused EXCEPT ![b] = @ + 1]
  <2>1. excused' \in [Slots -> Nat] /\ admitted' \in [Slots -> Nat]
    BY <1>1, <1>3, <1>10, SMTT(30) DEF RateInv, RateTypes
  <2>2. excused'[b] = excused[b] + 1 /\ admitted'[b] = admitted[b] + 1
    BY <1>1, <1>10, Zenon DEF RateInv, RateTypes
  <2>3. Within(q, restarts[b], bucket[b], excused'[b], admitted'[b])
    BY <1>2, <1>3, <1>4, <1>8, <2>2, SMTT(30) DEF Within
  <2>4. \A c \in Slots : Within(q, restarts[c], bucket[c], excused'[c], admitted'[c])
    <3> SUFFICES ASSUME NEW c \in Slots, c # b
                 PROVE Within(q, restarts[c], bucket[c], excused'[c], admitted'[c])
      BY <2>3, Zenon
    <3>1. excused'[c] = excused[c] /\ admitted'[c] = admitted[c]
      BY <1>10, Zenon DEF RateInv, RateTypes
    <3> QED
      BY <3>1, Zenon DEF RateInv
  <2> QED
    BY <1>5, <1>6, <1>7, <1>10, <2>1, <2>4, Zenon DEF RateInv, RateTypes
<1> QED
  BY <1>9, <1>10, Zenon DEF Count

(* The counter of a window that is over expires.                            *)
LEMMA KeyExpiresInv == ASSUME RateInv, NEW b \in Slots, KeyExpires(b) PROVE RateInv'
<1> DEFINE q == Quota[best]
<1>1. q \in Nat
  BY RateAssumption, Zenon DEF RateInv, RateTypes
<1>2. admitted[b] \in Nat /\ excused[b] \in Nat /\ restarts[b] \in Nat /\ bucket[b] \in Nat
  BY Zenon DEF RateInv, RateTypes
<1>3. bucket' \in [Slots -> Nat] /\ restarts' \in [Slots -> Nat] /\ bucket'[b] = 0 /\ restarts'[b] = restarts[b] + 1
  BY <1>2, SMTT(30) DEF RateInv, RateTypes, KeyExpires
<1>4. q * (restarts[b] + 1) = q * restarts[b] + q
  BY <1>1, <1>2, TimesSucc, Zenon
<1>5. PICK r \in Nat : r = q * restarts[b]
  BY <1>1, <1>2, SMTT(30)
<1>6. Within(q, restarts[b], bucket[b], excused[b], admitted[b])
  BY Zenon DEF RateInv
<1>7. Within(q, restarts'[b], bucket'[b], excused[b], admitted[b])
  BY <1>1, <1>2, <1>3, <1>4, <1>5, <1>6, SMTT(30) DEF Within
<1>8. \A c \in Slots : Within(q, restarts'[c], bucket'[c], excused[c], admitted[c])
  <2> SUFFICES ASSUME NEW c \in Slots, c # b PROVE Within(q, restarts'[c], bucket'[c], excused[c], admitted[c])
    BY <1>7, Zenon
  <2>1. bucket'[c] = bucket[c] /\ restarts'[c] = restarts[c]
    BY Zenon DEF KeyExpires, RateInv, RateTypes
  <2> QED
    BY <2>1, Zenon DEF RateInv
<1> QED
  BY <1>3, <1>8, Zenon DEF KeyExpires, RateInv, RateTypes

(* The hotel moves to another plan.                                         *)
LEMMA ChangePlanInv == ASSUME RateInv, NEW r \in DOMAIN Quota, ChangePlan(r) PROVE RateInv'
<1>1. /\ Quota[r] \in Nat /\ Quota[best] \in Nat /\ best \in DOMAIN Quota /\ best' \in DOMAIN Quota
      /\ Quota[best'] \in Nat
  BY RateAssumption, Zenon DEF RateInv, RateTypes, ChangePlan
<1>2. Quota[best] <= Quota[best'] /\ Quota[r] <= Quota[best']
  BY <1>1, SMTT(30) DEF ChangePlan
<1>3. /\ rank' = r
      /\ minute' = minute /\ bucket' = bucket /\ hit' = hit /\ admitted' = admitted /\ excused' = excused
      /\ restarts' = restarts
  BY Zenon DEF ChangePlan
<1>4. ASSUME NEW b \in Slots PROVE Within(Quota[best'], restarts[b], bucket[b], excused[b], admitted[b])
  <2>1. admitted[b] \in Nat /\ excused[b] \in Nat /\ restarts[b] \in Nat /\ bucket[b] \in Nat
    BY Zenon DEF RateInv, RateTypes
  <2>2. PICK x \in Nat, y \in Nat : x = Quota[best] * restarts[b] /\ y = Quota[best'] * restarts[b]
    BY <1>1, <2>1, TimesNat, Zenon
  <2>3. x <= y
    BY <1>1, <1>2, <2>1, <2>2, TimesMono, Zenon
  <2>4. Within(Quota[best], restarts[b], bucket[b], excused[b], admitted[b])
    BY Zenon DEF RateInv
  <2> QED
    BY <1>1, <1>2, <2>1, <2>2, <2>3, <2>4, SMTT(30) DEF Within
<1>5. \A h \in Hits : hit[h].limit <= Quota[best']
  BY <1>1, <1>2, SMTT(30) DEF RateInv, RateTypes
<1> QED
  BY <1>1, <1>2, <1>3, <1>4, <1>5, Zenon DEF RateInv, RateTypes

(* The invariant is inductive.                                              *)
LEMMA RateStep == RateInv /\ [RateNext]_rateVars => RateInv'
<1> SUFFICES ASSUME RateInv, [RateNext]_rateVars PROVE RateInv'
  BY Zenon
<1>1. ASSUME NEW h \in Hits, clientRateLimit(h) PROVE RateInv'
  BY <1>1, ReadLimitInv, ReadClockInv, CountInv, Zenon DEF clientRateLimit
<1>2. ASSUME Tick PROVE RateInv'
  <2>1. minute' \in Slots
    BY <1>2, RateAssumption, SMTT(30) DEF Tick, RateInv, RateTypes, Slots
  <2> QED
    BY <1>2, <2>1, Zenon DEF Tick, RateInv, RateTypes
<1>3. ASSUME NEW b \in 0 .. Minutes, KeyExpires(b) PROVE RateInv'
  BY <1>3, KeyExpiresInv, Zenon DEF Slots
<1>4. CASE UNCHANGED rateVars
  BY <1>4, Zenon DEF rateVars, RateInv, RateTypes
<1> QED
  BY <1>1, <1>2, <1>3, <1>4, ChangePlanInv, Zenon DEF RateNext

(* The limiter (INCR and EXPIRE on one key a minute) admits no more         *)
(* requests in a minute than the best plan allows, but for those Redis did  *)
(* not count and counts begun again, for every plan, every number of        *)
(* requests and of minutes.                                                 *)
THEOREM QuotaHolds == RateSpec => []AdmittedWithinQuota
<1>1. RateInv => AdmittedWithinQuota
  <2> SUFFICES ASSUME RateInv, NEW b \in 0 .. Minutes
               PROVE admitted[b] <= Quota[best] * (1 + restarts[b]) + excused[b]
    BY Zenon DEF AdmittedWithinQuota
  <2>1. Quota[best] \in Nat /\ restarts[b] \in Nat /\ admitted[b] \in Nat /\ excused[b] \in Nat
    BY RateAssumption, Zenon DEF RateInv, RateTypes, Slots
  <2>2. Quota[best] * (1 + restarts[b]) = Quota[best] * restarts[b] + Quota[best]
    BY <2>1, SMTT(30)
  <2>3. Within(Quota[best], restarts[b], bucket[b], excused[b], admitted[b])
    BY Zenon DEF RateInv, Slots
  <2> QED
    BY <2>1, <2>2, <2>3, Zenon DEF Within
<1> QED
  BY <1>1, RateInitInv, RateStep, PTL DEF RateSpec

-----------------------------------------------------------------------------
(* The AI gateway: calls and the breaker.                                   *)
Asks == [at : {"idle", "check", "check_time", "send", "wait", "record"}, of : {"none", "cerebras", "groq"},
         try : 0 .. Attempts]

Open == Tripped /\ Recent

(* What a call may still send without asking the breaker, one included that  *)
(* is under way or whose failure is being recorded.                          *)
Left(x) == IF x.at \in {"send", "wait", "record"} THEN Attempts - x.try ELSE 0

(* How often a call has tried its provider, by where it is.                  *)
Tries(x) ==
  /\ x.at \in {"check", "check_time"} => x.try = 0
  /\ x.at = "send" => x.try < Attempts
  /\ x.at \in {"wait", "record"} => x.try > 0

AiInv ==
  /\ failures \in Nat /\ lastFailure \in Int /\ clock \in Nat /\ lastFailure <= clock
  /\ ask \in [Askers -> Asks]
  /\ \A a \in Askers : Tries(ask[a])
  /\ sinceOpen \in [Askers -> Nat]
  /\ ~Open => \A a \in Askers : sinceOpen[a] = 0
  /\ \A a \in Askers : sinceOpen[a] + Left(ask[a]) <= Attempts
  /\ Open => \E a \in Askers : sinceOpen[a] + Left(ask[a]) < Attempts

(* The attempts a caller has left are bounded by the attempts of one call.  *)
LEMMA LeftBounds == ASSUME NEW x \in Asks PROVE Left(x) \in 0 .. Attempts /\ Left(x) \in Nat
BY SMTT(30) DEF Left, Asks, Attempts

(* Init establishes the invariant.                                          *)
LEMMA AiInitInv == AiInit => AiInv
<1> SUFFICES ASSUME AiInit PROVE AiInv
  BY Zenon
<1>1. NoAsk \in Asks /\ Left(NoAsk) = 0 /\ NoAsk.at = "idle"
  BY SMTT(30) DEF NoAsk, Asks, Left, Attempts
<1>3. Tries(NoAsk)
  BY <1>1, Zenon DEF Tries
<1>2. ~Open
  BY AiAssumption, SMTT(30) DEF AiInit, Open, Tripped
<1> QED
  BY <1>1, <1>2, <1>3, SMTT(30) DEF AiInit, AiInv, NeverFailed, Attempts

(* One call moves on; the requests it sent and those it may still send do    *)
(* not grow while the breaker is open, and a step that opens it leaves the   *)
(* call at less than all its attempts.                                       *)
LEMMA AskMoves ==
  ASSUME AiInv, NEW a \in Askers, NEW x \in Asks,
         ask' = [ask EXCEPT ![a] = x],
         Tries(x),
         failures' \in Nat, lastFailure' \in Int, clock' \in Nat, lastFailure' <= clock',
         sinceOpen' \in [Askers -> Nat],
         \A b \in Askers \ {a} : sinceOpen'[b] = sinceOpen[b],
         ~Open' => \A b \in Askers : sinceOpen'[b] = 0,
         sinceOpen'[a] + Left(x) <= Attempts,
         Open => sinceOpen'[a] + Left(x) <= sinceOpen[a] + Left(ask[a]),
         Open' /\ ~Open => sinceOpen'[a] + Left(x) < Attempts
  PROVE  AiInv'
<1>1. ask' \in [Askers -> Asks] /\ ask'[a] = x /\ \A b \in Askers \ {a} : ask'[b] = ask[b]
  BY Zenon DEF AiInv
<1>2. \A b \in Askers : Tries(ask'[b])
  BY <1>1, Zenon DEF AiInv
<1>3. \A b \in Askers : sinceOpen'[b] + Left(ask'[b]) <= Attempts
  BY <1>1, Zenon DEF AiInv
<1>4. Open' => \E b \in Askers : sinceOpen'[b] + Left(ask'[b]) < Attempts
  <2> SUFFICES ASSUME Open' PROVE \E b \in Askers : sinceOpen'[b] + Left(ask'[b]) < Attempts
    BY Zenon
  <2>1. CASE ~Open
    BY <1>1, <2>1, Zenon
  <2>2. CASE Open
    <3>1. PICK b \in Askers : sinceOpen[b] + Left(ask[b]) < Attempts
      BY <2>2, Zenon DEF AiInv
    <3>2. CASE b = a
      <4>1. /\ sinceOpen[a] \in Nat /\ sinceOpen'[a] \in Nat
            /\ Left(ask[a]) \in Nat /\ Left(x) \in Nat /\ Attempts \in Nat
        <5>1. ask[a] \in Asks /\ sinceOpen[a] \in Nat /\ sinceOpen'[a] \in Nat
          BY Zenon DEF AiInv
        <5> QED
          BY <5>1, LeftBounds, Zenon DEF Attempts
      <4>2. sinceOpen'[a] + Left(x) < Attempts
        BY <2>2, <3>1, <3>2, <4>1, SMTT(30)
      <4> QED
        BY <1>1, <4>2, Zenon
    <3>3. CASE b # a
      BY <1>1, <3>1, <3>3, Zenon
    <3> QED
      BY <3>2, <3>3, Zenon
  <2> QED
    BY <2>1, <2>2, Zenon
<1> QED
  BY <1>1, <1>2, <1>3, <1>4, Zenon DEF AiInv

(* What is left to a call whose attempt failed.                              *)
LEMMA AfterShape ==
  ASSUME AiInv, NEW a \in Askers
  PROVE  AfterFailure(a) \in Asks /\ Tries(AfterFailure(a)) /\ Left(AfterFailure(a)) = 0
<1>1. ask[a] \in Asks
  BY Zenon DEF AiInv
<1>2. AfterFailure(a) \in Asks /\ AfterFailure(a).at \in {"idle", "check"} /\ Tries(AfterFailure(a))
  <2>1. NoAsk \in Asks /\ NoAsk.at = "idle" /\ Tries(NoAsk)
    BY SMTT(30) DEF NoAsk, Asks, Attempts, Tries
  <2> DEFINE x == [ask[a] EXCEPT !.at = "check", !.of = "groq", !.try = 0]
  <2>2. x \in Asks /\ x.at = "check" /\ Tries(x)
    <3>1. 0 \in 0 .. Attempts
      BY SMTT(30) DEF Attempts
    <3>2. x \in Asks /\ x.at = "check" /\ x.try = 0
      BY <1>1, <3>1, Zenon DEF Asks
    <3> QED
      BY <3>2, Zenon DEF Tries
  <2>3. AfterFailure(a) = NoAsk \/ AfterFailure(a) = x
    BY Zenon DEF AfterFailure
  <2> HIDE DEF x
  <2> QED
    BY <2>1, <2>2, <2>3, Zenon
<1> QED
  BY <1>2, Zenon DEF Left

(* After a failed attempt a caller has fewer attempts left, or is done.     *)
LEMMA NextTryShape ==
  ASSUME AiInv, NEW a \in Askers, ask[a].at \in {"wait", "record"}
  PROVE  /\ NextTry(a) \in Asks /\ Tries(NextTry(a))
         /\ Left(NextTry(a)) <= Left(ask[a]) /\ Left(NextTry(a)) < Attempts
<1>1. ask[a] \in Asks /\ ask[a].try > 0 /\ ask[a].try \in 0 .. Attempts
  BY Zenon DEF AiInv, Asks, Tries
<1>2. CASE ask[a].try < Attempts
  <2> DEFINE x == [ask[a] EXCEPT !.at = "send"]
  <2>1. x \in Asks /\ x.at = "send" /\ x.try = ask[a].try
    BY <1>1, Zenon DEF Asks
  <2>2. NextTry(a) = x
    BY <1>2, Zenon DEF NextTry
  <2> HIDE DEF x
  <2> QED
    BY <1>1, <1>2, <2>1, <2>2, SMTT(30) DEF Left, Attempts, Tries
<1>3. CASE ~(ask[a].try < Attempts)
  <2>1. NextTry(a) = AfterFailure(a)
    BY <1>3, Zenon DEF NextTry
  <2> QED
    BY <1>1, <2>1, AfterShape, LeftBounds, SMTT(30) DEF Attempts
<1> QED
  BY <1>2, <1>3, Zenon

(* What the invariant says of one caller.                                   *)
LEMMA SinceFacts ==
  ASSUME AiInv, NEW a \in Askers
  PROVE  /\ sinceOpen[a] \in Nat /\ Left(ask[a]) \in 0 .. Attempts /\ ask[a] \in Asks
         /\ sinceOpen[a] + Left(ask[a]) <= Attempts
         /\ ~Open => sinceOpen[a] = 0
BY LeftBounds, Zenon DEF AiInv

(* A step of the call alone: the breaker and the counts stay.                *)
LEMMA CallOnly ==
  ASSUME AiInv, NEW a \in Askers, NEW x \in Asks,
         ask' = [ask EXCEPT ![a] = x], UNCHANGED <<failures, lastFailure, clock, sinceOpen>>,
         Tries(x),
         Open => Left(x) <= Left(ask[a])
  PROVE  AiInv'
<1>1. Open' = Open
  BY Zenon DEF Open, Tripped, Recent
<1>2. Left(x) \in 0 .. Attempts /\ Left(ask[a]) \in 0 .. Attempts /\ sinceOpen[a] \in Nat
      /\ sinceOpen[a] + Left(ask[a]) <= Attempts /\ (~Open => sinceOpen[a] = 0)
  BY LeftBounds, SinceFacts, Zenon
<1>3. sinceOpen'[a] + Left(x) <= Attempts /\ (Open => sinceOpen'[a] + Left(x) <= sinceOpen[a] + Left(ask[a]))
  BY <1>2, SMTT(30) DEF Attempts
<1>4. failures' \in Nat /\ lastFailure' \in Int /\ clock' \in Nat /\ lastFailure' <= clock' /\ sinceOpen' \in [Askers -> Nat]
      /\ (\A b \in Askers \ {a} : sinceOpen'[b] = sinceOpen[b]) /\ (~Open' => \A b \in Askers : sinceOpen'[b] = 0)
  BY <1>1, Zenon DEF AiInv
<1> QED
  BY <1>1, <1>3, <1>4, AskMoves, Zenon

(* A call of the gateway starts.                                            *)
LEMMA AskInv == ASSUME AiInv, NEW a \in Askers, Ask(a) PROVE AiInv'
<1> DEFINE x == [at |-> "check", try |-> 0, of |-> IF "cerebras" \in Keyed THEN "cerebras" ELSE "groq"]
<1>1. x \in Asks /\ x.at = "check" /\ Tries(x)
  BY SMTT(30) DEF Asks, Attempts, Tries
<1>2. ask' = [ask EXCEPT ![a] = x] /\ UNCHANGED <<failures, lastFailure, clock, sinceOpen>>
  BY Zenon DEF Ask
<1> HIDE DEF x
<1>3. Left(x) <= Left(ask[a])
  BY <1>1, SinceFacts, SMTT(30) DEF Left, Attempts
<1> QED
  BY <1>1, <1>2, <1>3, CallOnly, Zenon

(* isOpen is asked before the attempts.                                     *)
LEMMA CheckInv == ASSUME AiInv, NEW a \in Askers, isOpen(a) PROVE AiInv'
<1>1. ask[a] \in Asks /\ UNCHANGED <<failures, lastFailure, clock, sinceOpen>>
  BY Zenon DEF AiInv, isOpen, CheckFailures, CheckTime
<1>2. ASSUME NEW at \in {"check_time", "send"}, ask[a].at \in {"check", "check_time"},
             ask' = [ask EXCEPT ![a].at = at], Open => at # "send" PROVE AiInv'
  <2> DEFINE x == [ask[a] EXCEPT !.at = at]
  <2>1. x \in Asks /\ x.at = at /\ ask' = [ask EXCEPT ![a] = x] /\ x.try = ask[a].try /\ ask[a].try = 0
    BY <1>1, <1>2, Zenon DEF Asks, AiInv, Tries
  <2> HIDE DEF x
  <2>3. Tries(x)
    BY <2>1, SMTT(30) DEF Tries, Attempts
  <2>2. Open => Left(x) <= Left(ask[a])
    BY <1>2, <2>1, SinceFacts, SMTT(30) DEF Left, Attempts
  <2> QED
    BY <1>1, <2>1, <2>2, <2>3, CallOnly, Zenon
<1>3. CASE CheckFailures(a)
  BY <1>2, <1>3, Zenon DEF CheckFailures, Open
<1>4. CASE CheckTime(a) /\ ~Recent
  <2>1. ask' = [ask EXCEPT ![a].at = "send"] /\ ask[a].at = "check_time"
    BY <1>4, Zenon DEF CheckTime
  <2> QED
    BY <1>2, <1>4, <2>1, Zenon DEF Open
<1>5. CASE CheckTime(a) /\ Recent
  <2>1. ask' = [ask EXCEPT ![a] = AfterFailure(a)]
    BY <1>5, Zenon DEF CheckTime
  <2>2. Left(AfterFailure(a)) <= Left(ask[a])
    BY AfterShape, SinceFacts, SMTT(30) DEF Attempts
  <2> QED
    BY <1>1, <2>1, <2>2, AfterShape, CallOnly, Zenon
<1> QED
  BY <1>3, <1>4, <1>5, Zenon DEF isOpen

(* An attempt is sent, and answered or not.                                 *)
LEMMA SendInv == ASSUME AiInv, NEW a \in Askers, Send(a) PROVE AiInv'
<1> DEFINE x == [ask[a] EXCEPT !.at = "wait", !.try = ask[a].try + 1]
<1>1. ask[a] \in Asks /\ ask[a].at = "send" /\ ask[a].try \in 0 .. Attempts /\ ask[a].try < Attempts
  BY Zenon DEF AiInv, Send, Asks, Tries
<1>2. x \in Asks /\ x.at = "wait" /\ x.try = ask[a].try + 1
  <2>1. PICK n \in 0 .. Attempts : n = ask[a].try + 1
    BY <1>1, SMTT(30) DEF Attempts
  <2>2. x = [ask[a] EXCEPT !.at = "wait", !.try = n]
    BY <2>1, Zenon
  <2> QED
    BY <1>1, <2>1, <2>2, Zenon DEF Asks
<1>3. ask' = [ask EXCEPT ![a] = x] /\ UNCHANGED <<failures, lastFailure, clock>>
  BY Zenon DEF Send
<1> HIDE DEF x
<1>4. Left(x) = Left(ask[a]) - 1
  BY <1>1, <1>2, SMTT(30) DEF Left, Attempts
<1>5. Open' = Open
  BY <1>3, Zenon DEF Open, Tripped, Recent
<1>6. /\ sinceOpen' = IF Open THEN [sinceOpen EXCEPT ![a] = @ + 1] ELSE sinceOpen
      /\ sinceOpen' \in [Askers -> Nat] /\ \A b \in Askers \ {a} : sinceOpen'[b] = sinceOpen[b]
      /\ Open => sinceOpen'[a] = sinceOpen[a] + 1
      /\ ~Open => sinceOpen' = sinceOpen
  BY SMTT(30) DEF Send, Open, AiInv
<1>7. sinceOpen[a] \in Nat /\ Left(ask[a]) \in 0 .. Attempts /\ sinceOpen[a] + Left(ask[a]) <= Attempts
  BY SinceFacts, Zenon
<1>8. sinceOpen'[a] + Left(x) <= sinceOpen[a] + Left(ask[a]) /\ sinceOpen'[a] + Left(x) <= Attempts
  BY <1>4, <1>6, <1>7, SMTT(30) DEF Attempts
<1>9. failures' \in Nat /\ lastFailure' \in Int /\ clock' \in Nat /\ lastFailure' <= clock' /\ (~Open' => \A b \in Askers : sinceOpen'[b] = 0)
  BY <1>1, <1>2, <1>3, <1>5, <1>6, Zenon DEF AiInv
<1>10. Tries(x)
  BY <1>1, <1>2, SMTT(30) DEF Tries
<1> QED
  BY <1>2, <1>3, <1>5, <1>6, <1>8, <1>9, <1>10, AskMoves, Zenon

(* A failure counts, and then its time: either may open the breaker.         *)
LEMMA FailsInv == ASSUME AiInv, NEW a \in Askers, Fails(a) PROVE AiInv'
<1> DEFINE x == [ask[a] EXCEPT !.at = "record"]
<1>1. ask[a] \in Asks /\ ask[a].at = "wait" /\ ask[a].try > 0 /\ ask[a].try \in 0 .. Attempts
  BY Zenon DEF AiInv, Fails, Asks, Tries
<1>2. x \in Asks /\ x.at = "record" /\ x.try = ask[a].try /\ Tries(x)
  BY <1>1, Zenon DEF Asks, Tries
<1>3. ask' = [ask EXCEPT ![a] = x] /\ failures' = failures + 1 /\ UNCHANGED <<lastFailure, clock, sinceOpen>>
  BY Zenon DEF Fails
<1> HIDE DEF x
<1>4. Left(x) = Left(ask[a]) /\ Left(x) < Attempts /\ Left(x) \in Nat
  BY <1>1, <1>2, SMTT(30) DEF Left, Attempts
<1>5. Open => Open'
  BY <1>3, AiAssumption, SMTT(30) DEF Open, Tripped, Recent, AiInv
<1>6. sinceOpen[a] \in Nat /\ sinceOpen[a] + Left(ask[a]) <= Attempts /\ (~Open => sinceOpen[a] = 0)
  BY SinceFacts, Zenon
<1>7. /\ failures' \in Nat /\ lastFailure' \in Int /\ clock' \in Nat /\ lastFailure' <= clock' /\ sinceOpen' \in [Askers -> Nat]
      /\ (\A b \in Askers \ {a} : sinceOpen'[b] = sinceOpen[b]) /\ (~Open' => \A b \in Askers : sinceOpen'[b] = 0)
  BY <1>3, <1>5, SMTT(30) DEF AiInv
<1>8. /\ sinceOpen'[a] + Left(x) <= Attempts
      /\ Open => sinceOpen'[a] + Left(x) <= sinceOpen[a] + Left(ask[a])
      /\ Open' /\ ~Open => sinceOpen'[a] + Left(x) < Attempts
  BY <1>3, <1>4, <1>6, SMTT(30) DEF Attempts
<1> QED
  BY <1>2, <1>3, <1>7, <1>8, AskMoves, Zenon

(* recordFailure counts a failure and may open the breaker.                 *)
LEMMA RecordInv == ASSUME AiInv, NEW a \in Askers, recordFailure(a) PROVE AiInv'
<1>1. ask[a].at = "record" /\ ask' = [ask EXCEPT ![a] = NextTry(a)] /\ lastFailure' = clock
      /\ UNCHANGED <<failures, clock, sinceOpen>>
  BY Zenon DEF recordFailure
<1> DEFINE x == NextTry(a)
<1>2. x \in Asks /\ Tries(x) /\ Left(x) <= Left(ask[a]) /\ Left(x) < Attempts
  BY <1>1, NextTryShape, Zenon
<1>3. ask' = [ask EXCEPT ![a] = x]
  BY <1>1, Zenon
<1> HIDE DEF x
<1>4. Open => Open'
  BY <1>1, Zenon DEF Open, Tripped, Recent
<1>5. sinceOpen[a] \in Nat /\ sinceOpen[a] + Left(ask[a]) <= Attempts /\ (~Open => sinceOpen[a] = 0)
      /\ Left(x) \in Nat /\ Left(ask[a]) \in Nat
  BY <1>2, SinceFacts, LeftBounds, Zenon
<1>6. /\ failures' \in Nat /\ lastFailure' \in Int /\ clock' \in Nat /\ lastFailure' <= clock' /\ sinceOpen' \in [Askers -> Nat]
      /\ (\A b \in Askers \ {a} : sinceOpen'[b] = sinceOpen[b]) /\ (~Open' => \A b \in Askers : sinceOpen'[b] = 0)
  BY <1>1, <1>4, SMTT(30) DEF AiInv
<1>7. /\ sinceOpen'[a] + Left(x) <= Attempts
      /\ Open => sinceOpen'[a] + Left(x) <= sinceOpen[a] + Left(ask[a])
      /\ Open' /\ ~Open => sinceOpen'[a] + Left(x) < Attempts
  BY <1>1, <1>2, <1>5, SMTT(30) DEF Attempts
<1> QED
  BY <1>2, <1>3, <1>6, <1>7, AskMoves, Zenon

(* The breaker closes: nothing has been sent since it opened.                *)
LEMMA ClosedInv ==
  ASSUME AiInv, failures' \in Nat, lastFailure' \in Int, clock' \in Nat, lastFailure' <= clock',
         ask' \in [Askers -> Asks], \A a \in Askers : Tries(ask'[a]),
         sinceOpen' = [b \in Askers |-> 0], ~Open'
  PROVE  AiInv'
<1>1. \A a \in Askers : Left(ask'[a]) \in 0 .. Attempts
  BY LeftBounds, Zenon
<1>2. \A a \in Askers : sinceOpen'[a] + Left(ask'[a]) <= Attempts
  BY <1>1, SMTT(30) DEF Attempts
<1> QED
  BY <1>2, Zenon DEF AiInv

(* The invariant is inductive.                                              *)
LEMMA AiStep == AiInv /\ [AiNext]_aiVars => AiInv'
<1> SUFFICES ASSUME AiInv, [AiNext]_aiVars PROVE AiInv'
  BY Zenon
<1>1. ASSUME NEW a \in Askers, Send(a) PROVE AiInv'
  BY <1>1, SendInv, Zenon
<1>2. ASSUME NEW a \in Askers, BadShape(a) PROVE AiInv'
  <2>1. ask[a].at = "wait" /\ ask' = [ask EXCEPT ![a] = NextTry(a)] /\ UNCHANGED <<failures, lastFailure, clock, sinceOpen>>
    BY <1>2, Zenon DEF BadShape
  <2> QED
    BY <2>1, NextTryShape, CallOnly, Zenon
<1>3. ASSUME NEW a \in Askers, Succeeds(a) PROVE AiInv'
  <2>1. NoAsk \in Asks /\ NoAsk.at = "idle" /\ Tries(NoAsk)
    BY SMTT(30) DEF NoAsk, Asks, Attempts, Tries
  <2>2. /\ ask' = [ask EXCEPT ![a] = NoAsk] /\ failures' = 0 /\ UNCHANGED <<lastFailure, clock>>
        /\ sinceOpen' = [b \in Askers |-> 0]
    BY <1>3, Zenon DEF Succeeds
  <2>3. ~Open'
    BY <2>2, AiAssumption, SMTT(30) DEF Open, Tripped
  <2>4. ask' \in [Askers -> Asks] /\ \A b \in Askers : Tries(ask'[b])
    BY <2>1, <2>2, Zenon DEF AiInv
  <2>5. failures' \in Nat /\ lastFailure' \in Int /\ clock' \in Nat /\ lastFailure' <= clock'
    BY <2>2, Zenon DEF AiInv
  <2> QED
    BY <2>2, <2>3, <2>4, <2>5, ClosedInv, Zenon
<1>4. ASSUME NEW a \in Askers, Cancelled(a) PROVE AiInv'
  <2>1. ask' = [ask EXCEPT ![a] = AfterFailure(a)] /\ UNCHANGED <<failures, lastFailure, clock, sinceOpen>>
    BY <1>4, Zenon DEF Cancelled
  <2>2. Left(AfterFailure(a)) <= Left(ask[a])
    BY AfterShape, SinceFacts, SMTT(30) DEF Attempts
  <2> QED
    BY <2>1, <2>2, AfterShape, CallOnly, Zenon
<1>5. CASE RecoveryPasses
  <2>1. clock' = clock + 1 /\ UNCHANGED <<failures, lastFailure, ask>> /\ sinceOpen' = [b \in Askers |-> 0]
    BY <1>5, Zenon DEF RecoveryPasses
  <2>2. ~Open'
    BY <2>1, SMTT(30) DEF Open, Recent, AiInv
  <2>3. failures' \in Nat /\ lastFailure' \in Int /\ clock' \in Nat /\ lastFailure' <= clock' /\ ask' \in [Askers -> Asks]
        /\ \A b \in Askers : Tries(ask'[b])
    BY <2>1, SMTT(30) DEF AiInv
  <2> QED
    BY <2>1, <2>2, <2>3, ClosedInv, Zenon
<1>6. CASE UNCHANGED aiVars
  BY <1>6, Zenon DEF aiVars, AiInv, Open, Tripped, Recent
<1> QED
  BY <1>1, <1>2, <1>3, <1>4, <1>5, <1>6, AskInv, CheckInv, FailsInv, RecordInv, Zenon
     DEF AiNext, callProvider

(* While the breaker is open only calls already admitted send the rest of   *)
(* their attempts, and not all of them every one, however many calls are in *)
(* flight and whatever the threshold, although isOpen and recordFailure     *)
(* each take two steps.                                                     *)
THEOREM OpenBreakerHolds == AiSpec => []BreakerHolds
<1>1. AiInv => BreakerHolds
  <2> SUFFICES ASSUME AiInv PROVE BreakerHolds
    BY Zenon
  <2>1. \A a \in Askers : sinceOpen[a] \in Nat /\ Left(ask[a]) \in Nat /\ sinceOpen[a] + Left(ask[a]) <= Attempts
    BY SinceFacts, LeftBounds, Zenon
  <2>2. \A a \in Askers : sinceOpen[a] <= Attempts
    BY <2>1, SMTT(30) DEF Attempts
  <2>3. ASSUME Askers # {} PROVE \E a \in Askers : sinceOpen[a] < Attempts
    <3>1. CASE Open
      BY <2>1, <3>1, SMTT(30) DEF AiInv, Attempts
    <3>2. CASE ~Open
      BY <2>3, <3>2, SMTT(30) DEF AiInv, Attempts
    <3> QED
      BY <3>1, <3>2, Zenon
  <2> QED
    BY <2>2, <2>3, Zenon DEF BreakerHolds
<1> QED
  BY <1>1, AiInitInv, AiStep, PTL DEF AiSpec

-----------------------------------------------------------------------------
(* The cached room lists.                                                   *)
(* The shape of the state. *)
RoomTypes ==
  /\ DOMAIN cached = ListKeys
  /\ DOMAIN hand = Hands
  /\ \A h \in Hands : DOMAIN hand[h] = {"at", "key", "list", "overtaken"}

(* A reader that no write overtook holds the current list. *)
HandHolds(x) == x.at = "fill" => x.key \in ListKeys /\ (x.overtaken \/ x.list = ListRooms(x.key))

(* What StaleOnlyIfKnown says of one key. *)
Excusable(key) ==
  \/ cached[key] = None
  \/ cached[key] = ListRooms(key)
  \/ key \in stale
  \/ \E h \in Hands : hand[h].at = "drop"

RoomInv ==
  /\ RoomTypes
  /\ \A h \in Hands : HandHolds(hand[h])
  /\ \A key \in ListKeys \cap Invalidated : Excusable(key)

(* While the rooms stand, so do their lists.                                *)
LEMMA SameRooms == ASSUME rooms' = rooms PROVE \A key : ListRooms(key)' = ListRooms(key)
BY Zenon DEF ListRooms

(* The shape of a free slot.                                                *)
LEMMA NoHandShape ==
  /\ DOMAIN NoHand = {"at", "key", "list", "overtaken"} /\ NoHand.at = "idle"
BY Zenon DEF NoHand

(* Init establishes the invariant.                                          *)
LEMMA RoomInitInv == RoomCacheInit => RoomInv
BY NoHandShape, Zenon DEF RoomCacheInit, RoomInv, RoomTypes, HandHolds, Excusable

(* A list that is not cached is read from the table.                        *)
LEMMA ReadMissInv == ASSUME RoomInv, NEW h \in Hands, NEW key \in ListKeys, ReadMiss(h, key) PROVE RoomInv'
<1> DEFINE x == [NoHand EXCEPT !.at = "fill", !.key = key, !.list = ListRooms(key)]
<1>1. x.at = "fill" /\ x.key = key /\ x.list = ListRooms(key) /\ DOMAIN x = {"at", "key", "list", "overtaken"}
  BY Zenon DEF NoHand
<1>2. hand' = [hand EXCEPT ![h] = x] /\ rooms' = rooms /\ cached' = cached /\ stale' = stale /\ hand[h].at = "idle"
  BY Zenon DEF ReadMiss
<1> HIDE DEF x
<1>3. hand'[h] = x /\ \A j \in Hands \ {h} : hand'[j] = hand[j]
  BY <1>2, Zenon DEF RoomInv, RoomTypes
<1>4. RoomTypes'
  BY <1>1, <1>2, <1>3, Zenon DEF RoomInv, RoomTypes
<1>5. ASSUME NEW j \in Hands PROVE HandHolds(hand[j])'
  BY <1>1, <1>2, <1>3, SameRooms, SMTT(30) DEF RoomInv, HandHolds
<1>6. ASSUME NEW k \in ListKeys \cap Invalidated PROVE Excusable(k)'
  BY <1>2, <1>3, SameRooms, Zenon DEF RoomInv, Excusable
<1> QED
  BY <1>4, <1>5, <1>6, Zenon DEF RoomInv

(* A step that sets one hand to rest and leaves the rooms alone. *)
LEMMA RestInv ==
  ASSUME RoomInv, NEW h \in Hands, hand' = [hand EXCEPT ![h] = NoHand], rooms' = rooms,
         DOMAIN cached' = ListKeys, \A k \in ListKeys \cap Invalidated : Excusable(k)'
  PROVE  RoomInv'
<1>1. hand'[h] = NoHand /\ \A j \in Hands \ {h} : hand'[j] = hand[j]
  BY Zenon DEF RoomInv, RoomTypes
<1>2. RoomTypes'
  BY <1>1, NoHandShape, Zenon DEF RoomInv, RoomTypes
<1>3. ASSUME NEW j \in Hands PROVE HandHolds(hand[j])'
  BY <1>1, NoHandShape, SameRooms, SMTT(30) DEF RoomInv, HandHolds
<1> QED
  BY <1>2, <1>3, Zenon DEF RoomInv

(* The list read is put in the cache.                                       *)
LEMMA FillInv == ASSUME RoomInv, NEW h \in Hands, Fill(h) PROVE RoomInv'
<1> DEFINE key == hand[h].key
<1>1. hand' = [hand EXCEPT ![h] = NoHand] /\ rooms' = rooms /\ hand[h].at = "fill"
  BY Zenon DEF Fill
<1>2. key \in ListKeys /\ (hand[h].overtaken \/ hand[h].list = ListRooms(key))
  BY <1>1, Zenon DEF RoomInv, HandHolds
<1>3. \A j \in Hands : hand[j].at = "drop" => hand'[j].at = "drop"
  BY <1>1, Zenon DEF RoomInv, RoomTypes
<1>4. DOMAIN cached' = ListKeys
  BY Zenon DEF Fill, RoomInv, RoomTypes
<1>5. ASSUME NEW k \in ListKeys \cap Invalidated PROVE Excusable(k)'
  <2>1. Excusable(k) /\ ListRooms(k)' = ListRooms(k)
    BY <1>1, SameRooms, Zenon DEF RoomInv
  <2>2. CASE cached' = cached /\ stale' = stale
    BY <1>3, <2>1, <2>2, Zenon DEF Excusable
  <2>3. CASE /\ cached' = [cached EXCEPT ![key] = hand[h].list]
             /\ stale' = IF hand[h].overtaken THEN stale \cup {key} ELSE stale \ {key}
    <3>1. CASE k = key
      <4>1. cached'[k] = hand[h].list
        BY <1>2, <2>3, <3>1, Zenon DEF RoomInv, RoomTypes
      <4> QED
        BY <1>2, <2>1, <2>3, <3>1, <4>1, Zenon DEF Excusable
    <3>2. CASE k # key
      <4>1. cached'[k] = cached[k] /\ (k \in stale => k \in stale')
        BY <2>3, <3>2, Zenon DEF RoomInv, RoomTypes
      <4> QED
        BY <1>3, <2>1, <4>1, Zenon DEF Excusable
    <3> QED
      BY <3>1, <3>2, Zenon
  <2> QED
    BY <2>2, <2>3, Zenon DEF Fill
<1> QED
  BY <1>1, <1>4, <1>5, RestInv, Zenon

(* invalidateRooms drops the cached lists.                                  *)
LEMMA InvalidateInv == ASSUME RoomInv, NEW h \in Hands, invalidateRooms(h) PROVE RoomInv'
<1>1. hand' = [hand EXCEPT ![h] = NoHand] /\ rooms' = rooms
  BY Zenon DEF invalidateRooms
<1>2. DOMAIN cached' = ListKeys
  BY Zenon DEF invalidateRooms, RoomInv, RoomTypes
<1>3. ASSUME NEW k \in ListKeys \cap Invalidated PROVE Excusable(k)'
  BY Zenon DEF invalidateRooms, Excusable
<1> QED
  BY <1>1, <1>2, <1>3, RestInv, Zenon

(* A list being read that a write overtakes is marked so, and changes in    *)
(* nothing else.                                                            *)
LEMMA OvertakeShape ==
  ASSUME RoomInv, NEW j \in Hands
  PROVE  /\ DOMAIN Overtake(j) = {"at", "key", "list", "overtaken"}
         /\ Overtake(j).at = hand[j].at /\ Overtake(j).key = hand[j].key
         /\ hand[j].at = "fill" => Overtake(j).overtaken
BY Zenon DEF RoomInv, RoomTypes, Overtake

(* A write that overtakes the readers and leaves the cache alone. *)
LEMMA WriteInv ==
  ASSUME RoomInv, cached' = cached, NEW h \in Hands, NEW x,
         x.at = "drop", DOMAIN x = {"at", "key", "list", "overtaken"},
         hand' = [j \in Hands |-> IF j = h THEN x ELSE Overtake(j)]
  PROVE  RoomInv'
<1>1. hand'[h] = x /\ \A j \in Hands \ {h} : hand'[j] = Overtake(j)
  BY Zenon
<1>2. RoomTypes'
  BY <1>1, OvertakeShape, Zenon DEF RoomInv, RoomTypes
<1>3. ASSUME NEW j \in Hands PROVE HandHolds(hand[j])'
  BY <1>1, OvertakeShape, Zenon DEF RoomInv, HandHolds
<1>4. ASSUME NEW k \in ListKeys \cap Invalidated PROVE Excusable(k)'
  BY <1>1, Zenon DEF Excusable
<1> QED
  BY <1>2, <1>3, <1>4, Zenon DEF RoomInv

(* The front desk writes a room and leaves the cache alone.                 *)
LEMMA FrontDeskWritesInv ==
  ASSUME RoomInv, NEW r \in Chambers, NEW s \in RoomStates, FrontDeskWrites(r, s) PROVE RoomInv'
<1>1. hand' = [j \in Hands |-> Overtake(j)] /\ cached' = cached
  BY Zenon DEF FrontDeskWrites
<1>2. RoomTypes'
  BY <1>1, OvertakeShape, Zenon DEF RoomInv, RoomTypes
<1>3. ASSUME NEW j \in Hands PROVE HandHolds(hand[j])'
  BY <1>1, OvertakeShape, Zenon DEF RoomInv, HandHolds
<1>4. ASSUME NEW k \in ListKeys \cap Invalidated PROVE Excusable(k)'
  BY <1>1, Zenon DEF Excusable, FrontDeskWrites
<1> QED
  BY <1>2, <1>3, <1>4, Zenon DEF RoomInv

(* A cached list expires.                                                   *)
LEMMA ExpireInv == ASSUME RoomInv, NEW key \in ListKeys, Expire(key) PROVE RoomInv'
<1>1. hand' = hand /\ rooms' = rooms /\ cached' = [cached EXCEPT ![key] = None] /\ stale' = stale \ {key}
  BY Zenon DEF Expire
<1>2. RoomTypes'
  BY <1>1, Zenon DEF RoomInv, RoomTypes
<1>3. ASSUME NEW j \in Hands PROVE HandHolds(hand[j])'
  BY <1>1, SameRooms, Zenon DEF RoomInv, HandHolds
<1>4. ASSUME NEW k \in ListKeys \cap Invalidated PROVE Excusable(k)'
  BY <1>1, SameRooms, Zenon DEF RoomInv, RoomTypes, Excusable
<1> QED
  BY <1>2, <1>3, <1>4, Zenon DEF RoomInv

(* The invariant is inductive.                                              *)
LEMMA RoomStep == RoomInv /\ [RoomCacheNext]_roomCacheVars => RoomInv'
<1> SUFFICES ASSUME RoomInv, [RoomCacheNext]_roomCacheVars PROVE RoomInv'
  BY Zenon
<1>1. ASSUME NEW h \in Hands, List(h) \/ invalidateRooms(h) PROVE RoomInv'
  BY <1>1, ReadMissInv, FillInv, InvalidateInv, Zenon DEF List
<1>2. ASSUME NEW h \in Hands, NEW r, NEW s, ChangeRoom(h, r, s) PROVE RoomInv'
  <2> DEFINE x == [NoHand EXCEPT !.at = "drop"]
  <2>1. x.at = "drop" /\ DOMAIN x = {"at", "key", "list", "overtaken"}
    BY Zenon DEF NoHand
  <2>2. cached' = cached /\ hand' = [j \in Hands |-> IF j = h THEN x ELSE Overtake(j)]
    BY <1>2, Zenon DEF ChangeRoom
  <2> HIDE DEF x
  <2> QED
    BY <2>1, <2>2, WriteInv, Zenon
<1>6. ASSUME NEW h \in Hands, NEW r, NEW s, Import(h, r, s) PROVE RoomInv'
  <2> DEFINE x == [NoHand EXCEPT !.at = "drop", !.key = "import"]
  <2>1. x.at = "drop" /\ DOMAIN x = {"at", "key", "list", "overtaken"}
    BY Zenon DEF NoHand
  <2>2. cached' = cached /\ hand' = [j \in Hands |-> IF j = h THEN x ELSE Overtake(j)]
    BY <1>6, Zenon DEF Import
  <2> HIDE DEF x
  <2> QED
    BY <2>1, <2>2, WriteInv, Zenon
<1>3. ASSUME NEW r \in Chambers, NEW s \in RoomStates, FrontDeskWrites(r, s) PROVE RoomInv'
  BY <1>3, FrontDeskWritesInv, Zenon
<1>4. ASSUME NEW key \in ListKeys, Expire(key) PROVE RoomInv'
  BY <1>4, ExpireInv, Zenon
<1>5. CASE UNCHANGED roomCacheVars
  BY <1>5, SameRooms, Zenon DEF roomCacheVars, RoomInv, RoomTypes, HandHolds, Excusable
<1> QED
  BY <1>1, <1>2, <1>3, <1>4, <1>5, <1>6, Zenon DEF RoomCacheNext

(* A cached room list is out of date only while its deletion is due, or for *)
(* one of the known causes: a failed deletion, a write of the front desk, a *)
(* reader that stored what it had read before a write; for any number of    *)
(* readers and writers.                                                     *)
THEOREM StalenessIsKnown == RoomCacheSpec => []StaleOnlyIfKnown
<1>1. RoomInv => StaleOnlyIfKnown
  BY Zenon DEF RoomInv, Excusable, StaleOnlyIfKnown, Invalidated
<1> QED
  BY <1>1, RoomInitInv, RoomStep, PTL DEF RoomCacheSpec

-----------------------------------------------------------------------------
INSTANCE FiniteSetTheorems

(* The connections that opening a table holds.                              *)

Openings == [at : {"rest", "lock", "customer", "lookup", "commit"}, table : Boards \cup {"none"}]
InLookup == {w \in Waiters : opening[w].at = "lookup"}
Holding == {"customer", "lookup", "commit"}

(* Connections are accounted for: one for each transaction and one more for  *)
(* each lookup.  A row lock belongs to a transaction that is past its SELECT.*)
ConnInv ==
  /\ opening \in [Waiters -> Openings]
  /\ \A w \in Waiters : opening[w].at # "rest" => opening[w].table \in Boards
  /\ DOMAIN tableLock = Boards
  /\ \A t \in Boards : tableLock[t] # Unlocked =>
       tableLock[t] \in Waiters /\ opening[tableLock[t]].at \in Holding /\ opening[tableLock[t]].table = t
  /\ free = MaxConns - Cardinality(InTx) - Cardinality(InLookup)

(* The requests that hold a connection are finitely many.                   *)
LEMMA SetsFinite == IsFiniteSet(InTx) /\ IsFiniteSet(InLookup)
                    /\ Cardinality(InTx) \in Nat /\ Cardinality(InLookup) \in Nat
<1>1. IsFiniteSet(InTx) /\ IsFiniteSet(InLookup)
  BY PoolAssumption, FS_Subset, Zenon DEF InTx, InLookup
<1> QED
  BY <1>1, FS_CardinalityType, Zenon

(* A set that gains an element has one more.                                *)
LEMMA Grown == ASSUME NEW S, IsFiniteSet(S), NEW w, w \notin S
               PROVE Cardinality(S \cup {w}) = Cardinality(S) + 1
BY FS_AddElement, Zenon

(* A set that loses an element has one less.                                *)
LEMMA Shrunk == ASSUME NEW S, IsFiniteSet(S), NEW w \in S
                PROVE Cardinality(S \ {w}) = Cardinality(S) - 1
BY FS_RemoveElement, Zenon

(* Init establishes the invariant.                                          *)
LEMMA ConnInitInv == ConnInit => ConnInv
<1> SUFFICES ASSUME ConnInit PROVE ConnInv
  BY Zenon
<1>1. InTx = {} /\ InLookup = {}
  BY Zenon DEF ConnInit, InTx, InLookup, Resting
<1>2. free = MaxConns - Cardinality(InTx) - Cardinality(InLookup)
  BY <1>1, FS_EmptySet, PoolAssumption, SMTT(30) DEF ConnInit
<1> QED
  BY <1>2, Zenon DEF ConnInit, ConnInv, Openings, Resting

(* What a step does to one opening.                                          *)
LEMMA Moved ==
  ASSUME ConnInv, NEW w \in Waiters, NEW x \in Openings, opening' = [opening EXCEPT ![w] = x]
  PROVE  /\ opening' \in [Waiters -> Openings]
         /\ opening'[w] = x /\ \A v \in Waiters \ {w} : opening'[v] = opening[v]
         /\ x.at = "rest" => InTx' = InTx \ {w}
         /\ x.at # "rest" => InTx' = InTx \cup {w} /\ (w \in InTx => InTx' = InTx)
         /\ x.at = "lookup" => InLookup' = InLookup \cup {w}
         /\ x.at # "lookup" => InLookup' = InLookup \ {w} /\ (w \notin InLookup => InLookup' = InLookup)
<1>1. opening' \in [Waiters -> Openings] /\ opening'[w] = x /\ \A v \in Waiters \ {w} : opening'[v] = opening[v]
  BY Zenon DEF ConnInv
<1>2. x.at = "rest" => InTx' = InTx \ {w}
  BY <1>1, Zenon DEF InTx
<1>3. x.at # "rest" => InTx' = InTx \cup {w} /\ (w \in InTx => InTx' = InTx)
  BY <1>1, Zenon DEF InTx
<1>4. x.at = "lookup" => InLookup' = InLookup \cup {w}
  BY <1>1, Zenon DEF InLookup
<1>5. x.at # "lookup" => InLookup' = InLookup \ {w} /\ (w \notin InLookup => InLookup' = InLookup)
  BY <1>1, Zenon DEF InLookup
<1> QED
  BY <1>1, <1>2, <1>3, <1>4, <1>5, Zenon

(* A request takes a connection for its transaction.                        *)
LEMMA BeginTxInv == ASSUME ConnInv, NEW w \in Waiters, NEW t \in Boards, BeginTx(w, t) PROVE ConnInv'
<1> DEFINE x == [at |-> "lock", table |-> t]
<1>1. x \in Openings /\ x.at = "lock" /\ x.table = t
  BY Zenon DEF Openings
<1>2. opening' = [opening EXCEPT ![w] = x] /\ free' = free - 1 /\ tableLock' = tableLock /\ opening[w].at = "rest"
  BY Zenon DEF BeginTx
<1> HIDE DEF x
<1>3. w \notin InTx /\ w \notin InLookup
  BY <1>2, Zenon DEF InTx, InLookup
<1>4. InTx' = InTx \cup {w} /\ InLookup' = InLookup
  BY <1>1, <1>2, <1>3, Moved, Zenon
<1>5. free' = MaxConns - Cardinality(InTx') - Cardinality(InLookup')
  BY <1>2, <1>3, <1>4, SetsFinite, Grown, PoolAssumption, SMTT(30) DEF ConnInv
<1>6. \A s \in Boards : tableLock[s] # Unlocked => tableLock[s] # w
  BY <1>2, Zenon DEF ConnInv, Holding
<1> QED
  BY <1>1, <1>2, <1>5, <1>6, Moved, SMTT(30) DEF ConnInv

(* A request locks its table, or waits for it.                              *)
LEMMA LockTableInv == ASSUME ConnInv, NEW w \in Waiters, LockTable(w) PROVE ConnInv'
<1> DEFINE t == opening[w].table
<1>1. opening[w].at = "lock" /\ t \in Boards /\ tableLock[t] = Unlocked /\ w \in InTx /\ w \notin InLookup
  BY Zenon DEF LockTable, ConnInv, InTx, InLookup
<1>2. \A s \in Boards : tableLock[s] # Unlocked => tableLock[s] # w
  BY <1>1, Zenon DEF ConnInv, Holding
<1>3. CASE opening' = [opening EXCEPT ![w] = Resting] /\ free' = free + 1 /\ tableLock' = tableLock
  <2>1. Resting \in Openings /\ Resting.at = "rest"
    BY Zenon DEF Resting, Openings
  <2>2. InTx' = InTx \ {w} /\ InLookup' = InLookup
    BY <1>1, <1>3, <2>1, Moved, Zenon
  <2>3. free' = MaxConns - Cardinality(InTx') - Cardinality(InLookup')
    BY <1>1, <1>3, <2>2, SetsFinite, Shrunk, PoolAssumption, SMTT(30) DEF ConnInv
  <2> QED
    BY <1>2, <1>3, <2>1, <2>3, Moved, SMTT(30) DEF ConnInv
<1>4. ASSUME NEW at \in {"customer", "commit"}, opening' = [opening EXCEPT ![w].at = at],
             tableLock' = [tableLock EXCEPT ![t] = w], free' = free
      PROVE  ConnInv'
  <2> DEFINE x == [opening[w] EXCEPT !.at = at]
  <2>1. x \in Openings /\ x.at = at /\ x.table = t
    BY SMTT(30) DEF ConnInv, Openings
  <2>2. opening' = [opening EXCEPT ![w] = x]
    BY <1>4, Zenon
  <2> HIDE DEF x
  <2>3. InTx' = InTx /\ InLookup' = InLookup
    BY <1>1, <2>1, <2>2, Moved, Zenon
  <2>4. tableLock'[t] = w /\ \A s \in Boards \ {t} : tableLock'[s] = tableLock[s]
    BY <1>1, <1>4, Zenon DEF ConnInv
  <2>5. DOMAIN tableLock' = Boards
    BY <1>4, Zenon DEF ConnInv
  <2>6. \A s \in Boards : tableLock'[s] # Unlocked =>
          tableLock'[s] \in Waiters /\ opening'[tableLock'[s]].at \in Holding /\ opening'[tableLock'[s]].table = s
    <3> SUFFICES ASSUME NEW s \in Boards, tableLock'[s] # Unlocked
                 PROVE tableLock'[s] \in Waiters /\ opening'[tableLock'[s]].at \in Holding
                       /\ opening'[tableLock'[s]].table = s
      BY Zenon
    <3>1. CASE s = t
      BY <2>1, <2>2, <2>4, <3>1, Moved, Zenon DEF Holding
    <3>2. CASE s # t
      BY <1>2, <2>1, <2>2, <2>4, <3>2, Moved, SMTT(30) DEF ConnInv
    <3> QED
      BY <3>1, <3>2, Zenon
  <2> QED
    BY <1>1, <1>4, <2>1, <2>2, <2>3, <2>5, <2>6, Moved, SMTT(30) DEF ConnInv
<1> QED
  BY <1>3, <1>4, Zenon DEF LockTable

(* A lookup takes a second connection, or returns it.                        *)
LEMMA LookupInv == ASSUME ConnInv, NEW w \in Waiters, BorrowConn(w) \/ ReturnConn(w) PROVE ConnInv'
<1>1. PICK at \in Holding : opening' = [opening EXCEPT ![w].at = at]
                            /\ IF at = "lookup" THEN opening[w].at = "customer" /\ free' = free - 1
                               ELSE opening[w].at = "lookup" /\ free' = free + 1
  BY Zenon DEF BorrowConn, ReturnConn, Holding
<1> DEFINE x == [opening[w] EXCEPT !.at = at]
<1>2. x \in Openings /\ x.at = at /\ x.table = opening[w].table
  BY SMTT(30) DEF ConnInv, Openings, Holding
<1>3. opening' = [opening EXCEPT ![w] = x] /\ tableLock' = tableLock
  BY <1>1, Zenon DEF BorrowConn, ReturnConn
<1> HIDE DEF x
<1>4. w \in InTx /\ at # "rest" /\ opening[w].table \in Boards
  BY <1>1, Zenon DEF InTx, Holding, ConnInv
<1>5. InTx' = InTx
  BY <1>2, <1>3, <1>4, Moved, Zenon
<1>6. free' = MaxConns - Cardinality(InTx') - Cardinality(InLookup')
  <2>1. CASE at = "lookup"
    <3>1. w \notin InLookup /\ InLookup' = InLookup \cup {w}
      BY <1>1, <1>2, <1>3, <2>1, Moved, Zenon DEF InLookup
    <3> QED
      BY <1>1, <1>5, <2>1, <3>1, SetsFinite, Grown, PoolAssumption, SMTT(30) DEF ConnInv
  <2>2. CASE at # "lookup"
    <3>1. w \in InLookup /\ InLookup' = InLookup \ {w}
      BY <1>1, <1>2, <1>3, <2>2, Moved, Zenon DEF InLookup
    <3> QED
      BY <1>1, <1>5, <2>2, <3>1, SetsFinite, Shrunk, PoolAssumption, SMTT(30) DEF ConnInv
  <2> QED
    BY <2>1, <2>2, Zenon
<1>7. \A s \in Boards : tableLock'[s] # Unlocked =>
        tableLock'[s] \in Waiters /\ opening'[tableLock'[s]].at \in Holding /\ opening'[tableLock'[s]].table = s
  BY <1>2, <1>3, Moved, SMTT(30) DEF ConnInv
<1> QED
  BY <1>2, <1>3, <1>4, <1>6, <1>7, Moved, SMTT(30) DEF ConnInv

(* A transaction ends and gives back its lock and its connection.           *)
LEMMA EndTxInv == ASSUME ConnInv, NEW w \in Waiters, EndTx(w) PROVE ConnInv'
<1> DEFINE t == opening[w].table
<1>1. opening[w].at = "commit" /\ t \in Boards /\ w \in InTx /\ w \notin InLookup
  BY Zenon DEF EndTx, ConnInv, InTx, InLookup
<1>2. opening' = [opening EXCEPT ![w] = Resting] /\ free' = free + 1 /\ tableLock' = [tableLock EXCEPT ![t] = Unlocked]
  BY Zenon DEF EndTx
<1>3. Resting \in Openings /\ Resting.at = "rest"
  BY Zenon DEF Resting, Openings
<1>4. InTx' = InTx \ {w} /\ InLookup' = InLookup
  BY <1>1, <1>2, <1>3, Moved, Zenon
<1>5. free' = MaxConns - Cardinality(InTx') - Cardinality(InLookup')
  BY <1>1, <1>2, <1>4, SetsFinite, Shrunk, PoolAssumption, SMTT(30) DEF ConnInv
<1>6. tableLock'[t] = Unlocked /\ \A s \in Boards \ {t} : tableLock'[s] = tableLock[s]
  BY <1>1, <1>2, Zenon DEF ConnInv
<1>7. \A s \in Boards : tableLock'[s] # Unlocked =>
        tableLock'[s] \in Waiters /\ opening'[tableLock'[s]].at \in Holding /\ opening'[tableLock'[s]].table = s
  BY <1>2, <1>3, <1>6, Moved, SMTT(30) DEF ConnInv
<1>8. DOMAIN tableLock' = Boards
  BY <1>2, Zenon DEF ConnInv
<1> QED
  BY <1>2, <1>3, <1>5, <1>7, <1>8, Moved, SMTT(30) DEF ConnInv

(* The invariant is inductive.                                              *)
LEMMA ConnStep == ConnInv /\ [ConnNext]_connVars => ConnInv'
<1> SUFFICES ASSUME ConnInv, [ConnNext]_connVars PROVE ConnInv'
  BY Zenon
<1>1. ASSUME NEW w \in Waiters, OpenSessionTx(w) PROVE ConnInv'
  BY <1>1, BeginTxInv, LockTableInv, LookupInv, EndTxInv, Zenon DEF OpenSessionTx
<1>2. CASE UNCHANGED <<free, opening, tableLock>>
  BY <1>2, Zenon DEF ConnInv, InTx, InLookup
<1> QED
  BY <1>1, <1>2, Zenon DEF ConnNext, FreeTable, connVars

(* While fewer openings of a table are in a transaction than the pool has   *)
(* connections, one of them can go on: OpenSession, which asks for a second *)
(* connection, never has them all wait on each other; for any number of     *)
(* requests, tables and connections.                                        *)
THEOREM SomeoneAlwaysMoves == ConnSpec => []SomeoneMoves
<1>1. ConnInv => SomeoneMoves
  <2> SUFFICES ASSUME ConnInv, InTx # {}, Cardinality(InTx) < MaxConns, \A w \in InTx : ~Moving(w) PROVE FALSE
    BY Zenon DEF SomeoneMoves
  <2>1. InLookup = {}
    BY Zenon DEF InLookup, InTx, Moving
  <2>2. free > 0
    BY <2>1, FS_EmptySet, SetsFinite, PoolAssumption, SMTT(30) DEF ConnInv
  <2>3. PICK w \in InTx : TRUE
    BY Zenon
  <2>4. opening[w].at = "lock" /\ opening[w].table \in Boards /\ tableLock[opening[w].table] # Unlocked
    BY <2>2, <2>3, SMTT(30) DEF ConnInv, Openings, InTx, Moving
  <2>5. PICK v \in InTx : opening[v].at \in Holding
    BY <2>4, Zenon DEF ConnInv, InTx, Holding
  <2> QED
    BY <2>2, <2>5, Zenon DEF Moving, Holding
<1> QED
  BY <1>1, ConnInitInv, ConnStep, PTL DEF ConnSpec

=============================================================================
