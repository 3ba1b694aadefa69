--------------------------- MODULE GatewayPayment ---------------------------
(***************************************************************************)
(* Online checkout (internal/service/payment_service.go): a booking takes  *)
(* a Redis lock, resolves a room, writes a stay and a payment, marks the   *)
(* room occupied and calls the gateway; a failed call is compensated       *)
(* statement by statement.  The lock has a TTL (10s) shorter than the      *)
(* gateway's timeout (15s), and its deferred Delete does not ask whose it  *)
(* is.  A payment is completed by a later, separate request.               *)
(*                                                                         *)
(* One booking id stands for the stay and the payment created together.    *)
(* All bookings are for the same nights, so the exclusion constraint on    *)
(* guest_stays allows one stay per room.  The nightly price is 1 USD: an   *)
(* amount is the exchange rate it was converted at.                        *)
(***************************************************************************)
EXTENDS Integers, FiniteSets, FiniteSetsExt

CONSTANTS
  Requests,     \* HTTP requests being served at the same time
  Guests,       \* users that book
  Suites,       \* rooms, as numbers: FindAvailableRoom takes the cheapest
  Bookings,     \* bound: ids of stays and of their payments
  Orders,       \* bound: Razorpay orders and Stripe sessions
  FxRates,      \* exchange rates the rate service may answer
  MaxPayFaults,    \* bound: restarts, expired locks, Redis and database errors, a switch of gateway
  PayOps,       \* the operations an instance exercises
  Nobody

ASSUME CheckoutAssumption ==
  /\ Suites \subseteq Nat /\ FxRates \subseteq Nat \ {0}
  /\ MaxPayFaults \in Nat
  /\ Nobody \notin Requests \cup Guests \cup Bookings \cup Orders \cup Suites

VARIABLES
  suite,      \* rooms.status
  held,       \* guest_stays: the room of a booking's stay, Nobody when there is no row
  pay,        \* payments
  order,      \* the gateway's side: orders, sessions and what was captured
  lock,       \* Redis lock keys: who set them (the stored value is always "1")
  fx,         \* cached exchange rate, 0 when absent
  active,     \* payment_configs.active_gateway
  req,        \* what every request has read and where it is
  lapsed,     \* history: locks that expired or could not be asked for
  stranded,   \* history: bookings whose clean-up failed or that has none
  payFaults   \* how many faults there were

payVars == <<suite, held, pay, order, lock, fx, active, req, lapsed, stranded, payFaults>>
remote == <<order, fx, active>>
history == <<lapsed, stranded, payFaults>>

BookingOps == {"checkout", "razorpay", "hold"}
AgainOps == {"recheckout", "reorder"}
SettleOps == {"complete", "verify"}
LockKeys == (BookingOps \X Guests) \cup (AgainOps \X Bookings)
Steps == {"idle", "resolve", "stay", "payment", "occupy", "call", "undo_payment", "undo_stay",
          "undo_room", "note", "read", "amend", "session", "capture", "settle"}

NoPayment == [status |-> "absent", amount |-> 0, method |-> "none", notes |-> Nobody, linked |-> FALSE]
NoOrder == [gateway |-> "none", of |-> Nobody, amount |-> 0, captured |-> FALSE]
NoRequest == [at |-> "idle", op |-> "none", key |-> <<"none", Nobody>>, b |-> Nobody, room |-> Nobody,
              rate |-> 0, order |-> Nobody, locked |-> FALSE, seen |-> "absent"]

PayInit ==
  /\ suite = [r \in Suites |-> "available"]
  /\ held = [b \in Bookings |-> Nobody]
  /\ pay = [b \in Bookings |-> NoPayment]
  /\ order = [o \in Orders |-> NoOrder]
  /\ lock = [k \in LockKeys |-> Nobody]
  /\ fx = 0
  /\ active \in {"stripe", "razorpay"}
  /\ req = [q \in Requests |-> NoRequest]
  /\ lapsed = {} /\ stranded = {} /\ payFaults = 0

-----------------------------------------------------------------------------
(* Credentials, lock and exchange rate.                                    *)

stripeSecretKey == active # "razorpay"
razorpayCredentials == active = "razorpay"

PayFault == payFaults < MaxPayFaults /\ payFaults' = payFaults + 1

Go(q, step) == req' = [req EXCEPT ![q].at = step]

(* The deferred Delete: it removes the key whoever holds it by now. *)
Unlock(q) == IF req[q].locked THEN [lock EXCEPT ![req[q].key] = Nobody] ELSE lock
Finish(q) == req' = [req EXCEPT ![q] = NoRequest] /\ lock' = Unlock(q)

(* SetNX: taken, refused, or answered with an error, which is only logged. *)
SetNX(q, start) ==
  \/ /\ lock[start.key] = Nobody
     /\ lock' = [lock EXCEPT ![start.key] = q]
     /\ req' = [req EXCEPT ![q] = [start EXCEPT !.locked = TRUE]]
     /\ UNCHANGED <<lapsed, payFaults>>
  \/ /\ PayFault
     /\ req' = [req EXCEPT ![q] = start]
     /\ lapsed' = lapsed \cup {start.key}
     /\ UNCHANGED lock

(* GetExchangeRate: the cached rate, or a live one that is cached for the next caller.  An answer
   without a rate reads as 0 and is an error. *)
Answers == FxRates \cup {0}
GetExchangeRate(rate) ==
  /\ rate # 0
  /\ fx # 0 => rate = fx
  /\ fx' = rate

-----------------------------------------------------------------------------
(* The statements of a booking.                                            *)

BeginBooking(q, op) ==
  /\ req[q].at = "idle" /\ op \in PayOps
  /\ \E g \in Guests : SetNX(q, [NoRequest EXCEPT !.at = "resolve", !.op = op, !.key = <<op, g>>])
  /\ UNCHANGED <<suite, held, pay, remote, stranded>>

(* A room by its id or the cheapest of its type; a room that is not available ends the request. *)
resolveBookingRoom(q) ==
  /\ req[q].at = "resolve"
  /\ LET free == {r \in Suites : suite[r] = "available"} IN
     \/ /\ \E r \in free, rate \in Answers :
             /\ r = Min(free) \/ "by_id" \in PayOps
             /\ IF req[q].op = "hold" THEN rate = Min(FxRates) /\ UNCHANGED fx ELSE GetExchangeRate(rate)
             /\ req' = [req EXCEPT ![q].at = "stay", ![q].room = r, ![q].rate = rate]
        /\ UNCHANGED <<lock, order, active>>
     \/ /\ free = {} \/ (fx = 0 /\ req[q].op # "hold")
        /\ Finish(q)
        /\ UNCHANGED remote
  /\ UNCHANGED <<suite, held, pay, history>>

FreshBookings == {b \in Bookings : held[b] = Nobody /\ pay[b] = NoPayment /\ b \notin stranded
                                   /\ \A q \in Requests : req[q].b # b
                                   /\ \A o \in Orders : order[o].of # b}

(* INSERT INTO guest_stays, refused by the exclusion constraint when the room is taken. *)
CreateStay(q) ==
  /\ req[q].at = "stay"
  /\ IF \E b \in Bookings : held[b] = req[q].room
     THEN Finish(q) /\ UNCHANGED held
     ELSE \E b \in FreshBookings :
            /\ b = CHOOSE f \in FreshBookings : TRUE
            /\ held' = [held EXCEPT ![b] = req[q].room]
            /\ req' = [req EXCEPT ![q].at = "payment", ![q].b = b]
            /\ UNCHANGED lock
  /\ UNCHANGED <<suite, pay, remote, history>>

DeleteStay(b) ==
  /\ held' = [held EXCEPT ![b] = Nobody]
  /\ pay' = [pay EXCEPT ![b].linked = FALSE]

(* INSERT INTO payments.  On failure Razorpay and hold delete the stay again; Stripe does not. *)
CreatePayment(q, deletesStay) ==
  /\ req[q].at = "payment"
  /\ LET b == req[q].b IN
     \/ /\ pay' = [pay EXCEPT ![b] = [status |-> "pending", amount |-> req[q].rate, method |-> req[q].op,
                                      notes |-> Nobody, linked |-> TRUE]]
        /\ req' = [req EXCEPT ![q].at = "occupy", ![q].seen = "pending"]
        /\ UNCHANGED <<lock, held, stranded, payFaults>>
     \/ /\ PayFault
        /\ IF deletesStay THEN DeleteStay(b) ELSE UNCHANGED <<held, pay>>
        /\ stranded' = stranded \cup {b}
        /\ Finish(q)
  /\ UNCHANGED <<suite, remote, lapsed>>

(* UPDATE rooms SET status = 'occupied'; its error is discarded. *)
Occupy(q, next) ==
  /\ req[q].at = "occupy"
  /\ \/ suite' = [suite EXCEPT ![req[q].room] = "occupied"] /\ UNCHANGED payFaults
     \/ PayFault /\ UNCHANGED suite
  /\ IF next = "done" THEN Finish(q) ELSE Go(q, next) /\ UNCHANGED lock
  /\ UNCHANGED <<held, pay, remote, lapsed, stranded>>

FreshOrder == CHOOSE o \in Orders : order[o] = NoOrder
OrderLeft == \E o \in Orders : order[o] = NoOrder

(* POST /v1/orders: an order for the amount, or an error. *)
createRazorpayOrder(q, failed) ==
  \/ /\ OrderLeft
     /\ order' = [order EXCEPT ![FreshOrder] =
                    [gateway |-> "razorpay", of |-> req[q].b, amount |-> req[q].rate, captured |-> FALSE]]
     /\ req' = [req EXCEPT ![q].at = "note", ![q].order = FreshOrder]
     /\ UNCHANGED lock
  \/ /\ IF failed = "done" THEN Finish(q) ELSE Go(q, failed) /\ UNCHANGED lock
     /\ UNCHANGED order

(* POST /v1/checkout/sessions under an idempotency key: the same key and amount answer the same
   session, another amount is an error.  The credentials are read again. *)
createStripeSession(q, failed) ==
  \/ /\ stripeSecretKey
     /\ LET same == {o \in Orders : order[o].gateway = "stripe" /\ order[o].of = req[q].b} IN
          \/ /\ same = {} /\ OrderLeft
             /\ order' = [order EXCEPT ![FreshOrder] = [gateway |-> "stripe", of |-> req[q].b,
                            amount |-> req[q].rate, captured |-> FALSE]]
          \/ /\ \E o \in same : order[o].amount = req[q].rate
             /\ UNCHANGED order
     /\ Finish(q)
  \/ /\ IF failed = "done" THEN Finish(q) ELSE Go(q, failed) /\ UNCHANGED lock
     /\ UNCHANGED order

(* The three compensating statements; the errors of each are discarded. *)
UndoPayment(q) ==
  /\ req[q].at = "undo_payment"
  /\ \/ pay' = [pay EXCEPT ![req[q].b] = NoPayment] /\ UNCHANGED <<stranded, payFaults>>
     \/ PayFault /\ stranded' = stranded \cup {req[q].b} /\ UNCHANGED pay
  /\ Go(q, "undo_stay")
  /\ UNCHANGED <<suite, held, lock, remote, lapsed>>

UndoStaySkipped(q) ==
  /\ req[q].at = "undo_stay"
  /\ Go(q, "undo_room")
  /\ UNCHANGED <<suite, held, pay, lock, remote, history>>

UndoStay(q) ==
  /\ req[q].at = "undo_stay"
  /\ \/ DeleteStay(req[q].b) /\ UNCHANGED <<stranded, payFaults>>
     \/ PayFault /\ stranded' = stranded \cup {req[q].b} /\ UNCHANGED <<held, pay>>
  /\ Go(q, "undo_room")
  /\ UNCHANGED <<suite, lock, remote, lapsed>>

UndoRoom(q) ==
  /\ req[q].at = "undo_room"
  /\ \/ suite' = [suite EXCEPT ![req[q].room] = "available"] /\ UNCHANGED payFaults
     \/ PayFault /\ UNCHANGED suite
  /\ Finish(q)
  /\ UNCHANGED <<held, pay, remote, lapsed, stranded>>

(* UPDATE payments SET amount, method, status = 'pending', notes: whatever the status was. *)
UpdateAmountAndNotes(q, method, notes) ==
  pay' = [pay EXCEPT ![req[q].b] =
            IF @.status = "absent" THEN @
            ELSE [@ EXCEPT !.amount = req[q].rate, !.method = method, !.status = "pending", !.notes = notes]]

Note(q) ==
  /\ req[q].at = "note"
  /\ \/ UpdateAmountAndNotes(q, "razorpay", req[q].order) /\ UNCHANGED payFaults
     \/ PayFault /\ UNCHANGED pay
  /\ Finish(q)
  /\ UNCHANGED <<suite, held, remote, lapsed, stranded>>

BookingCheckout(q) ==
  \/ stripeSecretKey /\ BeginBooking(q, "checkout")
  \/ /\ req[q].op = "checkout"
     /\ \/ resolveBookingRoom(q) \/ CreateStay(q) \/ CreatePayment(q, FALSE) \/ Occupy(q, "call")
        \/ /\ req[q].at = "call"
           /\ createStripeSession(q, "undo_payment")
           /\ UNCHANGED <<suite, held, pay, fx, active, history>>
        \/ UndoPayment(q) \/ UndoStay(q) \/ UndoRoom(q)

CreateRazorpayBookingOrder(q) ==
  \/ razorpayCredentials /\ BeginBooking(q, "razorpay")
  \/ /\ req[q].op = "razorpay"
     /\ \/ resolveBookingRoom(q) \/ CreateStay(q) \/ CreatePayment(q, TRUE) \/ Occupy(q, "call")
        \/ /\ req[q].at = "call"
           /\ createRazorpayOrder(q, "undo_payment")
           /\ UNCHANGED <<suite, held, pay, fx, active, history>>
        \/ UndoPayment(q) \/ UndoStay(q) \/ UndoRoom(q) \/ Note(q)

HoldBooking(q) ==
  \/ BeginBooking(q, "hold")
  \/ /\ req[q].op = "hold"
     /\ resolveBookingRoom(q) \/ CreateStay(q) \/ CreatePayment(q, TRUE) \/ Occupy(q, "done")

-----------------------------------------------------------------------------
(* A second checkout of a payment that exists, and the completion.         *)

BeginAgain(q, op) ==
  /\ req[q].at = "idle" /\ op \in PayOps
  /\ \E b \in Bookings : SetNX(q, [NoRequest EXCEPT !.at = "read", !.op = op, !.key = <<op, b>>, !.b = b])
  /\ UNCHANGED <<suite, held, pay, remote, stranded>>

(* FindByID and FindStayByID: a completed payment is refused, and so is a stay that is gone. *)
ReadPayment(q, needsStay, next) ==
  /\ req[q].at = "read"
  /\ LET p == pay[req[q].b] IN
     IF p.status = "absent" \/ p.status = "completed" \/ (needsStay /\ ~p.linked)
     THEN Finish(q) /\ UNCHANGED fx
     ELSE \/ /\ \E rate \in Answers :
                  /\ GetExchangeRate(rate)
                  /\ req' = [req EXCEPT ![q].at = next, ![q].rate = rate, ![q].seen = p.status]
             /\ UNCHANGED lock
          \/ fx = 0 /\ Finish(q) /\ UNCHANGED fx
  /\ UNCHANGED <<suite, held, pay, order, active, history>>

CreateRazorpayPaymentOrder(q) ==
  \/ razorpayCredentials /\ BeginAgain(q, "reorder")
  \/ /\ req[q].op = "reorder"
     /\ \/ ReadPayment(q, FALSE, "call")
        \/ /\ req[q].at = "call"
           /\ createRazorpayOrder(q, "done")
           /\ UNCHANGED <<suite, held, pay, fx, active, history>>
        \/ Note(q)

(* The amount is written before the session exists; the notes name no order. *)
PaymentCheckout(q) ==
  \/ stripeSecretKey /\ BeginAgain(q, "recheckout")
  \/ /\ req[q].op = "recheckout"
     /\ \/ ReadPayment(q, TRUE, "amend")
        \/ /\ req[q].at = "amend"
           /\ UpdateAmountAndNotes(q, "stripe", Nobody)
           /\ Go(q, "session")
           /\ UNCHANGED <<suite, held, lock, remote, history>>
        \/ /\ req[q].at = "session"
           /\ createStripeSession(q, "done")
           /\ UNCHANGED <<suite, held, pay, fx, active, history>>

(* UPDATE payments SET status = 'completed', method: whatever the status was. *)
UpdateStatus(q, method) ==
  /\ req[q].at = "settle"
  /\ pay' = [pay EXCEPT ![req[q].b] =
               IF @.status = "absent" THEN @ ELSE [@ EXCEPT !.status = "completed", !.method = method]]
  /\ req' = [req EXCEPT ![q] = NoRequest]
  /\ UNCHANGED <<suite, held, lock, remote, history>>

(* A session that Stripe reports as paid. *)
CompletePayment(q) ==
  \/ /\ req[q].at = "idle" /\ "complete" \in PayOps /\ stripeSecretKey
     /\ \E o \in Orders : /\ order[o].gateway = "stripe" /\ order[o].captured
                         /\ req' = [req EXCEPT ![q] = [NoRequest EXCEPT !.at = "settle", !.op = "complete",
                                                       !.b = order[o].of, !.order = o]]
     /\ UNCHANGED <<suite, held, pay, lock, remote, history>>
  \/ req[q].op = "complete" /\ UpdateStatus(q, "stripe")

(* The payment is read: a completed one is answered as it is, the notes must name the order.  The
   signature vouches for an order and a payment id of the gateway's. *)
VerifyRead(q) ==
  /\ req[q].at = "idle" /\ "verify" \in PayOps /\ razorpayCredentials
  /\ \E b \in Bookings, o \in Orders :
       /\ pay[b].status = "pending" /\ pay[b].notes = o
       /\ req' = [req EXCEPT ![q] = [NoRequest EXCEPT !.at = "capture", !.op = "verify", !.b = b,
                                     !.order = o, !.rate = pay[b].amount]]
  /\ UNCHANGED <<suite, held, pay, lock, remote, history>>

(* GET /v1/payments: captured, for that order, in the amount the payment had when it was read. *)
verifyRazorpayPaymentCapture(o, amount) == order[o].captured /\ order[o].amount = amount

VerifyRazorpayPayment(q) ==
  \/ VerifyRead(q)
  \/ /\ req[q].at = "capture"
     /\ IF verifyRazorpayPaymentCapture(req[q].order, req[q].rate)
        THEN Go(q, "settle")
        ELSE req' = [req EXCEPT ![q] = NoRequest]
     /\ UNCHANGED <<suite, held, pay, lock, remote, history>>
  \/ req[q].op = "verify" /\ UpdateStatus(q, "razorpay")

-----------------------------------------------------------------------------
(* The world: locks expire, guests pay, rates change, the process restarts, the desk releases.     *)

LockExpires(k) ==
  /\ lock[k] # Nobody /\ PayFault
  /\ lock' = [lock EXCEPT ![k] = Nobody]
  /\ lapsed' = lapsed \cup {k}
  /\ UNCHANGED <<suite, held, pay, remote, req, stranded>>

(* The guest pays an order whose id a response has handed out. *)
GuestPays(o) ==
  /\ order[o].of # Nobody /\ ~order[o].captured
  /\ \A q \in Requests : req[q].order # o \/ req[q].at # "note"
  /\ order' = [order EXCEPT ![o].captured = TRUE]
  /\ UNCHANGED <<suite, held, pay, lock, fx, active, req, history>>

RateExpires ==
  /\ "rates" \in PayOps /\ fx # 0
  /\ fx' = 0
  /\ UNCHANGED <<suite, held, pay, order, lock, active, req, history>>

SwitchGateway ==
  /\ PayFault
  /\ active' \in {"stripe", "razorpay"} \ {active}
  /\ UNCHANGED <<suite, held, pay, order, lock, fx, req, lapsed, stranded>>

(* Every request in flight is lost; the locks stay until they expire. *)
GatewayCrash ==
  /\ PayFault
  /\ stranded' = stranded \cup ({req[q].b : q \in Requests} \ {Nobody})
  /\ req' = [q \in Requests |-> NoRequest]
  /\ UNCHANGED <<suite, held, pay, lock, remote, lapsed>>

Checkout(q) ==
  \/ BookingCheckout(q) \/ CreateRazorpayBookingOrder(q) \/ HoldBooking(q)
  \/ CreateRazorpayPaymentOrder(q) \/ PaymentCheckout(q)
  \/ CompletePayment(q) \/ VerifyRazorpayPayment(q)

PayNext ==
  \/ \E q \in Requests : Checkout(q)
  \/ \E k \in LockKeys : LockExpires(k)
  \/ \E o \in Orders : GuestPays(o)
  \/ RateExpires \/ SwitchGateway \/ GatewayCrash

PaySpec == PayInit /\ [][PayNext]_payVars

-----------------------------------------------------------------------------
(* Two requests are between SetNX and the deferred Delete of one key at the same time only when that
   lock expired under its holder or Redis could not be asked. *)
LockExclusive ==
  \A p, q \in Requests :
    p # q /\ req[p].at # "idle" /\ req[q].at # "idle" /\ req[p].key = req[q].key
          /\ req[p].key \in LockKeys => req[p].key \in lapsed

(* "The booking is only confirmed paid after signature verify": a payment that Razorpay's path completed
   has an order of its own at the gateway that was captured. *)
VerifiedBeforeCompleted ==
  \A b \in Bookings : pay[b].status = "completed" /\ pay[b].method = "razorpay" =>
    \E o \in Orders : order[o].of = b /\ order[o].gateway = "razorpay" /\ order[o].captured

(* When no request works on a booking and none of its statements failed, its stay and its payment are
   both there or both gone, and the payment still names its stay. *)
BookedWholeOrNotAtAll ==
  \A b \in Bookings \ stranded :
    (\A q \in Requests : req[q].b # b) =>
      /\ (held[b] # Nobody) <=> (pay[b].status # "absent")
      /\ pay[b].status # "absent" => pay[b].linked

=============================================================================
