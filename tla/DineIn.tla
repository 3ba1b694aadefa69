------------------------------- MODULE DineIn -------------------------------
(***************************************************************************)
(* The restaurant: tables, dining sessions, kitchen order tickets (KOTs),   *)
(* bills and their payments, as internal/handler/pos_dinein_handler.go      *)
(* drives them.                                                             *)
(*                                                                          *)
(* A handler is one transaction that first locks the row it decides on      *)
(* (table, session, KOT or bill), so it is one step.  Two things happen     *)
(* outside that: a void that finds no bill has nothing to lock against a    *)
(* bill being raised, and a payment or a refund writes the ledger after its *)
(* commit, statement by statement.  Those requests stay in flight between   *)
(* their steps, and Workers bounds the requests in flight.                  *)
(***************************************************************************)
EXTENDS BillMath, FiniteSets, FiniteSetsExt

CONSTANTS
    Tables,       \* restaurant_tables of one outlet
    Sessions,     \* identifiers of dining_sessions (bounds the seatings)
    Kots,         \* identifiers of kots (bounds the rounds of ordering)
    Items,        \* identifiers of kot_items (bounds the dishes ordered)
    Price,        \* line_total of an item
    TaxRate,      \* default_tax_rate of the outlet
    Adjustments,  \* what UpdateBill is asked to set
    PayAmounts,   \* amounts a payment may have
    Workers,      \* requests served at the same time
    Ops,          \* the operations that this instance exercises
    None

ASSUME WorkersAssumption == Workers \in Nat \ {0}
ASSUME SessionsAssumption == IsFiniteSet(Sessions) /\ None \notin Sessions
ASSUME OrderingAssumption == None \notin Kots /\ PayAmounts \subseteq Nat \ {0}

VARIABLES
    table,     \* restaurant_tables.status
    session,   \* dining_sessions: table, status, stay it is linked to, customer
    kot,       \* kots: session and status
    item,      \* kot_items: ticket and status
    bill,      \* bills.status of the session's bill
    charge,    \* bills: the amounts computeTotals derives and their inputs
    paid,      \* bills.amount_paid
    till,      \* bill_payments of the bill, summed by method
    revenue,   \* payments rows of category fnb that name the bill, summed
    folio,     \* the folio_charges row whose reference_id is the bill
    journal,   \* journal entries whose reference is the bill, and their reversal
    after,     \* what a payment or a refund has still to write after its commit
    voiding    \* items a void holds locked, having found no bill

floor == <<table, session, kot, item>>
books == <<bill, charge, paid, till, revenue, folio>>
ledger == <<journal, after>>
vars == <<table, session, kot, item, bill, charge, paid, till, revenue, folio,
          journal, after, voiding>>

TableStatuses == {"available", "reserved", "occupied", "billed", "cleaning"}
SessionStatuses == {"absent", "open", "billed", "settled", "closed", "refunded"}
KotStatuses == {"absent", "draft", "sent", "acknowledged", "preparing", "ready",
                "served", "cancelled"}
ItemStatuses == {"absent", "queued", "preparing", "ready", "served", "cancelled"}
BillStatuses == {"none", "open", "finalized", "partially_paid", "paid", "refunded"}
Methods == {"cash", "card", "room_charge"}

NoSession == [table |-> None, status |-> "absent", stay |-> "none", customer |-> FALSE]
NoJournal == [posted |-> 0, account |-> "none", sale |-> 0, cogs |-> 0, back |-> 0, cogsBack |-> 0]
NoLine == [posted |-> FALSE, amount |-> 0]
Nothing == [pay |-> "none", method |-> "cash", refund |-> FALSE]

Init ==
    /\ table = [t \in Tables |-> "available"]
    /\ session = [s \in Sessions |-> NoSession]
    /\ kot = [k \in Kots |-> [session |-> None, status |-> "absent"]]
    /\ item = [i \in Items |-> [kot |-> None, status |-> "absent"]]
    /\ bill = [s \in Sessions |-> "none"]
    /\ charge = [s \in Sessions |-> NoCharge]
    /\ paid = [s \in Sessions |-> 0]
    /\ till = [s \in Sessions |-> [m \in Methods |-> 0]]
    /\ revenue = [s \in Sessions |-> 0]
    /\ folio = [s \in Sessions |-> NoLine]
    /\ journal = [s \in Sessions |-> NoJournal]
    /\ after = [s \in Sessions |-> Nothing]
    /\ voiding = {}

-----------------------------------------------------------------------------
InFlight ==
    Cardinality({s \in Sessions : after[s].pay # "none"})
      + Cardinality({s \in Sessions : after[s].refund}) + Cardinality(voiding)

Begin == InFlight < Workers

SessionOf(i) == kot[item[i].kot].session
ItemsOf(s) == {i \in Items : item[i].status # "absent" /\ SessionOf(i) = s}
Live(s) == {i \in ItemsOf(s) : item[i].status # "cancelled"}
Subtotal(s) == MapThenSumSet(LAMBDA i : Price[i], Live(s))

(* A void holds FOR UPDATE the item and the ticket it is on. *)
Unlocked(k) == \A i \in voiding : item[i].kot # k

(* The unique index uq_active_session_per_table. *)
Active(s) == session[s].status \in {"open", "billed"}
ActiveOn(t) == {s \in Sessions : Active(s) /\ session[s].table = t}

kotTransitions(from) ==
    CASE from = "draft" -> {"sent", "cancelled"}
      [] from = "sent" -> {"acknowledged", "preparing", "cancelled"}
      [] from = "acknowledged" -> {"preparing", "cancelled"}
      [] from = "preparing" -> {"ready"}
      [] from = "ready" -> {"served"}
      [] OTHER -> {}

-----------------------------------------------------------------------------
(***************************************************************************)
(* Tables and seatings.                                                     *)
(***************************************************************************)
OpenSession(s, t) ==
    /\ Begin
    /\ session[s].status = "absent"
    /\ table[t] \in {"available", "reserved"}
    /\ ActiveOn(t) = {}
    /\ \E stay \in {"none", "in_house"}, customer \in BOOLEAN :
          /\ (stay = "in_house" \/ customer => "room" \in Ops)
          /\ session' = [session EXCEPT ![s] = [table |-> t, status |-> "open",
                                                stay |-> stay, customer |-> customer]]
    /\ table' = [table EXCEPT ![t] = "occupied"]
    /\ UNCHANGED <<kot, item, books, ledger, voiding>>

CloseBilled(s) ==
    /\ Begin
    /\ session[s].status \in {"billed", "settled"}
    /\ session' = [session EXCEPT ![s].status = "closed"]
    /\ table' = [table EXCEPT ![session[s].table] = "cleaning"]
    /\ UNCHANGED <<kot, item, books, ledger, voiding>>

CloseSession(s) ==
    /\ Begin
    /\ session[s].status = "settled"
    /\ session' = [session EXCEPT ![s].status = "closed"]
    /\ table' = [table EXCEPT ![session[s].table] = "cleaning"]
    /\ UNCHANGED <<kot, item, books, ledger, voiding>>

CleanTable(t) ==
    /\ Begin
    /\ table[t] = "cleaning"
    /\ table' = [table EXCEPT ![t] = "available"]
    /\ UNCHANGED <<session, kot, item, books, ledger, voiding>>

(* A manager sets any status by hand. *)
UpdateTable(t) ==
    /\ "switch" \in Ops
    /\ Begin
    /\ \E status \in TableStatuses : table' = [table EXCEPT ![t] = status]
    /\ UNCHANGED <<session, kot, item, books, ledger, voiding>>

(***************************************************************************)
(* Ordering.  A late order on a billed session reopens the session; its     *)
(* bill stays as it is.                                                     *)
(***************************************************************************)
CreateKOTQuietly(s, k, I) ==
    /\ Begin
    /\ session[s].status \in {"open", "billed"}
    /\ kot[k].status = "absent"
    /\ I # {} /\ \A i \in I : item[i].status = "absent"
    /\ kot' = [kot EXCEPT ![k] = [session |-> s, status |-> "draft"]]
    /\ item' = [i \in Items |-> IF i \in I THEN [kot |-> k, status |-> "queued"] ELSE item[i]]
    /\ UNCHANGED <<table, session, books, ledger, voiding>>

CreateKOT(s, k, I) ==
    /\ Begin
    /\ session[s].status \in {"open", "billed"}
    /\ kot[k].status = "absent"
    /\ I # {} /\ \A i \in I : item[i].status = "absent"
    /\ kot' = [kot EXCEPT ![k] = [session |-> s, status |-> "draft"]]
    /\ item' = [i \in Items |-> IF i \in I THEN [kot |-> k, status |-> "queued"] ELSE item[i]]
    /\ session' = [session EXCEPT ![s].status = "open"]
    /\ UNCHANGED <<table, books, ledger, voiding>>

SendKOT(k) ==
    /\ Begin
    /\ Unlocked(k)
    /\ kot[k].status = "draft"
    /\ kot' = [kot EXCEPT ![k].status = "sent"]
    /\ UNCHANGED <<table, session, item, books, ledger, voiding>>

Mirrored(k, to) ==
    [i \in Items |-> IF /\ item[i].kot = k /\ item[i].status # "cancelled"
                        /\ to \in {"preparing", "ready", "served"}
                     THEN [item[i] EXCEPT !.status = to] ELSE item[i]]

UpdateKOTStatus(k, to) ==
    /\ Begin
    /\ Unlocked(k)
    /\ to \in kotTransitions(kot[k].status)
    /\ kot' = [kot EXCEPT ![k].status = to]
    /\ item' = Mirrored(k, to)
    /\ UNCHANGED <<table, session, books, ledger, voiding>>

(***************************************************************************)
(* Voiding an item.  With a bill, the bill's row is locked and recomputed   *)
(* in the same transaction; without one, the void has read that there is    *)
(* none and writes the item later.                                          *)
(***************************************************************************)
Voidable(i) ==
    /\ item[i].status \notin {"absent", "cancelled"}
    /\ Unlocked(item[i].kot)

VoidLook(i) ==
    /\ Begin
    /\ Voidable(i)
    /\ bill[SessionOf(i)] = "none"
    /\ voiding' = voiding \cup {i}
    /\ UNCHANGED <<floor, books, ledger>>

VoidWrite(i) ==
    /\ i \in voiding
    /\ item' = [item EXCEPT ![i].status = "cancelled"]
    /\ voiding' = voiding \ {i}
    /\ UNCHANGED <<table, session, kot, books, ledger>>

VoidKOTItem(i) ==
    LET s == SessionOf(i)
    IN  /\ Begin
        /\ Voidable(i)
        /\ bill[s] = "open"
        /\ item' = [item EXCEPT ![i].status = "cancelled"]
        /\ charge' = [charge EXCEPT ![s] =
              computeTotals([charge[s] EXCEPT !.subtotal = MapThenSumSet(LAMBDA j : Price[j], Live(s) \ {i})])]
        /\ UNCHANGED <<table, session, kot, bill, paid, till, revenue, folio, ledger, voiding>>

-----------------------------------------------------------------------------
(***************************************************************************)
(* The bill.  A session has one: the unique index uq_one_bill_per_session   *)
(* counts every status that is written, so GenerateBill hands out the bill  *)
(* that exists, whatever became of it, and changes nothing.                 *)
(***************************************************************************)
GenerateBill(s) ==
    /\ Begin
    /\ session[s].status \notin {"absent", "closed"}
    /\ bill[s] = "none"
    /\ Subtotal(s) > 0
    /\ charge' = [charge EXCEPT ![s] =
          computeTotals([NoCharge EXCEPT !.subtotal = Subtotal(s), !.tax_rate = TaxRate])]
    /\ bill' = [bill EXCEPT ![s] = "open"]
    /\ session' = [session EXCEPT ![s].status = "billed"]
    /\ table' = [table EXCEPT ![session[s].table] = "billed"]
    /\ UNCHANGED <<kot, item, paid, till, revenue, folio, ledger, voiding>>

UpdateUnpaidBill(s, a) ==
    /\ Begin
    /\ bill[s] \in {"open", "finalized"}
    /\ charge' = [charge EXCEPT ![s] = Adjusted(charge[s], a)]
    /\ UNCHANGED <<floor, bill, paid, till, revenue, folio, ledger, voiding>>

UpdateBill(s, a) ==
    /\ Begin
    /\ bill[s] = "open"
    /\ charge' = [charge EXCEPT ![s] = Adjusted(charge[s], a)]
    /\ UNCHANGED <<floor, bill, paid, till, revenue, folio, ledger, voiding>>

FinalizeBill(s) ==
    /\ Begin
    /\ bill[s] = "open"
    /\ bill' = [bill EXCEPT ![s] = "finalized"]
    /\ UNCHANGED <<floor, charge, paid, till, revenue, folio, ledger, voiding>>

(***************************************************************************)
(* Payments.  A room charge goes on the folio of the checked-in stay the    *)
(* table is linked to, once; any other payment is mirrored as revenue.      *)
(***************************************************************************)
Payable(s) == bill[s] \in {"finalized", "partially_paid"}

MirrorAll(s, m, a) == [revenue EXCEPT ![s] = @ + a]
MirrorPayment(s, m, a) == IF m = "room_charge" THEN revenue ELSE [revenue EXCEPT ![s] = @ + a]

postFolioCharge(s, m) ==
    IF m = "room_charge" /\ ~folio[s].posted
    THEN [folio EXCEPT ![s] = [posted |-> TRUE, amount |-> charge[s].subtotal + charge[s].tax]]
    ELSE folio

AddBillPayment(s, m, a) ==
    LET settles == charge[s].total - (paid[s] + a) <= 0
    IN  /\ Begin
        /\ Payable(s)
        /\ (m # "cash" => paid[s] + a <= charge[s].total)
        /\ (m = "room_charge" => session[s].stay = "in_house")
        /\ till' = [till EXCEPT ![s][m] = @ + a]
        /\ paid' = [paid EXCEPT ![s] = @ + a]
        /\ revenue' = MirrorPayment(s, m, a)
        /\ folio' = postFolioCharge(s, m)
        /\ bill' = [bill EXCEPT ![s] = IF settles THEN "paid" ELSE "partially_paid"]
        /\ session' = IF settles THEN [session EXCEPT ![s].status = "settled"] ELSE session
        /\ after' = IF settles THEN [after EXCEPT ![s].pay = "sale", ![s].method = m] ELSE after
        /\ UNCHANGED <<table, kot, item, charge, journal, voiding>>

RefundBill(s) ==
    /\ Begin
    /\ bill[s] \in {"paid", "partially_paid"}
    /\ revenue' = [revenue EXCEPT ![s] = @ - paid[s]]
    /\ bill' = [bill EXCEPT ![s] = "refunded"]
    /\ session' = [session EXCEPT ![s].status = "refunded"]
    /\ after' = [after EXCEPT ![s].refund = TRUE]
    /\ UNCHANGED <<table, kot, item, charge, paid, till, folio, journal, voiding>>

(***************************************************************************)
(* After the commit: the sale, then the cost of what was sold; a refund     *)
(* reverses whatever is posted under the bill's reference by then.          *)
(***************************************************************************)
DebitAccount(m) == CASE m = "cash" -> "cash" [] m = "card" -> "bank" [] m = "room_charge" -> "receivable"

PostSaleAgain(s) ==
    /\ after[s].pay = "sale"
    /\ journal' = [journal EXCEPT ![s].posted = @ + 1, ![s].sale = @ + charge[s].total,
                                  ![s].account = DebitAccount(after[s].method)]
    /\ UNCHANGED <<floor, books, after, voiding>>

(* A credit sale needs a customer; without one the posting is refused. *)
PostSale(s) ==
    LET m == after[s].method
    IN  /\ after[s].pay = "sale"
        /\ after' = [after EXCEPT ![s].pay = "cogs"]
        /\ journal' = IF m = "room_charge" /\ ~session[s].customer THEN journal
                      ELSE [journal EXCEPT ![s].posted = @ + 1, ![s].sale = @ + charge[s].total,
                                           ![s].account = DebitAccount(m)]
        /\ UNCHANGED <<floor, books, voiding>>

(* The cost of an item is one unit; sessionCOGS leaves out status 'void', which no item has. *)
sessionCOGS(s) == Cardinality(ItemsOf(s))

PostCOGS(s) ==
    /\ after[s].pay = "cogs"
    /\ after' = [after EXCEPT ![s].pay = "none"]
    /\ journal' = [journal EXCEPT ![s].cogs = @ + sessionCOGS(s)]
    /\ UNCHANGED <<floor, books, voiding>>

(* The database refuses a posting: it is logged and the request goes on. *)
PostFails(s) ==
    /\ "fail" \in Ops
    /\ after[s].pay # "none"
    /\ after' = [after EXCEPT ![s].pay = IF after[s].pay = "sale" THEN "cogs" ELSE "none"]
    /\ UNCHANGED <<floor, books, journal, voiding>>

ReverseEntries(s) ==
    /\ after[s].refund
    /\ after' = [after EXCEPT ![s].refund = FALSE]
    /\ journal' = [journal EXCEPT ![s].back = @ + journal[s].sale, ![s].cogsBack = @ + journal[s].cogs]
    /\ UNCHANGED <<floor, books, voiding>>

-----------------------------------------------------------------------------
(* The guest checks out; FrontDesk models the handler. *)
GuestDeparts(s) ==
    /\ session[s].stay = "in_house"
    /\ session' = [session EXCEPT ![s].stay = "departed"]
    /\ UNCHANGED <<table, kot, item, books, ledger, voiding>>

(* The process stops: requests in flight are lost, open transactions roll back. *)
Crash ==
    /\ "crash" \in Ops
    /\ after' = [s \in Sessions |-> Nothing]
    /\ voiding' = {}
    /\ UNCHANGED <<floor, books, journal>>

FloorStep ==
    \/ \E s \in Sessions, t \in Tables : OpenSession(s, t)
    \/ \E s \in Sessions : CloseSession(s) \/ GuestDeparts(s)
    \/ \E t \in Tables : CleanTable(t) \/ UpdateTable(t)

KitchenStep ==
    \/ \E s \in Sessions, k \in Kots, I \in SUBSET Items : CreateKOT(s, k, I)
    \/ "kitchen" \in Ops /\ \E k \in Kots : SendKOT(k)
    \/ "kitchen" \in Ops /\ \E k \in Kots, to \in KotStatuses : UpdateKOTStatus(k, to)
    \/ "void" \in Ops /\ \E i \in Items : VoidLook(i) \/ VoidWrite(i) \/ VoidKOTItem(i)

CashierStep ==
    \/ \E s \in Sessions : GenerateBill(s) \/ FinalizeBill(s)
    \/ "adjust" \in Ops /\ \E s \in Sessions, a \in Adjustments : UpdateBill(s, a)
    \/ \E s \in Sessions, m \in Methods, a \in PayAmounts : AddBillPayment(s, m, a)
    \/ "refund" \in Ops /\ \E s \in Sessions : RefundBill(s)

LedgerStep ==
    \E s \in Sessions : PostSale(s) \/ PostCOGS(s) \/ PostFails(s) \/ ReverseEntries(s)

Next == FloorStep \/ KitchenStep \/ CashierStep \/ LedgerStep \/ Crash

Spec == Init /\ [][Next]_vars

-----------------------------------------------------------------------------
(* Every variable holds what the columns it stands for may hold. *)
TypeOK ==
    /\ table \in [Tables -> TableStatuses]
    /\ session \in [Sessions -> [table : Tables \cup {None}, status : SessionStatuses,
                                 stay : {"none", "in_house", "departed"}, customer : BOOLEAN]]
    /\ kot \in [Kots -> [session : Sessions \cup {None}, status : KotStatuses]]
    /\ item \in [Items -> [kot : Kots \cup {None}, status : ItemStatuses]]
    /\ bill \in [Sessions -> BillStatuses]
    /\ after \in [Sessions -> [pay : {"none", "sale", "cogs"}, method : Methods, refund : BOOLEAN]]
    /\ voiding \subseteq Items

(* The status of a session and of its bill tell the same story, across      *)
(* payments, late orders, refunds and closings: a party is settled or gone  *)
(* only when its bill is paid, refunded exactly when its bill is, and       *)
(* counted as billed only when a bill exists.                               *)
SessionBillAgree ==
    \A s \in Sessions :
        /\ (session[s].status \in {"settled", "closed"} <=> bill[s] = "paid")
        /\ (session[s].status = "refunded" <=> bill[s] = "refunded")
        /\ (session[s].status = "absent" => bill[s] = "none")
        /\ (session[s].status = "billed" => bill[s] # "none")

(* OpenSession relies on the table's status, which three other handlers     *)
(* write: a table with a party that has not left is never offered, cleaned  *)
(* or given to another party, whatever stage its bill is at.                *)
Seated(s) == session[s].status \in {"open", "billed", "settled"}
TableHeld ==
    \A s \in Sessions : Seated(s) =>
        /\ table[session[s].table] \in {"occupied", "billed"}
        /\ (\A o \in Sessions \ {s} : Seated(o) => session[o].table # session[s].table)

(* The unique index holds even when a manager sets table statuses by hand. *)
OneActiveParty ==
    \A s, o \in Sessions : Active(s) /\ Active(o) /\ s # o => session[s].table # session[o].table

(* FinalizeBill: "locks the bill so items and adjustments can no longer     *)
(* change": no step changes the amounts of a bill that is past open.        *)
LockedBillFrozen ==
    [][\A s \in Sessions : bill[s] \notin {"none", "open"} => charge'[s] = charge[s]]_vars

Covered(s) == charge[s].total - paid[s] <= 0

(* A session's tender adds up: the amount paid is the sum of its payments,  *)
(* the bill is paid exactly when that covers the total, what is shown as    *)
(* revenue is what was collected and not what was signed to a room, and "a  *)
(* folio charge cannot exist without its bill payment or the reverse".      *)
MoneyAgrees ==
    \A s \in Sessions :
        /\ paid[s] = till[s]["cash"] + till[s]["card"] + till[s]["room_charge"]
        /\ (bill[s] = "paid" => Covered(s))
        /\ (bill[s] = "partially_paid" => paid[s] > 0 /\ ~Covered(s))
        /\ (bill[s] # "refunded" => revenue[s] = till[s]["cash"] + till[s]["card"])
        /\ (folio[s].posted <=> till[s]["room_charge"] > 0)

(* A sale is booked at most once and only for a bill that was paid, however *)
(* many payments, retries, failures and crashes it took.                    *)
OneSaleEntry ==
    \A s \in Sessions :
        /\ journal[s].posted <= 1
        /\ (journal[s].posted = 1 => bill[s] \in {"paid", "refunded"})

(* Items move with their ticket, except the voided ones, which stay voided  *)
(* while the kitchen goes on.                                               *)
ItemsFollowTicket ==
    /\ [][\A i \in Items : item[i].status = "cancelled" => item'[i] = item[i]]_vars
    /\ [](\A i \in Items : item[i].status \notin {"absent", "cancelled"} =>
             LET at == kot[item[i].kot].status
             IN  item[i].status = IF at \in {"preparing", "ready", "served"} THEN at ELSE "queued")

(* A session reads as billed only while its bill covers everything it       *)
(* ordered: an order placed after the bill, which GenerateBill will not     *)
(* bill, shows the party as open again.                                     *)
BilledCoversOrders ==
    \A s \in Sessions : session[s].status = "billed" => charge[s].subtotal >= Subtotal(s)

=============================================================================
