------------------------------- MODULE Folios -------------------------------
(* The folios of one stay (billing_handler.go, pos_room_charge.go,          *)
(* EnsureFolioForBooking and the balance check-out reads).  A stay may end  *)
(* up with several folios: the cashier opens them at will, and check-in and *)
(* a meal signed to the room each open one when their lookup finds none.    *)
(* Payments belong to the stay, not to a folio.                             *)
(*                                                                          *)
(* Amounts are units.  created_at is now(), the start of the transaction,   *)
(* so a folio may become visible after one that carries a later stamp; ids  *)
(* are random, so a new folio takes any unused one.                         *)
EXTENDS Integers, FiniteSets

CONSTANTS
  Cashiers,     \* requests in flight
  FolioIds,     \* numbers, ordered as ORDER BY pf.id orders the ids
  Meals,        \* restaurant bills signed to the room
  Invoices,     \* invoice rows
  MaxFolioUnits \* bound: charges of one folio, and payments of the stay

ASSUME FolioAssumption == FolioIds \subseteq Nat \ {0} /\ IsFiniteSet(FolioIds) /\ MaxFolioUnits \in Nat

VARIABLES
  arrived, departed,  \* guest_stays.actual_check_in and actual_check_out are set
  folios,     \* folios: status ("none" is no row) and created_at
  charged,    \* folio_charges: units on each folio
  signed,     \* restaurant bills posted: the folio each is on, 0 when on none
  paid,       \* completed payments of the stay
  invoice,    \* invoices: folio, total, status
  stamp,      \* last created_at handed out
  call,       \* what each request in flight has read
  ghost       \* history: see FoliosInit

folioVars == <<arrived, departed, folios, charged, signed, paid, invoice, stamp, call, ghost>>

NoCall == [at |-> "idle", f |-> 0, new |-> FALSE, made |-> 0, m |-> 0, sum |-> 0,
          canon |-> FALSE, allow |-> FALSE, lapped |-> FALSE, crossed |-> FALSE]

FoliosInit ==
    /\ arrived = FALSE /\ departed = FALSE
    /\ folios = [f \in FolioIds |-> [status |-> "none", made |-> 0]]
    /\ charged = [f \in FolioIds |-> 0]
    /\ signed = [m \in Meals |-> 0]
    /\ paid = 0
    /\ invoice = [i \in Invoices |-> [f |-> 0, total |-> 0, status |-> "none"]]
    /\ stamp = 0
    /\ call = [k \in Cashiers |-> NoCall]
    \* extra: folios a clerk asked for, or whose opening overlapped another's;
    \* walked: a check-out that nothing crossed and that had no override let a
    \* stay with one folio go owing;
    \* late: a meal was posted whose lookup came after the departure
    /\ ghost = [extra |-> 0, walked |-> FALSE, late |-> FALSE]

Rows == {f \in FolioIds : folios[f].status # "none"}
OpenRows == {f \in FolioIds : folios[f].status = "open"}
Pending == {k \in Cashiers : call[k].new}

(* ORDER BY pf.created_at, pf.id LIMIT 1                                    *)
Canonical(f) ==
    \A g \in Rows \ {f} :
        folios[f].made < folios[g].made \/ (folios[f].made = folios[g].made /\ f < g)

(* What ListFolios shows as paid, and as balance, in one statement.         *)
ListPaid(f) == IF Canonical(f) THEN paid ELSE 0
ListBalance(f) == charged[f] - ListPaid(f)

AtRest(k) == call[k].at = "idle"
Replied(k) == call' = [call EXCEPT ![k] = NoCall]

(* A check-out under way while charges or folios are added is crossed.      *)
CheckingOut(j) == call[j].at \in {"out_sum", "out_paid", "out_tx"}
RepliedMoving(k) ==
    call' = [j \in Cashiers |-> IF j = k THEN NoCall
                             ELSE [call[j] EXCEPT !.crossed = @ \/ CheckingOut(j)]]

----------------------------------------------------------------------------
(* Opening a folio: a lookup, then an insert that others see when the       *)
(* transaction commits.  Every other opening pending meanwhile is lapped.   *)
Opening(k, at, m) ==
    /\ Cardinality(Pending) < Cardinality(FolioIds \ Rows)
    /\ stamp' = stamp + 1
    /\ call' = [j \in Cashiers |->
                   IF j = k
                   THEN [NoCall EXCEPT !.at = at, !.new = TRUE, !.made = stamp + 1, !.m = m,
                                      !.lapped = Pending # {}]
                   ELSE [call[j] EXCEPT !.lapped = @ \/ call[j].new]]

Opened(k, f) ==
    /\ f \in FolioIds \ Rows
    /\ folios' = [folios EXCEPT ![f] = [status |-> "open", made |-> call[k].made]]

(* CreateFolio: one INSERT, whatever folios the stay has.                   *)
CreateFolioStart(k) ==
    /\ AtRest(k)
    /\ Opening(k, "create", 0)
    /\ UNCHANGED <<arrived, departed, folios, charged, signed, paid, invoice, ghost>>

CreateFolioCommit(k) ==
    /\ call[k].at = "create"
    /\ \E f \in FolioIds : Opened(k, f)
    /\ ghost' = [ghost EXCEPT !.extra = @ + 1]
    /\ RepliedMoving(k)
    /\ UNCHANGED <<arrived, departed, charged, signed, paid, invoice, stamp>>

NewFolio(k) == CreateFolioStart(k) \/ CreateFolioCommit(k)

(* CheckIn: its guard reads the stay first; its transaction updates the     *)
(* stay row, and so waits for another check-in or check-out of it, before   *)
(* EnsureFolioForBooking looks for a folio of any status.                   *)
StayRowFree == \A k \in Cashiers : call[k].at # "in_tx"

CheckInGuard(k) ==
    /\ AtRest(k) /\ ~arrived
    /\ call' = [call EXCEPT ![k].at = "in"]
    /\ UNCHANGED <<arrived, departed, folios, charged, signed, paid, invoice, stamp, ghost>>

EnsureFolio(k) ==
    IF Rows # {}
    THEN call' = [call EXCEPT ![k].at = "in_tx"] /\ UNCHANGED stamp
    ELSE Opening(k, "in_tx", 0)

CheckInFolio(k) ==
    /\ call[k].at = "in" /\ StayRowFree
    /\ EnsureFolio(k)
    /\ UNCHANGED <<arrived, departed, folios, charged, signed, paid, invoice, ghost>>

CheckInCommit(k) ==
    /\ call[k].at = "in_tx"
    /\ arrived' = TRUE
    /\ IF call[k].new
       THEN /\ \E f \in FolioIds : Opened(k, f)
            /\ ghost' = [ghost EXCEPT !.extra = IF call[k].lapped THEN @ + 1 ELSE @]
       ELSE UNCHANGED <<folios, ghost>>
    /\ RepliedMoving(k)
    /\ UNCHANGED <<departed, charged, signed, paid, invoice, stamp>>

CheckIn(k) == CheckInGuard(k) \/ CheckInFolio(k) \/ CheckInCommit(k)

(* A meal signed to the room: resolveFolioForRoomCharge asks for a guest in *)
(* house, takes any open folio or opens one; postFolioCharge writes the     *)
(* line unless that folio already has the bill.                             *)
InHouse == arrived /\ ~departed

resolveFolioForRoomCharge(k, m) ==
    /\ AtRest(k) /\ InHouse /\ signed[m] = 0
    /\ \A j \in Cashiers : call[j].m # m      \* the settlement locks the bill
    /\ \/ \E f \in OpenRows :
             /\ call' = [call EXCEPT ![k] = [NoCall EXCEPT !.at = "meal", !.f = f, !.m = m]]
             /\ UNCHANGED stamp
       \/ OpenRows = {} /\ Opening(k, "meal", m)
    /\ UNCHANGED <<arrived, departed, folios, charged, signed, paid, invoice, ghost>>

postFolioCharge(k) ==
    /\ call[k].at = "meal"
    /\ \E f \in FolioIds :
          /\ IF call[k].new THEN Opened(k, f) ELSE f = call[k].f /\ UNCHANGED folios
          /\ charged[f] < MaxFolioUnits
          /\ charged' = [charged EXCEPT ![f] = @ + 1]
          /\ signed' = [signed EXCEPT ![call[k].m] = f]
    /\ ghost' = [ghost EXCEPT !.extra = IF call[k].lapped THEN @ + 1 ELSE @,
                              !.late = @ \/ (departed /\ ~call[k].crossed)]
    /\ RepliedMoving(k)
    /\ UNCHANGED <<arrived, departed, paid, invoice, stamp>>

(* AddCharge looks at no status; RecordPayment pays the folio's stay.       *)
FolioCharge(f) ==
    /\ f \in Rows /\ charged[f] < MaxFolioUnits
    /\ charged' = [charged EXCEPT ![f] = @ + 1]
    /\ call' = [j \in Cashiers |-> [call[j] EXCEPT !.crossed = @ \/ CheckingOut(j)]]
    /\ UNCHANGED <<arrived, departed, folios, signed, paid, invoice, stamp, ghost>>

FolioPayment(f) ==
    /\ f \in Rows /\ paid < MaxFolioUnits
    /\ paid' = paid + 1
    /\ UNCHANGED <<arrived, departed, folios, charged, signed, invoice, stamp, call, ghost>>

----------------------------------------------------------------------------
(* CheckOut: folioOutstanding takes any one open folio, sums its charges,   *)
(* then the stay's payments; the transaction closes the folio it took.      *)
CheckOutPick(k, allow) ==
    /\ AtRest(k) /\ InHouse
    /\ \/ \E f \in OpenRows :
             call' = [call EXCEPT ![k] = [NoCall EXCEPT !.at = "out_sum", !.f = f, !.allow = allow]]
       \/ /\ OpenRows = {}
          /\ call' = [call EXCEPT ![k] = [NoCall EXCEPT !.at = "out_tx", !.allow = allow]]
    /\ UNCHANGED <<arrived, departed, folios, charged, signed, paid, invoice, stamp, ghost>>

CheckOutSum(k) ==
    /\ call[k].at = "out_sum"
    /\ call' = [call EXCEPT ![k].at = "out_paid", ![k].sum = charged[call[k].f]]
    /\ UNCHANGED <<arrived, departed, folios, charged, signed, paid, invoice, stamp, ghost>>

AcceptOwing(k) == call[k].sum - paid > 1
RefuseOwing(k) == call[k].sum - paid > 0

CheckOutPaid(k) ==
    /\ call[k].at = "out_paid"
    /\ IF RefuseOwing(k) /\ ~call[k].allow
       THEN Replied(k)
       ELSE call' = [call EXCEPT ![k].at = "out_tx"]
    /\ UNCHANGED <<arrived, departed, folios, charged, signed, paid, invoice, stamp, ghost>>

CheckOutCommit(k) ==
    /\ call[k].at = "out_tx" /\ StayRowFree
    /\ departed' = TRUE
    /\ folios' = IF call[k].f # 0 THEN [folios EXCEPT ![call[k].f].status = "closed"] ELSE folios
    /\ ghost' = [ghost EXCEPT
                   !.walked = @ \/ (/\ ~call[k].allow /\ ~call[k].crossed
                                    /\ \E f \in FolioIds : Rows = {f} /\ charged[f] > paid)]
    /\ call' = [j \in Cashiers |-> IF j = k THEN NoCall
                                 ELSE [call[j] EXCEPT !.crossed = @ \/ call[j].at = "meal"]]
    /\ UNCHANGED <<arrived, charged, signed, paid, invoice, stamp>>

CheckOut(k) ==
    (\E allow \in BOOLEAN : CheckOutPick(k, allow)) \/ CheckOutSum(k) \/ CheckOutPaid(k) \/ CheckOutCommit(k)

(* GetFolio: the charges, whether the folio is the canonical one, and the   *)
(* payments are three statements.                                           *)
GetFolioCharges(k, f) ==
    /\ AtRest(k) /\ f \in Rows
    /\ call' = [call EXCEPT ![k] = [NoCall EXCEPT !.at = "get_canon", !.f = f, !.sum = charged[f]]]
    /\ UNCHANGED <<arrived, departed, folios, charged, signed, paid, invoice, stamp, ghost>>

GetFolioCanonical(k) ==
    /\ call[k].at = "get_canon"
    /\ call' = [call EXCEPT ![k].at = "get_paid", ![k].canon = Canonical(call[k].f)]
    /\ UNCHANGED <<arrived, departed, folios, charged, signed, paid, invoice, stamp, ghost>>

Answer(k) == call[k].sum - (IF call[k].canon THEN paid ELSE 0)

GetFolioPayments(k) ==
    /\ call[k].at = "get_paid"
    /\ Replied(k)
    /\ UNCHANGED <<arrived, departed, folios, charged, signed, paid, invoice, stamp, ghost>>

GetFolio(k) == (\E f \in FolioIds : GetFolioCharges(k, f)) \/ GetFolioCanonical(k) \/ GetFolioPayments(k)

(* GenerateInvoice reads the folio's charges and inserts a draft of their   *)
(* total; EmailInvoice marks it sent, whatever it was, and queues the mail. *)
InvoiceCharges(k, f) ==
    /\ AtRest(k) /\ f \in Rows
    /\ call' = [call EXCEPT ![k] = [NoCall EXCEPT !.at = "invoice", !.f = f, !.sum = charged[f]]]
    /\ UNCHANGED <<arrived, departed, folios, charged, signed, paid, invoice, stamp, ghost>>

InvoiceInsert(k) ==
    /\ call[k].at = "invoice"
    /\ \E i \in Invoices :
          /\ invoice[i].status = "none"
          /\ invoice' = [invoice EXCEPT ![i] = [f |-> call[k].f, total |-> call[k].sum, status |-> "draft"]]
    /\ Replied(k)
    /\ UNCHANGED <<arrived, departed, folios, charged, signed, paid, stamp, ghost>>

GenerateInvoice(k) == (\E f \in FolioIds : InvoiceCharges(k, f)) \/ InvoiceInsert(k)

EmailInvoice(i) ==
    /\ invoice[i].status # "none"
    /\ invoice' = [invoice EXCEPT ![i].status = "sent"]
    /\ UNCHANGED <<arrived, departed, folios, charged, signed, paid, stamp, call, ghost>>

FoliosNext ==
    \/ \E k \in Cashiers :
          \/ NewFolio(k) \/ CheckIn(k) \/ CheckOut(k) \/ GetFolio(k) \/ GenerateInvoice(k)
          \/ postFolioCharge(k)
          \/ \E m \in Meals : resolveFolioForRoomCharge(k, m)
    \/ \E f \in FolioIds : FolioCharge(f) \/ FolioPayment(f)
    \/ \E i \in Invoices : EmailInvoice(i)

FoliosSpec == FoliosInit /\ [][FoliosNext]_folioVars

----------------------------------------------------------------------------
(* GetFolio reads charges before payments, so an answer mixed from several  *)
(* moments never asks for more than the folio owes when it is given.        *)
NeverOverstated ==
    [][\A k \in Cashiers : (call[k].at = "get_paid" /\ call'[k] = NoCall)
                            => Answer(k) <= ListBalance(call[k].f)]_folioVars

(* A check-out that was not told to leave a balance leaves none: of a stay  *)
(* with a single folio nothing is owed at the moment of departure unless    *)
(* money or folios moved between the balance it read and its transaction.   *)
DepartedSettled == ~ghost.walked

(* EnsureFolioForBooking and resolveFolioForRoomCharge split no stay over   *)
(* two folios: a second one was asked for by a clerk, or its opening        *)
(* overlapped another.                                                      *)
FoliosAccountedFor == Cardinality(Rows) <= 1 + ghost.extra

(* A meal is posted to a guest who left only when it was being settled as   *)
(* they left.                                                               *)
NoMealAfterDeparture == ~ghost.late

(* An invoice, drafted or mailed, asks for no more than its own folio was   *)
(* charged, whatever other folios the stay has.                             *)
InvoicesBillOnlyTheirFolio ==
    \A i \in Invoices : invoice[i].status # "none" => invoice[i].total <= charged[invoice[i].f]
=============================================================================
