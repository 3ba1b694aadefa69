-------------------------------- MODULE MoneyProofs --------------------------------
(***************************************************************************)
(* Proofs about the restaurant's bills, for any number of tables, sessions,*)
(* tickets, items and requests in flight, and about the books, for any     *)
(* number of tills, documents and days.                                    *)
(***************************************************************************)
EXTENDS DineIn, Books, TLAPS

(* The inductive invariant: types, a session that exists has a table, and   *)
(* session and bill agree.                                                  *)
PartyHasTable == \A s \in Sessions : session[s].status # "absent" => session[s].table \in Tables
ChargeIsFunction == charge = [s \in Sessions |-> charge[s]]
Inv == TypeOK /\ ChargeIsFunction /\ PartyHasTable /\ SessionBillAgree

(* Init establishes the invariant. *)
LEMMA InitInv == Init => Inv
  BY SMTT(30) DEF Init, Inv, TypeOK, ChargeIsFunction, PartyHasTable, SessionBillAgree, NoSession,
         Nothing, TableStatuses, SessionStatuses, KotStatuses, ItemStatuses, BillStatuses, Methods

(* Steps that touch neither sessions, bills nor amounts keep the invariant  *)
(* once they keep the types of what they do touch.                          *)
LEMMA SideStep ==
  ASSUME Inv, TypeOK', UNCHANGED <<session, bill, charge>>
  PROVE  Inv'
  BY Zenon DEF Inv, ChargeIsFunction, PartyHasTable, SessionBillAgree

SessionRow == [table : Tables \cup {None}, status : SessionStatuses,
               stay : {"none", "in_house", "departed"}, customer : BOOLEAN]

(* Setting a session's status keeps the type of the sessions. *)
LEMMA StatusSet ==
  ASSUME session \in [Sessions -> SessionRow], NEW s \in Sessions, NEW x \in SessionStatuses
  PROVE  [session EXCEPT ![s].status = x] \in [Sessions -> SessionRow]
  BY Zenon DEF SessionRow

(* Recording a guest's departure does as well. *)
LEMMA StaySet ==
  ASSUME session \in [Sessions -> SessionRow], NEW s \in Sessions
  PROVE  [session EXCEPT ![s].stay = "departed"] \in [Sessions -> SessionRow]
  BY Zenon DEF SessionRow

(* Seating, closing and departing keep the invariant. *)
LEMMA OpenSessionInv ==
  ASSUME Inv, NEW s \in Sessions, NEW t \in Tables, OpenSession(s, t)
  PROVE  Inv'
<1>1. PICK stay \in {"none", "in_house"}, customer \in BOOLEAN :
         session' = [session EXCEPT ![s] = [table |-> t, status |-> "open",
                                            stay |-> stay, customer |-> customer]]
  BY Zenon DEF OpenSession
<1>2. TypeOK'
  BY <1>1, Zenon DEF Inv, TypeOK, OpenSession, books, ledger, TableStatuses, SessionStatuses
<1>3. bill[s] = "none"
  BY Zenon DEF Inv, SessionBillAgree, OpenSession
<1> QED
  BY <1>1, <1>2, <1>3, Zenon DEF Inv, TypeOK, ChargeIsFunction, PartyHasTable, SessionBillAgree,
                          OpenSession, books

(* CloseSession closes only what is settled, so the bill is paid. *)
LEMMA CloseSessionInv ==
  ASSUME Inv, NEW s \in Sessions, CloseSession(s)
  PROVE  Inv'
<1>1. session[s].table \in Tables
  BY Zenon DEF Inv, PartyHasTable, CloseSession
<1>2. TypeOK'
  <2>1. session' \in [Sessions -> SessionRow]
    <3>1. "closed" \in SessionStatuses
      BY Zenon DEF SessionStatuses
    <3> QED
      BY <3>1, StatusSet, Zenon DEF Inv, TypeOK, CloseSession, SessionRow
  <2>2. table' \in [Tables -> TableStatuses]
    BY <1>1, Zenon DEF Inv, TypeOK, CloseSession, TableStatuses
  <2> QED
    BY <2>1, <2>2, Zenon DEF Inv, TypeOK, CloseSession, books, ledger, SessionRow
<1> QED
  BY <1>2, SMTT(30)
     DEF Inv, TypeOK, ChargeIsFunction, PartyHasTable, SessionBillAgree, CloseSession, books

(* A guest's departure changes the link of the session only. *)
LEMMA GuestDepartsInv ==
  ASSUME Inv, NEW s \in Sessions, GuestDeparts(s)
  PROVE  Inv'
<1>1. TypeOK'
  <2>1. session' \in [Sessions -> SessionRow]
    BY StaySet, Zenon DEF Inv, TypeOK, GuestDeparts, SessionRow
  <2> QED
    BY <2>1, Zenon DEF Inv, TypeOK, GuestDeparts, books, ledger, SessionRow
<1> QED
  BY <1>1, SMTT(30)
     DEF Inv, TypeOK, ChargeIsFunction, PartyHasTable, SessionBillAgree, GuestDeparts, books

(* CreateKOT reopens a billed session, whose bill stays unpaid. *)
LEMMA CreateKOTInv ==
  ASSUME Inv, NEW s \in Sessions, NEW k \in Kots, NEW I \in SUBSET Items, CreateKOT(s, k, I)
  PROVE  Inv'
<1>1. TypeOK'
  <2>1. item' \in [Items -> [kot : Kots \cup {None}, status : ItemStatuses]]
    BY Zenon DEF Inv, TypeOK, CreateKOT, ItemStatuses
  <2>2. kot' \in [Kots -> [session : Sessions \cup {None}, status : KotStatuses]]
    BY Zenon DEF Inv, TypeOK, CreateKOT, KotStatuses
  <2>3. session' \in [Sessions -> SessionRow]
    <3>1. "open" \in SessionStatuses
      BY Zenon DEF SessionStatuses
    <3> QED
      BY <3>1, StatusSet, Zenon DEF Inv, TypeOK, CreateKOT, SessionRow
  <2> QED
    BY <2>1, <2>2, <2>3, Zenon DEF Inv, TypeOK, CreateKOT, books, ledger, SessionRow
<1> QED
  BY <1>1, SMTT(30)
     DEF Inv, TypeOK, ChargeIsFunction, PartyHasTable, SessionBillAgree, CreateKOT, books

(* The kitchen's and the table hands' steps touch no session and no bill. *)
LEMMA KitchenInv ==
  ASSUME Inv, NEW k \in Kots, NEW to \in KotStatuses, SendKOT(k) \/ UpdateKOTStatus(k, to)
  PROVE  Inv'
<1>1. CASE SendKOT(k)
  <2>1. TypeOK'
    BY <1>1, SMTT(30) DEF Inv, TypeOK, SendKOT, books, ledger, KotStatuses
  <2> QED
    BY <1>1, <2>1, SideStep, Zenon DEF SendKOT, books
<1>2. CASE UpdateKOTStatus(k, to)
  <2>1. item' \in [Items -> [kot : Kots \cup {None}, status : ItemStatuses]]
    BY <1>2, SMTT(30) DEF Inv, TypeOK, UpdateKOTStatus, Mirrored, ItemStatuses
  <2>2. TypeOK'
    BY <1>2, <2>1, SMTT(30) DEF Inv, TypeOK, UpdateKOTStatus, books, ledger
  <2> QED
    BY <1>2, <2>2, SideStep, Zenon DEF UpdateKOTStatus, books
<1> QED
  BY <1>1, <1>2, Zenon

(* Cleaning a table and setting its status by hand change the table only. *)
LEMMA TableInv ==
  ASSUME Inv, NEW t \in Tables, CleanTable(t) \/ UpdateTable(t)
  PROVE  Inv'
<1>1. CASE CleanTable(t)
  <2>1. TypeOK'
    BY <1>1, Zenon DEF Inv, TypeOK, CleanTable, books, ledger, TableStatuses
  <2> QED
    BY <1>1, <2>1, SideStep, Zenon DEF CleanTable, books
<1>2. CASE UpdateTable(t)
  <2>1. TypeOK'
    BY <1>2, Zenon DEF Inv, TypeOK, UpdateTable, books, ledger
  <2> QED
    BY <1>2, <2>1, SideStep, Zenon DEF UpdateTable, books
<1> QED
  BY <1>1, <1>2, Zenon

(* Voiding changes an item and, on an open bill, its amounts. *)
LEMMA VoidInv ==
  ASSUME Inv, NEW i \in Items, VoidLook(i) \/ VoidWrite(i) \/ VoidKOTItem(i)
  PROVE  Inv'
<1>1. CASE VoidLook(i)
  <2>1. TypeOK'
    BY <1>1, Zenon DEF Inv, TypeOK, VoidLook, floor, books, ledger
  <2> QED
    BY <1>1, <2>1, SideStep, Zenon DEF VoidLook, floor, books
<1>2. CASE VoidWrite(i)
  <2>1. TypeOK'
    BY <1>2, SMTT(30) DEF Inv, TypeOK, VoidWrite, books, ledger, ItemStatuses
  <2> QED
    BY <1>2, <2>1, SideStep, Zenon DEF VoidWrite, books
<1>3. CASE VoidKOTItem(i)
  <2>1. TypeOK'
    BY <1>3, ZenonT(30) DEF Inv, TypeOK, VoidKOTItem, ledger, ItemStatuses
  <2>2. ChargeIsFunction'
    BY <1>3, Zenon DEF Inv, ChargeIsFunction, VoidKOTItem
  <2> QED
    BY <1>3, <2>1, <2>2, Zenon DEF Inv, PartyHasTable, SessionBillAgree, VoidKOTItem
<1> QED
  BY <1>1, <1>2, <1>3, Zenon

(* GenerateBill bills an open session: one without a bill is not billed,    *)
(* settled or refunded.                                                     *)
LEMMA GenerateBillInv ==
  ASSUME Inv, NEW s \in Sessions, GenerateBill(s)
  PROVE  Inv'
<1>1. session[s].table \in Tables
  BY Zenon DEF Inv, PartyHasTable, GenerateBill
<1>2. TypeOK'
  <2>1. session' \in [Sessions -> SessionRow]
    <3>1. "billed" \in SessionStatuses
      BY Zenon DEF SessionStatuses
    <3> QED
      BY <3>1, StatusSet, Zenon DEF Inv, TypeOK, GenerateBill, SessionRow
  <2>2. table' \in [Tables -> TableStatuses]
    BY <1>1, Zenon DEF Inv, TypeOK, GenerateBill, TableStatuses
  <2>3. bill' \in [Sessions -> BillStatuses]
    BY Zenon DEF Inv, TypeOK, GenerateBill, BillStatuses
  <2> QED
    BY <2>1, <2>2, <2>3, Zenon DEF Inv, TypeOK, GenerateBill, ledger, SessionRow
<1>3. ChargeIsFunction'
  BY Zenon DEF Inv, ChargeIsFunction, GenerateBill
<1> QED
  BY <1>2, <1>3, SMTT(30) DEF Inv, TypeOK, PartyHasTable, SessionBillAgree, GenerateBill

(* Adjusting and finalising move an unpaid bill to an unpaid bill. *)
LEMMA EditBillInv ==
  ASSUME Inv, NEW s \in Sessions, NEW a, UpdateBill(s, a) \/ FinalizeBill(s)
  PROVE  Inv'
<1>1. CASE UpdateBill(s, a)
  <2>1. TypeOK'
    BY <1>1, Zenon DEF Inv, TypeOK, UpdateBill, floor, ledger
  <2>2. ChargeIsFunction'
    BY <1>1, Zenon DEF Inv, ChargeIsFunction, UpdateBill
  <2> QED
    BY <1>1, <2>1, <2>2, Zenon DEF Inv, PartyHasTable, SessionBillAgree, UpdateBill, floor
<1>2. CASE FinalizeBill(s)
  <2>1. TypeOK'
    BY <1>2, Zenon DEF Inv, TypeOK, FinalizeBill, floor, ledger, BillStatuses
  <2> QED
    BY <1>2, <2>1, Zenon DEF Inv, TypeOK, ChargeIsFunction, PartyHasTable, SessionBillAgree,
                      FinalizeBill, floor
<1> QED
  BY <1>1, <1>2, Zenon

AfterRow == [pay : {"none", "sale", "cogs"}, method : Methods, refund : BOOLEAN]

(* Moving on what a payment has left to post keeps its type. *)
LEMMA AfterSet ==
  ASSUME after \in [Sessions -> AfterRow], NEW s \in Sessions,
         NEW x \in {"none", "sale", "cogs"}, NEW m \in Methods, NEW b \in BOOLEAN
  PROVE  /\ [after EXCEPT ![s].pay = x] \in [Sessions -> AfterRow]
         /\ [after EXCEPT ![s].pay = x, ![s].method = m] \in [Sessions -> AfterRow]
         /\ [after EXCEPT ![s].refund = b] \in [Sessions -> AfterRow]
  BY Zenon DEF AfterRow

(* A payment leaves the bill part-paid with the session as it was, or pays  *)
(* it and settles the session.                                              *)
LEMMA AddBillPaymentInv ==
  ASSUME Inv, NEW s \in Sessions, NEW m \in Methods, NEW a, AddBillPayment(s, m, a)
  PROVE  Inv'
<1> DEFINE settles == charge[s].total - (paid[s] + a) <= 0
<1>1. /\ bill[s] \in {"finalized", "partially_paid"}
      /\ bill' = [bill EXCEPT ![s] = IF settles THEN "paid" ELSE "partially_paid"]
      /\ session' = IF settles THEN [session EXCEPT ![s].status = "settled"] ELSE session
      /\ after' = IF settles THEN [after EXCEPT ![s].pay = "sale", ![s].method = m] ELSE after
      /\ UNCHANGED <<table, kot, item, charge, journal, voiding>>
  BY Zenon DEF AddBillPayment, Payable
<1> HIDE DEF settles
<1>2. TypeOK'
  <2>1. session' \in [Sessions -> SessionRow]
    <3>1. "settled" \in SessionStatuses
      BY Zenon DEF SessionStatuses
    <3> QED
      BY <1>1, <3>1, StatusSet, Zenon DEF Inv, TypeOK, SessionRow
  <2>2. bill' \in [Sessions -> BillStatuses]
    BY <1>1, Zenon DEF Inv, TypeOK, BillStatuses
  <2>3. after' \in [Sessions -> AfterRow]
    BY <1>1, AfterSet, Zenon DEF Inv, TypeOK, AfterRow
  <2> QED
    BY <1>1, <2>1, <2>2, <2>3, Zenon DEF Inv, TypeOK, SessionRow, AfterRow
<1>3. CASE settles
  BY <1>1, <1>2, <1>3, SMTT(30) DEF Inv, TypeOK, ChargeIsFunction, PartyHasTable, SessionBillAgree
<1>4. CASE ~settles
  BY <1>1, <1>2, <1>4, Zenon DEF Inv, TypeOK, ChargeIsFunction, PartyHasTable, SessionBillAgree
<1> QED
  BY <1>3, <1>4, Zenon

(* A refund marks bill and session together. *)
LEMMA RefundBillInv ==
  ASSUME Inv, NEW s \in Sessions, RefundBill(s)
  PROVE  Inv'
<1>1. TypeOK'
  <2>1. session' \in [Sessions -> SessionRow]
    <3>1. "refunded" \in SessionStatuses
      BY Zenon DEF SessionStatuses
    <3> QED
      BY <3>1, StatusSet, Zenon DEF Inv, TypeOK, RefundBill, SessionRow
  <2>2. bill' \in [Sessions -> BillStatuses]
    BY SMTT(30) DEF Inv, TypeOK, RefundBill, BillStatuses
  <2>3. after' \in [Sessions -> AfterRow]
    <3>1. after \in [Sessions -> AfterRow]
      BY Zenon DEF Inv, TypeOK, AfterRow
    <3>2. after' = [after EXCEPT ![s].refund = TRUE] /\ "cash" \in Methods
      BY Zenon DEF RefundBill, Methods
    <3> QED
      BY <3>1, <3>2, AfterSet, Zenon
  <2> QED
    BY <2>1, <2>2, <2>3, Zenon DEF Inv, TypeOK, RefundBill, SessionRow, AfterRow
<1> QED
  BY <1>1, SMTT(30) DEF Inv, TypeOK, ChargeIsFunction, PartyHasTable, SessionBillAgree, RefundBill

(* What runs after a commit, and a crash that loses it, touch the ledger    *)
(* and the requests in flight only.                                         *)
LEMMA LedgerInv ==
  ASSUME Inv, LedgerStep \/ Crash
  PROVE  Inv'
<1>1. CASE LedgerStep
  <2>1. PICK s \in Sessions : PostSale(s) \/ PostCOGS(s) \/ PostFails(s) \/ ReverseEntries(s)
    BY <1>1, Zenon DEF LedgerStep
  <2>2. UNCHANGED <<floor, books, voiding>>
    BY <2>1, Zenon DEF PostSale, PostCOGS, PostFails, ReverseEntries
  <2>3. after' \in [Sessions -> AfterRow]
    <3>1. after \in [Sessions -> AfterRow]
      BY SMTT(30) DEF Inv, TypeOK, AfterRow
    <3>2. CASE ReverseEntries(s)
      <4>1. after' = [after EXCEPT ![s].refund = FALSE] /\ "cash" \in Methods
        BY <3>2, SMTT(30) DEF ReverseEntries, Methods
      <4> QED
        BY <3>1, <4>1, AfterSet, Zenon
    <3>3. CASE PostSale(s) \/ PostCOGS(s) \/ PostFails(s)
      <4>1. PICK x \in {"none", "sale", "cogs"} : after' = [after EXCEPT ![s].pay = x]
        BY <3>3, Zenon DEF PostSale, PostCOGS, PostFails
      <4>2. "cash" \in Methods /\ TRUE \in BOOLEAN
        BY Zenon DEF Methods
      <4> QED
        BY <3>1, <4>1, <4>2, AfterSet, Zenon
    <3> QED
      BY <2>1, <3>2, <3>3, Zenon
  <2>4. TypeOK'
    BY <2>2, <2>3, Zenon DEF Inv, TypeOK, AfterRow, floor, books
  <2> QED
    BY <2>2, <2>4, SideStep, Zenon DEF floor, books
<1>2. CASE Crash
  <2>1. TypeOK'
    BY <1>2, Zenon DEF Inv, TypeOK, Crash, floor, books, Nothing, Methods
  <2> QED
    BY <1>2, <2>1, SideStep, Zenon DEF Crash, floor, books
<1> QED
  BY <1>1, <1>2, Zenon

(* Every step keeps the invariant. *)
LEMMA NextInv == Inv /\ [Next]_vars => Inv'
<1> SUFFICES ASSUME Inv, [Next]_vars PROVE Inv'
  BY Zenon
<1>1. CASE FloorStep
  BY <1>1, OpenSessionInv, CloseSessionInv, GuestDepartsInv, TableInv, Zenon DEF FloorStep
<1>2. CASE KitchenStep
  <2>1. CASE \E k \in Kots : SendKOT(k)
    <3>1. "draft" \in KotStatuses
      BY Zenon DEF KotStatuses
    <3> QED
      BY <2>1, <3>1, KitchenInv, Zenon
  <2> QED
    BY <1>2, <2>1, CreateKOTInv, KitchenInv, VoidInv, Zenon DEF KitchenStep
<1>3. CASE CashierStep
  BY <1>3, GenerateBillInv, EditBillInv, AddBillPaymentInv, RefundBillInv, Zenon DEF CashierStep
<1>4. CASE LedgerStep \/ Crash
  BY <1>4, LedgerInv, Zenon
<1>5. CASE UNCHANGED vars
  <2>1. TypeOK'
    BY <1>5, Zenon DEF Inv, TypeOK, vars
  <2> QED
    BY <1>5, <2>1, SideStep, Zenon DEF vars
<1> QED
  BY <1>1, <1>2, <1>3, <1>4, <1>5, Zenon DEF Next

(* The inductive invariant behind the theorems on sessions and bills holds  *)
(* in every reachable state: types, a table for every session, session and  *)
(* bill in agreement.                                                       *)
THEOREM InductiveInvariant == Spec => []Inv
<1> QED
  BY InitInv, NextInv, PTL DEF Spec

(* Session and bill agree on where a party stands, for any number of        *)
(* tables, parties, tickets and requests in flight, with failed postings    *)
(* and crashes.                                                             *)
THEOREM SessionBillAgreeHolds == Spec => []SessionBillAgree
<1>1. Inv => SessionBillAgree
  BY Zenon DEF Inv
<1> QED
  BY <1>1, InductiveInvariant, PTL

(* FinalizeBill locks: whatever the order of voids, adjustments, payments   *)
(* and refunds, no step changes the amounts of a bill past open.            *)
THEOREM LockedBillFrozenHolds == Spec => LockedBillFrozen
<1>1. ASSUME Inv, [Next]_vars, NEW s \in Sessions, bill[s] \notin {"none", "open"}
      PROVE  charge'[s] = charge[s]
  <2>1. CASE FloorStep
    BY <2>1, Zenon
       DEF FloorStep, OpenSession, CloseSession, GuestDeparts, CleanTable, UpdateTable, books
  <2>2. CASE KitchenStep
    <3>1. ASSUME NEW i \in Items, VoidKOTItem(i) PROVE charge'[s] = charge[s]
      <4>1. bill[SessionOf(i)] = "open"
        BY <3>1, Zenon DEF VoidKOTItem
      <4>2. \E x : charge' = [charge EXCEPT ![SessionOf(i)] = x]
        BY <3>1, Zenon DEF VoidKOTItem
      <4> QED
        BY <1>1, <4>1, <4>2, Zenon DEF Inv, ChargeIsFunction
    <3> QED
      BY <2>2, <3>1, Zenon
         DEF KitchenStep, CreateKOT, SendKOT, UpdateKOTStatus, VoidLook, VoidWrite, books
  <2>3. CASE CashierStep
    <3>1. ASSUME NEW o \in Sessions, GenerateBill(o) PROVE charge'[s] = charge[s]
      <4>1. bill[o] = "none" /\ \E x : charge' = [charge EXCEPT ![o] = x]
        BY <3>1, Zenon DEF GenerateBill
      <4> QED
        BY <1>1, <4>1, Zenon DEF Inv, ChargeIsFunction
    <3>2. ASSUME NEW o \in Sessions, NEW a \in Adjustments, UpdateBill(o, a)
          PROVE charge'[s] = charge[s]
      <4>1. bill[o] = "open" /\ \E x : charge' = [charge EXCEPT ![o] = x]
        BY <3>2, Zenon DEF UpdateBill
      <4> QED
        BY <1>1, <4>1, Zenon DEF Inv, ChargeIsFunction
    <3> QED
      BY <2>3, <3>1, <3>2, ZenonT(30) DEF CashierStep, FinalizeBill, AddBillPayment, RefundBill
  <2>4. CASE LedgerStep \/ Crash
    BY <2>4, Zenon DEF LedgerStep, Crash, PostSale, PostCOGS, PostFails, ReverseEntries, books
  <2>5. CASE UNCHANGED vars
    BY <2>5, Zenon DEF vars
  <2> QED
    BY <1>1, <2>1, <2>2, <2>3, <2>4, <2>5, Zenon DEF Next
<1>2. Inv /\ [Next]_vars =>
        [\A s \in Sessions : bill[s] \notin {"none", "open"} => charge'[s] = charge[s]]_vars
  BY <1>1, Zenon
<1> QED
  BY <1>2, InductiveInvariant, PTL DEF Spec, LockedBillFrozen

-----------------------------------------------------------------------------
HeldInv == Inv /\ TableHeld

(* A step that leaves the tables alone, and seats nobody new, keeps every   *)
(* party's table.                                                           *)
LEMMA HeldSideStep ==
  ASSUME TableHeld, UNCHANGED table,
         \A s \in Sessions : Seated(s)' => Seated(s) /\ session'[s].table = session[s].table
  PROVE  TableHeld'
  BY SMTT(30) DEF TableHeld, Seated

(* Seating and closing keep every party's table. *)
LEMMA SeatingHeld ==
  ASSUME HeldInv, NEW s \in Sessions, NEW t \in Tables, OpenSession(s, t) \/ CloseSession(s)
  PROVE  TableHeld'
<1>1. CASE OpenSession(s, t)
  <2>1. PICK stay \in {"none", "in_house"}, customer \in BOOLEAN :
           session' = [session EXCEPT ![s] = [table |-> t, status |-> "open",
                                              stay |-> stay, customer |-> customer]]
    BY <1>1, Zenon DEF OpenSession
  <2>2. \A o \in Sessions : Seated(o) => session[o].table # t
    BY <1>1, Zenon DEF HeldInv, TableHeld, OpenSession
  <2>3. /\ session'[s].table = t /\ table'[t] = "occupied"
        /\ \A o \in Sessions \ {s} : session'[o] = session[o]
        /\ \A u \in Tables \ {t} : table'[u] = table[u]
    BY <1>1, <2>1, Zenon DEF HeldInv, Inv, TypeOK, OpenSession
  <2>4. \A o \in Sessions : Seated(o) => session[o].table \in Tables
    BY Zenon DEF HeldInv, Inv, PartyHasTable, Seated
  <2> QED
    BY <2>2, <2>3, <2>4, SMTT(30) DEF HeldInv, TableHeld, Seated
<1>2. CASE CloseSession(s)
  <2>1. Seated(s) /\ session[s].table \in Tables
    BY <1>2, Zenon DEF HeldInv, Inv, PartyHasTable, CloseSession, Seated
  <2>2. /\ session'[s].status = "closed"
        /\ \A o \in Sessions \ {s} : session'[o] = session[o]
        /\ \A u \in Tables \ {session[s].table} : table'[u] = table[u]
    BY <1>2, SMTT(30) DEF HeldInv, Inv, TypeOK, CloseSession
  <2>3. \A o \in Sessions : Seated(o) => session[o].table \in Tables
    BY Zenon DEF HeldInv, Inv, PartyHasTable, Seated
  <2> QED
    BY <2>1, <2>2, <2>3, SMTT(30) DEF HeldInv, TableHeld, Seated
<1> QED
  BY <1>1, <1>2, Zenon

(* Only a table nobody sits at is in cleaning. *)
LEMMA CleanTableHeld ==
  ASSUME HeldInv, NEW t \in Tables, CleanTable(t)
  PROVE  TableHeld'
<1>1. \A o \in Sessions : Seated(o) => session[o].table \in Tables \ {t}
  BY Zenon DEF HeldInv, Inv, PartyHasTable, TableHeld, Seated, CleanTable
<1>2. UNCHANGED session /\ \A u \in Tables \ {t} : table'[u] = table[u]
  BY Zenon DEF HeldInv, Inv, TypeOK, CleanTable
<1> QED
  BY <1>1, <1>2, Zenon DEF HeldInv, TableHeld, Seated

(* A bill is raised for a party that sits at the table, and a payment       *)
(* settles one that does: the bill says so.                                 *)
LEMMA BillingHeld ==
  ASSUME HeldInv, NEW s \in Sessions, NEW m \in Methods, NEW a,
         GenerateBill(s) \/ AddBillPayment(s, m, a) \/ RefundBill(s)
  PROVE  TableHeld'
<1>1. CASE GenerateBill(s)
  <2>1. Seated(s) /\ session[s].table \in Tables
    BY <1>1, Zenon DEF HeldInv, Inv, TypeOK, PartyHasTable, SessionBillAgree, GenerateBill, Seated,
                SessionStatuses
  <2>2. /\ session'[s].table = session[s].table
        /\ \A o \in Sessions \ {s} : session'[o] = session[o]
        /\ table'[session[s].table] = "billed"
        /\ \A u \in Tables \ {session[s].table} : table'[u] = table[u]
    BY <1>1, <2>1, SMTT(30) DEF HeldInv, Inv, TypeOK, GenerateBill
  <2>3. \A o \in Sessions : Seated(o) => session[o].table \in Tables
    BY Zenon DEF HeldInv, Inv, PartyHasTable, Seated
  <2> QED
    BY <2>1, <2>2, <2>3, SMTT(30) DEF HeldInv, TableHeld, Seated
<1>2. CASE AddBillPayment(s, m, a)
  <2>1. Seated(s)
    BY <1>2, Zenon DEF HeldInv, Inv, TypeOK, SessionBillAgree, AddBillPayment, Payable, Seated,
                SessionStatuses
  <2>2. UNCHANGED table /\ (session' = [session EXCEPT ![s].status = "settled"] \/ session' = session)
    BY <1>2, Zenon DEF AddBillPayment
  <2>3. /\ session'[s].table = session[s].table
        /\ \A o \in Sessions \ {s} : session'[o] = session[o]
    BY <2>2, Zenon DEF HeldInv, Inv, TypeOK
  <2>4. \A o \in Sessions : Seated(o)' => Seated(o) /\ session'[o].table = session[o].table
    BY <2>1, <2>3, Zenon DEF Seated
  <2> QED
    BY <2>2, <2>4, HeldSideStep, Zenon DEF HeldInv
<1>3. CASE RefundBill(s)
  <2>1. UNCHANGED table /\ session' = [session EXCEPT ![s].status = "refunded"]
    BY <1>3, Zenon DEF RefundBill
  <2>2. \A o \in Sessions : Seated(o)' => Seated(o) /\ session'[o].table = session[o].table
    BY <2>1, Zenon DEF HeldInv, Inv, TypeOK, Seated
  <2> QED
    BY <2>1, <2>2, HeldSideStep, Zenon DEF HeldInv
<1> QED
  BY <1>1, <1>2, <1>3, Zenon

(* As long as nobody sets table statuses by hand, a table with a party that *)
(* has not left is never offered, cleaned or given to another party.        *)
THEOREM TableHeldHolds == ASSUME "switch" \notin Ops PROVE Spec => []TableHeld
<1>1. Init => HeldInv
  BY InitInv, SMTT(30) DEF Init, HeldInv, TableHeld, Seated, NoSession
<1>2. HeldInv /\ [Next]_vars => HeldInv'
  <2> SUFFICES ASSUME HeldInv, [Next]_vars PROVE TableHeld'
    BY NextInv, Zenon DEF HeldInv
  <2>1. CASE FloorStep
    <3>1. ASSUME NEW s \in Sessions, GuestDeparts(s) PROVE TableHeld'
      <4>1. UNCHANGED table /\ session' = [session EXCEPT ![s].stay = "departed"]
        BY <3>1, Zenon DEF GuestDeparts
      <4>2. \A o \in Sessions : Seated(o)' => Seated(o) /\ session'[o].table = session[o].table
        BY <4>1, SMTT(30) DEF HeldInv, Inv, TypeOK, Seated
      <4> QED
        BY <4>1, <4>2, HeldSideStep, Zenon DEF HeldInv
    <3>2. ASSUME NEW s \in Sessions, CloseSession(s) PROVE TableHeld'
      <4>1. session[s].table \in Tables
        BY <3>2, Zenon DEF HeldInv, Inv, PartyHasTable, CloseSession
      <4> QED
        BY <3>2, <4>1, SeatingHeld, Zenon
    <3> QED
      BY <2>1, <3>1, <3>2, SeatingHeld, CleanTableHeld, Zenon DEF FloorStep, UpdateTable
  <2>2. CASE KitchenStep
    <3>1. ASSUME NEW s \in Sessions, NEW k \in Kots, NEW I \in SUBSET Items, CreateKOT(s, k, I)
          PROVE TableHeld'
      <4>1. Seated(s) /\ UNCHANGED table /\ session' = [session EXCEPT ![s].status = "open"]
        BY <3>1, Zenon DEF CreateKOT, Seated
      <4>2. \A o \in Sessions : Seated(o)' => Seated(o) /\ session'[o].table = session[o].table
        BY <4>1, SMTT(30) DEF HeldInv, Inv, TypeOK, Seated
      <4> QED
        BY <4>1, <4>2, HeldSideStep, Zenon DEF HeldInv
    <3>2. ASSUME UNCHANGED <<table, session>> PROVE TableHeld'
      BY <3>2, Zenon DEF HeldInv, TableHeld, Seated
    <3> QED
      BY <2>2, <3>1, <3>2, Zenon DEF KitchenStep, SendKOT, UpdateKOTStatus, VoidLook, VoidWrite,
                              VoidKOTItem, floor
  <2>3. CASE CashierStep
    <3>1. ASSUME UNCHANGED <<table, session>> PROVE TableHeld'
      BY <3>1, Zenon DEF HeldInv, TableHeld, Seated
    <3>2. "cash" \in Methods
      BY Zenon DEF Methods
    <3> QED
      BY <2>3, <3>1, <3>2, BillingHeld, SMTT(30) DEF CashierStep, FinalizeBill, UpdateBill, floor
  <2>4. CASE LedgerStep \/ Crash \/ UNCHANGED vars
    <3>1. UNCHANGED <<table, session>>
      BY <2>4, Zenon DEF LedgerStep, Crash, PostSale, PostCOGS, PostFails, ReverseEntries,
                  floor, vars
    <3> QED
      BY <3>1, Zenon DEF HeldInv, TableHeld, Seated
  <2> QED
    BY <2>1, <2>2, <2>3, <2>4, Zenon DEF Next
<1>3. HeldInv => TableHeld
  BY Zenon DEF HeldInv
<1> QED
  BY <1>1, <1>2, <1>3, PTL DEF Spec

-----------------------------------------------------------------------------
(* The ledger: a sale still to be posted is posted for the first time, and   *)
(* only a bill that is paid, or was, has any.                                *)
JournalRow(x) == x = [posted |-> x.posted, account |-> x.account, sale |-> x.sale, cogs |-> x.cogs,
                      back |-> x.back, cogsBack |-> x.cogsBack]
Booked(s) ==
  /\ JournalRow(journal[s]) /\ journal[s].posted \in {0, 1}
  /\ (journal[s].posted = 1 \/ after[s].pay # "none") => bill[s] \in {"paid", "refunded"}
  /\ after[s].pay = "sale" => journal[s].posted = 0
SaleInv == Inv /\ journal = [s \in Sessions |-> journal[s]] /\ \A s \in Sessions : Booked(s)

(* Neither the ledger nor what is left to write changes, and a paid or       *)
(* refunded bill stays one.                                                  *)
LEMMA SaleSideStep ==
  ASSUME SaleInv, UNCHANGED <<journal, after>>,
         \A s \in Sessions : bill[s] \in {"paid", "refunded"} => bill'[s] \in {"paid", "refunded"}
  PROVE  /\ journal' = [s \in Sessions |-> journal'[s]]
         /\ \A s \in Sessions : Booked(s)'
BY Zenon DEF SaleInv, Booked

(* One session's entries and what it has left to write change. *)
LEMMA SaleStepOf ==
  ASSUME SaleInv, NEW s \in Sessions, NEW j, NEW x, journal' = [journal EXCEPT ![s] = j],
         after' = [after EXCEPT ![s] = x], \A o \in Sessions \ {s} : bill'[o] = bill[o],
         JournalRow(j), j.posted \in {0, 1},
         j.posted = 1 \/ x.pay # "none" => bill'[s] \in {"paid", "refunded"},
         x.pay = "sale" => j.posted = 0
  PROVE  /\ journal' = [o \in Sessions |-> journal'[o]]
         /\ \A o \in Sessions : Booked(o)'
<1>1. /\ journal' = [o \in Sessions |-> journal'[o]] /\ journal'[s] = j
      /\ \A o \in Sessions \ {s} : journal'[o] = journal[o]
  BY Zenon DEF SaleInv
<1>2. after'[s] = x /\ \A o \in Sessions \ {s} : after'[o] = after[o]
  BY Zenon DEF SaleInv, Inv, TypeOK
<1>3. \A o \in Sessions \ {s} : Booked(o)'
  BY <1>1, <1>2, SMTT(30) DEF SaleInv, Booked
<1>4. Booked(s)'
  BY <1>1, <1>2, Zenon DEF Booked
<1> QED
  BY <1>1, <1>3, <1>4, Zenon

(* The payment that settles a bill books its sale, once.                    *)
LEMMA SalePaymentStep ==
  ASSUME SaleInv, NEW s \in Sessions, NEW m \in Methods, NEW a, AddBillPayment(s, m, a)
  PROVE  /\ journal' = [o \in Sessions |-> journal'[o]]
         /\ \A o \in Sessions : Booked(o)'
<1>1. /\ bill \in [Sessions -> BillStatuses] /\ after \in [Sessions -> AfterRow]
      /\ Booked(s) /\ journal = [o \in Sessions |-> journal[o]]
  BY Zenon DEF SaleInv, Inv, TypeOK, AfterRow
<1>2. PICK to \in {"paid", "partially_paid"} :
        /\ bill' = [bill EXCEPT ![s] = to] /\ journal' = journal /\ bill[s] \in {"finalized", "partially_paid"}
        /\ after' = IF to = "paid" THEN [after EXCEPT ![s].pay = "sale", ![s].method = m] ELSE after
  <2>1. CASE charge[s].total - (paid[s] + a) <= 0
    <3>1. /\ bill' = [bill EXCEPT ![s] = "paid"] /\ journal' = journal /\ bill[s] \in {"finalized", "partially_paid"}
          /\ after' = [after EXCEPT ![s].pay = "sale", ![s].method = m]
      BY <2>1, Zenon DEF AddBillPayment, Payable
    <3> QED
      BY <3>1, Zenon
  <2>2. CASE ~(charge[s].total - (paid[s] + a) <= 0)
    <3>1. /\ bill' = [bill EXCEPT ![s] = "partially_paid"] /\ journal' = journal
          /\ bill[s] \in {"finalized", "partially_paid"} /\ after' = after
      BY <2>2, Zenon DEF AddBillPayment, Payable
    <3> QED
      BY <3>1, Zenon
  <2> QED
    BY <2>1, <2>2, Zenon
<1>3. journal[s].posted = 0 /\ after[s].pay = "none"
  BY <1>1, <1>2, Zenon DEF Booked
<1>4. bill'[s] = to /\ \A o \in Sessions \ {s} : bill'[o] = bill[o]
  BY <1>1, <1>2, Zenon
<1>5. CASE to = "paid"
  <2>1. PICK x : x = [after[s] EXCEPT !.pay = "sale", !.method = m]
    BY Zenon
  <2>2. after' = [after EXCEPT ![s] = x]
    BY <1>2, <1>5, <2>1, Zenon
  <2>3. PICK j : j = journal[s]
    BY Zenon
  <2>4. journal' = [journal EXCEPT ![s] = j]
    BY <1>1, <1>2, <2>3, Zenon
  <2> QED
    BY <1>1, <1>3, <1>4, <1>5, <2>2, <2>3, <2>4, SaleStepOf, Zenon DEF Booked
<1>6. CASE to = "partially_paid"
  <2>1. \A o \in Sessions : bill[o] \in {"paid", "refunded"} => bill'[o] \in {"paid", "refunded"}
    BY <1>2, <1>4, Zenon
  <2> QED
    BY <1>2, <1>6, <2>1, SaleSideStep, Zenon
<1> QED
  BY <1>5, <1>6, Zenon

(* A refund reverses the sale that was booked.                              *)
LEMMA SaleRefundStep ==
  ASSUME SaleInv, NEW s \in Sessions, RefundBill(s)
  PROVE  /\ journal' = [o \in Sessions |-> journal'[o]]
         /\ \A o \in Sessions : Booked(o)'
<1>1. /\ bill \in [Sessions -> BillStatuses] /\ after \in [Sessions -> AfterRow]
      /\ Booked(s) /\ journal = [o \in Sessions |-> journal[o]]
  BY Zenon DEF SaleInv, Inv, TypeOK, AfterRow
<1>2. /\ bill' = [bill EXCEPT ![s] = "refunded"] /\ journal' = journal
      /\ after' = [after EXCEPT ![s].refund = TRUE]
  BY Zenon DEF RefundBill
<1>3. bill'[s] = "refunded" /\ \A o \in Sessions \ {s} : bill'[o] = bill[o]
  BY <1>1, <1>2, Zenon
<1>4. PICK x : x = [after[s] EXCEPT !.refund = TRUE]
  BY Zenon
<1>5. x.pay = after[s].pay
  BY <1>1, <1>4, Zenon DEF AfterRow
<1>6. PICK j : j = journal[s]
  BY Zenon
<1>7. after' = [after EXCEPT ![s] = x] /\ journal' = [journal EXCEPT ![s] = j]
  BY <1>1, <1>2, <1>4, <1>6, Zenon
<1> QED
  BY <1>1, <1>3, <1>5, <1>6, <1>7, SaleStepOf, Zenon DEF Booked

(* PostSale posts once; nothing else posts a sale. *)
LEMMA SaleLedgerStep ==
  ASSUME SaleInv, NEW s \in Sessions, PostSale(s) \/ PostCOGS(s) \/ PostFails(s) \/ ReverseEntries(s)
  PROVE  /\ journal' = [o \in Sessions |-> journal'[o]]
         /\ \A o \in Sessions : Booked(o)'
<1>1. /\ after \in [Sessions -> AfterRow] /\ after[s] \in AfterRow
      /\ Booked(s) /\ journal = [o \in Sessions |-> journal[o]]
  BY Zenon DEF SaleInv, Inv, TypeOK, AfterRow
<1>2. bill' = bill
  BY Zenon DEF PostSale, PostCOGS, PostFails, ReverseEntries, books
<1>3. CASE PostSale(s)
  <2>1. PICK x : x = [after[s] EXCEPT !.pay = "cogs"]
    BY Zenon
  <2>2. x.pay = "cogs" /\ after[s].pay = "sale"
    BY <1>1, <1>3, <2>1, Zenon DEF AfterRow, PostSale
  <2>3. after' = [after EXCEPT ![s] = x]
    BY <1>3, <2>1, Zenon DEF PostSale
  <2>4. PICK j : j = IF after[s].method = "room_charge" /\ ~session[s].customer THEN journal[s]
                     ELSE [journal[s] EXCEPT !.posted = @ + 1, !.sale = @ + charge[s].total,
                                             !.account = DebitAccount(after[s].method)]
    BY Zenon
  <2>5. journal' = [journal EXCEPT ![s] = j]
    <3>1. CASE after[s].method = "room_charge" /\ ~session[s].customer
      BY <1>1, <1>3, <2>4, <3>1, Zenon DEF PostSale
    <3>2. CASE ~(after[s].method = "room_charge" /\ ~session[s].customer)
      BY <1>1, <1>3, <2>4, <3>2, Zenon DEF PostSale
    <3> QED
      BY <3>1, <3>2, Zenon
  <2>6. JournalRow(j) /\ j.posted \in {0, 1}
    <3>1. JournalRow(journal[s]) /\ journal[s].posted = 0
      BY <1>1, <2>2, Zenon DEF Booked
    <3>2. CASE j = journal[s]
      BY <3>1, <3>2, Zenon
    <3>3. CASE ~(after[s].method = "room_charge" /\ ~session[s].customer)
      <4>1. PICK posted, sale, account : /\ posted = journal[s].posted + 1 /\ sale = journal[s].sale + charge[s].total
                                         /\ account = DebitAccount(after[s].method)
        BY Zenon
      <4>2. j = [journal[s] EXCEPT !.posted = posted, !.sale = sale, !.account = account]
        BY <2>4, <3>3, <4>1, Zenon
      <4>3. posted = 1
        BY <3>1, <4>1, SMTT(30)
      <4> QED
        BY <3>1, <4>2, <4>3, Zenon DEF JournalRow
    <3> QED
      BY <2>4, <3>2, <3>3, Zenon
  <2> QED
    BY <1>1, <1>2, <2>2, <2>3, <2>5, <2>6, SaleStepOf, Zenon DEF Booked
<1>4. CASE PostCOGS(s)
  <2>1. PICK x : x = [after[s] EXCEPT !.pay = "none"]
    BY Zenon
  <2>2. x.pay = "none" /\ after[s].pay = "cogs"
    BY <1>1, <1>4, <2>1, Zenon DEF AfterRow, PostCOGS
  <2>3. PICK j : j = [journal[s] EXCEPT !.cogs = @ + sessionCOGS(s)]
    BY Zenon
  <2>4. JournalRow(j) /\ j.posted = journal[s].posted
    BY <1>1, <2>3, Zenon DEF Booked, JournalRow
  <2>5. after' = [after EXCEPT ![s] = x] /\ journal' = [journal EXCEPT ![s] = j]
    BY <1>4, <2>1, <2>3, Zenon DEF PostCOGS
  <2> QED
    BY <1>1, <1>2, <2>2, <2>4, <2>5, SaleStepOf, Zenon DEF Booked
<1>5. CASE PostFails(s)
  <2>1. PICK x : x = [after[s] EXCEPT !.pay = IF after[s].pay = "sale" THEN "cogs" ELSE "none"]
    BY Zenon
  <2>2. after[s].pay # "none" /\ x.pay # "sale"
    BY <1>1, <1>5, <2>1, Zenon DEF AfterRow, PostFails
  <2>3. PICK j : j = journal[s]
    BY Zenon
  <2>4. after' = [after EXCEPT ![s] = x] /\ journal' = [journal EXCEPT ![s] = j]
    BY <1>1, <1>5, <2>1, <2>3, Zenon DEF PostFails
  <2> QED
    BY <1>1, <1>2, <2>2, <2>3, <2>4, SaleStepOf, Zenon DEF Booked
<1>6. CASE ReverseEntries(s)
  <2>1. PICK x : x = [after[s] EXCEPT !.refund = FALSE]
    BY Zenon
  <2>2. x.pay = after[s].pay
    BY <1>1, <2>1, Zenon DEF AfterRow
  <2>3. PICK j : j = [journal[s] EXCEPT !.back = @ + journal[s].sale, !.cogsBack = @ + journal[s].cogs]
    BY Zenon
  <2>4. JournalRow(j) /\ j.posted = journal[s].posted
    BY <1>1, <2>3, Zenon DEF Booked, JournalRow
  <2>5. after' = [after EXCEPT ![s] = x] /\ journal' = [journal EXCEPT ![s] = j]
    BY <1>6, <2>1, <2>3, Zenon DEF ReverseEntries
  <2> QED
    BY <1>1, <1>2, <2>2, <2>4, <2>5, SaleStepOf, Zenon DEF Booked
<1> QED
  BY <1>3, <1>4, <1>5, <1>6, Zenon

(* Init establishes the invariant of the sale entries.                      *)
LEMMA SaleInitially == Init => SaleInv
<1> SUFFICES ASSUME Init PROVE SaleInv
  BY Zenon
<1>1. JournalRow(NoJournal) /\ NoJournal.posted = 0 /\ Nothing.pay = "none"
  BY Zenon DEF JournalRow, NoJournal, Nothing
<1>2. journal = [s \in Sessions |-> NoJournal] /\ after = [s \in Sessions |-> Nothing]
  BY Zenon DEF Init
<1> QED
  BY <1>1, <1>2, InitInv, SMTT(30) DEF SaleInv, Booked

(* The invariant of the sale entries is inductive.                          *)
LEMMA SaleStep == SaleInv /\ [Next]_vars => SaleInv'
<1> SUFFICES ASSUME SaleInv, [Next]_vars PROVE journal' = [s \in Sessions |-> journal'[s]] /\ \A s \in Sessions : Booked(s)'
  BY NextInv, Zenon DEF SaleInv
<1>0. bill \in [Sessions -> BillStatuses]
  BY Zenon DEF SaleInv, Inv, TypeOK
<1>1. CASE FloorStep \/ KitchenStep \/ UNCHANGED vars
  <2>1. UNCHANGED <<journal, after, bill>>
    BY <1>1, Zenon
       DEF FloorStep, KitchenStep, OpenSession, CloseSession, GuestDeparts, CleanTable,
           UpdateTable, CreateKOT,
                SendKOT, UpdateKOTStatus, VoidLook, VoidWrite, VoidKOTItem, books, ledger, vars
  <2> QED
    BY <2>1, SaleSideStep, Zenon
<1>2. CASE CashierStep
  <2>1. ASSUME NEW s \in Sessions, GenerateBill(s) \/ FinalizeBill(s)
        PROVE  /\ UNCHANGED <<journal, after>>
               /\ \A o \in Sessions : bill[o] \in {"paid", "refunded"} => bill'[o] \in {"paid", "refunded"}
    <3>1. /\ UNCHANGED <<journal, after>> /\ bill[s] \in {"none", "open"}
          /\ (bill' = [bill EXCEPT ![s] = "open"] \/ bill' = [bill EXCEPT ![s] = "finalized"])
      BY <2>1, Zenon DEF GenerateBill, FinalizeBill, ledger
    <3> QED
      BY <1>0, <3>1, Zenon
  <2>2. ASSUME NEW s \in Sessions, NEW a, UpdateBill(s, a)
        PROVE  UNCHANGED <<journal, after, bill>>
    BY <2>2, Zenon DEF UpdateBill, ledger
  <2> QED
    BY <1>2, <2>1, <2>2, SaleSideStep, SalePaymentStep, SaleRefundStep, Zenon DEF CashierStep
<1>3. CASE LedgerStep
  BY <1>3, SaleLedgerStep, Zenon DEF LedgerStep
<1>4. CASE Crash
  <2>1. journal' = journal /\ bill' = bill /\ \A s \in Sessions : after'[s].pay = "none"
    BY <1>4, Zenon DEF Crash, Nothing, books
  <2> QED
    BY <2>1, Zenon DEF SaleInv, Booked
<1> QED
  BY <1>1, <1>2, <1>3, <1>4, Zenon DEF Next

(* A sale is booked at most once, and only for a bill that was paid: for any *)
(* number of payments, failed postings and crashes between the commit of a   *)
(* payment and postSalesToLedgerFor.                                         *)
THEOREM SaleBookedOnce == Spec => []OneSaleEntry
<1>1. SaleInv => OneSaleEntry
  BY SMTT(30) DEF SaleInv, Booked, OneSaleEntry
<1> QED
  BY <1>1, SaleInitially, SaleStep, PTL DEF Spec

-----------------------------------------------------------------------------
(* The tender.  Amounts are positive, so a charge to the room shows in the   *)
(* sum; what was computed for the bill no longer changes once it is paid.    *)
Tendered(s) ==
  /\ till[s] \in [Methods -> Nat] /\ paid[s] \in Nat /\ revenue[s] \in Int
  /\ folio[s].posted \in BOOLEAN
  /\ paid[s] = till[s]["cash"] + till[s]["card"] + till[s]["room_charge"]
  /\ (bill[s] = "paid" => Covered(s))
  /\ (bill[s] = "partially_paid" => paid[s] > 0 /\ ~Covered(s))
  /\ (bill[s] # "refunded" => revenue[s] = till[s]["cash"] + till[s]["card"])
  /\ (folio[s].posted <=> till[s]["room_charge"] > 0)
TenderRows ==
  /\ till = [s \in Sessions |-> till[s]] /\ paid = [s \in Sessions |-> paid[s]]
  /\ revenue = [s \in Sessions |-> revenue[s]] /\ folio = [s \in Sessions |-> folio[s]]
TenderInv == Inv /\ TenderRows /\ \A s \in Sessions : Tendered(s)

(* No money moves, and a bill past open keeps its amounts. *)
LEMMA TenderSideStep ==
  ASSUME TenderInv, UNCHANGED <<paid, till, revenue, folio>>,
         \A s \in Sessions : \/ bill'[s] = bill[s] /\ charge'[s] = charge[s]
                             \/ bill[s] \in {"none", "open"} /\ bill'[s] \in {"none", "open", "finalized"}
  PROVE  TenderRows' /\ \A s \in Sessions : Tendered(s)'
<1>1. TenderRows'
  BY Zenon DEF TenderInv, TenderRows
<1>2. ASSUME NEW s \in Sessions PROVE Tendered(s)'
  <2>1. Tendered(s)
    BY Zenon DEF TenderInv
  <2>2. paid'[s] = paid[s] /\ till'[s] = till[s] /\ revenue'[s] = revenue[s] /\ folio'[s] = folio[s]
    BY Zenon
  <2>3. CASE bill'[s] = bill[s] /\ charge'[s] = charge[s]
    BY <2>1, <2>2, <2>3, Zenon DEF Tendered, Covered
  <2>4. CASE bill[s] \in {"none", "open"} /\ bill'[s] \in {"none", "open", "finalized"}
    BY <2>1, <2>2, <2>4, Zenon DEF Tendered, Covered
  <2> QED
    BY <2>3, <2>4, Zenon
<1> QED
  BY <1>1, <1>2, Zenon

(* A payment of one bill. *)
LEMMA TenderPaymentStep ==
  ASSUME TenderInv, NEW s \in Sessions, NEW m \in Methods, NEW a \in PayAmounts, AddBillPayment(s, m, a)
  PROVE  TenderRows' /\ \A o \in Sessions : Tendered(o)'
<1>0. a \in Nat \ {0} /\ "room_charge" \in Methods /\ "cash" \in Methods /\ "card" \in Methods
  BY OrderingAssumption, Zenon DEF Methods
<1>1. TenderRows /\ Tendered(s) /\ bill \in [Sessions -> BillStatuses]
  BY Zenon DEF TenderInv, Inv, TypeOK
<1>2. /\ bill[s] \in {"finalized", "partially_paid"} /\ charge' = charge
      /\ till' = [till EXCEPT ![s][m] = @ + a] /\ paid' = [paid EXCEPT ![s] = @ + a]
      /\ revenue' = MirrorPayment(s, m, a) /\ folio' = postFolioCharge(s, m)
      /\ bill' = [bill EXCEPT ![s] = IF charge[s].total - (paid[s] + a) <= 0 THEN "paid" ELSE "partially_paid"]
  BY Zenon DEF AddBillPayment, Payable
<1>3. PICK t : t = [till[s] EXCEPT ![m] = @ + a]
  BY Zenon
<1>4. till' = [till EXCEPT ![s] = t]
  BY <1>2, <1>3, Zenon
<1>5. t \in [Methods -> Nat] /\ t[m] = till[s][m] + a /\ \A n \in Methods \ {m} : t[n] = till[s][n]
  BY <1>0, <1>1, <1>3, SMTT(30) DEF Tendered
<1>6. /\ till' = [o \in Sessions |-> till'[o]] /\ till'[s] = t /\ \A o \in Sessions \ {s} : till'[o] = till[o]
      /\ paid' = [o \in Sessions |-> paid'[o]] /\ paid'[s] = paid[s] + a /\ \A o \in Sessions \ {s} : paid'[o] = paid[o]
  BY <1>1, <1>2, <1>4, Zenon DEF TenderRows
<1>7. /\ revenue' = [o \in Sessions |-> revenue'[o]] /\ \A o \in Sessions \ {s} : revenue'[o] = revenue[o]
      /\ revenue'[s] = IF m = "room_charge" THEN revenue[s] ELSE revenue[s] + a
  BY <1>1, <1>2, Zenon DEF TenderRows, MirrorPayment
<1>8. /\ folio' = [o \in Sessions |-> folio'[o]] /\ \A o \in Sessions \ {s} : folio'[o] = folio[o]
      /\ m = "room_charge" => folio'[s].posted = TRUE
      /\ m # "room_charge" => folio'[s] = folio[s]
  <2>1. CASE m = "room_charge" /\ ~folio[s].posted
    <3>1. folio' = [folio EXCEPT ![s] = [posted |-> TRUE, amount |-> charge[s].subtotal + charge[s].tax]]
      BY <1>2, <2>1, Zenon DEF postFolioCharge
    <3> QED
      BY <1>1, <2>1, <3>1, Zenon DEF TenderRows
  <2>2. CASE ~(m = "room_charge" /\ ~folio[s].posted)
    <3>1. folio' = folio
      BY <1>2, <2>2, Zenon DEF postFolioCharge
    <3> QED
      BY <1>1, <2>2, <3>1, Zenon DEF TenderRows, Tendered
  <2> QED
    BY <2>1, <2>2, Zenon
<1>9. \A o \in Sessions \ {s} : bill'[o] = bill[o]
  BY <1>1, <1>2, Zenon
<1>10. TenderRows'
  BY <1>6, <1>7, <1>8, Zenon DEF TenderRows
<1>11. \A o \in Sessions \ {s} : Tendered(o)'
  <2> SUFFICES ASSUME NEW o \in Sessions \ {s} PROVE Tendered(o)'
    BY Zenon
  <2>1. Tendered(o)
    BY Zenon DEF TenderInv
  <2>2. /\ paid'[o] = paid[o] /\ till'[o] = till[o] /\ revenue'[o] = revenue[o] /\ folio'[o] = folio[o]
        /\ bill'[o] = bill[o] /\ charge'[o] = charge[o]
    BY <1>2, <1>6, <1>7, <1>8, <1>9, Zenon
  <2> QED
    BY <2>1, <2>2, Zenon DEF Tendered, Covered
<1>12. Tendered(s)'
  <2>1. /\ till'[s] \in [Methods -> Nat] /\ paid'[s] \in Nat /\ revenue'[s] \in Int
        /\ folio'[s].posted \in BOOLEAN
    <3>1. paid[s] \in Nat /\ revenue[s] \in Int /\ folio[s].posted \in BOOLEAN
      BY <1>1, Zenon DEF Tendered
    <3>2. folio'[s].posted \in BOOLEAN
      BY <1>8, <3>1, Zenon
    <3> QED
      BY <1>0, <1>5, <1>6, <1>7, <3>1, <3>2, SMTT(30)
  <2>2. paid'[s] = till'[s]["cash"] + till'[s]["card"] + till'[s]["room_charge"]
    <3>1. /\ till[s]["cash"] \in Nat /\ till[s]["card"] \in Nat /\ till[s]["room_charge"] \in Nat
          /\ paid[s] = till[s]["cash"] + till[s]["card"] + till[s]["room_charge"]
      BY <1>0, <1>1, Zenon DEF Tendered
    <3> QED
      BY <1>0, <1>5, <1>6, <3>1, SMTT(30) DEF Methods
  <2>3. revenue'[s] = till'[s]["cash"] + till'[s]["card"]
    <3>1. /\ till[s]["cash"] \in Nat /\ till[s]["card"] \in Nat
          /\ revenue[s] = till[s]["cash"] + till[s]["card"]
      BY <1>0, <1>1, <1>2, Zenon DEF Tendered
    <3> QED
      BY <1>0, <1>5, <1>6, <1>7, <3>1, SMTT(30) DEF Methods
  <2>4. folio'[s].posted <=> till'[s]["room_charge"] > 0
    <3>1. till[s]["room_charge"] \in Nat /\ (folio[s].posted <=> till[s]["room_charge"] > 0)
      BY <1>0, <1>1, Zenon DEF Tendered
    <3> QED
      BY <1>0, <1>5, <1>6, <1>8, <3>1, SMTT(30)
  <2>5. paid'[s] > 0
    BY <1>0, <1>1, <1>6, SMTT(30) DEF Tendered
  <2>6. Covered(s)' <=> charge[s].total - (paid[s] + a) <= 0
    BY <1>2, <1>6, Zenon DEF Covered
  <2>7. bill'[s] = IF charge[s].total - (paid[s] + a) <= 0 THEN "paid" ELSE "partially_paid"
    BY <1>1, <1>2, Zenon
  <2> QED
    BY <2>1, <2>2, <2>3, <2>4, <2>5, <2>6, <2>7, Zenon DEF Tendered
<1> QED
  BY <1>10, <1>11, <1>12, Zenon

(* A refund takes back exactly what was paid.                               *)
LEMMA TenderRefundStep ==
  ASSUME TenderInv, NEW s \in Sessions, RefundBill(s)
  PROVE  TenderRows' /\ \A o \in Sessions : Tendered(o)'
<1>1. TenderRows /\ bill \in [Sessions -> BillStatuses] /\ \A o \in Sessions : Tendered(o)
  BY Zenon DEF TenderInv, Inv, TypeOK
<1>2. /\ revenue' = [revenue EXCEPT ![s] = @ - paid[s]] /\ bill' = [bill EXCEPT ![s] = "refunded"]
      /\ charge' = charge /\ paid' = paid /\ till' = till /\ folio' = folio
  BY Zenon DEF RefundBill
<1>3. /\ revenue' = [o \in Sessions |-> revenue'[o]] /\ revenue'[s] = revenue[s] - paid[s]
      /\ \A o \in Sessions \ {s} : revenue'[o] = revenue[o]
      /\ bill'[s] = "refunded" /\ \A o \in Sessions \ {s} : bill'[o] = bill[o]
  BY <1>1, <1>2, Zenon DEF TenderRows
<1>4. TenderRows'
  BY <1>1, <1>2, <1>3, Zenon DEF TenderRows
<1>5. \A o \in Sessions \ {s} : Tendered(o)'
  BY <1>1, <1>2, <1>3, Zenon DEF Tendered, Covered
<1>6. Tendered(s)'
  BY <1>1, <1>2, <1>3, SMTT(30) DEF Tendered, Covered
<1> QED
  BY <1>4, <1>5, <1>6, Zenon

(* Init establishes the invariant of the payments.                          *)
LEMMA TenderInitially == Init => TenderInv
<1> SUFFICES ASSUME Init PROVE TenderInv
  BY Zenon
<1>1. TenderRows
  BY Zenon DEF Init, TenderRows
<1>2. ASSUME NEW s \in Sessions PROVE Tendered(s)
  <2>1. /\ till[s] = [m \in Methods |-> 0] /\ paid[s] = 0 /\ revenue[s] = 0 /\ bill[s] = "none"
        /\ folio[s].posted = FALSE
    BY Zenon DEF Init, NoLine
  <2>2. /\ till[s] \in [Methods -> Nat] /\ till[s]["cash"] = 0 /\ till[s]["card"] = 0 /\ till[s]["room_charge"] = 0
    BY <2>1, SMTT(30) DEF Methods
  <2>3. ~(till[s]["room_charge"] > 0)
    BY <2>2, SMTT(30)
  <2>4. folio[s].posted \in BOOLEAN /\ (folio[s].posted <=> till[s]["room_charge"] > 0)
    BY <2>1, <2>3, Zenon
  <2> QED
    BY <2>1, <2>2, <2>4, SMTT(30) DEF Tendered
<1> QED
  BY <1>1, <1>2, InitInv, Zenon DEF TenderInv

(* The invariant of the payments is inductive.                              *)
LEMMA TenderStep == TenderInv /\ [Next]_vars => TenderInv'
<1> SUFFICES ASSUME TenderInv, [Next]_vars PROVE TenderRows' /\ \A s \in Sessions : Tendered(s)'
  BY NextInv, Zenon DEF TenderInv
<1>0. bill \in [Sessions -> BillStatuses] /\ charge = [s \in Sessions |-> charge[s]]
  BY Zenon DEF TenderInv, Inv, TypeOK, ChargeIsFunction
<1>1. CASE FloorStep \/ LedgerStep \/ Crash \/ UNCHANGED vars
  <2>1. UNCHANGED <<bill, charge, paid, till, revenue, folio>>
    BY <1>1, Zenon
       DEF FloorStep, LedgerStep, Crash, OpenSession, CloseSession, GuestDeparts, CleanTable,
           UpdateTable,
                PostSale, PostCOGS, PostFails, ReverseEntries, books, vars
  <2> QED
    BY <2>1, TenderSideStep, Zenon
<1>2. CASE KitchenStep
  <2>1. ASSUME NEW i \in Items, VoidKOTItem(i)
        PROVE  /\ UNCHANGED <<paid, till, revenue, folio>>
               /\ \A s \in Sessions : \/ bill'[s] = bill[s] /\ charge'[s] = charge[s]
                                      \/ bill[s] \in {"none", "open"} /\ bill'[s] \in {"none", "open", "finalized"}
    <3>1. /\ UNCHANGED <<paid, till, revenue, folio, bill>> /\ bill[SessionOf(i)] = "open"
          /\ \E x : charge' = [charge EXCEPT ![SessionOf(i)] = x]
      BY <2>1, Zenon DEF VoidKOTItem
    <3> QED
      BY <1>0, <3>1, Zenon
  <2>2. CASE UNCHANGED <<bill, charge, paid, till, revenue, folio>>
    BY <2>2, TenderSideStep, Zenon
  <2>3. UNCHANGED <<bill, charge, paid, till, revenue, folio>> \/ \E i \in Items : VoidKOTItem(i)
    BY <1>2, Zenon DEF KitchenStep, CreateKOT, SendKOT, UpdateKOTStatus, VoidLook, VoidWrite, books
  <2> QED
    BY <2>1, <2>2, <2>3, TenderSideStep, Zenon
<1>3. CASE CashierStep
  <2>1. ASSUME NEW s \in Sessions, NEW a, GenerateBill(s) \/ FinalizeBill(s) \/ UpdateBill(s, a)
        PROVE  TenderRows' /\ \A o \in Sessions : Tendered(o)'
    <3>1. /\ UNCHANGED <<paid, till, revenue, folio>> /\ bill[s] \in {"none", "open"}
          /\ bill' = [bill EXCEPT ![s] = "open"] \/ bill' = [bill EXCEPT ![s] = "finalized"] \/ bill' = bill
          /\ charge' = charge \/ \E x : charge' = [charge EXCEPT ![s] = x]
      BY <2>1, Zenon DEF GenerateBill, FinalizeBill, UpdateBill
    <3>2. bill'[s] \in {"none", "open", "finalized"} /\ \A o \in Sessions \ {s} : bill'[o] = bill[o] /\ charge'[o] = charge[o]
      BY <1>0, <3>1, Zenon
    <3> QED
      BY <3>1, <3>2, TenderSideStep, Zenon
  <2> QED
    BY <1>3, <2>1, TenderPaymentStep, TenderRefundStep, Zenon DEF CashierStep
<1> QED
  BY <1>1, <1>2, <1>3, Zenon DEF Next

(* A session's tender adds up: the amount paid is the sum of its payments,   *)
(* the bill is paid exactly when that covers its total, revenue is what was  *)
(* collected, and a folio charge stands beside its bill payment, whatever    *)
(* the amounts, methods and orders of payments.                              *)
THEOREM TenderAddsUp == Spec => []MoneyAgrees
<1>1. TenderInv => MoneyAgrees
  BY Zenon DEF TenderInv, Tendered, MoneyAgrees
<1> QED
  BY <1>1, TenderInitially, TenderStep, PTL DEF Spec

-----------------------------------------------------------------------------
(* The unique index uq_active_session_per_table is never violated: OpenSession  *)
(* looks for an active session, not only at the table's status, so one party *)
(* is active at a table even when a manager sets statuses by hand.           *)
ActiveInv == Inv /\ OneActiveParty

(* A step that makes nobody active keeps the tables apart. *)
LEMMA ActiveSideStep ==
  ASSUME OneActiveParty, \A s \in Sessions : Active(s)' => Active(s) /\ session'[s].table = session[s].table
  PROVE  OneActiveParty'
BY Zenon DEF OneActiveParty

(* A session is opened only on a table without one, and none is opened      *)
(* again.                                                                   *)
LEMMA ActiveStep == ActiveInv /\ [Next]_vars => ActiveInv'
<1> SUFFICES ASSUME ActiveInv, [Next]_vars PROVE OneActiveParty'
  BY NextInv, Zenon DEF ActiveInv
<1>0. Inv /\ OneActiveParty /\ session \in [Sessions -> SessionRow]
  BY Zenon DEF ActiveInv, Inv, TypeOK, SessionRow
<1>1. ASSUME NEW s \in Sessions, NEW x \in SessionStatuses, session' = [session EXCEPT ![s].status = x],
             x \in {"open", "billed"} => Active(s)
      PROVE  OneActiveParty'
  <2>1. /\ session'[s].table = session[s].table /\ session'[s].status = x
        /\ \A o \in Sessions \ {s} : session'[o] = session[o]
    BY <1>0, <1>1, Zenon DEF SessionRow
  <2>2. \A o \in Sessions : Active(o)' => Active(o) /\ session'[o].table = session[o].table
    BY <1>1, <2>1, Zenon DEF Active
  <2> QED
    BY <1>0, <2>2, ActiveSideStep, Zenon
<1>2. ASSUME session' = session PROVE OneActiveParty'
  BY <1>0, <1>2, ActiveSideStep, Zenon DEF Active
<1>3. /\ "open" \in SessionStatuses /\ "billed" \in SessionStatuses /\ "settled" \in SessionStatuses
      /\ "closed" \in SessionStatuses /\ "refunded" \in SessionStatuses
  BY Zenon DEF SessionStatuses
<1>4. CASE FloorStep
  <2>1. ASSUME NEW s \in Sessions, NEW t \in Tables, OpenSession(s, t) PROVE OneActiveParty'
    <3>1. PICK stay \in {"none", "in_house"}, customer \in BOOLEAN :
             session' = [session EXCEPT ![s] = [table |-> t, status |-> "open", stay |-> stay, customer |-> customer]]
      BY <2>1, Zenon DEF OpenSession
    <3>2. \A o \in Sessions : Active(o) => session[o].table # t
      BY <2>1, Zenon DEF OpenSession, ActiveOn
    <3>3. session'[s].table = t /\ \A o \in Sessions \ {s} : session'[o] = session[o]
      BY <1>0, <3>1, Zenon
    <3> QED
      BY <1>0, <3>2, <3>3, SMTT(30) DEF OneActiveParty, Active
  <2>2. ASSUME NEW s \in Sessions, CloseSession(s) PROVE OneActiveParty'
    BY <1>1, <1>3, <2>2, Zenon DEF CloseSession
  <2>3. ASSUME NEW s \in Sessions, GuestDeparts(s) PROVE OneActiveParty'
    <3>1. session' = [session EXCEPT ![s].stay = "departed"]
      BY <2>3, Zenon DEF GuestDeparts
    <3>2. \A o \in Sessions : session'[o].status = session[o].status /\ session'[o].table = session[o].table
      BY <1>0, <3>1, Zenon DEF SessionRow
    <3> QED
      BY <1>0, <3>2, ActiveSideStep, Zenon DEF Active
  <2>4. ASSUME NEW t \in Tables, CleanTable(t) \/ UpdateTable(t) PROVE OneActiveParty'
    BY <1>2, <2>4, Zenon DEF CleanTable, UpdateTable
  <2> QED
    BY <1>4, <2>1, <2>2, <2>3, <2>4, Zenon DEF FloorStep
<1>5. CASE KitchenStep
  <2>1. ASSUME NEW s \in Sessions, NEW k \in Kots, NEW I \in SUBSET Items, CreateKOT(s, k, I) PROVE OneActiveParty'
    <3>1. Active(s) /\ session' = [session EXCEPT ![s].status = "open"]
      BY <2>1, Zenon DEF CreateKOT, Active
    <3> QED
      BY <1>1, <1>3, <3>1, Zenon
  <2>2. session' = session \/ \E s \in Sessions, k \in Kots, I \in SUBSET Items : CreateKOT(s, k, I)
    BY <1>5, Zenon
       DEF KitchenStep, SendKOT, UpdateKOTStatus, VoidLook, VoidWrite, VoidKOTItem, floor
  <2> QED
    BY <1>2, <2>1, <2>2, Zenon
<1>6. CASE CashierStep
  <2>1. ASSUME NEW s \in Sessions, GenerateBill(s) PROVE OneActiveParty'
    <3>1. session' = [session EXCEPT ![s].status = "billed"] /\ bill[s] = "none" /\ session[s].status \notin {"absent", "closed"}
      BY <2>1, Zenon DEF GenerateBill
    <3>2. Active(s)
      BY <1>0, <3>1, Zenon DEF Inv, SessionBillAgree, Active, SessionRow, SessionStatuses
    <3> QED
      BY <1>1, <1>3, <3>1, <3>2, Zenon
  <2>2. ASSUME NEW s \in Sessions, NEW m \in Methods, NEW a, AddBillPayment(s, m, a) PROVE OneActiveParty'
    <3>1. session' = [session EXCEPT ![s].status = "settled"] \/ session' = session
      BY <2>2, Zenon DEF AddBillPayment
    <3> QED
      BY <1>1, <1>2, <1>3, <3>1, Zenon
  <2>3. ASSUME NEW s \in Sessions, RefundBill(s) PROVE OneActiveParty'
    BY <1>1, <1>3, <2>3, Zenon DEF RefundBill
  <2>4. ASSUME NEW s \in Sessions, NEW a, FinalizeBill(s) \/ UpdateBill(s, a) PROVE OneActiveParty'
    BY <1>2, <2>4, Zenon DEF FinalizeBill, UpdateBill, floor
  <2> QED
    BY <1>6, <2>1, <2>2, <2>3, <2>4, Zenon DEF CashierStep
<1>7. CASE LedgerStep \/ Crash \/ UNCHANGED vars
  <2>1. session' = session
    BY <1>7, Zenon DEF LedgerStep, Crash, PostSale, PostCOGS, PostFails, ReverseEntries, floor, vars
  <2> QED
    BY <1>2, <2>1, Zenon
<1> QED
  BY <1>4, <1>5, <1>6, <1>7, Zenon DEF Next

(* At most one party is active at a table, though a manager may set table    *)
(* statuses by hand at any time.                                             *)
THEOREM OnePartyPerTable == Spec => []OneActiveParty
<1>1. Init => ActiveInv
  BY InitInv, SMTT(30) DEF Init, ActiveInv, OneActiveParty, Active, NoSession
<1>2. ActiveInv => OneActiveParty
  BY Zenon DEF ActiveInv
<1> QED
  BY <1>1, <1>2, ActiveStep, PTL DEF Spec

-----------------------------------------------------------------------------
(* Items and their ticket: an item that was ordered names a ticket that was  *)
(* raised, and moves with it unless it is voided.                            *)
OnTicket(i) ==
  /\ item[i].status = "absent" => item[i].kot = None
  /\ item[i].status # "absent" => item[i].kot \in Kots /\ kot[item[i].kot].status # "absent"
  /\ item[i].status \notin {"absent", "cancelled"} =>
       item[i].status = IF kot[item[i].kot].status \in {"preparing", "ready", "served"}
                        THEN kot[item[i].kot].status ELSE "queued"
TicketInv == /\ Inv /\ \A i \in Items : OnTicket(i)
             /\ \A i \in voiding : item[i].status # "absent"
VoidedStays == \A i \in Items : /\ item[i].status = "cancelled" => item'[i] = item[i]
                                /\ item[i].status # "absent" => item'[i].status # "absent"

(* Tickets and items have their types.                                      *)
LEMMA TicketTypes ==
  ASSUME Inv PROVE /\ kot \in [Kots -> [session : Sessions \cup {None}, status : KotStatuses]]
                   /\ item \in [Items -> [kot : Kots \cup {None}, status : ItemStatuses]]
BY Zenon DEF Inv, TypeOK

(* A new ticket takes items that are on none.                               *)
LEMMA TicketOrderStep ==
  ASSUME TicketInv, NEW s \in Sessions, NEW k \in Kots, NEW I \in SUBSET Items, CreateKOT(s, k, I)
  PROVE  VoidedStays /\ \A i \in Items : OnTicket(i)'
<1>1. /\ kot[k].status = "absent" /\ \A i \in I : item[i].status = "absent"
      /\ kot' = [kot EXCEPT ![k] = [session |-> s, status |-> "draft"]]
      /\ item' = [i \in Items |-> IF i \in I THEN [kot |-> k, status |-> "queued"] ELSE item[i]]
  BY Zenon DEF CreateKOT
<1>2. kot'[k].status = "draft" /\ \A l \in Kots \ {k} : kot'[l] = kot[l]
  BY <1>1, TicketTypes, Zenon DEF TicketInv
<1>3. ASSUME NEW i \in Items PROVE OnTicket(i)'
  <2>1. OnTicket(i)
    BY Zenon DEF TicketInv
  <2>2. CASE i \in I
    BY <1>1, <1>2, <2>2, Zenon DEF OnTicket
  <2>3. CASE i \notin I
    <3>1. item'[i] = item[i]
      BY <1>1, <2>3, Zenon
    <3>2. item[i].status # "absent" => item[i].kot \in Kots \ {k}
      BY <1>1, <2>1, Zenon DEF OnTicket
    <3> QED
      BY <1>2, <2>1, <3>1, <3>2, Zenon DEF OnTicket
  <2> QED
    BY <2>2, <2>3, Zenon
<1>4. VoidedStays
  BY <1>1, Zenon DEF VoidedStays
<1> QED
  BY <1>3, <1>4, Zenon

(* A ticket moves: what was on it moves along; a cancelled ticket has        *)
(* nothing past the queue on it.                                             *)
LEMMA TicketMoveStep ==
  ASSUME TicketInv, NEW k \in Kots, NEW to \in KotStatuses, SendKOT(k) \/ UpdateKOTStatus(k, to)
  PROVE  VoidedStays /\ \A i \in Items : OnTicket(i)'
<1>0. /\ kot \in [Kots -> [session : Sessions \cup {None}, status : KotStatuses]]
      /\ item \in [Items -> [kot : Kots \cup {None}, status : ItemStatuses]]
  BY TicketTypes, Zenon DEF TicketInv
<1>1. PICK x : /\ kot' = [kot EXCEPT ![k].status = x]
               /\ x \in {"preparing", "ready", "served"} \/ kot[k].status \notin {"preparing", "ready", "served"}
               /\ x # "absent" /\ kot[k].status # "absent"
               /\ \A i \in Items : item'[i] = IF item[i].kot = k /\ item[i].status # "cancelled" /\ x \in {"preparing", "ready", "served"}
                                              THEN [item[i] EXCEPT !.status = x] ELSE item[i]
  <2>1. CASE SendKOT(k)
    <3>1. kot' = [kot EXCEPT ![k].status = "sent"] /\ item' = item /\ kot[k].status = "draft"
      BY <2>1, Zenon DEF SendKOT
    <3>2. \A i \in Items : item'[i] = IF item[i].kot = k /\ item[i].status # "cancelled" /\ "sent" \in {"preparing", "ready", "served"}
                                      THEN [item[i] EXCEPT !.status = "sent"] ELSE item[i]
      BY <3>1, Zenon
    <3>3. /\ "sent" # "absent" /\ kot[k].status # "absent"
          /\ kot[k].status \notin {"preparing", "ready", "served"}
      BY <3>1, Zenon
    <3> QED
      BY <3>1, <3>2, <3>3, Zenon
  <2>2. CASE UpdateKOTStatus(k, to)
    <3>1. kot' = [kot EXCEPT ![k].status = to] /\ item' = Mirrored(k, to) /\ to \in kotTransitions(kot[k].status)
      BY <2>2, Zenon DEF UpdateKOTStatus
    <3>2. /\ to \in {"preparing", "ready", "served"} \/ kot[k].status \notin {"preparing", "ready", "served"}
          /\ to # "absent" /\ kot[k].status # "absent"
      BY <3>1, Zenon DEF kotTransitions
    <3>3. \A i \in Items : item'[i] = IF item[i].kot = k /\ item[i].status # "cancelled" /\ to \in {"preparing", "ready", "served"}
                                      THEN [item[i] EXCEPT !.status = to] ELSE item[i]
      BY <3>1, Zenon DEF Mirrored
    <3> QED
      BY <3>1, <3>2, <3>3, Zenon
  <2> QED
    BY <2>1, <2>2, Zenon
<1>2. kot'[k].status = x /\ \A l \in Kots \ {k} : kot'[l] = kot[l]
  BY <1>0, <1>1, Zenon
<1>3. ASSUME NEW i \in Items PROVE OnTicket(i)'
  <2>1. OnTicket(i) /\ None \notin Kots
    BY OrderingAssumption, Zenon DEF TicketInv
  <2>2. CASE item[i].kot = k /\ item[i].status # "cancelled" /\ x \in {"preparing", "ready", "served"}
    <3>1. item'[i].kot = k /\ item'[i].status = x
      BY <1>0, <1>1, <2>2, Zenon
    <3> QED
      BY <1>1, <1>2, <2>2, <3>1, Zenon DEF OnTicket
  <2>3. CASE ~(item[i].kot = k /\ item[i].status # "cancelled" /\ x \in {"preparing", "ready", "served"})
    <3>1. item'[i] = item[i]
      BY <1>1, <2>3, Zenon
    <3>2. CASE item[i].kot = k
      BY <1>1, <1>2, <2>1, <2>3, <3>1, <3>2, Zenon DEF OnTicket
    <3>3. CASE item[i].kot # k
      BY <1>2, <2>1, <3>1, <3>3, Zenon DEF OnTicket
    <3> QED
      BY <3>2, <3>3, Zenon
  <2> QED
    BY <2>2, <2>3, Zenon
<1>4. ASSUME NEW i \in Items
      PROVE  /\ item[i].status = "cancelled" => item'[i] = item[i]
             /\ item[i].status # "absent" => item'[i].status # "absent"
  <2>1. item'[i] = item[i] \/ (item'[i].status = x /\ item[i].status # "cancelled")
    BY <1>0, <1>1, Zenon
  <2> QED
    BY <1>1, <2>1, Zenon
<1> QED
  BY <1>3, <1>4, Zenon DEF VoidedStays

(* A void marks one item, for good. *)
LEMMA TicketVoidStep ==
  ASSUME TicketInv, NEW v \in Items, kot' = kot, item' = [item EXCEPT ![v].status = "cancelled"],
         item[v].status # "absent"
  PROVE  VoidedStays /\ \A i \in Items : OnTicket(i)'
<1>0. item \in [Items -> [kot : Kots \cup {None}, status : ItemStatuses]]
  BY TicketTypes, Zenon DEF TicketInv
<1>1. /\ item'[v].kot = item[v].kot /\ item'[v].status = "cancelled"
      /\ \A i \in Items \ {v} : item'[i] = item[i]
  BY <1>0, Zenon
<1>2. \A i \in Items : OnTicket(i)'
  BY <1>1, SMTT(30) DEF TicketInv, OnTicket
<1>3. item[v].status = "cancelled" => item'[v] = item[v]
  BY <1>0, Zenon
<1> QED
  BY <1>1, <1>2, <1>3, Zenon DEF VoidedStays

(* The invariant of the tickets is inductive, and a voided item stays       *)
(* voided.                                                                  *)
LEMMA TicketStep == TicketInv /\ [Next]_vars => TicketInv' /\ VoidedStays
<1> SUFFICES ASSUME TicketInv, [Next]_vars PROVE TicketInv' /\ VoidedStays
  BY Zenon
<1>0. Inv' /\ voiding \subseteq Items /\ \A i \in Items : i \in voiding => item[i].status # "absent"
  BY NextInv, Zenon DEF TicketInv, Inv, TypeOK
<1>1. /\ VoidedStays /\ \A i \in Items : OnTicket(i)'
  <2>1. CASE UNCHANGED <<kot, item>>
    BY <2>1, Zenon DEF TicketInv, OnTicket, VoidedStays
  <2>2. ASSUME NEW i \in Items, VoidWrite(i) \/ VoidKOTItem(i)
        PROVE  VoidedStays /\ \A j \in Items : OnTicket(j)'
    <3>1. /\ kot' = kot /\ item' = [item EXCEPT ![i].status = "cancelled"]
          /\ item[i].status # "absent"
      BY <1>0, <2>2, Zenon DEF VoidWrite, VoidKOTItem, Voidable
    <3> QED
      BY <3>1, TicketVoidStep, Zenon
  <2>3. \/ UNCHANGED <<kot, item>>
        \/ \E i \in Items : VoidWrite(i) \/ VoidKOTItem(i)
        \/ \E k \in Kots : SendKOT(k) \/ \E to \in KotStatuses : UpdateKOTStatus(k, to)
        \/ \E s \in Sessions, k \in Kots, I \in SUBSET Items : CreateKOT(s, k, I)
    <3>1. CASE KitchenStep
      BY <3>1, Zenon DEF KitchenStep, VoidLook, floor
    <3>2. FloorStep \/ CashierStep => UNCHANGED <<kot, item>>
      BY Zenon
         DEF FloorStep, CashierStep, OpenSession, CloseSession, GuestDeparts, CleanTable,
             UpdateTable,
                GenerateBill, FinalizeBill, UpdateBill, AddBillPayment, RefundBill, floor
    <3>3. LedgerStep \/ Crash \/ UNCHANGED vars => UNCHANGED <<kot, item>>
      BY Zenon DEF LedgerStep, Crash, PostSale, PostCOGS, PostFails, ReverseEntries, floor, vars
    <3> QED
      BY <3>1, <3>2, <3>3, Zenon DEF Next
  <2>4. \E to \in KotStatuses : TRUE
    BY Zenon DEF KotStatuses
  <2> QED
    BY <2>1, <2>2, <2>3, <2>4, TicketMoveStep, TicketOrderStep, Zenon
<1>2. \A i \in voiding' : item'[i].status # "absent"
  <2>1. voiding' \subseteq Items
    BY <1>0, Zenon DEF Inv, TypeOK
  <2>2. ASSUME NEW i \in Items, i \in voiding' PROVE item[i].status # "absent"
    <3>1. i \in voiding \/ Voidable(i)
      BY <2>2, Zenon
         DEF Next, KitchenStep, FloorStep, CashierStep, LedgerStep, Crash, VoidLook, VoidWrite,
             VoidKOTItem,
                CreateKOT, SendKOT, UpdateKOTStatus, OpenSession, CloseSession, GuestDeparts, CleanTable,
                UpdateTable, GenerateBill, FinalizeBill, UpdateBill, AddBillPayment, RefundBill,
                PostSale, PostCOGS, PostFails, ReverseEntries, vars
    <3> QED
      BY <1>0, <3>1, Zenon DEF Voidable
  <2>3. ASSUME NEW i \in Items, item[i].status # "absent" PROVE item'[i].status # "absent"
    BY <1>1, <2>3, Zenon DEF VoidedStays
  <2> QED
    BY <2>1, <2>2, <2>3, Zenon
<1> QED
  BY <1>0, <1>1, <1>2, Zenon DEF TicketInv

(* Items move with their ticket, and a voided item stays voided while the    *)
(* kitchen goes on, whenever the void was read and written.                  *)
THEOREM ItemsMoveWithTicket == Spec => ItemsFollowTicket
<1>1. Init => TicketInv
  BY InitInv, SMTT(30) DEF TicketInv, OnTicket, Init
<1>2. TicketInv => \A i \in Items : item[i].status \notin {"absent", "cancelled"} =>
         item[i].status = IF kot[item[i].kot].status \in {"preparing", "ready", "served"}
                          THEN kot[item[i].kot].status ELSE "queued"
  BY Zenon DEF TicketInv, OnTicket
<1>3. VoidedStays => \A i \in Items : item[i].status = "cancelled" => item'[i] = item[i]
  BY Zenon DEF VoidedStays
<1> QED
  BY <1>1, <1>2, <1>3, TicketStep, PTL DEF Spec, ItemsFollowTicket

-----------------------------------------------------------------------------
(* The books: journals, vouchers and documents.                             *)
Series == {"SAL", "PUR", "PAY", "GEN"}

(* A row with exactly the columns of its table, whatever is in them. *)
JobRow(x) == x = [at |-> x.at, key |-> x.key, ref |-> x.ref, todo |-> x.todo, entry |-> x.entry, vno |-> x.vno,
                  lost |-> x.lost, seen |-> x.seen, edit |-> x.edit]
EntryRow(e) == e = [ref |-> e.ref, day |-> e.day, vno |-> e.vno, vtype |-> e.vtype, lines |-> e.lines]
DocRow(r) == r = [kind |-> r.kind, status |-> r.status, tax |-> r.tax, total |-> r.total, lines |-> r.lines,
                  of |-> r.of, num |-> r.num, paid |-> r.paid]

BookRows ==
  /\ \E S : book \in Seq(S)
  /\ \A i \in 1..Len(book) : EntryRow(book[i]) /\ book[i].vno \in Nat /\ book[i].vtype \in Series \cup {"none"}
  /\ counter \in [Series -> Nat \ {0}]

JobRows ==
  /\ job = [q \in Clerks |-> job[q]]
  /\ \A q \in Clerks : JobRow(job[q])

(* A number that an entry has, or a request is about to give one, was drawn from its series' counter. *)
Taken(c, t, n) == n # 0 => t \in Series /\ n < c[t]
Held(q) == job[q].at = "entry"
SeriesOf(q) == voucherTypeFor(job[q].ref)

Drawn ==
  /\ \A i \in 1..Len(book) : Taken(counter, book[i].vtype, book[i].vno)
  /\ \A q \in Clerks : Held(q) => job[q].vno \in Nat /\ Taken(counter, SeriesOf(q), job[q].vno)

(* No two of them are the same. *)
Distinct ==
  /\ \A q \in Clerks, i \in 1..Len(book) :
       Held(q) /\ job[q].vno # 0 /\ book[i].vtype = SeriesOf(q) => book[i].vno # job[q].vno
  /\ \A p, q \in Clerks :
       p # q /\ Held(p) /\ Held(q) /\ job[p].vno # 0 /\ SeriesOf(p) = SeriesOf(q) => job[p].vno # job[q].vno

VoucherInv == BookRows /\ JobRows /\ Drawn /\ Distinct /\ VouchersUnique

(* Every reference type has a voucher series.                               *)
LEMMA SeriesKnown == ASSUME NEW r PROVE voucherTypeFor(r) \in Series
  BY Zenon DEF voucherTypeFor, Series

(* Init establishes the invariant.                                          *)
LEMMA VoucherInit == BooksInit => VoucherInv
<1> SUFFICES ASSUME BooksInit PROVE VoucherInv
  BY Zenon
<1>1. book = <<>> /\ Len(book) = 0 /\ counter = [t \in Series |-> 1] /\ job = [q \in Clerks |-> NoJob]
  BY Zenon DEF BooksInit, LedgerInit, Series
<1>2. BookRows
  <2>1. book \in Seq({})
    BY <1>1, SMTT(30)
  <2>2. \E S : book \in Seq(S)
    BY <2>1, Zenon
  <2> QED BY <1>1, <2>2, SMTT(30) DEF BookRows
<1>3. JobRows
  BY <1>1, Zenon DEF JobRows, JobRow, NoJob
<1>4. \A q \in Clerks : ~Held(q)
  BY <1>1, Zenon DEF Held, NoJob
<1> QED BY <1>1, <1>2, <1>3, <1>4, SMTT(30) DEF VoucherInv, Drawn, Distinct, VouchersUnique

(* A step that leaves the book alone and brings nobody to the insertion of an entry. *)
LEMMA VouchersIdle ==
  ASSUME VoucherInv, NEW K \in SUBSET Clerks,
         job' = [p \in Clerks |-> job'[p]],
         \A p \in Clerks \ K : job'[p] = job[p],
         \A p \in K : JobRow(job'[p]) /\ ~Held(p)',
         UNCHANGED <<book, counter>>
  PROVE  VoucherInv'
<1>1. BookRows'
  BY Zenon DEF VoucherInv, BookRows
<1>2. JobRows'
  BY Zenon DEF VoucherInv, JobRows, JobRow
<1>3. \A p \in Clerks : Held(p)' => Held(p) /\ job'[p] = job[p] /\ SeriesOf(p)' = SeriesOf(p)
  BY Zenon DEF Held, SeriesOf
<1>4. Drawn'
  BY <1>3, Zenon DEF VoucherInv, Drawn, Taken
<1>5. Distinct'
  BY <1>3, SMTT(30) DEF VoucherInv, Distinct
<1>6. VouchersUnique'
  BY SMTT(30) DEF VoucherInv, VouchersUnique
<1> QED BY <1>1, <1>2, <1>4, <1>5, <1>6, Zenon DEF VoucherInv

(* A request moves on to a stage that is not the insertion. *)
LEMMA VouchersMove ==
  ASSUME VoucherInv, NEW q \in Clerks, NEW x, JobRow(x), x.at # "entry",
         job' = [job EXCEPT ![q] = x], UNCHANGED <<book, counter>>
  PROVE  VoucherInv'
<1>1. job' = [p \in Clerks |-> job'[p]] /\ job'[q] = x /\ \A p \in Clerks \ {q} : job'[p] = job[p]
  BY Zenon DEF VoucherInv, JobRows
<1>2. {q} \in SUBSET Clerks /\ \A p \in {q} : JobRow(job'[p]) /\ ~Held(p)'
  BY <1>1, Zenon DEF Held
<1> QED BY <1>1, <1>2, VouchersIdle, Zenon

(* A posting that ends writes nothing.                                      *)
LEMMA VouchersDone ==
  ASSUME VoucherInv, NEW q \in Clerks, Done(q), UNCHANGED <<book, counter>>
  PROVE  VoucherInv'
<1>1. JobRow(NoJob) /\ NoJob.at # "entry"
  BY Zenon DEF JobRow, NoJob
<1> QED BY <1>1, VouchersMove, Zenon DEF Done

(* A step that touches no posting, entry or counter keeps the invariant.    *)
LEMMA VouchersStand ==
  ASSUME VoucherInv, UNCHANGED <<job, book, counter>>
  PROVE  VoucherInv'
BY SMTT(30)
   DEF VoucherInv, BookRows, JobRows, JobRow, Drawn, Taken, Held, SeriesOf, Distinct, VouchersUnique

-----------------------------------------------------------------------------
(* nextVoucherNumber gives a posting a number that no entry has.            *)
LEMMA NumberKeeps ==
  ASSUME VoucherInv, NEW q \in Clerks, NumberVoucher(q)
  PROVE  VoucherInv'
<1> DEFINE t == voucherTypeFor(job[q].ref)
<1>1. job[q].at = "number" /\ UNCHANGED book /\ t \in Series
  BY SeriesKnown, Zenon DEF NumberVoucher
<1>2. PICK n \in Nat : /\ job' = [job EXCEPT ![q].at = "entry", ![q].vno = n]
                       /\ \/ n = 0 /\ counter' = counter
                          \/ n = counter[t] /\ counter' = [counter EXCEPT ![t] = @ + 1]
  BY <1>1, Zenon DEF NumberVoucher, nextVoucherNo, VoucherInv, BookRows
<1>3. /\ job' = [p \in Clerks |-> job'[p]] /\ \A p \in Clerks \ {q} : job'[p] = job[p]
      /\ job'[q] = [job[q] EXCEPT !.at = "entry", !.vno = n]
  BY <1>2, Zenon DEF VoucherInv, JobRows
<1>4. JobRow(job'[q]) /\ job'[q].vno = n /\ job'[q].ref = job[q].ref
  <2>1. JobRow(job[q])
    BY Zenon DEF VoucherInv, JobRows
  <2> QED BY <1>3, <2>1, Zenon DEF JobRow
<1>5. JobRows'
  BY <1>3, <1>4, Zenon DEF VoucherInv, JobRows, JobRow
<1>6. counter' \in [Series -> Nat \ {0}] /\ \A s \in Series : counter[s] <= counter'[s]
  BY <1>1, <1>2, SMTT(30) DEF VoucherInv, BookRows
<1>7. BookRows'
  BY <1>1, <1>6, Zenon DEF VoucherInv, BookRows
<1>8. Taken(counter', t, n) /\ SeriesOf(q)' = t
  BY <1>1, <1>2, <1>4, <1>6, SMTT(30) DEF Taken, SeriesOf, VoucherInv, BookRows
<1>9. \A p \in Clerks \ {q} : (Held(p)' <=> Held(p)) /\ SeriesOf(p)' = SeriesOf(p) /\ job'[p].vno = job[p].vno
  BY <1>3, Zenon DEF Held, SeriesOf
<1>10. Drawn'
  <2>1. \A i \in 1..Len(book') : Taken(counter', book'[i].vtype, book'[i].vno)
    BY <1>1, <1>6, SMTT(30) DEF VoucherInv, Drawn, Taken, BookRows
  <2>2. \A p \in Clerks : Held(p)' => job'[p].vno \in Nat /\ Taken(counter', SeriesOf(p)', job'[p].vno)
    BY <1>4, <1>6, <1>8, <1>9, SMTT(30) DEF VoucherInv, Drawn, Taken, BookRows
  <2> QED BY <2>1, <2>2, Zenon DEF Drawn
<1>11. n # 0 => n = counter[t]
  BY <1>2, Zenon
<1>12. \A i \in 1..Len(book) : n # 0 /\ book[i].vtype = t => book[i].vno # n
  BY <1>1, <1>11, SMTT(30) DEF VoucherInv, Drawn, Taken, BookRows
<1>13. \A p \in Clerks : Held(p) /\ n # 0 /\ SeriesOf(p) = t => job[p].vno # n
  BY <1>1, <1>11, SMTT(30) DEF VoucherInv, Drawn, Taken, BookRows
<1>14. Distinct'
  BY <1>1, <1>4, <1>8, <1>9, <1>12, <1>13, SMTT(30) DEF VoucherInv, Distinct
<1>15. VouchersUnique'
  BY <1>1, SMTT(30) DEF VoucherInv, VouchersUnique
<1> QED BY <1>5, <1>7, <1>10, <1>14, <1>15, Zenon DEF VoucherInv

(* An entry is appended whose number nobody holds any more. *)
LEMMA AppendKeeps ==
  ASSUME VoucherInv, NEW e, EntryRow(e), e.vno \in Nat, e.vtype \in Series \cup {"none"},
         book' = Append(book, e), counter' \in [Series -> Nat \ {0}],
         \A s \in Series : counter[s] <= counter'[s],
         Taken(counter', e.vtype, e.vno),
         \A i \in 1..Len(book) : e.vno # 0 /\ book[i].vtype = e.vtype => book[i].vno # e.vno,
         JobRows',
         \A p \in Clerks : Held(p)' => Held(p) /\ job'[p] = job[p]
                                        /\ (e.vno # 0 /\ SeriesOf(p) = e.vtype => job[p].vno # e.vno)
  PROVE  VoucherInv'
<1>1. PICK S : book \in Seq(S)
  BY Zenon DEF VoucherInv, BookRows
<1>2. book \in Seq(S \cup {e})
  BY <1>1, SMTT(30)
<1>3. /\ book' \in Seq(S \cup {e}) /\ Len(book') = Len(book) + 1 /\ Len(book) \in Nat
      /\ \A i \in 1..Len(book) : book'[i] = book[i]
      /\ book'[Len(book) + 1] = e
  BY <1>2, SMTT(30)
<1>4. \A i \in 1..Len(book') : i \in 1..Len(book) \/ i = Len(book) + 1
  BY <1>3, SMTT(30)
<1>5. BookRows'
  <2>1. \E T : book' \in Seq(T)
    BY <1>3, Zenon
  <2>2. \A i \in 1..Len(book') : EntryRow(book'[i]) /\ book'[i].vno \in Nat /\ book'[i].vtype \in Series \cup {"none"}
    BY <1>3, <1>4, Zenon DEF VoucherInv, BookRows
  <2> QED BY <2>1, <2>2, Zenon DEF BookRows, EntryRow
<1>6. \A p \in Clerks : Held(p)' => SeriesOf(p)' = SeriesOf(p)
  BY Zenon DEF SeriesOf
<1>7. Drawn'
  <2>1. \A i \in 1..Len(book') : Taken(counter', book'[i].vtype, book'[i].vno)
    BY <1>3, <1>4, SMTT(30) DEF VoucherInv, Drawn, Taken, BookRows
  <2>2. \A p \in Clerks : Held(p)' => job'[p].vno \in Nat /\ Taken(counter', SeriesOf(p)', job'[p].vno)
    BY <1>6, SMTT(30) DEF VoucherInv, Drawn, Taken, BookRows
  <2> QED BY <2>1, <2>2, Zenon DEF Drawn
<1>8. Distinct'
  <2>1. \A q \in Clerks, i \in 1..Len(book') :
          Held(q)' /\ job'[q].vno # 0 /\ book'[i].vtype = SeriesOf(q)' => book'[i].vno # job'[q].vno
    BY <1>3, <1>4, <1>6, SMTT(30) DEF VoucherInv, Distinct
  <2>2. \A p, q \in Clerks :
          p # q /\ Held(p)' /\ Held(q)' /\ job'[p].vno # 0 /\ SeriesOf(p)' = SeriesOf(q)' => job'[p].vno # job'[q].vno
    BY <1>6, SMTT(30) DEF VoucherInv, Distinct
  <2> QED BY <2>1, <2>2, Zenon DEF Distinct
<1>9. VouchersUnique'
  <2> SUFFICES ASSUME NEW i \in 1..Len(book'), NEW j \in 1..Len(book'), i # j, book'[i].vno # 0,
                      book'[i].vtype = book'[j].vtype
               PROVE  book'[i].vno # book'[j].vno
    BY Zenon DEF VouchersUnique
  <2>1. CASE i \in 1..Len(book) /\ j \in 1..Len(book)
    BY <1>3, <2>1, SMTT(30) DEF VoucherInv, VouchersUnique
  <2>2. CASE i = Len(book) + 1 /\ j \in 1..Len(book)
    BY <1>3, <2>2, Zenon
  <2>3. CASE j = Len(book) + 1 /\ i \in 1..Len(book)
    BY <1>3, <2>3, Zenon
  <2> QED BY <1>4, <2>1, <2>2, <2>3, Zenon
<1> QED BY <1>5, <1>7, <1>8, <1>9, Zenon DEF VoucherInv

(* The entry is inserted under the number drawn for it.                     *)
LEMMA EntryKeeps ==
  ASSUME VoucherInv, NEW q \in Clerks, InsertEntry(q)
  PROVE  VoucherInv'
<1>1. Held(q) /\ counter' = counter
  BY Zenon DEF InsertEntry, Held
<1>2. PICK e : /\ e = [ref |-> job[q].ref, day |-> EntryDate(job[q].ref), vno |-> job[q].vno,
                       vtype |-> voucherTypeFor(job[q].ref), lines |-> <<>>]
               /\ book' = Append(book, e)
  BY Zenon DEF InsertEntry
<1>3. /\ EntryRow(e) /\ e.vno = job[q].vno /\ e.vno \in Nat
      /\ e.vtype = SeriesOf(q) /\ e.vtype \in Series
  BY <1>1, <1>2, SeriesKnown, Zenon DEF EntryRow, SeriesOf, VoucherInv, Drawn
<1>4. PICK n : job' = [job EXCEPT ![q].at = "lines", ![q].entry = n]
  BY Zenon DEF InsertEntry
<1>5. /\ job' = [p \in Clerks |-> job'[p]] /\ \A p \in Clerks \ {q} : job'[p] = job[p]
      /\ job'[q] = [job[q] EXCEPT !.at = "lines", !.entry = n]
  BY <1>4, Zenon DEF VoucherInv, JobRows
<1>6. JobRow(job'[q]) /\ job'[q].at = "lines"
  <2>1. JobRow(job[q])
    BY Zenon DEF VoucherInv, JobRows
  <2> QED BY <1>5, <2>1, Zenon DEF JobRow
<1>7. JobRows'
  BY <1>5, <1>6, Zenon DEF VoucherInv, JobRows, JobRow
<1>8. \A p \in Clerks : Held(p)' => /\ Held(p) /\ job'[p] = job[p]
                                    /\ (e.vno # 0 /\ SeriesOf(p) = e.vtype => job[p].vno # e.vno)
  <2>1. \A p \in Clerks : Held(p)' => p # q /\ Held(p) /\ job'[p] = job[p]
    BY <1>5, <1>6, Zenon DEF Held
  <2>2. \A p \in Clerks : p # q /\ Held(p) /\ job[q].vno # 0 /\ SeriesOf(q) = SeriesOf(p) => job[q].vno # job[p].vno
    BY <1>1, Zenon DEF VoucherInv, Distinct
  <2> QED BY <1>3, <2>1, <2>2, Zenon
<1>9. counter' \in [Series -> Nat \ {0}] /\ (\A s \in Series : counter[s] <= counter'[s]) /\ Taken(counter', e.vtype, e.vno)
  BY <1>1, <1>3, SMTT(30) DEF VoucherInv, BookRows, Drawn, Taken
<1>10. \A i \in 1..Len(book) : e.vno # 0 /\ book[i].vtype = e.vtype => book[i].vno # e.vno
  BY <1>1, <1>3, Zenon DEF VoucherInv, Distinct
<1> QED BY <1>2, <1>3, <1>7, <1>8, <1>9, <1>10, AppendKeeps, Zenon

(* A settled stay is booked in its own transaction.                         *)
LEMMA SettleKeeps ==
  ASSUME VoucherInv, NEW d \in Docs, settleReservation(d)
  PROVE  VoucherInv'
<1>1. counter' = [counter EXCEPT !["SAL"] = @ + 1] /\ job' = job
  BY Zenon DEF settleReservation
<1>2. PICK e : /\ EntryRow(e) /\ e.vno = counter["SAL"] /\ e.vtype = "SAL"
               /\ book' = Append(book, e)
  <2>1. PICK ls : book' = Append(book, [ref |-> <<"FOLIO", d>>, day |-> today, vno |-> counter["SAL"],
                                        vtype |-> "SAL", lines |-> ls])
    BY Zenon DEF settleReservation
  <2>2. PICK e : e = [ref |-> <<"FOLIO", d>>, day |-> today, vno |-> counter["SAL"], vtype |-> "SAL", lines |-> ls]
    BY Zenon
  <2> QED BY <2>1, <2>2, Zenon DEF EntryRow
<1>3. /\ e.vno \in Nat /\ e.vtype \in Series
      /\ counter' \in [Series -> Nat \ {0}] /\ \A s \in Series : counter[s] <= counter'[s]
  BY <1>1, <1>2, SMTT(30) DEF VoucherInv, BookRows, Series
<1>4. Taken(counter', e.vtype, e.vno)
  BY <1>1, <1>2, <1>3, SMTT(30) DEF Taken, VoucherInv, BookRows, Series
<1>5. \A i \in 1..Len(book) : e.vno # 0 /\ book[i].vtype = e.vtype => book[i].vno # e.vno
  BY <1>2, SMTT(30) DEF VoucherInv, BookRows, Drawn, Taken
<1>6. \A p \in Clerks : Held(p)' => /\ Held(p) /\ job'[p] = job[p]
                                    /\ (e.vno # 0 /\ SeriesOf(p) = e.vtype => job[p].vno # e.vno)
  BY <1>1, <1>2, SMTT(30) DEF Held, VoucherInv, BookRows, Drawn, Taken
<1>7. JobRows'
  BY <1>1, Zenon DEF VoucherInv, JobRows, JobRow
<1> QED BY <1>2, <1>3, <1>4, <1>5, <1>6, <1>7, AppendKeeps, Zenon

(* CreateJournalEntry inserts an entry in its own transaction.              *)
LEMMA ManualKeeps ==
  ASSUME VoucherInv, CreateJournalEntry
  PROVE  VoucherInv'
<1>1. counter' = counter /\ job' = job
  BY Zenon DEF CreateJournalEntry
<1>2. PICK e : EntryRow(e) /\ e.vno = 0 /\ e.vtype = "none" /\ book' = Append(book, e)
  <2>1. PICK ls, day : book' = Append(book, [ref |-> NoRef, day |-> day, vno |-> 0, vtype |-> "none", lines |-> ls])
    BY Zenon DEF CreateJournalEntry
  <2>2. PICK e : e = [ref |-> NoRef, day |-> day, vno |-> 0, vtype |-> "none", lines |-> ls]
    BY Zenon
  <2> QED BY <2>1, <2>2, Zenon DEF EntryRow
<1>3. e.vno \in Nat /\ counter' \in [Series -> Nat \ {0}] /\ (\A s \in Series : counter[s] <= counter'[s]) /\ Taken(counter', e.vtype, e.vno)
  BY <1>1, <1>2, SMTT(30) DEF VoucherInv, BookRows, Taken
<1>4. JobRows' /\ \A p \in Clerks : Held(p)' => Held(p) /\ job'[p] = job[p]
  BY <1>1, Zenon DEF Held, VoucherInv, JobRows, JobRow
<1> QED BY <1>2, <1>3, <1>4, AppendKeeps, Zenon

(* A line is inserted under its entry, or the insert fails.                 *)
LEMMA LineKeeps ==
  ASSUME VoucherInv, NEW q \in Clerks, InsertLine(q)
  PROVE  VoucherInv'
<1>1. counter' = counter /\ job[q].at = "lines"
  BY Zenon DEF InsertLine
<1>2. CASE Done(q) /\ UNCHANGED book
  BY <1>1, <1>2, VouchersDone, Zenon
<1>3. CASE /\ book' = [book EXCEPT ![job[q].entry].lines = Append(@, Head(job[q].todo))]
           /\ job' = [job EXCEPT ![q].todo = Tail(@)]
  <2>1. PICK S : book \in Seq(S)
    BY Zenon DEF VoucherInv, BookRows
  <2>2. PICK k, ls : book' = [book EXCEPT ![k] = [book[k] EXCEPT !.lines = ls]]
    BY <1>3, Zenon
  <2>3. Len(book) \in Nat /\ DOMAIN book = 1..Len(book) /\ book = [i \in 1..Len(book) |-> book[i]]
    BY <2>1, SMTT(30)
  <2>4. book' = [i \in 1..Len(book) |-> IF i = k THEN [book[k] EXCEPT !.lines = ls] ELSE book[i]]
    BY <2>2, <2>3, Zenon
  <2>5. \A i \in 1..Len(book) : EntryRow(book'[i]) /\ book'[i].vno = book[i].vno /\ book'[i].vtype = book[i].vtype
    <3> SUFFICES ASSUME NEW i \in 1..Len(book)
                 PROVE  EntryRow(book'[i]) /\ book'[i].vno = book[i].vno /\ book'[i].vtype = book[i].vtype
      BY Zenon
    <3>1. EntryRow(book[i])
      BY Zenon DEF VoucherInv, BookRows
    <3>2. CASE i # k
      BY <2>4, <3>1, <3>2, Zenon
    <3>3. CASE i = k
      <4>1. book'[i] = [book[i] EXCEPT !.lines = ls]
        BY <2>4, <3>3, Zenon
      <4> QED BY <3>1, <4>1, Zenon DEF EntryRow
    <3> QED BY <3>2, <3>3, Zenon
  <2>6. PICK T : \A i \in 1..Len(book) : book'[i] \in T
    <3>1. \A i \in 1..Len(book) : book'[i] \in {book'[j] : j \in 1..Len(book)}
      BY Zenon
    <3> QED BY <3>1, Zenon
  <2>7. book' \in Seq(T) /\ Len(book') = Len(book)
    BY <2>3, <2>4, <2>6, SMTT(30)
  <2>8. BookRows'
    <3>1. \E R : book' \in Seq(R)
      BY <2>7, Zenon
    <3>2. \A i \in 1..Len(book') : EntryRow(book'[i]) /\ book'[i].vno \in Nat /\ book'[i].vtype \in Series \cup {"none"}
      BY <2>5, <2>7, Zenon DEF VoucherInv, BookRows
    <3> QED BY <1>1, <3>1, <3>2, Zenon DEF VoucherInv, BookRows, EntryRow
  <2>9. /\ job' = [p \in Clerks |-> job'[p]] /\ \A p \in Clerks \ {q} : job'[p] = job[p]
        /\ job'[q] = [job[q] EXCEPT !.todo = Tail(@)]
    BY <1>3, Zenon DEF VoucherInv, JobRows
  <2>10. JobRow(job'[q]) /\ job'[q].at = "lines"
    <3>1. JobRow(job[q])
      BY Zenon DEF VoucherInv, JobRows
    <3> QED BY <1>1, <2>9, <3>1, Zenon DEF JobRow
  <2>11. JobRows'
    BY <2>9, <2>10, Zenon DEF VoucherInv, JobRows, JobRow
  <2>12. \A p \in Clerks : Held(p)' => Held(p) /\ job'[p] = job[p] /\ SeriesOf(p)' = SeriesOf(p)
    BY <2>9, <2>10, Zenon DEF Held, SeriesOf
  <2>13. Drawn'
    BY <1>1, <2>5, <2>7, <2>12, Zenon DEF VoucherInv, Drawn, Taken
  <2>14. Distinct'
    BY <2>5, <2>7, <2>12, SMTT(30) DEF VoucherInv, Distinct
  <2>15. VouchersUnique'
    BY <2>5, <2>7, SMTT(30) DEF VoucherInv, VouchersUnique
  <2> QED BY <2>8, <2>11, <2>13, <2>14, <2>15, Zenon DEF VoucherInv
<1> QED BY <1>2, <1>3, Zenon DEF InsertLine

(* An account is deleted: requests that have read its id keep their numbers. *)
LEMMA DeleteAccountKeeps ==
  ASSUME VoucherInv, NEW c, DeleteAccount(c)
  PROVE  VoucherInv'
<1>1. UNCHANGED <<book, counter>>
  BY Zenon DEF DeleteAccount
<1>2. job' = [q \in Clerks |-> IF job[q].at \in {"number", "entry", "lines"}
                               THEN [job[q] EXCEPT !.lost = @ \cup {c}] ELSE job[q]]
  BY Zenon DEF DeleteAccount
<1>3. \A q \in Clerks : JobRow(job'[q]) /\ job'[q].at = job[q].at /\ job'[q].ref = job[q].ref /\ job'[q].vno = job[q].vno
  <2> SUFFICES ASSUME NEW q \in Clerks
               PROVE  JobRow(job'[q]) /\ job'[q].at = job[q].at /\ job'[q].ref = job[q].ref /\ job'[q].vno = job[q].vno
    BY Zenon
  <2>1. JobRow(job[q])
    BY Zenon DEF VoucherInv, JobRows
  <2>2. job'[q] = job[q] \/ job'[q] = [job[q] EXCEPT !.lost = @ \cup {c}]
    BY <1>2, Zenon
  <2> QED BY <2>1, <2>2, Zenon DEF JobRow
<1>4. \A q \in Clerks : (Held(q)' <=> Held(q)) /\ SeriesOf(q)' = SeriesOf(q)
  BY <1>3, Zenon DEF Held, SeriesOf
<1>5. JobRows'
  BY <1>2, <1>3, Zenon DEF JobRows, JobRow
<1>6. BookRows' /\ VouchersUnique'
  BY <1>1, SMTT(30) DEF VoucherInv, BookRows, EntryRow, VouchersUnique
<1>7. Drawn'
  BY <1>1, <1>3, <1>4, Zenon DEF VoucherInv, Drawn
<1>8. Distinct'
  BY <1>1, <1>3, <1>4, SMTT(30) DEF VoucherInv, Distinct
<1> QED BY <1>5, <1>6, <1>7, <1>8, Zenon DEF VoucherInv

(* Every step of a posting or of a reversal keeps the invariant.            *)
LEMMA PostingKeeps ==
  ASSUME VoucherInv, NEW q \in Clerks, postJournal(q) \/ reverseJournalsByReference(q)
  PROVE  VoucherInv'
<1>0. JobRow(job[q]) /\ job = [p \in Clerks |-> job[p]]
  BY Zenon DEF VoucherInv, JobRows
<1>1. CASE ensureChartOfAccounts(q)
  <2>1. job' = [job EXCEPT ![q] = [job[q] EXCEPT !.at = "number"]] /\ UNCHANGED <<book, counter>>
    BY <1>1, Zenon DEF ensureChartOfAccounts
  <2>2. PICK x : x = [job[q] EXCEPT !.at = "number"]
    BY Zenon
  <2>3. JobRow(x) /\ x.at # "entry"
    BY <1>0, <2>2, Zenon DEF JobRow
  <2> QED BY <2>1, <2>2, <2>3, VouchersMove, Zenon
<1>2. CASE NumberVoucher(q)
  BY <1>2, NumberKeeps, Zenon
<1>3. CASE InsertEntry(q)
  BY <1>3, EntryKeeps, Zenon
<1>4. CASE InsertLine(q)
  BY <1>4, LineKeeps, Zenon
<1>5. CASE PostingFails(q)
  BY <1>5, VouchersDone, Zenon DEF PostingFails
<1>6. CASE reverseJournalsByReference(q)
  <2>1. UNCHANGED <<book, counter>>
    BY <1>6, Zenon DEF reverseJournalsByReference
  <2>2. CASE Done(q)
    BY <2>1, <2>2, VouchersDone, Zenon
  <2>3. CASE ~Done(q)
    <3>1. PICK r, ls : job' = [job EXCEPT ![q].at = "number", ![q].ref = r, ![q].todo = ls]
      BY <1>6, <2>3, Zenon DEF reverseJournalsByReference
    <3>2. job' = [job EXCEPT ![q] = [job[q] EXCEPT !.at = "number", !.ref = r, !.todo = ls]]
      BY <1>0, <3>1, Zenon
    <3>3. PICK x : x = [job[q] EXCEPT !.at = "number", !.ref = r, !.todo = ls]
      BY Zenon
    <3>4. JobRow(x) /\ x.at # "entry"
      BY <1>0, <3>3, Zenon DEF JobRow
    <3> QED BY <2>1, <3>2, <3>3, <3>4, VouchersMove, Zenon
  <2> QED BY <2>2, <2>3, SMTT(30)
<1> QED BY <1>1, <1>2, <1>3, <1>4, <1>5, <1>6, Zenon DEF postJournal

(* A posting that starts has no number yet.                                 *)
LEMMA StartRow ==
  ASSUME NEW key, NEW ref, NEW lines
  PROVE  JobRow(StartPosting(key, ref, lines)) /\ StartPosting(key, ref, lines).at = "chart"
<1>1. PICK ls : StartPosting(key, ref, lines) = [NoJob EXCEPT !.at = "chart", !.key = key, !.ref = ref, !.todo = ls]
  BY Zenon DEF StartPosting
<1>2. PICK x : x = [NoJob EXCEPT !.at = "chart", !.key = key, !.ref = ref, !.todo = ls]
  BY Zenon
<1>3. JobRow(x) /\ x.at = "chart"
  BY <1>2, Zenon DEF NoJob, JobRow
<1> QED BY <1>1, <1>2, <1>3, Zenon

(* A document is posted.                                                    *)
LEMMA PostKeeps ==
  ASSUME VoucherInv, NEW q \in Clerks, NEW d, NEW ref, NEW lines, Post(q, d, ref, lines)
  PROVE  VoucherInv'
<1>1. PICK x : x = StartPosting(Key(d), ref, lines)
  BY Zenon
<1>2. JobRow(x) /\ x.at # "entry"
  BY <1>1, StartRow, Zenon
<1> QED BY <1>1, <1>2, VouchersMove, Zenon DEF Post

(* A document is created and posted.                                        *)
LEMMA RecordKeeps ==
  ASSUME VoucherInv, NEW q \in Clerks, NEW d, NEW kind, NEW n, NEW ref, NEW lines, Record(q, d, kind, n, ref, lines)
  PROVE  VoucherInv'
<1>1. PICK x : x = StartPosting(<<"DOC", d>>, ref, lines)
  BY Zenon
<1>2. JobRow(x) /\ x.at # "entry"
  BY <1>1, StartRow, Zenon
<1> QED BY <1>1, <1>2, VouchersMove, Zenon DEF Record

(* An order is written and posted.                                          *)
LEMMA OrderKeeps ==
  ASSUME VoucherInv, NEW q \in Clerks, NEW d, NEW row, WriteOrder(q, d, row)
  PROVE  VoucherInv'
<1>1. PICK y : y = StartPosting(<<"ORDER", row.num>>, <<"ORDER", row.num>>, postSalesToLedger("cash", row.tax, row.total))
  BY Zenon
<1>2. PICK x : x = [y EXCEPT !.at = "check", !.seen = row.status]
  BY Zenon
<1>3. JobRow(y)
  BY <1>1, StartRow, Zenon
<1>4. JobRow(x) /\ x.at # "entry"
  BY <1>2, <1>3, Zenon DEF JobRow
<1>5. job' = [job EXCEPT ![q] = x] /\ UNCHANGED <<book, counter>>
  BY <1>1, <1>2, Zenon DEF WriteOrder
<1> QED BY <1>4, <1>5, VouchersMove, Zenon

(* The steps of a request on a document. *)
LEMMA HandlerKeeps ==
  ASSUME VoucherInv, NEW q \in Clerks, NEW d \in Docs,
         \/ UpdateSalesInvoice(q, d) \/ CancelSalesInvoice(q, d) \/ CreateCreditNoteFromInvoice(q, d)
  PROVE  VoucherInv'
<1>0. JobRow(job[q]) /\ job = [p \in Clerks |-> job[p]]
  BY Zenon DEF VoucherInv, JobRows
<1>1. UNCHANGED <<book, counter>>
  BY Zenon DEF UpdateSalesInvoice, CancelSalesInvoice, CreateCreditNoteFromInvoice
<1>2. CASE Done(q)
  BY <1>1, <1>2, VouchersDone, Zenon
<1>3. CASE \E ls : job' = [job EXCEPT ![q] = [NoJob EXCEPT !.at = "edit", !.key = Key(d), !.edit = ls]]
  <2>1. PICK ls : job' = [job EXCEPT ![q] = [NoJob EXCEPT !.at = "edit", !.key = Key(d), !.edit = ls]]
    BY <1>3, Zenon
  <2>2. PICK x : x = [NoJob EXCEPT !.at = "edit", !.key = Key(d), !.edit = ls]
    BY Zenon
  <2>3. JobRow(x) /\ x.at # "entry"
    BY <2>2, Zenon DEF NoJob, JobRow
  <2> QED BY <1>1, <2>1, <2>2, <2>3, VouchersMove, Zenon
<1>4. CASE job' = [job EXCEPT ![q] = [NoJob EXCEPT !.at = "cancel", !.key = Key(d), !.seen = doc[d].status]]
  <2>2. PICK x : x = [NoJob EXCEPT !.at = "cancel", !.key = Key(d), !.seen = doc[d].status]
    BY Zenon
  <2>3. JobRow(x) /\ x.at # "entry"
    BY <2>2, Zenon DEF NoJob, JobRow
  <2> QED BY <1>1, <1>4, <2>2, <2>3, VouchersMove, Zenon
<1>5. CASE job' = [job EXCEPT ![q].at = "reverse", ![q].ref = <<"INV", d>>]
  <2>1. job' = [job EXCEPT ![q] = [job[q] EXCEPT !.at = "reverse", !.ref = <<"INV", d>>]]
    BY <1>0, <1>5, Zenon
  <2>2. PICK x : x = [job[q] EXCEPT !.at = "reverse", !.ref = <<"INV", d>>]
    BY Zenon
  <2>3. JobRow(x) /\ x.at # "entry"
    BY <1>0, <2>2, Zenon DEF JobRow
  <2> QED BY <1>1, <2>1, <2>2, <2>3, VouchersMove, Zenon
<1>6. CASE \E n : job' = [job EXCEPT ![q] = [NoJob EXCEPT !.at = "credit", !.key = Key(d), !.vno = n]]
  <2>1. PICK n : job' = [job EXCEPT ![q] = [NoJob EXCEPT !.at = "credit", !.key = Key(d), !.vno = n]]
    BY <1>6, Zenon
  <2>2. PICK x : x = [NoJob EXCEPT !.at = "credit", !.key = Key(d), !.vno = n]
    BY Zenon
  <2>3. JobRow(x) /\ x.at # "entry"
    BY <2>2, Zenon DEF NoJob, JobRow
  <2> QED BY <1>1, <2>1, <2>2, <2>3, VouchersMove, ZenonT(30)
<1> QED BY <1>2, <1>3, <1>4, <1>5, <1>6, Zenon DEF UpdateSalesInvoice, CancelSalesInvoice, CreateCreditNoteFromInvoice

(* Every handler of a clerk keeps the invariant.                            *)
LEMMA ClerkKeeps ==
  ASSUME VoucherInv, NEW q \in Clerks, Clerk(q)
  PROVE  VoucherInv'
<1>0. JobRow(job[q]) /\ job = [p \in Clerks |-> job[p]]
  BY Zenon DEF VoucherInv, JobRows
<1>1. CASE postJournal(q) \/ reverseJournalsByReference(q)
  BY <1>1, PostingKeeps, Zenon
<1>2. ASSUME NEW d \in Docs,
             \/ UpdateSalesInvoice(q, d) \/ CancelSalesInvoice(q, d) \/ CreateCreditNoteFromInvoice(q, d)
      PROVE  VoucherInv'
  BY <1>2, HandlerKeeps, Zenon
<1>3. ASSUME NEW d \in Docs, PostSalesInvoice(q, d) \/ PostCreditNote(q, d) \/ PostDebitNote(q, d) \/ PostGRN(q, d)
      PROVE  VoucherInv'
  BY <1>3, PostKeeps, Zenon DEF PostSalesInvoice, PostCreditNote, PostDebitNote, PostGRN
<1>4. ASSUME NEW d \in Docs, CreateVendorPayment(q, d) \/ RecordPayment(q, d)
      PROVE  VoucherInv'
  BY <1>4, RecordKeeps, Zenon DEF CreateVendorPayment, RecordPayment
<1>5. ASSUME NEW d \in Docs, Create(q, d) \/ Update(q, d)
      PROVE  VoucherInv'
  <2>1. PICK row : WriteOrder(q, d, row)
    BY <1>5, Zenon DEF Create, Update
  <2> QED BY <2>1, OrderKeeps, Zenon
<1>6. CASE postLegacyPOSOrder(q)
  <2>1. UNCHANGED <<book, counter>>
    BY <1>6, Zenon DEF postLegacyPOSOrder
  <2>2. CASE Done(q)
    BY <2>1, <2>2, VouchersDone, Zenon
  <2>3. CASE job' = [job EXCEPT ![q].at = "chart"]
    <3>1. job' = [job EXCEPT ![q] = [job[q] EXCEPT !.at = "chart"]]
      BY <2>3, Zenon
    <3>2. PICK x : x = [job[q] EXCEPT !.at = "chart"]
      BY Zenon
    <3>3. JobRow(x) /\ x.at # "entry"
      BY <1>0, <3>2, Zenon DEF JobRow
    <3> QED BY <2>1, <3>1, <3>2, <3>3, VouchersMove, Zenon
  <2> QED BY <1>6, <2>2, <2>3, Zenon DEF postLegacyPOSOrder
<1>7. CASE CloseDay(q)
  <2>1. UNCHANGED <<book, counter>>
    BY <1>7, Zenon DEF CloseDay
  <2>2. CASE Done(q)
    BY <2>1, <2>2, VouchersDone, Zenon
  <2>3. CASE ~Done(q)
    <3>1. PICK ls : job' = [job EXCEPT ![q] = [NoJob EXCEPT !.at = "close", !.todo = ls]]
      BY <1>7, <2>3, Zenon DEF CloseDay
    <3>2. PICK x : x = [NoJob EXCEPT !.at = "close", !.todo = ls]
      BY Zenon
    <3>3. JobRow(x) /\ x.at # "entry"
      BY <3>2, Zenon DEF NoJob, JobRow
    <3> QED BY <2>1, <3>1, <3>2, <3>3, VouchersMove, Zenon
  <2> QED BY <2>2, <2>3, Zenon
<1> QED BY <1>1, <1>2, <1>3, <1>4, <1>5, <1>6, <1>7, Zenon DEF Clerk

(* The invariant is inductive.                                              *)
LEMMA VoucherStep == VoucherInv /\ [BooksNext]_booksVars => VoucherInv'
<1> SUFFICES ASSUME VoucherInv, [BooksNext]_booksVars PROVE VoucherInv'
  BY Zenon
<1>1. ASSUME NEW q \in Clerks, Clerk(q) PROVE VoucherInv'
  BY <1>1, ClerkKeeps, Zenon
<1>2. ASSUME NEW d \in Docs,
             CreateSalesInvoice(d) \/ CreateCreditNote(d) \/ CreateDebitNote(d) \/ CreateGRN(d) \/ Delete(d)
      PROVE  VoucherInv'
  <2>1. UNCHANGED <<job, book, counter>>
    BY <1>2, Zenon
       DEF CreateSalesInvoice, CreateCreditNote, CreateDebitNote, CreateGRN, Draft, Delete,
           ledgerVars
  <2> QED BY <2>1, VouchersStand, SMTT(30)
<1>3. ASSUME NEW d \in Docs, settleReservation(d) PROVE VoucherInv'
  BY <1>3, SettleKeeps, Zenon
<1>4. ASSUME NEW c, DeleteAccount(c) PROVE VoucherInv'
  BY <1>4, DeleteAccountKeeps, Zenon
<1>5. ASSUME NEW c, CreateAccount(c) \/ UpdateAccount(c) PROVE VoucherInv'
  <2>1. UNCHANGED <<job, book, counter>>
    BY <1>5, Zenon DEF CreateAccount, UpdateAccount
  <2> QED BY <2>1, VouchersStand, Zenon
<1>6. CASE CreateJournalEntry
  BY <1>6, ManualKeeps, Zenon
<1>7. CASE Midnight \/ UNCHANGED booksVars
  <2>1. UNCHANGED <<job, book, counter>>
    BY <1>7, Zenon DEF Midnight, booksVars, ledgerVars
  <2> QED BY <2>1, VouchersStand, Zenon
<1> QED BY <1>1, <1>2, <1>3, <1>4, <1>5, <1>6, <1>7, Zenon DEF BooksNext

(* The invariant holds in every reachable state.                            *)
LEMMA VoucherInvariant == BooksSpec => []VoucherInv
  BY VoucherInit, VoucherStep, PTL DEF BooksSpec

(* nextVoucherNo gives every journal entry of a series its own number,      *)
(* whichever postings run at the same time, are numbered and never          *)
(* inserted, or insert without a number.                                    *)
THEOREM VoucherNumbersUnique == BooksSpec => []VouchersUnique
<1>1. VoucherInv => VouchersUnique
  BY Zenon DEF VoucherInv
<1> QED BY <1>1, VoucherInvariant, PTL

-----------------------------------------------------------------------------
DocRows ==
  /\ doc = [d \in Docs |-> doc[d]]
  /\ \A d \in Docs : DocRow(doc[d])

Settled(d) == doc[d].kind = "invoice" /\ doc[d].status \in {"posted", "cancelled"}
Frozen == \A d \in Docs : Settled(d) =>
            doc'[d].total = doc[d].total /\ doc'[d].tax = doc[d].tax /\ doc'[d].status # "draft"

(* A step that writes no document changes no header.                        *)
LEMMA DocStands ==
  ASSUME DocRows, UNCHANGED doc
  PROVE  DocRows' /\ Frozen
BY Zenon DEF DocRows, DocRow, Frozen, Settled

(* A document that is written keeps its header if it was settled.           *)
LEMMA DocWritten ==
  ASSUME DocRows, NEW d, NEW r, DocRow(r), doc' = [doc EXCEPT ![d] = r],
         Settled(d) => r.total = doc[d].total /\ r.tax = doc[d].tax /\ r.status # "draft"
  PROVE  DocRows' /\ Frozen
<1>1. doc' = [e \in Docs |-> IF e = d THEN r ELSE doc[e]]
  BY Zenon DEF DocRows
<1>2. DocRows'
  BY <1>1, Zenon DEF DocRows, DocRow
<1>3. Frozen
  BY <1>1, Zenon DEF Frozen, Settled
<1> QED BY <1>2, <1>3, Zenon

(* A document that does not exist yet is not settled.                       *)
LEMMA FreshIsFree ==
  ASSUME NEW d, Fresh(d)
  PROVE  ~Settled(d)
BY SMTT(30) DEF Fresh, NoDoc, Settled

(* Posting a document changes no header.                                    *)
LEMMA DocPosted ==
  ASSUME DocRows, NEW q, NEW d \in Docs, NEW ref, NEW lines, Post(q, d, ref, lines)
  PROVE  DocRows' /\ Frozen
<1>1. doc' = [doc EXCEPT ![d] = [doc[d] EXCEPT !.status = "posted"]] /\ doc[d].status = "draft"
  BY Zenon DEF Post
<1>2. PICK r : r = [doc[d] EXCEPT !.status = "posted"]
  BY Zenon
<1>3. DocRow(r) /\ ~Settled(d)
  BY <1>1, <1>2, Zenon DEF DocRows, DocRow, Settled
<1> QED BY <1>1, <1>2, <1>3, DocWritten, Zenon

(* An invoice is updated while it is a draft, cancelled, or credited.       *)
LEMMA DocHandled ==
  ASSUME DocRows, NEW q, NEW d \in Docs,
         \/ UpdateSalesInvoice(q, d) \/ CancelSalesInvoice(q, d) \/ CreateCreditNoteFromInvoice(q, d)
  PROVE  DocRows' /\ Frozen
<1>0. DocRow(doc[d])
  BY Zenon DEF DocRows
<1>1. CASE UNCHANGED doc
  BY <1>1, DocStands, Zenon
<1>2. CASE UpdateSalesInvoice(q, d) /\ ~UNCHANGED doc
  <2>1. PICK ls : doc' = [doc EXCEPT ![d] = [HeaderIfDraft(d, ls) EXCEPT !.lines = ls]]
    BY <1>2, Zenon DEF UpdateSalesInvoice, docVars
  <2>2. PICK h : h = HeaderIfDraft(d, ls)
    BY Zenon
  <2>3. PICK tax, total : h = doc[d] \/ (doc[d].status = "draft" /\ h = [doc[d] EXCEPT !.tax = tax, !.total = total])
    BY <2>2, Zenon DEF HeaderIfDraft
  <2>4. DocRow(h) /\ (Settled(d) => h = doc[d])
    BY <1>0, <2>3, Zenon DEF DocRow, Settled
  <2>5. PICK r : r = [h EXCEPT !.lines = ls]
    BY Zenon
  <2>6. DocRow(r) /\ r.total = h.total /\ r.tax = h.tax /\ r.status = h.status
    BY <2>4, <2>5, Zenon DEF DocRow
  <2>7. Settled(d) => doc[d].status # "draft"
    BY Zenon DEF Settled
  <2>8. doc' = [doc EXCEPT ![d] = r]
    BY <2>1, <2>2, <2>5, Zenon
  <2> QED BY <2>4, <2>6, <2>7, <2>8, DocWritten, Zenon
<1>3. CASE CancelSalesInvoice(q, d) /\ ~UNCHANGED doc
  <2>1. doc' = [doc EXCEPT ![d] = [doc[d] EXCEPT !.status = "cancelled"]]
    BY <1>3, Zenon DEF CancelSalesInvoice, docVars
  <2>2. PICK r : r = [doc[d] EXCEPT !.status = "cancelled"]
    BY Zenon
  <2>3. DocRow(r) /\ r.total = doc[d].total /\ r.tax = doc[d].tax /\ r.status # "draft"
    BY <1>0, <2>2, Zenon DEF DocRow
  <2> QED BY <2>1, <2>2, <2>3, DocWritten, Zenon
<1>4. CASE CreateCreditNoteFromInvoice(q, d) /\ ~UNCHANGED doc
  <2>1. PICK e, n : /\ e \in Docs /\ Fresh(e)
                    /\ doc' = [doc EXCEPT ![e] = [doc[d] EXCEPT !.kind = "credit", !.status = "draft",
                                                                !.of = d, !.num = n]]
    BY <1>4, Zenon DEF CreateCreditNoteFromInvoice, docVars
  <2>2. PICK r : r = [doc[d] EXCEPT !.kind = "credit", !.status = "draft", !.of = d, !.num = n]
    BY Zenon
  <2>3. DocRow(r)
    BY <1>0, <2>2, Zenon DEF DocRow
  <2> QED BY <2>1, <2>2, <2>3, FreshIsFree, DocWritten, Zenon
<1> QED BY <1>1, <1>2, <1>3, <1>4, Zenon

(* A new document changes no other.                                         *)
LEMMA DocCreated ==
  ASSUME DocRows, NEW d \in Docs, Fresh(d), NEW r, DocRow(r), doc' = [doc EXCEPT ![d] = r]
  PROVE  DocRows' /\ Frozen
BY FreshIsFree, DocWritten, Zenon

(* An order that is not settled is written.                                 *)
LEMMA OrderWritten ==
  ASSUME DocRows, NEW q, NEW d \in Docs, NEW row, DocRow(row), ~Settled(d), WriteOrder(q, d, row)
  PROVE  DocRows' /\ Frozen
<1>1. PICK b : doc' = [doc EXCEPT ![d] = [row EXCEPT !.paid = b]]
  BY Zenon DEF WriteOrder
<1>2. PICK r : r = [row EXCEPT !.paid = b]
  BY Zenon
<1>3. DocRow(r)
  BY <1>2, Zenon DEF DocRow
<1> QED BY <1>1, <1>2, <1>3, DocWritten, Zenon

(* Every handler of a clerk leaves settled headers alone.                   *)
LEMMA DocClerk ==
  ASSUME DocRows, NEW q \in Clerks, Clerk(q)
  PROVE  DocRows' /\ Frozen
<1>1. CASE (postJournal(q) \/ reverseJournalsByReference(q)) /\ UNCHANGED docVars
  BY <1>1, DocStands, Zenon DEF docVars
<1>2. ASSUME NEW d \in Docs,
             \/ UpdateSalesInvoice(q, d) \/ CancelSalesInvoice(q, d) \/ CreateCreditNoteFromInvoice(q, d)
      PROVE  DocRows' /\ Frozen
  BY <1>2, DocHandled, Zenon
<1>3. ASSUME NEW d \in Docs, PostSalesInvoice(q, d) \/ PostCreditNote(q, d) \/ PostDebitNote(q, d) \/ PostGRN(q, d)
      PROVE  DocRows' /\ Frozen
  BY <1>3, DocPosted, Zenon DEF PostSalesInvoice, PostCreditNote, PostDebitNote, PostGRN
<1>4. ASSUME NEW d \in Docs, CreateVendorPayment(q, d) \/ RecordPayment(q, d)
      PROVE  DocRows' /\ Frozen
  <2>1. PICK kind, n : Fresh(d) /\ doc' = [doc EXCEPT ![d] = [NoDoc EXCEPT !.kind = kind, !.status = "posted", !.total = n]]
    BY <1>4, Zenon DEF CreateVendorPayment, RecordPayment, Record
  <2>2. PICK r : r = [NoDoc EXCEPT !.kind = kind, !.status = "posted", !.total = n]
    BY Zenon
  <2>3. DocRow(r)
    BY <2>2, Zenon DEF NoDoc, DocRow
  <2> QED BY <2>1, <2>2, <2>3, DocCreated, Zenon
<1>5. ASSUME NEW d \in Docs, Create(q, d) PROVE DocRows' /\ Frozen
  <2>1. PICK s, tax, total, n :
          WriteOrder(q, d, [NoDoc EXCEPT !.kind = "order", !.status = s, !.tax = tax, !.total = total, !.num = n])
    BY <1>5, Zenon DEF Create
  <2>2. PICK row : row = [NoDoc EXCEPT !.kind = "order", !.status = s, !.tax = tax, !.total = total, !.num = n]
    BY Zenon
  <2>3. DocRow(row)
    BY <2>2, Zenon DEF NoDoc, DocRow
  <2>4. ~Settled(d)
    BY <1>5, FreshIsFree, Zenon DEF Create
  <2> QED BY <2>1, <2>2, <2>3, <2>4, OrderWritten, Zenon
<1>6. ASSUME NEW d \in Docs, Update(q, d) PROVE DocRows' /\ Frozen
  <2>1. PICK s, tax, total : WriteOrder(q, d, [doc[d] EXCEPT !.status = s, !.tax = tax, !.total = total])
    BY <1>6, Zenon DEF Update
  <2>2. PICK row : row = [doc[d] EXCEPT !.status = s, !.tax = tax, !.total = total]
    BY Zenon
  <2>3. DocRow(row)
    BY <2>2, Zenon DEF DocRows, DocRow
  <2>4. ~Settled(d)
    BY <1>6, Zenon DEF Update, Settled
  <2> QED BY <2>1, <2>2, <2>3, <2>4, OrderWritten, Zenon
<1>7. CASE postLegacyPOSOrder(q) \/ CloseDay(q)
  <2>1. UNCHANGED doc
    BY <1>7, Zenon DEF postLegacyPOSOrder, CloseDay, docVars
  <2> QED BY <2>1, DocStands, Zenon
<1> QED BY <1>1, <1>2, <1>3, <1>4, <1>5, <1>6, <1>7, Zenon DEF Clerk

(* So does every step.                                                      *)
LEMMA DocStep ==
  ASSUME DocRows, [BooksNext]_booksVars
  PROVE  DocRows' /\ Frozen
<1>1. ASSUME NEW q \in Clerks, Clerk(q) PROVE DocRows' /\ Frozen
  BY <1>1, DocClerk, Zenon
<1>2. ASSUME NEW d \in Docs, CreateSalesInvoice(d) PROVE DocRows' /\ Frozen
  <2>1. PICK ls : Fresh(d) /\ doc' = [doc EXCEPT ![d] = [NoDoc EXCEPT !.kind = "invoice", !.status = "draft", !.lines = ls,
                                                  !.tax = TaxTotal(ls), !.total = HeaderTotal(ls)]]
    BY <1>2, Zenon DEF CreateSalesInvoice
  <2>2. PICK r : r = [NoDoc EXCEPT !.kind = "invoice", !.status = "draft", !.lines = ls,
                                                  !.tax = TaxTotal(ls), !.total = HeaderTotal(ls)]
    BY Zenon
  <2>3. DocRow(r)
    BY <2>2, Zenon DEF NoDoc, DocRow
  <2> QED BY <2>1, <2>2, <2>3, DocCreated, Zenon
<1>3. ASSUME NEW d \in Docs, NEW kind, NEW a, Draft(d, kind, a) PROVE DocRows' /\ Frozen
  <2>1. PICK r : r = [NoDoc EXCEPT !.kind = kind, !.status = "draft", !.tax = a[1], !.total = a[2]]
    BY Zenon
  <2>2. DocRow(r)
    BY <2>1, Zenon DEF NoDoc, DocRow
  <2> QED BY <1>3, <2>1, <2>2, DocCreated, Zenon DEF Draft
<1>4. ASSUME NEW d \in Docs, CreateCreditNote(d) \/ CreateDebitNote(d) \/ CreateGRN(d) PROVE DocRows' /\ Frozen
  BY <1>3, <1>4, Zenon DEF CreateCreditNote, CreateDebitNote, CreateGRN
<1>5. ASSUME NEW d \in Docs, settleReservation(d) PROVE DocRows' /\ Frozen
  <2>1. PICK tax, total : /\ Fresh(d)
                          /\ doc' = [doc EXCEPT ![d] = [NoDoc EXCEPT !.kind = "settlement", !.status = "posted",
                                                                     !.tax = tax, !.total = total]]
    BY <1>5, Zenon DEF settleReservation
  <2>2. PICK r : r = [NoDoc EXCEPT !.kind = "settlement", !.status = "posted", !.tax = tax, !.total = total]
    BY Zenon
  <2>3. DocRow(r)
    BY <2>2, Zenon DEF NoDoc, DocRow
  <2> QED BY <2>1, <2>2, <2>3, DocCreated, Zenon
<1>6. ASSUME NEW d \in Docs, Delete(d) PROVE DocRows' /\ Frozen
  <2>1. doc' = [doc EXCEPT ![d] = [doc[d] EXCEPT !.status = "deleted"]] /\ ~Settled(d)
    BY <1>6, Zenon DEF Delete, Settled
  <2>2. PICK r : r = [doc[d] EXCEPT !.status = "deleted"]
    BY Zenon
  <2>3. DocRow(r)
    BY <2>2, Zenon DEF DocRows, DocRow
  <2> QED BY <2>1, <2>2, <2>3, DocWritten, Zenon
<1>7. ASSUME NEW c, CreateAccount(c) \/ UpdateAccount(c) \/ DeleteAccount(c) PROVE DocRows' /\ Frozen
  <2>1. UNCHANGED doc
    BY <1>7, Zenon DEF CreateAccount, UpdateAccount, DeleteAccount, docVars
  <2> QED BY <2>1, DocStands, Zenon
<1>8. CASE CreateJournalEntry \/ Midnight \/ UNCHANGED booksVars
  <2>1. UNCHANGED doc
    BY <1>8, Zenon DEF CreateJournalEntry, Midnight, booksVars, docVars
  <2> QED BY <2>1, DocStands, Zenon
<1> QED BY <1>1, <1>2, <1>4, <1>5, <1>6, <1>7, <1>8, Zenon DEF BooksNext

(* UpdateSalesInvoice changes no total of an invoice that was posted or     *)
(* cancelled after its status was read, and nothing else makes such an      *)
(* invoice a draft again or rewrites its header.                            *)
THEOREM HeadersFrozen == BooksSpec => PostedHeaderFrozen
<1>1. BooksInit => DocRows
  BY Zenon DEF BooksInit, DocRows, DocRow, NoDoc
<1>2. DocRows /\ [BooksNext]_booksVars => DocRows'
  BY DocStep, Zenon
<1>3. DocRows /\ [BooksNext]_booksVars =>
        [\A d \in Docs : doc[d].kind = "invoice" /\ doc[d].status \in {"posted", "cancelled"} =>
           doc'[d].total = doc[d].total /\ doc'[d].tax = doc[d].tax /\ doc'[d].status # "draft"]_booksVars
  BY DocStep, Zenon DEF Frozen, Settled
<1> QED BY <1>1, <1>2, <1>3, PTL DEF BooksSpec, PostedHeaderFrozen

=============================================================================
