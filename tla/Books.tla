------------------------------- MODULE Books --------------------------------
(***************************************************************************)
(* The documents that post to the ledger (internal/handler/                *)
(* accounting_handler.go, pos_handler.go, reservation_settlement.go,       *)
(* nightaudit_handler.go): a document's row is written first, its journal  *)
(* afterwards and with the error discarded.  A behaviour exercises one     *)
(* duty, a set of operations.                                              *)
(***************************************************************************)
EXTENDS Ledger

CONSTANTS
  Docs,         \* bound: document ids
  Duties,       \* the sets of operations an instance exercises, each with its bound on documents
  MaxReports,   \* bound: night audit reports
  LineSets,     \* the lines an invoice request may carry
  Numbers,      \* order numbers: a clock reading modulo 100000, so two orders may share one
  Amounts,      \* the <<tax, total>> of the other documents
  ManualLines,  \* the lines of a manual journal request
  EditedCodes   \* the accounts an accountant creates, re-types and deletes

ASSUME BooksAssumption == MaxEntries \in Nat /\ MaxDay \in Nat \ {0} /\ MaxFaults \in Nat /\ EditedCodes \subseteq Codes

VARIABLES
  duty,       \* the operations of this behaviour
  doc,        \* invoices, notes, receipts, vendor payments and orders
  reports     \* night_audit_reports

docVars == <<duty, doc, reports>>
booksVars == <<ledgerVars, docVars>>

NoDoc == [kind |-> "none", status |-> "none", tax |-> 0, total |-> 0, lines |-> <<>>, of |-> 0, num |-> 0, paid |-> FALSE]
Key(d) == IF doc[d].kind = "order" THEN <<"ORDER", doc[d].num>> ELSE <<"DOC", d>>

BooksInit ==
  /\ duty \in Duties
  /\ LedgerInit("account" \in duty.ops)
  /\ doc = [d \in Docs |-> NoDoc]
  /\ reports = {}

Fresh(d) == d <= duty.docs /\ doc[d] = NoDoc /\ \A e \in Docs : doc[e] = NoDoc => d <= e
May(op) == op \in duty.ops
Quiet(key) == \A q \in Clerks : job[q].key # key

-----------------------------------------------------------------------------
(* Chart of accounts.                                                      *)

CreateAccount(c) ==
  /\ May("account") /\ c \in EditedCodes /\ ~Exists(c)
  /\ chart' = [chart EXCEPT ![c] = standardChart[c]]
  /\ UNCHANGED <<book, counter, today, job, troubled, faults, docVars>>

UpdateAccount(c) ==
  /\ May("account") /\ c \in EditedCodes /\ Exists(c)
  /\ \E t \in {"revenue", "liability"} : chart' = [chart EXCEPT ![c] = t]
  /\ UNCHANGED <<book, counter, today, job, troubled, faults, docVars>>

(* Refused by the foreign keys while a journal or an invoice line names the account.  A posting that has
   read the account's id holds a dead one from now on. *)
DeleteAccount(c) ==
  /\ May("account") /\ c \in EditedCodes /\ Exists(c)
  /\ \A i \in 1..Len(book) : \A n \in 1..Len(book[i].lines) : book[i].lines[n][1] # c
  /\ \A d \in Docs : \A n \in 1..Len(doc[d].lines) : doc[d].lines[n].acct # c
  /\ chart' = [chart EXCEPT ![c] = NoAccount]
  /\ job' = [q \in Clerks |-> IF job[q].at \in {"number", "entry", "lines"}
                              THEN [job[q] EXCEPT !.lost = @ \cup {c}] ELSE job[q]]
  /\ UNCHANGED <<book, counter, today, troubled, faults, docVars>>

-----------------------------------------------------------------------------
(* Sales invoices.                                                         *)

Qty(l) == IF l.qty = 0 THEN 1 ELSE l.qty
LineTax(l) == ((Qty(l) * l.price - l.disc) * l.rate) \div 100
SumOf(f(_), lines) == MapThenSumSet(LAMBDA n : f(lines[n]), DOMAIN lines)

(* Header totals: subtotal less discounts plus tax. *)
TaxTotal(lines) == SumOf(LineTax, lines)
HeaderTotal(lines) ==
  SumOf(LAMBDA l : Qty(l) * l.price, lines) - SumOf(LAMBDA l : l.disc, lines) + TaxTotal(lines)

CreateSalesInvoice(d) ==
  /\ May("invoice") /\ Fresh(d)
  /\ \E ls \in LineSets :
       /\ ls # <<>> /\ \A n \in 1..Len(ls) : Exists(ls[n].acct)
       /\ doc' = [doc EXCEPT ![d] = [NoDoc EXCEPT !.kind = "invoice", !.status = "draft", !.lines = ls,
                                                  !.tax = TaxTotal(ls), !.total = HeaderTotal(ls)]]
  /\ UNCHANGED <<ledgerVars, duty, reports>>

(* The header's UPDATE has AND status = 'draft'. *)
HeaderIfDraft(d, ls) ==
  IF doc[d].status = "draft" THEN [doc[d] EXCEPT !.tax = TaxTotal(ls), !.total = HeaderTotal(ls)] ELSE doc[d]

(* The status is read; then, in a transaction, the header is rewritten if it is still a draft and the
   lines are replaced anyway: the count of rows the header's UPDATE changed is not looked at.  Lines
   a credit note refers to cannot be deleted. *)
UpdateSalesInvoice(q, d) ==
  \/ /\ May("edit") /\ Idle(q) /\ doc[d].kind = "invoice" /\ doc[d].status = "draft"
     /\ \E ls \in LineSets : job' = [job EXCEPT ![q] = [NoJob EXCEPT !.at = "edit", !.key = Key(d), !.edit = ls]]
     /\ Overlap(q, Key(d))
     /\ UNCHANGED <<chart, book, counter, today, faults, docVars>>
  \/ /\ job[q].at = "edit" /\ job[q].key = Key(d)
     /\ LET ls == job[q].edit
            copied == \E e \in Docs : doc[e].kind = "credit" /\ doc[e].of = d
        IN IF copied \/ \E n \in 1..Len(ls) : ~Exists(ls[n].acct) THEN UNCHANGED doc
           ELSE doc' = [doc EXCEPT ![d] = [HeaderIfDraft(d, ls) EXCEPT !.lines = ls]]
     /\ Done(q)
     /\ UNCHANGED <<chart, book, counter, today, troubled, faults, duty, reports>>

PostAgain(q, d, ref, lines) ==
  /\ Idle(q) /\ doc[d].status \in {"draft", "posted"}
  /\ doc' = [doc EXCEPT ![d].status = "posted"]
  /\ job' = [job EXCEPT ![q] = StartPosting(Key(d), ref, lines)]
  /\ Overlap(q, Key(d))
  /\ UNCHANGED <<chart, book, counter, today, faults, duty, reports>>

(* UPDATE ... SET status = 'posted' WHERE status = 'draft' RETURNING, and then the journal. *)
Post(q, d, ref, lines) ==
  /\ Idle(q) /\ doc[d].status = "draft"
  /\ doc' = [doc EXCEPT ![d].status = "posted"]
  /\ job' = [job EXCEPT ![q] = StartPosting(Key(d), ref, lines)]
  /\ Overlap(q, Key(d))
  /\ UNCHANGED <<chart, book, counter, today, faults, duty, reports>>

PostSalesInvoice(q, d) ==
  doc[d].kind = "invoice" /\ Post(q, d, <<"INV", d>>, postARInvoice(doc[d].tax, doc[d].total))

(* The status is read; the row is cancelled whatever it is by then; what was read decides whether the
   journals that carry the invoice's own number are reversed. *)
CancelSalesInvoice(q, d) ==
  \/ /\ May("cancel") /\ Idle(q) /\ doc[d].kind \in {"invoice", "settlement"} /\ doc[d].status \in {"draft", "posted"}
     /\ job' = [job EXCEPT ![q] = [NoJob EXCEPT !.at = "cancel", !.key = Key(d), !.seen = doc[d].status]]
     /\ Overlap(q, Key(d))
     /\ UNCHANGED <<chart, book, counter, today, faults, docVars>>
  \/ /\ job[q].at = "cancel" /\ job[q].key = Key(d)
     /\ doc' = [doc EXCEPT ![d].status = "cancelled"]
     /\ IF job[q].seen = "posted" THEN job' = [job EXCEPT ![q].at = "reverse", ![q].ref = <<"INV", d>>] ELSE Done(q)
     /\ UNCHANGED <<chart, book, counter, today, troubled, faults, duty, reports>>

-----------------------------------------------------------------------------
(* Notes, receipts, payments.                                              *)

NotesOf(d) == {e \in Docs : doc[e].kind = "credit" /\ doc[e].of = d}

(* The invoice's status and its notes are read; the note copies the invoice's totals and lines, under
   the next number of that invoice, which the unique index refuses when a racing note has it. *)
CreateCreditNoteFromInvoice(q, d) ==
  \/ /\ May("credit") /\ Idle(q) /\ doc[d].kind \in {"invoice", "settlement"} /\ doc[d].status = "posted"
     /\ job' = [job EXCEPT ![q] = [NoJob EXCEPT !.at = "credit", !.key = Key(d), !.vno = Cardinality(NotesOf(d)) + 1]]
     /\ Overlap(q, Key(d))
     /\ UNCHANGED <<chart, book, counter, today, faults, docVars>>
  \/ /\ job[q].at = "credit" /\ job[q].key = Key(d)
     /\ IF \E e \in NotesOf(d) : doc[e].num = job[q].vno \/ \A f \in Docs : ~Fresh(f) THEN UNCHANGED doc
        ELSE \E e \in Docs : /\ Fresh(e)
                             /\ doc' = [doc EXCEPT ![e] = [doc[d] EXCEPT !.kind = "credit", !.status = "draft",
                                                                         !.of = d, !.num = job[q].vno]]
     /\ Done(q)
     /\ UNCHANGED <<chart, book, counter, today, troubled, faults, duty, reports>>

(* A row of its own with its totals, as a draft. *)
Draft(d, kind, amount) ==
  /\ May(kind) /\ Fresh(d)
  /\ doc' = [doc EXCEPT ![d] = [NoDoc EXCEPT !.kind = kind, !.status = "draft", !.tax = amount[1], !.total = amount[2]]]
  /\ UNCHANGED <<ledgerVars, duty, reports>>

(* The lines of a manual note carry no tax. *)
CreateCreditNote(d) == \E a \in Amounts : Draft(d, "credit", <<0, a[2]>>)
PostCreditNote(q, d) ==
  doc[d].kind = "credit" /\ Post(q, d, <<"CN", d>>, postCreditNoteReversal(doc[d].tax, doc[d].total))

CreateDebitNote(d) == \E a \in Amounts : Draft(d, "debit", a)
PostDebitNote(q, d) == doc[d].kind = "debit" /\ Post(q, d, <<"DN", d>>, postVendorDebitNote(doc[d].total))

(* The total of a receipt's lines is what was accepted, without tax. *)
CreateGRN(d) == \E a \in Amounts : Draft(d, "grn", <<0, a[2]>>)
PostGRN(q, d) == doc[d].kind = "grn" /\ Post(q, d, <<"GRN", d>>, postGoodsReceipt(doc[d].total))

(* The row is inserted and its journal follows at once. *)
Record(q, d, kind, amount, ref, lines) ==
  /\ May(kind) /\ Idle(q) /\ Fresh(d)
  /\ doc' = [doc EXCEPT ![d] = [NoDoc EXCEPT !.kind = kind, !.status = "posted", !.total = amount]]
  /\ job' = [job EXCEPT ![q] = StartPosting(<<"DOC", d>>, ref, lines)]
  /\ UNCHANGED <<chart, book, counter, today, troubled, faults, duty, reports>>

CreateVendorPayment(q, d) == \E a \in Amounts : a[2] > 0 /\ Record(q, d, "vendor", a[2], <<"VP", d>>, postAPSettlement("cash", a[2]))
RecordPayment(q, d) == \E a \in Amounts : a[2] > 0 /\ Record(q, d, "folio", a[2], <<"PAY", d>>, postRoomRevenue("cash", 0, a[2]))

(* Inside the reservation's transaction: the invoice, already posted, and the journal, under the
   stay's confirmation number and not the invoice's. *)
settleReservation(d) ==
  /\ May("settle") /\ Fresh(d) /\ Len(book) < MaxEntries
  /\ \E a \in Amounts, debit \in {"1000", "1200"} :
       /\ doc' = [doc EXCEPT ![d] = [NoDoc EXCEPT !.kind = "settlement", !.status = "posted", !.tax = a[1], !.total = a[2]]]
       /\ book' = Append(book, [ref |-> <<"FOLIO", d>>, day |-> today, vno |-> counter["SAL"], vtype |-> "SAL",
                    lines |-> SelectSeq(<<<<debit, a[2]>>, <<"4000", a[1] - a[2]>>, <<"2100", -a[1]>>>>, LAMBDA l : l[2] # 0)])
  /\ chart' = [c \in Codes |-> IF Exists(c) THEN chart[c] ELSE standardChart[c]]
  /\ counter' = [counter EXCEPT !["SAL"] = @ + 1]
  /\ UNCHANGED <<today, job, troubled, faults, duty, reports>>

(* A manual journal: debits must equal credits, its date may lie in the past, it has no voucher. *)
CreateJournalEntry ==
  /\ May("manual") /\ Len(book) < MaxEntries
  /\ \E ls \in ManualLines, day \in 1..today :
       /\ ls # <<>> /\ Total(ls) = 0 /\ \A n \in 1..Len(ls) : Exists(ls[n][1])
       /\ book' = Append(book, [ref |-> NoRef, day |-> day, vno |-> 0, vtype |-> "none", lines |-> ls])
  /\ UNCHANGED <<chart, counter, today, job, troubled, faults, docVars>>

-----------------------------------------------------------------------------
(* Legacy POS orders: the row first, the sale in the ledger afterwards.    *)

isPaidStatus(status) == status = "paid"

(* The row is written; its stored amounts and status are what the ledger step works with. *)
WriteOrder(q, d, row) ==
  /\ doc' = [doc EXCEPT ![d] = [row EXCEPT !.paid = @ \/ (isPaidStatus(row.status) /\ row.total # 0)]]
  /\ job' = [job EXCEPT ![q] = [StartPosting(<<"ORDER", row.num>>, <<"ORDER", row.num>>,
               postSalesToLedger("cash", row.tax, row.total)) EXCEPT !.at = "check", !.seen = row.status]]
  /\ Overlap(q, <<"ORDER", row.num>>)
  /\ UNCHANGED <<chart, book, counter, today, faults, duty, reports>>

Create(q, d) ==
  /\ May("order") /\ Idle(q) /\ Fresh(d)
  /\ \E n \in Numbers, a \in Amounts, status \in {"Open", "paid"} :
       WriteOrder(q, d, [NoDoc EXCEPT !.kind = "order", !.status = status, !.tax = a[1], !.total = a[2], !.num = n])

Update(q, d) ==
  /\ May("order") /\ Idle(q) /\ doc[d].kind = "order" /\ doc[d].status # "deleted"
  /\ \E status \in {"Open", "paid"}, a \in Amounts :
       WriteOrder(q, d, [doc[d] EXCEPT !.status = status, !.tax = a[1], !.total = a[2]])

Delete(d) ==
  /\ May("order") /\ doc[d].kind = "order" /\ doc[d].status # "deleted"
  /\ doc' = [doc EXCEPT ![d].status = "deleted"]
  /\ UNCHANGED <<ledgerVars, duty, reports>>

alreadyPosted(ref) == \E i \in 1..Len(book) : book[i].ref = ref

(* An unpaid or empty order and one whose number the ledger knows are not booked; an error of that
   look counts as known. *)
postLegacyPOSOrder(q) ==
  /\ job[q].at = "check"
  /\ \/ /\ IF isPaidStatus(job[q].seen) /\ job[q].todo # <<>> /\ ~alreadyPosted(job[q].ref)
           THEN job' = [job EXCEPT ![q].at = "chart"] ELSE Done(q)
        /\ UNCHANGED <<troubled, faults>>
     \/ Fault(q) /\ Done(q)
  /\ UNCHANGED <<chart, book, counter, today, docVars>>

-----------------------------------------------------------------------------
(* Night audit.                                                            *)

(* The day's figures are read, and in a later statement filed under what is then CURRENT_DATE. *)
CloseDay(q) ==
  \/ /\ May("close") /\ Idle(q) /\ Cardinality(reports) < MaxReports
     /\ job' = [job EXCEPT ![q] = [NoJob EXCEPT !.at = "close",
                                    !.todo = <<<<"revenue", DayRevenue(today)>>, <<"tax", DayTax(today)>>>>]]
     /\ UNCHANGED <<chart, book, counter, today, troubled, faults, docVars>>
  \/ /\ job[q].at = "close"
     /\ reports' = reports \cup {[day |-> today, revenue |-> job[q].todo[1][2], tax |-> job[q].todo[2][2]]}
     /\ Done(q)
     /\ UNCHANGED <<chart, book, counter, today, troubled, faults, duty, doc>>

Midnight ==
  /\ May("midnight") /\ today < MaxDay
  /\ today' = today + 1
  /\ UNCHANGED <<chart, book, counter, job, troubled, faults, docVars>>

Clerk(q) ==
  \/ (postJournal(q) \/ reverseJournalsByReference(q)) /\ UNCHANGED docVars
  \/ \E d \in Docs :
       \/ UpdateSalesInvoice(q, d) \/ PostSalesInvoice(q, d) \/ CancelSalesInvoice(q, d)
       \/ CreateCreditNoteFromInvoice(q, d) \/ PostCreditNote(q, d) \/ PostDebitNote(q, d) \/ PostGRN(q, d)
       \/ CreateVendorPayment(q, d) \/ RecordPayment(q, d) \/ Create(q, d) \/ Update(q, d)
  \/ postLegacyPOSOrder(q) \/ CloseDay(q)

BooksNext ==
  \/ \E q \in Clerks : Clerk(q)
  \/ \E d \in Docs : \/ CreateSalesInvoice(d) \/ CreateCreditNote(d) \/ CreateDebitNote(d) \/ CreateGRN(d)
                     \/ settleReservation(d) \/ Delete(d)
  \/ \E c \in Codes : CreateAccount(c) \/ UpdateAccount(c) \/ DeleteAccount(c)
  \/ CreateJournalEntry \/ Midnight

BooksSpec == BooksInit /\ [][BooksNext]_booksVars

-----------------------------------------------------------------------------
(* "Given a ledger line you must be able to name the document behind it": whatever postings run at the
   same time and whichever of them fail, no two entries carry the same voucher number of a series. *)
VouchersUnique ==
  \A i, j \in 1..Len(book) :
    i # j /\ book[i].vno # 0 /\ book[i].vtype = book[j].vtype => book[i].vno # book[j].vno

RefOf(d) == <<CASE doc[d].kind = "invoice" -> "INV" [] doc[d].kind = "settlement" -> "FOLIO" [] doc[d].kind = "credit" -> "CN"
                [] doc[d].kind = "debit" -> "DN" [] doc[d].kind = "grn" -> "GRN" [] doc[d].kind = "vendor" -> "VP"
                [] OTHER -> "PAY", d>>
(* What a document means for receivables, payables, stock, revenue and tax, from its row alone. *)
Meaning(d) ==
  LET net == doc[d].total - doc[d].tax
      tot == doc[d].total
  IN CASE doc[d].kind = "invoice" -> [r |-> tot, p |-> 0, s |-> 0, v |-> -net, t |-> -doc[d].tax]
       [] doc[d].kind = "credit" -> [r |-> -tot, p |-> 0, s |-> 0, v |-> net, t |-> doc[d].tax]
       [] doc[d].kind = "debit" -> [r |-> 0, p |-> tot, s |-> -tot, v |-> 0, t |-> 0]
       [] doc[d].kind = "grn" -> [r |-> 0, p |-> -tot, s |-> tot, v |-> 0, t |-> 0]
       [] doc[d].kind = "vendor" -> [r |-> 0, p |-> tot, s |-> 0, v |-> 0, t |-> 0]
       [] OTHER -> [r |-> 0, p |-> 0, s |-> 0, v |-> -net, t |-> -doc[d].tax]
Effect(lines) == [r |-> OfCode(lines, "1200"), p |-> OfCode(lines, "2000"), s |-> OfCode(lines, "1400"),
                  v |-> OfCode(lines, "4000"), t |-> OfCode(lines, "2100")]
NoEffect == [r |-> 0, p |-> 0, s |-> 0, v |-> 0, t |-> 0]

(* The ledger under a document's reference is what the document says: nothing for a draft, the whole
   for a posted one, nothing again for a cancelled invoice; and a sale of the legacy POS is there once
   an order of that number was paid, and once only, however often its row is patched.  It holds for
   every document and number that no two requests worked on at once and no statement failed for,
   whatever else went on beside it. *)
LedgerMatchesDocuments ==
  /\ \A d \in Docs :
       doc[d].kind \notin {"none", "order", "settlement"} /\ Key(d) \notin troubled /\ Quiet(Key(d)) =>
         Effect(Lines(RefOf(d)) \o Lines(<<"INV REV", d>>))
           = IF doc[d].status = "posted" THEN Meaning(d) ELSE NoEffect
  /\ \A n \in Numbers : <<"ORDER", n>> \notin troubled /\ Quiet(<<"ORDER", n>>) =>
       Cardinality({i \in 1..Len(book) : book[i].ref = <<"ORDER", n>>})
         = IF \E d \in Docs : doc[d].kind = "order" /\ doc[d].num = n /\ doc[d].paid THEN 1 ELSE 0

(* A posted invoice's totals never change again, and neither does a cancelled one's: an edit that read
   the draft before it was posted changes no total. *)
PostedHeaderFrozen ==
  [][\A d \in Docs : doc[d].kind = "invoice" /\ doc[d].status \in {"posted", "cancelled"} =>
       doc'[d].total = doc[d].total /\ doc'[d].tax = doc[d].tax /\ doc'[d].status # "draft"]_booksVars

(* The revenue of a day that is over changes only by a posting whose entry was dated before midnight,
   by a manual journal dated back, or by a re-typed account: never by a new sale or by the reversal of
   an old one. *)
PastRevenueStands ==
  [][LET manual == Len(book') > Len(book) /\ book'[Len(book')].ref = NoRef IN
     /\ Len(book') > Len(book) /\ book'[Len(book')].day < today => manual
     /\ \A day \in 1..MaxDay : day < today /\ (DayRevenue(day))' # DayRevenue(day) =>
          \/ manual \/ chart' # chart
          \/ \E q \in Clerks : job[q].at = "lines" /\ book[job[q].entry].day = day]_booksVars

(* "Cancelling it must storno that entry so AR and revenue don't stay overstated": a cancelled
   invoice, also one a reservation's settlement raised, has no effect left in the ledger. *)
CancelledInvoiceReversed ==
  \A d \in Docs : doc[d].kind \in {"invoice", "settlement"} /\ doc[d].status = "cancelled" /\ Quiet(Key(d)) =>
    Effect(Lines(RefOf(d)) \o Lines(<<"INV REV", d>>)) = NoEffect

=============================================================================
