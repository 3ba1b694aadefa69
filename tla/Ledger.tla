------------------------------- MODULE Ledger -------------------------------
(***************************************************************************)
(* The general ledger (internal/handler/accounting_autopost.go): chart of  *)
(* accounts, numbered vouchers, journal entries and the reports read from  *)
(* them.  postJournal and reverseJournalsByReference are a run of separate *)
(* autocommitted statements, so everyone sees a half-written entry; the    *)
(* callers that pass a transaction write the entry in one step.            *)
(*                                                                         *)
(* A line is <<code, amount>>, a debit positive and a credit negative.     *)
(***************************************************************************)
EXTENDS Integers, Sequences, FiniteSets, FiniteSetsExt

CONSTANTS
  Clerks,       \* HTTP requests being served at the same time
  MaxEntries,   \* bound: journal entries
  MaxDay,       \* bound: business days
  MaxFaults     \* bound: statements that fail and restarts

VARIABLES
  chart,     \* accounting_accounts: the type of every code
  book,      \* accounting_journal_entries with their lines, in order of insertion
  counter,   \* accounting_voucher_counters.next_no
  today,     \* CURRENT_DATE
  job,       \* what every request has read and where it is
  troubled,  \* history: keys two requests worked on at once, or with a failed statement
  faults     \* how many statements failed

ledgerVars == <<chart, book, counter, today, job, troubled, faults>>

(* standardChart, with the type that decides an account's natural side. *)
standardChart ==
  [c \in {"1000", "1010", "1200", "1400", "2000", "2100", "3000", "4000", "4100", "5000", "5100"} |->
     CASE c \in {"1000", "1010", "1200", "1400"} -> "asset"
       [] c \in {"2000", "2100"} -> "liability"
       [] c = "3000" -> "equity"
       [] c \in {"4000", "4100"} -> "revenue"
       [] OTHER -> "expense"]
Codes == DOMAIN standardChart
NoAccount == "none"
Exists(c) == chart[c] # NoAccount

NoRef == <<"none", 0>>
NoJob == [at |-> "idle", key |-> NoRef, ref |-> NoRef, todo |-> <<>>, entry |-> 0, vno |-> 0,
          lost |-> {}, seen |-> "none", edit |-> <<>>]

(* A new hotel has no account; an earlier posting has completed the chart of any other. *)
LedgerInit(isNew) ==
  /\ chart = [c \in Codes |-> IF isNew THEN NoAccount ELSE standardChart[c]]
  /\ book = <<>>
  /\ counter = [t \in {"SAL", "PUR", "PAY", "GEN"} |-> 1]
  /\ today = 1
  /\ job = [q \in Clerks |-> NoJob]
  /\ troubled = {} /\ faults = 0

Idle(q) == job[q].at = "idle"
Done(q) == job' = [job EXCEPT ![q] = NoJob]

(* A request that starts on a key someone else is working on troubles it. *)
Overlap(q, key) ==
  troubled' = IF \E p \in Clerks \ {q} : ~Idle(p) /\ job[p].key = key THEN troubled \cup {key} ELSE troubled
Fault(q) == /\ faults < MaxFaults /\ faults' = faults + 1
            /\ troubled' = troubled \cup {job[q].key}

-----------------------------------------------------------------------------
(* The lines of each posting; cashAccount chooses cash or bank.            *)

cashAccount(method) == IF method = "cash" THEN "1000" ELSE "1010"
postSalesToLedger(method, tax, total) == <<<<cashAccount(method), total>>, <<"4100", tax - total>>, <<"2100", -tax>>>>
postRoomRevenue(method, tax, total) == <<<<cashAccount(method), total>>, <<"4000", tax - total>>, <<"2100", -tax>>>>
postARInvoice(tax, total) == <<<<"1200", total>>, <<"4000", tax - total>>, <<"2100", -tax>>>>
postCreditNoteReversal(tax, total) == <<<<"4000", total - tax>>, <<"2100", tax>>, <<"1200", -total>>>>
postGoodsReceipt(amount) == <<<<"1400", amount>>, <<"2000", -amount>>>>
postAPSettlement(method, amount) == <<<<"2000", amount>>, <<cashAccount(method), -amount>>>>
postVendorDebitNote(total) == <<<<"2000", total>>, <<"1400", -total>>>>

voucherTypeFor(ref) ==
  CASE ref[1] \in {"INV", "INV REV", "ORDER", "FOLIO"} -> "SAL"
    [] ref[1] \in {"GRN", "DN"} -> "PUR"
    [] ref[1] \in {"VP", "PAY"} -> "PAY"
    [] OTHER -> "GEN"

(* A request whose document row is written starts to post it. *)
StartPosting(key, ref, lines) ==
  [NoJob EXCEPT !.at = "chart", !.key = key, !.ref = ref,
                !.todo = SelectSeq(lines, LAMBDA l : l[2] # 0)]

(* The missing accounts are inserted, ON CONFLICT DO NOTHING, and the map of codes to ids is read. *)
ensureChartOfAccounts(q) ==
  /\ job[q].at = "chart"
  /\ chart' = [c \in Codes |-> IF Exists(c) THEN chart[c] ELSE standardChart[c]]
  /\ job' = [job EXCEPT ![q].at = "number"]
  /\ UNCHANGED <<book, counter, today, troubled, faults>>

(* One atomic UPSERT on the counter row. *)
nextVoucherNo(q, t) ==
  /\ counter' = [counter EXCEPT ![t] = @ + 1]
  /\ job' = [job EXCEPT ![q].at = "entry", ![q].vno = counter[t]]

(* "Post unnumbered and log": a failed numbering goes on without a number. *)
NumberVoucher(q) ==
  /\ job[q].at = "number"
  /\ \/ nextVoucherNo(q, voucherTypeFor(job[q].ref)) /\ UNCHANGED <<troubled, faults>>
     \/ /\ faults < MaxFaults /\ faults' = faults + 1
        /\ job' = [job EXCEPT ![q].at = "entry", ![q].vno = 0]
        /\ UNCHANGED <<counter, troubled>>
  /\ UNCHANGED <<chart, book, today>>

(* The date an entry gets: CURRENT_DATE of its INSERT. *)
DatedLikeOriginal(ref) ==
  IF ref[1] = "INV REV" /\ \E i \in 1..Len(book) : book[i].ref = <<"INV", ref[2]>>
  THEN book[CHOOSE i \in 1..Len(book) : book[i].ref = <<"INV", ref[2]>>].day ELSE today
EntryDate(ref) == today

InsertEntry(q) ==
  /\ job[q].at = "entry" /\ Len(book) < MaxEntries
  /\ book' = Append(book, [ref |-> job[q].ref, day |-> EntryDate(job[q].ref), vno |-> job[q].vno,
                           vtype |-> voucherTypeFor(job[q].ref), lines |-> <<>>])
  /\ job' = [job EXCEPT ![q].at = "lines", ![q].entry = Len(book) + 1]
  /\ UNCHANGED <<chart, counter, today, troubled, faults>>

(* The next line.  The account of a line may have been deleted since the map was read: the foreign
   key then refuses it and the rest is not written. *)
InsertLine(q) ==
  /\ job[q].at = "lines"
  /\ IF job[q].todo = <<>> THEN Done(q) /\ UNCHANGED <<book, troubled>>
     ELSE IF Head(job[q].todo)[1] \in job[q].lost
     THEN Done(q) /\ troubled' = troubled \cup {job[q].key} /\ UNCHANGED book
     ELSE /\ book' = [book EXCEPT ![job[q].entry].lines = Append(@, Head(job[q].todo))]
          /\ job' = [job EXCEPT ![q].todo = Tail(@)]
          /\ UNCHANGED troubled
  /\ UNCHANGED <<chart, counter, today, faults>>

(* A statement fails or the process restarts; every caller discards the error and the document stands. *)
PostingFails(q) ==
  /\ job[q].at \in {"chart", "entry", "lines", "reverse"}
  /\ Fault(q)
  /\ Done(q)
  /\ UNCHANGED <<chart, book, counter, today>>

postJournal(q) == ensureChartOfAccounts(q) \/ NumberVoucher(q) \/ InsertEntry(q) \/ InsertLine(q) \/ PostingFails(q)

(* The lines of the entries that satisfy which, in order of insertion. *)
LinesOf(which(_)) ==
  LET entries == {i \in 1..Len(book) : which(book[i])}
  IN MapThenFoldSet(LAMBDA first, rest : first \o rest, <<>>, LAMBDA i : book[i].lines, Min, entries)

Lines(ref) == LinesOf(LAMBDA e : e.ref = ref)

(* The lines that carry the reference by now are read and written once more with debit and credit
   swapped; nothing is written when there are none. *)
reverseJournalsByReference(q) ==
  /\ job[q].at = "reverse"
  /\ LET src == Lines(job[q].ref) IN
     IF src = <<>> THEN Done(q)
     ELSE job' = [job EXCEPT ![q].at = "number", ![q].ref = <<"INV REV", @[2]>>,
                             ![q].todo = [i \in 1..Len(src) |-> <<src[i][1], -src[i][2]>>]]
  /\ UNCHANGED <<chart, book, counter, today, troubled, faults>>

-----------------------------------------------------------------------------
(* Reports.                                                                *)

Total(lines) == MapThenSumSet(LAMBDA n : lines[n][2], DOMAIN lines)
OfCode(lines, c) == Total(SelectSeq(lines, LAMBDA l : l[1] = c))
(* CloseDay and the Actual side of the revenue audit: what the day credited to revenue accounts. *)
DayLines(day) == LinesOf(LAMBDA e : e.day = day)
DayRevenue(day) == -Total(SelectSeq(DayLines(day), LAMBDA l : chart[l[1]] = "revenue"))
DayTax(day) == -OfCode(DayLines(day), "2100")

=============================================================================
