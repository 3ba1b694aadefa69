----------------------------- MODULE BillSplit -----------------------------
(***************************************************************************)
(* Split billing and the tax invoice of a bill (internal/handler/           *)
(* pos_split.go and the amounts of BillInvoice in pos_invoice.go).  The     *)
(* cashier splits a bill between customers at any time; shares are stored   *)
(* as amounts of the total of that moment and rescaled to the present total *)
(* whenever they are read, so a split and the edits of its bill can come in *)
(* any order.  Each handler is one transaction that locks the bill.         *)
(***************************************************************************)
EXTENDS BillMath, Sequences, Functions

CONSTANTS
    Menus,         \* line totals (sequences of gross amounts) a session may order
    TaxRate,       \* default_tax_rate of the outlet, in per cent
    Adjustments,   \* what UpdateBill is asked to set
    MaxCustomers,  \* bounds the customers of a split
    AskedAmounts   \* amounts the cashier types in

ASSUME SplitAssumption == MaxCustomers \in Nat /\ AskedAmounts \subseteq Nat \ {0}

VARIABLES
    lines,    \* gross amounts of the bill's items
    charge,   \* bills: the amounts computeTotals derives and their inputs
    open,     \* bills.status = 'open'
    shares    \* bill_splits.share_amount by split_no

splitVars == <<lines, charge, open, shares>>

Total(f) == FoldFunction(+, 0, f)

-----------------------------------------------------------------------------
(* The last customer of an equal split absorbs the remainder. *)
EqualShares(total, n) ==
    LET each == round2(total, n)
    IN  [i \in 1 .. n |-> IF i < n THEN each ELSE total - each * (n - 1)]

EveryoneRounded(s, total) ==
    [i \in 1 .. Len(s) |-> IF Total(s) > 0 THEN round2(total * s[i], Total(s)) ELSE 0]

(* The amounts of the stored shares s for a bill of the given total. *)
loadBillSplits(s, total) ==
    LET n == Len(s)
        part == [i \in 1 .. n - 1 |-> IF Total(s) > 0 THEN round2(total * s[i], Total(s)) ELSE 0]
    IN  [i \in 1 .. n |-> IF i < n THEN part[i] ELSE total - Total(part)]

Amounts == loadBillSplits(shares, charge.total)

(***************************************************************************)
(* The invoice: the discount is spread over the lines in proportion, tax is *)
(* half CGST and half SGST, and a split invoice scales every line by        *)
(* amount / whole.                                                          *)
(***************************************************************************)
Line(gross, disc) ==
    LET net == gross - disc
        cgst == round2(net * charge.tax_rate, 200)
    IN  [gross |-> gross, disc |-> disc, net |-> net, cgst |-> cgst, total |-> net + 2 * cgst]

LineDiscount(i) == IF Total(lines) > 0 THEN round2(charge.discount * lines[i], Total(lines)) ELSE 0

InvoiceTax(amount, whole) ==
    LET cgst == round2(charge.tax * amount, 2 * whole)
    IN  [cgst |-> cgst, sgst |-> round2(charge.tax * amount - cgst * whole, whole)]

Scaled(x, amount, whole) == round2(x * amount, whole)

BillInvoice(amount, whole) ==
    LET rows == [i \in DOMAIN lines |-> Line(Scaled(lines[i], amount, whole),
                                            Scaled(LineDiscount(i), amount, whole))]
        tax == InvoiceTax(amount, whole)
    IN  [items |-> Total([i \in DOMAIN rows |-> rows[i].total]),
         tip |-> Scaled(charge.tip, amount, whole),
         net |-> Scaled(charge.subtotal - charge.discount, amount, whole),
         cgst |-> tax.cgst, sgst |-> tax.sgst, grand |-> amount]

(* frac is 1 for the whole bill and for a bill without a positive total. *)
WholeInvoice == [BillInvoice(1, 1) EXCEPT !.grand = charge.total]
SplitInvoice(i) ==
    IF charge.total > 0 THEN BillInvoice(Amounts[i], charge.total)
    ELSE [BillInvoice(1, 1) EXCEPT !.grand = Amounts[i]]

-----------------------------------------------------------------------------
(* GenerateBill has just raised the bill. *)
SplitInit ==
    /\ lines \in Menus
    /\ charge = computeTotals([NoCharge EXCEPT !.subtotal = Total(lines), !.tax_rate = TaxRate])
    /\ open = TRUE
    /\ shares = <<>>

UpdateBill(a) ==
    /\ open
    /\ charge' = Adjusted(charge, a)
    /\ UNCHANGED <<lines, open, shares>>

FinalizeBill ==
    /\ open
    /\ open' = FALSE
    /\ UNCHANGED <<lines, charge, shares>>

(* SetBillSplits with enabled = false. *)
ClearSplits ==
    /\ shares' = <<>>
    /\ UNCHANGED <<lines, charge, open>>

SplitEqually(n) ==
    /\ n >= 2
    /\ shares' = EqualShares(charge.total, n)
    /\ UNCHANGED <<lines, charge, open>>

(* An amount per customer, adding up to the total give or take one paisa. *)
SplitByAmount(asked) ==
    /\ Len(asked) >= 2
    /\ \A i \in DOMAIN asked : asked[i] > 0
    /\ Total(asked) - charge.total \in -1 .. 1
    /\ shares' = asked
    /\ UNCHANGED <<lines, charge, open>>

(* Amounts typed in, the last one being what is left give or take a paisa. *)
Asked ==
    LET first == UNION {[1 .. n - 1 -> AskedAmounts] : n \in 2 .. MaxCustomers}
    IN  {Append(f, charge.total - Total(f) + slack) : f \in first, slack \in -1 .. 1}

SplitNext ==
    \/ \E a \in Adjustments : UpdateBill(a)
    \/ FinalizeBill
    \/ ClearSplits
    \/ \E n \in 1 .. MaxCustomers : SplitEqually(n)
    \/ \E asked \in Asked : SplitByAmount(asked)

SplitSpec == SplitInit /\ [][SplitNext]_splitVars

-----------------------------------------------------------------------------
Abs(x) == IF x < 0 THEN -x ELSE x

(* "a discount or tip applied after the split was saved still yields        *)
(* per-customer invoices that add up": an edit changes everyone's amount in *)
(* proportion, up to half a paisa for each customer; the last one may carry *)
(* all of the rounding.                                                     *)
SplitProportional ==
    Total(shares) > 0 =>
        \A i \in DOMAIN shares :
            2 * Abs(Amounts[i] * Total(shares) - charge.total * shares[i])
                <= Len(shares) * Total(shares)

(* The tax printed on the split invoices is the tax of the bill, up to one  *)
(* and a half paise for each customer, and the tip likewise.                *)
SplitTaxAddsUp ==
    shares # <<>> /\ charge.total > 0 =>
        LET inv == [i \in DOMAIN shares |-> SplitInvoice(i)]
            tax == Total([i \in DOMAIN inv |-> inv[i].cgst + inv[i].sgst])
            tip == Total([i \in DOMAIN inv |-> inv[i].tip])
        IN  /\ 2 * Abs(tax - charge.tax) <= 3 * Len(shares)
            /\ 2 * Abs(tip - charge.tip) <= Len(shares)

(* "so the printed grand total matches exactly what was charged": the rows  *)
(* of an invoice lead to its grand total, up to the rounding of each row.   *)
InvoiceRowsLead ==
    LET w == WholeInvoice
    IN  /\ w.net + w.cgst + w.sgst + w.tip + charge.rounding = w.grand
        /\ Abs(w.items + w.tip + charge.rounding - w.grand) <= 2 * Len(lines) + 1

(* "the amounts always sum to exactly the total": whenever the shares are   *)
(* read, whatever discounts and tips came after they were stored, and the   *)
(* invoices printed from them agree with the bill.                          *)
SplitAddsUp ==
    /\ (shares # <<>> => Total(Amounts) = charge.total)
    /\ SplitProportional /\ SplitTaxAddsUp /\ InvoiceRowsLead
=============================================================================
