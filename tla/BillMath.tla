------------------------------ MODULE BillMath ------------------------------
(***************************************************************************)
(* The money arithmetic of a restaurant bill.  Amounts are whole paise, so  *)
(* round2, which rounds half away from zero to two decimals, is the         *)
(* rounding of a quotient to the nearest integer.                           *)
(***************************************************************************)
EXTENDS Integers

(* round2(x / d) for a positive d. *)
round2(x, d) == IF x >= 0 THEN (2 * x + d) \div (2 * d) ELSE -((d - 2 * x) \div (2 * d))

Percent(x, rate) == round2(x * rate, 100)

(* A percentage, a flat amount, or nothing, taken on base. *)
Part(type, value, base) ==
    CASE type = "percent" -> Percent(base, value)
      [] type = "flat" -> value
      [] OTHER -> 0

UncappedDiscount(b) == Part(b.discount_type, b.discount_value, b.subtotal)

Discount(b) ==
    LET asked == UncappedDiscount(b)
    IN  IF asked > b.subtotal THEN b.subtotal ELSE asked

(* Every derived field from the subtotal and the discount, tax and tip inputs. *)
computeTotals(b) ==
    LET discount == Discount(b)
        taxable == b.subtotal - discount
        tax == Percent(taxable, b.tax_rate)
        tip == Part(b.tip_type, b.tip_value, taxable)
    IN  [b EXCEPT !.discount = discount, !.tax = tax, !.tip = tip,
                  !.total = taxable + tax + tip + b.rounding]

NoCharge == [subtotal |-> 0, discount_type |-> "none", discount_value |-> 0,
             tax_rate |-> 0, tip_type |-> "none", tip_value |-> 0,
             rounding |-> 0, discount |-> 0, tax |-> 0, tip |-> 0, total |-> 0]

(* The bill with the discount, tip, rounding and rate of an edit. *)
Adjusted(c, a) ==
    computeTotals([c EXCEPT !.discount_type = a.discount_type, !.discount_value = a.discount_value,
                            !.tip_type = a.tip_type, !.tip_value = a.tip_value,
                            !.rounding = a.rounding, !.tax_rate = a.tax_rate])
=============================================================================
