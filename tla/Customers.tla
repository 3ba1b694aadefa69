----------------------------- MODULE Customers ------------------------------
(* The customer master (accounting_customers) of one hotel: the resolver     *)
(* that tills, bookings and channel deliveries share, and the accountant's   *)
(* own screens.  A customer's id is its place in the table.                  *)
EXTENDS Integers, Sequences, FiniteSets, FiniteSetsExt

CONSTANTS
  Tills,            \* requests in flight
  Subscribers,      \* subscriber numbers
  NoPhone,          \* only an e-mail address was given
  MaxCustomers,     \* bound: rows
  MaxAccountant     \* bound: what the accountant's screens write

ASSUME CustomersAssumption == MaxCustomers \in Nat /\ NoPhone \notin Subscribers

(* The ways a number is typed: with spaces or dashes, with the country code, *)
(* with the trunk prefix, or as its ten digits.                              *)
Forms == {"digits", "spaced", "country", "trunk"}
Phones == [number : Subscribers, form : Forms] \cup {[number |-> NoPhone, form |-> "digits"]}

VARIABLES
  customers,    \* rows: code (0: not of the form CUST-n), phone, and who wrote it
  claimed,      \* per request: the row its open transaction inserted, or none
  till,         \* requests between their statements
  typed         \* rows the accountant wrote

customerVars == <<customers, claimed, till, typed>>

NoClaim == [code |-> -1, phone |-> [number |-> NoPhone, form |-> "digits"], by |-> "none"]
NoTill == [at |-> "idle", tx |-> FALSE, phone |-> NoClaim.phone, code |-> 0]
Ids == 1..Len(customers)

CustomersInit ==
    /\ customers = <<>> /\ typed = 0
    /\ claimed = [t \in Tills |-> NoClaim]
    /\ till = [t \in Tills |-> NoTill]

-----------------------------------------------------------------------------
(* Formatting and an Indian country code are dropped, nothing else.          *)
AsTyped(raw) == raw
normalisePhone(raw) ==
    [raw EXCEPT !.form = IF raw.form \in {"spaced", "country"} THEN "digits" ELSE raw.form]

(* The resolver on the pool (a table is opened) or inside a transaction (a   *)
(* booking settles, a channel delivery posts).  A walk-in who leaves neither *)
(* phone nor e-mail never gets here.                                         *)
Resolve(t, raw, tx) ==
    /\ till[t].at = "idle"
    /\ till' = [till EXCEPT ![t] =
         [at |-> IF raw.number = NoPhone THEN "code" ELSE "find", tx |-> tx,
          phone |-> normalisePhone(raw), code |-> 0]]
    /\ UNCHANGED <<customers, claimed, typed>>

Holders(phone) == {i \in Ids : customers[i].phone = phone}

Resolved(t) == till' = [till EXCEPT ![t] = NoTill]

(* A known phone is that customer; its blanks are filled in.                 *)
FindByPhone(t) ==
    /\ till[t].at = "find"
    /\ IF Holders(till[t].phone) # {} THEN Resolved(t) ELSE till' = [till EXCEPT ![t].at = "code"]
    /\ UNCHANGED <<customers, claimed, typed>>

(* MAX over the rows that other transactions have committed.                 *)
nextCustomerCode(t) ==
    /\ till[t].at = "code"
    /\ till' = [till EXCEPT ![t].at = "insert",
                            ![t].code = Max({0} \cup {customers[i].code : i \in Ids}) + 1]
    /\ UNCHANGED <<customers, claimed, typed>>

SamePhone(a, b) == a.phone = b.phone /\ a.phone.number # NoPhone
SameCode(a, b) == a.code = b.code /\ a.code # 0

(* A unique index makes an insert wait for the open transaction of the row   *)
(* it collides with.                                                         *)
MayInsert(t, row) ==
    \A u \in Tills \ {t} : ~SamePhone(claimed[u], row) /\ ~SameCode(claimed[u], row)

(* INSERT ... ON CONFLICT (hotel_id, phone): a customer who appeared since   *)
(* the lookup is the one; a code given out since the lookup is an error,     *)
(* which ends the transaction or leaves the table's session unlinked.        *)
InsertCustomer(t) ==
    LET row == [code |-> till[t].code, phone |-> till[t].phone, by |-> "desk"]
        known == \E i \in Ids : SamePhone(customers[i], row)
        taken == ~known /\ \E i \in Ids : SameCode(customers[i], row)
    IN
    /\ till[t].at = "insert" /\ MayInsert(t, row)
    /\ \/ known /\ Resolved(t) /\ UNCHANGED <<customers, claimed>>
       \/ taken /\ till' = [till EXCEPT ![t].at = "refused"] /\ UNCHANGED <<customers, claimed>>
       \/ /\ ~known /\ ~taken /\ till[t].tx
          /\ claimed' = [claimed EXCEPT ![t] = row]
          /\ till' = [till EXCEPT ![t].at = "commit"]
          /\ UNCHANGED customers
       \/ /\ ~known /\ ~taken /\ ~till[t].tx /\ Len(customers) < MaxCustomers
          /\ customers' = Append(customers, row)
          /\ Resolved(t) /\ UNCHANGED claimed
    /\ UNCHANGED typed

(* The caller's transaction commits, or a later statement of it fails.       *)
EndCustomerTx(t) ==
    /\ till[t].at = "commit" /\ Len(customers) < MaxCustomers
    /\ customers' \in {customers, Append(customers, claimed[t])}
    /\ claimed' = [claimed EXCEPT ![t] = NoClaim]
    /\ Resolved(t) /\ UNCHANGED typed

TurnAway(t) == till[t].at = "refused" /\ Resolved(t) /\ UNCHANGED <<customers, claimed, typed>>

ensureAccountingCustomer(t) ==
    \/ \E raw \in Phones, tx \in BOOLEAN : Resolve(t, raw, tx)
    \/ FindByPhone(t) \/ nextCustomerCode(t) \/ InsertCustomer(t) \/ EndCustomerTx(t) \/ TurnAway(t)

(* The accountant chooses the code, and the phone is stored as typed.  A     *)
(* collision is answered as an error.                                        *)
Unheld(row, i) ==
    /\ \A j \in Ids \ {i} : ~SamePhone(customers[j], row) /\ ~SameCode(customers[j], row)
    /\ \A u \in Tills : ~SamePhone(claimed[u], row) /\ ~SameCode(claimed[u], row)

CreateCustomer(code, raw) ==
    LET row == [code |-> code, phone |-> raw, by |-> "books"] IN
    /\ typed < MaxAccountant /\ Len(customers) < MaxCustomers /\ Unheld(row, 0)
    /\ customers' = Append(customers, row) /\ typed' = typed + 1
    /\ UNCHANGED <<claimed, till>>

(* The code cannot be edited; an empty phone leaves the old one.             *)
UpdateCustomer(i, raw) ==
    LET row == [customers[i] EXCEPT !.phone = raw, !.by = "books"] IN
    /\ typed < MaxAccountant /\ raw.number # NoPhone /\ Unheld(row, i)
    /\ customers' = [customers EXCEPT ![i] = row] /\ typed' = typed + 1
    /\ UNCHANGED <<claimed, till>>

CustomersNext ==
    \/ \E t \in Tills : ensureAccountingCustomer(t)
    \/ \E raw \in Phones, code \in 0..MaxCustomers : CreateCustomer(code, raw)
    \/ \E raw \in Phones, i \in Ids : UpdateCustomer(i, raw)

CustomersSpec == CustomersInit /\ [][CustomersNext]_customerVars

-----------------------------------------------------------------------------
(* One person is one customer across tills, bookings and channels: two rows  *)
(* for the same subscriber exist only where the accountant typed one of them *)
(* or the number came with a trunk prefix, which normalisePhone keeps.       *)
OneCustomerPerPerson ==
    \A i, j \in Ids : i # j /\ customers[i].phone.number = customers[j].phone.number
        /\ customers[i].by = "desk" /\ customers[j].by = "desk"
        /\ customers[i].phone.number # NoPhone
        => "trunk" \in {customers[i].phone.form, customers[j].phone.form}
=============================================================================
