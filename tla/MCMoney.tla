------------------------------ MODULE MCMoney -------------------------------
(* The books and the folios for TLC.  A behaviour exercises one duty of the  *)
(* accounting module, or the folios of a stay while the books stand still.   *)
EXTENDS Books, Folios, TLC

CONSTANTS a1, a2, m1, i1

VARIABLE part
vars == <<part, booksVars, folioVars>>

Sales == [ops |-> {"invoice", "edit", "cancel", "midnight"}, docs |-> 1]
Credit == [ops |-> {"invoice", "edit", "credit"}, docs |-> 2]
Purchases == [ops |-> {"grn", "debit", "vendor"}, docs |-> 2]
Till == [ops |-> {"order"}, docs |-> 2]
Close == [ops |-> {"settle", "cancel", "close", "midnight", "manual"}, docs |-> 1]
Accounts == [ops |-> {"account", "invoice", "folio"}, docs |-> 2]
BooksDuties == {Sales, Credit, Purchases, Till, Close, Accounts}

Line(qty, price, disc, rate) == [acct |-> "4000", qty |-> qty, price |-> price, disc |-> disc, rate |-> rate]
InvoiceLines == {<<Line(0, 2, 0, 50)>>, <<Line(2, 2, 2, 50), Line(1, 1, 0, 0)>>}
TaxAndTotal == {<<1, 3>>, <<0, 0>>}
Journals == {<<<<"4000", 1>>, <<"2100", -1>>>>, <<<<"4000", 1>>>>}

(* The same two requests work the books and the cash desk.                   *)
ClerkSymmetry == Permutations({a1, a2})

Init ==
    /\ BooksInit /\ FoliosInit
    /\ part \in {"books", "folios"}
    /\ part = "folios" => duty = Till

Next ==
    /\ UNCHANGED part
    /\ \/ part = "books" /\ BooksNext /\ UNCHANGED folioVars
       \/ part = "folios" /\ FoliosNext /\ UNCHANGED booksVars

Spec == Init /\ [][Next]_vars
=============================================================================
