\* The books alone, with nothing failing: what a cancelled invoice leaves behind.
SPECIFICATION Spec
CONSTANTS
  a1 = a1  a2 = a2  m1 = m1  i1 = i1
  Clerks = {a1, a2}
  Docs = {1, 2}
  Numbers = {1}
  MaxReports = 1
  MaxEntries = 3
  MaxDay = 2
  MaxFaults = 0
  Duties <- BooksDuties
  LineSets <- InvoiceLines
  Amounts <- TaxAndTotal
  ManualLines <- Journals
  EditedCodes = {"4000"}
  Cashiers = {}
  FolioIds = {}
  Meals = {}
  Invoices = {}
  MaxFolioUnits = 0
SYMMETRY ClerkSymmetry
INVARIANT CancelledInvoiceReversed
CHECK_DEADLOCK FALSE
