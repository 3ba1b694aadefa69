SPECIFICATION Spec
CONSTANTS
  a1 = a1  a2 = a2  m1 = m1  i1 = i1
  \* Books: two requests, two documents, one failure, every duty
  Clerks = {a1, a2}
  Docs = {1, 2}
  Numbers = {1}
  MaxReports = 1
  MaxEntries = 3
  MaxDay = 2
  MaxFaults = 1
  Duties <- BooksDuties
  LineSets <- InvoiceLines
  Amounts <- TaxAndTotal
  ManualLines <- Journals
  EditedCodes = {"4000"}
  \* Folios: one stay, two folios, a meal and an invoice
  Cashiers = {a1, a2}
  FolioIds = {1, 2}
  Meals = {m1}
  Invoices = {i1}
  MaxFolioUnits = 1
SYMMETRY ClerkSymmetry
INVARIANTS
   DepartedSettled
PROPERTY PastRevenueStands
CHECK_DEADLOCK FALSE
