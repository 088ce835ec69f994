CONSTANTS
  Dialects = {"sqlite", "postgres"}
  c1 = c1
  c2 = c2
  i1 = i1
  i2 = i2
  r1 = r1
  r2 = r2
  Clients = {c1, c2}
  Invoices = {i1, i2}
  Receipts = {r1, r2}
  Accounts <- MCAccounts
  AccountType <- MCAccountType
  Contents <- MCContents
  Rates <- MCRates
  IssueDay <- MCIssueDay
  Today = 100
  TaxAccount = "tax"
  BankAccount = "bank"
  Periods = {1, 2}
  Scenarios <- MCScenarios
  None = None
SYMMETRY Symmetry
SPECIFICATION Spec
INVARIANTS TypeOK ProjectionExact NumbersGapless NotOverApplied DocumentsAgree ReportsAgree
PROPERTY PeriodSealed
