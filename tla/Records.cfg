CONSTANTS
  c1 = c1
  c2 = c2
  boss = boss
  clerk = clerk
  crm = crm
  Clients = {c1, c2}
  Boss = boss
  Clerk = clerk
  Plugins = {crm}
  Automations = {}
  Values <- MCValues
  Core <- MCCore
  Floor = {"admin"}
  Tenant = "tenant"
  Stack <- MCStack
  Documents <- MCDocuments
  BreakerThreshold = 1
  Modules = {"kernel", "ledger", "contacts", "invoicing"}
  Kernel = {"kernel"}
  Requires <- MCRequires
  Profile = {"contacts"}
  Home = "contacts"
  Ids = {1}
  Bodies <- MCBodies
  Replies <- MCReplies
  Owner = "owner"
  I18n = "i18n"
  Scenarios <- MCScenarios
  None = None
SPECIFICATION Spec
SYMMETRY Symmetry
INVARIANTS RowsWellFormed AuditTellsTheRow OwnRecordsOnly RulesHold EnabledModulesWhole
CHECK_DEADLOCK FALSE
