CONSTANTS
  c1 = c1
  c2 = c2
  boss = boss
  clerk = clerk
  crm = crm
  rule = rule
  hooks = hooks
  h1 = h1
  h2 = h2
  Clients = {c1, c2}
  Boss = boss
  Clerk = clerk
  Plugins = {crm}
  Automations = {rule}
  Destinations = {hooks}
  Hosts = {h1, h2}
  Names = {1, 2}
  Keys = {1, 2, 3}
  FeedBatch = 2
  Definitions <- MCDefinitions
  Manifests <- MCManifests
  Scenarios <- MCScenarios
  None = None
SPECIFICATION Spec
SYMMETRY Symmetry
INVARIANTS NoBorrowedAuthority CarefulSecretsOpen InstalledIsWhole EveryChangeRuns
PROPERTY RevocationBites
CHECK_DEADLOCK FALSE
