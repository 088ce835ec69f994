CONSTANTS
  t1 = t1
  t2 = t2
  contact = contact
  invoice = invoice
  r1 = r1
  k1 = k1
  k2 = k2
  Tenants = {t1, t2}
  Keys = {contact, invoice}
  Readers = {r1}
  TenantOf <- MCTenantOf
  ScopeOf <- MCScopeOf
  Writers = {w1, w2}
  LockKeys = {k1, k2}
  AdvisoryKey <- MCAdvisoryKey
  Dialect = "postgres"
  Limit = 1
  MaxId = 3
  NoWriter = NoWriter
SPECIFICATION Spec
INVARIANTS NothingStranded ExactlyOnce
PROPERTIES ImplementsLog EventuallyDelivered
