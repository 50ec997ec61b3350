SPECIFICATION Spec
CONSTANTS
  d1 = d1
  m1 = m1
  a1 = a1
  Domains = {d1}
  Mailboxes = {m1}
  Aliases = {a1}
  DomainOf <- MCDomainOf
  BoxOf <- MCBoxOf
  Requests = {r1}
  Edits = {e1}
  None = None
  MaxTasks = 4
  MaxEdits = 1
  MaxFaults = 1
INVARIANTS MailTypeOK InStep DeletedIsGone ActiveIsBacked
PROPERTY TasksSettle
CHECK_DEADLOCK FALSE
