SPECIFICATION FairSpec
CONSTANTS
  TaskHashes = {t1, t2}
  OutHashes = {o1, o2}
  UniHashes = {u1, u2}
  Clients = {c1, c2}
  Conns = {k1, k2}
  NoClient = NoClient
  NoOut = NoOut
  HasUpstream = FALSE
  ReadOnly = TRUE
  Retries = 3
  QueueBound = 1
  Faults = {"link", "kill"}
  t1 = t1
  t2 = t2
  o1 = o1
  o2 = o2
  u1 = u1
  u2 = u2
  Requests <- ReadOnlyRequests
  UpRequests <- OwnerRequests
PROPERTY CallEnds
