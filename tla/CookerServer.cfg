SPECIFICATION Spec
CONSTANTS
  Clients = {"c1", "c2"}
  Killers = {"c2"}
  Servers = {"s1", "s2"}
  Timeouts = {"none", "some"}
  Tries <- TwoAndOne
  Backlog = 2
  Kills = 1
  None = None
CHECK_DEADLOCK FALSE
INVARIANTS TypeOK ServesAlone NoStalePid
PROPERTIES ServersEnd
