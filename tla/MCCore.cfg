\* The modules of the core, one at a time.
SPECIFICATION Spec
CONSTANTS
  None = None
  Null = Null
  i1 = i1
  Host = {h1}
  Conn = {k1, k2}
  MaxPings = 2
  Counter = {"success"}
  User = {u1}
  Day = 2
  Week = 2
  MaxTimeout = 2
  Revived = {TRUE, FALSE}
  MaxTime = 6
  MaxCount = 2
  Network = {n1, n2}
  Object = {o1, o2}
  Call = {k1, k2}
  MaxSaves = 2
  Contact = {u1}
  MaxLogins = 2
  Client = {k1, k2}
  Instance = {i1}
  InstanceOf <- OneInstance
  MaxSaid = 1
  MaxDue = 2
  Description = {"", "d", "e"}
  Policy = {"", "p"}
  Servers <- TwoLists
  DEFAULT_STUN_SERVERS <- TwoServers
  MaxChanges = 3
  Check = {k1, k2}
  Refresh = {r1}
  Port = {9050, 9150}
  Listening = {9050}
  MaxRestarts = 1
SYMMETRY Symmetry
INVARIANTS OneTunnel NothingPilesUp NetworksTended ContactsAgree SavedIsUsed
PROPERTIES TokenHonored
CHECK_DEADLOCK FALSE
