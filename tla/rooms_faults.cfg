SPECIFICATION FairSpec
CONSTANTS
  Accounts = {a1, a2}
  Capacities = {2}
  GameModes = {"cs"}
  GroupModes = {"squad"}
  Away = Away
  MaxRooms = 1
  NoRoom = NoRoom
  Free = Free
  Orphan = Orphan
  Slots = {c1}
  Ops = {"create", "join"}
  MaxLapses = 1
  MaxFaults = 1
INVARIANTS OwnerInRoom
PROPERTIES RequestsEnd
CHECK_DEADLOCK FALSE
