SPECIFICATION Spec
CONSTANTS
  Accounts = {a1, a2}
  Capacities = {2}
  GameModes = {"cs"}
  GroupModes = {"squad"}
  Away = Away
  MaxRooms = 1
  NoRoom = NoRoom
  Free = Free
  Orphan = Orphan
  Slots = {c1}
  Ops = {"create", "join", "leave"}
  MaxLapses = 0
  MaxFaults = 0
SYMMETRY Symmetry
PROPERTIES DismissedByOwnerOrLast
CHECK_DEADLOCK FALSE
