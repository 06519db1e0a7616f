SPECIFICATION FairSpec
CONSTANTS
  Accounts = {a1, a2}
  Replicas = {r1, r2}
  Modes = {"br"}
  MinPlayers = 2
  MatchSize = 2
  Free = Free
  Orphan = Orphan
  MaxStarts = 1
  MaxMatches = 2
  MaxLapses = 1
  MaxStops = 1
  MaxFaults = 1
INVARIANTS TypeOK MatchesSound
PROPERTIES QueuedIsServed
CHECK_DEADLOCK FALSE
