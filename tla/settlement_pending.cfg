SPECIFICATION FairSettlementSpec
CONSTANTS
  Matches = {m1}
  Accounts = {a1}
  Lineups = {{a1}}
  Workers = {w1}
  Buffer = 2
  Count = 2
  MaxFaults = 1
  FaultKinds = {"handler"}
PROPERTIES RedeliveredIsSettled
CHECK_DEADLOCK FALSE
