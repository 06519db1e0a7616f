SPECIFICATION TransactionsSpec
CONSTANTS
  Matches = {m1, m2}
  Accounts = {a1, a2}
  Lineups = {{a1, a2}, {a1}}
  Workers = {w1, w2}
  Buffer = 3
  Count = 2
  MaxFaults = 1
  FaultKinds = {"send", "crash", "read", "handler", "ack"}
  People = {ann, ben}
  Confirms = {t1, t2}
  MaxFriendFaults = 1
INVARIANTS SettlementTypeOK CreditedOnce AcknowledgedIsSettled HandledByOne FriendsMutual
PROPERTIES ImplementsLedger StreamedIsSettled ConfirmsEnd
CHECK_DEADLOCK FALSE
