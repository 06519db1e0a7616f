SPECIFICATION FairSpec
CONSTANTS
  Players = {p1, p2}
  Bot = Bot
  NoOne = NoOne
  MaxRound = 3
  MaxSilences = 1
INVARIANTS TypeOK DownIsBleeding DiesOncePerRound DecidedIsPublished
PROPERTIES RevivedByTeam MatchGoesOn
CHECK_DEADLOCK FALSE
