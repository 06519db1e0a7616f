SPECIFICATION Spec
CONSTANTS
    Parts = {"rooms", "items", "coins", "vitals"}
    Accounts = {a1, a2, a3, a4}
    Capacities = {2, 4}
    GameModes = {"cs", "br"}
    GroupModes = {"solo", "duo", "squad", "other"}
    Away = Away
    MaxRooms = 1
    NoRoom = NoRoom
    Fighters = {1, 2}
    Earliest = 1
    Buyers = {1}
    OnSale = {"pistol", "rifle", "groza", "gloo", "vest"}
    Dropped = {"rifle", "pistol", "groza", "gloo"}
    MaxUnique = 6
    MaxBoxes = 2
    MaxMoves = 6
    GlooWallCap = 1
    Rivals = {1, 2, 3}
    Reds = {1, 2}
    Shooters = {1, 3}
    Spenders = {1}
    ItemPrices = {3}
    MaxBuys = 1
    RoundsToWin = 3
    MaxRound = 3
    MaxHP = 4
    KnockdownHP = 2
    ReviveHP = 1
    MedkitSteps = 3
    EpPerMushroom = 2
    MaxEP = 4
    MushroomsPerRound = 2
    MaxHits = 2
    MaxUses = 2
SYMMETRY Symmetry
INVARIANTS RecordsSound MatchHolds
PROPERTIES JoinWithinCapacity FrozenInGame
CHECK_DEADLOCK FALSE
