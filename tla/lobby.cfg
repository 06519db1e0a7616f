SPECIFICATION Spec
CONSTANTS
    Services = {"registration", "shop", "ranking", "document", "notices", "start",
                "settings", "connection", "http", "bus", "cutover", "guests",
                "gate", "fleet", "manager"}
    Requests = {q1, q2, q3}
    MaxRegisterFaults = 1
    Servers = {s1}
    Items <- SentItems
    AskedIds <- SentIds
    Grands = {0, 1}
    Pools <- SentPools
    Prices = {0}
    Weights = {0}
    Chests = {1001, 1002}
    StartCoins = 3
    MaxEdits = 2
    MaxPurchases = 1
    MaxRewards = 1
    Players = {1, 2, 3}
    Seeded = {3}
    Regions = {"BR", "IND"}
    KillCounts = {0, 20}
    MaxMatches = 2
    Calls = {c1, c2}
    Avatars = {1, 2}
    Hidden = {2}
    Outfits = {1, 2}
    Slots = {0}
    Mails = {7}
    MaxCalls = 3
    q1 = q1
    q2 = q2
    q3 = q3
    s1 = s1
    c1 = c1
    c2 = c2
    Guests = {gia, hal}
    Gateways = {g1, g2}
    MaxOps = 4
    MaxMissed = 1
    gia = gia
    hal = hal
    g1 = g1
    g2 = g2
    Seated = {sam, tess}
    MaxStarts = 2
    MaxChanges = 2
    ShopSteps = {255}
    EventSteps = {255}
    TopBytes = {0, 128}
    Unset = Unset
    MaxFrames = 2
    MaxWaiting = 1
    Posts = {p1, p2}
    MaxPosts = 3
    MaxGuarded = 4
    MaxTime = 4
    Window = 2
    MaxSeen = 2
    sam = sam
    tess = tess
    p1 = p1
    p2 = p2
    Holders = {"x", "y"}
    Fields = {1}
    Values = {"v"}
    MaxBusOps = 3
    MaxBusTime = 3
    Trim = 1
    MaxLen = 1
    Ids = {1, 2, 3}
    Runners = {r1, r2}
    MaxWrites = 2
    MaxLive = 1
    MaxBreaks = 1
    OpenIds = {o1, o2, o3}
    MaxChanged = 1
    MaxStops = 1
    r1 = r1
    r2 = r2
    o1 = o1
    o2 = o2
    o3 = o3
    MaxGateChanges = 1
    MaxGateFaults = 1
    Hosts = {h1}
    RefreshEvery = 1
    BeatEvery = 1
    MaxAge = 2
    MaxFleetTime = 6
    MaxMisses = 2
    MaxDeaths = 1
    Fighters = {f1, f2, f3}
    RosterCap = 2
    MaxJoins = 3
    MaxResumes = 1
    h1 = h1
    f1 = f1
    f2 = f2
    f3 = f3
CHECK_DEADLOCK FALSE
INVARIANTS TypeOK LookFollowsProfile LobbyHolds TrafficHolds StoresHold
