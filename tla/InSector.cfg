SPECIFICATION SectorSpec
CONSTANTS
    Parts = {"seats", "invited", "pair", "three", "purse", "saved", "wheel", "lag", "forced", "rings",
             "ticks"}
    mei = mei
    nora = nora
    otto = otto
    Members = {mei, nora, otto}
    Nobody = Nobody
    PoolSize = 3
    GroupSize = 3
    MaxSeated = 2
    MaxInvited = 1
    MaxJoins = 3
    MaxDrops = 1
    anna = anna
    bert = bert
    cora = cora
    dirk = dirk
    elsa = elsa
    drone = drone
    engine = engine
    shield = shield
    beam = beam
    Wares = {drone, engine, shield}
    HasAnna = {drone, engine}
    HasBert = {shield}
    PairCredits = 1
    PairSpace = 2
    PairSlots = 2
    PairLogins = 3
    c1 = c1
    c2 = c2
    Calls = {c1, c2}
    t1 = t1
    t2 = t2
    Threads = {t1, t2}
    s1 = s1
    s2 = s2
    g1 = g1
    NullNode = NullNode
    NoCall = NoCall
    Span = 16
    Window = 4
    Poll = 3
    Limit = 5
    Steps = {1, 2}
    MaxTime = 22
SYMMETRY Interchangeable
CONSTRAINT Followed
INVARIANTS
    GroupsAgree
    GoodsKept
    
    
    TicksTellTime
PROPERTIES
    Consent
    ParksWhenIdle
CHECK_DEADLOCK FALSE
