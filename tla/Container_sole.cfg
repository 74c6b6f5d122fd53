CONSTANTS
    RequestId = RequestId
    Session = Session
    Service = Service
    main = main
    worker = worker
    s1 = s1
    s2 = s2
    Root = Root
    None = None
    Types = {RequestId, Session, Service}
    Scopes = {s1, s2}
    Threads = {main, worker}
    Serves <- SoleServes
    Offers <- MCOffers
    Deps <- MCDeps
    Rank <- MCRank
    MaxMade = 2
SPECIFICATION Spec
INVARIANTS
    TypeOK
    Isolated
    MadeOncePerSoleScope
    KnownIsFound
PROPERTIES CachedStays
