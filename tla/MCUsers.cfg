SPECIFICATION UsersSpec
CONSTANTS
    u1 = u1  u2 = u2  a1 = a1  a2 = a2
    Users = {u1, u2}
    Addresses = {a1, a2}
    Home <- MCHome
    Pages = {s1, s2}
    MaxRequests = 2
    MaxFaults = 1
    Focuses = {"links", "web", "mobile"}
    Versions <- MCVersions
    Slots = {r1, r2, r3}
    MaxVisits = 3
    Requests = {q1, q2, q3}
    PoolSize = 3
    MaxArrivals = 5
INVARIANTS
    TypeOK
    ApiSpeaksForStore
    ShowsOwnGroups
    AddressesAreProven
    
    OnlyPasswordChecksStarve
PROPERTIES
    LinksAreMailed
CHECK_DEADLOCK FALSE
