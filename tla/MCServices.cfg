SPECIFICATION ServicesSpec
CONSTANTS
    Users = {c, u}
    Creator = c
    Invitations = {i1, i2}
    Keys = {k}
    Requests = {r1, r2}
    EventIDs = {1, 2}
    StripeSubs = {s1}
    Customers = {c1, c2}
    Plans = {"pro"}
    Checkouts = {k1, k2}
    MaxSecond = 2
    NONE = NONE
    DomainTeams = {t1, t2}
    DomainIDs = {d1, d2}
    DomainJobs = {j1, j2}
    NoDomain = NoDomain
    Addresses = {a1, a2}
    ContactIDs = {x1, x2}
    NoAddress = NoAddress
    SingleKeys = {}
    BatchKeys = {b}
    NoKey = NoKey
    Bodies = {1, 2}
    BatchSize = 2
    DailyLimits = {1, 2}
    IntakeSlots = {q1, q2}
    MaxEmails = 2
    Mails = {m}
    InboundTeams = {t1, t2}
    InboundWorkers = {w1, w2}
    MaxReceives = 2
    NoOne = NoOne
INVARIANTS
    ServicesTypeOK
    CreatorStaysOwner
    NothingOutlivesTeam
    NewestEventWins
    OneCustomer
    OwnershipProved
    RoutingIsUnambiguous
    NoMailAfterRefusal
    KeysAreExact
    BatchesAreWhole
    QuotaIsExact
    NoMailIsLost
    OneEventPerMail
    RetentionLeavesNoObject
PROPERTIES
    InvitationsAreSingleUse
    SuppressionsOnlyGrow
CHECK_DEADLOCK FALSE
