\* One part at a time: a host with one retry, two registering goroutines and one
\* that looks identities up, two callers of the card caches, three agents, three
\* programs with one config file, a stream of up to three lines, an agent of up
\* to two skills, two attempts to reach the services, three messages to a server,
\* a platform list of five entries, and two requests that a handler answers.
SPECIFICATION Spec
CONSTANTS
    Registrars = {h, c1, c2}
    Host = h
    RegCallers = {c1, c2}
    Lookers = {l1}
    Retries = 1
    PageLimit = 1
    MaxUpdates = 1
    CardCallers = {k1, k2}
    MaxVersion = 2
    ChainAgents = {a1, a2, a3}
    Unknown = Unknown
    NoName = NoName
    MaxHops = 3
    MaxPayments = 1
    Programs = {p1, p2, p3}
    MaxLines = 3
    SkillNames = {s1, s2}
    DefaultSkill = DefaultSkill
    NoSkillName = NoSkillName
    MaxAttempts = 2
    TaskNames = {t1}
    Generated = {g1, g2}
    Contexts = {x1}
    MaxClock = 2
    MaxSends = 3
    PlatformItems = 5
    PageCap = 2
    MaxPages = 4
    Asks = {r1, r2}
    RunIds = {i1}
    MaxWords = 2
INVARIANTS
    TypeOK
    RegistryHonest
    CardsCurrent
    ChainKept
    SettingsKept
    
    ProfileKept
    
PROPERTIES
    GoroutinesEnd
CHECK_DEADLOCK FALSE
