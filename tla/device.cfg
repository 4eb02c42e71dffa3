SPECIFICATION FairSpec
CONSTANTS
    Requests = {r1, r2}
    Owner = o
    Callers = {o, p}
    Task = t
    ShutMsg = shut
    None = none
INVARIANTS
    TypeOK
    MemorySafe
    OneHolder
    NoOrphan
    PortEmptyAtDelete
    AbortedNotServed
    NoLeak
PROPERTIES
    HooksReturn
    EveryRequestAnswered
    ImplementsService
