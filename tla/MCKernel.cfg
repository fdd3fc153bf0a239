\* The map as in MCBobMap_enum.cfg; the driver with LastRetry = 1 for 10.
SPECIFICATION KernelSpec
CONSTANTS
    a = a
    aa = aa
    b = b
    c = c
    nokey = nokey
    A = A
    B = B
    C = C
    N = N
    x = x
    y = y
    None = None
    NoName = NoName
    Key <- FiveKeys
    NoRealKey <- OneNoRealKey
    Name <- Names
    NameOf <- Named
    Hash <- Hashes
    Data <- TwoData
    Count = 2
    Process = {p1, p2}
    Caller = {c1}
    Slot = {s1, s2}
    LastRetry = 1
    Garbage = Garbage
INVARIANTS
    EntriesMatch
    StrayAnswerOnlyWhenLate
PROPERTIES
    KeepsPromise
    CreationEnds
\* The driver has been unloaded, or the system has crashed.
CHECK_DEADLOCK FALSE
