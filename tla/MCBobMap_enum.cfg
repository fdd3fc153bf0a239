SPECIFICATION Spec
CONSTANTS
    a = a
    aa = aa
    b = b
    c = c
    nokey = nokey
    A = A
    B = B
    C = C
    N = N
    x = x
    y = y
    None = None
    NoName = NoName
    Key <- FiveKeys
    NoRealKey <- OneNoRealKey
    Name <- Names
    NameOf <- Named
    Hash <- Hashes
    Data <- TwoData
    Count = 2
INVARIANT EnumStops
