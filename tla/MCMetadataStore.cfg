CONSTANTS
    None = None
    c1 = c1
    c2 = c2
    k1 = k1
    v1 = v1
    Callers <- MC_Callers
    Keys <- MC_Keys
    Values <- MC_Values
    MaxVersion = 3
SPECIFICATION StoreSpec
INVARIANT StoreTypeOK
INVARIANT WriteResultIsTrue
