CONSTANTS
    MAX = 5
    None = None
    r1 = r1
    Readers <- MC_Readers
    MaxAppends = 4
    MaxBatch = 2
SPECIFICATION Spec
INVARIANT TypeOK
INVARIANT RecordsInCallOrder
INVARIANT ReadersSeeTheLog
PROPERTY AppendReadRoundTrip
