\* Stage/commit upload of the Azure blob writer: no partial blob is visible.
CONSTANTS
    w1 = w1
    w2 = w2
    k1 = k1
    k2 = k2
    Writers <- MC_Writers
    Keys <- MC_Keys
    BadPath = BadPath
    NoBlob = NoBlob
    ChunkLimit = 2
    MaxLen = 4
    MaxTries = 3
    MaxDeletes = 2
SPECIFICATION Spec
SYMMETRY Symm
INVARIANTS
    TypeOK
    CommittedBlobsWhole
    WholeInv
PROPERTY AtomicUpload
\* Every Write returns and the retention pass is bounded.
CHECK_DEADLOCK FALSE
