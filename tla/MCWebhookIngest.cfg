\* Safety of webhook-ingest.
SPECIFICATION Spec
CONSTANTS
    r1 = r1
    r2 = r2
    i1 = i1
    i2 = i2
    Request = {r1, r2}
    Instance = {i1, i2}
    Null = Null
    Secret = {"current", "next", "other"}
    Name <- MCName
    Segment = {"example", "blogs_api", "unknown"}
    Escape <- MCEscape
    Unknown = "unknown"
    Body <- MCBody
    Message <- MCMessage
    Environment <- MCEnvironment
    MaxAttempts = 2
    TicksPerDay = 8
    JstOffset = 3
    FirstTick = 4
    LastTick = 5
SYMMETRY Symmetry
INVARIANTS
    TypeOK
    IInv
    AcknowledgedIsStored
    StoredIsGenuine
    RejectedIsNeverStored
    PartitionAgrees

