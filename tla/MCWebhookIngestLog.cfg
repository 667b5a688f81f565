\* Action, liveness and refinement properties of webhook-ingest (no symmetry: liveness).
SPECIFICATION FairSpec
CONSTANTS
    r1 = r1
    r2 = r2
    i1 = i1
    i2 = i2
    Request = {r1, r2}
    Instance = {i1, i2}
    Null = Null
    Secret = {"current", "next", "other"}
    Name <- MCName
    Segment = {"example", "blogs_api", "unknown"}
    Escape <- MCEscape
    Unknown = "unknown"
    Body <- MCBody
    Message <- MCFewMessages
    Environment <- MCEnvironment
    MaxAttempts = 2
    TicksPerDay = 8
    JstOffset = 3
    FirstTick = 4
    LastTick = 4
PROPERTIES
    BucketOnlyGrows
    Answered
    LogSpec

