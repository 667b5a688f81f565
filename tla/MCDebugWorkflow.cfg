\* Three recipes, a webhook and a midnight.
SPECIFICATION Spec
CONSTANTS
    i1 = i1
    i2 = i2
    SmokeId = {i1}
    MaxShards = 2
    MaxDay = 3
    BulkDays = 2
    MaxWebhooks = 1
    MaxRecipes = 3
INVARIANTS
    IInv
    SyncedIsReplaced
PROPERTIES
    SeedsUploadTheirFiles
CHECK_DEADLOCK FALSE
