\* A seed after a backup.
SPECIFICATION Spec
CONSTANTS
    i1 = i1
    i2 = i2
    SmokeId = {i1, i2}
    MaxShards = 2
    MaxDay = 3
    BulkDays = 2
    MaxWebhooks = 1
    MaxRecipes = 2
SYMMETRY Symmetry
INVARIANTS
    BackupSurvives
CHECK_DEADLOCK FALSE
