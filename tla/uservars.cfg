SPECIFICATION Spec
CONSTANTS
    Keys = {"a", "b", "key"}
    KeyLen <- MCKeyLen
    DataLens = {1, 48, 81, 82}
    Marks = {0, 1}
    ENV_MEM_USERVARS = 96
    MaxGc = 2
    Tight = FALSE
INVARIANTS
    TypeOK
    KeysUnique
PROPERTIES
    SetIsLocal
    RefusedOnlyIfFull
    GcIsExact
    ReopenKeeps
