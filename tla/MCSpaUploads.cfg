CONSTANTS
    f1 = f1
    f2 = f2
    large = large
    None = None
    File = {f1, f2, large}
    Oversized = {large}
    MaxSelections = 3
SPECIFICATION Spec
INVARIANTS
    TypeOK
    BareFilesAreBeingRead
    ShownIsStored
PROPERTIES
    BareFilesAreReplaced
CHECK_DEADLOCK FALSE
