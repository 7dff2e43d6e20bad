SPECIFICATION Spec
CONSTANTS
    Defaults <- SmallDefaults
    Declared <- Texts
    MaxEdits = 1
    None = None
INVARIANT MigrationKeepsMeaning
CHECK_DEADLOCK FALSE
