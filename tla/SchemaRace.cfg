SPECIFICATION Spec
CONSTANTS
    Openers = {o1, o2}
    Clients = {c1, c2}
    MaxFailures = 3
INVARIANTS
    SchemaTypeOK
    OpenMeansMigrated
PROPERTIES
    ActivityKept
    RefusedDatabaseUntouched
    EventuallyOpen
