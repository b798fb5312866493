SPECIFICATION FairSpec
CONSTANTS
    server = server
    migrate = migrate
    poller = poller
    Processes <- MCProcesses
    Command <- MCCommand
    Release <- MCRelease
    Latest = 2
    Slow = {2}
    MaxFaults = 2
INVARIANTS
    TypeOK
    SchemaMatchesVersion
    WorksOnItsSchema
PROPERTIES
    MigratesInOrder
    ComesUp
