SPECIFICATION FairSpec
CONSTANTS
    server = server
    migrate = migrate
    poller = poller
    Processes = {server}
    Command <- MCCommand
    Release <- MCRelease
    Latest = 2
    Slow = {2}
    MaxFaults = 0
PROPERTIES
    ComesUp
