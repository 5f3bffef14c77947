\* Can the daemon exit with a child still running?
CONSTANTS
    Files <- AllFiles
    Here = "/etc/supervisor"
    PNAME = PNAME
    PNUM = PNUM
    PGROUP = PGROUP
    PHERE = PHERE
    PHOST = PHOST
    Main = main
    SignalNames = {"KILL", "HUP", "STOP"}
    OsSignals = {"TERM"}
    RpcReloaders = {}
    IdReaders = {}
SPECIFICATION Spec
INVARIANT NoOrphanAtExit
\* The daemon ends: main() returns, or os.Exit.
CHECK_DEADLOCK FALSE
