\* Main's Reload alone: is every Restart acted on?
CONSTANTS
    Files <- FilesWithPanic
    Here = "/etc/supervisor"
    PNAME = PNAME
    PNUM = PNUM
    PGROUP = PGROUP
    PHERE = PHERE
    PHOST = PHOST
    Main = main
    SignalNames = {"KILL", "HUP", "STOP"}
    OsSignals = {"TERM"}
    RpcReloaders = {}
    IdReaders = {id1}
SPECIFICATION Spec
PROPERTY RestartHonoured
\* The daemon ends: main() returns, or os.Exit.
CHECK_DEADLOCK FALSE
