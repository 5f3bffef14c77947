\* Can two ReloadConfig calls run c.parse at the same time?
CONSTANTS
    Files <- AllFiles
    Here = "/etc/supervisor"
    PNAME = PNAME
    PNUM = PNUM
    PGROUP = PGROUP
    PHERE = PHERE
    PHOST = PHOST
    Main = main
    SignalNames = {"KILL", "HUP", "STOP"}
    OsSignals = {"TERM"}
    RpcReloaders = {r1, r2}
    IdReaders = {id1}
SPECIFICATION Spec
INVARIANT ConfigParseExclusive
\* The daemon ends: main() returns, or os.Exit.
CHECK_DEADLOCK FALSE
