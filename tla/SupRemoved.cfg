\* Does a reload tear down the processes of programs that left the file?
CONSTANTS
    Files <- AllFiles
    Here = "/etc/supervisor"
    PNAME = PNAME
    PNUM = PNUM
    PGROUP = PGROUP
    PHERE = PHERE
    PHOST = PHOST
    Main = main
    SignalNames = {"KILL", "HUP", "STOP"}
    OsSignals = {"TERM"}
    RpcReloaders = {r1}
    IdReaders = {}
SPECIFICATION Spec
INVARIANT RemovedProgramsTornDown
\* The daemon ends: main() returns, or os.Exit.
CHECK_DEADLOCK FALSE
