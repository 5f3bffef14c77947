\* Does a ReloadConfig whose parse panics leave program entries without processes?
CONSTANTS
    Files <- FilesWithPanic
    Here = "/etc/supervisor"
    PNAME = PNAME
    PNUM = PNUM
    PGROUP = PGROUP
    PHERE = PHERE
    PHOST = PHOST
    Main = main
    SignalNames = {"KILL", "HUP", "STOP"}
    OsSignals = {"TERM"}
    RpcReloaders = {r1}
    IdReaders = {}
SPECIFICATION Spec
INVARIANT ReloadedProgramsHaveProcesses
\* The daemon ends: main() returns, or os.Exit.
CHECK_DEADLOCK FALSE
