\* Main's Reload and one concurrent ReloadConfig, with every RPC.
CONSTANTS
    Files <- AllFiles
    Here = "/etc/supervisor"
    PNAME = PNAME
    PNUM = PNUM
    PGROUP = PGROUP
    PHERE = PHERE
    PHOST = PHOST
    Main = main
    SignalNames = {"KILL", "HUP", "STOP"}
    \* No OS signal here: the handler only stops processes and exits, and
    \* sup_restart_once runs it beside main and a Restart.
    OsSignals = {}
    RpcReloaders = {r1}
    IdReaders = {}
SPECIFICATION Spec
INVARIANT TypeOK
INVARIANT ReloadedProgramsHaveProcesses
INVARIANT ExpansionComplete
\* The daemon ends: main() returns, or os.Exit.
CHECK_DEADLOCK FALSE
