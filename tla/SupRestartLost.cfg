\* With a concurrent ReloadConfig: is every Restart acted on?
CONSTANTS
    Files <- AllFiles
    Here = "/etc/supervisor"
    PNAME = PNAME
    PNUM = PNUM
    PGROUP = PGROUP
    PHERE = PHERE
    PHOST = PHOST
    Main = main
    SignalNames = {"KILL", "HUP", "STOP"}
    OsSignals = {"TERM"}
    RpcReloaders = {r1}
    IdReaders = {}
SPECIFICATION Spec
PROPERTY RestartHonoured
\* The daemon ends: main() returns, or os.Exit.
CHECK_DEADLOCK FALSE
