\* Does every numprocs instance run its own evaluated command?
CONSTANTS
    Files <- AllFiles
    Here = "/etc/supervisor"
    PNAME = PNAME
    PNUM = PNUM
    PGROUP = PGROUP
    PHERE = PHERE
    PHOST = PHOST
SPECIFICATION Spec
INVARIANT CommandPerInstance
