CONSTANTS
    StackConfs <- MCStackConfs
    OpenOk = {TRUE, FALSE}
    ThreadOk = {TRUE, FALSE}
    SocketOk = {TRUE, FALSE}
    MaxCycles = 2
SPECIFICATION VSpec
INVARIANT LogOpenedAsConfigured
