\* One graph under the watchdog, without a restart.
CONSTANTS
    Plain = {}
    Graph = {g1}
    Script = {}
    MaxGen = 2
    MaxLaunch = 0
    MaxReanchor = 3
    MaxRestarts = 0
SPECIFICATION Spec
INVARIANT LiveGraphNotReplaced
CHECK_DEADLOCK FALSE
