\* A script, or a sub-agent and a graph of one tree, with a restart.
CONSTANTS
    Plain = {p1}
    Graph = {g1}
    Script = {s1}
    MaxGen = 6
    MaxLaunch = 2
    MaxReanchor = 2
    MaxRestarts = 1
SPECIFICATION FairSpec
CONSTRAINT Scenarios
INVARIANTS TypeOK OneRunningRow OneExecution RevokedIsDead LiveIsRecoverable
PROPERTY NoGhost
CHECK_DEADLOCK FALSE
