CONSTANTS
    chief = chief
    implementer = implementer
    tester = tester
    NoAgent = NoAgent
    NoNode = NoNode
    Nodes <- MCNodes
    Deps <- MCDeps
    Agents <- MCAgents
    Settings <- MCSettings
    PassesPerNode = 2
SPECIFICATION Spec
INVARIANT ReviewIsHonest
INVARIANT OwnerDidTheWork
PROPERTY RunEnds
CHECK_DEADLOCK FALSE
