\* A stale read view hides a request from the worker that is asked for it.
SPECIFICATION Spec
CONSTANTS
    w1 = w1
    w2 = w2
    r1 = r1
    r2 = r2
    bdp = bdp
    Workers <- MCWorkers
    Requests <- MCRequests
    Agents <- MCAgents
    Scope <- MCSameScope
    AgentOf <- MCSameAgent
    Provider = "mysql"
    Lifetimes = {1}
    MaxClock = 2
INVARIANT ExistingIsFound
