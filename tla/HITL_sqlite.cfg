\* Two processes over one SQLite file, with the fairness of running handlers.
SPECIFICATION FairSpec
CONSTANTS
    w1 = w1
    w2 = w2
    r1 = r1
    r2 = r2
    bdp = bdp
    Workers <- MCWorkers
    Requests <- MCRequests
    Agents <- MCAgents
    Scope <- MCSameScope
    AgentOf <- MCSameAgent
    Provider = "sqlite"
    Lifetimes = {1}
    MaxClock = 2
PROPERTIES
    CallsReturn
