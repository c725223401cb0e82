SPECIFICATION Spec
CONSTANTS
    Resources = {r1, r2}
    r1 = r1
    r2 = r2
    None = None
    Keys <- MCKeys
    Ignored <- MCIgnored
    Severity <- MCSeverity
    Configs <- MCConfigs
SYMMETRY Symmetry
INVARIANTS
    ResultsAreExact
    StableAreChecked
