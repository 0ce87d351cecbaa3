CONSTANTS
    d1 = d1
    d2 = d2
    d3 = d3
    r1 = r1
    r2 = r2
    None = None
    Deploys = {d1, d2, d3}
    Releases = {r1, r2}
    Local = {d2}
    ReleaseOf <- MCReleaseOf
    Keep = 1
    MaxActive = 2
SPECIFICATION FairSpec
INVARIANTS ReleasesKept OutcomeTrue
PROPERTIES DeploysEnd
CHECK_DEADLOCK FALSE
