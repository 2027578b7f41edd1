SPECIFICATION FairSelectionSpec
CONSTANTS
    r1 = r1
    r2 = r2
    Requests = {r1, r2}
    Proxies = 2
    Releases <- MCReleases
    Needs <- MCNeeds
    Asks <- MCAsks
INVARIANTS
    SameJobForSameConfig
    AllOfTheRequest
    JobBuildsRequest
PROPERTIES
    RequestEnds
CHECK_DEADLOCK FALSE
