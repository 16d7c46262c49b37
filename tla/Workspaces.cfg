SPECIFICATION Spec
CONSTANTS
    t1 = t1
    t2 = t2
    own = own
    managed = managed
    Tasks = {t1, t2}
    Repos = {own, managed}
    RepoOf <- MCRepoOf
    Targeted = {t2}
    Managed = {managed}
    MaxCrashes = 2
    MaxFailures = 1
INVARIANTS TypeOK WorkDelivered NothingLeft
CHECK_DEADLOCK FALSE
