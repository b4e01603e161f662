\* Launches, settings rows and a CLI share one config file.
SPECIFICATION FairSpec
CONSTANTS
    l1 = l1
    l2 = l2
    r1 = r1
    Launch = {l1, l2}
    Row = {r1}
    Writer = {l1, l2, r1}
    MaxPlan = 2
    MaxValue = 1
    MaxOutside = 1
    Absent = Absent
    AnyHash = AnyHash
CHECK_DEADLOCK FALSE
INVARIANTS PlanIsGranted
PROPERTIES PartsAreSeparate SuccessIsOnDisk EveryCallSettles
