\* Two applications share a daemon; daemons die and waits end too early.
SPECIFICATION FairSpec
CONSTANTS
    a1 = a1
    a2 = a2
    App = {a1, a2}
    Builds <- AlikeOrNot
    Updating = {a1}
    None = None
    MaxSpawn = 2
    MaxAccident = 1
CHECK_DEADLOCK FALSE
INVARIANT ServingIsFound
PROPERTIES AnsweringIsUntouched KnownClientsAreSpared QuietIsKept EveryAppIsServed

