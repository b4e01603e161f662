\* Three boots on either platform: they race, crash, shut down and leave pids to strangers.
SPECIFICATION FairLockSpec
CONSTANTS
    Boot = {b1, b2, b3}
    NoBoot = NoBoot
INVARIANTS SingleOwner ServingIsPublished UndisplacedOwnerHoldsFile
PROPERTIES SurvivorOwnsLock
CHECK_DEADLOCK FALSE
