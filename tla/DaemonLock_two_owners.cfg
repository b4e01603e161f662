\* Two boots race in acquireLock.
SPECIFICATION LockSpec
CONSTANTS
    Boot = {b1, b2, b3}
    NoBoot = NoBoot
INVARIANTS Singleton
CHECK_DEADLOCK FALSE
