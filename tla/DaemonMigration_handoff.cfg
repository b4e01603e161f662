\* The old daemon, alive or dying, is handed over to the new release.
SPECIFICATION FairSpec
CONSTANTS
    p1 = p1
    p2 = p2
    Pane = {p1, p2}
    Local = {"agent", "shell"}
    Remote = {"ssh"}
    Plain = {"shell"}
    None = None
    MaxText = 1
    MaxOps = 2
    MaxAccident = 1
CHECK_DEADLOCK FALSE
INVARIANTS NoTwins RightMachine
PROPERTIES NothingIsLost LaunchEnds
