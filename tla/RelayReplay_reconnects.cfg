\* Daemons are replaced, connections lost and attempts fail while the pane prints.
SPECIFICATION FairReplaySpec
CONSTANTS
    Spliced = Spliced
    MaxDaemons = 3
    MaxOut = 4
    MaxLoss = 4
CHECK_DEADLOCK FALSE
INVARIANTS ScreenShowsRing
PROPERTIES ScreenRecovers
