\* One pane is opened, closed and reused, in any order with its answers.  MaxGen
\* suffices for every spawn and replay, so that no session is withheld.
SPECIFICATION FairSpec
CONSTANTS
    Pane = {p1}
    Killed = Killed
    MaxOpen = 2
    MaxGen = 5
    MaxBoot = 2
    MaxCut = 2
    MaxQueue = 1
CHECK_DEADLOCK FALSE
INVARIANTS GateIsTight SpecsFollowPanes
PROPERTIES FreshPaneGetsFreshSession ClosedStaysClosed OpenPanesComeAlive
