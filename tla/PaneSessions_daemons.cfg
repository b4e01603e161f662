\* Two pane ids over three sessions of a daemon: reused ids, moved hosts, late output and
\* late exits, crashes and restarts.
SPECIFICATION FairSpec
CONSTANTS
    Pane = {p1, p2}
    Host = {h1, h2}
    None = None
    MaxGen = 3
    MaxContent = 1
INVARIANTS MapMatchesPtys StopKeepsOpenPanes
PROPERTIES PanesAreArchived ClosedRowsGo
