\* Agents commit, roles change and the base moves between the steps of a merge.
SPECIFICATION Spec
CONSTANTS
    p1 = p1
    b1 = b1
    m1 = m1
    Pane = {p1}
    Branch = {b1}
    Merge = {m1}
    MaxCommit = 2
    MaxBase = 2
    None = None
CHECK_DEADLOCK FALSE
INVARIANTS OnlySignedWorkLands LandsOnReviewedBase
