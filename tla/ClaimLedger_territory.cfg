\* Two panes of one workspace and one of another contest files, end and are replaced.
SPECIFICATION Spec
CONSTANTS
    Pane <- MCPane
    GroupOf <- MCGroupOf
    Name <- MCName
    Path <- MCPath
    Raw <- GlobRaw
    MaxGen = 3
CHECK_DEADLOCK FALSE
INVARIANTS OneOwner ClaimsAreLive
PROPERTIES ClaimsAreKept
