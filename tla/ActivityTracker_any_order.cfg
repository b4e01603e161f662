\* Every signal in every order.
SPECIFICATION Spec
CONSTANTS
    MaxSub = 3
    None = None
CHECK_DEADLOCK FALSE
INVARIANTS NamedRedStays HeldWhileSubagentsRun DoneIsNotForgotten
PROPERTIES GreenIsEarned
