\* Two asks and two stops in any order, side by side or one after the other.
CONSTANTS
    Asks = {a1, a2}
    Stops = {s1, s2}
    Pids = {p1, p2}
    NoPid = none
    Polls = 1
    MaxDeaths = 1
SPECIFICATION Spec
SYMMETRY Symmetry
INVARIANTS SecondStartExplained ServingIsOnFile StrangersLeftAlone
\* Every command has ended.
CHECK_DEADLOCK FALSE
