\* Five requests against a limit of two, scripts up to one tick late.
SPECIFICATION LimiterSpec
CONSTANTS
    Call = {r1, r2, r3, r4, r5}
    Window = 3
    Limit = 2
    Delay = 1
    Horizon = 6
SYMMETRY Symmetry
INVARIANTS WindowCap
PROPERTY RefusalJustified
