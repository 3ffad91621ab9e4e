\* Three concurrent requests of one user while an old session lapses.
SPECIFICATION Spec
CONSTANTS
    Request = {r1, r2, r3}
    Seed = {phone}
    Clock = Clock
    Old = {phone}
SYMMETRY Symmetry
INVARIANTS DeadStaysDead ExchangedTwiceOnlyByOverlap DeadIsBlacklisted LiveIsIndexed
    AlarmOnlyAfterReplay
