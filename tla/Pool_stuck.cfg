\* Three requests of any kind on a pool of two connections.
SPECIFICATION FairSpec
CONSTANTS
    Connection = {c1, c2}
    Request = {r1, r2, r3}
    None = None
INVARIANTS StuckOnlyByHolders OnlyNestedUowLeaks
PROPERTY Answered
