\* Three requests, one app of the start and one created on the way, two keys.
SPECIFICATION Spec
CONSTANTS
    App = {a1, a2}
    First = {a1}
    Key = {k1, k2}
    Request = {r1, r2, r3}
    Avatar = avatar
    Seed = seed
    None = none
SYMMETRY Symmetry
INVARIANTS TypeOK RowsNameObjects NoOrphans
