\* Three requests and two PUTs by one publisher in several tabs.
SPECIFICATION Spec
CONSTANTS
    Request = {r1, r2, r3}
    Put = {p1, p2}
    Name = {n1, n2}
    Seed = seed
    None = none
SYMMETRY Symmetry
INVARIANTS KeyDanglesOnlyByReuseOrOverlap ReplacedFileGone VariantsOfTheImage
