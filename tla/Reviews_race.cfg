\* Three concurrent requests about one app, any of which may fail.
SPECIFICATION Spec
CONSTANTS
    User = {ann, bob, pub}
    Buyer = {ann, bob}
    Stars = {1, 4}
    Request = {r1, r2, r3}
    Seed = seed
SYMMETRY Symmetry
INVARIANTS ReviewsTypeOK FiguresLagOnlyByLastOrDeletion SecondReviewOnlyByOverlap
