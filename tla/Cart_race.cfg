\* Three concurrent requests of one user.
SPECIFICATION Spec
CONSTANTS
    App = {game, tool}
    Buyable = {game, tool}
    Request = {r1, r2, r3}
    Seed = Seed
    NoCart = NoCart
    Miss = Miss
SYMMETRY Symmetry
INVARIANTS DuplicateOnlyByOverlap CacheTrueUnlessExcused OwnedNotInCart RefusedInsertOnlyByOverlap
PROPERTY NoItemVanishes
