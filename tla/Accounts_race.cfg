\* Three concurrent requests of any kind, any of which may fail.
SPECIFICATION Spec
CONSTANTS
    ann = ann
    bob = bob
    Old = {ann, bob}
    Request = {r1, r2, r3}
    Name = {"ann", "bob", "cat"}
    NoName = NoName
    NameOf <- MCNameOf
SYMMETRY Symmetry
INVARIANTS RoleLostOnlyByOverlap SessionUnindexedOnlyByDeletion
PROPERTY TokenOnlyToTheLiving
