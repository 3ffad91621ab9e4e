\* Two connections, three messages or typing events.
SPECIFICATION WsSpec
CONSTANTS
    Conn = {c1, c2}
    Message = {m1, m2, m3}
    None = none
SYMMETRY Symmetry
INVARIANTS SeenWithoutGap OnlyFailuresLeak
