SPECIFICATION Spec
CONSTANTS
    Users = {u1, u2}
    Roles = {super, r1}
    Super = super
    Menus = {m1}
    Readers = {l1}
    Writers = {w1, w2}
SYMMETRY Symmetry
INVARIANTS
    ReferencesLive
    StaleNeedsOverlap
PROPERTIES
    CommitsPermitted
CHECK_DEADLOCK FALSE
