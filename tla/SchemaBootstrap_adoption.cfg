CONSTANTS
    Op = {o1, o2, o3}
    Service = {s1, s2}
    Row = {r1, r2}
    LastImage = 2
    None = None

SPECIFICATION Spec
SYMMETRY Interchangeable
INVARIANTS TypeOK OnePending ReceiptsTruthful RecoveryDecides
PROPERTY DatabasePromised
CHECK_DEADLOCK FALSE
