CONSTANTS
    Request = {r1, r2}
    Branch = {b1, b2}
    Call = {c1, c2}
    None = None

    MaxTurns = 2

SPECIFICATION Spec

INVARIANTS
    TypeOK
    Alternating
    OneTurnPerRequest
    AgreedAnswer
    ReceiptsBacked
    ReceiptsTrue
    BranchHistoryFixed

PROPERTY TurnsEnd

CHECK_DEADLOCK FALSE
