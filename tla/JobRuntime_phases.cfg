SPECIFICATION Spec
CONSTANTS
    None = None
    t1 = t1
    t2 = t2
    whole = whole
    after = after
    Task = {t1, t2}
    FirstTask = t1
    Run = {e1, e2}
    Sup = {}
    Phase = {whole, after}
    PhaseOf <- MCPhaseOf
    Request = {"reanalyze"}
PROPERTIES
    EarlierPhasesKept
SYMMETRY RunSymmetry
CHECK_DEADLOCK FALSE
