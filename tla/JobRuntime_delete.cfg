SPECIFICATION Spec
CONSTANTS
    None = None
    t1 = t1
    t2 = t2
    whole = whole
    after = after
    Task = {t1}
    FirstTask = t1
    Run = {e1}
    Sup = {}
    Phase = {whole}
    PhaseOf <- MCPhaseOfOne
    Request = {"delete"}
PROPERTIES
    ActiveNeverDeleted
CHECK_DEADLOCK FALSE
