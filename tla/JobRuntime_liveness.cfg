SPECIFICATION FairSpec
CONSTANTS
    None = None
    t1 = t1
    t2 = t2
    whole = whole
    after = after
    Task = {t1}
    FirstTask = t1
    Run = {e1}
    Sup = {s1}
    Phase = {whole}
    PhaseOf <- MCPhaseOfOne
    Request = {"cancel"}
PROPERTIES
    ActiveEnds
    UndispatchedEnds
CHECK_DEADLOCK FALSE
