SPECIFICATION Spec
CONSTANTS
    None = None
    t1 = t1
    t2 = t2
    whole = whole
    after = after
    Task = {t1}
    FirstTask = t1
    Run = {e1}
    Sup = {s1, s2}
    Phase = {whole}
    PhaseOf <- MCPhaseOfOne
    Request = {"cancel"}
INVARIANTS
    TypeOK
    SettledMeansStopped
    CancelNeverAccepted
PROPERTIES
    LifecycleSpec
CHECK_DEADLOCK FALSE
