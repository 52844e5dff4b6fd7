SPECIFICATION FairSpec
CONSTANTS
    None = None
    t1 = t1
    t2 = t2
    whole = whole
    after = after
    Task = {t1, t2}
    FirstTask = t1
    Run = {e1}
    Sup = {s1}
    Phase = {whole, after}
    PhaseOf <- MCPhaseOf
    Request = {"reanalyze"}
PROPERTIES
    OrphansReaped
CHECK_DEADLOCK FALSE
