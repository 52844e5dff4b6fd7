SPECIFICATION Spec
CONSTANTS
    Capture = {c1, c2, c3}
    Label <- MCLabel
    Stem <- MCStem
    Profile = {"triage", "standard"}
    MAX_PCAPS_PER_JOB = 2
    NoLabel = NoLabel
    Whole = Whole
INVARIANTS
    PhaseAnalysed
SYMMETRY CaptureSymmetry
CHECK_DEADLOCK FALSE
