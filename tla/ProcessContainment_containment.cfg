CONSTANTS
    Executor = Executor
    handler = handler
    analyzer = analyzer
    Handler = {handler, analyzer}
    Launcher <- Launches
    Child = {c1}
    Supervisor = Supervisor
    Reaper = Reaper
    None = None
    MaxEvasions = 1

SPECIFICATION Spec

INVARIANTS
    TypeOK
    Receipted
    ReapProof
    StopProof

PROPERTIES
    DrainProves
    ContainmentPromised

CHECK_DEADLOCK FALSE
