CONSTANTS
    Executor = Executor
    handler = handler
    analyzer = analyzer
    Handler = {handler}
    Launcher <- LaunchesOne
    Child = {c1, c2}
    Supervisor = Supervisor
    Reaper = Reaper
    None = None
    MaxEvasions = 2

SPECIFICATION Spec

PROPERTY
    DrainProves

CHECK_DEADLOCK FALSE
