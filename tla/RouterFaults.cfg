CONSTANTS
    h1 = h1
    h2 = h2
    o1 = o1
    o2 = o2
    qwen = qwen
    reaper = reaper
    none = none
    nomodel = nomodel
    Handlers = {h1, h2}
    Ollama = {o1, o2}
    Qwen = qwen
    Reaper = reaper
    NoThread = none
    NoModel = nomodel
    Faults = {"slow", "exit", "crash", "router", "helper", "ps", "unload", "protocol", "expire"}
SPECIFICATION Spec
SYMMETRY HandlerSymmetry
INVARIANTS ActiveCountsLeases StopHasNoLease
PROPERTY ReaperSparesLeases
