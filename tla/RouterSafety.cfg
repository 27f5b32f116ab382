CONSTANTS
    h1 = h1
    h2 = h2
    h3 = h3
    o1 = o1
    qwen = qwen
    reaper = reaper
    none = none
    nomodel = nomodel
    Handlers = {h1, h2, h3}
    Ollama = {o1}
    Qwen = qwen
    Reaper = reaper
    NoThread = none
    NoModel = nomodel
    Faults = {"slow"}
SPECIFICATION Spec
SYMMETRY HandlerSymmetry
INVARIANTS LeasedQwenIsHealthy
PROPERTY ImplementsLeases
