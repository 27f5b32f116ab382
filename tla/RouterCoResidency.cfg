CONSTANTS
    h1 = h1
    h2 = h2
    o1 = o1
    qwen = qwen
    reaper = reaper
    none = none
    nomodel = nomodel
    Handlers = {h1, h2}
    Ollama = {o1}
    Qwen = qwen
    Reaper = reaper
    NoThread = none
    NoModel = nomodel
    Faults = {}
SPECIFICATION Spec
INVARIANTS NoCoResidency
