CONSTANTS
    primitive = primitive
    qwen = qwen
    gpu0 = gpu0
    gpu1 = gpu1
    Guards = {primitive, qwen}
    Gpus = {gpu0, gpu1}
    Target <- GuardTargets
    Faults = {"parse", "stuck", "power", "kill", "disk", "overlap"}
SPECIFICATION FairSpec
INVARIANTS JobRunsCapped LimitsRestored
PROPERTIES PassIsEarned RunsRecorded
