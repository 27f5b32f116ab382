SPECIFICATION Spec
CONSTANTS
    Faults = {"error", "exit", "silence", "mute"}
    PipeRoom = 3
INVARIANT ServerIsClosed
PROPERTIES ImplementsCall ValidWorkIsKept WaitEnds
CHECK_DEADLOCK FALSE
