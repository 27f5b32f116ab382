CONSTANTS
    wiphand = wiphand
    service = service
    operator = operator
    first = first
    last = last
    noproc = noproc
    notask = notask
    Procs = {wiphand, service, operator}
    Commands <- MCCommands
    Service = service
    TaskOrder <- MCTaskOrder
    Gated = {last}
    NoProc = noproc
    NoTask = notask
SPECIFICATION FairSpec
INVARIANTS CompletedIsEarned TriggerIsWhole
PROPERTIES TurnIsGated LockReleased ImplementsQueue
