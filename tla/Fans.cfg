SPECIFICATION Spec
CONSTANTS
    Callers = {"daemon", "hook"}
    Daemon = "daemon"
    Policies <- MCPolicies
    Faults = {"write", "look", "temps", "reset", "kill", "reboot"}
    MaxUpsets = 2
INVARIANTS FileMatchesBmc
PROPERTIES HotGetsFull WarmGetsLoad
