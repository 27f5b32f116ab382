---------------------------- MODULE MCFanGuard ----------------------------
\* Instance of FanGuard for TLC: the daemon and one hook, without a cap, with
\* the quiet cap of 20 % and with one that leaves the mode to the board.
EXTENDS FanGuard

MCPolicies ==
    {[capped |-> FALSE, mode |-> 1, pwm |-> 0],
     [capped |-> TRUE, mode |-> 1, pwm |-> 20],
     [capped |-> TRUE, mode |-> 2, pwm |-> 20]}
=============================================================================
