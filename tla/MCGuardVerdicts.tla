--------------------------- MODULE MCGuardVerdicts ---------------------------
\* Instance of GuardVerdicts for TLC: every guard of the repository.
EXTENDS GuardVerdicts

AllGuards == Guards
=============================================================================
