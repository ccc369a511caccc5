---------------------------- MODULE MCSupervisor ----------------------------
EXTENDS Supervisor, TLC

CallersAlike == Permutations(Callers)
=============================================================================
