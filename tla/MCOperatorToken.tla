-------------------------- MODULE MCOperatorToken --------------------------
EXTENDS OperatorToken, TLC

ProcsAlike == Permutations(Procs)
=============================================================================
