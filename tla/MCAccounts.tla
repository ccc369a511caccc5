----------------------------- MODULE MCAccounts -----------------------------
EXTENDS Accounts, TLC

Symmetry == Permutations(Reqs) \cup Permutations(Vaults)
=============================================================================
