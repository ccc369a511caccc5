--------------------------- MODULE MCTokenRegistry ---------------------------
EXTENDS TokenRegistry, TLC

Symmetry == Permutations(Requests) \cup Permutations(Users) \cup Permutations(Vaults)

\* resetCodes is history that no action and no property of the passing run reads.
NoCutHistory == <<users, vaults, reserved, code, token, request, vaultOp, overlapped>>

=============================================================================
