----------------------------- MODULE MCModuleOps ----------------------------
EXTENDS ModuleOps, TLC

RequestsAlike == Permutations(Requests)
=============================================================================
