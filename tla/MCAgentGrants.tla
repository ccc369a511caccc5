--------------------------- MODULE MCAgentGrants ---------------------------
EXTENDS AgentGrants, TLC

\* Handlers are alike, and so are credentials that no one has been given.
Alike == Permutations(Reqs) \cup Permutations(Creds)
=============================================================================
