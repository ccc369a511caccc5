---------------------------- MODULE MCHubUpgrade ----------------------------
\* Instances of HubUpgrade for TLC: requests are interchangeable.
EXTENDS HubUpgrade, TLC

Symmetry == Permutations(Requests)
=============================================================================
