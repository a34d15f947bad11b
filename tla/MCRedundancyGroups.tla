------------------------- MODULE MCRedundancyGroups -------------------------
(* Instances of RedundancyGroups for TLC. *)
EXTENDS RedundancyGroups, TLC

CONSTANTS ip1, ip2, ip3

\* Two clients, one connection each.
TwoGroups == <<<<ip1>>, <<ip2>>>>

\* A redundant client whose address is listed a third time in the second
\* group, before the only entry of another client, and a group for all others.
SharedAddress == <<<<ip1, ip1>>, <<ip1, ip2>>, <<>>>>

\* Connection objects and ports are only compared for equality.
Symmetry == Permutations(Conns) \union Permutations(Ports)
=============================================================================
