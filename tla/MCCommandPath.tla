---------------------------- MODULE MCCommandPath ----------------------------
(* Instances of CommandPath for TLC. *)
EXTENDS CommandPath, TLC

CONSTANTS ip1, ip2

\* Two clients, each its own group: both may be active at the same time.
TwoGroups == <<<<ip1>>, <<ip2>>>>

\* One redundant client, which connects from two addresses: a connection takes
\* over from the other one.
OneClient == <<<<ip1, ip2>>>>

\* Ports, connection objects and keys are only compared for equality.
Symmetry == Permutations(Ports) \union Permutations(Conns) \union Permutations(Keys)
=============================================================================
