--------------------------- MODULE MCIEC104Server ---------------------------
(* Instances of IEC104Server for TLC. *)
EXTENDS IEC104Server

CONSTANT ip1

\* One client with one connection.
OneConnection == <<<<ip1>>>>
=============================================================================
