------------------------- MODULE MasterConnections -------------------------
(***************************************************************************)
(* The connection objects of lib60870 (IMasterConnection).  The library    *)
(* reuses an object once its connection is closed; the plugin keeps the    *)
(* pointer in its outstanding commands.                                    *)
(***************************************************************************)
CONSTANT Conns   \* IMasterConnection objects
=============================================================================
