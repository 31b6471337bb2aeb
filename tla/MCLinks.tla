------------------------------- MODULE MCLinks -------------------------------
(***************************************************************************)
(* Links on small instances.                                                *)
(***************************************************************************)
EXTENDS Links

MCCallers == {"u", "v", "w"}
MCPeers == {"p", "q", "r"}
=============================================================================
