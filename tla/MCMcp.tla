------------------------------- MODULE MCMcp --------------------------------
(***************************************************************************)
(* Two tools, which may queue behind one another, and another client.      *)
(***************************************************************************)
EXTENDS Mcp

CONSTANTS gui, t1, t2

MCConns == {gui} \union ({"ping", "call"} \X Tools)
MCPingOf == [t \in Tools |-> <<"ping", t>>]
MCCallOf == [t \in Tools |-> <<"call", t>>]
=============================================================================
