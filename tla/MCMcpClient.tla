---------------------------- MODULE MCMcpClient ----------------------------
(***************************************************************************)
(* The MCP client on small instances: two requests, so that the first can  *)
(* be given up and its late answer meet the second.                        *)
(***************************************************************************)
EXTENDS McpClient
=============================================================================
