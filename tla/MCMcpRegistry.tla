--------------------------- MODULE MCMcpRegistry ---------------------------
(***************************************************************************)
(* Constant values for the configurations of McpRegistry.                  *)
(***************************************************************************)
EXTENDS McpRegistry, TLC

CONSTANTS s1, s2, u1, r1, r2

TwoServers == {s1, s2}
OneRemote == {u1}
TwoReaders == {r1, r2}
=============================================================================
