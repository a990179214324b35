---------------------------- MODULE MCExecutor ----------------------------
(***************************************************************************)
(* Constant values for the configurations of Executor: two servers that    *)
(* both list the tool search, one of which lists the tool merge, which is  *)
(* on the list WRITE_TOOLS; note is a tool in the process.  No server      *)
(* lists lookup.                                                           *)
(***************************************************************************)
EXTENDS Executor, TLC

CONSTANTS search, merge, lookup, note, m1, m2

AllTools == {search, merge, lookup, note}
Writing == {merge}
Inside == {note}
TwoServers == {m1, m2}
InOrder == <<m1, m2>>
Listed == (m1 :> {search, merge}) @@ (m2 :> {search})
FreeOrPaid == {0, 1}
=============================================================================
