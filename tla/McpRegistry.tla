---------------------------- MODULE McpRegistry ----------------------------
(***************************************************************************)
(* The catalogue of MCP servers.  The mcp-servers ConfigMap holds one list *)
(* of entries that two writers read, change and write back: the controller *)
(* of MCPServer resources, for servers it deploys, and the dashboard, for  *)
(* servers connected by URL.  Both write JSON; the list they find may be   *)
(* the YAML of the shipped manifests, which they cannot parse.  The        *)
(* registry reads the list now and then, asks every server for its tools,  *)
(* and publishes the answer in a table that step Jobs are given.           *)
(***************************************************************************)
EXTENDS Naturals, FiniteSets

CONSTANTS
  Servers,         \* names of MCPServer resources
  Remotes,         \* names of servers connected by URL
  InitialEntries,  \* the entries of the installed ConfigMap
  InitialYAML,     \* it is written as YAML
  Readers,         \* the goroutines that may run a Sync at the same time
  MaxFaults,       \* bound on failed requests
  MaxEdits         \* bound on what users do

Names == Servers \cup Remotes

ASSUME RegistryAssumption ==
  /\ Servers \cap Remotes = {}
  /\ InitialEntries \subseteq Names
  /\ InitialYAML \in BOOLEAN
  /\ MaxFaults \in Nat /\ MaxEdits \in Nat

VARIABLES
  cr,         \* the MCPServers at the API server
  crView,     \* the cached MCPServers
  cm,         \* the mcp-servers ConfigMap at the API server
  cmView,     \* the cached ConfigMap
  table,      \* the registry's servers, and those of them with tools
  syncing,    \* the list each running Sync has read, and is asking about
  faults,     \* requests failed so far
  edits       \* user actions so far

vars == <<cr, crView, cm, cmView, table, syncing, faults, edits>>

Absent == [life |-> "absent", phase |-> ""]
Resource == [life : {"absent", "new", "live", "deleting"}, phase : {"", "Ready", "Error"}]
ConfigMap == [exists : BOOLEAN, yaml : BOOLEAN, entries : SUBSET Names]
Missing == [exists |-> FALSE, yaml |-> FALSE, entries |-> {}]
Idle == [busy |-> FALSE, entries |-> {}]

Init ==
  /\ cr = [s \in Servers |-> Absent] /\ crView = cr
  /\ cm \in {[exists |-> TRUE, yaml |-> InitialYAML, entries |-> InitialEntries], Missing}
  /\ cmView = cm
  /\ table = [servers |-> {}, connected |-> {}]
  /\ syncing = [r \in Readers |-> Idle]
  /\ faults = 0 /\ edits = 0

Fault == faults < MaxFaults /\ faults' = faults + 1
NoFault == faults' = faults
Edit == edits < MaxEdits /\ edits' = edits + 1

-----------------------------------------------------------------------------
(* Reading, changing and writing back the list.  The server refuses a      *)
(* write computed from an old version.                                     *)

\* json.Unmarshal of YAML text fails, and leaves the list empty.
Parsed(view) == IF view.yaml THEN {} ELSE view.entries

\* Mutant: the last writer wins.
WriteUnversioned(entries) == cm' = [exists |-> TRUE, yaml |-> FALSE, entries |-> entries]

Write(entries) ==
  cm' = IF cmView = cm THEN [exists |-> TRUE, yaml |-> FALSE, entries |-> entries] ELSE cm

\* Refused for another reason, or lost on its way.
WriteLost == Fault /\ cm' = cm

UpdateConfigMap(n) == Write(Parsed(cmView) \cup {n})

\* A ConfigMap that cannot be read is left alone.
RemoveFromConfigMap(n) ==
  IF cmView.exists THEN Write(Parsed(cmView) \ {n}) ELSE cm' = cm

-----------------------------------------------------------------------------
(* The controller of MCPServers.                                           *)

SetResource(s, new) == cr' = IF crView[s] = cr[s] THEN [cr EXCEPT ![s] = new] ELSE cr

AddFinalizer(s) ==
  /\ crView[s].life = "new"
  /\ SetResource(s, [crView[s] EXCEPT !.life = "live"])
  /\ UNCHANGED <<crView, cm, cmView, table, syncing, faults, edits>>

\* The error of the ConfigMap write is dropped, and the finalizer with it.
CleanUp(s) ==
  /\ crView[s].life = "deleting"
  /\ \/ RemoveFromConfigMap(s) /\ NoFault
     \/ WriteLost
  /\ SetResource(s, Absent)
  /\ UNCHANGED <<crView, cmView, table, syncing, edits>>

\* Mutant: a server that is ready is not registered again.
RegisterOnce(s) ==
  /\ crView[s].life = "live" /\ crView[s].phase # "Ready"
  /\ \/ UpdateConfigMap(s) /\ NoFault
     \/ WriteLost
  /\ SetResource(s, [crView[s] EXCEPT !.phase = "Ready"])
  /\ UNCHANGED <<crView, cmView, table, syncing, edits>>

\* The status says Ready whether or not the entry was written.
Register(s) ==
  /\ crView[s].life = "live"
  /\ \/ UpdateConfigMap(s) /\ NoFault
     \/ WriteLost
  /\ SetResource(s, [crView[s] EXCEPT !.phase = "Ready"])
  /\ UNCHANGED <<crView, cmView, table, syncing, edits>>

DeployFails(s) ==
  /\ crView[s].life = "live"
  /\ Fault
  /\ SetResource(s, [crView[s] EXCEPT !.phase = "Error"])
  /\ UNCHANGED <<crView, cm, cmView, table, syncing, edits>>

Reconcile(s) == AddFinalizer(s) \/ CleanUp(s) \/ Register(s) \/ DeployFails(s)

-----------------------------------------------------------------------------
(* The registry.  A Sync reads the list, asks the servers, and replaces    *)
(* the table; a list that cannot be read empties it at once.               *)

ReadList(r) ==
  /\ ~syncing[r].busy /\ cmView.exists
  /\ syncing' = [syncing EXCEPT ![r] = [busy |-> TRUE, entries |-> cmView.entries]]
  /\ UNCHANGED <<cr, crView, cm, cmView, table, faults, edits>>

ReadFails(r) ==
  /\ ~syncing[r].busy
  /\ \/ ~cmView.exists /\ NoFault
     \/ Fault
  /\ table' = [servers |-> {}, connected |-> {}]
  /\ UNCHANGED <<cr, crView, cm, cmView, syncing, edits>>

Publish(r, answering) ==
  /\ syncing[r].busy
  /\ table' = [servers |-> syncing[r].entries, connected |-> answering]
  /\ syncing' = [syncing EXCEPT ![r] = Idle]
  /\ UNCHANGED <<cr, crView, cm, cmView, faults, edits>>

Sync(r) ==
  \/ ReadList(r)
  \/ ReadFails(r)
  \/ \E answering \in SUBSET syncing[r].entries : Publish(r, answering)

-----------------------------------------------------------------------------
(* Users: MCPServer resources, and servers connected by URL.               *)

CreateServer(s) ==
  /\ cr[s] = Absent /\ Edit
  /\ cr' = [cr EXCEPT ![s].life = "new"]
  /\ UNCHANGED <<crView, cm, cmView, table, syncing, faults>>

\* Mutant: the resource goes at once, whatever its finalizer.
DeleteServerAtOnce(s) ==
  /\ cr[s].life \in {"new", "live"} /\ Edit
  /\ cr' = [cr EXCEPT ![s] = Absent]
  /\ UNCHANGED <<crView, cm, cmView, table, syncing, faults>>

DeleteServer(s) ==
  /\ cr[s].life \in {"new", "live"} /\ Edit
  /\ cr' = [cr EXCEPT ![s] = IF @.life = "new" THEN Absent ELSE [@ EXCEPT !.life = "deleting"]]
  /\ UNCHANGED <<crView, cm, cmView, table, syncing, faults>>

\* Any name may be connected; a refused write is reported to the user.
Connect(n) ==
  /\ Edit
  /\ UpdateConfigMap(n)
  /\ UNCHANGED <<cr, crView, cmView, table, syncing, faults>>

\* An entry whose name has no resource; a listing that fails shows none.
Disconnect(n) ==
  /\ Edit
  /\ IF n \in Servers /\ crView[n] # Absent THEN Fault ELSE NoFault
  /\ cmView.exists /\ n \in Parsed(cmView)
  /\ RemoveFromConfigMap(n)
  /\ UNCHANGED <<cr, crView, cmView, table, syncing>>

SyncResource(s) ==
  /\ crView' = [crView EXCEPT ![s] = cr[s]]
  /\ UNCHANGED <<cr, cm, cmView, table, syncing, faults, edits>>

SyncConfigMap ==
  /\ cmView' = cm
  /\ UNCHANGED <<cr, crView, cm, table, syncing, faults, edits>>

Next ==
  \/ \E s \in Servers : Reconcile(s)
  \/ \E r \in Readers : Sync(r)
  \/ \E s \in Servers : CreateServer(s) \/ DeleteServer(s) \/ SyncResource(s)
  \/ \E n \in Names : Connect(n) \/ Disconnect(n)
  \/ SyncConfigMap

Spec == Init /\ [][Next]_vars

\* Passes are requeued (5 minutes), the registry has its ticker (60 seconds)
\* and its requests time out, caches have watches.  No user is fair.
Fairness ==
  /\ \A s \in Servers : WF_vars(Reconcile(s)) /\ WF_vars(SyncResource(s))
  /\ WF_vars(SyncConfigMap)
  /\ WF_vars(\E r \in Readers : ReadList(r))
  /\ \A r \in Readers :
       WF_vars(\E answering \in SUBSET syncing[r].entries : Publish(r, answering))

FairSpec == Spec /\ Fairness

-----------------------------------------------------------------------------
(* Properties.                                                             *)

\* The variables have their types.
TypeOK ==
  /\ cr \in [Servers -> Resource] /\ crView \in [Servers -> Resource]
  /\ cm \in ConfigMap /\ cmView \in ConfigMap
  /\ table \in [servers : SUBSET Names, connected : SUBSET Names]
  /\ syncing \in [Readers -> [busy : BOOLEAN, entries : SUBSET Names]]
  /\ faults \in 0 .. MaxFaults /\ edits \in 0 .. MaxEdits

\* updateConfigMap and removeFromConfigMap change one entry of a list that
\* others write too: an entry leaves only by the deletion of its own resource
\* or by its own disconnection, however the two writers interleave.
OnlyOwnEntry ==
  [][\A n \in cm.entries \ cm'.entries :
       \/ n \in Servers /\ CleanUp(n)
       \/ Disconnect(n)]_vars

\* The finalizer holds a resource until a pass has seen it go: no pass over an
\* old copy puts a server back in the list after its resource is gone.
NoneListedGone ==
  [][\A n \in cm'.entries \ cm.entries :
       \/ Connect(n)
       \/ n \in Servers /\ cr[n].life \in {"live", "deleting"}]_vars

\* A server that stays deployed, or stays in the list, is in the end offered
\* to the Jobs for good, even though a Sync that read an old list may publish
\* after a newer one.
Offered ==
  \A n \in Names :
    <>[](n \in cm.entries \/ (n \in Servers /\ cr[n].life = "live")) => <>[](n \in table.servers)
=============================================================================
