------------------------ MODULE McpRegistry_proofs ------------------------
(***************************************************************************)
(* Proofs about McpRegistry, for any set of servers, of readers and of     *)
(* faults: its type invariant, that no pass lists a server that is gone,   *)
(* and, where the installed list is JSON, that no writer drops the entry   *)
(* of another.                                                             *)
(***************************************************************************)
EXTENDS McpRegistry, TLAPS

\* A write leaves a ConfigMap.
LEMMA WriteTyped ==
  ASSUME cm \in ConfigMap, NEW entries \in SUBSET Names, Write(entries)
  PROVE  cm' \in ConfigMap
BY DEF Write, ConfigMap

\* The list a writer has read holds names, whether or not it was parsed.
LEMMA ParsedTyped ==
  ASSUME cmView \in ConfigMap
  PROVE  Parsed(cmView) \in SUBSET Names
BY DEF Parsed, ConfigMap

\* So does the list of updateConfigMap, and of upsertMCPConfigEntry.
LEMMA UpdateTyped ==
  ASSUME TypeOK, NEW n \in Names, UpdateConfigMap(n)
  PROVE  cm' \in ConfigMap
BY ParsedTyped, WriteTyped DEF TypeOK, UpdateConfigMap

\* And of removeFromConfigMap, and of removeMCPConfigEntry.
LEMMA RemoveTyped ==
  ASSUME TypeOK, NEW n \in Names, RemoveFromConfigMap(n)
  PROVE  cm' \in ConfigMap
BY ParsedTyped, WriteTyped DEF TypeOK, RemoveFromConfigMap

\* A write of a resource leaves resources.
LEMMA ResourceTyped ==
  ASSUME TypeOK, NEW s \in Servers, NEW new \in Resource, SetResource(s, new)
  PROVE  cr' \in [Servers -> Resource]
BY DEF TypeOK, SetResource

\* The fault counter stays within its bound.
LEMMA FaultTyped ==
  ASSUME TypeOK, Fault \/ NoFault
  PROVE  faults' \in 0 .. MaxFaults
BY RegistryAssumption DEF TypeOK, Fault, NoFault

\* So does the counter of user actions.
LEMMA EditTyped ==
  ASSUME TypeOK, Edit
  PROVE  edits' \in 0 .. MaxEdits
BY RegistryAssumption DEF TypeOK, Edit

\* A pass of the controller keeps the types.
LEMMA ReconcileTyped ==
  ASSUME TypeOK, NEW s \in Servers, Reconcile(s)
  PROVE  TypeOK'
<1>1. crView[s] \in Resource /\ s \in Names
  BY DEF TypeOK, Names
<1>2. CASE AddFinalizer(s)
  <2>1. [crView[s] EXCEPT !.life = "live"] \in Resource
    BY <1>1 DEF Resource
  <2>2. cr' \in [Servers -> Resource]
    BY <1>2, <2>1, ResourceTyped DEF AddFinalizer
  <2>3. QED
    BY <1>2, <2>2 DEF AddFinalizer, TypeOK
<1>3. CASE CleanUp(s)
  <2>1. Absent \in Resource
    BY DEF Absent, Resource
  <2>2. cr' \in [Servers -> Resource]
    BY <1>3, <2>1, ResourceTyped DEF CleanUp
  <2>3. cm' \in ConfigMap
    BY <1>1, <1>3, RemoveTyped DEF CleanUp, WriteLost, TypeOK
  <2>4. faults' \in 0 .. MaxFaults
    BY <1>3, FaultTyped DEF CleanUp, WriteLost
  <2>5. QED
    BY <1>3, <2>2, <2>3, <2>4 DEF CleanUp, TypeOK
<1>4. CASE Register(s)
  <2>1. [crView[s] EXCEPT !.phase = "Ready"] \in Resource
    BY <1>1 DEF Resource
  <2>2. cr' \in [Servers -> Resource]
    BY <1>4, <2>1, ResourceTyped DEF Register
  <2>3. cm' \in ConfigMap
    BY <1>1, <1>4, UpdateTyped DEF Register, WriteLost, TypeOK
  <2>4. faults' \in 0 .. MaxFaults
    BY <1>4, FaultTyped DEF Register, WriteLost
  <2>5. QED
    BY <1>4, <2>2, <2>3, <2>4 DEF Register, TypeOK
<1>5. CASE DeployFails(s)
  <2>1. [crView[s] EXCEPT !.phase = "Error"] \in Resource
    BY <1>1 DEF Resource
  <2>2. cr' \in [Servers -> Resource]
    BY <1>5, <2>1, ResourceTyped DEF DeployFails
  <2>3. faults' \in 0 .. MaxFaults
    BY <1>5, FaultTyped DEF DeployFails
  <2>4. QED
    BY <1>5, <2>2, <2>3 DEF DeployFails, TypeOK
<1>6. QED
  BY <1>2, <1>3, <1>4, <1>5 DEF Reconcile

\* A step of a Sync keeps the types.
LEMMA SyncTyped ==
  ASSUME TypeOK, NEW r \in Readers, Sync(r)
  PROVE  TypeOK'
<1>1. syncing[r].entries \in SUBSET Names /\ cmView.entries \in SUBSET Names
  BY DEF TypeOK, ConfigMap
<1>2. CASE ReadList(r)
  BY <1>1, <1>2 DEF ReadList, TypeOK
<1>3. CASE ReadFails(r)
  <2>1. faults' \in 0 .. MaxFaults
    BY <1>3, FaultTyped DEF ReadFails
  <2>2. QED
    BY <1>3, <2>1 DEF ReadFails, TypeOK
<1>4. ASSUME NEW answering \in SUBSET syncing[r].entries, Publish(r, answering)
      PROVE  TypeOK'
  <2>1. table' \in [servers : SUBSET Names, connected : SUBSET Names]
    BY <1>1, <1>4 DEF Publish
  <2>2. syncing' \in [Readers -> [busy : BOOLEAN, entries : SUBSET Names]]
    BY <1>4 DEF Publish, Idle, TypeOK
  <2>3. QED
    BY <1>4, <2>1, <2>2 DEF Publish, TypeOK
<1>5. QED
  BY <1>2, <1>3, <1>4 DEF Sync

\* The resources that a user leaves behind.
LEMMA LivesTyped ==
  /\ Absent \in Resource
  /\ \A c \in Resource : [c EXCEPT !.life = "new"] \in Resource /\ [c EXCEPT !.life = "deleting"] \in Resource
BY DEF Absent, Resource

\* What a user does keeps the types.
LEMMA EditsTyped ==
  ASSUME TypeOK,
         \/ \E s \in Servers : CreateServer(s) \/ DeleteServer(s)
         \/ \E n \in Names : Connect(n) \/ Disconnect(n)
  PROVE  TypeOK'
<1>1. ASSUME NEW s \in Servers, CreateServer(s) PROVE TypeOK'
  <2>1. edits' \in 0 .. MaxEdits
    BY <1>1, EditTyped DEF CreateServer
  <2>2. cr' \in [Servers -> Resource]
    <3>1. [cr[s] EXCEPT !.life = "new"] \in Resource
      BY LivesTyped DEF TypeOK
    <3> QED
      BY <1>1, <3>1 DEF CreateServer, TypeOK
  <2>3. QED
    BY <1>1, <2>1, <2>2 DEF CreateServer, TypeOK
<1>2. ASSUME NEW s \in Servers, DeleteServer(s) PROVE TypeOK'
  <2>1. edits' \in 0 .. MaxEdits
    BY <1>2, EditTyped DEF DeleteServer
  <2>2. cr' \in [Servers -> Resource]
    <3>1. Absent \in Resource /\ [cr[s] EXCEPT !.life = "deleting"] \in Resource
      BY LivesTyped DEF TypeOK
    <3> QED
      BY <1>2, <3>1 DEF DeleteServer, TypeOK
  <2>3. QED
    BY <1>2, <2>1, <2>2 DEF DeleteServer, TypeOK
<1>3. ASSUME NEW n \in Names, Connect(n) PROVE TypeOK'
  <2>1. edits' \in 0 .. MaxEdits
    BY <1>3, EditTyped DEF Connect
  <2>2. cm' \in ConfigMap
    BY <1>3, UpdateTyped DEF Connect
  <2>3. QED
    BY <1>3, <2>1, <2>2 DEF Connect, TypeOK
<1>4. ASSUME NEW n \in Names, Disconnect(n) PROVE TypeOK'
  <2>1. edits' \in 0 .. MaxEdits
    BY <1>4, EditTyped DEF Disconnect
  <2>2. cm' \in ConfigMap
    BY <1>4, RemoveTyped DEF Disconnect
  <2>3. faults' \in 0 .. MaxFaults
    BY <1>4, FaultTyped DEF Disconnect
  <2>4. QED
    BY <1>4, <2>1, <2>2, <2>3 DEF Disconnect, TypeOK
<1>5. QED
  BY <1>1, <1>2, <1>3, <1>4

\* Every step keeps the types.
LEMMA NextTyped ==
  ASSUME TypeOK, [Next]_vars
  PROVE  TypeOK'
<1>1. ASSUME NEW s \in Servers, SyncResource(s) PROVE TypeOK'
  BY <1>1 DEF SyncResource, TypeOK
<1>2. CASE SyncConfigMap
  BY <1>2 DEF SyncConfigMap, TypeOK
<1>3. CASE UNCHANGED vars
  BY <1>3 DEF vars, TypeOK
<1>4. QED
  BY <1>1, <1>2, <1>3, ReconcileTyped, SyncTyped, EditsTyped DEF Next

\* The variables of the registry always have their types.
THEOREM RegistryTyped == Spec => []TypeOK
<1>1. Init => TypeOK
  <2> SUFFICES ASSUME Init PROVE TypeOK
    OBVIOUS
  <2>1. cm \in ConfigMap /\ cmView \in ConfigMap
    <3>1. [exists |-> TRUE, yaml |-> InitialYAML, entries |-> InitialEntries] \in ConfigMap
      BY RegistryAssumption DEF ConfigMap
    <3>2. Missing \in ConfigMap
      BY DEF Missing, ConfigMap
    <3>3. QED
      BY <3>1, <3>2 DEF Init
  <2>2. cr \in [Servers -> Resource] /\ crView \in [Servers -> Resource]
    BY DEF Init, Absent, Resource
  <2>3. syncing \in [Readers -> [busy : BOOLEAN, entries : SUBSET Names]]
    BY DEF Init, Idle
  <2>4. table \in [servers : SUBSET Names, connected : SUBSET Names]
    BY DEF Init
  <2>5. faults \in 0 .. MaxFaults /\ edits \in 0 .. MaxEdits
    BY RegistryAssumption DEF Init
  <2>6. QED
    BY <2>1, <2>2, <2>3, <2>4, <2>5 DEF TypeOK
<1>2. TypeOK /\ [Next]_vars => TypeOK'
  BY NextTyped
<1>3. QED
  BY <1>1, <1>2, PTL DEF Spec

-----------------------------------------------------------------------------
(* No entry is lost.  The strengthening: the list is JSON.  It is needed,  *)
(* for a writer that finds YAML starts from an empty list.                 *)

JSONList == ~cm.yaml

\* What is written is JSON, so the list remains so.
LEMMA StaysJSON ==
  ASSUME JSONList, [Next]_vars
  PROVE  JSONList'
<1>1. ASSUME NEW entries, Write(entries) PROVE JSONList'
  BY <1>1 DEF Write, JSONList
<1>2. ASSUME NEW n, RemoveFromConfigMap(n) PROVE JSONList'
  BY <1>1, <1>2 DEF RemoveFromConfigMap, JSONList
<1>3. ASSUME NEW n, UpdateConfigMap(n) PROVE JSONList'
  BY <1>1, <1>3 DEF UpdateConfigMap
<1>4. CASE cm' = cm
  BY <1>4 DEF JSONList
<1>5. ASSUME NEW s \in Servers, Reconcile(s) PROVE JSONList'
  BY <1>2, <1>3, <1>4, <1>5 DEF Reconcile, AddFinalizer, CleanUp, Register, DeployFails, WriteLost
<1>6. ASSUME NEW r \in Readers, Sync(r) PROVE JSONList'
  BY <1>4, <1>6 DEF Sync, ReadList, ReadFails, Publish
<1>7. ASSUME NEW n \in Names, Connect(n) \/ Disconnect(n) PROVE JSONList'
  BY <1>2, <1>3, <1>7 DEF Connect, Disconnect
<1>8. ASSUME NEW s \in Servers, CreateServer(s) \/ DeleteServer(s) \/ SyncResource(s)
      PROVE  JSONList'
  BY <1>4, <1>8 DEF CreateServer, DeleteServer, SyncResource
<1>9. QED
  BY <1>4, <1>5, <1>6, <1>7, <1>8 DEF Next, SyncConfigMap, vars

\* An entry written by updateConfigMap displaces no other.
LEMMA UpdateKeeps ==
  ASSUME JSONList, NEW m, UpdateConfigMap(m)
  PROVE  cm.entries \subseteq cm'.entries
<1>1. CASE cmView = cm
  <2>1. Parsed(cmView) = cm.entries
    BY <1>1 DEF Parsed, JSONList
  <2>2. cm'.entries = cm.entries \cup {m}
    BY <1>1, <2>1 DEF UpdateConfigMap, Write
  <2>3. QED
    BY <2>2
<1>2. CASE cmView # cm
  BY <1>2 DEF UpdateConfigMap, Write
<1>3. QED
  BY <1>1, <1>2

\* removeFromConfigMap takes out the entry it names and no other.
LEMMA RemoveKeeps ==
  ASSUME JSONList, NEW m, RemoveFromConfigMap(m)
  PROVE  cm.entries \ {m} \subseteq cm'.entries
<1>1. CASE cmView = cm /\ cmView.exists
  <2>1. Parsed(cmView) = cm.entries
    BY <1>1 DEF Parsed, JSONList
  <2>2. cm'.entries = cm.entries \ {m}
    BY <1>1, <2>1 DEF RemoveFromConfigMap, Write
  <2>3. QED
    BY <2>2
<1>2. CASE ~(cmView = cm /\ cmView.exists)
  BY <1>2 DEF RemoveFromConfigMap, Write
<1>3. QED
  BY <1>1, <1>2

\* Whoever writes the list, and whatever old version it was computed from,
\* an entry leaves it only by the deletion of its own resource or by its own
\* disconnection: for an installation whose list is JSON.
THEOREM NoEntryLost ==
  ASSUME InitialYAML = FALSE
  PROVE  Spec => OnlyOwnEntry
<1>1. Init => JSONList
  BY DEF Init, Missing, JSONList
<1>2. JSONList /\ [Next]_vars => JSONList'
  BY StaysJSON
<1>3. JSONList /\ [Next]_vars =>
        [\A n \in cm.entries \ cm'.entries :
           \/ n \in Servers /\ CleanUp(n)
           \/ Disconnect(n)]_vars
  <2> SUFFICES ASSUME JSONList, Next, NEW n \in cm.entries \ cm'.entries
               PROVE  (n \in Servers /\ CleanUp(n)) \/ Disconnect(n)
    OBVIOUS
  <2>1. CASE \E s \in Servers : Reconcile(s)
    <3>1. PICK s \in Servers : Reconcile(s)
      BY <2>1
    <3>2. CASE CleanUp(s) /\ RemoveFromConfigMap(s)
      <4>1. n = s
        BY <3>2, RemoveKeeps
      <4>2. QED
        BY <3>1, <3>2, <4>1
    <3>3. CASE Register(s) /\ UpdateConfigMap(s)
      BY <3>3, UpdateKeeps
    <3>4. CASE cm' = cm
      BY <3>4
    <3>5. QED
      BY <3>1, <3>2, <3>3, <3>4
         DEF Reconcile, AddFinalizer, CleanUp, Register, DeployFails, WriteLost
  <2>2. CASE \E m \in Names : Connect(m)
    BY <2>2, UpdateKeeps DEF Connect
  <2>3. CASE \E m \in Names : Disconnect(m)
    <3>1. PICK m \in Names : Disconnect(m)
      BY <2>3
    <3>2. n = m
      BY <3>1, RemoveKeeps DEF Disconnect
    <3>3. QED
      BY <3>1, <3>2
  <2>4. CASE cm' = cm
    BY <2>4
  <2>5. QED
    BY <2>1, <2>2, <2>3, <2>4
       DEF Next, Sync, ReadList, ReadFails, Publish, CreateServer, DeleteServer,
           SyncResource, SyncConfigMap
<1>4. QED
  BY <1>1, <1>2, <1>3, PTL DEF Spec, OnlyOwnEntry

-----------------------------------------------------------------------------
(* No server is listed when it is gone.  The strengthening: how old a cached *)
(* resource can be, for the finalizer goes only in a pass that has seen the *)
(* deletion.                                                                *)

Held ==
  \A s \in Servers :
    /\ crView[s].life = "live" => cr[s].life \in {"live", "deleting"}
    /\ crView[s].life = "deleting" => cr[s].life \in {"deleting", "absent", "new"}
    /\ crView[s].life = "absent" => cr[s].life \in {"absent", "new"}

\* What becomes of the resource of s in a step that leaves its cached copy alone.
LEMMA HeldStays ==
  ASSUME TypeOK, Held, crView' = crView,
         \A s \in Servers :
           \/ cr'[s] = cr[s]
           \/ cr'[s].life = cr[s].life
           \/ crView[s].life = "new"
           \/ crView[s].life = "deleting" /\ cr'[s].life = "absent"
           \/ cr[s].life = "absent" /\ cr'[s].life = "new"
           \/ cr[s].life = "new" /\ cr'[s].life = "absent"
           \/ cr[s].life = "live" /\ cr'[s].life = "deleting"
  PROVE  Held'
<1> SUFFICES ASSUME NEW s \in Servers
             PROVE  /\ crView[s].life = "live" => cr'[s].life \in {"live", "deleting"}
                    /\ crView[s].life = "deleting" => cr'[s].life \in {"deleting", "absent", "new"}
                    /\ crView[s].life = "absent" => cr'[s].life \in {"absent", "new"}
  BY DEF Held
<1>1. /\ crView[s].life = "live" => cr[s].life \in {"live", "deleting"}
      /\ crView[s].life = "deleting" => cr[s].life \in {"deleting", "absent", "new"}
      /\ crView[s].life = "absent" => cr[s].life \in {"absent", "new"}
  BY DEF Held
<1> QED
  BY <1>1

\* A write of a resource by a pass changes that resource only, and only if the
\* cached copy is the latest.
LEMMA SetResourceChanges ==
  ASSUME TypeOK, NEW s \in Servers, NEW new, SetResource(s, new), NEW t \in Servers
  PROVE  cr'[t] = cr[t] \/ (t = s /\ crView[s] = cr[s] /\ cr'[s] = new)
BY DEF TypeOK, SetResource

LEMMA NextHolds ==
  ASSUME TypeOK, Held, [Next]_vars
  PROVE  Held'
<1>1. ASSUME NEW s \in Servers, AddFinalizer(s)
      PROVE  Held'
  <2>1. crView[s].life = "new" /\ crView' = crView
    BY <1>1 DEF AddFinalizer
  <2>2. \A t \in Servers : cr'[t] = cr[t] \/ t = s
    BY <1>1, SetResourceChanges DEF AddFinalizer
  <2> QED BY <2>1, <2>2, HeldStays
<1>2. ASSUME NEW s \in Servers, CleanUp(s)
      PROVE  Held'
  <2>1. crView[s].life = "deleting" /\ crView' = crView
    BY <1>2 DEF CleanUp
  <2>2. \A t \in Servers : cr'[t] = cr[t] \/ (t = s /\ cr'[s] = Absent)
    BY <1>2, SetResourceChanges DEF CleanUp
  <2>3. Absent.life = "absent"
    BY DEF Absent
  <2> QED BY <2>1, <2>2, <2>3, HeldStays
<1>3. ASSUME NEW s \in Servers, Register(s) \/ DeployFails(s)
      PROVE  Held'
  <2>1. crView' = crView
    BY <1>3 DEF Register, DeployFails
  <2>2. PICK p \in {"Ready", "Error"} : SetResource(s, [crView[s] EXCEPT !.phase = p])
    BY <1>3 DEF Register, DeployFails
  <2>3. crView[s] \in Resource
    BY DEF TypeOK
  <2>4. [crView[s] EXCEPT !.phase = p].life = crView[s].life
    BY <2>3 DEF Resource
  <2>5. \A t \in Servers : cr'[t].life = cr[t].life
    BY <2>2, <2>4, SetResourceChanges
  <2> QED BY <2>1, <2>5, HeldStays
<1>4. ASSUME NEW s \in Servers, CreateServer(s)
      PROVE  Held'
  <2>1. crView' = crView /\ cr[s] = Absent
    BY <1>4 DEF CreateServer
  <2>2. cr' = [cr EXCEPT ![s] = [cr[s] EXCEPT !.life = "new"]] /\ cr[s] \in Resource
    BY <1>4 DEF CreateServer, TypeOK
  <2>3. [cr[s] EXCEPT !.life = "new"].life = "new"
    BY <2>2 DEF Resource
  <2>4. \A t \in Servers : cr'[t] = cr[t] \/ (t = s /\ cr'[t].life = "new")
    BY <2>2, <2>3 DEF TypeOK
  <2>5. cr[s].life = "absent"
    <3>1. Absent.life = "absent"
      BY DEF Absent
    <3> QED BY <2>1, <3>1
  <2> QED BY <2>1, <2>4, <2>5, HeldStays
<1>5. ASSUME NEW s \in Servers, DeleteServer(s)
      PROVE  Held'
  <2>1. /\ crView' = crView /\ cr[s].life \in {"new", "live"} /\ cr[s] \in Resource
        /\ cr' = [cr EXCEPT ![s] = IF cr[s].life = "new" THEN Absent
                                    ELSE [cr[s] EXCEPT !.life = "deleting"]]
    BY <1>5 DEF DeleteServer, TypeOK
  <2>2. [cr[s] EXCEPT !.life = "deleting"].life = "deleting" /\ Absent.life = "absent"
    BY <2>1 DEF Resource, Absent
  <2>3. \A t \in Servers :
          \/ cr'[t] = cr[t]
          \/ t = s /\ cr[s].life = "new" /\ cr'[t].life = "absent"
          \/ t = s /\ cr[s].life = "live" /\ cr'[t].life = "deleting"
    BY <2>1, <2>2 DEF TypeOK
  <2> QED BY <2>1, <2>3, HeldStays
<1>6. ASSUME NEW s \in Servers, SyncResource(s)
      PROVE  Held'
  <2>1. cr' = cr /\ \A t \in Servers : crView'[t] = crView[t] \/ crView'[t] = cr[t]
    BY <1>6 DEF SyncResource, TypeOK
  <2>2. \A t \in Servers : cr[t].life \in {"absent", "new", "live", "deleting"}
    BY DEF TypeOK, Resource
  <2> QED BY <2>1, <2>2 DEF Held
<1>7. CASE UNCHANGED <<cr, crView>>
  BY <1>7 DEF Held
<1> QED
  BY <1>1, <1>2, <1>3, <1>4, <1>5, <1>6, <1>7
     DEF Next, Reconcile, Sync, ReadList, ReadFails, Publish, Connect, Disconnect,
         SyncConfigMap, vars

\* A writer adds the entry it names and no other, whether or not it could parse
\* what it found.
LEMMA UpdateAddsOne ==
  ASSUME NEW m, UpdateConfigMap(m)
  PROVE  cm'.entries \subseteq cm.entries \cup {m}
<1>1. cm' = cm \/ (cmView = cm /\ cm'.entries = Parsed(cmView) \cup {m})
  BY DEF UpdateConfigMap, Write
<1> QED
  BY <1>1 DEF Parsed

LEMMA RemoveAddsNone ==
  ASSUME NEW m, RemoveFromConfigMap(m)
  PROVE  cm'.entries \subseteq cm.entries
<1>1. cm' = cm \/ (cmView = cm /\ cm'.entries = Parsed(cmView) \ {m})
  BY DEF RemoveFromConfigMap, Write
<1> QED
  BY <1>1 DEF Parsed

\* An entry comes into the list by a user who connects it, or while its resource
\* is still there: for any number of servers, overlapping passes and failed writes,
\* and also from a list in YAML.
THEOREM NoneListedWhenGone == Spec => NoneListedGone
<1>1. Init => Held
  BY DEF Init, Absent, Held
<1>2. TypeOK /\ Held /\ [Next]_vars => Held'
  BY NextHolds
<1>3. Held /\ [Next]_vars =>
        [\A n \in cm'.entries \ cm.entries :
           \/ Connect(n)
           \/ n \in Servers /\ cr[n].life \in {"live", "deleting"}]_vars
  <2> SUFFICES ASSUME Held, Next, NEW n \in cm'.entries \ cm.entries
               PROVE  Connect(n) \/ (n \in Servers /\ cr[n].life \in {"live", "deleting"})
    OBVIOUS
  <2>1. ASSUME NEW s \in Servers, Register(s)
        PROVE  n \in Servers /\ cr[n].life \in {"live", "deleting"}
    <3>1. UpdateConfigMap(s) /\ crView[s].life = "live"
      BY <2>1 DEF Register, WriteLost
    <3>2. n = s
      BY <3>1, UpdateAddsOne
    <3> QED BY <3>1, <3>2 DEF Held
  <2>2. ASSUME NEW m \in Names, Connect(m)
        PROVE  Connect(n)
    <3>1. n = m
      BY <2>2, UpdateAddsOne DEF Connect
    <3> QED BY <2>2, <3>1
  <2>3. ASSUME \/ cm' = cm
               \/ \E s \in Servers : CleanUp(s)
               \/ \E m \in Names : Disconnect(m)
        PROVE  FALSE
    BY <2>3, RemoveAddsNone DEF CleanUp, Disconnect, WriteLost
  <2> QED
    BY <2>1, <2>2, <2>3
       DEF Next, Reconcile, AddFinalizer, DeployFails, Sync, ReadList, ReadFails, Publish,
           CreateServer, DeleteServer, SyncResource, SyncConfigMap
<1> QED
  BY <1>1, <1>2, <1>3, RegistryTyped, PTL DEF Spec, NoneListedGone
=============================================================================
