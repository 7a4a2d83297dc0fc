----------------------- MODULE ClusterProviderProofs ------------------------
(***************************************************************************)
(* Proofs about the multicluster provider: its map of clusters, the        *)
(* clusters that run and the manager's engagement agree, for any number of *)
(* control planes, kubeconfigs, fields and faults.                         *)
(***************************************************************************)
EXTENDS ClusterProvider, TLAPS

\* The inductive invariant.  From the moment the old cluster is removed until
\* the new one is stored the control plane has none, so that storing it loses
\* nobody and cancelling stops nothing the map holds; what is about to be stored
\* runs; from then on the worker holds the cluster the map holds.
WorkerOwns ==
    /\ work.pc \in Removals \union {"ping", "create", "sync", "store"} =>
           clusters[work.name].hash = None
    /\ work.pc \in {"sync", "store"} => work.hash \in running[work.name]
    /\ work.pc \in {"addons", "engage"} => clusters[work.name].hash = work.hash

MapAgrees ==
    WorkerOwns /\ EngagedIsStored /\ StoredIsRunning /\ RunningIsOwned

MapInv == TypeOK /\ MapAgrees

-----------------------------------------------------------------------------

\* The initial state satisfies the invariant.
LEMMA InitMap == Init => MapInv
BY NoneAssumption, BoundAssumption
   DEF Init, MapInv, MapAgrees, TypeOK, WorkerOwns, EngagedIsStored,
       StoredIsRunning, RunningIsOwned, Stored, Objects, NoCluster, Idle,
       Stages, Removals

\* The worker is idle or holds a control plane's name.
LEMMA WorkerNamed ==
    ASSUME TypeOK, work.pc # "idle"
    PROVE  work.name \in Names
BY DEF TypeOK

\* removeCluster's half under the lock keeps the map and the worker typed.
LEMMA RemoveClusterType ==
    ASSUME TypeOK, NEW n \in Names, NEW stage \in Removals,
           RemoveCluster(n, stage), work.hash = None <=> stage = "remove"
    PROVE  /\ clusters' \in [Names -> [hash : Hashes \union {None},
                                       fields : SUBSET Fields]]
           /\ work' \in [name : Names \union {None}, pc : Stages,
                         hash : Hashes \union {None}, fields : SUBSET Fields,
                         removed : Hashes \union {None}]
           /\ work'.name = n /\ work'.pc = stage /\ work'.removed # None
           /\ work'.hash = work.hash
<1>1. clusters[n].hash \in Hashes
    BY DEF TypeOK, RemoveCluster, Stored
<1> QED
    BY <1>1, NoneAssumption DEF TypeOK, RemoveCluster, NoCluster, Stages

\* It takes the control plane's cluster out of the map and hands its cancel
\* function to the worker; nothing else is touched.
LEMMA RemoveClusterHands ==
    ASSUME TypeOK, NEW n \in Names, NEW stage \in Removals, RemoveCluster(n, stage)
    PROVE  /\ clusters'[n].hash = None
           /\ work'.name = n /\ work'.pc = stage
           /\ work'.removed = clusters[n].hash /\ clusters[n].hash \in Hashes
           /\ \A m \in Names \ {n} : clusters'[m] = clusters[m]
           /\ UNCHANGED <<running, leaving>>
BY DEF TypeOK, RemoveCluster, NoCluster, Stored

\* After the half outside the lock nothing of the control plane runs, and the
\* manager is engaged with nothing of it but what is cancelled.
LEMMA CancelRemovedStops ==
    ASSUME MapInv, CancelRemoved
    PROVE  /\ work.name \in Names /\ work.pc \in Removals
           /\ clusters' = clusters /\ clusters[work.name].hash = None
           /\ running'[work.name] = {} /\ engaged'[work.name] = None
           /\ \A m \in Names \ {work.name} :
                 running'[m] = running[m] /\ engaged'[m] = engaged[m]
           /\ work' = Idle \/ (work'.pc = "ping" /\ work'.name = work.name)
<1>1. work.name \in Names /\ work.pc \in Removals
    BY WorkerNamed DEF CancelRemoved, Removals, MapInv
<1>2. clusters' = clusters /\ clusters[work.name].hash = None
    BY <1>1 DEF CancelRemoved, MapInv, MapAgrees, WorkerOwns
<1>3. /\ running'[work.name] = running[work.name] \ {work.removed}
      /\ engaged'[work.name] = IF engaged[work.name] = work.removed
                               THEN None ELSE engaged[work.name]
      /\ \A m \in Names \ {work.name} :
            running'[m] = running[m] /\ engaged'[m] = engaged[m]
    BY <1>1 DEF CancelRemoved, Cancel, MapInv, TypeOK
<1>4. \A h \in running[work.name] : h = work.removed
    BY <1>1, <1>2, NoneAssumption
       DEF MapInv, TypeOK, MapAgrees, RunningIsOwned, Removing, Removals
<1>5. engaged[work.name] # None => engaged[work.name] = work.removed
    BY <1>1, <1>2 DEF MapInv, MapAgrees, EngagedIsStored, Removing
<1>6. work' = Idle \/ (work'.pc = "ping" /\ work'.name = work.name)
    BY DEF CancelRemoved, Return, ReturnRetry, MapInv, TypeOK
<1> QED
    BY <1>1, <1>2, <1>3, <1>4, <1>5, <1>6

\* A change of one control plane's phase or readiness leaves the objects typed.
LEMMA PhaseReadyType ==
    ASSUME TypeOK, NEW n \in Names, NEW phase \in {"live", "deleting", "absent"},
           NEW ready \in BOOLEAN
    PROVE  /\ [mcp EXCEPT ![n].phase = phase] \in [Names -> Objects]
           /\ [mcp EXCEPT ![n].ready = ready] \in [Names -> Objects]
<1>1. mcp \in [Names -> Objects]
    BY DEF TypeOK
<1>2. ASSUME NEW o \in Objects
      PROVE  [o EXCEPT !.phase = phase] \in Objects /\ [o EXCEPT !.ready = ready] \in Objects
    BY DEF Objects
<1> QED
    BY <1>1, <1>2

\* The type invariant is preserved.
LEMMA NextType == TypeOK /\ [Next]_vars => TypeOK'
<1> SUFFICES ASSUME TypeOK, [Next]_vars
             PROVE  TypeOK'
    OBVIOUS
<1> USE NoneAssumption, BoundAssumption
<1>1. CASE UNCHANGED vars
    BY <1>1 DEF vars, TypeOK
<1>2. CASE Continue
    <2>1. CASE GetSecret
        BY <2>1, WorkerNamed DEF GetSecret, At, TypeOK, Stages, Removals, mcpVars, mapVars, indexVars
    <2>2. CASE GetSecretFails
        BY <2>2, WorkerNamed DEF GetSecretFails, At, Fault, ReturnRetry, Idle, TypeOK, Stages, Removals, mcpVars, mapVars, indexVars
    <2>3. CASE AlreadyEngaged
        BY <2>3 DEF AlreadyEngaged, Return, Idle, TypeOK, Stages, Removals, mcpVars, mapVars, indexVars
    <2>4. CASE KubeconfigChanged
        <3>1. work.name \in Names /\ work.pc = "lookup" /\ work.hash # None
            BY <2>4, WorkerNamed DEF KubeconfigChanged, At, TypeOK
        <3>2. CASE RemoveCluster(work.name, "replace") /\ UNCHANGED engaged
            BY <2>4, <3>1, <3>2, RemoveClusterType
               DEF KubeconfigChanged, RemoveCluster, TypeOK, Removals, mcpVars, indexVars
        <3>3. CASE GoTo("ping") /\ UNCHANGED mapVars
            BY <2>4, <3>1, <3>3
               DEF KubeconfigChanged, GoTo, TypeOK, Stages, Removals, mcpVars, mapVars, indexVars
        <3> QED
            BY <2>4, <3>2, <3>3 DEF KubeconfigChanged
    <2>5. CASE ServerVersion
        <3>1. work.name \in Names /\ work.pc = "ping" /\ work.hash # None
            BY <2>5, WorkerNamed DEF ServerVersion, At, TypeOK
        <3>2. UNCHANGED <<mcp, seen, secret, reachable, clusters, running, engaged, leaving,
                          indexers, indexing, faults>>
            BY <2>5 DEF ServerVersion, mcpVars, mapVars, indexVars
        <3>3. CASE reachable[work.name]
            <4>1. work' = [work EXCEPT !.pc = "create"] /\ queue' = queue
                BY <2>5, <3>3 DEF ServerVersion, GoTo
            <4> QED
                BY <3>1, <3>2, <4>1 DEF TypeOK, Stages, Removals
        <3>4. CASE ~ reachable[work.name]
            <4>1. work' = Idle
                BY <2>5, <3>4 DEF ServerVersion, ReturnRetry
            <4>2. queue' \in [Names -> {"none", "delayed", "ready"}]
                BY <2>5, <3>1, <3>4 DEF ServerVersion, ReturnRetry, TypeOK
            <4> QED
                BY <3>2, <4>1, <4>2 DEF TypeOK, Stages, Removals, Idle
        <3> QED
            BY <3>3, <3>4
    <2>6. CASE CreateCluster
        BY <2>6, WorkerNamed DEF CreateCluster, At, TypeOK, Stages, Removals, mcpVars, indexVars
    <2>7. CASE CreateClusterFails
        BY <2>7, WorkerNamed DEF CreateClusterFails, At, Fault, ReturnRetry, Idle, TypeOK, Stages, Removals, mcpVars, mapVars, indexVars
    <2>8. CASE WaitForCacheSync
        BY <2>8 DEF WaitForCacheSync, GoTo, At, TypeOK, Stages, Removals, mcpVars, mapVars, indexVars
    <2>9. CASE StoreCluster
        BY <2>9, WorkerNamed DEF StoreCluster, GoTo, At, TypeOK, Stages, Removals, mcpVars, indexVars
    <2>10. CASE ReconcileManagedAddons
        BY <2>10 DEF ReconcileManagedAddons, GoTo, At, TypeOK, Stages, Removals, mcpVars, mapVars, indexVars
    <2>11. CASE ReconcileManagedAddonsFails
        BY <2>11, WorkerNamed DEF ReconcileManagedAddonsFails, At, Fault, ReturnRetry, Idle, TypeOK, Stages, Removals, mcpVars, mapVars, indexVars
    <2>12. CASE Engage
        BY <2>12, WorkerNamed DEF Engage, At, Return, Idle, TypeOK, Stages, Removals, mcpVars, indexVars
    <2>13. CASE EngageFails
        <3>1. work.name \in Names /\ work.pc = "engage" /\ work.hash # None
            BY <2>13, WorkerNamed DEF EngageFails, At, TypeOK
        <3>2. engaged' \in [Names -> Hashes \union {None}] /\ faults' \in 0..MaxFaults
            BY <2>13, <3>1 DEF EngageFails, Fault, TypeOK
        <3> QED
            BY <2>13, <3>1, <3>2, RemoveClusterType
               DEF EngageFails, RemoveCluster, TypeOK, Removals, mcpVars, indexVars
    <2>14. CASE CancelRemoved
        <3>1. work.name \in Names /\ work.removed \in Hashes /\ work.pc \in Removals
            BY <2>14, WorkerNamed DEF CancelRemoved, Removals, TypeOK
        <3>2. /\ running' \in [Names -> SUBSET Hashes]
              /\ engaged' \in [Names -> Hashes \union {None}]
              /\ leaving' \in [Names -> SUBSET Hashes]
            BY <2>14, <3>1 DEF CancelRemoved, Cancel, TypeOK
        <3>3. UNCHANGED <<mcp, secret, reachable, seen, clusters, indexers, indexing, faults>>
            BY <2>14 DEF CancelRemoved, mcpVars, indexVars
        <3>4. queue' \in [Names -> {"none", "delayed", "ready"}]
            BY <2>14, <3>1 DEF CancelRemoved, Return, ReturnRetry, TypeOK
        <3>5. CASE work' = Idle
            BY <3>2, <3>3, <3>4, <3>5 DEF TypeOK, Idle, Stages, Removals
        <3>6. CASE At("replace") /\ work' = [work EXCEPT !.pc = "ping", !.removed = None]
            BY <3>2, <3>3, <3>4, <3>6 DEF TypeOK, At, Stages, Removals
        <3> QED
            BY <2>14, <3>5, <3>6 DEF CancelRemoved, Return, ReturnRetry
    <2> QED
        BY <1>2, <2>1, <2>2, <2>3, <2>4, <2>5, <2>6, <2>7, <2>8, <2>9, <2>10,
           <2>11, <2>12, <2>13, <2>14 DEF Continue, CreateAndEngageCluster
<1>3. CASE Indexing
    <2>1. ASSUME NEW f \in Fields, IndexField(f)
          PROVE  TypeOK'
        <3>1. {<<n, clusters[n].hash>> : n \in {m \in Names : Stored(m)}}
                  \in SUBSET (Names \X Hashes)
            BY DEF Stored, TypeOK
        <3>2. indexing' \in [Fields -> SUBSET (Names \X Hashes)]
            BY <2>1, <3>1 DEF IndexField, TypeOK
        <3>3. indexers' \in SUBSET Fields
            BY <2>1 DEF IndexField, TypeOK
        <3> QED
            BY <2>1, <3>2, <3>3 DEF IndexField, TypeOK, mcpVars, mapVars
    <2>2. ASSUME NEW f \in Fields, IndexExisting(f)
          PROVE  TypeOK'
        <3>1. PICK n \in Names, h \in Hashes :
                  /\ indexing' = [indexing EXCEPT ![f] = @ \ {<<n, h>>}]
                  /\ clusters' = IF clusters[n].hash = h
                                 THEN [clusters EXCEPT ![n].fields = @ \union {f}]
                                 ELSE clusters
            BY <2>2 DEF IndexExisting
        <3>2. UNCHANGED <<mcp, secret, reachable, seen, queue, work, running, engaged,
                          leaving, indexers, faults>>
            BY <2>2 DEF IndexExisting, mcpVars
        <3>3. indexing' \in [Fields -> SUBSET (Names \X Hashes)]
            BY <3>1 DEF TypeOK
        <3>4. clusters' \in [Names -> [hash : Hashes \union {None}, fields : SUBSET Fields]]
            <4>1. clusters \in [Names -> [hash : Hashes \union {None}, fields : SUBSET Fields]]
                BY DEF TypeOK
            <4>2. [clusters[n] EXCEPT !.fields = @ \union {f}]
                      \in [hash : Hashes \union {None}, fields : SUBSET Fields]
                BY <4>1
            <4> QED
                BY <3>1, <4>1, <4>2
        <3> QED
            BY <3>2, <3>3, <3>4 DEF TypeOK
    <2> QED
        BY <1>3, <2>1, <2>2 DEF Indexing
<1>4. ASSUME NEW n \in Names, Reconcile(n) \/ LetGo(n) \/ Deliver(n) \/ DelayEnds(n) \/ Resync(n)
      PROVE  TypeOK'
    <2>1. CASE ReconcileDeleted(n)
        <3>1. work.pc = "idle" /\ work.hash = None
            BY <2>1 DEF ReconcileDeleted, Takes, At, TypeOK
        <3>2. queue' \in [Names -> {"none", "delayed", "ready"}]
            BY <2>1 DEF ReconcileDeleted, Taken, TypeOK
        <3>3. CASE RemoveCluster(n, "remove") /\ UNCHANGED engaged
            BY <2>1, <3>1, <3>2, <3>3, RemoveClusterType
               DEF ReconcileDeleted, RemoveCluster, TypeOK, Removals, mcpVars, indexVars
        <3>4. CASE UNCHANGED <<work, mapVars>>
            BY <2>1, <3>2, <3>4 DEF ReconcileDeleted, TypeOK, mcpVars, mapVars, indexVars
        <3> QED
            BY <2>1, <3>3, <3>4 DEF ReconcileDeleted
    <2>2. CASE ReconcileNotReady(n)
        BY <2>2 DEF ReconcileNotReady, TypeOK, mcpVars, mapVars, indexVars
    <2>3. CASE ReconcileReady(n)
        BY <2>3 DEF ReconcileReady, Taken, Idle, TypeOK, Stages, Removals, mcpVars, mapVars, indexVars
    <2>4. CASE Deliver(n)
        BY <2>4 DEF Deliver, TypeOK, mcpVars, mapVars, indexVars
    <2>5. CASE DelayEnds(n)
        BY <2>5 DEF DelayEnds, TypeOK, mcpVars, mapVars, indexVars
    <2>6. CASE Resync(n)
        BY <2>6 DEF Resync, TypeOK, mcpVars, mapVars, indexVars
    <2>7. CASE LetGo(n)
        BY <2>7 DEF LetGo, TypeOK, mcpVars, indexVars
    <2> QED
        BY <1>4, <2>1, <2>2, <2>3, <2>4, <2>5, <2>6, <2>7 DEF Reconcile
<1>5. CASE Environment
    <2>1. PICK n \in Names :
              \/ ReportReady(n) \/ ReportNotReady(n) \/ RewriteKubeconfig(n)
              \/ Delete(n) \/ Disappear(n) \/ Outage(n) \/ ServeAPI(n)
        BY <1>5 DEF Environment
    <2>2. CASE ReportReady(n)
        <3>1. secret' \in [Names -> Hashes \union {None}]
            <4>1. secret \in [Names -> Hashes \union {None}]
                BY DEF TypeOK
            <4> QED
                BY <2>2, <4>1 DEF ReportReady
        <3>2. mcp' \in [Names -> Objects]
            BY <2>2, PhaseReadyType DEF ReportReady
        <3> QED
            <4>1. UNCHANGED <<reachable, seen, queue, work, clusters, running, engaged, leaving,
                              indexers, indexing, faults>>
                BY <2>2 DEF ReportReady, mapVars, indexVars
            <4> QED
                BY <3>1, <3>2, <4>1 DEF TypeOK
    <2>3. CASE ReportNotReady(n)
        <3>1. mcp' \in [Names -> Objects]
            BY <2>3, PhaseReadyType DEF ReportNotReady
        <3> QED
            BY <2>3, <3>1 DEF ReportNotReady, TypeOK, mapVars, indexVars
    <2>4. CASE RewriteKubeconfig(n)
        BY <2>4 DEF RewriteKubeconfig, Fault, TypeOK, mapVars, indexVars
    <2>5. CASE Delete(n)
        <3>1. mcp' \in [Names -> Objects]
            BY <2>5, PhaseReadyType DEF Delete
        <3> QED
            BY <2>5, <3>1 DEF Delete, TypeOK, mapVars, indexVars
    <2>6. CASE Disappear(n)
        <3>1. mcp' \in [Names -> Objects]
            BY <2>6, PhaseReadyType DEF Disappear
        <3>2. /\ secret' \in [Names -> Hashes \union {None}]
              /\ reachable' \in [Names -> BOOLEAN]
            BY <2>6 DEF Disappear, TypeOK
        <3> QED
            BY <2>6, <3>1, <3>2 DEF Disappear, TypeOK, mapVars, indexVars
    <2>7. CASE Outage(n)
        BY <2>7 DEF Outage, Fault, TypeOK, mapVars, indexVars
    <2>8. CASE ServeAPI(n)
        BY <2>8 DEF ServeAPI, TypeOK, mapVars, indexVars
    <2> QED
        BY <2>1, <2>2, <2>3, <2>4, <2>5, <2>6, <2>7, <2>8
<1> QED
    BY <1>1, <1>2, <1>3, <1>4, <1>5 DEF Next

\* The worker's hold on the map, the engagements and the running clusters are
\* preserved.  Only five kinds of step touch them: removal, cancelling, start,
\* storing and engaging.
LEMMA NextMap == MapInv /\ [Next]_vars => MapAgrees'
<1> SUFFICES ASSUME MapInv, [Next]_vars
             PROVE  MapAgrees'
    OBVIOUS
<1> USE NoneAssumption
<1>t. TypeOK
    BY DEF MapInv
<1>0. ASSUME UNCHANGED <<clusters, running, engaged, work>>
      PROVE  MapAgrees'
    BY <1>0 DEF MapInv, MapAgrees, WorkerOwns, EngagedIsStored, StoredIsRunning,
       RunningIsOwned, Stored, Removing
\* A step of the worker that leaves the map alone, gives up no started cluster
\* and claims no stored one.
<1>m. ASSUME UNCHANGED mapVars, work.pc \notin {"sync", "store"} \union Removals,
             work'.pc \in {"idle", "secret", "lookup"}
      PROVE  MapAgrees'
    <2>1. work.removed = None /\ UNCHANGED <<clusters, running, engaged>>
        BY <1>t, <1>m DEF TypeOK, mapVars
    <2>2. EngagedIsStored'
        BY <2>1 DEF MapInv, MapAgrees, EngagedIsStored, Removing
    <2>3. RunningIsOwned'
        BY <1>t, <1>m, <2>1 DEF MapInv, MapAgrees, TypeOK, RunningIsOwned, Removing
    <2> QED
        BY <1>m, <2>1, <2>2, <2>3
           DEF MapInv, MapAgrees, WorkerOwns, StoredIsRunning, Stored, Removals
\* The worker takes a cluster out of the map: from then on it owns it.
<1>r. ASSUME NEW n \in Names, NEW stage \in Removals, RemoveCluster(n, stage),
             work.pc \in {"idle", "lookup", "engage"},
             engaged'[n] \in {engaged[n], clusters[n].hash},
             \A m \in Names \ {n} : engaged'[m] = engaged[m]
      PROVE  MapAgrees'
    <2>1. work.removed = None
        BY <1>t, <1>r DEF TypeOK, Removals
    <2>2. /\ clusters'[n].hash = None
          /\ work'.name = n /\ work'.pc = stage
          /\ work'.removed = clusters[n].hash /\ clusters[n].hash \in Hashes
          /\ \A m \in Names \ {n} : clusters'[m] = clusters[m]
          /\ running' = running
        BY <1>t, <1>r, RemoveClusterHands
    <2>3. WorkerOwns'
        BY <2>2 DEF WorkerOwns, Removals
    <2>4. EngagedIsStored'
        <3>1. \A m \in Names : engaged[m] # None => clusters[m].hash = engaged[m]
            BY <2>1 DEF MapInv, MapAgrees, EngagedIsStored, Removing
        <3> QED
            BY <1>r, <2>2, <3>1 DEF EngagedIsStored, Removing
    <2>5. StoredIsRunning'
        BY <2>2 DEF MapInv, MapAgrees, StoredIsRunning, Stored
    <2>6. RunningIsOwned'
        <3>1. \A m \in Names : \A h \in running[m] : clusters[m].hash = h
            BY <1>t, <1>r, <2>1 DEF MapInv, MapAgrees, TypeOK, RunningIsOwned, Removing
        <3> QED
            BY <2>2, <3>1 DEF RunningIsOwned, Removing
    <2> QED
        BY <2>3, <2>4, <2>5, <2>6 DEF MapAgrees
<1>1. CASE UNCHANGED vars
    BY <1>1, <1>0 DEF vars
<1>2. CASE Continue
    <2>1. CASE GetSecret
        BY <2>1, <1>t, <1>m DEF GetSecret, At, TypeOK, Removals
    <2>2. CASE GetSecretFails
        BY <2>2, <1>m DEF GetSecretFails, At, ReturnRetry, Idle, Removals
    <2>3. CASE AlreadyEngaged
        BY <2>3, <1>m DEF AlreadyEngaged, At, Return, Idle, Removals
    <2>4. CASE KubeconfigChanged
        <3>1. work.name \in Names /\ work.pc = "lookup" /\ work.removed = None
            BY <2>4, <1>t, WorkerNamed DEF KubeconfigChanged, At, TypeOK, Removals
        <3>2. CASE RemoveCluster(work.name, "replace") /\ UNCHANGED engaged
            BY <3>1, <3>2, <1>r DEF Removals
        <3>3. CASE ~ Stored(work.name) /\ GoTo("ping") /\ UNCHANGED mapVars
            <4>1. /\ work'.pc = "ping" /\ work'.name = work.name
                  /\ work'.removed = None /\ UNCHANGED <<clusters, running, engaged>>
                BY <1>t, <3>1, <3>3 DEF GoTo, TypeOK, mapVars
            <4>2. WorkerOwns'
                BY <3>3, <4>1 DEF WorkerOwns, Stored, Removals
            <4>3. RunningIsOwned'
                BY <1>t, <3>1, <4>1 DEF MapInv, MapAgrees, TypeOK, RunningIsOwned, Removing
            <4> QED
                BY <3>1, <4>1, <4>2, <4>3
                   DEF MapInv, MapAgrees, EngagedIsStored, StoredIsRunning, Stored, Removing
        <3> QED
            BY <2>4, <3>2, <3>3 DEF KubeconfigChanged
    <2>5. CASE ServerVersion
        <3>1. CASE reachable[work.name]
            <4>1. /\ work.pc = "ping" /\ work'.pc = "create" /\ work'.name = work.name
                  /\ work'.removed = None /\ work.removed = None
                  /\ UNCHANGED <<clusters, running, engaged>>
                BY <2>5, <3>1, <1>t DEF ServerVersion, At, GoTo, TypeOK, mapVars, Removals
            <4> QED
                BY <4>1 DEF MapInv, MapAgrees, WorkerOwns, EngagedIsStored,
                   StoredIsRunning, RunningIsOwned, Stored, Removing, Removals
        <3>2. CASE ~ reachable[work.name]
            BY <2>5, <3>2, <1>m DEF ServerVersion, At, ReturnRetry, Idle, Removals
        <3> QED
            BY <3>1, <3>2
    <2>6. CASE CreateCluster
        <3>1. /\ work.name \in Names /\ work'.name = work.name /\ work'.hash = work.hash
              /\ work'.pc = "sync" /\ work.pc = "create"
              /\ work.removed = None /\ work'.removed = None
            BY <2>6, <1>t, WorkerNamed DEF CreateCluster, At, TypeOK, Removals
        <3>2. UNCHANGED <<clusters, engaged>>
            BY <2>6 DEF CreateCluster
        <3>3. /\ running'[work.name] = running[work.name] \union {work.hash}
              /\ \A n \in Names \ {work.name} : running'[n] = running[n]
            BY <2>6, <3>1, <1>t DEF CreateCluster, TypeOK
        <3>4. RunningIsOwned'
            BY <3>1, <3>2, <3>3 DEF MapInv, MapAgrees, RunningIsOwned, Removing
        <3>5. StoredIsRunning' /\ EngagedIsStored'
            BY <3>1, <3>2, <3>3
               DEF MapInv, MapAgrees, StoredIsRunning, Stored, EngagedIsStored, Removing
        <3>6. WorkerOwns'
            BY <3>1, <3>2, <3>3 DEF MapInv, MapAgrees, WorkerOwns, Removals
        <3> QED
            BY <3>4, <3>5, <3>6 DEF MapAgrees
    <2>7. CASE CreateClusterFails
        BY <2>7, <1>m DEF CreateClusterFails, At, ReturnRetry, Idle, Removals
    <2>8. CASE WaitForCacheSync
        <3>1. /\ work.pc = "sync" /\ work'.pc = "store"
              /\ work'.name = work.name /\ work'.hash = work.hash
              /\ work.removed = None /\ work'.removed = None
              /\ UNCHANGED <<clusters, running, engaged>>
            BY <2>8, <1>t DEF WaitForCacheSync, At, GoTo, TypeOK, Removals, mapVars
        <3> QED
            BY <3>1 DEF MapInv, MapAgrees, WorkerOwns, EngagedIsStored,
               StoredIsRunning, RunningIsOwned, Stored, Removing, Removals
    <2>9. CASE StoreCluster
        <3>1. /\ work.pc = "store" /\ work'.pc = "addons"
              /\ work'.name = work.name /\ work'.hash = work.hash
              /\ work.removed = None /\ work'.removed = None
              /\ work.name \in Names
            BY <2>9, <1>t, WorkerNamed DEF StoreCluster, At, GoTo, TypeOK, Removals
        <3>2. clusters[work.name].hash = None /\ work.hash \in running[work.name]
            BY <3>1 DEF MapInv, MapAgrees, WorkerOwns
        <3>3. /\ clusters'[work.name].hash = work.hash
              /\ \A m \in Names \ {work.name} : clusters'[m] = clusters[m]
              /\ UNCHANGED <<running, engaged>>
            BY <2>9, <3>1, <1>t DEF StoreCluster, TypeOK
        <3>4. WorkerOwns'
            BY <3>1, <3>3 DEF WorkerOwns, Removals
        <3>5. EngagedIsStored'
            BY <3>1, <3>2, <3>3 DEF MapInv, MapAgrees, EngagedIsStored, Removing
        <3>6. StoredIsRunning'
            BY <3>2, <3>3 DEF MapInv, MapAgrees, StoredIsRunning, Stored
        <3>7. \A h \in running[work.name] : h = work.hash
            BY <3>1, <3>2, <1>t DEF MapInv, MapAgrees, RunningIsOwned, Removing, TypeOK
        <3>8. RunningIsOwned'
            BY <3>1, <3>3, <3>7 DEF MapInv, MapAgrees, RunningIsOwned, Removing
        <3> QED
            BY <3>4, <3>5, <3>6, <3>8 DEF MapAgrees
    <2>10. CASE ReconcileManagedAddons
        <3>1. /\ work.pc = "addons" /\ work'.pc = "engage"
              /\ work'.name = work.name /\ work'.hash = work.hash
              /\ work.removed = None /\ work'.removed = None
              /\ UNCHANGED <<clusters, running, engaged>>
            BY <2>10, <1>t DEF ReconcileManagedAddons, At, GoTo, TypeOK, Removals, mapVars
        <3> QED
            BY <3>1 DEF MapInv, MapAgrees, WorkerOwns, EngagedIsStored,
               StoredIsRunning, RunningIsOwned, Stored, Removing, Removals
    <2>11. CASE ReconcileManagedAddonsFails
        BY <2>11, <1>m DEF ReconcileManagedAddonsFails, At, ReturnRetry, Idle, Removals
    <2>12. CASE Engage
        <3>1. /\ work.pc = "engage" /\ work.name \in Names /\ work'.pc = "idle"
              /\ clusters[work.name].hash = work.hash
              /\ work.removed = None
            BY <2>12, <1>t, WorkerNamed
               DEF Engage, At, Return, Idle, MapInv, MapAgrees, WorkerOwns, TypeOK, Removals
        <3>2. /\ engaged'[work.name] = work.hash
              /\ \A m \in Names \ {work.name} : engaged'[m] = engaged[m]
              /\ UNCHANGED <<clusters, running>>
            BY <2>12, <3>1, <1>t DEF Engage, TypeOK
        <3>3. EngagedIsStored' /\ WorkerOwns'
            BY <3>1, <3>2 DEF MapInv, MapAgrees, EngagedIsStored, Removing,
               WorkerOwns, Removals
        <3>4. StoredIsRunning'
            BY <3>2 DEF MapInv, MapAgrees, StoredIsRunning, Stored
        <3>5. RunningIsOwned'
            BY <1>t, <3>1, <3>2 DEF MapInv, MapAgrees, TypeOK, RunningIsOwned, Removing
        <3> QED
            BY <3>3, <3>4, <3>5 DEF MapAgrees
    <2>13. CASE EngageFails
        <3>1. /\ work.name \in Names /\ work.pc = "engage"
              /\ clusters[work.name].hash = work.hash
            BY <2>13, <1>t, WorkerNamed DEF EngageFails, At, MapInv, MapAgrees, WorkerOwns
        <3>2. /\ engaged'[work.name] \in {engaged[work.name], work.hash}
              /\ \A m \in Names \ {work.name} : engaged'[m] = engaged[m]
            BY <2>13, <3>1, <1>t DEF EngageFails, TypeOK
        <3> QED
            BY <2>13, <3>1, <3>2, <1>r DEF EngageFails, Removals
    <2>14. CASE CancelRemoved
        <3>1. /\ work.name \in Names /\ work.pc \in Removals
              /\ clusters' = clusters /\ clusters[work.name].hash = None
              /\ running'[work.name] = {} /\ engaged'[work.name] = None
              /\ \A m \in Names \ {work.name} :
                    running'[m] = running[m] /\ engaged'[m] = engaged[m]
              /\ work' = Idle \/ (work'.pc = "ping" /\ work'.name = work.name)
            BY <2>14, CancelRemovedStops
        <3>2. WorkerOwns'
            BY <3>1 DEF WorkerOwns, Idle, Removals
        <3>3. EngagedIsStored'
            BY <3>1 DEF MapInv, MapAgrees, EngagedIsStored, Removing
        <3>4. StoredIsRunning'
            BY <3>1 DEF MapInv, MapAgrees, StoredIsRunning, Stored
        <3>5. RunningIsOwned'
            BY <3>1 DEF MapInv, MapAgrees, RunningIsOwned, Removing
        <3> QED
            BY <3>2, <3>3, <3>4, <3>5 DEF MapAgrees
    <2> QED
        BY <1>2, <2>1, <2>2, <2>3, <2>4, <2>5, <2>6, <2>7, <2>8, <2>9, <2>10,
           <2>11, <2>12, <2>13, <2>14 DEF Continue, CreateAndEngageCluster
<1>3. CASE Indexing
    <2>1. ASSUME NEW f \in Fields, IndexField(f)
          PROVE  MapAgrees'
        BY <2>1, <1>0 DEF IndexField, mapVars
    <2>2. ASSUME NEW f \in Fields, IndexExisting(f)
          PROVE  MapAgrees'
        <3>1. \A n \in Names : clusters'[n].hash = clusters[n].hash
            BY <2>2, <1>t DEF IndexExisting, TypeOK
        <3>2. UNCHANGED <<running, engaged, work>>
            BY <2>2 DEF IndexExisting
        <3>3. work.pc # "idle" => work.name \in Names
            BY <1>t, WorkerNamed
        <3> QED
            BY <3>1, <3>2, <3>3 DEF MapInv, MapAgrees, WorkerOwns, EngagedIsStored,
               StoredIsRunning, RunningIsOwned, Stored, Removing, Removals
    <2> QED
        BY <1>3, <2>1, <2>2 DEF Indexing
<1>4. ASSUME NEW n \in Names, Reconcile(n) \/ LetGo(n) \/ Deliver(n) \/ DelayEnds(n) \/ Resync(n)
      PROVE  MapAgrees'
    <2>1. CASE ReconcileDeleted(n)
        <3>1. work.pc = "idle"
            BY <2>1 DEF ReconcileDeleted, Takes, At
        <3>2. CASE RemoveCluster(n, "remove") /\ UNCHANGED engaged
            BY <3>1, <3>2, <1>r DEF Removals
        <3>3. CASE UNCHANGED <<work, mapVars>>
            BY <3>3, <1>0 DEF mapVars
        <3> QED
            BY <2>1, <3>2, <3>3 DEF ReconcileDeleted
    <2>2. CASE ReconcileNotReady(n)
        BY <2>2, <1>0 DEF ReconcileNotReady, mapVars
    <2>3. CASE ReconcileReady(n)
        BY <2>3, <1>m DEF ReconcileReady, Takes, At, Idle, Removals
    <2>4. CASE Deliver(n)
        BY <2>4, <1>0 DEF Deliver, mapVars
    <2>5. CASE DelayEnds(n)
        BY <2>5, <1>0 DEF DelayEnds, mapVars
    <2>6. CASE Resync(n)
        BY <2>6, <1>0 DEF Resync, mapVars
    <2>7. CASE LetGo(n)
        BY <2>7, <1>0 DEF LetGo
    <2> QED
        BY <1>4, <2>1, <2>2, <2>3, <2>4, <2>5, <2>6, <2>7 DEF Reconcile
<1>5. CASE Environment
    BY <1>5, <1>0 DEF Environment, ReportReady, ReportNotReady, RewriteKubeconfig,
       Delete, Disappear, Outage, ServeAPI, mapVars
<1> QED
    BY <1>1, <1>2, <1>3, <1>4, <1>5 DEF Next

-----------------------------------------------------------------------------
(* What is listed.                                                         *)

\* Nothing fails between the store of a cluster and its engagement that leaves
\* the cluster in the map.
NoAddonFault == "addons" \notin FaultKinds

\* A cluster in the map is engaged, or the worker is about to engage it.
ListedInv ==
    \A n \in Names : Stored(n) =>
        \/ engaged[n] # None
        \/ work.name = n /\ work.pc \in {"addons", "engage"}

\* A cluster that is removed is neither stored nor engaged, the others stay.
LEMMA RemoveClusterListed ==
    ASSUME TypeOK, ListedInv, NEW n \in Names, NEW stage \in Removals,
           RemoveCluster(n, stage),
           \A m \in Names \ {n} : engaged'[m] = engaged[m],
           \A m \in Names \ {n} :
               work.pc \in {"addons", "engage"} => work.name # m
    PROVE  ListedInv'
<1>1. ~ Stored(n)' /\ \A m \in Names \ {n} : clusters'[m] = clusters[m]
    BY RemoveClusterHands DEF Stored
<1> QED
    BY <1>1 DEF ListedInv, Stored

LEMMA NextListed ==
    NoAddonFault /\ MapInv /\ ListedInv /\ [Next]_vars => ListedInv'
<1> SUFFICES ASSUME NoAddonFault, MapInv, TypeOK, ListedInv, [Next]_vars
             PROVE  ListedInv'
    BY DEF MapInv
<1> USE NoneAssumption
\* A step that leaves the map alone while the worker is elsewhere.
<1>0. ASSUME UNCHANGED <<clusters, engaged>>,
             UNCHANGED work \/ work.pc \notin {"addons", "engage"}
      PROVE  ListedInv'
    BY <1>0 DEF ListedInv, Stored
<1>1. CASE UNCHANGED vars
    BY <1>1, <1>0 DEF vars
<1>2. CASE Continue
    <2>1. CASE GetSecret \/ GetSecretFails \/ AlreadyEngaged
        BY <2>1, <1>0 DEF GetSecret, GetSecretFails, AlreadyEngaged, At, mapVars
    <2>2. CASE KubeconfigChanged
        <3>1. work.name \in Names /\ work.pc = "lookup"
            BY <2>2, WorkerNamed DEF KubeconfigChanged, At
        <3> QED
            BY <2>2, <3>1, <1>0, RemoveClusterListed DEF KubeconfigChanged, mapVars, Removals
    <2>3. CASE ServerVersion \/ CreateClusterFails \/ CreateCluster \/ WaitForCacheSync
        BY <2>3, <1>0 DEF ServerVersion, CreateClusterFails, CreateCluster,
           WaitForCacheSync, At, mapVars
    <2>4. CASE StoreCluster
        <3>1. /\ work.pc = "store" /\ work'.pc = "addons" /\ work'.name = work.name
              /\ work.name \in Names
            BY <2>4, WorkerNamed DEF StoreCluster, At, GoTo, TypeOK
        <3>2. /\ \A m \in Names \ {work.name} : clusters'[m] = clusters[m]
              /\ engaged' = engaged
            BY <2>4 DEF StoreCluster, TypeOK
        <3> QED
            BY <3>1, <3>2 DEF ListedInv, Stored
    <2>5. CASE ReconcileManagedAddons
        <3>1. work.pc = "addons" /\ work'.pc = "engage" /\ work'.name = work.name
            BY <2>5 DEF ReconcileManagedAddons, At, GoTo, TypeOK
        <3> QED
            BY <2>5, <3>1 DEF ReconcileManagedAddons, mapVars, ListedInv, Stored
    <2>6. CASE ReconcileManagedAddonsFails
        BY <2>6 DEF ReconcileManagedAddonsFails, Fault, NoAddonFault
    <2>7. CASE Engage
        <3>1. work.name \in Names /\ work.hash \in Hashes
            BY <2>7, WorkerNamed DEF Engage, At, TypeOK
        <3>2. /\ engaged'[work.name] # None
              /\ \A m \in Names \ {work.name} : engaged'[m] = engaged[m]
              /\ clusters' = clusters
            BY <2>7, <3>1 DEF Engage, TypeOK
        <3> QED
            BY <3>2 DEF ListedInv, Stored
    <2>8. CASE EngageFails
        <3>1. /\ work.name \in Names
              /\ \A m \in Names \ {work.name} : engaged'[m] = engaged[m]
            BY <2>8, WorkerNamed DEF EngageFails, At, TypeOK
        <3> QED
            BY <2>8, <3>1, RemoveClusterListed DEF EngageFails, Removals
    <2>9. CASE CancelRemoved
        <3>1. /\ work.name \in Names /\ work.pc \in Removals
              /\ clusters' = clusters /\ clusters[work.name].hash = None
              /\ \A m \in Names \ {work.name} : engaged'[m] = engaged[m]
            BY <2>9, CancelRemovedStops
        <3> QED
            BY <3>1 DEF ListedInv, Stored, Removals
    <2> QED
        BY <1>2, <2>1, <2>2, <2>3, <2>4, <2>5, <2>6, <2>7, <2>8, <2>9
           DEF Continue, CreateAndEngageCluster
<1>3. CASE Indexing
    <2>1. ASSUME NEW f \in Fields, IndexField(f) PROVE ListedInv'
        BY <2>1, <1>0 DEF IndexField, mapVars
    <2>2. ASSUME NEW f \in Fields, IndexExisting(f) PROVE ListedInv'
        <3>1. \A n \in Names : clusters'[n].hash = clusters[n].hash
            BY <2>2 DEF IndexExisting, TypeOK
        <3> QED
            BY <2>2, <3>1 DEF IndexExisting, ListedInv, Stored
    <2> QED
        BY <1>3, <2>1, <2>2 DEF Indexing
<1>4. ASSUME NEW n \in Names, Reconcile(n) \/ LetGo(n) \/ Deliver(n) \/ DelayEnds(n) \/ Resync(n)
      PROVE  ListedInv'
    <2>1. CASE ReconcileDeleted(n)
        BY <2>1, <1>0, RemoveClusterListed DEF ReconcileDeleted, Takes, At, Removals, mapVars
    <2>2. CASE ReconcileNotReady(n) \/ ReconcileReady(n)
        BY <2>2, <1>0 DEF ReconcileNotReady, ReconcileReady, Takes, At, mapVars
    <2>3. CASE LetGo(n) \/ Deliver(n) \/ DelayEnds(n) \/ Resync(n)
        BY <2>3, <1>0 DEF LetGo, Deliver, DelayEnds, Resync, mapVars
    <2> QED
        BY <1>4, <2>1, <2>2, <2>3 DEF Reconcile
<1>5. CASE Environment
    BY <1>5, <1>0 DEF Environment, ReportReady, ReportNotReady, RewriteKubeconfig,
       Delete, Disappear, Outage, ServeAPI, mapVars
<1> QED
    BY <1>1, <1>2, <1>3, <1>4, <1>5 DEF Next

-----------------------------------------------------------------------------
(* What is not due. *)

\* A control plane that is not due is, as the provider knows it, Ready and in
\* the worker's hands or engaged, or it is gone and stopped or being stopped.
Needless(n) ==
    \/ /\ seen[n].phase = "live" /\ seen[n].ready
       /\ \/ work.name = n /\ work.pc # "remove"
          \/ work.name # n /\ engaged[n] # None
    \/ /\ seen[n].phase # "live"
       /\ \/ work.name # n /\ ~ Stored(n) /\ running[n] = {}
          \/ work.name = n /\ work.pc = "remove"

ForgottenInv == \A n \in Names : queue[n] = "none" => Needless(n)

\* Needless speaks of one control plane only.
LEMMA NeedlessStays ==
    ASSUME NEW n \in Names, Needless(n), seen'[n] = seen[n],
           work' = work \/ (work'.name # n /\ work.name # n),
           clusters'[n].hash = clusters[n].hash, running'[n] = running[n],
           engaged'[n] = engaged[n]
    PROVE  Needless(n)'
BY DEF Needless, Stored

\* The worker ends a reconcile by asking for another one, or with a control
\* plane that is engaged; nothing else is touched.
LEMMA WorkerLeaves ==
    ASSUME TypeOK, ForgottenInv, work.pc \notin {"idle", "remove"}, work' = Idle,
           seen' = seen,
           queue'[work.name] # "none" \/ engaged'[work.name] # None,
           \A m \in Names : queue'[m] = "none" => queue[m] = "none",
           \A m \in Names \ {work.name} :
               /\ clusters'[m] = clusters[m] /\ running'[m] = running[m]
               /\ engaged'[m] = engaged[m]
    PROVE  ForgottenInv'
<1> SUFFICES ASSUME NEW m \in Names, queue'[m] = "none"
             PROVE  Needless(m)'
    BY DEF ForgottenInv
<1>1. Needless(m)
    BY DEF ForgottenInv
<1>2. work'.name = None /\ None \notin Names
    BY NoneAssumption DEF Idle
<1>3. CASE m = work.name
    BY <1>1, <1>2, <1>3 DEF Needless
<1>4. CASE m # work.name
    BY <1>1, <1>2, <1>4, NeedlessStays
<1> QED
    BY <1>3, <1>4

\* The worker goes on with its control plane, which is Ready as long as it is
\* not due again: what it does to that one is of no matter.
LEMMA WorkerGoesOn ==
    ASSUME TypeOK, ForgottenInv, work.pc \notin {"idle", "remove"},
           work'.name = work.name, work'.pc # "remove",
           seen' = seen, queue' = queue,
           \A m \in Names \ {work.name} :
               /\ clusters'[m].hash = clusters[m].hash
               /\ running'[m] = running[m] /\ engaged'[m] = engaged[m]
    PROVE  ForgottenInv'
<1> SUFFICES ASSUME NEW m \in Names, queue[m] = "none"
             PROVE  Needless(m)'
    BY DEF ForgottenInv
<1>1. Needless(m)
    BY DEF ForgottenInv
<1>2. CASE m = work.name
    BY <1>1, <1>2 DEF Needless
<1>3. CASE m # work.name
    BY <1>1, <1>3, NeedlessStays
<1> QED
    BY <1>2, <1>3

\* A step of somebody else that may make control planes due.
LEMMA OthersForget ==
    ASSUME ForgottenInv, work' = work, running' = running, engaged' = engaged,
           \A m \in Names : clusters'[m].hash = clusters[m].hash,
           \A m \in Names : queue'[m] = "none" =>
               queue[m] = "none" /\ seen'[m] = seen[m]
    PROVE  ForgottenInv'
BY NeedlessStays DEF ForgottenInv

LEMMA NextForgotten ==
    MapInv /\ ListedInv /\ ForgottenInv /\ NoAddonFault /\ [Next]_vars
        => ForgottenInv'
<1> SUFFICES ASSUME MapInv, TypeOK, ListedInv, ForgottenInv, NoAddonFault,
                    [Next]_vars
             PROVE  ForgottenInv'
    BY DEF MapInv
<1> USE NoneAssumption
\* A reconcile that returns with a repetition.
<1>0. ASSUME work.pc \notin {"idle", "remove"}, ReturnRetry(work.name), seen' = seen,
             \A m \in Names \ {work.name} :
               /\ clusters'[m] = clusters[m] /\ running'[m] = running[m]
               /\ engaged'[m] = engaged[m]
      PROVE  ForgottenInv'
    <2>1. work' = Idle /\ work.name \in Names
        BY <1>0, WorkerNamed DEF ReturnRetry
    <2>2. /\ queue'[work.name] # "none"
          /\ \A m \in Names : queue'[m] = "none" => queue[m] = "none"
        BY <1>0, <2>1 DEF ReturnRetry, TypeOK
    <2> QED
        BY <1>0, <2>1, <2>2, WorkerLeaves
<1>1. CASE UNCHANGED vars
    BY <1>1, OthersForget DEF vars
<1>2. CASE Continue
    <2>0. work.pc # "idle" /\ work.name \in Names
        <3>1. work.pc # "idle"
            BY <1>2 DEF Continue, CreateAndEngageCluster, GetSecret, GetSecretFails,
               AlreadyEngaged, KubeconfigChanged, ServerVersion, CreateCluster,
               CreateClusterFails, WaitForCacheSync, StoreCluster,
               ReconcileManagedAddons, ReconcileManagedAddonsFails, Engage,
               EngageFails, CancelRemoved, At, Removals
        <3> QED
            BY <3>1, WorkerNamed
    <2>1. CASE GetSecret
        BY <2>0, <2>1, WorkerGoesOn DEF GetSecret, At, TypeOK, mapVars
    <2>2. CASE GetSecretFails \/ CreateClusterFails
        BY <2>0, <2>2, <1>0 DEF GetSecretFails, CreateClusterFails, At, mapVars
    <2>3. CASE AlreadyEngaged
        <3>1. work.pc = "lookup" /\ work.hash # None /\ Stored(work.name)
            BY <2>3 DEF AlreadyEngaged, At, SameHash, Stored, TypeOK
        <3>2. engaged[work.name] # None
            BY <3>1, <2>0 DEF ListedInv
        <3>3. UNCHANGED <<queue, seen, clusters, running, engaged>> /\ work' = Idle
            BY <2>3 DEF AlreadyEngaged, Return, mapVars
        <3> QED
            BY <2>0, <3>1, <3>2, <3>3, WorkerLeaves
    <2>4. CASE KubeconfigChanged
        <3>1. /\ work'.name = work.name /\ UNCHANGED <<seen, queue>>
              /\ work'.pc # "remove" /\ work.pc = "lookup"
            BY <2>4 DEF KubeconfigChanged, RemoveCluster, GoTo, At, TypeOK
        <3>2. \A m \in Names \ {work.name} :
                  /\ clusters'[m].hash = clusters[m].hash
                  /\ running'[m] = running[m] /\ engaged'[m] = engaged[m]
            BY <2>4, <2>0 DEF KubeconfigChanged, RemoveCluster, mapVars, TypeOK
        <3> QED
            BY <2>0, <3>1, <3>2, WorkerGoesOn
    <2>5. CASE ServerVersion
        <3>1. work.pc = "ping" /\ UNCHANGED <<seen, clusters, running, engaged>>
            BY <2>5 DEF ServerVersion, At, mapVars
        <3>2. CASE ReturnRetry(work.name)
            BY <2>0, <3>1, <3>2, <1>0
        <3>3. CASE GoTo("create") /\ UNCHANGED queue
            BY <2>0, <3>1, <3>3, WorkerGoesOn DEF GoTo, TypeOK
        <3> QED
            BY <2>5, <3>2, <3>3 DEF ServerVersion
    <2>6. CASE CreateCluster
        BY <2>0, <2>6, WorkerGoesOn DEF CreateCluster, At, TypeOK
    <2>7. CASE WaitForCacheSync \/ ReconcileManagedAddons
        BY <2>0, <2>7, WorkerGoesOn
           DEF WaitForCacheSync, ReconcileManagedAddons, GoTo, At, TypeOK, mapVars
    <2>8. CASE StoreCluster
        BY <2>0, <2>8, WorkerGoesOn DEF StoreCluster, GoTo, At, TypeOK
    <2>9. CASE ReconcileManagedAddonsFails
        BY <2>9 DEF ReconcileManagedAddonsFails, Fault, NoAddonFault
    <2>10. CASE Engage
        <3>1. engaged'[work.name] # None /\ work.pc = "engage"
            BY <2>0, <2>10 DEF Engage, At, TypeOK
        <3>2. /\ work' = Idle /\ UNCHANGED <<seen, queue, clusters, running>>
              /\ \A m \in Names \ {work.name} : engaged'[m] = engaged[m]
            BY <2>10 DEF Engage, Return, TypeOK
        <3> QED
            BY <2>0, <3>1, <3>2, WorkerLeaves
    <2>11. CASE EngageFails
        <3>1. /\ work'.name = work.name /\ UNCHANGED <<seen, queue>>
              /\ work'.pc # "remove" /\ work.pc = "engage"
            BY <2>11 DEF EngageFails, RemoveCluster, At, TypeOK
        <3>2. \A m \in Names \ {work.name} :
                  /\ clusters'[m].hash = clusters[m].hash
                  /\ running'[m] = running[m] /\ engaged'[m] = engaged[m]
            BY <2>11, <2>0 DEF EngageFails, RemoveCluster, TypeOK
        <3> QED
            BY <2>0, <3>1, <3>2, WorkerGoesOn
    <2>12. CASE CancelRemoved
        <3>1. /\ clusters' = clusters /\ clusters[work.name].hash = None
              /\ running'[work.name] = {} /\ work.pc \in Removals
              /\ \A m \in Names \ {work.name} :
                    running'[m] = running[m] /\ engaged'[m] = engaged[m]
            BY <2>12, CancelRemovedStops
        <3>2. seen' = seen
            BY <2>12 DEF CancelRemoved
        <3>3. CASE At("remove") /\ Return
            <4>1. work'.name = None /\ None \notin Names
                BY <3>3, NoneAssumption DEF Return, Idle
            <4>2. ASSUME NEW m \in Names, queue[m] = "none" PROVE Needless(m)'
                <5>1. Needless(m)
                    BY <4>2 DEF ForgottenInv
                <5>2. CASE m = work.name
                    <6>1. seen[m].phase # "live"
                        BY <2>12, <3>3, <5>1, <5>2 DEF At, Needless
                    <6> QED
                        BY <3>1, <3>2, <4>1, <5>2, <6>1 DEF Needless, Stored
                <5>3. CASE m # work.name
                    BY <3>1, <3>2, <4>1, <5>1, <5>3, NeedlessStays
                <5> QED
                    BY <5>2, <5>3
            <4> QED
                BY <3>3, <4>2 DEF ForgottenInv, Return
        <3>4. CASE At("replace") /\ UNCHANGED queue
                   /\ work' = [work EXCEPT !.pc = "ping", !.removed = None]
            BY <2>0, <3>1, <3>2, <3>4, WorkerGoesOn DEF At, TypeOK
        <3>5. CASE At("refuse") /\ ReturnRetry(work.name)
            BY <2>0, <3>1, <3>2, <3>5, <1>0 DEF At
        <3> QED
            BY <2>12, <3>3, <3>4, <3>5 DEF CancelRemoved
    <2> QED
        BY <1>2, <2>1, <2>2, <2>3, <2>4, <2>5, <2>6, <2>7, <2>8, <2>9, <2>10,
           <2>11, <2>12 DEF Continue, CreateAndEngageCluster
<1>3. CASE Indexing
    <2>1. ASSUME NEW f \in Fields, IndexField(f) PROVE ForgottenInv'
        BY <2>1, OthersForget DEF IndexField, mapVars
    <2>2. ASSUME NEW f \in Fields, IndexExisting(f) PROVE ForgottenInv'
        <3>1. \A n \in Names : clusters'[n].hash = clusters[n].hash
            BY <2>2 DEF IndexExisting, TypeOK
        <3> QED
            BY <2>2, <3>1, OthersForget DEF IndexExisting
    <2> QED
        BY <1>3, <2>1, <2>2 DEF Indexing
<1>4. ASSUME NEW n \in Names, Reconcile(n) \/ LetGo(n) \/ Deliver(n) \/ DelayEnds(n) \/ Resync(n)
      PROVE  ForgottenInv'
    <2>1. CASE ReconcileDeleted(n)
        <3>1. /\ work.pc = "idle" /\ work.name = None /\ UNCHANGED seen
              /\ \A m \in Names \ {n} : queue'[m] = queue[m]
              /\ seen[n].phase # "live"
            BY <2>1 DEF ReconcileDeleted, Takes, At, Taken, TypeOK
        <3>2. CASE RemoveCluster(n, "remove") /\ UNCHANGED engaged
            <4>1. /\ work'.name = n /\ work'.pc = "remove" /\ running' = running
                  /\ \A m \in Names \ {n} : clusters'[m] = clusters[m]
                BY <3>2, RemoveClusterHands DEF Removals
            <4>2. ASSUME NEW m \in Names \ {n}, queue'[m] = "none" PROVE Needless(m)'
                BY <3>1, <3>2, <4>1, <4>2, NeedlessStays DEF ForgottenInv
            <4>3. Needless(n)'
                BY <3>1, <4>1 DEF Needless
            <4> QED
                BY <4>2, <4>3 DEF ForgottenInv
        <3>3. CASE ~ Stored(n) /\ UNCHANGED <<work, mapVars>>
            <4>1. running[n] = {}
                BY <3>1, <3>3 DEF MapInv, MapAgrees, RunningIsOwned, Removing, Stored, TypeOK
            <4>2. ASSUME NEW m \in Names \ {n}, queue'[m] = "none" PROVE Needless(m)'
                BY <3>1, <3>3, <4>2, NeedlessStays DEF ForgottenInv, mapVars
            <4>3. Needless(n)'
                BY <3>1, <3>3, <4>1 DEF Needless, Stored, mapVars
            <4> QED
                BY <4>2, <4>3 DEF ForgottenInv
        <3> QED
            BY <2>1, <3>2, <3>3 DEF ReconcileDeleted
    <2>2. CASE ReconcileNotReady(n)
        <3>1. \A m \in Names : queue'[m] = "none" => queue[m] = "none"
            BY <2>2 DEF ReconcileNotReady, TypeOK
        <3> QED
            BY <2>2, <3>1, OthersForget DEF ReconcileNotReady, mapVars
    <2>3. CASE ReconcileReady(n)
        <3>1. /\ work.name = None /\ work'.name = n /\ work'.pc = "secret"
              /\ UNCHANGED <<seen, clusters, running, engaged>>
              /\ \A m \in Names \ {n} : queue'[m] = queue[m]
              /\ seen[n].phase = "live" /\ seen[n].ready
            BY <2>3 DEF ReconcileReady, Takes, At, Taken, Idle, mapVars, TypeOK
        <3>2. ASSUME NEW m \in Names \ {n}, queue'[m] = "none" PROVE Needless(m)'
            BY <3>1, <3>2, NeedlessStays DEF ForgottenInv
        <3>3. Needless(n)'
            BY <3>1 DEF Needless
        <3> QED
            BY <3>2, <3>3 DEF ForgottenInv
    <2>4. CASE LetGo(n) \/ Deliver(n) \/ DelayEnds(n) \/ Resync(n)
        <3>1. \A m \in Names : queue'[m] = "none" =>
                  queue[m] = "none" /\ seen'[m] = seen[m]
            BY <2>4 DEF LetGo, Deliver, DelayEnds, Resync, TypeOK
        <3> QED
            BY <2>4, <3>1, OthersForget DEF LetGo, Deliver, DelayEnds, Resync, mapVars
    <2> QED
        BY <1>4, <2>1, <2>2, <2>3, <2>4 DEF Reconcile
<1>5. CASE Environment
    BY <1>5, OthersForget DEF Environment, ReportReady, ReportNotReady,
       RewriteKubeconfig, Delete, Disappear, Outage, ServeAPI, mapVars
<1> QED
    BY <1>1, <1>2, <1>3, <1>4, <1>5 DEF Next

-----------------------------------------------------------------------------

\* The invariant holds in every reachable state.
THEOREM MapInvariant == Spec => []MapInv
<1>1. MapInv /\ [Next]_vars => MapInv'
    BY NextType, NextMap DEF MapInv
<1> QED
    BY InitMap, <1>1, PTL DEF Spec

\* Type correctness: in particular the worker holds a kubeconfig's hash from
\* the moment it has read the Secret (provider.go:203-209).
THEOREM ProviderTypeCorrect == Spec => []TypeOK
BY MapInvariant, PTL DEF MapInv

\* The manager works with a cluster that the provider does not hand out only
\* while the worker is about to cancel that cluster, or has done so: whatever
\* calls fail and however the kubeconfig changes, nothing that goes on running is
\* left to the manager alone (provider.go:211-223, 284-303, 327-339).
THEOREM EngagedAreStored == Spec => []EngagedIsStored
BY MapInvariant, PTL DEF MapInv, MapAgrees

\* Whoever reads the map never gets a cluster that has been cancelled, also
\* between the two halves of a removal (provider.go:157-163, 327-339).
THEOREM StoredAreRunning == Spec => []StoredIsRunning
BY MapInvariant, PTL DEF MapInv, MapAgrees

\* No started cluster loses the cancel function that stops it
\* (provider.go:271-291, 300-303, 327-339).
THEOREM RunningAreOwned == Spec => []RunningIsOwned
BY MapInvariant, PTL DEF MapInv, MapAgrees

\* A cluster in the map is engaged or about to be, unless the addon call between
\* store and engagement fails (provider.go:284-303).
THEOREM ListedInvariant ==
    ASSUME NoAddonFault PROVE Spec => []ListedInv
<1>1. Init => ListedInv
    BY DEF Init, ListedInv, Stored, NoCluster
<1>2. MapInv /\ ListedInv /\ [Next]_vars => ListedInv'
    BY NoAddonFault, NextListed
<1> QED
    BY <1>1, <1>2, MapInvariant, PTL DEF Spec

\* When the provider is at rest, what it lists is engaged, unless the addon
\* call between store and engagement failed (provider.go:284-303, 366).
THEOREM ListedAreEngaged ==
    ASSUME NoAddonFault PROVE Spec => []ListedIsEngaged
<1>1. ListedInv => ListedIsEngaged
    BY DEF ListedInv, ListedIsEngaged, Quiet, At
<1> QED
    BY <1>1, NoAddonFault, ListedInvariant, PTL

\* A control plane that is neither due nor being reconciled is engaged if it is
\* Ready and stopped if it is gone, whatever changes while the worker is busy
\* (provider.go:181-251), under the same assumption.
THEOREM NoneForgotten ==
    ASSUME NoAddonFault PROVE Spec => []NothingForgotten
<1>1. Init => ForgottenInv
    BY DEF Init, ForgottenInv
<1>2. MapInv /\ ListedInv /\ ForgottenInv /\ [Next]_vars => ForgottenInv'
    BY NoAddonFault, NextForgotten
<1>3. ForgottenInv => NothingForgotten
    BY DEF ForgottenInv, Needless, NothingForgotten
<1> QED
    BY <1>1, <1>2, <1>3, NoAddonFault, MapInvariant, ListedInvariant, PTL DEF Spec
=============================================================================
