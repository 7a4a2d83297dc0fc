-------------------------- MODULE ClusterProvider ---------------------------
(***************************************************************************)
(* The multicluster provider (pkg/controller/multicluster): it turns       *)
(* control planes that report Ready into running clusters that the         *)
(* multicluster manager's controllers are engaged with.                    *)
(*                                                                         *)
(* One worker reconciles one control plane at a time.  Other goroutines    *)
(* read the map of clusters and call IndexField at any moment, so the      *)
(* worker's lock-protected sections are separate steps.                    *)
(***************************************************************************)
EXTENDS FiniteSets, Integers

CONSTANTS
    Names,          \* control planes
    Hashes,         \* contents of a kubeconfig
    None,           \* no kubeconfig, no cluster, no work
    Fields,         \* fields somebody indexes with IndexField
    MaxFaults,      \* bound: failing calls and kubeconfig changes
    FaultKinds      \* which calls fail, see Faults

Faults == {"secret", "rewrite", "create", "addons", "engage", "outage"}

ASSUME NoneAssumption == None \notin Names \union Hashes
ASSUME BoundAssumption ==
    /\ MaxFaults \in Nat
    /\ FaultKinds \subseteq Faults

VARIABLES
    mcp,        \* the ManagedControlPlane on the API server
    seen,       \* the same in the provider's cache
    secret,     \* its kubeconfig Secret
    reachable,  \* its API server answers
    queue,      \* its item in the work queue
    work,       \* what the worker is doing
    clusters,   \* Provider.clusters
    running,    \* hashes of the clusters that were started and not cancelled
    engaged,    \* hash of the cluster the manager is engaged with
    leaving,    \* hashes of cancelled clusters the manager is still engaged with
    indexers,   \* Provider.indexers
    indexing,   \* field -> clusters an IndexField call is still to visit
    faults

mcpVars == <<mcp, secret, reachable>>
mapVars == <<clusters, running, engaged, leaving>>
indexVars == <<indexers, indexing>>
vars == <<mcp, seen, secret, reachable, queue, work, clusters, running,
          engaged, leaving, indexers, indexing, faults>>

Objects == [phase : {"live", "deleting", "absent"}, ready : BOOLEAN]

NoCluster == [hash |-> None, fields |-> {}]
Idle == [name |-> None, pc |-> "idle", hash |-> None, fields |-> {},
         removed |-> None]

\* Where the worker is between the two halves of removeCluster, by caller: a
\* deleted control plane, a changed kubeconfig, a refused engagement.
Removals == {"remove", "replace", "refuse"}
Stages == {"idle", "secret", "lookup", "ping", "create", "sync", "store",
           "addons", "engage"} \union Removals

TypeOK ==
    /\ mcp \in [Names -> Objects]
    /\ seen \in [Names -> Objects]
    /\ secret \in [Names -> Hashes \union {None}]
    /\ reachable \in [Names -> BOOLEAN]
    /\ queue \in [Names -> {"none", "delayed", "ready"}]
    /\ work \in [name : Names \union {None}, pc : Stages,
                 hash : Hashes \union {None}, fields : SUBSET Fields,
                 removed : Hashes \union {None}]
    /\ work.name = None <=> work.pc = "idle"
    /\ work.hash = None <=> work.pc \in {"idle", "secret", "remove"}
    /\ work.removed # None <=> work.pc \in Removals
    /\ clusters \in [Names -> [hash : Hashes \union {None},
                               fields : SUBSET Fields]]
    /\ running \in [Names -> SUBSET Hashes]
    /\ engaged \in [Names -> Hashes \union {None}]
    /\ leaving \in [Names -> SUBSET Hashes]
    /\ indexers \in SUBSET Fields
    /\ indexing \in [Fields -> SUBSET (Names \X Hashes)]
    /\ faults \in 0..MaxFaults

\* Control planes that were just created, and listed by the provider.
Init ==
    /\ mcp = [n \in Names |-> [phase |-> "live", ready |-> FALSE]]
    /\ seen = mcp
    /\ secret = [n \in Names |-> None]
    /\ reachable = [n \in Names |-> FALSE]
    /\ queue = [n \in Names |-> "ready"]
    /\ work = Idle
    /\ clusters = [n \in Names |-> NoCluster]
    /\ running = [n \in Names |-> {}]
    /\ engaged = [n \in Names |-> None]
    /\ leaving = [n \in Names |-> {}]
    /\ indexers = {}
    /\ indexing = [f \in Fields |-> {}]
    /\ faults = 0

-----------------------------------------------------------------------------
(* Helpers. *)

Fault(kind) ==
    /\ kind \in FaultKinds
    /\ faults < MaxFaults
    /\ faults' = faults + 1

Stored(n) == clusters[n].hash # None

At(stage) == work.pc = stage
GoTo(stage) == work' = [work EXCEPT !.pc = stage]

\* The reconcile returns, asking to be repeated after a delay (also the rate
\* limiter's, on an error) or not.
Return == work' = Idle /\ UNCHANGED queue
ReturnRetry(n) ==
    /\ work' = Idle
    /\ queue' = [queue EXCEPT ![n] = IF @ = "ready" THEN "ready" ELSE "delayed"]

-----------------------------------------------------------------------------
(* removeCluster: out of the map under the lock, then, the lock released,      *)
(* cancelled; the manager lets go when it notices.                             *)

\* The context of a running cluster is cancelled.
Cancel(n, h) ==
    /\ running' = [running EXCEPT ![n] = @ \ {h}]
    /\ engaged' = [engaged EXCEPT ![n] = IF @ = h THEN None ELSE @]
    /\ leaving' = [leaving EXCEPT ![n] = IF engaged[n] = h THEN @ \union {h} ELSE @]

\* The half under the lock: only the worker still knows the cancel function.
RemoveCluster(n, stage) ==
    /\ Stored(n)
    /\ clusters' = [clusters EXCEPT ![n] = NoCluster]
    /\ work' = [work EXCEPT !.name = n, !.pc = stage, !.removed = clusters[n].hash]
    /\ UNCHANGED <<running, leaving>>

\* Mutant: the cluster is forgotten and goes on running.
CancelRemovedNever ==
    /\ work.pc \in Removals
    /\ IF At("replace")
       THEN /\ work' = [work EXCEPT !.pc = "ping", !.removed = None]
            /\ UNCHANGED queue
       ELSE IF At("refuse") THEN ReturnRetry(work.name) ELSE Return
    /\ UNCHANGED <<mcpVars, seen, mapVars, indexVars, faults>>

\* The half outside the lock, and what the caller does next: it returns, goes on
\* with the new kubeconfig, or returns the error.
CancelRemoved ==
    /\ work.pc \in Removals
    /\ Cancel(work.name, work.removed)
    /\ \/ At("remove") /\ Return
       \/ /\ At("replace")
          /\ work' = [work EXCEPT !.pc = "ping", !.removed = None]
          /\ UNCHANGED queue
       \/ At("refuse") /\ ReturnRetry(work.name)
    /\ UNCHANGED <<mcpVars, seen, clusters, indexVars, faults>>

\* The manager's controllers watch the context of what they are engaged with.
LetGo(n) ==
    /\ \E h \in leaving[n] : leaving' = [leaving EXCEPT ![n] = @ \ {h}]
    /\ UNCHANGED <<mcpVars, seen, queue, work, clusters, running, engaged,
                   indexVars, faults>>

-----------------------------------------------------------------------------
(* Reconcile. *)

Takes(n) == At("idle") /\ queue[n] = "ready"
Taken(n) == queue' = [queue EXCEPT ![n] = "none"]

\* The object is gone or going.
ReconcileDeleted(n) ==
    /\ Takes(n)
    /\ seen[n].phase # "live"
    /\ \/ RemoveCluster(n, "remove") /\ UNCHANGED engaged
       \/ ~ Stored(n) /\ UNCHANGED <<work, mapVars>>
    /\ Taken(n)
    /\ UNCHANGED <<mcpVars, seen, indexVars, faults>>

\* Not ready: come back in 5 s; a cluster that is engaged stays.
ReconcileNotReady(n) ==
    /\ Takes(n)
    /\ seen[n].phase = "live" /\ ~ seen[n].ready
    /\ queue' = [queue EXCEPT ![n] = "delayed"]
    /\ UNCHANGED <<mcpVars, seen, work, mapVars, indexVars, faults>>

ReconcileReady(n) ==
    /\ Takes(n)
    /\ seen[n].phase = "live" /\ seen[n].ready
    /\ Taken(n)
    /\ work' = [Idle EXCEPT !.name = n, !.pc = "secret"]
    /\ UNCHANGED <<mcpVars, seen, mapVars, indexVars, faults>>

\* Mutant: a Secret without a kubeconfig is taken for one.
GetSecretUnchecked ==
    /\ At("secret")
    /\ work' = [work EXCEPT !.pc = "lookup", !.hash = secret[work.name]]
    /\ UNCHANGED <<mcpVars, seen, queue, mapVars, indexVars, faults>>

\* The kubeconfig is read from the API server, not from the cache.
GetSecret ==
    /\ At("secret")
    /\ secret[work.name] # None
    /\ work' = [work EXCEPT !.pc = "lookup", !.hash = secret[work.name]]
    /\ UNCHANGED <<mcpVars, seen, queue, mapVars, indexVars, faults>>

GetSecretFails ==
    /\ At("secret")
    /\ \/ secret[work.name] = None /\ UNCHANGED faults
       \/ Fault("secret")
    /\ ReturnRetry(work.name)
    /\ UNCHANGED <<mcpVars, seen, mapVars, indexVars>>

\* Mutant: whatever cluster is there is taken for the right one.
SameName == Stored(work.name)

SameHash == clusters[work.name].hash = work.hash

AlreadyEngaged ==
    /\ At("lookup")
    /\ SameHash
    /\ Return
    /\ UNCHANGED <<mcpVars, seen, mapVars, indexVars, faults>>

\* Mutant: the old cluster is replaced without being removed.
KubeconfigChangedKept ==
    /\ At("lookup")
    /\ ~ SameHash
    /\ GoTo("ping")
    /\ UNCHANGED <<mcpVars, seen, queue, mapVars, indexVars, faults>>

\* Another kubeconfig: the old cluster goes before the new one is known to work.
KubeconfigChanged ==
    /\ At("lookup")
    /\ ~ SameHash
    /\ \/ RemoveCluster(work.name, "replace") /\ UNCHANGED engaged
       \/ ~ Stored(work.name) /\ GoTo("ping") /\ UNCHANGED mapVars
    /\ UNCHANGED <<mcpVars, seen, queue, indexVars, faults>>

\* Mutant: an API server that does not answer yet is not asked again.
ServerVersionOnce ==
    /\ At("ping")
    /\ IF reachable[work.name] THEN GoTo("create") ELSE work' = Idle
    /\ UNCHANGED <<mcpVars, seen, queue, mapVars, indexVars, faults>>

ServerVersion ==
    /\ At("ping")
    /\ IF reachable[work.name]
       THEN GoTo("create") /\ UNCHANGED queue
       ELSE ReturnRetry(work.name)
    /\ UNCHANGED <<mcpVars, seen, mapVars, indexVars, faults>>

-----------------------------------------------------------------------------
(* createAndEngageCluster. *)

\* NewCluster, applyIndexers, and Start in a goroutine of its own.
CreateCluster ==
    /\ At("create")
    /\ work' = [work EXCEPT !.pc = "sync", !.fields = indexers]
    /\ running' = [running EXCEPT ![work.name] = @ \union {work.hash}]
    /\ UNCHANGED <<mcpVars, seen, queue, clusters, engaged, leaving, indexVars,
                   faults>>

CreateClusterFails ==
    /\ At("create")
    /\ Fault("create")
    /\ ReturnRetry(work.name)
    /\ UNCHANGED <<mcpVars, seen, mapVars, indexVars>>

\* No deadline: the worker waits until the API server answers.
WaitForCacheSync ==
    /\ At("sync")
    /\ reachable[work.name]
    /\ GoTo("store")
    /\ UNCHANGED <<mcpVars, seen, queue, mapVars, indexVars, faults>>

StoreCluster ==
    /\ At("store")
    /\ clusters' = [clusters EXCEPT ![work.name] =
                       [hash |-> work.hash, fields |-> work.fields]]
    /\ GoTo("addons")
    /\ UNCHANGED <<mcpVars, seen, queue, running, engaged, leaving, indexVars,
                   faults>>

\* The ConfigMap is read through the cluster's cache and created if missing.
ReconcileManagedAddons ==
    /\ At("addons")
    /\ reachable[work.name]
    /\ GoTo("engage")
    /\ UNCHANGED <<mcpVars, seen, queue, mapVars, indexVars, faults>>

\* The error returns past the removal below: the cluster stays in the map.
ReconcileManagedAddonsFails ==
    /\ At("addons")
    /\ Fault("addons")
    /\ ReturnRetry(work.name)
    /\ UNCHANGED <<mcpVars, seen, mapVars, indexVars>>

Engage ==
    /\ At("engage")
    /\ engaged' = [engaged EXCEPT ![work.name] = work.hash]
    /\ Return
    /\ UNCHANGED <<mcpVars, seen, clusters, running, leaving, indexVars, faults>>

\* Mutants: a cluster the manager refuses is left in the map, or is deleted
\* from it without being cancelled.
EngageFailsLeft ==
    /\ At("engage")
    /\ Fault("engage")
    /\ ReturnRetry(work.name)
    /\ UNCHANGED <<mcpVars, seen, mapVars, indexVars>>
EngageFailsRunning ==
    /\ At("engage")
    /\ Fault("engage")
    /\ clusters' = [clusters EXCEPT ![work.name] = NoCluster]
    /\ ReturnRetry(work.name)
    /\ UNCHANGED <<mcpVars, seen, running, engaged, leaving, indexVars>>

\* Some of the manager's controllers may have taken the cluster before another
\* refused it.
EngageFails ==
    /\ At("engage")
    /\ Fault("engage")
    /\ RemoveCluster(work.name, "refuse")
    /\ engaged' \in {engaged, [engaged EXCEPT ![work.name] = work.hash]}
    /\ UNCHANGED <<mcpVars, seen, queue, indexVars>>

-----------------------------------------------------------------------------
(* IndexField, called by any goroutine. *)

\* Under the lock: remember the field for clusters to come, copy the map.
IndexField(f) ==
    /\ f \notin indexers
    /\ indexers' = indexers \union {f}
    /\ indexing' = [indexing EXCEPT ![f] =
                       {<<n, clusters[n].hash>> : n \in {m \in Names : Stored(m)}}]
    /\ UNCHANGED <<mcpVars, seen, queue, work, mapVars, faults>>

\* Mutant: the copied cluster is put back into the map.
IndexExistingBack(f) ==
    \E n \in Names, h \in Hashes :
        /\ <<n, h>> \in indexing[f]
        /\ indexing' = [indexing EXCEPT ![f] = @ \ {<<n, h>>}]
        /\ clusters' = [clusters EXCEPT ![n] =
                           [hash |-> h, fields |-> @.fields \union {f}]]
        /\ UNCHANGED <<mcpVars, seen, queue, work, running, engaged, leaving,
                       indexers, faults>>

\* Outside the lock: one copied cluster is indexed, wherever it is by now.
IndexExisting(f) ==
    \E n \in Names, h \in Hashes :
        /\ <<n, h>> \in indexing[f]
        /\ indexing' = [indexing EXCEPT ![f] = @ \ {<<n, h>>}]
        /\ clusters' = IF clusters[n].hash = h
                       THEN [clusters EXCEPT ![n].fields = @ \union {f}]
                       ELSE clusters
        /\ UNCHANGED <<mcpVars, seen, queue, work, running, engaged, leaving,
                       indexers, faults>>

-----------------------------------------------------------------------------
(* Watch, queue and environment. *)

\* Mutant: an event of the control plane that is being reconciled is dropped.
DeliverUnlessBusy(n) ==
    /\ seen[n] # mcp[n]
    /\ seen' = [seen EXCEPT ![n] = mcp[n]]
    /\ queue' = [queue EXCEPT ![n] = IF work.name = n THEN @ ELSE "ready"]
    /\ UNCHANGED <<mcpVars, work, mapVars, indexVars, faults>>

\* The For() watch has no predicate: every change of the object counts.
Deliver(n) ==
    /\ seen[n] # mcp[n]
    /\ seen' = [seen EXCEPT ![n] = mcp[n]]
    /\ queue' = [queue EXCEPT ![n] = "ready"]
    /\ UNCHANGED <<mcpVars, work, mapVars, indexVars, faults>>

DelayEnds(n) ==
    /\ queue[n] = "delayed"
    /\ queue' = [queue EXCEPT ![n] = "ready"]
    /\ UNCHANGED <<mcpVars, seen, work, mapVars, indexVars, faults>>

\* The informers' periodic resync hands out what is in the cache again.
Resync(n) ==
    /\ seen[n].phase # "absent"
    /\ queue[n] # "ready"
    /\ queue' = [queue EXCEPT ![n] = "ready"]
    /\ UNCHANGED <<mcpVars, seen, work, mapVars, indexVars, faults>>

\* The reconciler reports Ready, once the kubeconfig Secret is there.
ReportReady(n) ==
    /\ mcp[n].phase = "live" /\ ~ mcp[n].ready
    /\ mcp' = [mcp EXCEPT ![n].ready = TRUE]
    /\ IF secret[n] = None
       THEN \E h \in Hashes : secret' = [secret EXCEPT ![n] = h]
       ELSE UNCHANGED secret
    /\ UNCHANGED <<reachable, seen, queue, work, mapVars, indexVars, faults>>

ReportNotReady(n) ==
    /\ mcp[n].phase = "live" /\ mcp[n].ready
    /\ mcp' = [mcp EXCEPT ![n].ready = FALSE]
    /\ UNCHANGED <<secret, reachable, seen, queue, work, mapVars, indexVars,
                   faults>>

\* The kubeconfig is rewritten (new address or certificate).
RewriteKubeconfig(n) ==
    /\ Fault("rewrite")
    /\ secret[n] # None
    /\ \E h \in Hashes \ {secret[n]} : secret' = [secret EXCEPT ![n] = h]
    /\ UNCHANGED <<mcp, reachable, seen, queue, work, mapVars, indexVars>>

Delete(n) ==
    /\ mcp[n].phase = "live"
    /\ mcp' = [mcp EXCEPT ![n].phase = "deleting"]
    /\ UNCHANGED <<secret, reachable, seen, queue, work, mapVars, indexVars,
                   faults>>

\* The object and its children go, the API server among them.
Disappear(n) ==
    /\ mcp[n].phase = "deleting"
    /\ mcp' = [mcp EXCEPT ![n].phase = "absent"]
    /\ secret' = [secret EXCEPT ![n] = None]
    /\ reachable' = [reachable EXCEPT ![n] = FALSE]
    /\ UNCHANGED <<seen, queue, work, mapVars, indexVars, faults>>

Outage(n) ==
    /\ Fault("outage")
    /\ reachable[n]
    /\ reachable' = [reachable EXCEPT ![n] = FALSE]
    /\ UNCHANGED <<mcp, secret, seen, queue, work, mapVars, indexVars>>

\* A control plane's API server comes up, or back.
ServeAPI(n) ==
    /\ ~ reachable[n]
    /\ mcp[n].phase # "absent"
    /\ reachable' = [reachable EXCEPT ![n] = TRUE]
    /\ UNCHANGED <<mcp, secret, seen, queue, work, mapVars, indexVars, faults>>

-----------------------------------------------------------------------------

CreateAndEngageCluster ==
    \/ CreateCluster \/ CreateClusterFails \/ WaitForCacheSync \/ StoreCluster
    \/ ReconcileManagedAddons \/ ReconcileManagedAddonsFails
    \/ Engage \/ EngageFails

Reconcile(n) ==
    \/ ReconcileDeleted(n) \/ ReconcileNotReady(n) \/ ReconcileReady(n)

Continue ==
    \/ GetSecret \/ GetSecretFails \/ AlreadyEngaged \/ KubeconfigChanged
    \/ ServerVersion \/ CreateAndEngageCluster \/ CancelRemoved

Indexing == \E f \in Fields : IndexField(f) \/ IndexExisting(f)

Environment ==
    \E n \in Names :
        \/ ReportReady(n) \/ ReportNotReady(n) \/ RewriteKubeconfig(n)
        \/ Delete(n) \/ Disappear(n) \/ Outage(n) \/ ServeAPI(n)

Next ==
    \/ Continue
    \/ Indexing
    \/ \E n \in Names :
           Reconcile(n) \/ LetGo(n) \/ Deliver(n) \/ DelayEnds(n) \/ Resync(n)
    \/ Environment

Spec == Init /\ [][Next]_vars

\* The worker goes on, and the queue is fair to every control plane; controllers
\* notice that their context is cancelled; watches deliver, delays end, API servers
\* come up while their control plane exists.  Status changes and faults are free to
\* stop.
Fairness ==
    /\ WF_vars(Continue)
    /\ \A n \in Names :
           /\ SF_vars(Reconcile(n))
           /\ WF_vars(LetGo(n))
           /\ WF_vars(Deliver(n))
           /\ WF_vars(DelayEnds(n))
           /\ WF_vars(ServeAPI(n))

FairSpec == Spec /\ Fairness

-----------------------------------------------------------------------------
(* Properties. *)

Quiet ==
    /\ At("idle")
    /\ seen = mcp
    /\ \A n \in Names : queue[n] = "none"

\* The worker has the cancel function of a cluster that is in the map no more.
Removing(n, h) == work.name = n /\ work.removed = h

\* The manager works with a cluster that Get does not hand out only while that
\* cluster is being removed: either its context is cancelled (`leaving'), or the
\* worker is between the two halves of removeCluster (provider.go:335-339).
EngagedIsStored ==
    \A n \in Names : engaged[n] # None =>
        clusters[n].hash = engaged[n] \/ Removing(n, engaged[n])

\* What Get hands out (provider.go:157) is not cancelled, whoever reads the map
\* at whatever moment of a removal: a cancelled cluster is out of the map, and
\* nobody puts it back.
StoredIsRunning ==
    \A n \in Names : Stored(n) => clusters[n].hash \in running[n]

\* Every started cluster can be stopped again: it is in the map, or in the
\* hands of the worker, before it is stored or after it is removed.
RunningIsOwned ==
    \A n \in Names : \A h \in running[n] :
        \/ clusters[n].hash = h
        \/ work.name = n /\ work.hash = h /\ work.pc \in {"sync", "store"}
        \/ Removing(n, h)

\* "ListClusters returns the names of all engaged clusters" (provider.go:366):
\* when the provider is at rest, what it lists is engaged.
ListedIsEngaged == Quiet => \A n \in Names : Stored(n) => engaged[n] # None

\* No wake-up is lost: a control plane that is neither due nor being reconciled
\* needs nothing.  As the provider knows it, it is Ready and engaged, or gone and
\* stopped (provider.go:190, 198, 237: every other way out of a reconcile asks
\* for another one).
NothingForgotten ==
    \A n \in Names : queue[n] = "none" /\ work.name # n =>
        IF seen[n].phase = "live"
        THEN seen[n].ready /\ engaged[n] # None
        ELSE ~ Stored(n) /\ running[n] = {}

\* "IndexField indexes a field on all clusters, existing and future"
\* (provider.go:343).
IndexedEverywhere ==
    At("idle") /\ (\A f \in Fields : indexing[f] = {}) =>
        \A n \in Names : Stored(n) => clusters[n].fields = indexers

\* The worker waits for the API server of a control plane that is gone: it
\* waits for ever (WaitForCacheSync has no deadline, provider.go:279).
Blocked ==
    /\ At("sync") \/ At("addons")
    /\ mcp[work.name].phase = "absent"

\* A control plane that stays Ready ends up engaged, unless the worker waits
\* for ever for another one.
ReadyIsEngaged ==
    \A n \in Names :
        <>[](mcp[n].phase = "live" /\ mcp[n].ready)
            => <>[](engaged[n] # None) \/ <>[]Blocked

\* And with the kubeconfig that its Secret has by then: a rewrite causes no event
\* (provider.go:150), so that a resync brings it in, if nothing else does before.
EngagedIsCurrent ==
    \A n \in Names, h \in Hashes :
        WF_vars(Resync(n)) =>
            (<>[](mcp[n].phase = "live" /\ mcp[n].ready /\ secret[n] = h)
                => <>[](engaged[n] = h) \/ <>[]Blocked)

\* "Handle deletion" (provider.go:190): the cluster of a deleted control plane
\* is forgotten and stopped and the manager has let go of it, whatever the worker
\* was doing, unless it waits for ever.
DeletedIsRemoved ==
    \A n \in Names :
        mcp[n].phase = "deleting"
            ~> \/ ~ Stored(n) /\ running[n] = {} /\ leaving[n] = {}
               \/ Blocked
=============================================================================
