----------------------- MODULE ControlPlaneProperties -----------------------
(***************************************************************************)
(* What the status of a ManagedControlPlane promises its readers: users,   *)
(* the multicluster provider (which waits for the Ready message) and the   *)
(* next reconcile.                                                         *)
(***************************************************************************)
EXTENDS ControlPlaneController

\* One operator process, as with `replicas: 1' outside of a rolling update.
SingleOperator == \A o, p \in Operators : o = p

\* Every watch event is delivered and no reconcile is running or due.
Quiet ==
    \A o \in Operators :
        /\ pc[o] = "idle" /\ queue[o] = "none"
        /\ UpToDate(o) /\ ~ childEvent[o] /\ svcSeen[o] = Service

-----------------------------------------------------------------------------
(* Invariants. *)

\* The Ready condition names the generation it was observed for
\* (helpers.go:52): no object of any component is then older than that, however
\* stale the caches are and wherever a later reconcile stopped.
ReadyIsRendered ==
    mcp.cond.verdict = Ready =>
        \A c \in Components : \A r \in rendered[c] : r.gen >= mcp.cond.gen

\* The provider builds a client from the address and the kubeconfig as soon as
\* it reads the Ready message (provider.go:98): both are published before it.
ReadyIsReachable ==
    mcp.message = Ready => mcp.address # NoAddress /\ mcp.adminRef

\* The patch sends only what differs from the snapshot (helpers.go:69).  Computed
\* against the stored status it puts ready flag, message and condition right, all
\* three, whatever earlier patches against old snapshots left of them, and they
\* stay so until the next reconcile has ended.
ReportHolds ==
    \A o \in Operators : observed[o].heard /\ mcp.phase # "absent" =>
        /\ mcp.ready = ReadyFlag(observed[o].verdict)
        /\ mcp.message = observed[o].verdict
        /\ mcp.cond = [verdict |-> observed[o].verdict, gen |-> observed[o].gen]

\* "Conditions represents the latest available observations of the control
\* plane's state" (types.go:38): when everything has come to rest the condition
\* is what the last reconcile of some process found.
StatusIsLatest ==
    Quiet /\ mcp.phase = "live" =>
        \E o \in Operators : mcp.cond.verdict = observed[o].verdict

\* When everything has come to rest, every process has found everything Ready,
\* for the generation that is stored, in its last reconcile: whatever was stale
\* when it started, failed, conflicted or got lost, the last word was not a wait
\* or a failure, nor about an older spec (managedcontrolplane_controller.go:110-130).
\* Whether the status says so is another matter: see StatusIsLatest.
QuietFoundReady ==
    Quiet /\ mcp.phase = "live" =>
        \A o \in Operators :
            observed[o].verdict = Ready /\ observed[o].gen = mcp.gen

\* When everything has come to rest and the status says Ready, certificates,
\* API server and kubeconfig are built for the published address.
AddressRendered ==
    Quiet /\ mcp.phase = "live" /\ mcp.message = Ready =>
        \A c \in {"pki", "apiserver", "admin"} :
            \A r \in rendered[c] : r.address = mcp.address

\* When everything has come to rest, the work is done: a control plane that is
\* there is not being deleted, has published address and kubeconfig, and has all
\* of its objects, none of them older than its spec.  No event that is filtered
\* out (managedcontrolplane_controller.go:130) and no error that is dropped (:119)
\* was the last chance for any of that, nor one that fell into a reconcile.
QuietIsDone ==
    Quiet /\ mcp.phase # "absent" =>
        /\ mcp.phase = "live"
        /\ mcp.address # NoAddress /\ mcp.adminRef
        /\ \A c \in Components :
               rendered[c] # {} /\ \A r \in rendered[c] : r.gen = mcp.gen

\* And the status says so: Ready, in all three places, for the generation that
\* is stored.  Only a reconcile that failed or waited is repeated (:110-119), and
\* only the reconcile of the last generation may end without that.
QuietIsReady ==
    Quiet /\ mcp.phase = "live" =>
        /\ mcp.ready = "true" /\ mcp.message = Ready
        /\ mcp.cond = [verdict |-> Ready, gen |-> mcp.gen]

-----------------------------------------------------------------------------
(* Action properties. *)

\* The generation the condition was observed for never goes back.
ObservedForward == [][mcp'.cond.gen >= mcp.cond.gen]_vars

\* A reader that has seen an address and a kubeconfig keeps them.
PublishedForGood ==
    [][/\ mcp.address # NoAddress => mcp'.address # NoAddress
       /\ mcp.adminRef => mcp'.adminRef]_vars

-----------------------------------------------------------------------------
(* Refinement. *)

RenderedGenerations ==
    UNION {{r.gen : r \in rendered[c]} : c \in Components}

Contract == INSTANCE ControlPlaneContract WITH
    phase    <- mcp.phase,
    declared <- mcp.gen,
    children <- RenderedGenerations,
    reported <- mcp.cond.gen,
    ready    <- (mcp.cond.verdict = Ready)

\* The reconciler keeps what the contract says of the status.
KeepsContract == Contract!Spec

-----------------------------------------------------------------------------
(* Liveness, under FairSpec. *)

\* The load balancer may move; the status ends up with the address it has.
AddressPublished ==
    <>[](mcp.phase = "live" => mcp.address = lb)

\* Once users and faults leave it alone, a control plane becomes Ready for the
\* generation it has, and stays so (if the spec has the networking section).
BecomesReady ==
    <>[](mcp.phase = "live" /\ mcp.gen \notin NilNetworking =>
            /\ mcp.cond = [verdict |-> Ready, gen |-> mcp.gen]
            /\ mcp.message = Ready)

\* A deleted control plane goes away with all its children, although the
\* finalizer is removed before them and a reconcile under way applies them anew.
DeletionCompletes ==
    mcp.phase = "deleting" ~>
        [](mcp.phase = "absent" /\ \A c \in Components : rendered[c] = {})

-----------------------------------------------------------------------------
(* The inductive invariant behind ReadyIsRendered: generations only grow along *)
(* API server, cache, snapshot, children and condition.                        *)

\* A cache holds versions in the order they were written, up to the last one.
CacheOrdered ==
    \A o \in Operators :
        /\ informer[o][Len(informer[o])] = mcp
        /\ \A i, j \in 1..Len(informer[o]) :
               i <= j => informer[o][i].gen <= informer[o][j].gen

\* Snapshot, children and condition are never ahead of the cache, nor children
\* and condition ahead of the snapshot of a running reconcile.
NothingAhead ==
    \A o \in Operators :
        /\ mcp.cond.gen <= Cached(o).gen
        /\ \A c \in Components : \A r \in rendered[c] : r.gen <= Cached(o).gen
        /\ pc[o] # "idle" =>
            /\ snap[o].gen <= Cached(o).gen
            /\ mcp.cond.gen <= snap[o].gen
            /\ \A c \in Components : \A r \in rendered[c] : r.gen <= snap[o].gen

\* The components a running reconcile has left behind at each stage.
Behind == [idle |-> {}, svc |-> {}, endpoint |-> {"svc"}, pki |-> {"svc"},
           etcd |-> {"svc", "pki"}, apiserver |-> {"svc", "pki", "etcd"},
           cm |-> {"svc", "pki", "etcd", "apiserver"},
           sched |-> {"svc", "pki", "etcd", "apiserver", "cm"},
           admin |-> Components \ {"admin"}, adminref |-> Components,
           status |-> {}]

LeftBehind(o) == IF pc[o] = "status" /\ verdict[o] = Ready
                 THEN Components ELSE Behind[pc[o]]

\* What a running reconcile has left behind is rendered from its snapshot.
PassRenders ==
    \A o \in Operators : \A c \in LeftBehind(o) : \A r \in rendered[c] :
        r.gen >= snap[o].gen

RenderedInv == CacheOrdered /\ NothingAhead /\ PassRenders /\ ReadyIsRendered

-----------------------------------------------------------------------------
(* The inductive invariant behind ReadyIsReachable, for any number of          *)
(* operators: what a reconcile has seen published is published.                *)

CachesPublished ==
    \A o \in Operators : \A i \in 1..Len(informer[o]) :
        informer[o][i].address # NoAddress => mcp.address # NoAddress

\* A reconcile that goes past the kubeconfig has an address in its snapshot, and
\* one that is to report Ready has published both.
PassPublished ==
    \A o \in Operators :
        /\ snap[o].address # NoAddress => mcp.address # NoAddress
        /\ pc[o] = "adminref" => snap[o].address # NoAddress
        /\ pc[o] = "status" /\ verdict[o] = Ready =>
               mcp.address # NoAddress /\ mcp.adminRef

PublishedInv == CachesPublished /\ PassPublished /\ ReadyIsReachable
=============================================================================
