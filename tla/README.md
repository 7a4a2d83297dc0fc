# A verification of controlplane-operator

controlplane-operator runs Kubernetes control planes as workloads of a host
("management") cluster. A `ManagedControlPlane` object declares one; the operator
renders etcd, API server, controller manager, scheduler, certificates and an
admin kubeconfig for it, connects to the result, and installs addons in it.

This directory holds TLA+ models of the parts of the operator in which order,
staleness and failure decide whether it is right, the configurations that
model-check them with TLC, and proofs checked by TLAPS. Paths below are relative
to the repository (`pkg/controller/...` is `src/pkg/controller/...` in
`PROJECT.json`).

## The system

| Component | Keeps | Operations | Talks to |
|---|---|---|---|
| ManagedControlPlane reconciler (`pkg/controller/managedcontrolplane_controller.go`, `helpers.go`, one file per component) | nothing of its own between reconciles; the object's status on the API server, the child objects | `Reconcile`: finalizer, seven components in order, `setStatus` | API server (apply, update, patch), informer caches, cert-manager and the load balancer through Secrets and the Service |
| Multicluster provider (`pkg/controller/multicluster/provider.go`) | the map of clusters with their cancel functions and kubeconfig hashes, the list of indexers | `Reconcile`, `createAndEngageCluster`, `removeCluster`, `IndexField`, `Get`, `ListClusters` | reads the status message the reconciler writes and the kubeconfig Secret; starts clusters; engages the multicluster manager |
| Addons controller (`pkg/controller/addon_controller.go`, `addon.go`) | the bootstrap token Secret, copies of konnectivity Secrets, addon objects in the managed cluster | `Reconcile`, `reconcileKubeletJoinResources`, `reconcileAddons`, `ensureBootstrapToken`, `ensureKonnectivityTLSData`, `getClusterCA` | runs per engaged cluster, with the client the provider hands out |
| PKI builder (`pkg/resources/pki/pki.go`, names in `pkg/cluster`) | – | certificates and issuers from spec and status | cert-manager, which fills the Secrets that pods mount |
| Workload builders (`pkg/resources/{apiserver,etcd,controllermanager,scheduler}`) | – | Deployments, StatefulSets, Services | – |
| Addon builders (`pkg/resources/addons`) | – | RBAC, CoreDNS, flannel, kube-proxy, konnectivity, CSI, join token | – |
| Service network arithmetic (`pkg/utils/utils.go`, `pki.go`) | – | n-th address of a CIDR | builders |
| Operator process (`cmd/controlplane-operator/main.go`) | – | wires the three controllers; no leader election; Secrets are read past the cache | – |
| `tesseractl` (`cmd/tesseractl`) | – | one-shot commands for users | API server |
| `hack/worker.sh` | – | joins a machine | – |

What is hard, and so what the models are about:

* **Stale reads.** Every reconcile starts from an informer cache that lags the
  API server by any number of its own writes, takes one snapshot and uses it to
  the end, while other calls of the same reconcile change the object.
* **Partial writes.** A component is several objects, a reconcile seven
  components; any call may fail or the process may die in between.
* **Three copies of the status.** Ready flag, message and condition are sent
  by a merge patch that contains only what differs from the snapshot.
* **Lost wake-ups.** Status-only changes are filtered out, one error is
  ignored, and a reconcile that ends Ready is not repeated.
* **Many objects, read from several places.** The addons controller applies some
  forty-seven objects rendered from a cached object and three Secrets that cause
  it no events; seventeen certificates and five workloads refer to each other by
  name from as many files.
* **Several processes.** There is one replica, but no leader election, so a
  rolling update runs two.
* **One worker, blocking calls, other goroutines.** The provider reconciles one
  control plane at a time, waits without a deadline, and shares its map with
  callers of `IndexField` and `Get`.

For each component, what makes it correct:

* reconciler: Ready speaks of a generation no object is older than; a reader of
  Ready finds address and kubeconfig; the copies of the status agree and are the
  latest observation (both fail, see Runs; what holds instead is that a report
  that was heard stands until the next); it rests only after everything was found
  Ready; a control plane left alone becomes Ready, a deleted one disappears with
  everything rendered for it; what is rendered uses the published address;
* provider: what the map hands out is running, and what the manager works with
  is in the map or being removed; every started cluster can be stopped; what stays Ready gets engaged, what is deleted
  gets stopped; an index reaches every cluster;
* addons: no token that was handed out is lost track of; no object stands
  without what it needs; what is deleted or renewed comes back, from inputs that
  only go forward; a process rests only when everything is installed;
* joining: while the controller's objects are complete and current, a worker
  that collects token, CA hash and endpoint in separate calls gets in;
* PKI: every call between the parts of a control plane is verified by both
  sides, however the Secrets came to be; the kubeconfig is never ahead of the
  certificates; no credential is replaced by an older one; the control plane
  comes up at its last address, and nobody waits for anybody before that;
* service network: an address is in the network, and the two implementations
  agree.

## Modules

| Module | What |
|---|---|
| `ControlPlaneController` | the reconciler, its watches and queue, and its environment |
| `ControlPlaneContract` | the abstract promise of a status: declared, rendered and reported generations |
| `ControlPlaneProperties` | properties of the reconciler, the refinement mapping to the contract, the inductive invariant |
| `MCControlPlane` | TLC instances: a start at rest |
| `ControlPlaneProofs` | theorems about the reconciler: types, Ready and generations, the contract |
| `ControlPlanePublishedProofs` | theorems about the reconciler: Ready, address and kubeconfig, and what was found at rest, for any number of processes; when the status says so |
| `ClusterProvider` | the multicluster provider with its properties |
| `MCClusterProvider` | TLC instances: symmetry, one first kubeconfig |
| `ClusterProviderProofs` | theorems about the provider |
| `AddonTables` | the objects of `pkg/resources/addons`, one definition per builder method |
| `ManagedAddons` | the addons controller of one managed cluster, with its properties |
| `MCManagedAddons` | its TLC instance with two processes: a small pair of tables |
| `ManagedAddonsProofs` | theorems for any tables and any number of processes: types, needs, deleted objects, nothing left undone at rest |
| `ManagedAddonsSoleProofs` | theorems for one process: tokens, inputs only go forward |
| `WorkerJoin` | a worker's join, composed with `ManagedAddons` and the whole join table |
| `MCWorkerJoin` | its TLC instance, which is also that of `ManagedAddons` with the whole tables |
| `WorkerJoinProofs` | theorems: no attempt fails while the join set is complete and current |
| `ServiceNetwork` | addresses in a service network, on bytes and on numbers |
| `ServiceNetworkProofs` | theorems: both ways agree, and stay in the network |
| `PKITables` | certificates, issuers, workloads and their calls, one definition per builder or facade |
| `PKITrust` | cert-manager, the pods and the reconciler over those tables, with its properties; uses `ServiceNetwork` |
| `MCPKITrust` | its TLC instance: a small service network |
| `PKITrustProofs` | theorems: the kubeconfig is never ahead, types, handshakes that succeed, rest only when everything runs, credentials that only go forward |

### ControlPlaneController

One ManagedControlPlane, `Operators` processes. Every action is one API call of
the code, so that other writes, watch events and crashes fall between any two.

| State | In the code |
|---|---|
| `mcp` | the object on the API server: phase (live, deleting, absent), generation, finalizer, `status.ready`, `status.message`, the Ready condition with its observedGeneration, `status.address`, the kubeconfig reference |
| `rendered[c]` | for each component the set of inputs its stored objects were built from: empty is no object, two elements are a half-finished apply. A component's inputs are the generation and, for certificates, API server and kubeconfig, the address |
| `informer[o]` | what operator `o`'s cache holds (the head) and the object versions still to come, in order |
| `svcSeen[o]`, `childEvent[o]` | the cached Service, and whether an event of another owned object is undelivered |
| `queue[o]` | the object's item: none, delayed (`RequeueAfter`, rate limiter), ready |
| `pc[o]`, `snap[o]`, `verdict[o]` | the running reconcile: its stage, its snapshot (`NewClusterContext`), the status it is about to write |
| `fresh[o]` | ghost: when the running reconcile took its snapshot, that had the status that was stored |
| `observed[o]` | ghost: what the last finished reconcile found, of which generation, and whether the status heard of it (the API server took the patch, and the snapshot was fresh) |
| `lb`, `adminCert` | the load balancer's address; the admin Secret cert-manager fills |

`Reconcile(o)` is a disjunction with the names of the code:
`ReconcileAPIServiceSvc`, `ReconcilePKI`, `ReconcileETCD`, `ReconcileAPIServer`,
`ReconcileControllerManager`, `ReconcileScheduler`, `ReconcileAdminConfig`, the
finalizer steps before them and `WriteStatus` after them. `Apply` stands for
server-side apply of a component's objects, `ApplyFails` for its failure at any
point (nothing, something, or everything applied, the answer lost).
`UpdateAddress` and `UpdateAdminRef` are the retry loops of `updateMCPAddress`
and `updateMCPAdminSecretRef`: they read the cached object again on every
attempt, so they succeed exactly when the cache has caught up. `Patched` is the
merge patch: a field goes to the server only if it differs from the snapshot.
The early return of `setStatus` compares pointers and is never taken, so no
action stands for it. `BuildPanics` is the nil dereference of
`spec.kubernetes.networking`, which controller-runtime turns into an error and a
retry, past `statusFailed`.

The environment: users edit and delete, the load balancer assigns and moves an
address, cert-manager issues, rollouts cause events, somebody deletes objects
(`Drift`), the garbage collector removes the children of an absent owner, a
process crashes and a new one lists everything. Faults (`FaultKinds`) are
bounded by `MaxFaults`, generations by `MaxGen`, cache lag by `MaxLag`: a write
that would lengthen a lag beyond it waits, in the model only. `StaleStart` FALSE
restricts reconciles to start from a cache that is up to date; the runs that use
it say so.

### ClusterProvider

Any number of control planes, one worker (`MaxConcurrentReconciles: 1`).
`work.pc` is where the worker is, between calls that block or sections under the
lock: read the Secret, look the cluster up, ping the API server, create and
start, wait for the cache, store, create the addon ConfigMap, engage. The hash
of a kubeconfig stands for its content. `clusters` is `Provider.clusters`,
`running` the clusters whose context is not cancelled, `engaged` what the
manager's controllers work with and may go on working with, `leaving` those they
still work with although their context is cancelled. `removeCluster` is three
steps, as in the code: `RemoveCluster` takes the entry out of the map under the
lock, `CancelRemoved` cancels it outside (`provider.go:335-339`), and `LetGo` is
the manager noticing. In between `Get` finds no cluster, `IndexField` runs, and
events come in. `IndexField` copies the map under the lock and visits the copy
later. The object's status and the Secret are written by the environment,
standing for the reconciler; when the object goes, its API server goes for good.

### ManagedAddons

One managed cluster, `Operators` processes. `Table` is the join objects and then
the addons in the order the code applies them (`AddonTables`); an object knows
the inputs it reads and the other objects it needs.

| State | In the code |
|---|---|
| `source[x]` | versions of the inputs: the ManagedControlPlane, the Secrets of the cluster CA, of the konnectivity agent and of the konnectivity CA |
| `stored`, `minted`, `tokens` | the bootstrap token Secret on the host, how many were generated, the tokens with a Secret in the managed cluster |
| `present`, `content[i]`, `removed` | the objects of the managed cluster, what they were rendered from, and those somebody deleted |
| `marker` | the ConfigMap `reconcileManagedAddons` of the provider creates |
| `seen[op]`, `engaged[op]`, `queue[op]` | a process's cache of the control plane, whether its manager is engaged, the cluster's work item |
| `work[op]` | the running reconcile: its step, the next object, the token and the versions it has read |

The steps bear the names of the code: `GetMarker`, `GetBootstrapToken`,
`NewBootstrapToken`, `PersistBootstrapToken`, `GetClusterCA`,
`ApplyBootstrapTokenSecret`, `Apply` (one object each), `GetAgentTLS`,
`GetKonnectivityCA`. `Watched` is the watch predicates and map functions of
`SetupManagedAddonController` as they are; that no part-of ConfigMap passes them
is visible there. An object cannot be applied into a namespace that is gone
(`ApplyIntoNowhere`). The provider is `Engage` and `Disengage`; a reconcile under
way keeps the client it fetched. Inputs are version numbers bounded by
`MaxVersion`, tokens by `MaxTokens`, faults by `MaxFaults`. The managed cluster is
read as it is, without a cache: the code reads only the marker there.

### WorkerJoin

`tesseractl mcp kubeadm-join` reads the newest token's Secret, the CA of
`cluster-info` and the endpoint in separate calls, while `ManagedAddons` goes on
working. kubeadm and the kubelet, which are no part of the repository, then need
eight permissions, as nobody, as a token and as a node; `Allowed` looks them up
among the bindings and roles that are present, as the builders of `rbac.go` fill
them. `calm` is a ghost: the join objects were complete and current from the
start of the attempt.

### ServiceNetwork, PKITables, PKITrust

`ServiceNetwork` has `IPAtOffset` with its 32-bit sum and `firstServiceIP` with
`addIP`'s carry from byte to byte.

`PKITables` has each certificate with its issuer, usages, subject, organisations
and names, each issuer with its CA, and each workload with the Secrets it
mounts, those its arguments point into, and the calls it makes: which name it
dials, which CA it trusts, which certificate it shows. The `SANs` are the lists
of the source; a host name is kept as the sequence of its parts.

`PKITrust` runs them. The applies of one component are one step and there is one
operator with an up-to-date cache, since `ControlPlaneController` has the single
calls and the stale reads; what it keeps of the reconciler is that all components
of a reconcile use the address of the snapshot while the Service's address goes
to the status. Reconciles that find nothing to apply are left out. cert-manager
(external) signs what is absent or asked for with another address; a pod starts
when its Secrets are there, and keeps copies until it is started again, from its
old template when a container died; the serving certificates are reloaded. CAs are signed together, and so are the
certificates of one CA. A renewed CA has a new key and what it signed before
stays as it is.

## Runs

| Run | Shows | Instance |
|---|---|---|
| `reconciler_safe` | types, `ReadyIsRendered` and `ReadyIsReachable` with their inductive invariants, the refinement `KeepsContract`, `ObservedForward`, `PublishedForGood`; `ReportHolds`; `QuietIsDone` and `QuietFoundReady` | one process, two generations and a deletion, lag 1, stale starts, one fault of: apply, status write, crash, drift |
| `reconciler_converges` | `QuietIsReady`, `AddressPublished`, `BecomesReady` | one process, three generations of which the second panics the builder, two addresses, one fault of: conflict or failed update, relocation; starts from an up-to-date cache |
| `reconciler_deletes` | `DeletionCompletes` | two processes with stale caches, from rest |
| `provider_engages` | `ListedIsEngaged`, `NothingForgotten`, `ReadyIsEngaged`, `EngagedIsCurrent`, `DeletedIsRemoved` | two control planes, two kubeconfigs, one fault (Secret read, kubeconfig rewritten, create, engage or outage); every control plane starts with the same kubeconfig, and the fault hits the first of the two |
| `provider_safe` | types, `EngagedIsStored`, `StoredIsRunning`, `RunningIsOwned` | two control planes, two kubeconfigs, one indexed field, one fault of any kind |
| `addons_safe` | types, `TokenIsStored`, `NeedsArePresent`, `DeletedIsPending`, `RestIsInstalled`, `RenderedForward`; of a worker that joins meanwhile, `JoinsWhenReady` | one process, both whole tables, two versions of the control plane, three tokens, one fault: a call, a crash, a deleted object, marker or control plane, a cluster let go |
| `addons_follow` | `AddonsFollow` | two processes, a table of four objects, two versions of the CA, three tokens, one fault of any kind: those of `addons_safe`, or the stored token lost |
| `pki_trust` | types, `TrustHolds`, `KubeconfigNotAhead`, `QuietServes`, `CredentialsForward`, `ComesUp` | all certificates, workloads and calls, bytes of four values, two addresses, one fault: a failed reconcile or a renewed cluster CA |

Four behaviours contradict what the repository says of itself; each is a run
that TLC finds violated, and a finding in `PROJECT.json`:

| Run | What happens |
|---|---|
| `reconciler_moved` | the load balancer moves: the reconcile publishes the new address, renders for the old one and reports Ready; its own event is filtered out |
| `reconciler_unreported` | a reconcile fails and says so; the next finds everything Ready, but the API server does not take its patch, and the error is dropped. At rest the status says failed |
| `provider_lists` | a failure after the cluster is stored leaves it listed and never engaged |
| `provider_indexes` | a field indexed while a cluster is being created never reaches it |

What `reconciler_moved` shows at rest (`Quiet`) ends with the next event of an
owned object, or with the informers' periodic resync, which controller-runtime
sets to about ten hours and which `Owns`, having no predicate, turns into a
reconcile. In the model a resync is a `WorkloadEvent`: `Quiet` is the state
between two such events. The same holds of `reconciler_unreported`: the event of a
status patch is filtered out. `ComesUp` of `pki_trust` relies on that resync. What
`provider_lists` shows does not end that way: every later reconcile takes the
cluster for engaged.

Three more are met by the models without a run of their own; the properties say
where they stop.

* A reconcile fails and says so; its retry starts before its cache has that report,
  from the old status that said Ready, and finds everything Ready. What it has to say
  looks unchanged, so the merge patch (`helpers.go:69`) leaves it out: at rest the
  status says failed; after a new spec the condition, whose generation differs, is
  sent and says Ready, while flag and message say failed. TLC finds `StatusIsLatest`
  violated so in `ControlPlaneUnreported.cfg` with `FaultKinds = {"apply"}` and
  `StaleStart = TRUE`. `reconciler_converges` excludes it, and the lost patch of
  `reconciler_unreported` too: it is about panics, conflicts and filtered events.
  What holds with both included is `ReportHolds`, `QuietFoundReady` and
  `QuietIsDone` of `reconciler_safe`.
* A kubeconfig that is rewritten while the object does not change causes no event
  of the provider's watch (`provider.go:150`). `EngagedIsCurrent` therefore assumes
  the informers' resync.
* `ReadyIsEngaged`, `EngagedIsCurrent` and `DeletedIsRemoved` hold unless the provider's only worker
  is `Blocked`: it waits without a deadline (`provider.go:279`) for the API server
  of a control plane that is gone.

**Why the bounds suffice.** The hazards of the reconciler need an older and a
newer generation, one write the cache has not seen, and one failure; two
generations plus deletion, lag 1 and one fault contain each of them, and what
TLC cannot rule out for larger instances of `ReadyIsRendered`, `KeepsContract`
and `ObservedForward` the proofs do. Convergence has a third generation so that
a broken spec lies between two good ones. The provider needs a second control
plane only to be blocked by the first; a second hash is a changed kubeconfig. Its
temporal run lets the one fault hit a fixed control plane, which loses nothing as
the two are interchangeable. `reconciler_unreported` needs one failure to report and
one patch to lose.

The addons run with the whole tables keeps one process and lets one input
change, because each position of the tables is a step; what needs two processes
or a renewed CA is asked of a table with one object of each kind that matters: a
join object that is not watched, a Secret, a watched workload and the namespace that
it goes with. Three tokens are one for each process and one after the loss. The proofs about the addons
take any tables whose needs come first, which TLC evaluates for the real ones
(`TableAssumption`). A worker's attempt meets one change of the spec or address and
any one fault of that run; a renewed CA or a second token would not matter to it,
since `calm` ends when the source is renewed and any token that has a Secret will do,
and the theorem `JoinCorrect` covers both. In `pki_trust` two addresses are an old one and a new one; a
reconcile that fails, or a CA that is renewed, once, falls between any two steps.
The service network of that run has small bytes, since TLC's integers have 32
bits; for real bytes there are proofs.

**Fairness.** A running reconcile goes on and a due one starts (a worker is
there and its calls return); watches deliver; delays end; the load balancer and
cert-manager answer; the garbage collector works; the manager's controllers notice
that a context is cancelled. Nothing is fair for users,
faults or rollouts, which may stop or go on for ever. The provider's worker is
strongly fair to each control plane, because its queue is first-in first-out
and a control plane is only taken while the worker is idle again and again.
The informers' resync is fair only where `EngagedIsCurrent` says so. An
API server comes up as long as its control plane exists, and never after, since
nothing serves it any more.

For the addons, a reconcile goes on, delays end, the cache follows, the provider
engages, and the informers resync every ten hours or so: the Secrets and the
control plane cause no event of this controller, so that nothing less brings a
renewed input in. Both processes go on; nothing forces inputs to change or
faults to happen. For the PKI, the load balancer gives a first address,
cert-manager signs, a pod whose volumes exist starts, the servers reload their
certificates, and while something is left to apply a reconcile comes.

## Proofs

TLAPS checks the theorems for every value of the constants that satisfies the
named assumptions of the modules (at least one operator, sentinels apart from
addresses and hashes, bounds that are numbers).

**Reconciler.** `TypeCorrect` holds for any number of processes.
`RenderedInvariant`, `ReadyMeansRendered`, `ImplementsContract` and
`ObservedNeverBack` assume `SingleOperator`: with two processes they are false,
since a second one may apply a stale snapshot after the first reported Ready.
`ReadyIsRendered` alone is not inductive: that a status patch may claim the
snapshot's generation must be known before the patch. The inductive invariant
`RenderedInv` therefore says that generations only grow along

    API server >= last undelivered version >= ... >= cache
               >= snapshot of the running reconcile
               >= child objects, and observed generation of the condition

(`CacheOrdered`, `NothingAhead`) and that what a running reconcile has left
behind is rendered from its snapshot and nothing older (`PassRenders`). Every step is then
of one of five kinds, one lemma each: inert (delivers, waits, forgets), a write
that keeps generation and condition, an apply, a status patch, a step of the
environment. The refinement maps applies to `Render`, patches to `Report`,
finalizer removal to `Disappear`; addresses, references and queues stutter.

`ReadyFindsBoth` and `PublishedStays` need no such assumption: address and
reference are only ever written, never cleared, so that staleness cannot hurt.
`ReadyIsReachable` is not inductive by itself: a reconcile that is about to
report Ready relies on what it read before. `PublishedInv` adds that an address in
any cached version or snapshot has been published (`CachesPublished`,
`PassPublished`), that a reconcile past the kubeconfig has an address in its
snapshot, and that one about to report Ready has published both. The proof shows
first that every action `Publishes` (the address and the reference grow, caches
follow the API server, reconciles move as `PassMoves` says, Ready comes from a
reconcile that reports it), then that such a step preserves the invariant.

`ReportsHold` (`ReportHolds`), in the same module, is what can be said of the status
in spite of stale snapshots and lost patches, with one process: a patch that was
taken, and computed against the stored status, sets flag, message and condition,
and they stay until the next reconcile ends. A fresh snapshot keeps agreeing with
what is stored, since nothing but the end of a reconcile writes these fields
(`SnapshotIsStatus`, `StatusStays`), so a field that the patch leaves out has the
value of the verdict already.

`DoneAtLast` (`QuietIsDone`) is about what the event filters and dropped errors
could lose, for any number of processes and any faults, and `RestFoundReady`
(`QuietFoundReady`) about what the last reconciles found. Together they are the safety
halves of `BecomesReady` and `DeletionCompletes`: the system never rests before
the work is done; that it does come to rest is left to TLC. The invariant,
`DoneInv`, names who still owes the work. A component that is not rendered from
the stored generation is owed by some process whose queue has an item, whose
cache has a generation still to come, which has an undelivered event of a child,
or whose running reconcile has not left the component behind (`RenderingComes`);
a deletion is owed by every process (`DeletionComes`); a reconcile under way
renders the cached generation unless another is due (`PassIsCurrent`). Every
action then `Wakes`: an item leaves the queue only for a reconcile or when
nothing is left to do (`QueueMoves`), no new generation is delivered without
putting one in (`CacheMoves`), and only a reconcile that reports Ready ends
without one (`Works`). `RestFoundReady` adds that a process at
rest has found Ready for the generation it knows (`RestFound`), whatever became of
its patch. `ReadyIfHeard` puts that and `ReportsHold` together: with one process, a
control plane at rest is Ready in flag, message and condition (`QuietIsReady`) if
the last patch was heard, that is, unless it was lost or computed against an old
status. `reconciler_unreported` shows the first; the second is described under Runs.

**Provider.** `MapInv` adds to `EngagedIsStored`, `StoredIsRunning` and
`RunningIsOwned` what the worker knows between its calls: from the removal of the
old cluster to the store of the new one the map holds none for the control plane,
and from then on the worker's own; between the halves of a removal the worker has
the hash of the cluster that it is about to cancel. That
no other goroutine writes the map entry in between is `MaxConcurrentReconciles:
1`; that `IndexExisting` does not matter is because it never changes a hash.
`ListedAreEngaged` assumes `NoAddonFault`, that `reconcileManagedAddons` does not
fail, since `provider_lists` shows what happens when it does. Its invariant,
`ListedInv`: a cluster in the map is engaged, or the worker has just stored it
and is about to engage it. `NoneForgotten` (`NothingForgotten`) assumes the same
and is the safety half of `ReadyIsEngaged` and `DeletedIsRemoved`. Its invariant,
`ForgottenInv`, says of every control plane that is not due, the one in the
worker's hands included, that it is Ready and engaged or being reconciled, or
gone and stopped: an event during a reconcile makes it due again, so that the
worker may go on with what it read before.

**Addons.** `TypeCorrect` holds for any tables, processes and bounds.
`NeedsCorrect` adds to the property that everything before a reconcile's position
is present or was deleted (`AppliedBefore`): `TableAssumption`, needs come first,
does the rest, and a failing call leaves a prefix. `DeletedCorrect` rests on
every event being queued, whether or not the worker is busy, and on a cache that
takes the control plane for gone only when it is (`SeenGone`): only then does a
reconcile end without a repetition. Both hold for any number of processes.
`RestCorrect` (`RestIsInstalled`), which does too, is the safety half of
`AddonsFollow`: a reconcile that ends early, a restart and another process's work
leave something in the queue until all is done. Its invariant says who still owes
what. Until all objects were applied once, every engaged process is busy
(`Installing`); a reconcile is done only past the last object, where
`AppliedBefore` gives the rest. A stored token that has no Secret in the managed
cluster is owed by some process that will engage, reconcile, or has not read the
token, or is about to apply just that one (`TokenComes`): with two processes the
one that stores last is such a process, whatever the other hands out. What was
deleted since is `DeletedIsPending`, except for objects that no event tells of.
`TokenCorrect` and `ForwardCorrect` assume `OneProcess`: with two, each may
generate a token and the loser's stays in the managed cluster beside the stored
one, and an older read may be applied last. `TokenCorrect` also assumes that
nobody deletes the stored token (`NoLoss`). It adds that a token in use is the
stored one from the moment it is persisted, and that none is stored while a new
one is about to be (`HoldsStored`). `ForwardCorrect` adds the order source >= cache >= what the running
reconcile has read >= what is rendered (`Ahead`).

**Service network.** For bytes of 256 values. `OffsetInNetwork`: the 32-bit sum
may wrap, but then its result lies below the network and is refused; otherwise
it is network plus offset. `FirstIsAtOffsetOne`: the carry of `addIP` computes the
successor of the number, by cases on how many bytes overflow, and four bytes can
be told from the number they make (`NumberInjective`).

**PKI.** `KubeconfigCorrect` follows from the chain

    load balancer >= cached address >= status >= snapshot of the reconcile
                  >= address the Certificates ask for >= kubeconfig

the last link by the order of the components: whoever writes the kubeconfig has
applied the Certificates with the same snapshot.

`TypeCorrect` needs `TypeInv`, which adds that a pod's Secrets stay (a restart
copies what is there), that all CAs are there or none, and that a key is at most
the number of faults. `TrustCorrect` assumes bytes of 256 values and a network
of two or more addresses; a smaller one has no address for the Service
`kubernetes`. Who signs what, mounts it, dials it and accepts it is read off the
tables once (`CallsFit`, from the rows of certificates and volumes). What is left
is that both ends have certificates with the same key: a copy in a pod is never
ahead of the CA that signed it (`FilesBehind`), so that all have the first key
under a CA that was not renewed. That the serving certificate names the first
service address is `FirstIsAtOffsetOne`.

`QuietCorrect` (`QuietServes`) is the safety half of `ComesUp`, under the
assumptions of `TrustCorrect`. `Quiet` negates the guards of everything that
`FairSpec` lets happen, which is why these guards are operators (`NothingToApply`,
`IssueIsDue`, `StartIsDue` ...). Then no Secret is missing, since every certificate
is signed by a CA (`SignerIsCA`), and no pod, since every workload mounts only
Secrets that are filled (`WorkloadsConsistent`, `VolumesAreSecrets`). That the
agent has the load balancer's address is by the chain above: at rest its two ends
are equal, and the status, which the agent is rendered from, is between them.
Both ends of a call to the address know the same one then, and `TrustHolds` does
the rest. That such a state comes is left to TLC.

`CredentialsCorrect` (`CredentialsForward`) is an action property of Secrets, pods
and kubeconfig, and the three depend on each other. A certificate is not replaced
by an older one because it never names an address that is not asked for any more
(`AskedBehind`), and the Certificates ask for no earlier address than before
(`WantedForward`); a copy in a pod is not ahead of the Secret it is taken from
(`CopiesBehind`); the admin kubeconfig is neither ahead of the admin certificate
(`AdminBehind`) nor of the Certificates (`KubeconfigNotAhead`).

**Joining.** `JoinCorrect` takes the join table of the code and any other objects
that are not the same as one of it; `JoinWithAddons` shows that the addons of the
code are such objects. The grants are read off the table (`JoinSetGrants`). What
the worker was told stays true (`AttemptHolds`): tokens are never taken out of the
managed cluster, and no step changes both an input and what is rendered from it,
so that `cluster-info` is outdated before it shows another CA. It uses no type
invariant and assumes nothing of processes and faults.

Only model-checked: everything under fairness (`AddressPublished`,
`BecomesReady`, `DeletionCompletes`, `ReadyIsEngaged`, `EngagedIsCurrent`,
`DeletedIsRemoved`, `AddonsFollow`, `ComesUp`), which is out of this prover's
reach. Every invariant and action property of a passing run is a theorem, but for
`QuietIsReady`, which is one only with the condition of `ReadyIfHeard`; in its run the
cfg excludes what that condition excludes. For the
liveness properties that includes the safety half, that nothing rests before they
are fulfilled, with three exceptions: for the address (`AddressPublished`) and a
rewritten kubeconfig (`EngagedIsCurrent`) rest is not enough, and of `AddonsFollow`
that what is installed is also current, which takes the resync.

## Not modelled, and limits

* What Ready means: objects are applied. The code never looks at whether a
  workload runs, nor do the models.
* The manifests themselves: images, resources and most flags. The models keep
  identities, order, references, mounts, grants, names in certificates and which
  inputs an object reads; `PROJECT.json` lists each component with the reason.
* Two control planes at once in the reconciler. The code keeps no state across
  reconciles, and names every object after its control plane, but the `app` labels
  and the selectors of Services and workloads are constants
  (`pkg/resources/etcd/const.go:18`, `etcd.go:55`, and alike in `apiserver.go:76`): in one
  namespace the Services of two control planes select each other's pods. The
  models speak of control planes that have a namespace each.
* The provider and the addons controller together. Between the halves of a removal
  `Get` finds no cluster although the manager is still engaged with it; in
  `ManagedAddons` it finds none once the manager has let go
  (`ReconcileUnknownCluster`). The answer is the same, the request is repeated or
  dropped, and in both cases the next `Engage` puts the cluster into the queue anew.
* Reads of the API server fail only where the code treats the failure
  differently from a conflict or an apply that failed.
* What happens after a CA is renewed. The code asks for no duration of the CAs,
  and for new keys; cert-manager then does not sign again what they signed.
  `TrustHolds` says that calls under other CAs are untouched, and nothing of the
  calls under the renewed one.
* Load balancers with a host name: `--advertise-address` gets it as it is.
* The other commands of `tesseractl` (they read and print one object), and the
  shell, Docker and CNI part of `hack/worker.sh`.

## What is left

1. `OperatorSystem`: reconciler, provider and addons composed over the status
   and the kubeconfig Secret: whether every rewrite of the kubeconfig is followed
   by a change of the status, which would bring it in before the resync.
2. CA renewal together with cert-manager's own scheduling, if the repository
   takes a decision on it.
