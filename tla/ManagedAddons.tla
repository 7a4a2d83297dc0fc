---------------------------- MODULE ManagedAddons ----------------------------
(***************************************************************************)
(* The addons controller (pkg/controller/addon.go, addon_controller.go) of *)
(* one control plane: it applies what kubelets need to join and the addons *)
(* to the managed cluster that the multicluster provider engages.          *)
(*                                                                         *)
(* Objects are applied one call at a time.  In between, the inputs change, *)
(* somebody deletes objects, the provider lets go of the cluster, the      *)
(* process crashes, a second operator process does the same work.          *)
(***************************************************************************)
EXTENDS Integers, Sequences

CONSTANTS
    Operators,      \* operator processes
    JoinTable,      \* what a kubelet needs to join, in the order of apply
    AddonTable,     \* copied Secrets and addons, in the order of apply
    NilNetworking,  \* versions of the spec without kubernetes.networking
    Renewable,      \* inputs that have more than one version
    MaxVersion,     \* bound: versions of such an input
    MaxTokens,      \* bound: bootstrap tokens generated
    MaxFaults,      \* bound: faults
    FaultKinds      \* which faults happen, see Faults

Inputs == {"mcp", "ca", "agent", "konn"}
Faults == {"call", "crash", "disengage", "lose", "remove", "unmark", "delete"}

ASSUME BoundAssumption ==
    /\ MaxVersion \in Nat \ {0} /\ MaxTokens \in Nat /\ MaxFaults \in Nat
    /\ FaultKinds \subseteq Faults /\ Renewable \subseteq Inputs

Table == JoinTable \o AddonTable
Positions == 1..Len(Table)
LastJoin == Len(JoinTable)

\* The positions of the objects that an object needs, its namespace included.
UsedBy ==
    [i \in Positions |->
        {j \in Positions :
            LET o == Table[j] IN
            \/ <<o.kind, o.ns, o.name>> \in Table[i].uses
            \/ o.kind = "Namespace" /\ o.name = Table[i].ns}]
Uses(i) == UsedBy[i]

\* What is needed comes earlier in the tables, and the konnectivity Secrets are
\* read after the join objects are applied.
ASSUME TableAssumption ==
    /\ LastJoin \in Nat /\ Len(Table) \in Nat /\ LastJoin < Len(Table)
    /\ \A i \in Positions : \A j \in Uses(i) : j < i
    /\ \A i \in 1..LastJoin : Table[i].reads \subseteq {"mcp", "ca"}

-----------------------------------------------------------------------------
(* SetupManagedAddonController: which objects' events requeue a reconcile. *)

WatchedKinds ==
    {"Service", "ServiceAccount", "Deployment", "DaemonSet", "StatefulSet",
     "Role", "ClusterRole", "RoleBinding", "ClusterRoleBinding", "StorageClass"}

isPartOf(i) == Table[i].partOf
isNonManagedAddon(i) == ~ Table[i].partOf

\* The predicate of the ConfigMap watch excludes what its map function wants.
Watched(i) ==
    /\ isPartOf(i)
    /\ \/ Table[i].kind \in WatchedKinds
       \/ Table[i].kind = "ConfigMap" /\ isNonManagedAddon(i)

-----------------------------------------------------------------------------
VARIABLES
    source,   \* version of each input, 0: there is none (any more)
    stored,   \* bootstrap token in the management cluster, 0: none
    minted,   \* how many tokens were ever generated
    present,  \* objects in the managed cluster
    content,  \* the versions an object was rendered from
    removed,  \* objects that somebody deleted
    tokens,   \* bootstrap tokens that have a Secret in the managed cluster
    marker,   \* the ConfigMap the provider marks the cluster with
    seen,     \* per process: version of the control plane in its cache
    engaged,  \* per process: the manager is engaged with the cluster
    queue,    \* per process: the cluster's item in the work queue
    work,     \* per process: what the worker is doing
    faults

mgmtVars == <<source, stored, minted>>
clusterVars == <<present, content, removed, tokens>>
vars == <<source, stored, minted, present, content, removed, tokens, marker,
          seen, engaged, queue, work, faults>>

NoContent == [x \in Inputs |-> 0]
Idle == [pc |-> "idle", i |-> 0, token |-> 0, in |-> NoContent]

Stages == {"idle", "marker", "token", "persist", "ca", "apply", "agent", "konn"}

TypeOK ==
    /\ source \in [Inputs -> 0..MaxVersion]
    /\ minted \in 0..MaxTokens /\ stored \in 0..minted /\ tokens \subseteq 1..minted
    /\ present \subseteq Positions /\ removed \subseteq Positions \ present
    /\ content \in [Positions -> [Inputs -> 0..MaxVersion]]
    /\ marker \in BOOLEAN
    /\ seen \in [Operators -> 0..MaxVersion]
    /\ engaged \in [Operators -> BOOLEAN]
    /\ queue \in [Operators -> {"none", "delayed", "ready"}]
    /\ work \in [Operators ->
          [pc : Stages, i : 0..Len(Table), token : 0..minted,
           in : [Inputs -> 0..MaxVersion]]]
    /\ \A op \in Operators :
          work[op].token = 0 => work[op].pc \in {"idle", "marker", "token"}
    /\ faults \in 0..MaxFaults

\* The control plane was just created; nothing is issued or engaged.
Init ==
    /\ source = [x \in Inputs |-> IF x = "mcp" THEN 1 ELSE 0]
    /\ stored = 0 /\ minted = 0 /\ tokens = {}
    /\ present = {} /\ removed = {}
    /\ content = [i \in Positions |-> NoContent]
    /\ marker = FALSE
    /\ seen = [op \in Operators |-> 1]
    /\ engaged = [op \in Operators |-> FALSE]
    /\ queue = [op \in Operators |-> "none"]
    /\ work = [op \in Operators |-> Idle]
    /\ faults = 0

-----------------------------------------------------------------------------
(* Helpers. *)

Fault(kind) ==
    /\ kind \in FaultKinds
    /\ faults < MaxFaults
    /\ faults' = faults + 1

At(op, pc) == work[op].pc = pc
Becomes(op, pc, i, token, in) ==
    work' = [work EXCEPT ![op] = [pc |-> pc, i |-> i, token |-> token, in |-> in]]
GoTo(op, pc) == Becomes(op, pc, work[op].i, work[op].token, work[op].in)

\* The reconcile returns; with an error or RequeueAfter it is repeated.
Return(op) == Becomes(op, "idle", 0, 0, NoContent)
ReturnRetry(op) ==
    /\ Return(op)
    /\ queue' = [queue EXCEPT ![op] = IF @ = "ready" THEN "ready" ELSE "delayed"]

\* Mutant: an event that comes while the worker is busy is lost.
EnqueueIdle(event) ==
    queue' = [op \in Operators |->
                 IF event /\ engaged[op] /\ work[op].pc = "idle"
                 THEN "ready" ELSE queue[op]]

\* An event of the managed cluster, for every process that is engaged.
Enqueue(event) ==
    queue' = [op \in Operators |->
                 IF event /\ engaged[op] THEN "ready" ELSE queue[op]]

\* What object i looks like, rendered from versions "from".
Rendered(i, from) ==
    [x \in Inputs |-> IF x \in Table[i].reads THEN from[x] ELSE 0]

-----------------------------------------------------------------------------
(* Reconcile. *)

Takes(op) == At(op, "idle") /\ queue[op] = "ready"
Taken(op) == queue' = [queue EXCEPT ![op] = "none"]

\* The control plane comes from the local cache; it may be gone.
ReconcileGone(op) ==
    /\ Takes(op) /\ seen[op] = 0
    /\ Taken(op)
    /\ UNCHANGED <<mgmtVars, clusterVars, marker, seen, engaged, work, faults>>

\* GetCluster fails: the provider let go of the cluster.  Whether the manager
\* repeats such a request is up to its builder.
ReconcileUnknownCluster(op) ==
    /\ Takes(op) /\ seen[op] # 0 /\ ~ engaged[op]
    /\ \E left \in {"none", "delayed"} : queue' = [queue EXCEPT ![op] = left]
    /\ UNCHANGED <<mgmtVars, clusterVars, marker, seen, engaged, work, faults>>

\* Mutant: the control plane is read from the cache or from the API server.
ReconcileLive(op) ==
    /\ Takes(op) /\ seen[op] # 0 /\ engaged[op]
    /\ Taken(op)
    /\ \E version \in {seen[op], source["mcp"]} :
          Becomes(op, "marker", 0, 0, [NoContent EXCEPT !["mcp"] = version])
    /\ UNCHANGED <<mgmtVars, clusterVars, marker, seen, engaged, faults>>

Reconcile(op) ==
    /\ Takes(op) /\ seen[op] # 0 /\ engaged[op]
    /\ Taken(op)
    /\ Becomes(op, "marker", 0, 0, [NoContent EXCEPT !["mcp"] = seen[op]])
    /\ UNCHANGED <<mgmtVars, clusterVars, marker, seen, engaged, faults>>

\* Without the marker there is nothing to do.
GetMarker(op) ==
    /\ At(op, "marker")
    /\ IF marker THEN GoTo(op, "token") ELSE Return(op)
    /\ UNCHANGED <<mgmtVars, clusterVars, marker, seen, engaged, queue, faults>>

-----------------------------------------------------------------------------
(* reconcileKubeletJoinResources. *)

\* ensureBootstrapToken, the read: a token that is stored is used.
GetBootstrapToken(op) ==
    /\ At(op, "token")
    /\ stored # 0
    /\ Becomes(op, "ca", work[op].i, stored, work[op].in)
    /\ UNCHANGED <<mgmtVars, clusterVars, marker, seen, engaged, queue, faults>>

\* Mutant: the token is used before it is persisted.
NewBootstrapTokenKept(op) ==
    /\ At(op, "token")
    /\ stored = 0 /\ minted < MaxTokens
    /\ minted' = minted + 1
    /\ Becomes(op, "ca", work[op].i, minted + 1, work[op].in)
    /\ UNCHANGED <<source, stored, clusterVars, marker, seen, engaged, queue,
                   faults>>

\* Otherwise a new one is generated.
NewBootstrapToken(op) ==
    /\ At(op, "token")
    /\ stored = 0 /\ minted < MaxTokens
    /\ minted' = minted + 1
    /\ Becomes(op, "persist", work[op].i, minted + 1, work[op].in)
    /\ UNCHANGED <<source, stored, clusterVars, marker, seen, engaged, queue,
                   faults>>

\* It is persisted by a forced apply, whatever is stored by now; the garbage
\* collector takes it away when its owner is gone.
PersistBootstrapToken(op) ==
    /\ At(op, "persist")
    /\ stored' = IF source["mcp"] = 0 THEN 0 ELSE work[op].token
    /\ GoTo(op, "ca")
    /\ UNCHANGED <<source, minted, clusterVars, marker, seen, engaged, queue,
                   faults>>

\* Mutant: without the CA the reconcile ends as if it were done.
GetClusterCAOnce(op) ==
    /\ At(op, "ca")
    /\ IF source["ca"] # 0 /\ work[op].in["mcp"] \notin NilNetworking
       THEN Becomes(op, "apply", work[op].i, work[op].token,
                    [work[op].in EXCEPT !["ca"] = source["ca"]])
       ELSE Return(op)
    /\ UNCHANGED <<mgmtVars, clusterVars, marker, seen, engaged, queue, faults>>

\* getClusterCA; the objects are built as soon as the CA is there.  The builder
\* panics without the networking section, which counts as an error.
GetClusterCA(op) ==
    /\ At(op, "ca")
    /\ IF source["ca"] # 0 /\ work[op].in["mcp"] \notin NilNetworking
       THEN /\ Becomes(op, "apply", work[op].i, work[op].token,
                       [work[op].in EXCEPT !["ca"] = source["ca"]])
            /\ UNCHANGED queue
       ELSE ReturnRetry(op)
    /\ UNCHANGED <<mgmtVars, clusterVars, marker, seen, engaged, faults>>

\* After the join objects the reconcile goes on with the konnectivity Secrets.
StageAfter(i) == IF i = LastJoin THEN "agent" ELSE "apply"

\* The token's Secret is the first object; it is named after the token.
ApplyBootstrapTokenSecret(op) ==
    /\ At(op, "apply") /\ work[op].i = 0
    /\ tokens' = tokens \union {work[op].token}
    /\ Becomes(op, StageAfter(0), 1, work[op].token, work[op].in)
    /\ UNCHANGED <<mgmtVars, present, content, removed, marker, seen, engaged,
                   queue, faults>>

-----------------------------------------------------------------------------
(* apply, for the objects of both tables. *)

\* The namespaces of the tables that object i lives in.
Homes(i) == {j \in Uses(i) : Table[j].kind = "Namespace"}

\* Mutant: past the last object.
ProceedPast(op) ==
    Becomes(op, StageAfter(work[op].i), work[op].i + 1, work[op].token, work[op].in)

\* After the last addon the reconcile is done.
Proceed(op) ==
    IF work[op].i = Len(Table) THEN Return(op)
    ELSE Becomes(op, StageAfter(work[op].i), work[op].i + 1, work[op].token,
                 work[op].in)

\* Mutant: an object that is there already is left as it is.
ApplyOnce(op) ==
    /\ At(op, "apply") /\ work[op].i # 0
    /\ LET i == work[op].i IN
       /\ Homes(i) \subseteq present
       /\ present' = present \union {i}
       /\ removed' = removed \ {i}
       /\ content' = IF i \in present THEN content
                     ELSE [content EXCEPT ![i] = Rendered(i, work[op].in)]
       /\ Enqueue(Watched(i) /\ i \notin present)
    /\ Proceed(op)
    /\ UNCHANGED <<mgmtVars, tokens, marker, seen, engaged, faults>>

\* A change of an object that is watched comes back as an event.
Apply(op) ==
    /\ At(op, "apply") /\ work[op].i # 0
    /\ LET i == work[op].i
           rendering == Rendered(i, work[op].in)
       IN  /\ Homes(i) \subseteq present
           /\ present' = present \union {i}
           /\ removed' = removed \ {i}
           /\ content' = [content EXCEPT ![i] = rendering]
           /\ Enqueue(Watched(i) /\ (i \notin present \/ content[i] # rendering))
    /\ Proceed(op)
    /\ UNCHANGED <<mgmtVars, tokens, marker, seen, engaged, faults>>

\* Nothing can be created in a namespace that is gone.
ApplyIntoNowhere(op) ==
    /\ At(op, "apply") /\ work[op].i # 0
    /\ ~ (Homes(work[op].i) \subseteq present)
    /\ ReturnRetry(op)
    /\ UNCHANGED <<mgmtVars, clusterVars, marker, seen, engaged, faults>>

\* Mutant: a failing apply is passed over.
CallFailsOn(op) ==
    /\ At(op, "apply") /\ work[op].i # 0
    /\ Fault("call")
    /\ Proceed(op)
    /\ UNCHANGED <<mgmtVars, clusterVars, marker, seen, engaged, queue>>

\* A call of a reconcile fails and the reconcile is repeated.
CallFails(op) ==
    /\ ~ At(op, "idle")
    /\ Fault("call")
    /\ ReturnRetry(op)
    /\ UNCHANGED <<mgmtVars, clusterVars, marker, seen, engaged>>

-----------------------------------------------------------------------------
(* reconcileAddons: ensureKonnectivityTLSData reads one Secret, then the   *)
(* other; without them the reconcile comes back in a while.                *)

GetKonnectivityTLS(op, pc, secret, next) ==
    /\ At(op, pc)
    /\ IF source[secret] # 0
       THEN /\ Becomes(op, next, work[op].i, work[op].token,
                       [work[op].in EXCEPT ![secret] = source[secret]])
            /\ UNCHANGED queue
       ELSE ReturnRetry(op)
    /\ UNCHANGED <<mgmtVars, clusterVars, marker, seen, engaged, faults>>

GetAgentTLS(op) == GetKonnectivityTLS(op, "agent", "agent", "konn")
GetKonnectivityCA(op) == GetKonnectivityTLS(op, "konn", "konn", "apply")

-----------------------------------------------------------------------------
(* The provider, the manager and the process. *)

\* reconcileManagedAddons creates the marker if there is none, then the
\* manager is engaged; the informers' first lists enqueue the cluster.
Engage(op) ==
    /\ ~ engaged[op] /\ seen[op] # 0
    /\ marker' = TRUE
    /\ engaged' = [engaged EXCEPT ![op] = TRUE]
    /\ queue' = [o \in Operators |->
                    IF o = op \/ (engaged[o] /\ ~ marker) THEN "ready" ELSE queue[o]]
    /\ UNCHANGED <<mgmtVars, clusterVars, seen, work, faults>>

\* A new kubeconfig, or a control plane that is gone: removeCluster.  A
\* reconcile that is under way keeps its client.
Disengage(op) ==
    /\ engaged[op]
    /\ engaged' = [engaged EXCEPT ![op] = FALSE]
    /\ IF seen[op] = 0 THEN UNCHANGED faults ELSE Fault("disengage")
    /\ UNCHANGED <<mgmtVars, clusterVars, marker, seen, queue, work>>

Elapse(op) ==
    /\ queue[op] = "delayed"
    /\ queue' = [queue EXCEPT ![op] = "ready"]
    /\ UNCHANGED <<mgmtVars, clusterVars, marker, seen, engaged, work, faults>>

\* The informers' periodic resync hands out the marker again.
Resync(op) ==
    /\ engaged[op] /\ marker /\ queue[op] # "ready"
    /\ queue' = [queue EXCEPT ![op] = "ready"]
    /\ UNCHANGED <<mgmtVars, clusterVars, marker, seen, engaged, work, faults>>

\* The local cache follows the API server; no event of it is watched here.
Observe(op) ==
    /\ seen[op] # source["mcp"]
    /\ seen' = [seen EXCEPT ![op] = source["mcp"]]
    /\ UNCHANGED <<mgmtVars, clusterVars, marker, engaged, queue, work, faults>>

\* The next process fills its cache from a list.
Crash(op) ==
    /\ Fault("crash")
    /\ Return(op)
    /\ queue' = [queue EXCEPT ![op] = "none"]
    /\ engaged' = [engaged EXCEPT ![op] = FALSE]
    /\ \E version \in {seen[op], source["mcp"]} :
          seen' = [seen EXCEPT ![op] = version]
    /\ UNCHANGED <<mgmtVars, clusterVars, marker>>

-----------------------------------------------------------------------------
(* The two clusters. *)

\* The spec or the address changes; cert-manager issues or renews a Secret.
Renew(x) ==
    /\ source["mcp"] # 0
    /\ source[x] < IF x \in Renewable THEN MaxVersion ELSE 1
    /\ source' = [source EXCEPT ![x] = @ + 1]
    /\ UNCHANGED <<stored, minted, clusterVars, marker, seen, engaged, queue,
                   work, faults>>

\* Somebody deletes the stored token, to have a new one made.
LoseToken ==
    /\ stored # 0
    /\ Fault("lose")
    /\ stored' = 0
    /\ UNCHANGED <<source, minted, clusterVars, marker, seen, engaged, queue, work>>

\* The control plane is deleted and what it owns is garbage collected.
Delete ==
    /\ source["mcp"] # 0
    /\ Fault("delete")
    /\ source' = NoContent
    /\ stored' = 0
    /\ UNCHANGED <<minted, clusterVars, marker, seen, engaged, queue, work>>

\* What goes with an object: the contents of a namespace.
GoneWith(i) ==
    {i} \union {j \in present : Table[i].kind = "Namespace" /\ i \in Uses(j)}

\* Somebody deletes an object of the managed cluster.
Remove(i) ==
    /\ i \in present
    /\ Fault("remove")
    /\ present' = present \ GoneWith(i)
    /\ removed' = removed \union GoneWith(i)
    /\ content' = [j \in Positions |->
                      IF j \in GoneWith(i) THEN NoContent ELSE content[j]]
    /\ Enqueue(\E j \in GoneWith(i) : Watched(j))
    /\ UNCHANGED <<mgmtVars, tokens, marker, seen, engaged, work>>

\* Somebody deletes the marker to have the addons left alone.
Unmark ==
    /\ marker
    /\ Fault("unmark")
    /\ marker' = FALSE
    /\ Enqueue(TRUE)
    /\ UNCHANGED <<mgmtVars, clusterVars, seen, engaged, work>>

-----------------------------------------------------------------------------
ReconcileStep(op) ==
    \/ ReconcileGone(op) \/ ReconcileUnknownCluster(op) \/ Reconcile(op)
    \/ GetMarker(op) \/ GetBootstrapToken(op) \/ NewBootstrapToken(op)
    \/ PersistBootstrapToken(op) \/ GetClusterCA(op)
    \/ ApplyBootstrapTokenSecret(op) \/ Apply(op) \/ ApplyIntoNowhere(op)
    \/ GetAgentTLS(op) \/ GetKonnectivityCA(op)

ProcessStep(op) ==
    \/ CallFails(op) \/ Engage(op) \/ Disengage(op) \/ Elapse(op)
    \/ Resync(op) \/ Observe(op) \/ Crash(op)

ClusterStep ==
    \/ \E x \in Inputs : Renew(x)
    \/ \E i \in Positions : Remove(i)
    \/ LoseToken \/ Delete \/ Unmark

Next ==
    \/ \E op \in Operators : ReconcileStep(op) \/ ProcessStep(op)
    \/ ClusterStep

Spec == Init /\ [][Next]_vars

\* The worker runs, delays elapse, the caches follow, the provider engages,
\* and the informers resync (every ten hours).  Nothing forces the world to
\* change, and no fault must happen.
FairSpec ==
    /\ Spec
    /\ \A op \in Operators :
          /\ WF_vars(ReconcileStep(op)) /\ WF_vars(Elapse(op))
          /\ WF_vars(Observe(op)) /\ WF_vars(Engage(op)) /\ WF_vars(Resync(op))

-----------------------------------------------------------------------------
(* Properties. *)

\* One process alone never loses track of a token: every bootstrap token in
\* the managed cluster is the stored one ("If token already exists, return
\* it", ensureBootstrapToken), although the process may die between making
\* the token, storing it and handing it out.
TokenIsStored == source["mcp"] # 0 => tokens \subseteq {stored}

\* Every object that is present has what it needs, the copied Secrets and the
\* namespaces included, unless somebody deleted that (order of the Objects
\* methods, of reconcileAddons and of apply).
NeedsArePresent ==
    \A i \in present : \A j \in Uses(i) : j \in present \union removed

\* An object the controller watches and somebody deletes is on its way back:
\* the reconcile is queued or has not come to it yet (watches, isPartOf).
DeletedIsPending ==
    \A op \in Operators, i \in removed :
        Watched(i) /\ marker /\ engaged[op] /\ source["mcp"] # 0
            => \/ queue[op] # "none"
               \/ ~ At(op, "idle") /\ work[op].i <= i

Rests(op) == engaged[op] /\ At(op, "idle") /\ queue[op] = "none"

\* A process that rests has everything installed, but for objects that somebody
\* deleted and no event tells of; when all rest, the stored token is one that
\* workers can join with. No work is dropped by a reconcile that ends early, by a
\* restart, or because another process does it (addon_controller.go:51-103,
\* addon.go:111).
RestIsInstalled ==
    marker /\ source["mcp"] # 0 =>
        /\ \A op \in Operators : Rests(op) =>
              \A i \in Positions : i \in present \/ (i \in removed /\ ~ Watched(i))
        /\ (\A op \in Operators : Rests(op)) => stored \in tokens \union {0}

\* One process alone never renders an object again from an older version of
\* an input than before: its cache, its reads and a restart only go forward.
RenderedForward ==
    [][\A i \in present \intersect present' : \A x \in Inputs :
          content[i][x] <= content'[i][x]]_vars

Serviceable ==
    /\ \A x \in Inputs : source[x] # 0
    /\ source["mcp"] \notin NilNetworking
    /\ marker

Current ==
    /\ present = Positions
    /\ \A i \in Positions : content[i] = Rendered(i, source)
    /\ stored # 0 /\ stored \in tokens

\* Once inputs and faults come to rest, the managed cluster ends up with every
\* object, rendered from the latest inputs, and with the stored token,
\* although Secrets and the control plane cause no event here (the resync).
AddonsFollow == <>[](Serviceable => Current)
=============================================================================
