----------------------- MODULE ControlPlaneController -----------------------
(***************************************************************************)
(* The ManagedControlPlane reconciler (pkg/controller): one object on the  *)
(* API server, the operator processes that watch it through an informer    *)
(* and reconcile it, and the environment they meet (users, the load        *)
(* balancer, cert-manager, the garbage collector, API errors, crashes).    *)
(*                                                                         *)
(* A reconcile takes a snapshot of the CACHED object, applies the seven    *)
(* components in order from that snapshot, and ends by merge-patching the  *)
(* status.  Every step below is one API call of the code, so that writes,  *)
(* watch events and crashes fall between any two of them.                  *)
(***************************************************************************)
EXTENDS Integers, Sequences

CONSTANTS
    Operators,      \* operator processes (more than one: no leader election)
    Addresses,      \* addresses a load balancer may assign
    NoAddress,      \* the empty address
    Missing,        \* the Service is not in the cache
    MaxGen,         \* bound: spec generations a user creates
    MaxLag,         \* bound: object versions a cache may be behind
    MaxFaults,      \* bound: faults of the environment
    FaultKinds,     \* which faults happen, see Faults
    StaleStart,     \* may a reconcile start before the cache is up to date?
    NilNetworking   \* generations whose spec leaves out kubernetes.networking

Faults == {"apply", "update", "status", "crash", "drift", "relocate"}

ASSUME OperatorsAssumption == Operators # {}
ASSUME AddressAssumption ==
    /\ NoAddress \notin Addresses
    /\ Missing \notin Addresses \union {NoAddress}
ASSUME BoundsAssumption ==
    /\ MaxGen \in Nat \ {0}
    /\ MaxLag \in Nat \ {0}
    /\ MaxFaults \in Nat
    /\ FaultKinds \subseteq Faults
    /\ StaleStart \in BOOLEAN
    /\ NilNetworking \subseteq Nat

VARIABLES
    mcp,         \* the ManagedControlPlane stored by the API server
    rendered,    \* component -> the inputs its stored objects were built from
    lb,          \* address the load balancer gave the Service
    adminCert,   \* the admin client Secret cert-manager writes
    informer,    \* operator -> <<cached version, undelivered versions...>>
    svcSeen,     \* operator -> the Service as its cache has it
    childEvent,  \* operator -> an event of an owned object is undelivered
    queue,       \* operator -> the object's item in the work queue
    pc,          \* operator -> stage of the running reconcile
    snap,        \* operator -> the object as the running reconcile read it
    verdict,     \* operator -> status the running reconcile is to report
    fresh,       \* operator -> the snapshot had the status that was stored
    observed,    \* operator -> what its last finished reconcile found
    faults       \* faults so far

serverVars == <<mcp, informer>>
childVars == <<rendered, childEvent>>
passVars == <<pc, snap, verdict, fresh, observed>>
envVars == <<lb, adminCert, faults>>
vars == <<mcp, rendered, lb, adminCert, informer, svcSeen, childEvent, queue,
          pc, snap, verdict, fresh, observed, faults>>

-----------------------------------------------------------------------------
(* Data. *)

Components == {"svc", "pki", "etcd", "apiserver", "cm", "sched", "admin"}

\* The stage after each stage of a reconcile that goes well.  "endpoint" is
\* the second half of the Service component, "adminref" of the kubeconfig one.
Then == [svc |-> "endpoint", endpoint |-> "pki", pki |-> "etcd",
         etcd |-> "apiserver", apiserver |-> "cm", cm |-> "sched",
         sched |-> "admin", admin |-> "adminref", adminref |-> "status"]

Stages == DOMAIN Then \union {"idle", "status"}

\* What a reconcile reports: reason, message and ready flag in one.
Ready == [reason |-> "AllResourcesReady", of |-> "all"]
Waiting(c) == [reason |-> "WaitingForResources", of |-> c]
Failed(c) == [reason |-> "ComponentFailed", of |-> c]
Unset == [reason |-> "none", of |-> "none"]
Verdicts == {Ready, Unset} \union {Waiting(c) : c \in Components}
                           \union {Failed(c) : c \in Components}

NoCondition == [verdict |-> Unset, gen |-> 0]
ReadyFlag(v) == IF v = Ready THEN "true" ELSE "false"

Endpoints == Addresses \union {NoAddress}

MCP == [phase    : {"live", "deleting", "absent"},
        gen      : Nat,
        fin      : BOOLEAN,
        ready    : {"nil", "true", "false"},
        message  : Verdicts,
        cond     : [verdict : Verdicts, gen : Nat],
        address  : Endpoints,
        adminRef : BOOLEAN]

\* What setStatus writes.
StatusOf(m) == [ready |-> m.ready, message |-> m.message, cond |-> m.cond]

NewMCP == [phase |-> "live", gen |-> 1, fin |-> FALSE, ready |-> "nil",
           message |-> Unset, cond |-> NoCondition, address |-> NoAddress,
           adminRef |-> FALSE]

\* What a reconcile found, of which generation, and whether the status heard of it:
\* the API server took the patch, and the snapshot that the patch was computed
\* against had the stored status.
Findings == [verdict : Verdicts, gen : Nat, heard : BOOLEAN]
Nothing == [verdict |-> Unset, gen |-> 0, heard |-> FALSE]

\* The part of the snapshot that the builders of component c put into objects.
Inputs(c, m) == [gen |-> m.gen,
                 address |-> IF c \in {"pki", "apiserver", "admin"}
                             THEN m.address ELSE NoAddress]

Rendering == [gen : Nat, address : Endpoints]

\* The Service as the API server stores it.
Service == IF rendered["svc"] = {} THEN Missing ELSE lb

Cached(o) == Head(informer[o])
UpToDate(o) == Len(informer[o]) = 1

TypeOK ==
    /\ mcp \in MCP
    /\ rendered \in [Components -> SUBSET Rendering]
    /\ lb \in Endpoints
    /\ adminCert \in {"absent", "partial", "issued"}
    /\ informer \in [Operators -> Seq(MCP)]
    /\ \A o \in Operators : informer[o] # <<>>
    /\ svcSeen \in [Operators -> Endpoints \union {Missing}]
    /\ childEvent \in [Operators -> BOOLEAN]
    /\ queue \in [Operators -> {"none", "delayed", "ready"}]
    /\ pc \in [Operators -> Stages]
    /\ snap \in [Operators -> MCP]
    /\ verdict \in [Operators -> Verdicts]
    /\ fresh \in [Operators -> BOOLEAN]
    /\ observed \in [Operators -> Findings]
    /\ faults \in 0..MaxFaults

\* A freshly created object, and an operator that has just listed it.
Init ==
    /\ mcp = NewMCP
    /\ rendered = [c \in Components |-> {}]
    /\ lb = NoAddress
    /\ adminCert = "absent"
    /\ informer = [o \in Operators |-> <<NewMCP>>]
    /\ svcSeen = [o \in Operators |-> Missing]
    /\ childEvent = [o \in Operators |-> FALSE]
    /\ queue = [o \in Operators |-> "ready"]
    /\ pc = [o \in Operators |-> "idle"]
    /\ snap = [o \in Operators |-> NewMCP]
    /\ verdict = [o \in Operators |-> Unset]
    /\ fresh = [o \in Operators |-> FALSE]
    /\ observed = [o \in Operators |-> Nothing]
    /\ faults = 0

-----------------------------------------------------------------------------
(* The API server, the caches and the work queue. *)

\* A write of the object: it takes effect at once and every watch gets the new
\* version later.  A write that changes nothing makes no version.
Store(m) ==
    /\ \A o \in Operators : Len(informer[o]) <= MaxLag
    /\ mcp' = m
    /\ informer' = IF m = mcp THEN informer
                   ELSE [o \in Operators |-> Append(informer[o], m)]

\* Update and Status().Update carry the resourceVersion of the cached object.
\* The API server takes them only when no write came after that version.
CanUpdate(o) == UpToDate(o) /\ mcp.phase # "absent"

Fault(kind) ==
    /\ kind \in FaultKinds
    /\ faults < MaxFaults
    /\ faults' = faults + 1

\* Owned objects are replaced: every operator's watch will report it, except
\* that an apply of new inputs may leave existing objects as they were.
ChildrenChange(r) ==
    /\ rendered' = r
    /\ \/ r # rendered /\ childEvent' = [o \in Operators |-> TRUE]
       \/ /\ \A c \in Components : rendered[c] = {} <=> r[c] = {}
          /\ UNCHANGED childEvent

\* The queue keeps one item per object and, of two times, the earlier.
Later(item) == IF item = "ready" THEN "ready" ELSE "delayed"

Enqueue(o) == queue' = [queue EXCEPT ![o] = "ready"]
EnqueueLater(o) == queue' = [queue EXCEPT ![o] = Later(@)]

\* Mutant: an event of an object that is being reconciled is dropped.
DeliverUnlessBusy(o) ==
    /\ ~ UpToDate(o)
    /\ informer' = [informer EXCEPT ![o] = Tail(@)]
    /\ IF pc[o] = "idle" THEN Enqueue(o) ELSE UNCHANGED queue
    /\ UNCHANGED <<mcp, childVars, envVars, svcSeen, passVars>>

\* The For() watch, with GenerationChangedPredicate: an update that leaves
\* the generation alone is dropped, a removal is not.
Deliver(o) ==
    /\ ~ UpToDate(o)
    /\ informer' = [informer EXCEPT ![o] = Tail(@)]
    /\ IF \/ informer[o][2].gen # Cached(o).gen
          \/ informer[o][2].phase = "absent"
       THEN Enqueue(o)
       ELSE UNCHANGED queue
    /\ UNCHANGED <<mcp, childVars, envVars, svcSeen, passVars>>

\* The Owns() watches on Deployments, StatefulSets, ConfigMaps, Secrets,
\* Certificates and Issuers.
DeliverChild(o) ==
    /\ childEvent[o]
    /\ childEvent' = [childEvent EXCEPT ![o] = FALSE]
    /\ Enqueue(o)
    /\ UNCHANGED <<serverVars, rendered, envVars, svcSeen, passVars>>

\* Mutant: the Service watch drops status changes, as the object's own does.
DeliverServiceUnqueued(o) ==
    /\ svcSeen[o] # Service
    /\ svcSeen' = [svcSeen EXCEPT ![o] = Service]
    /\ UNCHANGED <<serverVars, childVars, envVars, queue, passVars>>

\* The Owns() watch on the Service, whose cached copy the reconcile reads.
DeliverService(o) ==
    /\ svcSeen[o] # Service
    /\ svcSeen' = [svcSeen EXCEPT ![o] = Service]
    /\ Enqueue(o)
    /\ UNCHANGED <<serverVars, childVars, envVars, passVars>>

\* RequeueAfter or the rate limiter's delay has passed.
DelayEnds(o) ==
    /\ queue[o] = "delayed"
    /\ Enqueue(o)
    /\ UNCHANGED <<serverVars, childVars, envVars, svcSeen, passVars>>

-----------------------------------------------------------------------------
(* Reconcile up to the snapshot. *)

Starts(o) ==
    /\ pc[o] = "idle"
    /\ queue[o] = "ready"
    /\ StaleStart \/ UpToDate(o)

\* Not found, or being deleted with nothing left to do.
ReconcileGone(o) ==
    /\ Starts(o)
    /\ \/ Cached(o).phase = "absent"
       \/ Cached(o).phase = "deleting" /\ ~ Cached(o).fin
    /\ queue' = [queue EXCEPT ![o] = "none"]
    /\ UNCHANGED <<serverVars, childVars, envVars, svcSeen, passVars>>

\* Deletion: the finalizer goes and, being the last, the object with it.
RemoveFinalizer(o) ==
    /\ Starts(o)
    /\ Cached(o).phase = "deleting" /\ Cached(o).fin
    /\ CanUpdate(o)
    /\ Store([mcp EXCEPT !.phase = "absent", !.fin = FALSE])
    /\ queue' = [queue EXCEPT ![o] = "none"]
    /\ UNCHANGED <<childVars, envVars, svcSeen, passVars>>

\* First sight of the object: add the finalizer and come back.
AddFinalizer(o) ==
    /\ Starts(o)
    /\ Cached(o).phase = "live" /\ ~ Cached(o).fin
    /\ CanUpdate(o)
    /\ Store([mcp EXCEPT !.fin = TRUE])
    /\ queue' = [queue EXCEPT ![o] = "delayed"]
    /\ UNCHANGED <<childVars, envVars, svcSeen, passVars>>

\* Mutant: a refused update is not retried.
FinalizerRejectedDropped(o) ==
    /\ Starts(o)
    /\ Cached(o).phase = "deleting" /\ Cached(o).fin
    /\ ~ CanUpdate(o)
    /\ queue' = [queue EXCEPT ![o] = "none"]
    /\ UNCHANGED <<serverVars, childVars, envVars, svcSeen, passVars>>

\* Either finalizer update is refused: a conflict, or an API error.
FinalizerRejected(o) ==
    /\ Starts(o)
    /\ \/ Cached(o).phase = "deleting" /\ Cached(o).fin
       \/ Cached(o).phase = "live" /\ ~ Cached(o).fin
    /\ \/ ~ CanUpdate(o) /\ UNCHANGED faults
       \/ Fault("update")
    /\ queue' = [queue EXCEPT ![o] = "delayed"]
    /\ UNCHANGED <<serverVars, childVars, lb, adminCert, svcSeen, passVars>>

\* NewClusterContext: everything rendered below comes from this snapshot.
BeginPass(o) ==
    /\ Starts(o)
    /\ Cached(o).phase = "live" /\ Cached(o).fin
    /\ queue' = [queue EXCEPT ![o] = "none"]
    /\ snap' = [snap EXCEPT ![o] = Cached(o)]
    /\ fresh' = [fresh EXCEPT ![o] = StatusOf(Cached(o)) = StatusOf(mcp)]
    /\ pc' = [pc EXCEPT ![o] = "svc"]
    /\ UNCHANGED <<serverVars, childVars, envVars, svcSeen, verdict, observed>>

-----------------------------------------------------------------------------
(* The components.  Each ends by going on, or by naming its verdict. *)

Continue(o) ==
    /\ pc' = [pc EXCEPT ![o] = Then[pc[o]]]
    /\ verdict' = [verdict EXCEPT ![o] = IF Then[pc[o]] = "status"
                                         THEN Ready ELSE @]
    /\ UNCHANGED <<snap, fresh, observed>>

\* The reconcile returns or dies: its locals are gone.
Leave(o) ==
    /\ pc' = [pc EXCEPT ![o] = "idle"]
    /\ snap' = [snap EXCEPT ![o] = NewMCP]
    /\ fresh' = [fresh EXCEPT ![o] = FALSE]
    /\ verdict' = [verdict EXCEPT ![o] = Unset]

Report(o, v) ==
    /\ pc' = [pc EXCEPT ![o] = "status"]
    /\ verdict' = [verdict EXCEPT ![o] = v]
    /\ UNCHANGED <<snap, fresh, observed>>

\* The API server Deployment's builder dereferences spec.kubernetes.networking.
Renders(o) == pc[o] = "apiserver" => snap[o].gen \notin NilNetworking

\* The kubeconfig needs an address in the snapshot and an issued certificate.
AdminInputsThere(o) == snap[o].address # NoAddress /\ adminCert = "issued"

\* Server-side apply of all objects of a component.
Apply(o, c) ==
    /\ pc[o] = c
    /\ Renders(o)
    /\ c = "admin" => AdminInputsThere(o)
    /\ ChildrenChange([rendered EXCEPT ![c] = {Inputs(c, snap[o])}])
    /\ Continue(o)
    /\ UNCHANGED <<serverVars, envVars, svcSeen, queue>>

\* Mutant: the error of an apply is swallowed.
ApplyFailsUnnoticed(o, c) ==
    /\ pc[o] = c
    /\ Renders(o)
    /\ Fault("apply")
    /\ UNCHANGED childVars
    /\ Continue(o)
    /\ UNCHANGED <<serverVars, lb, adminCert, svcSeen, queue>>

\* An apply fails: before the first object, half way, or after the last one
\* (the answer is lost).
ApplyFails(o, c) ==
    /\ pc[o] = c
    /\ Renders(o)
    /\ c = "admin" => AdminInputsThere(o)
    /\ Fault("apply")
    /\ \E done \in {rendered[c], rendered[c] \union {Inputs(c, snap[o])},
                    {Inputs(c, snap[o])}} :
           ChildrenChange([rendered EXCEPT ![c] = done])
    /\ Report(o, Failed(c))
    /\ UNCHANGED <<serverVars, lb, adminCert, svcSeen, queue>>

\* The builder panics; the runtime turns it into an error and a retry, past
\* the code that would have reported the failure.
BuildPanics(o) ==
    /\ ~ Renders(o)
    /\ Leave(o)
    /\ EnqueueLater(o)
    /\ UNCHANGED <<serverVars, childVars, envVars, svcSeen, observed>>

\* The address is read from the cached Service and compared with the snapshot.
\* No Service in the cache counts as success.
EndpointSettled(o) ==
    /\ pc[o] = "endpoint"
    /\ svcSeen[o] \in {Missing, snap[o].address} \ {NoAddress}
    /\ Continue(o)
    /\ UNCHANGED <<serverVars, childVars, envVars, svcSeen, queue>>

EndpointPending(o) ==
    /\ pc[o] = "endpoint"
    /\ svcSeen[o] = NoAddress
    /\ Report(o, Waiting("svc"))
    /\ UNCHANGED <<serverVars, childVars, envVars, svcSeen, queue>>

\* Mutants: a Service that is not found, or has no address, is not told apart.
EndpointChangedOrMissing(o) ==
    pc[o] = "endpoint" /\ svcSeen[o] \notin {NoAddress, snap[o].address}
EndpointChangedOrEmpty(o) ==
    pc[o] = "endpoint" /\ svcSeen[o] \notin {Missing, snap[o].address}

EndpointChanged(o) ==
    /\ pc[o] = "endpoint"
    /\ svcSeen[o] \notin {Missing, NoAddress, snap[o].address}

\* updateMCPAddress: the status moves on, the snapshot does not.
UpdateAddress(o) ==
    /\ EndpointChanged(o)
    /\ CanUpdate(o)
    /\ Store([mcp EXCEPT !.address = svcSeen[o]])
    /\ Continue(o)
    /\ UNCHANGED <<childVars, envVars, svcSeen, queue>>

\* A status update that keeps conflicting with a stale cache, or fails.
UpdateRejected(o) ==
    \/ ~ CanUpdate(o) /\ UNCHANGED faults
    \/ Fault("update")

UpdateAddressFails(o) ==
    /\ EndpointChanged(o)
    /\ UpdateRejected(o)
    /\ Report(o, Failed("svc"))
    /\ UNCHANGED <<serverVars, childVars, lb, adminCert, svcSeen, queue>>

\* Mutant: a kubeconfig that cannot be written yet is skipped.
AdminSkips(o) ==
    /\ pc[o] = "admin"
    /\ ~ AdminInputsThere(o)
    /\ Continue(o)
    /\ UNCHANGED <<serverVars, childVars, envVars, svcSeen, queue>>

AdminWaits(o) ==
    /\ pc[o] = "admin"
    /\ ~ AdminInputsThere(o)
    /\ Report(o, Waiting("admin"))
    /\ UNCHANGED <<serverVars, childVars, envVars, svcSeen, queue>>

\* updateMCPAdminSecretRef.
UpdateAdminRef(o) ==
    /\ pc[o] = "adminref"
    /\ CanUpdate(o)
    /\ Store([mcp EXCEPT !.adminRef = TRUE])
    /\ Continue(o)
    /\ UNCHANGED <<childVars, envVars, svcSeen, queue>>

UpdateAdminRefFails(o) ==
    /\ pc[o] = "adminref"
    /\ UpdateRejected(o)
    /\ Report(o, Failed("admin"))
    /\ UNCHANGED <<serverVars, childVars, lb, adminCert, svcSeen, queue>>

\* The components, in the order of Reconcile.
ReconcileAPIServiceSvc(o) ==
    \/ Apply(o, "svc") \/ ApplyFails(o, "svc")
    \/ EndpointSettled(o) \/ EndpointPending(o)
    \/ UpdateAddress(o) \/ UpdateAddressFails(o)

ReconcilePKI(o) == Apply(o, "pki") \/ ApplyFails(o, "pki")

ReconcileETCD(o) == Apply(o, "etcd") \/ ApplyFails(o, "etcd")

ReconcileAPIServer(o) ==
    Apply(o, "apiserver") \/ ApplyFails(o, "apiserver") \/ BuildPanics(o)

ReconcileControllerManager(o) == Apply(o, "cm") \/ ApplyFails(o, "cm")

ReconcileScheduler(o) == Apply(o, "sched") \/ ApplyFails(o, "sched")

ReconcileAdminConfig(o) ==
    \/ AdminWaits(o) \/ Apply(o, "admin") \/ ApplyFails(o, "admin")
    \/ UpdateAdminRef(o) \/ UpdateAdminRefFails(o)

-----------------------------------------------------------------------------
(* setStatus and the result of Reconcile. *)

\* Mutants: the condition names the generation of the server, or none unless
\* Ready; the message follows the flag only, or is forgotten when Ready.
PatchedWithServerGen(m, base, v) ==
    [m EXCEPT !.ready = ReadyFlag(v), !.message = v,
              !.cond = [verdict |-> v, gen |-> m.gen]]
PatchedWithoutGen(m, base, v) ==
    [m EXCEPT !.ready = ReadyFlag(v), !.message = v,
              !.cond = [verdict |-> v, gen |-> IF v = Ready THEN base.gen ELSE 0]]
PatchedOnFlip(m, base, v) ==
    [m EXCEPT !.ready = ReadyFlag(v),
              !.message = IF base.ready = ReadyFlag(v) THEN @ ELSE v,
              !.cond = [verdict |-> v, gen |-> base.gen]]
PatchedMessageKept(m, base, v) ==
    [m EXCEPT !.ready = ReadyFlag(v), !.message = IF v = Ready THEN @ ELSE v,
              !.cond = [verdict |-> v, gen |-> base.gen]]

\* A merge patch against the snapshot sends only the fields in which the new
\* status differs from the SNAPSHOT; the server keeps its own values of the
\* others.  The list of conditions is one such field.
Patched(m, base, v) ==
    LET cond == [verdict |-> v, gen |-> base.gen] IN
    [m EXCEPT !.ready = IF base.ready = ReadyFlag(v) THEN @ ELSE ReadyFlag(v),
              !.message = IF base.message = v THEN @ ELSE v,
              !.cond = IF base.cond = cond THEN @ ELSE cond]

Finds(o, taken) ==
    observed' = [observed EXCEPT ![o] = [verdict |-> verdict[o], gen |-> snap[o].gen,
                                         heard |-> taken /\ fresh[o]]]

\* Mutant: a reconcile that waits or failed is not repeated.
EndPassForGood(o, taken) ==
    /\ pc[o] = "status"
    /\ Leave(o)
    /\ Finds(o, taken)
    /\ UNCHANGED <<queue, childVars, lb, adminCert, svcSeen>>

EndPass(o, taken) ==
    /\ pc[o] = "status"
    /\ Leave(o)
    /\ Finds(o, taken)
    /\ IF verdict[o] = Ready THEN UNCHANGED queue ELSE EnqueueLater(o)
    /\ UNCHANGED <<childVars, lb, adminCert, svcSeen>>

WriteStatus(o) ==
    /\ EndPass(o, TRUE)
    /\ mcp.phase # "absent"
    /\ Store(Patched(mcp, snap[o], verdict[o]))
    /\ UNCHANGED faults

\* The patch fails (the object is gone, or an API error); the code ignores it.
WriteStatusFails(o) ==
    /\ EndPass(o, FALSE)
    /\ \/ mcp.phase = "absent" /\ UNCHANGED faults
       \/ Fault("status")
    /\ UNCHANGED serverVars

-----------------------------------------------------------------------------
(* The environment. *)

\* A new process lists the object and the Service, and reconciles.
Crash(o) ==
    /\ Fault("crash")
    /\ informer' = [informer EXCEPT ![o] = <<mcp>>]
    /\ svcSeen' = [svcSeen EXCEPT ![o] = Service]
    /\ childEvent' = [childEvent EXCEPT ![o] = FALSE]
    /\ Enqueue(o)
    /\ Leave(o)
    /\ UNCHANGED <<mcp, rendered, lb, adminCert, observed>>

\* The user edits the spec.
ChangeSpec ==
    /\ mcp.phase = "live"
    /\ mcp.gen < MaxGen
    /\ Store([mcp EXCEPT !.gen = @ + 1])
    /\ UNCHANGED <<childVars, envVars, svcSeen, queue, passVars>>

\* The user deletes the object; a deletion timestamp raises the generation.
Delete ==
    /\ mcp.phase = "live"
    /\ Store([mcp EXCEPT !.phase = IF mcp.fin THEN "deleting" ELSE "absent",
                         !.gen = @ + 1])
    /\ UNCHANGED <<childVars, envVars, svcSeen, queue, passVars>>

AssignAddress ==
    /\ rendered["svc"] # {}
    /\ lb = NoAddress
    /\ lb' \in Addresses
    /\ UNCHANGED <<serverVars, childVars, adminCert, svcSeen, queue, passVars,
                   faults>>

\* The load balancer moves to another address.
Relocate ==
    /\ rendered["svc"] # {}
    /\ lb # NoAddress
    /\ Fault("relocate")
    /\ lb' \in Addresses \ {lb}
    /\ UNCHANGED <<serverVars, childVars, adminCert, svcSeen, queue, passVars>>

\* cert-manager fills the admin client Secret, key first.
IssueAdminCert ==
    /\ rendered["pki"] # {}
    /\ \/ adminCert = "absent" /\ adminCert' = "partial"
       \/ adminCert = "partial" /\ adminCert' = "issued"
    /\ UNCHANGED <<serverVars, childVars, lb, svcSeen, queue, passVars, faults>>

\* A rollout moves on: an owned workload's status changes.
WorkloadEvent ==
    /\ \E c \in {"etcd", "apiserver", "cm", "sched"} : rendered[c] # {}
    /\ childEvent' = [o \in Operators |-> TRUE]
    /\ UNCHANGED <<serverVars, rendered, envVars, svcSeen, queue, passVars>>

\* Somebody deletes the objects of a component.
Drift(c) ==
    /\ Fault("drift")
    /\ rendered[c] # {}
    /\ ChildrenChange([rendered EXCEPT ![c] = {}])
    /\ lb' = IF c = "svc" THEN NoAddress ELSE lb
    /\ UNCHANGED <<serverVars, adminCert, svcSeen, queue, passVars>>

\* Kubernetes removes the children of an owner that is gone.
CollectGarbage ==
    /\ mcp.phase = "absent"
    /\ \E c \in Components : rendered[c] # {}
    /\ ChildrenChange([c \in Components |-> {}])
    /\ lb' = NoAddress
    /\ UNCHANGED <<serverVars, adminCert, svcSeen, queue, passVars, faults>>

-----------------------------------------------------------------------------

Reconcile(o) ==
    \/ ReconcileGone(o) \/ RemoveFinalizer(o) \/ AddFinalizer(o)
    \/ FinalizerRejected(o) \/ BeginPass(o)
    \/ ReconcileAPIServiceSvc(o) \/ ReconcilePKI(o) \/ ReconcileETCD(o)
    \/ ReconcileAPIServer(o) \/ ReconcileControllerManager(o)
    \/ ReconcileScheduler(o) \/ ReconcileAdminConfig(o)
    \/ WriteStatus(o) \/ WriteStatusFails(o)

Watch(o) == Deliver(o) \/ DeliverChild(o) \/ DeliverService(o)

Environment ==
    \/ ChangeSpec \/ Delete \/ AssignAddress \/ Relocate \/ IssueAdminCert
    \/ WorkloadEvent \/ CollectGarbage
    \/ \E c \in Components : Drift(c)
    \/ \E o \in Operators : Crash(o)

Next ==
    \/ \E o \in Operators : Reconcile(o) \/ Watch(o) \/ DelayEnds(o)
    \/ Environment

Spec == Init /\ [][Next]_vars

\* A running operator goes on, watches deliver, delays end; the load balancer,
\* cert-manager and the garbage collector do their work.  Users, faults and
\* rollouts are free to stop.
Fairness ==
    /\ \A o \in Operators :
           /\ WF_vars(Reconcile(o))
           /\ WF_vars(Deliver(o))
           /\ WF_vars(DeliverChild(o))
           /\ WF_vars(DeliverService(o))
           /\ WF_vars(DelayEnds(o))
    /\ WF_vars(AssignAddress)
    /\ WF_vars(IssueAdminCert)
    /\ WF_vars(CollectGarbage)

FairSpec == Spec /\ Fairness
=============================================================================
