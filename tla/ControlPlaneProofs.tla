--------------------------- MODULE ControlPlaneProofs ---------------------------
(***************************************************************************)
(* Proofs about the ManagedControlPlane reconciler, for any number of      *)
(* operators, addresses and generations, any lag of the caches and any     *)
(* number of faults.                                                       *)
(***************************************************************************)
EXTENDS ControlPlaneProperties, SequenceTheorems, TLAPS

-----------------------------------------------------------------------------
(* What the helpers of the actions keep well typed. *)

\* The verdicts of Reconcile are verdicts.
LEMMA VerdictTypes ==
    /\ Ready \in Verdicts /\ Unset \in Verdicts
    /\ \A c \in Components : Waiting(c) \in Verdicts /\ Failed(c) \in Verdicts
    /\ NoCondition \in [verdict : Verdicts, gen : Nat]
BY DEF Ready, Unset, Waiting, Failed, Verdicts, NoCondition

\* A new object is an object.
LEMMA NewMCPType == NewMCP \in MCP
BY VerdictTypes DEF NewMCP, MCP, Endpoints

\* Every stage but the last has a next one.
LEMMA ThenType == \A s \in DOMAIN Then : Then[s] \in Stages
BY DEF Then, Stages

\* What an informer has cached is an object.
LEMMA CachedType ==
    ASSUME TypeOK, NEW o \in Operators
    PROVE  Cached(o) \in MCP
BY DEF TypeOK, Cached

\* A cache of one version, as after a list.
LEMMA SingletonType ==
    ASSUME NEW m \in MCP
    PROVE  <<m>> \in Seq(MCP) /\ <<m>> # <<>>
OBVIOUS

\* A component is rendered from a generation and an address.
LEMMA InputsType ==
    ASSUME NEW c, NEW m \in MCP
    PROVE  Inputs(c, m) \in Rendering
BY DEF Inputs, MCP, Rendering, Endpoints

\* A status patch leaves an object an object.
LEMMA PatchedType ==
    ASSUME NEW m \in MCP, NEW base \in MCP, NEW v \in Verdicts
    PROVE  Patched(m, base, v) \in MCP
BY DEF Patched, MCP, ReadyFlag

\* A write of an object, and the watch events it causes.
LEMMA StoreType ==
    ASSUME TypeOK, NEW m \in MCP, Store(m)
    PROVE  /\ mcp' \in MCP
           /\ informer' \in [Operators -> Seq(MCP)]
           /\ \A o \in Operators : informer'[o] # <<>>
<1>1. CASE m = mcp
    BY <1>1 DEF TypeOK, Store
<1>2. CASE m # mcp
    <2>1. informer' = [o \in Operators |-> Append(informer[o], m)]
        BY <1>2 DEF Store
    <2>2. ASSUME NEW o \in Operators
          PROVE  /\ Append(informer[o], m) \in Seq(MCP)
                 /\ Append(informer[o], m) # <<>>
        <3>1. informer[o] \in Seq(MCP)
            BY DEF TypeOK
        <3>. QED BY <3>1, AppendProperties
    <2>. QED BY <2>1, <2>2 DEF Store
<1>. QED BY <1>1, <1>2

\* A change of owned objects.
LEMMA ChildrenChangeType ==
    ASSUME TypeOK, NEW r \in [Components -> SUBSET Rendering], ChildrenChange(r)
    PROVE  /\ rendered' \in [Components -> SUBSET Rendering]
           /\ childEvent' \in [Operators -> BOOLEAN]
BY DEF TypeOK, ChildrenChange

\* The three ways in which a stage of a reconcile ends.
LEMMA ContinueType ==
    ASSUME TypeOK, NEW o \in Operators, pc[o] \in DOMAIN Then, Continue(o)
    PROVE  /\ pc' \in [Operators -> Stages]
           /\ snap' \in [Operators -> MCP]
           /\ verdict' \in [Operators -> Verdicts]
           /\ fresh' \in [Operators -> BOOLEAN]
           /\ observed' \in [Operators -> Findings]
BY ThenType, VerdictTypes DEF TypeOK, Continue

\* A reconcile that returns leaves no locals behind.
LEMMA LeaveType ==
    ASSUME TypeOK, NEW o \in Operators, Leave(o)
    PROVE  /\ pc' \in [Operators -> Stages]
           /\ snap' \in [Operators -> MCP]
           /\ verdict' \in [Operators -> Verdicts]
           /\ fresh' \in [Operators -> BOOLEAN]
BY NewMCPType, VerdictTypes DEF TypeOK, Leave, Stages

\* A reconcile that stops names its verdict.
LEMMA ReportType ==
    ASSUME TypeOK, NEW o \in Operators, NEW v \in Verdicts, Report(o, v)
    PROVE  /\ pc' \in [Operators -> Stages]
           /\ snap' \in [Operators -> MCP]
           /\ verdict' \in [Operators -> Verdicts]
           /\ fresh' \in [Operators -> BOOLEAN]
           /\ observed' \in [Operators -> Findings]
BY DEF TypeOK, Report, Stages

-----------------------------------------------------------------------------
(* Type correctness. *)

\* Applying a component, in whichever way it ends.
LEMMA ApplyType ==
    ASSUME TypeOK, NEW o \in Operators, NEW c \in Components,
           Apply(o, c) \/ ApplyFails(o, c)
    PROVE  TypeOK'
<1>. snap[o] \in MCP
    BY DEF TypeOK
<1>1. CASE Apply(o, c)
    <2>1. [rendered EXCEPT ![c] = {Inputs(c, snap[o])}]
              \in [Components -> SUBSET Rendering]
        BY InputsType DEF TypeOK
    <2>2. pc[o] \in DOMAIN Then
        BY <1>1 DEF Apply, Components, Then
    <2>. QED
        BY <1>1, <2>1, <2>2, ChildrenChangeType, ContinueType
        DEF Apply, TypeOK, serverVars, envVars
<1>2. CASE ApplyFails(o, c)
    <2>1. PICK done \in {rendered[c], rendered[c] \union {Inputs(c, snap[o])},
                         {Inputs(c, snap[o])}} :
              ChildrenChange([rendered EXCEPT ![c] = done])
        BY <1>2 DEF ApplyFails
    <2>2. [rendered EXCEPT ![c] = done] \in [Components -> SUBSET Rendering]
        BY InputsType DEF TypeOK
    <2>3. /\ rendered' \in [Components -> SUBSET Rendering]
          /\ childEvent' \in [Operators -> BOOLEAN]
        BY <2>1, <2>2, ChildrenChangeType
    <2>4. Failed(c) \in Verdicts
        BY VerdictTypes
    <2>5. faults' \in 0..MaxFaults
        BY <1>2, BoundsAssumption DEF ApplyFails, Fault, TypeOK
    <2>. QED
        BY <1>2, <2>3, <2>4, <2>5, ReportType
        DEF ApplyFails, TypeOK, serverVars
<1>. QED BY <1>1, <1>2

\* A watch event or the end of a delay.
LEMMA WatchType ==
    ASSUME TypeOK, NEW o \in Operators, Watch(o) \/ DelayEnds(o)
    PROVE  TypeOK'
<1>. USE DEF TypeOK, serverVars, childVars, envVars, passVars, Enqueue
<1>1. CASE Deliver(o)
    <2>1. informer[o] \in Seq(MCP) /\ informer[o] # <<>> /\ Len(informer[o]) # 1
        BY <1>1 DEF Deliver, UpToDate
    <2>2. Tail(informer[o]) \in Seq(MCP) /\ Tail(informer[o]) # <<>>
        <3>. HIDE DEF TypeOK
        <3>1. /\ Tail(informer[o]) \in Seq(MCP)
              /\ Len(Tail(informer[o])) = Len(informer[o]) - 1
            BY <2>1, HeadTailProperties
        <3>2. Len(informer[o]) \in Nat
            BY <2>1, LenProperties
        <3>3. Len(Tail(informer[o])) # 0
            BY <2>1, <3>1, <3>2
        <3>. QED BY <3>1, <3>3, EmptySeq
    <2>. QED BY <1>1, <2>2 DEF Deliver
<1>2. CASE DeliverChild(o)
    BY <1>2 DEF DeliverChild
<1>3. CASE DeliverService(o)
    <2>1. Service \in Endpoints \union {Missing}
        BY DEF Service
    <2>. QED BY <1>3, <2>1 DEF DeliverService
<1>4. CASE DelayEnds(o)
    BY <1>4 DEF DelayEnds
<1>. QED BY <1>1, <1>2, <1>3, <1>4 DEF Watch

\* A fault is one of those the bound allows.
LEMMA FaultType ==
    ASSUME TypeOK, NEW kind, Fault(kind)
    PROVE  faults' \in 0..MaxFaults
BY BoundsAssumption DEF TypeOK, Fault

\* A reconcile up to its snapshot.
LEMMA BeginType ==
    ASSUME TypeOK, NEW o \in Operators,
           \/ ReconcileGone(o) \/ RemoveFinalizer(o) \/ AddFinalizer(o)
           \/ FinalizerRejected(o) \/ BeginPass(o)
    PROVE  TypeOK'
<1>1. CASE ReconcileGone(o)
    BY <1>1 DEF ReconcileGone, TypeOK, serverVars, childVars, envVars, passVars
<1>2. CASE RemoveFinalizer(o)
    <2>1. [mcp EXCEPT !.phase = "absent", !.fin = FALSE] \in MCP
        BY DEF TypeOK, MCP
    <2>. QED
        BY <1>2, <2>1, StoreType
        DEF RemoveFinalizer, TypeOK, childVars, envVars, passVars
<1>3. CASE AddFinalizer(o)
    <2>1. [mcp EXCEPT !.fin = TRUE] \in MCP
        BY DEF TypeOK, MCP
    <2>. QED
        BY <1>3, <2>1, StoreType
        DEF AddFinalizer, TypeOK, childVars, envVars, passVars
<1>4. CASE FinalizerRejected(o)
    <2>1. faults' \in 0..MaxFaults
        BY <1>4, FaultType DEF FinalizerRejected, TypeOK
    <2>. QED
        BY <1>4, <2>1
        DEF FinalizerRejected, TypeOK, serverVars, childVars, passVars
<1>5. CASE BeginPass(o)
    <2>1. Cached(o) \in MCP
        BY CachedType
    <2>2. pc' \in [Operators -> Stages]
        BY <1>5 DEF BeginPass, TypeOK, Stages, Then
    <2>3. fresh' \in [Operators -> BOOLEAN]
        BY <1>5 DEF BeginPass, TypeOK
    <2>. QED
        BY <1>5, <2>1, <2>2, <2>3
        DEF BeginPass, TypeOK, serverVars, childVars, envVars
<1>. QED BY <1>1, <1>2, <1>3, <1>4, <1>5

\* The steps between the components' applies.
LEMMA StageType ==
    ASSUME TypeOK, NEW o \in Operators,
           \/ BuildPanics(o) \/ EndpointSettled(o) \/ EndpointPending(o)
           \/ UpdateAddress(o) \/ UpdateAddressFails(o) \/ AdminWaits(o)
           \/ UpdateAdminRef(o) \/ UpdateAdminRefFails(o)
    PROVE  TypeOK'
<1>. /\ {"svc", "admin"} \subseteq Components
     /\ {"endpoint", "adminref"} \subseteq DOMAIN Then
    BY DEF Components, Then
<1>. /\ Waiting("svc") \in Verdicts /\ Waiting("admin") \in Verdicts
     /\ Failed("svc") \in Verdicts /\ Failed("admin") \in Verdicts
    BY VerdictTypes
<1>1. CASE BuildPanics(o)
    BY <1>1, LeaveType
    DEF BuildPanics, EnqueueLater, Later, TypeOK, serverVars, childVars, envVars
<1>2. CASE EndpointSettled(o)
    BY <1>2, ContinueType
    DEF EndpointSettled, TypeOK, serverVars, childVars, envVars
<1>3. CASE EndpointPending(o)
    BY <1>3, ReportType
    DEF EndpointPending, TypeOK, serverVars, childVars, envVars
<1>4. CASE UpdateAddress(o)
    <2>1. svcSeen[o] \in Endpoints
        BY <1>4 DEF UpdateAddress, EndpointChanged, TypeOK
    <2>2. [mcp EXCEPT !.address = svcSeen[o]] \in MCP
        BY <2>1 DEF TypeOK, MCP
    <2>3. pc[o] \in DOMAIN Then
        BY <1>4 DEF UpdateAddress, EndpointChanged
    <2>. QED
        BY <1>4, <2>2, <2>3, StoreType, ContinueType
        DEF UpdateAddress, TypeOK, childVars, envVars
<1>5. CASE UpdateAddressFails(o)
    <2>1. faults' \in 0..MaxFaults
        BY <1>5, FaultType DEF UpdateAddressFails, UpdateRejected, TypeOK
    <2>. QED
        BY <1>5, <2>1, ReportType
        DEF UpdateAddressFails, TypeOK, serverVars, childVars
<1>6. CASE AdminWaits(o)
    BY <1>6, ReportType
    DEF AdminWaits, TypeOK, serverVars, childVars, envVars
<1>7. CASE UpdateAdminRef(o)
    <2>1. [mcp EXCEPT !.adminRef = TRUE] \in MCP
        BY DEF TypeOK, MCP
    <2>2. pc[o] \in DOMAIN Then
        BY <1>7 DEF UpdateAdminRef
    <2>. QED
        BY <1>7, <2>1, <2>2, StoreType, ContinueType
        DEF UpdateAdminRef, TypeOK, childVars, envVars
<1>8. CASE UpdateAdminRefFails(o)
    <2>1. faults' \in 0..MaxFaults
        BY <1>8, FaultType DEF UpdateAdminRefFails, UpdateRejected, TypeOK
    <2>. QED
        BY <1>8, <2>1, ReportType
        DEF UpdateAdminRefFails, TypeOK, serverVars, childVars
<1>. QED BY <1>1, <1>2, <1>3, <1>4, <1>5, <1>6, <1>7, <1>8

\* The end of a reconcile.
LEMMA EndType ==
    ASSUME TypeOK, NEW o \in Operators, WriteStatus(o) \/ WriteStatusFails(o)
    PROVE  TypeOK'
<1>1. PICK taken \in BOOLEAN : EndPass(o, taken)
    BY DEF WriteStatus, WriteStatusFails
<1>2. /\ pc' \in [Operators -> Stages]
      /\ snap' \in [Operators -> MCP]
      /\ verdict' \in [Operators -> Verdicts]
      /\ fresh' \in [Operators -> BOOLEAN]
    BY <1>1, LeaveType DEF EndPass
<1>3. observed' \in [Operators -> Findings]
    <2>1. verdict[o] \in Verdicts /\ snap[o].gen \in Nat /\ fresh[o] \in BOOLEAN
        BY DEF TypeOK, MCP
    <2>2. [verdict |-> verdict[o], gen |-> snap[o].gen, heard |-> taken /\ fresh[o]]
              \in Findings
        BY <2>1 DEF Findings
    <2>. QED BY <1>1, <2>2 DEF EndPass, Finds, TypeOK
<1>4. /\ queue' \in [Operators -> {"none", "delayed", "ready"}]
      /\ UNCHANGED <<rendered, childEvent, lb, adminCert, svcSeen>>
    BY <1>1 DEF EndPass, EnqueueLater, Later, TypeOK, childVars
<1>5. CASE WriteStatus(o)
    <2>1. Patched(mcp, snap[o], verdict[o]) \in MCP
        BY PatchedType DEF TypeOK
    <2>. QED
        BY <1>2, <1>3, <1>4, <1>5, <2>1, StoreType
        DEF WriteStatus, TypeOK
<1>6. CASE WriteStatusFails(o)
    <2>1. faults' \in 0..MaxFaults
        BY <1>6, FaultType DEF WriteStatusFails, TypeOK
    <2>. QED
        BY <1>2, <1>3, <1>4, <1>6, <2>1
        DEF WriteStatusFails, TypeOK, serverVars
<1>. QED BY <1>5, <1>6

\* Users, the cluster around the operator, and crashes.
LEMMA EnvironmentType ==
    ASSUME TypeOK, Environment
    PROVE  TypeOK'
<1>. USE DEF passVars
<1>. mcp.gen + 1 \in Nat
    <2>1. mcp.gen \in Nat
        BY DEF TypeOK, MCP
    <2>. QED BY <2>1
<1>. DEFINE Raised(g, p) == [mcp EXCEPT !.phase = p, !.gen = g]
<1>. \A g \in Nat, p \in {"live", "deleting", "absent"} :
         /\ [mcp EXCEPT !.gen = g] \in MCP
         /\ Raised(g, p) \in MCP
    BY DEF TypeOK, MCP
<1>1. CASE ChangeSpec
    <2>1. [mcp EXCEPT !.gen = @ + 1] \in MCP
        OBVIOUS
    <2>. QED
        BY <1>1, <2>1, StoreType DEF ChangeSpec, TypeOK, childVars, envVars
<1>2. CASE Delete
    <2>1. [mcp EXCEPT !.phase = IF mcp.fin THEN "deleting" ELSE "absent",
                      !.gen = @ + 1] \in MCP
        OBVIOUS
    <2>. QED
        BY <1>2, <2>1, StoreType DEF Delete, TypeOK, childVars, envVars
<1>3. CASE AssignAddress
    BY <1>3 DEF AssignAddress, TypeOK, Endpoints, serverVars, childVars
<1>4. CASE Relocate
    <2>1. faults' \in 0..MaxFaults
        BY <1>4, FaultType DEF Relocate
    <2>. QED
        BY <1>4, <2>1 DEF Relocate, TypeOK, Endpoints, serverVars, childVars
<1>5. CASE IssueAdminCert
    BY <1>5 DEF IssueAdminCert, TypeOK, serverVars, childVars
<1>6. CASE WorkloadEvent
    BY <1>6 DEF WorkloadEvent, TypeOK, serverVars, envVars
<1>7. CASE CollectGarbage
    <2>1. [c \in Components |-> {}] \in [Components -> SUBSET Rendering]
        OBVIOUS
    <2>. QED
        BY <1>7, <2>1, ChildrenChangeType
        DEF CollectGarbage, TypeOK, Endpoints, serverVars
<1>8. ASSUME NEW c \in Components, Drift(c)
      PROVE  TypeOK'
    <2>1. [rendered EXCEPT ![c] = {}] \in [Components -> SUBSET Rendering]
        BY DEF TypeOK
    <2>2. faults' \in 0..MaxFaults
        BY <1>8, FaultType DEF Drift
    <2>. QED
        BY <1>8, <2>1, <2>2, ChildrenChangeType
        DEF Drift, TypeOK, Endpoints, serverVars
<1>9. ASSUME NEW o \in Operators, Crash(o)
      PROVE  TypeOK'
    <2>1. faults' \in 0..MaxFaults
        BY <1>9, FaultType DEF Crash
    <2>2. /\ informer' \in [Operators -> Seq(MCP)]
          /\ \A p \in Operators : informer'[p] # <<>>
        <3>1. <<mcp>> \in Seq(MCP) /\ <<mcp>> # <<>>
            <4>1. mcp \in MCP
                BY DEF TypeOK
            <4>. QED BY <4>1, SingletonType
        <3>2. informer' = [informer EXCEPT ![o] = <<mcp>>]
            BY <1>9 DEF Crash
        <3>. DEFINE listed == <<mcp>>
        <3>. HIDE DEF listed
        <3>3. listed \in Seq(MCP) /\ listed # <<>>
            BY <3>1 DEF listed
        <3>4. informer' = [informer EXCEPT ![o] = listed]
            BY <3>2 DEF listed
        <3>. QED BY <3>3, <3>4 DEF TypeOK
    <2>3. Service \in Endpoints \union {Missing}
        BY DEF TypeOK, Service
    <2>4. /\ svcSeen' \in [Operators -> Endpoints \union {Missing}]
          /\ childEvent' \in [Operators -> BOOLEAN]
          /\ queue' \in [Operators -> {"none", "delayed", "ready"}]
        BY <1>9, <2>3 DEF Crash, Enqueue, TypeOK
    <2>5. Leave(o) /\ UNCHANGED <<mcp, rendered, lb, adminCert, observed>>
        BY <1>9 DEF Crash
    <2>. QED
        BY <2>1, <2>2, <2>4, <2>5, LeaveType DEF TypeOK
<1>. QED
    BY <1>1, <1>2, <1>3, <1>4, <1>5, <1>6, <1>7, <1>8, <1>9 DEF Environment

\* Every variable always has its type: in particular, the watch never runs out
\* of the cached version it starts from, and no step of a reconcile leads to a
\* stage or a verdict the code does not have.
THEOREM TypeCorrect == Spec => []TypeOK
<1>1. Init => TypeOK
    <2>. SUFFICES ASSUME Init PROVE TypeOK
        OBVIOUS
    <2>1. <<NewMCP>> \in Seq(MCP) /\ <<NewMCP>> # <<>>
        BY NewMCPType, SingletonType
    <2>2. "idle" \in Stages /\ 0 \in 0..MaxFaults
        BY BoundsAssumption DEF Stages
    <2>3. Nothing \in Findings
        BY VerdictTypes DEF Nothing, Findings
    <2>. QED
        BY <2>1, <2>2, <2>3, NewMCPType, VerdictTypes DEF Init, TypeOK, Endpoints
<1>2. TypeOK /\ [Next]_vars => TypeOK'
    <2>. SUFFICES ASSUME TypeOK, [Next]_vars PROVE TypeOK'
        OBVIOUS
    <2>1. ASSUME NEW o \in Operators, Reconcile(o)
          PROVE  TypeOK'
        BY <2>1, BeginType, StageType, ApplyType, EndType
        DEF Reconcile, ReconcileAPIServiceSvc, ReconcilePKI, ReconcileETCD,
            ReconcileAPIServer, ReconcileControllerManager, ReconcileScheduler,
            ReconcileAdminConfig, Components
    <2>2. ASSUME NEW o \in Operators, Watch(o) \/ DelayEnds(o)
          PROVE  TypeOK'
        BY <2>2, WatchType
    <2>3. CASE Environment
        BY <2>3, EnvironmentType
    <2>4. CASE UNCHANGED vars
        BY <2>4 DEF vars, TypeOK
    <2>. QED
        BY <2>1, <2>2, <2>3, <2>4 DEF Next
<1>. QED BY <1>1, <1>2, PTL DEF Spec

-----------------------------------------------------------------------------
(* Ready is rendered, with one operator process. *)

\* The numbers the invariant compares.
LEMMA Generations ==
    ASSUME TypeOK
    PROVE  /\ mcp.gen \in Nat /\ mcp.cond.gen \in Nat
           /\ \A o \in Operators : Cached(o).gen \in Nat /\ snap[o].gen \in Nat
           /\ \A c \in Components : \A r \in rendered[c] : r.gen \in Nat
<1>1. \A m \in MCP : m.gen \in Nat /\ m.cond.gen \in Nat
    BY DEF MCP
<1>2. mcp \in MCP /\ \A o \in Operators : Cached(o) \in MCP /\ snap[o] \in MCP
    BY CachedType DEF TypeOK
<1>3. \A c \in Components : \A r \in rendered[c] : r.gen \in Nat
    BY DEF TypeOK, Rendering
<1>. QED BY <1>1, <1>2, <1>3

\* The head of a sequence is its first element.
LEMMA HeadIsFirst ==
    ASSUME NEW S, NEW q \in Seq(S), q # <<>>
    PROVE  Head(q) = q[1]
OBVIOUS

\* What is cached is no newer than what is stored.
LEMMA CachedBehind ==
    ASSUME TypeOK, CacheOrdered, NEW o \in Operators
    PROVE  Cached(o).gen <= mcp.gen
<1>1. informer[o] \in Seq(MCP) /\ informer[o] # <<>>
    BY DEF TypeOK
<1>2. Len(informer[o]) \in Nat \ {0}
    BY <1>1, EmptySeq
<1>3. /\ 1 \in 1..Len(informer[o])
      /\ Len(informer[o]) \in 1..Len(informer[o])
      /\ 1 <= Len(informer[o])
    BY <1>2
<1>4. Cached(o) = informer[o][1]
    BY <1>1 DEF Cached
<1>. QED BY <1>3, <1>4 DEF CacheOrdered

\* A write that does not lower the generation keeps the caches ordered, and what
\* they serve.
LEMMA StoreOrdered ==
    ASSUME TypeOK, CacheOrdered, NEW m \in MCP, m.gen >= mcp.gen, Store(m)
    PROVE  CacheOrdered' /\ \A o \in Operators : Cached(o)' = Cached(o)
<1>. mcp' = m
    BY DEF Store
<1>1. CASE m = mcp
    BY <1>1 DEF Store, CacheOrdered, Cached
<1>2. CASE m # mcp
    <2>. SUFFICES ASSUME NEW o \in Operators
                  PROVE  /\ informer'[o][Len(informer'[o])] = m
                         /\ \A i, j \in 1..Len(informer'[o]) : i <= j =>
                                informer'[o][i].gen <= informer'[o][j].gen
                         /\ Cached(o)' = Cached(o)
        BY DEF CacheOrdered
    <2>. DEFINE s == informer[o]
                n == Len(s)
    <2>1. informer'[o] = Append(s, m)
        BY <1>2 DEF Store
    <2>2. s \in Seq(MCP) /\ s # <<>>
        BY DEF TypeOK
    <2>3. n \in Nat \ {0}
        BY <2>2, EmptySeq
    <2>4. /\ Len(Append(s, m)) = n + 1
          /\ \A i \in 1..n : Append(s, m)[i] = s[i]
          /\ Append(s, m)[n + 1] = m
        BY <2>2, AppendProperties
    <2>5. \A i \in 1..n : s[i] \in MCP
        BY <2>2, ElementOfSeq
    <2>6. /\ s[n] = mcp
          /\ \A i, j \in 1..n : i <= j => s[i].gen <= s[j].gen
        BY DEF CacheOrdered
    <2>7. \A i \in 1..n : s[i].gen \in Nat /\ s[i].gen <= mcp.gen
        BY <2>3, <2>5, <2>6 DEF MCP
    <2>8. mcp.gen \in Nat /\ m.gen \in Nat
        BY DEF TypeOK, MCP
    <2>9. \A i, j \in 1..n + 1 : i <= j =>
              Append(s, m)[i].gen <= Append(s, m)[j].gen
        <3>. SUFFICES ASSUME NEW i \in 1..n + 1, NEW j \in 1..n + 1, i <= j
                      PROVE  Append(s, m)[i].gen <= Append(s, m)[j].gen
            OBVIOUS
        <3>1. CASE j \in 1..n
            BY <2>3, <2>4, <2>6, <3>1
        <3>2. CASE j = n + 1 /\ i \in 1..n
            BY <2>3, <2>4, <2>7, <2>8, <3>2
        <3>3. CASE j = n + 1 /\ i = n + 1
            BY <2>4, <2>8, <3>3
        <3>. QED BY <2>3, <3>1, <3>2, <3>3
    <2>10. Cached(o)' = Cached(o)
        BY <2>1, <2>2, HeadTailAppend DEF Cached
    <2>. QED BY <2>1, <2>4, <2>9, <2>10
<1>. QED BY <1>1, <1>2

\* No reconcile starts, and what is left behind was before.
PassesInert ==
    \A o \in Operators : pc'[o] # "idle" =>
        /\ pc[o] # "idle"
        /\ snap'[o] = snap[o]
        /\ LeftBehind(o)' \subseteq LeftBehind(o)

\* Steps that render nothing and report nothing: caches may move on, children
\* may go, a reconcile may stop, or leave behind only what it had.
LEMMA InertStep ==
    ASSUME TypeOK, TypeOK', RenderedInv, CacheOrdered',
           \A o \in Operators : Cached(o).gen <= Cached(o)'.gen,
           mcp'.cond = mcp.cond,
           \A c \in Components : rendered'[c] \subseteq rendered[c],
           PassesInert
    PROVE  RenderedInv'
<1>. /\ mcp.cond.gen \in Nat
     /\ \A o \in Operators : Cached(o).gen \in Nat /\ snap[o].gen \in Nat
     /\ \A c \in Components : \A r \in rendered[c] : r.gen \in Nat
    BY Generations
<1>. \A o \in Operators : Cached(o)'.gen \in Nat
    <2>. SUFFICES ASSUME NEW o \in Operators PROVE Cached(o)'.gen \in Nat
        OBVIOUS
    <2>1. informer'[o] \in Seq(MCP) /\ informer'[o] # <<>>
        BY DEF TypeOK
    <2>2. Head(informer'[o]) \in MCP
        BY <2>1, HeadTailProperties
    <2>. QED BY <2>2 DEF Cached, MCP
<1>1. NothingAhead'
    BY DEF RenderedInv, NothingAhead, PassesInert
<1>2. \A o \in Operators : /\ LeftBehind(o) \subseteq Components
                           /\ pc'[o] = "idle" => LeftBehind(o)' = {}
    BY DEF LeftBehind, Behind, Components, TypeOK, Stages, Then
<1>3. PassRenders'
    BY <1>2 DEF RenderedInv, PassRenders, PassesInert
<1>4. ReadyIsRendered'
    BY DEF RenderedInv, ReadyIsRendered
<1>. QED BY <1>1, <1>3, <1>4 DEF RenderedInv

\* A step that writes nothing and delivers nothing.
LEMMA SameCaches ==
    ASSUME TypeOK, RenderedInv, UNCHANGED serverVars
    PROVE  /\ CacheOrdered'
           /\ \A o \in Operators : Cached(o).gen <= Cached(o)'.gen
           /\ mcp'.cond = mcp.cond
<1>1. \A o \in Operators : Cached(o)' = Cached(o) /\ Cached(o).gen \in Nat
    BY Generations DEF serverVars, Cached
<1>. QED BY <1>1 DEF serverVars, RenderedInv, CacheOrdered

\* A write that keeps generation and condition.
LEMMA InertStore ==
    ASSUME TypeOK, RenderedInv, NEW m \in MCP, Store(m),
           m.gen >= mcp.gen, m.cond = mcp.cond
    PROVE  /\ CacheOrdered'
           /\ \A o \in Operators : Cached(o).gen <= Cached(o)'.gen
           /\ mcp'.cond = mcp.cond
<1>1. \A o \in Operators : Cached(o)' = Cached(o) /\ Cached(o).gen \in Nat
    BY Generations, StoreOrdered DEF RenderedInv
<1>2. CacheOrdered'
    BY StoreOrdered DEF RenderedInv
<1>. QED BY <1>1, <1>2 DEF Store

\* Watch events and delays: only Deliver moves what the invariant speaks of.
LEMMA WatchRenders ==
    ASSUME TypeOK, TypeOK', RenderedInv, NEW o \in Operators,
           Watch(o) \/ DelayEnds(o)
    PROVE  RenderedInv'
<1>1. UNCHANGED <<mcp, rendered, passVars>>
    BY DEF Watch, DelayEnds, Deliver, DeliverChild, DeliverService,
           serverVars, childVars
<1>2. CASE Deliver(o)
    <2>. DEFINE s == informer[o]
                n == Len(s)
    <2>1. s \in Seq(MCP) /\ s # <<>>
        BY DEF TypeOK
    <2>2. n \in Nat \ {0, 1}
        BY <1>2, <2>1, EmptySeq DEF Deliver, UpToDate
    <2>3. /\ Tail(s) \in Seq(MCP)
          /\ Len(Tail(s)) = n - 1
          /\ \A i \in 1..n - 1 : Tail(s)[i] = s[i + 1]
        BY <2>1, HeadTailProperties
    <2>4. Cached(o) = s[1] /\ Head(Tail(s)) = Tail(s)[1]
        <3>1. Len(Tail(s)) # 0
            BY <2>2, <2>3
        <3>2. Tail(s) # <<>>
            BY <3>1, EmptySeq
        <3>. QED BY <2>1, <2>3, <3>2, HeadIsFirst DEF Cached
    <2>5. /\ informer' = [informer EXCEPT ![o] = Tail(s)]
          /\ informer'[o] = Tail(s)
        BY <1>2 DEF Deliver, TypeOK
    <2>6. /\ s[n] = mcp
          /\ \A i, j \in 1..n : i <= j => s[i].gen <= s[j].gen
        BY DEF RenderedInv, CacheOrdered
    <2>. HIDE DEF s, n
    <2>7. /\ Tail(s)[n - 1] = mcp
          /\ \A i, j \in 1..n - 1 : i <= j => Tail(s)[i].gen <= Tail(s)[j].gen
        <3>1. n - 1 \in 1..n - 1 /\ \A i \in 1..n - 1 : i + 1 \in 1..n
            BY <2>2
        <3>2. (n - 1) + 1 = n
            BY <2>2
        <3>3. \A i, j \in 1..n - 1 : i <= j => i + 1 <= j + 1
            OBVIOUS
        <3>. QED BY <2>3, <2>6, <3>1, <3>2, <3>3
    <2>8. CacheOrdered'
        <3>. SUFFICES ASSUME NEW p \in Operators
                      PROVE  /\ informer'[p][Len(informer'[p])] = mcp
                             /\ \A i, j \in 1..Len(informer'[p]) : i <= j =>
                                    informer'[p][i].gen <= informer'[p][j].gen
            BY <1>1 DEF CacheOrdered
        <3>1. CASE p = o
            BY <2>3, <2>5, <2>7, <3>1
        <3>2. CASE p # o
            BY <2>5, <3>2 DEF RenderedInv, CacheOrdered, TypeOK
        <3>. QED BY <3>1, <3>2
    <2>9. Cached(o).gen <= Cached(o)'.gen
        <3>1. 1 \in 1..n - 1 /\ 1 \in 1..n /\ 2 \in 1..n
            BY <2>2
        <3>2. Cached(o)' = s[2]
            BY <2>3, <2>4, <2>5, <3>1 DEF Cached
        <3>. QED BY <2>4, <2>6, <3>1, <3>2
    <2>10. \A p \in Operators : Cached(p).gen <= Cached(p)'.gen
        <3>. SUFFICES ASSUME NEW p \in Operators, p # o
                      PROVE  Cached(p).gen <= Cached(p)'.gen
            BY <2>9
        <3>1. Cached(p)' = Cached(p) /\ Cached(p).gen \in Nat
            BY <2>5, Generations DEF Cached, TypeOK
        <3>. QED BY <3>1
    <2>. QED
        BY <1>1, <2>8, <2>10, InertStep DEF passVars, LeftBehind, PassesInert
<1>3. CASE DeliverChild(o) \/ DeliverService(o) \/ DelayEnds(o)
    <2>1. UNCHANGED serverVars
        BY <1>3 DEF DeliverChild, DeliverService, DelayEnds
    <2>. QED
        BY <1>1, <2>1, SameCaches, InertStep DEF passVars, LeftBehind, PassesInert
<1>. QED BY <1>2, <1>3 DEF Watch

\* The ways in which a stage that renders nothing ends are inert.
LEMMA InertEnds ==
    ASSUME TypeOK, NEW o \in Operators,
           \/ Continue(o) /\ pc[o] \in {"endpoint", "adminref"}
           \/ pc[o] # "idle" /\ \E v \in Verdicts \ {Ready} : Report(o, v)
           \/ Leave(o)
    PROVE  PassesInert
<1>. SUFFICES ASSUME NEW p \in Operators, pc'[p] # "idle"
              PROVE  /\ pc[p] # "idle"
                     /\ snap'[p] = snap[p]
                     /\ LeftBehind(p)' \subseteq LeftBehind(p)
    BY DEF PassesInert
<1>1. CASE p # o
    BY <1>1 DEF Continue, Report, Leave, LeftBehind, TypeOK
<1>2. CASE p = o /\ Continue(o) /\ pc[o] \in {"endpoint", "adminref"}
    <2>1. pc'[o] = Then[pc[o]] /\ snap' = snap
        BY <1>2 DEF Continue, TypeOK
    <2>2. CASE pc[o] = "endpoint"
        BY <1>2, <2>1, <2>2 DEF LeftBehind, Behind, Then
    <2>3. CASE pc[o] = "adminref"
        BY <1>2, <2>1, <2>3 DEF LeftBehind, Behind, Then
    <2>. QED BY <1>2, <2>1, <2>2, <2>3
<1>3. CASE p = o /\ pc[o] # "idle" /\ \E v \in Verdicts \ {Ready} : Report(o, v)
    <2>1. pc'[o] = "status" /\ verdict'[o] # Ready /\ snap' = snap
        BY <1>3 DEF Report, TypeOK
    <2>. QED BY <1>3, <2>1 DEF LeftBehind, Behind
<1>4. CASE p = o /\ Leave(o)
    BY <1>4 DEF Leave, TypeOK
<1>. QED BY <1>1, <1>2, <1>3, <1>4

\* Waiting and failing are not being ready.
LEMMA NotReady ==
    \A c \in Components : /\ Waiting(c) \in Verdicts \ {Ready}
                          /\ Failed(c) \in Verdicts \ {Ready}
BY VerdictTypes DEF Waiting, Failed, Ready

\* Up to the snapshot: the finalizers change neither generation nor condition,
\* and a snapshot of the cache is not older than anything rendered.
LEMMA BeginRenders ==
    ASSUME TypeOK, TypeOK', RenderedInv, NEW o \in Operators,
           \/ ReconcileGone(o) \/ RemoveFinalizer(o) \/ AddFinalizer(o)
           \/ FinalizerRejected(o) \/ BeginPass(o)
    PROVE  RenderedInv'
<1>. mcp.gen \in Nat
    BY Generations
<1>1. CASE ReconcileGone(o) \/ FinalizerRejected(o)
    <2>1. UNCHANGED <<serverVars, rendered, passVars>>
        BY <1>1 DEF ReconcileGone, FinalizerRejected, childVars
    <2>. QED
        BY <2>1, SameCaches, InertStep DEF passVars, LeftBehind, PassesInert
<1>2. CASE RemoveFinalizer(o) \/ AddFinalizer(o)
    <2>1. PICK m \in MCP : m.gen = mcp.gen /\ m.cond = mcp.cond /\ Store(m)
        <3>1. /\ [mcp EXCEPT !.phase = "absent", !.fin = FALSE] \in MCP
              /\ [mcp EXCEPT !.fin = TRUE] \in MCP
              /\ [mcp EXCEPT !.phase = "absent", !.fin = FALSE].gen = mcp.gen
              /\ [mcp EXCEPT !.phase = "absent", !.fin = FALSE].cond = mcp.cond
              /\ [mcp EXCEPT !.fin = TRUE].gen = mcp.gen
              /\ [mcp EXCEPT !.fin = TRUE].cond = mcp.cond
            BY DEF TypeOK, MCP
        <3>. QED BY <1>2, <3>1 DEF RemoveFinalizer, AddFinalizer
    <2>2. UNCHANGED <<rendered, passVars>>
        BY <1>2 DEF RemoveFinalizer, AddFinalizer, childVars
    <2>3. m.gen >= mcp.gen
        BY <2>1
    <2>4. /\ CacheOrdered'
          /\ \A p \in Operators : Cached(p).gen <= Cached(p)'.gen
          /\ mcp'.cond = mcp.cond
        BY <2>1, <2>3, InertStore
    <2>. QED
        BY <2>2, <2>4, InertStep DEF passVars, LeftBehind, PassesInert
<1>3. CASE BeginPass(o)
    <2>1. /\ UNCHANGED <<mcp, informer, rendered, verdict>>
          /\ snap' = [snap EXCEPT ![o] = Cached(o)]
          /\ pc' = [pc EXCEPT ![o] = "svc"]
        BY <1>3 DEF BeginPass, serverVars, childVars
    <2>2. \A p \in Operators : Cached(p)' = Cached(p) /\ Cached(p).gen \in Nat
        BY <2>1, Generations DEF Cached
    <2>3. CacheOrdered' /\ ReadyIsRendered'
        BY <2>1 DEF RenderedInv, CacheOrdered, ReadyIsRendered
    <2>4. NothingAhead'
        BY <2>1, <2>2 DEF RenderedInv, NothingAhead, TypeOK
    <2>5. \A p \in Operators \ {o} : LeftBehind(p)' = LeftBehind(p)
        BY <2>1 DEF LeftBehind, TypeOK
    <2>6. LeftBehind(o)' = {}
        BY <2>1 DEF LeftBehind, Behind, TypeOK
    <2>7. PassRenders'
        BY <2>1, <2>5, <2>6 DEF RenderedInv, PassRenders, TypeOK
    <2>. QED BY <2>3, <2>4, <2>7 DEF RenderedInv
<1>. QED BY <1>1, <1>2, <1>3

\* Between the applies: addresses and references are written, the rest waits.
LEMMA StageRenders ==
    ASSUME TypeOK, TypeOK', RenderedInv, NEW o \in Operators,
           \/ BuildPanics(o) \/ EndpointSettled(o) \/ EndpointPending(o)
           \/ UpdateAddress(o) \/ UpdateAddressFails(o) \/ AdminWaits(o)
           \/ UpdateAdminRef(o) \/ UpdateAdminRefFails(o)
    PROVE  RenderedInv'
<1>. "svc" \in Components /\ "admin" \in Components
    BY DEF Components
<1>1. rendered' = rendered
    BY DEF BuildPanics, EndpointSettled, EndpointPending, UpdateAddress,
           UpdateAddressFails, AdminWaits, UpdateAdminRef, UpdateAdminRefFails,
           childVars
<1>2. CASE UpdateAddress(o) \/ UpdateAdminRef(o)
    <2>1. PICK m \in MCP : m.gen = mcp.gen /\ m.cond = mcp.cond /\ Store(m)
        <3>1. CASE UpdateAddress(o)
            <4>1. svcSeen[o] \in Endpoints
                BY <3>1 DEF UpdateAddress, EndpointChanged, TypeOK
            <4>2. /\ [mcp EXCEPT !.address = svcSeen[o]] \in MCP
                  /\ [mcp EXCEPT !.address = svcSeen[o]].gen = mcp.gen
                  /\ [mcp EXCEPT !.address = svcSeen[o]].cond = mcp.cond
                BY <4>1 DEF TypeOK, MCP
            <4>. QED BY <3>1, <4>2 DEF UpdateAddress
        <3>2. CASE UpdateAdminRef(o)
            <4>1. /\ [mcp EXCEPT !.adminRef = TRUE] \in MCP
                  /\ [mcp EXCEPT !.adminRef = TRUE].gen = mcp.gen
                  /\ [mcp EXCEPT !.adminRef = TRUE].cond = mcp.cond
                BY DEF TypeOK, MCP
            <4>. QED BY <3>2, <4>1 DEF UpdateAdminRef
        <3>. QED BY <1>2, <3>1, <3>2
    <2>2. m.gen >= mcp.gen
        BY <2>1, Generations
    <2>3. Continue(o) /\ pc[o] \in {"endpoint", "adminref"}
        BY <1>2 DEF UpdateAddress, EndpointChanged, UpdateAdminRef
    <2>. QED BY <1>1, <2>1, <2>2, <2>3, InertStore, InertEnds, InertStep
<1>3. CASE ~ (UpdateAddress(o) \/ UpdateAdminRef(o))
    <2>1. UNCHANGED serverVars
        BY <1>3 DEF BuildPanics, EndpointSettled, EndpointPending,
                    UpdateAddressFails, AdminWaits, UpdateAdminRefFails
    <2>2. CASE BuildPanics(o)
        BY <1>1, <2>1, <2>2, SameCaches, InertEnds, InertStep DEF BuildPanics
    <2>3. CASE EndpointSettled(o)
        BY <1>1, <2>1, <2>3, SameCaches, InertEnds, InertStep
        DEF EndpointSettled
    <2>4. CASE \/ EndpointPending(o) \/ UpdateAddressFails(o)
               \/ AdminWaits(o) \/ UpdateAdminRefFails(o)
        <3>1. pc[o] # "idle" /\ \E v \in Verdicts \ {Ready} : Report(o, v)
            BY <2>4, NotReady
            DEF EndpointPending, UpdateAddressFails, EndpointChanged, AdminWaits,
                UpdateAdminRefFails
        <3>. QED BY <1>1, <2>1, <3>1, SameCaches, InertEnds, InertStep
    <2>. QED BY <1>3, <2>2, <2>3, <2>4
<1>. QED BY <1>2, <1>3

\* The one operator renders from its snapshot, which nothing is newer than.
LEMMA ApplyRenders ==
    ASSUME SingleOperator, TypeOK, TypeOK', RenderedInv, NEW o \in Operators,
           NEW c \in Components, Apply(o, c) \/ ApplyFails(o, c)
    PROVE  RenderedInv'
<1>. DEFINE new == Inputs(c, snap[o])
<1>1. pc[o] = c /\ pc[o] # "idle" /\ UNCHANGED serverVars /\ snap' = snap
    BY DEF Apply, ApplyFails, Continue, Report, Components
<1>2. new.gen = snap[o].gen
    BY DEF Inputs
<1>. HIDE DEF new
<1>3. /\ \A d \in Components \ {c} : rendered'[d] = rendered[d]
      /\ rendered'[c] \subseteq rendered[c] \union {new}
      /\ Apply(o, c) => rendered'[c] = {new}
    <2>1. CASE Apply(o, c)
        BY <2>1 DEF Apply, ChildrenChange, TypeOK, new
    <2>2. CASE ApplyFails(o, c)
        <3>1. PICK done \in {rendered[c], rendered[c] \union {new}, {new}} :
                  rendered' = [rendered EXCEPT ![c] = done]
            BY <2>2 DEF ApplyFails, ChildrenChange, new
        <3>2. ~ Apply(o, c)
            BY <2>2, NotReady DEF Apply, ApplyFails, Continue, Report, TypeOK,
               Then, Components, Ready, Failed
        <3>. QED BY <3>1, <3>2 DEF TypeOK
    <2>. QED BY <2>1, <2>2
<1>4. /\ snap[o].gen \in Nat /\ mcp.cond.gen \in Nat
      /\ snap[o].gen <= Cached(o).gen /\ mcp.cond.gen <= snap[o].gen
    BY <1>1, Generations DEF RenderedInv, NothingAhead
<1>5. \A d \in Components : \A r \in rendered'[d] :
          r = new \/ r \in rendered[d]
    BY <1>3
<1>6. \A p \in Operators : p = o
    BY DEF SingleOperator
<1>7. NothingAhead'
    <2>1. Cached(o)' = Cached(o) /\ mcp' = mcp
        BY <1>1 DEF serverVars, Cached
    <2>2. \A d \in Components : \A r \in rendered'[d] :
              r.gen <= Cached(o).gen /\ r.gen <= snap[o].gen
        BY <1>1, <1>2, <1>4, <1>5 DEF RenderedInv, NothingAhead
    <2>3. mcp.cond.gen <= Cached(o).gen
        BY DEF RenderedInv, NothingAhead
    <2>. QED
        BY <1>1, <1>4, <1>6, <2>1, <2>2, <2>3 DEF NothingAhead
<1>8. PassRenders'
    <2>1. CASE Apply(o, c)
        <3>1. LeftBehind(o)' \subseteq LeftBehind(o) \union {c}
            BY <1>1, <2>1
            DEF Apply, Continue, LeftBehind, Behind, Then, Components, TypeOK
        <3>2. LeftBehind(o) \subseteq Components
            BY DEF LeftBehind, Behind, Components, TypeOK, Stages, Then
        <3>3. \A d \in LeftBehind(o)' : \A r \in rendered'[d] :
                  r.gen >= snap[o].gen
            BY <1>2, <1>3, <1>4, <2>1, <3>1, <3>2 DEF RenderedInv, PassRenders
        <3>. QED BY <1>1, <1>6, <3>3 DEF PassRenders
    <2>2. CASE ApplyFails(o, c)
        <3>1. pc'[o] = "status" /\ verdict'[o] # Ready
            BY <2>2, NotReady DEF ApplyFails, Report, TypeOK
        <3>2. LeftBehind(o)' = {}
            BY <3>1 DEF LeftBehind, Behind
        <3>. QED BY <1>6, <3>2 DEF PassRenders
    <2>. QED BY <2>1, <2>2
<1>9. ReadyIsRendered'
    <2>1. \A d \in Components : \A r \in rendered[d] : r.gen \in Nat
        BY Generations
    <2>. QED
        BY <1>1, <1>2, <1>4, <1>5, <2>1
        DEF RenderedInv, ReadyIsRendered, serverVars
<1>10. CacheOrdered'
    BY <1>1, SameCaches
<1>. QED BY <1>7, <1>8, <1>9, <1>10 DEF RenderedInv

\* What a status patch does to generation and condition.
LEMMA PatchedFields ==
    ASSUME NEW m \in MCP, NEW base \in MCP, NEW v \in Verdicts
    PROVE  /\ Patched(m, base, v).gen = m.gen
           /\ \/ Patched(m, base, v).cond = m.cond
              \/ Patched(m, base, v).cond = [verdict |-> v, gen |-> base.gen]
BY DEF Patched, MCP

\* The patch keeps the condition, or claims the generation of the snapshot; a
\* reconcile that claims Ready has left all components behind.
LEMMA EndRenders ==
    ASSUME SingleOperator, TypeOK, TypeOK', RenderedInv, NEW o \in Operators,
           WriteStatus(o) \/ WriteStatusFails(o)
    PROVE  RenderedInv'
<1>1. Leave(o) /\ pc[o] = "status" /\ rendered' = rendered
    BY DEF WriteStatus, WriteStatusFails, EndPass, childVars
<1>2. PassesInert
    BY <1>1, InertEnds
<1>3. CASE WriteStatusFails(o)
    <2>1. UNCHANGED serverVars
        BY <1>3 DEF WriteStatusFails
    <2>. QED BY <1>1, <1>2, <2>1, SameCaches, InertStep
<1>4. CASE WriteStatus(o)
    <2>. DEFINE m == Patched(mcp, snap[o], verdict[o])
    <2>1. /\ m \in MCP
          /\ m.gen = mcp.gen
          /\ \/ m.cond = mcp.cond
             \/ m.cond = [verdict |-> verdict[o], gen |-> snap[o].gen]
        <3>1. mcp \in MCP /\ snap[o] \in MCP /\ verdict[o] \in Verdicts
            BY DEF TypeOK
        <3>2. m \in MCP
            BY <3>1, PatchedType
        <3>3. /\ m.gen = mcp.gen
              /\ \/ m.cond = mcp.cond
                 \/ m.cond = [verdict |-> verdict[o], gen |-> snap[o].gen]
            BY <3>1, PatchedFields
        <3>. QED BY <3>2, <3>3
    <2>2. Store(m) /\ mcp' = m
        BY <1>4 DEF WriteStatus, Store
    <2>. HIDE DEF m
    <2>3. m.gen >= mcp.gen
        BY <2>1, Generations
    <2>4. CASE m.cond = mcp.cond
        BY <1>1, <1>2, <2>1, <2>2, <2>3, <2>4, InertStore, InertStep
    <2>5. CASE m.cond = [verdict |-> verdict[o], gen |-> snap[o].gen]
        <3>1. CacheOrdered' /\ \A p \in Operators : Cached(p)' = Cached(p)
            BY <2>1, <2>2, <2>3, StoreOrdered DEF RenderedInv
        <3>2. \A p \in Operators : pc'[p] = "idle"
            BY <1>1 DEF SingleOperator, Leave, TypeOK
        <3>3. NothingAhead'
            <4>1. snap[o].gen <= Cached(o).gen
                BY <1>1 DEF RenderedInv, NothingAhead
            <4>2. mcp'.cond.gen <= Cached(o)'.gen
                BY <2>2, <2>5, <3>1, <4>1
            <4>3. \A c \in Components : \A r \in rendered'[c] :
                      r.gen <= Cached(o)'.gen
                BY <1>1, <3>1 DEF RenderedInv, NothingAhead
            <4>. QED BY <3>2, <4>2, <4>3 DEF SingleOperator, NothingAhead
        <3>4. PassRenders'
            BY <3>2 DEF PassRenders, LeftBehind, Behind
        <3>5. ReadyIsRendered'
            <4>1. verdict[o] = Ready => LeftBehind(o) = Components
                BY <1>1 DEF LeftBehind
            <4>. QED
                BY <1>1, <2>2, <2>5, <4>1
                DEF RenderedInv, PassRenders, ReadyIsRendered
        <3>. QED BY <3>1, <3>3, <3>4, <3>5 DEF RenderedInv
    <2>. QED BY <2>1, <2>4, <2>5
<1>. QED BY <1>3, <1>4

\* Users raise the generation, children disappear, a crash forgets a reconcile.
LEMMA EnvironmentRenders ==
    ASSUME TypeOK, TypeOK', RenderedInv, Environment
    PROVE  RenderedInv'
<1>1. CASE ChangeSpec \/ Delete
    <2>1. PICK m \in MCP : m.gen >= mcp.gen /\ m.cond = mcp.cond /\ Store(m)
        <3>1. mcp.gen \in Nat /\ mcp.gen + 1 \in Nat /\ mcp.gen + 1 >= mcp.gen
            <4>1. mcp.gen \in Nat
                BY Generations
            <4>. QED BY <4>1
        <3>2. \A g \in Nat, p \in {"live", "deleting", "absent"} :
                  /\ [mcp EXCEPT !.phase = p, !.gen = g] \in MCP
                  /\ [mcp EXCEPT !.phase = p, !.gen = g].gen = g
                  /\ [mcp EXCEPT !.phase = p, !.gen = g].cond = mcp.cond
                  /\ [mcp EXCEPT !.gen = g] \in MCP
                  /\ [mcp EXCEPT !.gen = g].gen = g
                  /\ [mcp EXCEPT !.gen = g].cond = mcp.cond
            BY DEF TypeOK, MCP
        <3>3. CASE ChangeSpec
            BY <3>1, <3>2, <3>3 DEF ChangeSpec
        <3>4. CASE Delete
            BY <3>1, <3>2, <3>4 DEF Delete
        <3>. QED BY <1>1, <3>3, <3>4
    <2>2. UNCHANGED <<rendered, passVars>>
        BY <1>1 DEF ChangeSpec, Delete, childVars
    <2>3. PassesInert
        BY <2>2 DEF passVars, LeftBehind, PassesInert
    <2>. QED BY <2>1, <2>2, <2>3, InertStore, InertStep
<1>2. CASE AssignAddress \/ Relocate \/ IssueAdminCert \/ WorkloadEvent
    <2>1. UNCHANGED <<serverVars, rendered, passVars>>
        BY <1>2 DEF AssignAddress, Relocate, IssueAdminCert, WorkloadEvent,
                    childVars
    <2>. QED
        BY <2>1, SameCaches, InertStep DEF passVars, LeftBehind, PassesInert
<1>3. CASE CollectGarbage \/ \E c \in Components : Drift(c)
    <2>1. UNCHANGED <<serverVars, passVars>>
        BY <1>3 DEF CollectGarbage, Drift
    <2>2. \A c \in Components : rendered'[c] \subseteq rendered[c]
        BY <1>3 DEF CollectGarbage, Drift, ChildrenChange, TypeOK
    <2>. QED
        BY <2>1, <2>2, SameCaches, InertStep DEF passVars, LeftBehind, PassesInert
<1>4. ASSUME NEW o \in Operators, Crash(o)
      PROVE  RenderedInv'
    <2>1. /\ mcp' = mcp /\ rendered' = rendered
          /\ informer' = [informer EXCEPT ![o] = <<mcp>>]
        BY <1>4 DEF Crash
    <2>2. PassesInert
        BY <1>4, InertEnds DEF Crash
    <2>3. informer'[o] = <<mcp>> /\ Cached(o)' = mcp
        BY <2>1 DEF Cached, TypeOK
    <2>4. \A p \in Operators \ {o} : informer'[p] = informer[p]
        BY <2>1 DEF TypeOK
    <2>5. CacheOrdered'
        <3>1. mcp.gen <= mcp.gen
            BY Generations
        <3>2. /\ <<mcp>>[Len(<<mcp>>)] = mcp
              /\ \A i, j \in 1..Len(<<mcp>>) : <<mcp>>[i] = <<mcp>>[j]
            OBVIOUS
        <3>. QED
            BY <2>1, <2>3, <2>4, <3>1, <3>2 DEF RenderedInv, CacheOrdered
    <2>6. \A p \in Operators : Cached(p).gen <= Cached(p)'.gen
        BY <2>3, <2>4, CachedBehind, Generations DEF RenderedInv, Cached
    <2>. QED BY <2>1, <2>2, <2>5, <2>6, InertStep
<1>. QED BY <1>1, <1>2, <1>3, <1>4 DEF Environment

\* The invariant, for one operator.
LEMMA RenderedInvInit == Init => RenderedInv
<1>. SUFFICES ASSUME Init PROVE RenderedInv
    OBVIOUS
<1>1. /\ mcp = NewMCP
      /\ \A c \in Components : rendered[c] = {}
      /\ \A o \in Operators : /\ informer[o] = <<NewMCP>>
                              /\ pc[o] = "idle"
                              /\ Cached(o) = NewMCP
    BY DEF Init, Cached
<1>2. NewMCP.gen = 1 /\ NewMCP.cond.gen = 0 /\ NewMCP.cond.verdict # Ready
    BY DEF NewMCP, NoCondition, Unset, Ready
<1>. NewMCP.gen <= NewMCP.gen /\ NewMCP.cond.gen <= NewMCP.gen
    BY <1>2
<1>3. CacheOrdered
    <2>1. /\ <<NewMCP>>[Len(<<NewMCP>>)] = NewMCP
          /\ \A i, j \in 1..Len(<<NewMCP>>) : <<NewMCP>>[i] = <<NewMCP>>[j]
          /\ \A i \in 1..Len(<<NewMCP>>) : <<NewMCP>>[i] = NewMCP
        OBVIOUS
    <2>. QED BY <1>1, <2>1 DEF CacheOrdered
<1>4. NothingAhead
    BY <1>1 DEF NothingAhead
<1>5. PassRenders
    BY <1>1 DEF PassRenders, LeftBehind, Behind
<1>6. ReadyIsRendered
    BY <1>1, <1>2 DEF ReadyIsRendered
<1>. QED BY <1>3, <1>4, <1>5, <1>6 DEF RenderedInv

\* Every step of one operator and its environment preserves the invariant.
LEMMA RenderedInvStep ==
    ASSUME SingleOperator, TypeOK, TypeOK', RenderedInv, [Next]_vars
    PROVE  RenderedInv'
<1>1. ASSUME NEW o \in Operators, Reconcile(o)
      PROVE  RenderedInv'
    BY <1>1, BeginRenders, StageRenders, ApplyRenders, EndRenders
    DEF Reconcile, ReconcileAPIServiceSvc, ReconcilePKI, ReconcileETCD,
        ReconcileAPIServer, ReconcileControllerManager, ReconcileScheduler,
        ReconcileAdminConfig, Components
<1>2. ASSUME NEW o \in Operators, Watch(o) \/ DelayEnds(o)
      PROVE  RenderedInv'
    BY <1>2, WatchRenders
<1>3. CASE Environment
    BY <1>3, EnvironmentRenders
<1>4. CASE UNCHANGED vars
    <2>1. PassesInert
        BY <1>4 DEF vars, PassesInert, LeftBehind
    <2>2. UNCHANGED <<serverVars, rendered>>
        BY <1>4 DEF vars, serverVars
    <2>. QED BY <2>1, <2>2, SameCaches, InertStep
<1>. QED BY <1>1, <1>2, <1>3, <1>4 DEF Next

\* With one operator, generations never run backwards on their way from the API
\* server through cache and snapshot to the child objects and the condition
\* (managedcontrolplane_controller.go:94-119, helpers.go:42-69).
THEOREM RenderedInvariant ==
    ASSUME SingleOperator
    PROVE  Spec => []RenderedInv
<1>1. TypeOK /\ TypeOK' /\ RenderedInv /\ [Next]_vars => RenderedInv'
    BY RenderedInvStep
<1>. QED BY <1>1, RenderedInvInit, TypeCorrect, PTL DEF Spec

\* With one operator, a control plane that reports Ready for a generation has no
\* object rendered from an older one: whatever the lag of its cache, whatever
\* applies failed half way, wherever the operator crashed.
THEOREM ReadyMeansRendered ==
    ASSUME SingleOperator
    PROVE  Spec => []ReadyIsRendered
<1>1. RenderedInv => ReadyIsRendered
    BY DEF RenderedInv
<1>. QED BY <1>1, RenderedInvariant, PTL

-----------------------------------------------------------------------------
(* The reconciler implements the contract, with one operator process. *)

\* The Ready condition is True.
StatusReady == mcp.cond.verdict = Ready

\* A write that only touches what the contract does not speak of is a stutter.
LEMMA StutterStep ==
    ASSUME UNCHANGED rendered,
           mcp'.phase = mcp.phase, mcp'.gen = mcp.gen, mcp'.cond = mcp.cond
    PROVE  UNCHANGED Contract!vars
BY DEF Contract!vars, RenderedGenerations

\* An up-to-date cache holds the stored object.
LEMMA CachedIsStored ==
    ASSUME TypeOK, CacheOrdered, NEW o \in Operators, UpToDate(o)
    PROVE  Cached(o) = mcp
<1>1. informer[o] \in Seq(MCP) /\ informer[o] # <<>>
    BY DEF TypeOK
<1>2. informer[o][1] = mcp
    BY DEF CacheOrdered, UpToDate
<1>. QED BY <1>1, <1>2, HeadIsFirst DEF Cached

\* Applies render from a generation between the reported and the declared one.
LEMMA ApplyImplements ==
    ASSUME TypeOK, RenderedInv, NEW o \in Operators, NEW c \in Components,
           Apply(o, c) \/ ApplyFails(o, c)
    PROVE  Contract!Render
<1>. DEFINE new == Inputs(c, snap[o])
<1>1. pc[o] # "idle" /\ mcp' = mcp
    BY DEF Apply, ApplyFails, Components, serverVars
<1>2. new.gen = snap[o].gen
    BY DEF Inputs
<1>3. PICK done \in {rendered[c], rendered[c] \union {new}, {new}} :
          rendered' = [rendered EXCEPT ![c] = done]
    BY DEF Apply, ApplyFails, ChildrenChange
<1>. HIDE DEF new
<1>4. \A d \in Components : \A r \in rendered'[d] : r = new \/ r \in rendered[d]
    BY <1>3 DEF TypeOK
<1>5. RenderedGenerations' \subseteq RenderedGenerations \union {snap[o].gen}
    BY <1>2, <1>4 DEF RenderedGenerations
<1>6. snap[o].gen \in mcp.cond.gen..mcp.gen
    <2>1. mcp.cond.gen <= snap[o].gen /\ snap[o].gen <= Cached(o).gen
        BY <1>1 DEF RenderedInv, NothingAhead
    <2>2. Cached(o).gen <= mcp.gen
        BY CachedBehind DEF RenderedInv
    <2>. QED BY <2>1, <2>2, Generations
<1>. QED BY <1>1, <1>5, <1>6 DEF Contract!Render

\* Objects that disappear are a rendering of nothing.
LEMMA DisappearImplements ==
    ASSUME TypeOK, RenderedInv, UNCHANGED serverVars,
           \A c \in Components : rendered'[c] \subseteq rendered[c]
    PROVE  Contract!Render
<1>1. RenderedGenerations' \subseteq RenderedGenerations
    BY DEF RenderedGenerations
<1>2. mcp.cond.gen \in mcp.cond.gen..mcp.gen
    <2>1. PICK o \in Operators : TRUE
        BY OperatorsAssumption
    <2>2. mcp.cond.gen <= Cached(o).gen /\ Cached(o).gen <= mcp.gen
        BY CachedBehind DEF RenderedInv, NothingAhead
    <2>. QED BY <2>2, Generations
<1>. QED BY <1>1, <1>2 DEF Contract!Render, serverVars

\* A status patch is a report: of no older generation than before, and, if it
\* says Ready, of none that an object is older than.
LEMMA EndImplements ==
    ASSUME TypeOK, RenderedInv, RenderedInv', NEW o \in Operators, WriteStatus(o)
    PROVE  Contract!Report
<1>1. /\ pc[o] = "status" /\ rendered' = rendered
      /\ mcp.phase # "absent"
      /\ mcp' = Patched(mcp, snap[o], verdict[o])
    BY DEF WriteStatus, EndPass, childVars, Store
<1>2. mcp \in MCP /\ snap[o] \in MCP /\ verdict[o] \in Verdicts
    BY DEF TypeOK
<1>3. /\ mcp'.gen = mcp.gen /\ mcp'.phase = mcp.phase
      /\ mcp'.cond.gen \in {mcp.cond.gen, snap[o].gen}
    <2>1. Patched(mcp, snap[o], verdict[o]).phase = mcp.phase
        BY <1>2 DEF Patched, MCP
    <2>2. /\ mcp'.gen = mcp.gen
          /\ \/ mcp'.cond = mcp.cond
             \/ mcp'.cond = [verdict |-> verdict[o], gen |-> snap[o].gen]
        BY <1>1, <1>2, PatchedFields
    <2>. QED BY <1>1, <2>1, <2>2
<1>4. mcp'.cond.gen \in mcp.cond.gen..mcp.gen
    <2>1. mcp.cond.gen <= snap[o].gen /\ snap[o].gen <= Cached(o).gen
        BY <1>1 DEF RenderedInv, NothingAhead
    <2>2. Cached(o).gen <= mcp.gen
        BY CachedBehind DEF RenderedInv
    <2>3. /\ snap[o].gen \in mcp.cond.gen..mcp.gen
          /\ mcp.cond.gen \in mcp.cond.gen..mcp.gen
        BY <2>1, <2>2, Generations
    <2>. QED BY <1>3, <2>3
<1>5. StatusReady' => \A g \in RenderedGenerations : g >= mcp'.cond.gen
    BY <1>1 DEF RenderedInv, ReadyIsRendered, RenderedGenerations, StatusReady
<1>6. UNCHANGED RenderedGenerations
    BY <1>1 DEF RenderedGenerations
<1>. QED
    BY <1>1, <1>3, <1>4, <1>5, <1>6 DEF Contract!Report, StatusReady

\* A step of the reconciler is a step of the contract, or none.
LEMMA StepImplements ==
    ASSUME TypeOK, RenderedInv, RenderedInv', [Next]_vars
    PROVE  [Contract!Next]_(Contract!vars)
<1>. USE DEF Contract!Next
<1>. mcp \in MCP
    BY DEF TypeOK
<1>1. ASSUME NEW o \in Operators, NEW c \in Components,
             Apply(o, c) \/ ApplyFails(o, c)
      PROVE  [Contract!Next]_(Contract!vars)
    BY <1>1, ApplyImplements
<1>2. ASSUME NEW o \in Operators, WriteStatus(o)
      PROVE  [Contract!Next]_(Contract!vars)
    BY <1>2, EndImplements
<1>3. ASSUME NEW o \in Operators, RemoveFinalizer(o)
      PROVE  [Contract!Next]_(Contract!vars)
    <2>1. Cached(o) = mcp
        BY <1>3, CachedIsStored DEF RemoveFinalizer, CanUpdate, RenderedInv
    <2>2. mcp.phase = "deleting"
        BY <1>3, <2>1 DEF RemoveFinalizer
    <2>3. mcp' = [mcp EXCEPT !.phase = "absent", !.fin = FALSE]
        BY <1>3 DEF RemoveFinalizer, Store
    <2>4. /\ mcp'.phase = "absent"
          /\ mcp'.gen = mcp.gen /\ mcp'.cond = mcp.cond
        BY <2>3 DEF MCP
    <2>5. UNCHANGED RenderedGenerations
        BY <1>3 DEF RemoveFinalizer, RenderedGenerations, childVars
    <2>. QED BY <2>2, <2>4, <2>5 DEF Contract!Disappear
<1>4. ASSUME NEW o \in Operators,
             \/ ReconcileGone(o) \/ AddFinalizer(o) \/ FinalizerRejected(o)
             \/ BeginPass(o) \/ BuildPanics(o)
             \/ EndpointSettled(o) \/ EndpointPending(o)
             \/ UpdateAddress(o) \/ UpdateAddressFails(o) \/ AdminWaits(o)
             \/ UpdateAdminRef(o) \/ UpdateAdminRefFails(o)
             \/ WriteStatusFails(o) \/ Watch(o) \/ DelayEnds(o) \/ Crash(o)
      PROVE  [Contract!Next]_(Contract!vars)
    <2>1. UNCHANGED rendered
        BY <1>4
        DEF ReconcileGone, AddFinalizer, FinalizerRejected, BeginPass,
            BuildPanics, EndpointSettled, EndpointPending, UpdateAddress,
            UpdateAddressFails, AdminWaits, UpdateAdminRef, UpdateAdminRefFails,
            WriteStatusFails, EndPass, Watch, Deliver, DeliverChild,
            DeliverService, DelayEnds, Crash, childVars
    <2>2. CASE AddFinalizer(o) \/ UpdateAddress(o) \/ UpdateAdminRef(o)
        <3>1. \/ mcp' = [mcp EXCEPT !.fin = TRUE]
              \/ mcp' = [mcp EXCEPT !.address = svcSeen[o]]
              \/ mcp' = [mcp EXCEPT !.adminRef = TRUE]
            BY <2>2 DEF AddFinalizer, UpdateAddress, UpdateAdminRef, Store
        <3>2. /\ mcp'.phase = mcp.phase
              /\ mcp'.gen = mcp.gen
              /\ mcp'.cond = mcp.cond
            BY <3>1 DEF MCP
        <3>. QED BY <2>1, <3>2, StutterStep
    <2>3. CASE ~ (AddFinalizer(o) \/ UpdateAddress(o) \/ UpdateAdminRef(o))
        <3>1. UNCHANGED mcp
            BY <1>4, <2>3
            DEF ReconcileGone, FinalizerRejected, BeginPass, BuildPanics,
                EndpointSettled, EndpointPending, UpdateAddressFails, AdminWaits,
                UpdateAdminRefFails, WriteStatusFails, Watch, Deliver,
                DeliverChild, DeliverService, DelayEnds, Crash, serverVars
        <3>. QED BY <2>1, <3>1, StutterStep
    <2>. QED BY <2>2, <2>3
<1>5. CASE ChangeSpec
    <2>1. mcp.phase = "live" /\ mcp' = [mcp EXCEPT !.gen = @ + 1]
        BY <1>5 DEF ChangeSpec, Store
    <2>2. /\ mcp'.phase = mcp.phase
          /\ mcp'.gen = mcp.gen + 1 /\ mcp'.cond = mcp.cond
        BY <2>1 DEF MCP
    <2>3. UNCHANGED RenderedGenerations
        BY <1>5 DEF ChangeSpec, RenderedGenerations, childVars
    <2>. QED BY <2>1, <2>2, <2>3 DEF Contract!Declare
<1>6. CASE Delete
    <2>1. /\ mcp.phase = "live"
          /\ mcp' = [mcp EXCEPT
                        !.phase = IF mcp.fin THEN "deleting" ELSE "absent",
                        !.gen = @ + 1]
        BY <1>6 DEF Delete, Store
    <2>2. /\ mcp'.phase \in {"deleting", "absent"}
          /\ mcp'.gen = mcp.gen + 1 /\ mcp'.cond = mcp.cond
        BY <2>1 DEF MCP
    <2>3. UNCHANGED RenderedGenerations
        BY <1>6 DEF Delete, RenderedGenerations, childVars
    <2>. QED BY <2>1, <2>2, <2>3 DEF Contract!Delete
<1>7. CASE \/ AssignAddress \/ Relocate \/ IssueAdminCert \/ WorkloadEvent
           \/ UNCHANGED vars
    <2>1. UNCHANGED <<mcp, rendered>>
        BY <1>7 DEF AssignAddress, Relocate, IssueAdminCert, WorkloadEvent,
                    serverVars, childVars, vars
    <2>. QED BY <2>1, StutterStep
<1>8. CASE CollectGarbage \/ \E c \in Components : Drift(c)
    <2>1. UNCHANGED serverVars
        BY <1>8 DEF CollectGarbage, Drift
    <2>2. \A c \in Components : rendered'[c] \subseteq rendered[c]
        BY <1>8 DEF CollectGarbage, Drift, ChildrenChange, TypeOK
    <2>. QED BY <2>1, <2>2, DisappearImplements
<1>. QED
    BY <1>1, <1>2, <1>3, <1>4, <1>5, <1>6, <1>7, <1>8
    DEF Next, Environment, Reconcile, ReconcileAPIServiceSvc, ReconcilePKI,
        ReconcileETCD, ReconcileAPIServer, ReconcileControllerManager,
        ReconcileScheduler, ReconcileAdminConfig, Components

\* With one operator, the reconciler implements the contract of the status.
THEOREM ImplementsContract ==
    ASSUME SingleOperator
    PROVE  Spec => KeepsContract
<1>1. Init => Contract!Init
    <2>. SUFFICES ASSUME Init PROVE Contract!Init
        OBVIOUS
    <2>1. mcp = NewMCP /\ RenderedGenerations = {}
        BY DEF Init, RenderedGenerations
    <2>. QED
        BY <2>1 DEF Contract!Init, NewMCP, NoCondition, Unset, Ready
<1>2. TypeOK /\ RenderedInv /\ RenderedInv' /\ [Next]_vars
          => [Contract!Next]_(Contract!vars)
    BY StepImplements
<1>. QED
    BY <1>1, <1>2, TypeCorrect, RenderedInvariant, PTL
    DEF Spec, KeepsContract, Contract!Spec

\* With one operator, the generation the condition was observed for never
\* decreases, even though patches are made against stale snapshots.
THEOREM ObservedNeverBack ==
    ASSUME SingleOperator
    PROVE  Spec => ObservedForward
<1>1. TypeOK /\ TypeOK' /\ [Contract!Next]_(Contract!vars)
          => [mcp'.cond.gen >= mcp.cond.gen]_vars
    <2>. SUFFICES ASSUME TypeOK, TypeOK', [Contract!Next]_(Contract!vars)
                  PROVE  mcp'.cond.gen >= mcp.cond.gen
        OBVIOUS
    <2>1. mcp.cond.gen \in Nat
        BY Generations
    <2>. QED
        BY <2>1
        DEF Contract!Next, Contract!vars, Contract!Declare, Contract!Render,
            Contract!Report, Contract!Delete, Contract!Disappear
<1>. QED
    BY <1>1, TypeCorrect, ImplementsContract, PTL
    DEF ObservedForward, KeepsContract, Contract!Spec

=============================================================================
