---------------------- MODULE ControlPlanePublishedProofs -----------------------
(***************************************************************************)
(* Proofs about what a reader of the Ready message finds: the address and  *)
(* the kubeconfig; about what the reconciles found when everything has     *)
(* come to rest; and about when the status says so.                        *)
(***************************************************************************)
EXTENDS ControlPlaneProofs

\* An address is never taken back, nor the reference to the kubeconfig.
Grows ==
    /\ mcp.address # NoAddress => mcp'.address # NoAddress
    /\ mcp.adminRef => mcp'.adminRef

\* A version an informer holds was there before, or is the one just stored.
CachesFollow ==
    \A o \in Operators : \A i \in 1..Len(informer'[o]) :
        \/ informer'[o][i] = mcp'
        \/ \E j \in 1..Len(informer[o]) : informer'[o][i] = informer[o][j]

\* What a step may do to a reconcile, as far as the invariant can tell.
PassMoves(o) ==
    \/ pc'[o] = pc[o] /\ snap'[o] = snap[o] /\ verdict'[o] = verdict[o]
    \/ pc'[o] = "idle" /\ snap'[o] = NewMCP
    \/ pc'[o] = "svc" /\ snap'[o] = Cached(o)
    \/ /\ snap'[o] = snap[o]
       /\ \/ pc'[o] \notin {"adminref", "status"}
          \/ pc'[o] = "adminref" /\ snap[o].address # NoAddress
          \/ pc'[o] = "status" /\ verdict'[o] # Ready
          \/ pc[o] = "adminref" /\ pc'[o] = "status" /\ mcp'.adminRef

\* The Ready message comes from a reconcile that is to report it.
ReadyIsReported ==
    mcp'.message = Ready =>
        \/ mcp.message = Ready
        \/ \E o \in Operators : pc[o] = "status" /\ verdict[o] = Ready

-----------------------------------------------------------------------------

\* A write reaches every informer behind the versions it holds.
LEMMA StoreFollows ==
    ASSUME TypeOK, NEW m \in MCP, Store(m)
    PROVE  CachesFollow
<1>. mcp' = m
    BY DEF Store
<1>1. CASE m = mcp
    BY <1>1 DEF Store, CachesFollow
<1>2. CASE m # mcp
    <2>. SUFFICES ASSUME NEW o \in Operators, NEW i \in 1..Len(informer'[o])
                  PROVE  \/ informer'[o][i] = m
                         \/ \E j \in 1..Len(informer[o]) :
                                informer'[o][i] = informer[o][j]
        BY DEF CachesFollow
    <2>. DEFINE s == informer[o]
    <2>1. informer'[o] = Append(s, m)
        BY <1>2 DEF Store
    <2>2. s \in Seq(MCP)
        BY DEF TypeOK
    <2>3. /\ Len(Append(s, m)) = Len(s) + 1
          /\ \A k \in 1..Len(s) : Append(s, m)[k] = s[k]
          /\ Append(s, m)[Len(s) + 1] = m
        BY <2>2, AppendProperties
    <2>4. Len(s) \in Nat
        BY <2>2
    <2>. QED BY <2>1, <2>3, <2>4
<1>. QED BY <1>1, <1>2

\* Nothing is stored, cached or reported.
LEMMA SameObject ==
    ASSUME UNCHANGED serverVars
    PROVE  Grows /\ CachesFollow /\ ReadyIsReported
BY DEF serverVars, Grows, CachesFollow, ReadyIsReported

\* The three ways in which a stage ends, and the end of the reconcile.
LEMMA PassEnds ==
    ASSUME TypeOK, NEW o \in Operators, NEW p \in Operators
    PROVE  /\ pc[o] \in DOMAIN Then \ {"admin", "adminref"} /\ Continue(o) => PassMoves(p)
           /\ \A v \in Verdicts \ {Ready} : Report(o, v) => PassMoves(p)
           /\ Leave(o) => PassMoves(p)
<1>1. ASSUME pc[o] \in DOMAIN Then \ {"admin", "adminref"}, Continue(o)
      PROVE  PassMoves(p)
    <2>1. Then[pc[o]] \notin {"adminref", "status"}
        BY <1>1 DEF Then
    <2>. QED BY <1>1, <2>1 DEF Continue, PassMoves, TypeOK
<1>2. ASSUME NEW v \in Verdicts \ {Ready}, Report(o, v)
      PROVE  PassMoves(p)
    BY <1>2 DEF Report, PassMoves, TypeOK
<1>3. ASSUME Leave(o)
      PROVE  PassMoves(p)
    BY <1>3 DEF Leave, PassMoves, TypeOK
<1>. QED BY <1>1, <1>2, <1>3

\* No reconcile moves.
LEMMA PassesStay ==
    ASSUME UNCHANGED passVars
    PROVE  \A p \in Operators : PassMoves(p)
BY DEF passVars, PassMoves

-----------------------------------------------------------------------------
(* Every action is such a step. *)

\* All that a step of the reconciler or its environment does to the address, the
\* reference and the reconciles under way.
Publishes ==
    Grows /\ CachesFollow /\ ReadyIsReported /\ \A p \in Operators : PassMoves(p)

\* A reconcile up to its snapshot.
LEMMA BeginPublishes ==
    ASSUME TypeOK, NEW o \in Operators,
           \/ ReconcileGone(o) \/ RemoveFinalizer(o) \/ AddFinalizer(o)
           \/ FinalizerRejected(o) \/ BeginPass(o)
    PROVE  Publishes
<1>. mcp \in MCP
    BY DEF TypeOK
<1>1. CASE ReconcileGone(o) \/ FinalizerRejected(o)
    BY <1>1, SameObject, PassesStay
    DEF ReconcileGone, FinalizerRejected, Publishes
<1>2. CASE RemoveFinalizer(o)
    <2>. DEFINE m == [mcp EXCEPT !.phase = "absent", !.fin = FALSE]
    <2>1. /\ m \in MCP /\ m.address = mcp.address /\ m.adminRef = mcp.adminRef
          /\ m.message = mcp.message
        BY DEF MCP
    <2>2. Store(m) /\ mcp' = m
        BY <1>2 DEF RemoveFinalizer, Store
    <2>. HIDE DEF m
    <2>3. Grows /\ ReadyIsReported
        BY <2>1, <2>2 DEF Grows, ReadyIsReported
    <2>. QED
        BY <1>2, <2>1, <2>2, <2>3, StoreFollows, PassesStay
        DEF RemoveFinalizer, Publishes
<1>3. CASE AddFinalizer(o)
    <2>. DEFINE m == [mcp EXCEPT !.fin = TRUE]
    <2>1. /\ m \in MCP /\ m.address = mcp.address /\ m.adminRef = mcp.adminRef
          /\ m.message = mcp.message
        BY DEF MCP
    <2>2. Store(m) /\ mcp' = m
        BY <1>3 DEF AddFinalizer, Store
    <2>. HIDE DEF m
    <2>3. Grows /\ ReadyIsReported
        BY <2>1, <2>2 DEF Grows, ReadyIsReported
    <2>. QED
        BY <1>3, <2>1, <2>2, <2>3, StoreFollows, PassesStay
        DEF AddFinalizer, Publishes
<1>4. CASE BeginPass(o)
    <2>1. \A p \in Operators : PassMoves(p)
        BY <1>4 DEF BeginPass, PassMoves, TypeOK
    <2>. QED BY <1>4, <2>1, SameObject DEF BeginPass, Publishes
<1>. QED BY <1>1, <1>2, <1>3, <1>4

\* Applying a component.  The kubeconfig, whose reference is published next, is
\* applied only with an address in the snapshot.
LEMMA ApplyPublishes ==
    ASSUME TypeOK, NEW o \in Operators, NEW c \in Components,
           Apply(o, c) \/ ApplyFails(o, c)
    PROVE  Publishes
<1>1. \A p \in Operators : PassMoves(p)
    <2>1. CASE Apply(o, c) /\ c # "admin"
        <3>1. pc[o] \in DOMAIN Then \ {"admin", "adminref"} /\ Continue(o)
            BY <2>1 DEF Apply, Components, Then
        <3>. QED BY <3>1, PassEnds
    <2>2. CASE Apply(o, c) /\ c = "admin"
        <3>1. Then["admin"] = "adminref"
            BY DEF Then
        <3>2. Continue(o) /\ pc[o] = "admin" /\ snap[o].address # NoAddress
            BY <2>2 DEF Apply, AdminInputsThere
        <3>3. pc' = [pc EXCEPT ![o] = "adminref"] /\ UNCHANGED <<snap, verdict>>
            BY <3>1, <3>2 DEF Continue, TypeOK
        <3>. QED BY <3>2, <3>3 DEF PassMoves, TypeOK
    <2>3. CASE ApplyFails(o, c)
        <3>1. Failed(c) \in Verdicts \ {Ready} /\ Report(o, Failed(c))
            BY <2>3, VerdictTypes DEF ApplyFails, Failed, Ready
        <3>. QED BY <3>1, PassEnds
    <2>. QED BY <2>1, <2>2, <2>3
<1>. QED BY <1>1, SameObject DEF Apply, ApplyFails, Publishes

\* The stages that only look, wait or fail.
LEMMA StagePublishes ==
    ASSUME TypeOK, NEW o \in Operators,
           \/ EndpointSettled(o) \/ EndpointPending(o) \/ UpdateAddressFails(o)
           \/ BuildPanics(o) \/ AdminWaits(o) \/ UpdateAdminRefFails(o)
    PROVE  Publishes
<1>1. UNCHANGED serverVars
    BY DEF EndpointSettled, EndpointPending, UpdateAddressFails, BuildPanics,
           AdminWaits, UpdateAdminRefFails
<1>2. \A p \in Operators : PassMoves(p)
    <2>1. CASE EndpointSettled(o)
        <3>1. pc[o] \in DOMAIN Then \ {"admin", "adminref"} /\ Continue(o)
            BY <2>1 DEF EndpointSettled, Then
        <3>. QED BY <3>1, PassEnds
    <2>2. CASE BuildPanics(o)
        BY <2>2, PassEnds DEF BuildPanics
    <2>3. CASE \/ EndpointPending(o) \/ UpdateAddressFails(o)
               \/ AdminWaits(o) \/ UpdateAdminRefFails(o)
        <3>1. /\ {Waiting("svc"), Failed("svc"), Waiting("admin"), Failed("admin")}
                     \subseteq Verdicts \ {Ready}
            BY VerdictTypes DEF Waiting, Failed, Ready, Components
        <3>2. \E v \in Verdicts \ {Ready} : Report(o, v)
            BY <2>3, <3>1
            DEF EndpointPending, UpdateAddressFails, AdminWaits,
                UpdateAdminRefFails
        <3>. QED BY <3>2, PassEnds
    <2>. QED BY <2>1, <2>2, <2>3
<1>. QED BY <1>1, <1>2, SameObject DEF Publishes

\* The two stages that publish.
LEMMA UpdatePublishes ==
    ASSUME TypeOK, NEW o \in Operators, UpdateAddress(o) \/ UpdateAdminRef(o)
    PROVE  Publishes
<1>. mcp \in MCP
    BY DEF TypeOK
<1>1. CASE UpdateAddress(o)
    <2>. DEFINE m == [mcp EXCEPT !.address = svcSeen[o]]
    <2>1. svcSeen[o] \in Addresses /\ svcSeen[o] # NoAddress
        BY <1>1 DEF UpdateAddress, EndpointChanged, TypeOK, Endpoints
    <2>2. /\ m \in MCP /\ m.address = svcSeen[o] /\ m.adminRef = mcp.adminRef
          /\ m.message = mcp.message
        BY <2>1 DEF MCP, Endpoints
    <2>3. Store(m) /\ mcp' = m
        BY <1>1 DEF UpdateAddress, Store
    <2>. HIDE DEF m
    <2>4. Grows /\ ReadyIsReported
        BY <2>1, <2>2, <2>3 DEF Grows, ReadyIsReported
    <2>5. pc[o] \in DOMAIN Then \ {"admin", "adminref"} /\ Continue(o)
        BY <1>1 DEF UpdateAddress, EndpointChanged, Then
    <2>. QED
        BY <2>2, <2>3, <2>4, <2>5, StoreFollows, PassEnds DEF Publishes
<1>2. CASE UpdateAdminRef(o)
    <2>. DEFINE m == [mcp EXCEPT !.adminRef = TRUE]
    <2>1. /\ m \in MCP /\ m.address = mcp.address /\ m.adminRef
          /\ m.message = mcp.message
        BY DEF MCP
    <2>2. Store(m) /\ mcp' = m
        BY <1>2 DEF UpdateAdminRef, Store
    <2>. HIDE DEF m
    <2>3. Grows /\ ReadyIsReported
        BY <2>1, <2>2 DEF Grows, ReadyIsReported
    <2>4. Then["adminref"] = "status"
        BY DEF Then
    <2>5. /\ pc[o] = "adminref" /\ mcp'.adminRef
          /\ pc' = [pc EXCEPT ![o] = "status"] /\ snap' = snap
          /\ verdict' = [verdict EXCEPT ![o] = Ready]
        BY <1>2, <2>1, <2>2, <2>4 DEF UpdateAdminRef, Continue
    <2>6. \A p \in Operators : PassMoves(p)
        BY <2>5 DEF PassMoves, TypeOK
    <2>. QED
        BY <2>1, <2>2, <2>3, <2>6, StoreFollows DEF Publishes
<1>. QED BY <1>1, <1>2

\* setStatus: the message is the verdict's or stays, and nothing else that a
\* reader of the provider needs is touched.
LEMMA EndPublishes ==
    ASSUME TypeOK, NEW o \in Operators, WriteStatus(o) \/ WriteStatusFails(o)
    PROVE  Publishes
<1>1. \A p \in Operators : PassMoves(p)
    BY PassEnds DEF WriteStatus, WriteStatusFails, EndPass
<1>2. CASE WriteStatus(o)
    <2>. DEFINE m == Patched(mcp, snap[o], verdict[o])
    <2>1. mcp \in MCP /\ snap[o] \in MCP /\ verdict[o] \in Verdicts
        BY DEF TypeOK
    <2>2. m \in MCP
        BY <2>1, PatchedType
    <2>3. /\ m.address = mcp.address /\ m.adminRef = mcp.adminRef
          /\ m.message \in {mcp.message, verdict[o]}
        BY <2>1 DEF Patched, MCP
    <2>4. Store(m) /\ mcp' = m /\ pc[o] = "status"
        BY <1>2 DEF WriteStatus, EndPass, Store
    <2>. HIDE DEF m
    <2>5. Grows /\ ReadyIsReported
        BY <2>3, <2>4 DEF Grows, ReadyIsReported
    <2>. QED BY <1>1, <2>2, <2>4, <2>5, StoreFollows DEF Publishes
<1>3. CASE WriteStatusFails(o)
    BY <1>1, <1>3, SameObject DEF WriteStatusFails, Publishes
<1>. QED BY <1>2, <1>3

\* A delivered version was in the queue of the watch.
LEMMA WatchPublishes ==
    ASSUME TypeOK, NEW o \in Operators, Watch(o) \/ DelayEnds(o)
    PROVE  Publishes
<1>1. UNCHANGED passVars /\ mcp' = mcp
    BY DEF Watch, DelayEnds, Deliver, DeliverChild, DeliverService, serverVars
<1>2. Grows /\ ReadyIsReported
    BY <1>1 DEF Grows, ReadyIsReported
<1>3. CachesFollow
    <2>1. CASE Deliver(o)
        <3>. SUFFICES ASSUME NEW p \in Operators, NEW i \in 1..Len(informer'[p])
                      PROVE  \E j \in 1..Len(informer[p]) :
                                 informer'[p][i] = informer[p][j]
            BY DEF CachesFollow
        <3>1. CASE p # o
            BY <2>1, <3>1 DEF Deliver, TypeOK
        <3>2. CASE p = o
            <4>. DEFINE s == informer[o]
            <4>1. s \in Seq(MCP) /\ s # <<>> /\ informer'[p] = Tail(s)
                BY <2>1, <3>2 DEF Deliver, TypeOK
            <4>2. /\ Len(Tail(s)) = Len(s) - 1
                  /\ \A k \in 1..Len(Tail(s)) : Tail(s)[k] = s[k + 1]
                BY <4>1, HeadTailProperties
            <4>3. Len(s) \in Nat
                BY <4>1, LenProperties
            <4>4. informer'[p][i] = s[i + 1] /\ i + 1 \in 1..Len(s)
                BY <4>1, <4>2, <4>3
            <4>. QED BY <3>2, <4>4
        <3>. QED BY <3>1, <3>2
    <2>2. CASE ~ Deliver(o)
        BY <2>2 DEF Watch, DelayEnds, DeliverChild, DeliverService, serverVars,
                    CachesFollow
    <2>. QED BY <2>1, <2>2
<1>. QED BY <1>1, <1>2, <1>3, PassesStay DEF Publishes

\* The environment: users write the object, crashes list it anew.
LEMMA EnvironmentPublishes ==
    ASSUME TypeOK, Environment
    PROVE  Publishes
<1>. mcp \in MCP
    BY DEF TypeOK
<1>1. CASE ChangeSpec \/ Delete
    <2>1. PICK m \in MCP : /\ Store(m)
                           /\ m.address = mcp.address
                           /\ m.adminRef = mcp.adminRef
                           /\ m.message = mcp.message
        <3>1. CASE ChangeSpec
            <4>. DEFINE m == [mcp EXCEPT !.gen = @ + 1]
            <4>1. /\ m \in MCP /\ m.address = mcp.address
                  /\ m.adminRef = mcp.adminRef /\ m.message = mcp.message
                BY DEF MCP
            <4>. QED BY <3>1, <4>1 DEF ChangeSpec
        <3>2. CASE Delete
            <4>1. PICK phase \in {"deleting", "absent"} :
                      Store([mcp EXCEPT !.phase = phase, !.gen = @ + 1])
                BY <3>2 DEF Delete
            <4>. DEFINE m == [mcp EXCEPT !.phase = phase, !.gen = @ + 1]
            <4>2. m \in MCP
                <5>1. phase \in {"live", "deleting", "absent"} /\ mcp.gen + 1 \in Nat
                    BY DEF MCP
                <5>2. [mcp EXCEPT !.phase = phase] \in MCP
                    BY <5>1, Zenon DEF MCP
                <5>. QED BY <5>1, <5>2 DEF MCP
            <4>3. /\ m.address = mcp.address /\ m.adminRef = mcp.adminRef
                  /\ m.message = mcp.message
                BY DEF MCP
            <4>. QED BY <4>1, <4>2, <4>3
        <3>. QED BY <1>1, <3>1, <3>2
    <2>2. mcp' = m /\ UNCHANGED passVars
        BY <1>1, <2>1 DEF Store, ChangeSpec, Delete
    <2>3. Grows /\ ReadyIsReported
        BY <2>1, <2>2 DEF Grows, ReadyIsReported
    <2>. QED BY <2>1, <2>2, <2>3, StoreFollows, PassesStay DEF Publishes
<1>2. CASE \/ AssignAddress \/ Relocate \/ IssueAdminCert \/ WorkloadEvent
           \/ CollectGarbage \/ \E c \in Components : Drift(c)
    BY <1>2, SameObject, PassesStay
    DEF AssignAddress, Relocate, IssueAdminCert, WorkloadEvent, CollectGarbage,
        Drift, Publishes
<1>3. ASSUME NEW o \in Operators, Crash(o)
      PROVE  Publishes
    <2>1. /\ mcp' = mcp /\ Leave(o)
          /\ informer' = [informer EXCEPT ![o] = <<mcp>>]
        BY <1>3 DEF Crash
    <2>2. Grows /\ ReadyIsReported
        BY <2>1 DEF Grows, ReadyIsReported
    <2>3. CachesFollow
        <3>1. \A i \in 1..Len(<<mcp>>) : <<mcp>>[i] = mcp
            OBVIOUS
        <3>2. \A p \in Operators : informer'[p] = IF p = o THEN <<mcp>>
                                                          ELSE informer[p]
            BY <2>1 DEF TypeOK
        <3>. QED BY <2>1, <3>1, <3>2 DEF CachesFollow
    <2>. QED BY <2>1, <2>2, <2>3, PassEnds DEF Publishes
<1>. QED BY <1>1, <1>2, <1>3 DEF Environment

-----------------------------------------------------------------------------
(* The invariant. *)

\* Every step publishes, or nothing happens.
LEMMA StepPublishes ==
    ASSUME TypeOK, [Next]_vars
    PROVE  Publishes
<1>1. ASSUME NEW o \in Operators, Reconcile(o)
      PROVE  Publishes
    BY <1>1, BeginPublishes, ApplyPublishes, StagePublishes, UpdatePublishes,
       EndPublishes
    DEF Reconcile, ReconcileAPIServiceSvc, ReconcilePKI, ReconcileETCD,
        ReconcileAPIServer, ReconcileControllerManager, ReconcileScheduler,
        ReconcileAdminConfig, Components
<1>2. ASSUME NEW o \in Operators, Watch(o) \/ DelayEnds(o)
      PROVE  Publishes
    BY <1>2, WatchPublishes
<1>3. CASE Environment
    BY <1>3, EnvironmentPublishes
<1>4. CASE UNCHANGED vars
    <2>1. UNCHANGED serverVars /\ UNCHANGED passVars
        BY <1>4 DEF vars, serverVars, passVars
    <2>. QED BY <2>1, SameObject, PassesStay DEF Publishes
<1>. QED BY <1>1, <1>2, <1>3, <1>4 DEF Next

\* The invariant holds of a fresh object.
LEMMA PublishedInvInit == Init => PublishedInv
<1>. SUFFICES ASSUME Init PROVE PublishedInv
    OBVIOUS
<1>1. NewMCP.address = NoAddress /\ NewMCP.message # Ready
    BY DEF NewMCP, Unset, Ready
<1>2. CachesPublished
    <2>1. \A i \in 1..Len(<<NewMCP>>) : <<NewMCP>>[i] = NewMCP
        OBVIOUS
    <2>2. \A o \in Operators : informer[o] = <<NewMCP>>
        BY DEF Init
    <2>. QED BY <1>1, <2>1, <2>2 DEF CachesPublished
<1>3. PassPublished
    BY <1>1 DEF Init, PassPublished
<1>4. ReadyIsReachable
    BY <1>1 DEF Init, ReadyIsReachable
<1>. QED BY <1>2, <1>3, <1>4 DEF PublishedInv

\* What has been published stays so, and no reconcile forgets that it was.
LEMMA PublishedInvStep ==
    ASSUME TypeOK, PublishedInv, Publishes
    PROVE  PublishedInv'
<1>1. CachesPublished'
    BY DEF PublishedInv, Publishes, CachesPublished, CachesFollow, Grows
<1>2. PassPublished'
    <2>. SUFFICES ASSUME NEW o \in Operators
                  PROVE  /\ snap'[o].address # NoAddress
                               => mcp'.address # NoAddress
                         /\ pc'[o] = "adminref" => snap'[o].address # NoAddress
                         /\ pc'[o] = "status" /\ verdict'[o] = Ready =>
                                mcp'.address # NoAddress /\ mcp'.adminRef
        BY DEF PassPublished
    <2>1. /\ snap[o].address # NoAddress => mcp'.address # NoAddress
          /\ pc[o] = "adminref" => snap[o].address # NoAddress
          /\ pc[o] = "status" /\ verdict[o] = Ready =>
                 mcp'.address # NoAddress /\ mcp'.adminRef
        BY DEF PublishedInv, PassPublished, Publishes, Grows
    <2>2. PassMoves(o)
        BY DEF Publishes
    <2>3. CASE pc'[o] = pc[o] /\ snap'[o] = snap[o] /\ verdict'[o] = verdict[o]
        BY <2>1, <2>3
    <2>4. CASE pc'[o] = "idle" /\ snap'[o] = NewMCP
        BY <2>4 DEF NewMCP
    <2>5. CASE pc'[o] = "svc" /\ snap'[o] = Cached(o)
        <3>1. informer[o] \in Seq(MCP) /\ informer[o] # <<>>
            BY DEF TypeOK
        <3>2. Cached(o) = informer[o][1] /\ 1 \in 1..Len(informer[o])
            BY <3>1, LenProperties, EmptySeq DEF Cached
        <3>3. Cached(o).address # NoAddress => mcp'.address # NoAddress
            BY <3>2 DEF PublishedInv, CachesPublished, Publishes, Grows
        <3>. QED BY <2>5, <3>3
    <2>6. CASE /\ snap'[o] = snap[o]
               /\ \/ pc'[o] \notin {"adminref", "status"}
                  \/ pc'[o] = "adminref" /\ snap[o].address # NoAddress
                  \/ pc'[o] = "status" /\ verdict'[o] # Ready
                  \/ pc[o] = "adminref" /\ pc'[o] = "status" /\ mcp'.adminRef
        BY <2>1, <2>6
    <2>. QED BY <2>2, <2>3, <2>4, <2>5, <2>6 DEF PassMoves
<1>3. ReadyIsReachable'
    BY DEF PublishedInv, ReadyIsReachable, PassPublished, Publishes, Grows,
           ReadyIsReported
<1>. QED BY <1>1, <1>2, <1>3 DEF PublishedInv

\* However many operators reconcile the object from however stale caches, what
\* one of them has seen published is published (apiserver.go:126
\* and config.go:117 store address and reference before helpers.go:69 stores Ready).
THEOREM PublishedInvariant == Spec => []PublishedInv
<1>1. TypeOK /\ PublishedInv /\ [Next]_vars => PublishedInv'
    BY StepPublishes, PublishedInvStep
<1>. QED BY <1>1, PublishedInvInit, TypeCorrect, PTL DEF Spec

\* Whoever reads the Ready message, as the provider does (provider.go:98), finds
\* the address and the reference to the kubeconfig beside it.
THEOREM ReadyFindsBoth == Spec => []ReadyIsReachable
<1>1. PublishedInv => ReadyIsReachable
    BY DEF PublishedInv
<1>. QED BY <1>1, PublishedInvariant, PTL

\* No write of the reconciler, patch of its status or edit of a user takes the
\* address or the reference back.
THEOREM PublishedStays == Spec => PublishedForGood
<1>1. TypeOK /\ [Next]_vars
          => [/\ mcp.address # NoAddress => mcp'.address # NoAddress
              /\ mcp.adminRef => mcp'.adminRef]_vars
    BY StepPublishes DEF Publishes, Grows
<1>. QED BY <1>1, TypeCorrect, PTL DEF Spec, PublishedForGood

-----------------------------------------------------------------------------
(* The status and the reconciles whose snapshot has it. *)

\* A reconcile with a fresh snapshot compares its verdict with what is stored.
SnapshotIsStatus ==
    \A o \in Operators :
        fresh[o] => pc[o] # "idle" /\ StatusOf(snap[o]) = StatusOf(mcp)

ReportInv == SnapshotIsStatus /\ ReportHolds

\* The stored status stays, and a snapshot that is fresh has it.
StatusStays ==
    /\ StatusOf(mcp') = StatusOf(mcp)
    /\ \A o \in Operators : fresh'[o] =>
           \/ fresh[o] /\ pc[o] # "idle" /\ pc'[o] # "idle" /\ snap'[o] = snap[o]
           \/ pc'[o] # "idle" /\ StatusOf(snap'[o]) = StatusOf(mcp)

\* No reconcile moves, or one goes on or ends, and the status stays.
LEMMA PassesKeepStatus ==
    ASSUME TypeOK, SnapshotIsStatus, StatusOf(mcp') = StatusOf(mcp),
           \/ UNCHANGED passVars
           \/ \E o \in Operators :
                  \/ Leave(o)
                  \/ pc[o] \in DOMAIN Then /\ Continue(o)
                  \/ pc[o] # "idle" /\ \E v \in Verdicts : Report(o, v)
    PROVE  StatusStays
<1>1. CASE UNCHANGED passVars
    BY <1>1 DEF passVars, StatusStays, SnapshotIsStatus
<1>2. ASSUME NEW o \in Operators,
             \/ pc[o] \in DOMAIN Then /\ Continue(o)
             \/ pc[o] # "idle" /\ \E v \in Verdicts : Report(o, v)
      PROVE  StatusStays
    <2>0. \A s \in DOMAIN Then : s # "idle"
        BY DEF Then
    <2>1. snap' = snap /\ fresh' = fresh /\ pc[o] # "idle"
        BY <1>2, <2>0 DEF Continue, Report
    <2>2. \A p \in Operators : p # o => pc'[p] = pc[p]
        BY <1>2 DEF Continue, Report, TypeOK
    <2>3. pc'[o] # "idle"
        <3>1. \A s \in DOMAIN Then : Then[s] # "idle"
            BY DEF Then
        <3>. QED BY <1>2, <3>1 DEF Continue, Report, TypeOK
    <2>. QED BY <2>1, <2>2, <2>3 DEF StatusStays, SnapshotIsStatus
<1>3. ASSUME NEW o \in Operators, Leave(o)
      PROVE  StatusStays
    BY <1>3 DEF Leave, TypeOK, StatusStays, SnapshotIsStatus
<1>. QED BY <1>1, <1>2, <1>3

\* Everything before setStatus.
LEMMA StageKeepsStatus ==
    ASSUME TypeOK, SnapshotIsStatus, NEW o \in Operators, NEW c \in Components,
           \/ Apply(o, c) \/ ApplyFails(o, c)
           \/ EndpointSettled(o) \/ EndpointPending(o)
           \/ UpdateAddress(o) \/ UpdateAddressFails(o) \/ BuildPanics(o)
           \/ AdminWaits(o) \/ UpdateAdminRef(o) \/ UpdateAdminRefFails(o)
    PROVE  StatusStays
<1>. mcp \in MCP
    BY DEF TypeOK
<1>1. StatusOf(mcp') = StatusOf(mcp)
    <2>1. CASE UpdateAddress(o)
        BY <2>1 DEF UpdateAddress, Store, StatusOf, MCP
    <2>2. CASE UpdateAdminRef(o)
        BY <2>2 DEF UpdateAdminRef, Store, StatusOf, MCP
    <2>3. CASE ~ UpdateAddress(o) /\ ~ UpdateAdminRef(o)
        BY <2>3
        DEF Apply, ApplyFails, EndpointSettled, EndpointPending,
            UpdateAddressFails, BuildPanics, AdminWaits, UpdateAdminRefFails,
            serverVars
    <2>. QED BY <2>1, <2>2, <2>3
<1>2. CASE \/ Apply(o, c) \/ EndpointSettled(o) \/ UpdateAddress(o)
           \/ UpdateAdminRef(o)
    <2>1. pc[o] \in DOMAIN Then /\ Continue(o)
        BY <1>2
        DEF Apply, EndpointSettled, UpdateAddress, EndpointChanged,
            UpdateAdminRef, Components, Then
    <2>. QED BY <1>1, <2>1, PassesKeepStatus
<1>3. CASE \/ ApplyFails(o, c) \/ EndpointPending(o) \/ UpdateAddressFails(o)
           \/ AdminWaits(o) \/ UpdateAdminRefFails(o)
    <2>1. pc[o] # "idle" /\ \E v \in Verdicts : Report(o, v)
        BY <1>3, VerdictTypes
        DEF ApplyFails, EndpointPending, UpdateAddressFails, EndpointChanged,
            AdminWaits, UpdateAdminRefFails, Components
    <2>. QED BY <1>1, <2>1, PassesKeepStatus
<1>4. CASE BuildPanics(o)
    BY <1>1, <1>4, PassesKeepStatus DEF BuildPanics
<1>. QED BY <1>2, <1>3, <1>4

\* A reconcile that starts is fresh only if its cache has the stored status.
LEMMA BeginKeepsStatus ==
    ASSUME TypeOK, SnapshotIsStatus, NEW o \in Operators,
           \/ ReconcileGone(o) \/ RemoveFinalizer(o) \/ AddFinalizer(o)
           \/ FinalizerRejected(o) \/ BeginPass(o)
    PROVE  StatusStays
<1>. mcp \in MCP
    BY DEF TypeOK
<1>1. CASE BeginPass(o)
    <2>1. /\ mcp' = mcp
          /\ pc' = [pc EXCEPT ![o] = "svc"]
          /\ snap' = [snap EXCEPT ![o] = Cached(o)]
          /\ fresh' = [fresh EXCEPT ![o] = StatusOf(Cached(o)) = StatusOf(mcp)]
        BY <1>1 DEF BeginPass, serverVars
    <2>2. ASSUME NEW p \in Operators, p # o
          PROVE  pc'[p] = pc[p] /\ snap'[p] = snap[p] /\ fresh'[p] = fresh[p]
        BY <2>1, <2>2 DEF TypeOK
    <2>3. /\ pc'[o] = "svc" /\ snap'[o] = Cached(o)
          /\ fresh'[o] => StatusOf(Cached(o)) = StatusOf(mcp)
        BY <2>1 DEF TypeOK
    <2>. QED BY <2>1, <2>2, <2>3 DEF StatusStays, SnapshotIsStatus
<1>2. CASE ReconcileGone(o) \/ FinalizerRejected(o)
    BY <1>2, PassesKeepStatus DEF ReconcileGone, FinalizerRejected, serverVars
<1>3. CASE RemoveFinalizer(o) \/ AddFinalizer(o)
    <2>1. StatusOf(mcp') = StatusOf(mcp)
        BY <1>3 DEF RemoveFinalizer, AddFinalizer, Store, StatusOf, MCP
    <2>. QED
        BY <1>3, <2>1, PassesKeepStatus DEF RemoveFinalizer, AddFinalizer
<1>. QED BY <1>1, <1>2, <1>3

\* Watches, users, faults and the other controllers leave the status alone.
LEMMA OthersKeepStatus ==
    ASSUME TypeOK, SnapshotIsStatus,
           \/ Environment
           \/ \E o \in Operators : Watch(o) \/ DelayEnds(o)
    PROVE  StatusStays
<1>. mcp \in MCP
    BY DEF TypeOK
<1>1. CASE ChangeSpec \/ Delete
    <2>1. StatusOf(mcp') = StatusOf(mcp)
        BY <1>1 DEF ChangeSpec, Delete, Store, StatusOf, MCP
    <2>. QED BY <1>1, <2>1, PassesKeepStatus DEF ChangeSpec, Delete
<1>2. CASE \/ AssignAddress \/ Relocate \/ IssueAdminCert \/ WorkloadEvent
           \/ CollectGarbage \/ \E c \in Components : Drift(c)
    BY <1>2, PassesKeepStatus
    DEF AssignAddress, Relocate, IssueAdminCert, WorkloadEvent, CollectGarbage,
        Drift, serverVars
<1>3. ASSUME NEW o \in Operators, Crash(o)
      PROVE  StatusStays
    BY <1>3, PassesKeepStatus DEF Crash
<1>4. ASSUME NEW o \in Operators, Watch(o) \/ DelayEnds(o)
      PROVE  StatusStays
    BY <1>4, PassesKeepStatus
    DEF Watch, Deliver, DeliverChild, DeliverService, DelayEnds, serverVars
<1>. QED BY <1>1, <1>2, <1>3, <1>4 DEF Environment

-----------------------------------------------------------------------------
(* What the reconciles found, and whether the status says so. *)

\* What the other steps leave alone: no reconcile has ended, and an object that
\* is gone does not come back.
NothingFound ==
    /\ observed' = observed
    /\ mcp'.phase # "absent" => mcp.phase # "absent"

\* A reconcile before its end.
LEMMA StageFindsNothing ==
    ASSUME TypeOK, NEW o \in Operators, Reconcile(o),
           ~ WriteStatus(o), ~ WriteStatusFails(o)
    PROVE  NothingFound
<1>. mcp \in MCP
    BY DEF TypeOK
<1>1. CASE \/ ReconcileGone(o) \/ RemoveFinalizer(o) \/ AddFinalizer(o)
           \/ FinalizerRejected(o) \/ BeginPass(o)
    BY <1>1
    DEF ReconcileGone, RemoveFinalizer, AddFinalizer, FinalizerRejected,
        BeginPass, Store, CanUpdate, MCP, NothingFound, serverVars, passVars
<1>2. ASSUME NEW c \in Components, Apply(o, c) \/ ApplyFails(o, c)
      PROVE  NothingFound
    BY <1>2 DEF Apply, ApplyFails, Continue, Report, NothingFound, serverVars
<1>3. CASE UpdateAddress(o) \/ UpdateAdminRef(o)
    BY <1>3
    DEF UpdateAddress, UpdateAdminRef, CanUpdate, Continue, NothingFound
<1>4. CASE \/ EndpointSettled(o) \/ EndpointPending(o) \/ UpdateAddressFails(o)
           \/ BuildPanics(o) \/ AdminWaits(o) \/ UpdateAdminRefFails(o)
    BY <1>4
    DEF EndpointSettled, EndpointPending, UpdateAddressFails, BuildPanics,
        AdminWaits, UpdateAdminRefFails, Continue, Report, NothingFound,
        serverVars
<1>. QED
    BY <1>1, <1>2, <1>3, <1>4
    DEF Reconcile, ReconcileAPIServiceSvc, ReconcilePKI, ReconcileETCD,
        ReconcileAPIServer, ReconcileControllerManager, ReconcileScheduler,
        ReconcileAdminConfig, Components

\* Watches, users, faults and the other controllers.
LEMMA OthersFindNothing ==
    ASSUME TypeOK,
           \/ Environment
           \/ \E o \in Operators : Watch(o) \/ DelayEnds(o)
           \/ UNCHANGED vars
    PROVE  NothingFound
<1>. mcp \in MCP
    BY DEF TypeOK
<1>1. CASE Environment
    BY <1>1
    DEF Environment, ChangeSpec, Delete, AssignAddress, Relocate,
        IssueAdminCert, WorkloadEvent, CollectGarbage, Drift, Crash, Store, MCP,
        NothingFound, serverVars, passVars
<1>2. ASSUME NEW o \in Operators, Watch(o) \/ DelayEnds(o)
      PROVE  NothingFound
    BY <1>2
    DEF Watch, Deliver, DeliverChild, DeliverService, DelayEnds, NothingFound,
        serverVars, passVars
<1>3. CASE UNCHANGED vars
    BY <1>3 DEF vars, NothingFound
<1>. QED BY <1>1, <1>2, <1>3

\* Any step but setStatus leaves the status alone.
LEMMA StatusStep ==
    ASSUME TypeOK, SnapshotIsStatus, [Next]_vars,
           \A o \in Operators : ~ WriteStatus(o) /\ ~ WriteStatusFails(o)
    PROVE  StatusStays /\ NothingFound
<1>1. ASSUME NEW o \in Operators, Reconcile(o)
      PROVE  StatusStays
    BY <1>1, BeginKeepsStatus, StageKeepsStatus
    DEF Reconcile, ReconcileAPIServiceSvc, ReconcilePKI, ReconcileETCD,
        ReconcileAPIServer, ReconcileControllerManager, ReconcileScheduler,
        ReconcileAdminConfig, Components
<1>2. ASSUME UNCHANGED vars
      PROVE  StatusStays
    <2>1. UNCHANGED passVars /\ mcp' = mcp
        BY <1>2 DEF vars, passVars
    <2>2. StatusOf(mcp') = StatusOf(mcp)
        BY <2>1
    <2>. QED BY <2>1, <2>2, PassesKeepStatus
<1>3. StatusStays
    BY <1>1, <1>2, OthersKeepStatus DEF Next
<1>4. NothingFound
    BY StageFindsNothing, OthersFindNothing DEF Next
<1>. QED BY <1>3, <1>4

\* What such a step leaves standing.
LEMMA ReportStays ==
    ASSUME ReportInv, StatusStays, NothingFound
    PROVE  ReportInv'
<1>1. mcp'.ready = mcp.ready /\ mcp'.message = mcp.message /\ mcp'.cond = mcp.cond
    BY DEF StatusStays, StatusOf
<1>2. ReportHolds'
    BY <1>1 DEF ReportInv, ReportHolds, NothingFound
<1>3. SnapshotIsStatus'
    BY DEF ReportInv, StatusStays, SnapshotIsStatus
<1>. QED BY <1>2, <1>3 DEF ReportInv

\* A reconcile ends with no snapshot, and with what it found.
LEMMA EndFinds ==
    ASSUME TypeOK, NEW o \in Operators, NEW taken \in BOOLEAN, EndPass(o, taken)
    PROVE  /\ observed'[o].verdict = verdict[o] /\ observed'[o].gen = snap[o].gen
           /\ observed'[o].heard <=> taken /\ fresh[o]
           /\ \A p \in Operators \ {o} : observed'[p] = observed[p]
           /\ pc'[o] = "idle" /\ ~ fresh'[o]
BY DEF EndPass, Finds, Leave, TypeOK

\* The patch: what it leaves out is what the verdict says already, if the
\* snapshot has what is stored.
LEMMA WriteReports ==
    ASSUME SingleOperator, TypeOK, ReportInv, NEW o \in Operators,
           WriteStatus(o)
    PROVE  ReportInv'
<1>1. /\ mcp \in MCP /\ snap[o] \in MCP /\ verdict[o] \in Verdicts
      /\ pc[o] = "status" /\ mcp' = Patched(mcp, snap[o], verdict[o])
    BY DEF WriteStatus, EndPass, Store, TypeOK
<1>0. EndPass(o, TRUE) /\ TRUE \in BOOLEAN
    BY DEF WriteStatus
<1>2. /\ observed'[o].verdict = verdict[o] /\ observed'[o].gen = snap[o].gen
      /\ observed'[o].heard <=> fresh[o]
      /\ ~ fresh'[o]
    BY <1>0, EndFinds
<1>3. CASE fresh[o]
    <2>1. /\ snap[o].ready = mcp.ready /\ snap[o].message = mcp.message
          /\ snap[o].cond = mcp.cond
        BY <1>3 DEF ReportInv, SnapshotIsStatus, StatusOf
    <2>2. /\ mcp'.ready = ReadyFlag(verdict[o])
          /\ mcp'.message = verdict[o]
          /\ mcp'.cond = [verdict |-> verdict[o], gen |-> snap[o].gen]
        BY <1>1, <2>1 DEF Patched, MCP
    <2>. QED
        BY <1>2, <2>2
        DEF SingleOperator, ReportInv, ReportHolds, SnapshotIsStatus
<1>4. CASE ~ fresh[o]
    BY <1>2, <1>4 DEF SingleOperator, ReportInv, ReportHolds, SnapshotIsStatus
<1>. QED BY <1>3, <1>4 DEF TypeOK

\* A patch that is lost is not heard of.
LEMMA LostPatchReports ==
    ASSUME SingleOperator, TypeOK, ReportInv, NEW o \in Operators,
           WriteStatusFails(o)
    PROVE  ReportInv'
<1>0. EndPass(o, FALSE) /\ FALSE \in BOOLEAN
    BY DEF WriteStatusFails
<1>1. ~ observed'[o].heard /\ ~ fresh'[o]
    BY <1>0, EndFinds
<1>. QED
    BY <1>1 DEF SingleOperator, ReportInv, ReportHolds, SnapshotIsStatus

\* The invariant behind what a reconcile has reported.
LEMMA ReportInvariant ==
    ASSUME SingleOperator
    PROVE  Spec => []ReportInv
<1>1. Init => ReportInv
    BY DEF Init, ReportInv, ReportHolds, SnapshotIsStatus, Nothing
<1>2. TypeOK /\ ReportInv /\ [Next]_vars => ReportInv'
    BY StatusStep, ReportStays, WriteReports, LostPatchReports DEF ReportInv
<1>. QED BY <1>1, <1>2, TypeCorrect, PTL DEF Spec

\* With one operator, however stale its reconciles start and whichever of its
\* patches are lost: one whose patch the API server took, computed against the
\* stored status (helpers.go:69), leaves ready flag, message and condition at what
\* it found, all three, until the next one ends.
THEOREM ReportsHold ==
    ASSUME SingleOperator
    PROVE  Spec => []ReportHolds
<1>1. ReportInv => ReportHolds
    BY DEF ReportInv
<1>. QED BY <1>1, ReportInvariant, PTL

-----------------------------------------------------------------------------
(* When everything has come to rest, for any number of operators.          *)

\* How an object changes: generations grow, phases go from live to deleting
\* to absent, a deletion has a generation of its own and waits for a finalizer.
Precedes(v, m) ==
    /\ v.gen <= m.gen
    /\ m.phase = "live" => v.phase = "live"
    /\ v.phase = "absent" => m.phase = "absent"
    /\ m.phase = "deleting" /\ v.gen = m.gen => v.phase = "deleting" /\ v.fin

\* The versions an informer holds lead to what is stored.
CachesLead ==
    /\ Precedes(mcp, mcp)
    /\ \A o \in Operators :
           /\ informer[o][Len(informer[o])] = mcp
           /\ \A i \in 1..Len(informer[o]) : Precedes(informer[o][i], mcp)

\* Another reconcile is due, or will be when the stored generation is delivered.
Comes(o) == queue[o] # "none" \/ Cached(o).gen # mcp.gen

\* The operator will still apply the component.
Owes(o, c) ==
    \/ Comes(o) \/ childEvent[o]
    \/ pc[o] # "idle" /\ c \notin LeftBehind(o)

Current(c) == rendered[c] # {} /\ \A r \in rendered[c] : r.gen = mcp.gen

\* A reconcile under way renders the cached generation, unless another is due.
PassIsCurrent ==
    \A o \in Operators :
        pc[o] # "idle" /\ queue[o] = "none" => snap[o].gen = Cached(o).gen

DeletionComes == mcp.phase = "deleting" => \A o \in Operators : Comes(o)

RenderingComes ==
    mcp.phase = "live" =>
        \A c \in Components : Current(c) \/ \E o \in Operators : Owes(o, c)

\* Only a reconcile that reported Ready is not repeated.
RestIsPublished ==
    mcp.phase = "live" =>
        \A o \in Operators : pc[o] = "idle" /\ queue[o] = "none" =>
            mcp.address # NoAddress /\ mcp.adminRef

DoneInv ==
    CachesLead /\ PassIsCurrent /\ DeletionComes /\ RenderingComes /\ RestIsPublished

-----------------------------------------------------------------------------
(* What a step may do, as far as that invariant can tell.                  *)

ObjectMoves ==
    /\ Precedes(mcp, mcp') /\ Precedes(mcp', mcp')
    /\ \A o \in Operators : informer'[o][Len(informer'[o])] = mcp'
    /\ mcp' # mcp => \A o \in Operators : Cached(o)' = Cached(o)

\* No version with a generation of its own is delivered without a wake-up.
CacheMoves(o) == Cached(o)'.gen = Cached(o).gen \/ queue'[o] # "none"

\* An item leaves the queue for a reconcile, or for nothing left to do.
QueueMoves(o) ==
    \/ queue[o] = "none" \/ queue'[o] # "none"
    \/ /\ pc[o] = "idle"
       /\ \/ Cached(o).phase = "absent"
          \/ Cached(o).phase = "deleting" /\ ~ Cached(o).fin
          \/ mcp'.phase = "absent"
          \/ Cached(o).phase = "live" /\ pc'[o] = "svc" /\ snap'[o] = Cached(o)

EventMoves(o) == childEvent[o] => childEvent'[o] \/ queue'[o] # "none"

\* A reconcile ends with another one due or with Ready, goes on from its
\* snapshot past what it has just rendered, or begins.
Works(o) ==
    \/ /\ pc'[o] = "idle"
       /\ \/ pc[o] = "idle"
          \/ queue'[o] # "none"
          \/ verdict[o] = Ready /\ (WriteStatus(o) \/ WriteStatusFails(o))
    \/ /\ pc[o] # "idle" /\ pc'[o] # "idle" /\ snap'[o] = snap[o]
       /\ \A c \in LeftBehind(o)' \ LeftBehind(o) :
              rendered'[c] = {Inputs(c, snap[o])}
    \/ pc[o] = "idle" /\ pc'[o] = "svc" /\ snap'[o] = Cached(o)

\* A component is rendered by a reconcile that goes on, is left half done by one
\* that will be repeated, or is changed with an event for everybody.
ChildrenMove(c) ==
    \/ rendered'[c] = rendered[c]
    \/ \A o \in Operators : childEvent'[o]
    \/ \E o \in Operators :
           /\ pc[o] # "idle" /\ pc'[o] # "idle" /\ snap'[o] = snap[o]
           /\ rendered'[c] = {Inputs(c, snap[o])}
    \/ \E o \in Operators : pc'[o] # "idle" /\ c \notin LeftBehind(o)'

Wakes ==
    /\ ObjectMoves
    /\ \A o \in Operators : CacheMoves(o) /\ QueueMoves(o) /\ EventMoves(o) /\ Works(o)
    /\ mcp.phase # "absent" => \A c \in Components : ChildrenMove(c)

-----------------------------------------------------------------------------

\* Versions lead on to later versions.
LEMMA PrecedesTransitive ==
    ASSUME NEW u \in MCP, NEW v \in MCP, NEW w \in MCP,
           Precedes(u, v), Precedes(v, w)
    PROVE  Precedes(u, w)
<1>1. u.gen \in Nat /\ v.gen \in Nat /\ w.gen \in Nat
    BY DEF MCP
<1>. QED BY <1>1 DEF Precedes

\* What is cached leads to what is stored.
LEMMA CachedLeads ==
    ASSUME TypeOK, CachesLead, NEW o \in Operators
    PROVE  Precedes(Cached(o), mcp)
<1>1. informer[o] \in Seq(MCP) /\ informer[o] # <<>>
    BY DEF TypeOK
<1>2. Cached(o) = informer[o][1] /\ 1 \in 1..Len(informer[o])
    BY <1>1, LenProperties, EmptySeq DEF Cached
<1>. QED BY <1>2 DEF CachesLead

\* Such a step preserves what is said of the caches.
LEMMA CachesLeadStep ==
    ASSUME TypeOK, TypeOK', CachesLead, CachesFollow, ObjectMoves
    PROVE  CachesLead'
<1>. SUFFICES ASSUME NEW o \in Operators, NEW i \in 1..Len(informer'[o])
              PROVE  Precedes(informer'[o][i], mcp')
    BY DEF CachesLead, ObjectMoves
<1>1. CASE informer'[o][i] = mcp'
    BY <1>1 DEF ObjectMoves
<1>2. ASSUME NEW j \in 1..Len(informer[o]), informer'[o][i] = informer[o][j]
      PROVE  Precedes(informer'[o][i], mcp')
    <2>1. informer[o] \in Seq(MCP) /\ mcp \in MCP /\ mcp' \in MCP
        BY DEF TypeOK
    <2>2. informer[o][j] \in MCP
        BY <2>1, ElementOfSeq
    <2>3. Precedes(informer[o][j], mcp) /\ Precedes(mcp, mcp')
        BY DEF CachesLead, ObjectMoves
    <2>. QED BY <1>2, <2>1, <2>2, <2>3, PrecedesTransitive
<1>. QED BY <1>1, <1>2 DEF CachesFollow

\* Such a step preserves the invariant.
LEMMA DoneStep ==
    ASSUME TypeOK, TypeOK', PublishedInv, DoneInv, CachesFollow, Grows, Wakes
    PROVE  DoneInv'
<1>. CachesLead /\ PassIsCurrent /\ DeletionComes /\ RenderingComes /\ RestIsPublished
    BY DEF DoneInv
<1>1. CachesLead'
    BY CachesLeadStep DEF Wakes
<1>2. ASSUME NEW o \in Operators
      PROVE  Precedes(Cached(o), mcp)
    BY CachedLeads
<1>3. /\ mcp.gen \in Nat /\ mcp'.gen \in Nat /\ mcp.gen <= mcp'.gen
      /\ \A o \in Operators : Cached(o).gen \in Nat /\ Cached(o).gen <= mcp.gen
    <2>1. mcp.gen \in Nat /\ \A o \in Operators : Cached(o).gen \in Nat
        BY Generations
    <2>2. mcp'.gen \in Nat
        BY DEF TypeOK, MCP
    <2>. QED BY <1>2, <2>1, <2>2 DEF Wakes, ObjectMoves, Precedes
<1>4. ASSUME NEW o \in Operators
      PROVE  CacheMoves(o) /\ QueueMoves(o) /\ EventMoves(o) /\ Works(o)
    BY DEF Wakes
<1>5. PassIsCurrent'
    <2>. SUFFICES ASSUME NEW o \in Operators, pc'[o] # "idle", queue'[o] = "none"
                  PROVE  snap'[o].gen = Cached(o)'.gen
        BY DEF PassIsCurrent
    <2>1. Cached(o)'.gen = Cached(o).gen
        BY <1>4 DEF CacheMoves
    <2>2. CASE pc[o] = "idle"
        BY <1>4, <2>1, <2>2 DEF Works
    <2>3. CASE pc[o] # "idle"
        <3>1. snap'[o] = snap[o] /\ queue[o] = "none"
            BY <1>4, <2>3 DEF Works, QueueMoves
        <3>. QED BY <2>1, <2>3, <3>1 DEF PassIsCurrent
    <2>. QED BY <2>2, <2>3
<1>6. DeletionComes'
    <2>. SUFFICES ASSUME NEW o \in Operators, mcp'.phase = "deleting",
                         queue'[o] = "none", Cached(o)'.gen = mcp'.gen
                  PROVE  FALSE
        BY DEF DeletionComes, Comes
    <2>1. Cached(o).gen = mcp.gen /\ mcp.gen = mcp'.gen
        BY <1>3, <1>4 DEF CacheMoves
    <2>2. mcp.phase = "deleting"
        BY <2>1 DEF Wakes, ObjectMoves, Precedes
    <2>3. queue[o] # "none"
        BY <2>1, <2>2 DEF DeletionComes, Comes
    <2>4. Cached(o).phase = "deleting" /\ Cached(o).fin
        BY <1>2, <2>1, <2>2 DEF Precedes
    <2>. QED BY <1>4, <2>3, <2>4 DEF QueueMoves
<1>7. ASSUME mcp'.phase = "live"
      PROVE  /\ mcp.phase = "live"
             /\ \A o \in Operators : Cached(o).phase = "live"
    BY <1>2, <1>7 DEF Wakes, ObjectMoves, Precedes
<1>8. RestIsPublished'
    <2>. SUFFICES ASSUME NEW o \in Operators, mcp'.phase = "live",
                         pc'[o] = "idle", queue'[o] = "none"
                  PROVE  mcp.address # NoAddress /\ mcp.adminRef
        BY DEF RestIsPublished, Grows
    <2>1. CASE verdict[o] = Ready /\ (WriteStatus(o) \/ WriteStatusFails(o))
        <3>1. pc[o] = "status"
            BY <2>1 DEF WriteStatus, WriteStatusFails, EndPass
        <3>. QED BY <2>1, <3>1 DEF PublishedInv, PassPublished
    <2>2. CASE pc[o] = "idle"
        <3>1. queue[o] = "none"
            BY <1>4, <1>7 DEF QueueMoves
        <3>. QED BY <1>7, <2>2, <3>1 DEF RestIsPublished
    <2>. QED BY <1>4, <2>1, <2>2 DEF Works
<1>9. RenderingComes'
    <2>. SUFFICES ASSUME mcp'.phase = "live", NEW c \in Components
                  PROVE  Current(c)' \/ \E o \in Operators : Owes(o, c)'
        BY DEF RenderingComes
    <2>1. CASE mcp'.gen # mcp.gen
        <3>1. PICK o \in Operators : TRUE
            BY OperatorsAssumption
        <3>2. Cached(o)'.gen # mcp'.gen
            BY <1>3, <2>1 DEF Wakes, ObjectMoves
        <3>. QED BY <3>2 DEF Owes, Comes
    \* Rendered by a reconcile that goes on: from the stored generation, or
    \* another one comes.
    <2>2. ASSUME NEW o \in Operators, pc'[o] # "idle", snap'[o] = snap[o],
                 rendered'[c] = {Inputs(c, snap[o])}
          PROVE  Current(c)' \/ Owes(o, c)'
        <3>1. CASE Comes(o)'
            BY <3>1 DEF Owes
        <3>2. CASE ~ Comes(o)'
            <4>1. snap[o].gen = mcp'.gen
                BY <1>5, <2>2, <3>2 DEF Comes, PassIsCurrent
            <4>. QED BY <2>2, <4>1 DEF Current, Inputs
        <3>. QED BY <3>1, <3>2
    <2>3. CASE mcp'.gen = mcp.gen /\ rendered'[c] = rendered[c]
        <3>1. CASE Current(c)
            BY <2>3, <3>1 DEF Current
        <3>2. ASSUME NEW o \in Operators, Owes(o, c)
              PROVE  Current(c)' \/ \E p \in Operators : Owes(p, c)'
            <4>0. CASE queue'[o] # "none" \/ childEvent'[o]
                BY <4>0 DEF Owes, Comes
            <4>1. CASE queue'[o] = "none" /\ queue[o] # "none"
                <5>1. pc'[o] = "svc"
                    BY <1>4, <1>7, <4>1 DEF QueueMoves
                <5>2. LeftBehind(o)' = {}
                    BY <5>1 DEF LeftBehind, Behind
                <5>. QED BY <5>1, <5>2 DEF Owes
            <4>2. CASE queue'[o] = "none" /\ Cached(o).gen # mcp.gen
                BY <1>4, <2>3, <4>2 DEF CacheMoves, Owes, Comes
            <4>3. CASE queue'[o] = "none" /\ childEvent[o]
                BY <1>4, <4>0, <4>3 DEF EventMoves
            <4>4. CASE /\ queue'[o] = "none"
                       /\ pc[o] # "idle" /\ c \notin LeftBehind(o)
                <5>1. ~ (verdict[o] = Ready /\ (WriteStatus(o) \/ WriteStatusFails(o)))
                    BY <4>4 DEF LeftBehind, WriteStatus, WriteStatusFails, EndPass
                <5>2. /\ pc'[o] # "idle" /\ snap'[o] = snap[o]
                      /\ \A d \in LeftBehind(o)' \ LeftBehind(o) :
                             rendered'[d] = {Inputs(d, snap[o])}
                    BY <1>4, <4>4, <5>1 DEF Works
                <5>3. CASE c \in LeftBehind(o)'
                    BY <2>2, <4>4, <5>2, <5>3
                <5>4. CASE c \notin LeftBehind(o)'
                    BY <5>2, <5>4 DEF Owes
                <5>. QED BY <5>3, <5>4
            <4>. QED BY <3>2, <4>0, <4>1, <4>2, <4>3, <4>4 DEF Owes, Comes
        <3>. QED BY <1>7, <3>1, <3>2 DEF RenderingComes
    <2>4. ChildrenMove(c)
        BY <1>7 DEF Wakes
    <2>5. CASE \A o \in Operators : childEvent'[o]
        BY <2>5, OperatorsAssumption DEF Owes
    <2>6. CASE \E o \in Operators : pc'[o] # "idle" /\ c \notin LeftBehind(o)'
        BY <2>6 DEF Owes
    <2>. QED BY <2>1, <2>2, <2>3, <2>4, <2>5, <2>6 DEF ChildrenMove
<1>. QED BY <1>1, <1>5, <1>6, <1>8, <1>9 DEF DoneInv

-----------------------------------------------------------------------------
(* Every action is such a step. *)

\* A cache without an undelivered version has what is stored.
LEMMA UpToDateIsStored ==
    ASSUME TypeOK, CachesLead, NEW o \in Operators, UpToDate(o)
    PROVE  Cached(o) = mcp
<1>1. informer[o] \in Seq(MCP) /\ informer[o] # <<>> /\ Len(informer[o]) = 1
    BY DEF TypeOK, UpToDate
<1>2. Cached(o) = informer[o][1]
    BY <1>1 DEF Cached
<1>. QED BY <1>1, <1>2 DEF CachesLead

\* Nothing is stored or delivered.
LEMMA SameServerMoves ==
    ASSUME CachesLead, UNCHANGED serverVars
    PROVE  ObjectMoves /\ \A o \in Operators : Cached(o)' = Cached(o)
BY DEF CachesLead, serverVars, ObjectMoves, Cached

\* A write that leads on is stored behind what the caches hold.
LEMMA StoreMoves ==
    ASSUME TypeOK, CachesLead, NEW m \in MCP, Store(m),
           Precedes(mcp, m), Precedes(m, m)
    PROVE  ObjectMoves /\ \A o \in Operators : Cached(o)' = Cached(o)
<1>. mcp' = m
    BY DEF Store
<1>1. CASE m = mcp
    BY <1>1 DEF Store, CachesLead, ObjectMoves, Cached
<1>2. CASE m # mcp
    <2>1. ASSUME NEW o \in Operators
          PROVE  informer'[o][Len(informer'[o])] = m /\ Cached(o)' = Cached(o)
        <3>. DEFINE s == informer[o]
        <3>1. s \in Seq(MCP) /\ s # <<>> /\ informer'[o] = Append(s, m)
            BY <1>2 DEF Store, TypeOK
        <3>2. Len(Append(s, m)) = Len(s) + 1 /\ Append(s, m)[Len(s) + 1] = m
            BY <3>1, AppendProperties
        <3>3. Cached(o)' = Cached(o)
            BY <3>1, HeadTailAppend DEF Cached
        <3>. QED BY <3>1, <3>2, <3>3
    <2>. QED BY <2>1 DEF ObjectMoves
<1>. QED BY <1>1, <1>2

\* A reconcile that does not move works.
LEMMA NotMoved ==
    ASSUME NEW o \in Operators,
           pc'[o] = pc[o], snap'[o] = snap[o], verdict'[o] = verdict[o]
    PROVE  Works(o)
<1>1. LeftBehind(o)' = LeftBehind(o)
    BY DEF LeftBehind
<1>2. \A c : c \notin LeftBehind(o)' \ LeftBehind(o)
    BY <1>1
<1>. QED BY <1>2 DEF Works

\* No reconcile moves.
LEMMA NobodyMoves ==
    ASSUME UNCHANGED passVars, NEW o \in Operators
    PROVE  Works(o)
BY NotMoved DEF passVars

\* The three ways in which a stage ends: going on past what was just rendered,
\* reporting, and leaving with another reconcile due or with Ready.
LEMMA StageWorks ==
    ASSUME TypeOK, NEW o \in Operators, NEW p \in Operators
    PROVE  /\ /\ pc[o] \in DOMAIN Then /\ Continue(o)
              /\ pc[o] \in Components => rendered'[pc[o]] = {Inputs(pc[o], snap[o])}
              => Works(p)
           /\ /\ pc[o] # "idle"
              /\ \E v \in Verdicts \ {Ready} : Report(o, v)
              => Works(p) /\ pc'[o] # "idle" /\ LeftBehind(o)' = {}
           /\ /\ Leave(o)
              /\ \/ queue'[o] # "none"
                 \/ verdict[o] = Ready /\ (WriteStatus(o) \/ WriteStatusFails(o))
              => Works(p)
<1>0. ASSUME p # o, Continue(o) \/ Leave(o) \/ \E v \in Verdicts : Report(o, v)
      PROVE  Works(p)
    BY <1>0, NotMoved DEF Continue, Leave, Report, TypeOK
<1>1. ASSUME pc[o] \in DOMAIN Then, Continue(o),
             pc[o] \in Components => rendered'[pc[o]] = {Inputs(pc[o], snap[o])}
      PROVE  Works(o)
    <2>1. /\ pc'[o] = Then[pc[o]] /\ snap' = snap
          /\ Then[pc[o]] = "status" => verdict'[o] = Ready
        BY <1>1 DEF Continue, TypeOK
    <2>2. pc[o] # "idle" /\ Then[pc[o]] # "idle"
        BY <1>1 DEF Then
    <2>3. LeftBehind(o)' \ LeftBehind(o) \subseteq {pc[o]} \intersect Components
        <3>. DEFINE after(s) == IF Then[s] = "status" THEN Components
                                                      ELSE Behind[Then[s]]
        <3>1. LeftBehind(o)' = after(pc[o])
            BY <2>1 DEF LeftBehind
        <3>2. LeftBehind(o) = Behind[pc[o]]
            BY <1>1 DEF LeftBehind, Then
        <3>3. \A s \in DOMAIN Then : after(s) \ Behind[s] \subseteq {s} \intersect Components
            <4>1. /\ after("svc") = {"svc"} /\ after("endpoint") = {"svc"}
                  /\ after("pki") = {"svc", "pki"}
                  /\ after("etcd") = {"svc", "pki", "etcd"}
                  /\ after("apiserver") = {"svc", "pki", "etcd", "apiserver"}
                BY DEF Then, Behind
            <4>2. /\ after("cm") = {"svc", "pki", "etcd", "apiserver", "cm"}
                  /\ after("sched") = Components \ {"admin"}
                  /\ after("admin") = Components /\ after("adminref") = Components
                BY DEF Then, Behind
            <4>. HIDE DEF after
            <4>3. DOMAIN Then = {"svc", "endpoint", "pki", "etcd", "apiserver", "cm",
                                 "sched", "admin", "adminref"}
                BY DEF Then
            <4>4. \A s \in {"svc", "endpoint", "pki", "etcd", "apiserver"} :
                      after(s) \ Behind[s] \subseteq {s} \intersect Components
                BY <4>1 DEF Behind, Components
            <4>5. \A s \in {"cm", "sched", "admin", "adminref"} :
                      after(s) \ Behind[s] \subseteq {s} \intersect Components
                BY <4>2 DEF Behind, Components
            <4>. QED BY <4>3, <4>4, <4>5
        <3>. QED BY <1>1, <3>1, <3>2, <3>3
    <2>. QED BY <1>1, <2>1, <2>2, <2>3 DEF Works
<1>2. ASSUME pc[o] # "idle", NEW v \in Verdicts \ {Ready}, Report(o, v)
      PROVE  Works(o) /\ pc'[o] # "idle" /\ LeftBehind(o)' = {}
    <2>1. pc'[o] = "status" /\ verdict'[o] # Ready /\ snap' = snap
        BY <1>2 DEF Report, TypeOK
    <2>2. LeftBehind(o)' = {}
        BY <2>1 DEF LeftBehind, Behind
    <2>. QED BY <1>2, <2>1, <2>2 DEF Works
<1>3. ASSUME Leave(o),
             \/ queue'[o] # "none"
             \/ verdict[o] = Ready /\ (WriteStatus(o) \/ WriteStatusFails(o))
      PROVE  Works(o)
    BY <1>3 DEF Leave, Works, TypeOK
<1>. QED BY <1>0, <1>1, <1>2, <1>3

\* A reconcile up to its snapshot.
LEMMA BeginWakes ==
    ASSUME TypeOK, CachesLead, NEW o \in Operators,
           \/ ReconcileGone(o) \/ RemoveFinalizer(o) \/ AddFinalizer(o)
           \/ FinalizerRejected(o) \/ BeginPass(o)
    PROVE  Wakes
<1>. mcp \in MCP /\ mcp.gen \in Nat
    BY Generations DEF TypeOK
<1>0. UNCHANGED childVars
    BY DEF ReconcileGone, RemoveFinalizer, AddFinalizer, FinalizerRejected, BeginPass
<1>1. (\A p \in Operators : EventMoves(p)) /\ \A c \in Components : ChildrenMove(c)
    BY <1>0 DEF childVars, EventMoves, ChildrenMove
<1>2. CASE ReconcileGone(o)
    <2>1. UNCHANGED serverVars /\ UNCHANGED passVars
        BY <1>2 DEF ReconcileGone
    <2>2. \A p \in Operators : CacheMoves(p) /\ ObjectMoves
        BY <2>1, SameServerMoves DEF CacheMoves
    <2>3. \A p \in Operators : QueueMoves(p)
        BY <1>2 DEF ReconcileGone, Starts, QueueMoves, TypeOK
    <2>. QED BY <1>1, <2>1, <2>2, <2>3, SameServerMoves, NobodyMoves DEF Wakes
<1>3. CASE RemoveFinalizer(o)
    <2>. DEFINE m == [mcp EXCEPT !.phase = "absent", !.fin = FALSE]
    <2>1. m \in MCP /\ m.phase = "absent" /\ m.gen = mcp.gen
        BY DEF MCP
    <2>2. Store(m) /\ mcp' = m /\ UNCHANGED passVars
        BY <1>3 DEF RemoveFinalizer, Store
    <2>. HIDE DEF m
    <2>3. Precedes(mcp, m) /\ Precedes(m, m)
        BY <2>1 DEF Precedes
    <2>4. ObjectMoves /\ \A p \in Operators : CacheMoves(p)
        BY <2>1, <2>2, <2>3, StoreMoves DEF CacheMoves
    <2>5. \A p \in Operators : QueueMoves(p)
        BY <1>3, <2>1, <2>2 DEF RemoveFinalizer, Starts, QueueMoves, TypeOK
    <2>. QED BY <1>1, <2>2, <2>4, <2>5, NobodyMoves DEF Wakes
<1>4. CASE AddFinalizer(o)
    <2>. DEFINE m == [mcp EXCEPT !.fin = TRUE]
    <2>1. m \in MCP /\ m.phase = mcp.phase /\ m.gen = mcp.gen
        BY DEF MCP
    <2>2. Store(m) /\ mcp' = m /\ UNCHANGED passVars
        BY <1>4 DEF AddFinalizer, Store
    <2>. HIDE DEF m
    <2>3. mcp.phase = "live"
        BY <1>4, UpToDateIsStored DEF AddFinalizer, CanUpdate
    <2>4. Precedes(mcp, m) /\ Precedes(m, m)
        BY <2>1, <2>3 DEF Precedes
    <2>5. ObjectMoves /\ \A p \in Operators : CacheMoves(p)
        BY <2>1, <2>2, <2>4, StoreMoves DEF CacheMoves
    <2>6. \A p \in Operators : QueueMoves(p)
        BY <1>4 DEF AddFinalizer, QueueMoves, TypeOK
    <2>. QED BY <1>1, <2>2, <2>5, <2>6, NobodyMoves DEF Wakes
<1>5. CASE FinalizerRejected(o)
    <2>1. UNCHANGED serverVars /\ UNCHANGED passVars
        BY <1>5 DEF FinalizerRejected
    <2>2. \A p \in Operators : QueueMoves(p)
        BY <1>5 DEF FinalizerRejected, QueueMoves, TypeOK
    <2>. QED BY <1>1, <2>1, <2>2, SameServerMoves, NobodyMoves DEF Wakes, CacheMoves
<1>6. CASE BeginPass(o)
    <2>1. UNCHANGED serverVars
        BY <1>6 DEF BeginPass
    <2>2. /\ pc[o] = "idle" /\ Cached(o).phase = "live"
          /\ pc' = [pc EXCEPT ![o] = "svc"]
          /\ snap' = [snap EXCEPT ![o] = Cached(o)] /\ verdict' = verdict
          /\ queue' = [queue EXCEPT ![o] = "none"]
        BY <1>6 DEF BeginPass, Starts
    <2>3. \A p \in Operators : QueueMoves(p)
        BY <2>2 DEF QueueMoves, TypeOK
    <2>4. \A p \in Operators : Works(p)
        BY <2>2, NotMoved DEF Works, TypeOK
    <2>. QED BY <1>1, <2>1, <2>3, <2>4, SameServerMoves DEF Wakes, CacheMoves
<1>. QED BY <1>2, <1>3, <1>4, <1>5, <1>6

\* An apply may leave existing objects as they were, without an event; half an
\* apply is followed by a report that asks for another reconcile.
LEMMA ApplyWakes ==
    ASSUME TypeOK, CachesLead, NEW o \in Operators, NEW c \in Components,
           Apply(o, c) \/ ApplyFails(o, c)
    PROVE  Wakes
<1>0. UNCHANGED serverVars /\ UNCHANGED queue /\ pc[o] = c
    BY DEF Apply, ApplyFails
<1>1. /\ ObjectMoves
      /\ \A p \in Operators : CacheMoves(p) /\ QueueMoves(p)
    BY <1>0, SameServerMoves DEF CacheMoves, QueueMoves
<1>2. PICK done : /\ ChildrenChange([rendered EXCEPT ![c] = done])
                  /\ Apply(o, c) => done = {Inputs(c, snap[o])}
    BY DEF Apply, ApplyFails
<1>3. \A p \in Operators : EventMoves(p)
    BY <1>2 DEF ChildrenChange, EventMoves
<1>4. rendered' = [rendered EXCEPT ![c] = done]
    BY <1>2 DEF ChildrenChange
<1>5. rendered'[c] = done /\ \A d \in Components \ {c} : rendered'[d] = rendered[d]
    BY <1>4 DEF TypeOK
<1>6. c \in DOMAIN Then /\ c # "idle"
    BY DEF Components, Then
<1>7. CASE Apply(o, c)
    <2>1. Continue(o)
        BY <1>7 DEF Apply
    <2>2. \A p \in Operators : Works(p)
        BY <1>0, <1>2, <1>5, <1>6, <1>7, <2>1, StageWorks
    <2>3. pc'[o] # "idle" /\ snap'[o] = snap[o]
        <3>1. Then[c] # "idle"
            BY <1>6 DEF Then
        <3>. QED BY <1>0, <2>1, <3>1 DEF Continue, TypeOK
    <2>4. \A d \in Components : ChildrenMove(d)
        BY <1>0, <1>2, <1>5, <1>6, <1>7, <2>3 DEF ChildrenMove
    <2>. QED BY <1>1, <1>3, <2>2, <2>4 DEF Wakes
<1>8. CASE ApplyFails(o, c)
    <2>1. \E v \in Verdicts \ {Ready} : Report(o, v)
        BY <1>8, NotReady DEF ApplyFails
    <2>2. /\ \A p \in Operators : Works(p)
          /\ pc'[o] # "idle" /\ LeftBehind(o)' = {}
        BY <1>0, <1>6, <2>1, StageWorks
    <2>3. \A d \in Components : ChildrenMove(d)
        BY <2>2 DEF ChildrenMove
    <2>. QED BY <1>1, <1>3, <2>2, <2>3 DEF Wakes
<1>. QED BY <1>7, <1>8

\* Between the applies: what waits, fails or panics comes back, and a published
\* address or reference changes nothing here.
LEMMA StageWakes ==
    ASSUME TypeOK, CachesLead, NEW o \in Operators,
           \/ BuildPanics(o) \/ EndpointSettled(o) \/ EndpointPending(o)
           \/ UpdateAddress(o) \/ UpdateAddressFails(o) \/ AdminWaits(o)
           \/ UpdateAdminRef(o) \/ UpdateAdminRefFails(o)
    PROVE  Wakes
<1>1. (\A p \in Operators : EventMoves(p)) /\ \A c \in Components : ChildrenMove(c)
    <2>1. UNCHANGED childVars
        BY DEF BuildPanics, EndpointSettled, EndpointPending, UpdateAddress,
               UpdateAddressFails, AdminWaits, UpdateAdminRef, UpdateAdminRefFails
    <2>. QED BY <2>1 DEF childVars, EventMoves, ChildrenMove
<1>2. CASE BuildPanics(o)
    <2>1. UNCHANGED serverVars /\ Leave(o) /\ EnqueueLater(o)
        BY <1>2 DEF BuildPanics
    <2>2. queue'[o] # "none" /\ \A p \in Operators : QueueMoves(p)
        BY <2>1 DEF EnqueueLater, Later, QueueMoves, TypeOK
    <2>3. \A p \in Operators : Works(p)
        BY <2>1, <2>2, StageWorks
    <2>. QED BY <1>1, <2>1, <2>2, <2>3, SameServerMoves DEF Wakes, CacheMoves
<1>3. CASE ~ BuildPanics(o)
    <2>1. UNCHANGED queue
        BY <1>3 DEF EndpointSettled, EndpointPending, UpdateAddress,
           UpdateAddressFails, AdminWaits, UpdateAdminRef, UpdateAdminRefFails
    <2>2. ObjectMoves /\ \A p \in Operators : Cached(p)' = Cached(p)
        <3>1. CASE UNCHANGED serverVars
            BY <3>1, SameServerMoves
        <3>2. CASE UpdateAddress(o) \/ UpdateAdminRef(o)
            <4>1. PICK m \in MCP : /\ m.phase = mcp.phase /\ m.gen = mcp.gen
                                   /\ m.fin = mcp.fin /\ Store(m)
                <5>1. CASE UpdateAddress(o)
                    <6>1. svcSeen[o] \in Endpoints
                        BY <5>1 DEF UpdateAddress, EndpointChanged, TypeOK
                    <6>2. [mcp EXCEPT !.address = svcSeen[o]] \in MCP
                        BY <6>1 DEF TypeOK, MCP
                    <6>. QED BY <5>1, <6>2 DEF UpdateAddress, TypeOK, MCP
                <5>2. CASE UpdateAdminRef(o)
                    BY <5>2 DEF UpdateAdminRef, TypeOK, MCP
                <5>. QED BY <3>2, <5>1, <5>2
            <4>2. Precedes(mcp, m) /\ Precedes(m, m)
                BY <4>1 DEF CachesLead, Precedes
            <4>. QED BY <4>1, <4>2, StoreMoves
        <3>. QED
            BY <1>3, <3>1, <3>2 DEF EndpointSettled, EndpointPending,
               UpdateAddressFails, AdminWaits, UpdateAdminRefFails
    <2>3. \A p \in Operators : Works(p)
        <3>1. CASE EndpointSettled(o) \/ UpdateAddress(o) \/ UpdateAdminRef(o)
            <4>1. pc[o] \in {"endpoint", "adminref"} /\ Continue(o)
                BY <3>1 DEF EndpointSettled, UpdateAddress, EndpointChanged,
                   UpdateAdminRef
            <4>2. pc[o] \in DOMAIN Then /\ pc[o] \notin Components
                BY <4>1 DEF Then, Components
            <4>. QED BY <4>1, <4>2, StageWorks
        <3>2. CASE \/ EndpointPending(o) \/ UpdateAddressFails(o)
                   \/ AdminWaits(o) \/ UpdateAdminRefFails(o)
            <4>1. pc[o] # "idle" /\ \E v \in Verdicts \ {Ready} : Report(o, v)
                BY <3>2, NotReady DEF EndpointPending, UpdateAddressFails,
                   EndpointChanged, AdminWaits, UpdateAdminRefFails, Components
            <4>. QED BY <4>1, StageWorks
        <3>. QED BY <1>3, <3>1, <3>2
    <2>. QED BY <1>1, <2>1, <2>2, <2>3 DEF Wakes, CacheMoves, QueueMoves
<1>. QED BY <1>2, <1>3

\* The end of a reconcile: whatever becomes of the patch, only Ready is not
\* repeated.
LEMMA EndWakes ==
    ASSUME TypeOK, CachesLead, NEW o \in Operators,
           WriteStatus(o) \/ WriteStatusFails(o)
    PROVE  Wakes
<1>1. /\ Leave(o) /\ pc[o] = "status" /\ UNCHANGED childVars
      /\ IF verdict[o] = Ready THEN UNCHANGED queue ELSE EnqueueLater(o)
    BY DEF WriteStatus, WriteStatusFails, EndPass
<1>2. ObjectMoves /\ \A p \in Operators : CacheMoves(p)
    <2>1. CASE WriteStatus(o)
        <3>. DEFINE m == Patched(mcp, snap[o], verdict[o])
        <3>1. mcp \in MCP /\ snap[o] \in MCP /\ verdict[o] \in Verdicts
            BY DEF TypeOK
        <3>2. m \in MCP
            BY <3>1, PatchedType
        <3>3. m.phase = mcp.phase /\ m.gen = mcp.gen /\ m.fin = mcp.fin
            BY <3>1 DEF Patched, MCP
        <3>4. Store(m)
            BY <2>1 DEF WriteStatus
        <3>. HIDE DEF m
        <3>5. Precedes(mcp, m) /\ Precedes(m, m)
            BY <3>3 DEF CachesLead, Precedes
        <3>. QED BY <3>2, <3>4, <3>5, StoreMoves DEF CacheMoves
    <2>2. CASE WriteStatusFails(o)
        BY <2>2, SameServerMoves DEF WriteStatusFails, CacheMoves
    <2>. QED BY <2>1, <2>2
<1>3. \A p \in Operators : QueueMoves(p)
    BY <1>1 DEF EnqueueLater, Later, QueueMoves, TypeOK
<1>4. \A p \in Operators : Works(p)
    <2>1. queue'[o] # "none" \/ verdict[o] = Ready
        BY <1>1 DEF EnqueueLater, Later, TypeOK
    <2>. QED BY <1>1, <2>1, StageWorks
<1>. QED
    BY <1>1, <1>2, <1>3, <1>4 DEF Wakes, EventMoves, ChildrenMove, childVars

\* The watches: only an event of the object without a new generation is dropped.
LEMMA WatchWakes ==
    ASSUME TypeOK, CachesLead, NEW o \in Operators, Watch(o) \/ DelayEnds(o)
    PROVE  Wakes
<1>1. UNCHANGED passVars /\ UNCHANGED mcp /\ UNCHANGED rendered
    BY DEF Watch, DelayEnds, Deliver, DeliverChild, DeliverService, serverVars,
           childVars
<1>2. /\ \A p \in Operators : QueueMoves(p) /\ EventMoves(p)
      /\ \A c \in Components : ChildrenMove(c)
    BY <1>1 DEF Watch, DelayEnds, Deliver, DeliverChild, DeliverService, Enqueue,
       childVars, QueueMoves, EventMoves, ChildrenMove, TypeOK
<1>3. CASE Deliver(o)
    <2>. DEFINE q == informer[o]
    <2>1. q \in Seq(MCP) /\ q # <<>> /\ Len(q) \in Nat /\ Len(q) # 1
        BY <1>3, LenProperties DEF Deliver, UpToDate, TypeOK
    <2>2. /\ Len(Tail(q)) = Len(q) - 1
          /\ \A k \in 1..Len(Tail(q)) : Tail(q)[k] = q[k + 1]
          /\ Tail(q) \in Seq(MCP)
        BY <2>1, HeadTailProperties
    <2>3. Len(q) > 1
        <3>1. Len(q) # 0
            BY <2>1, EmptySeq
        <3>2. \A n \in Nat : n # 0 /\ n # 1 => n > 1
            OBVIOUS
        <3>. QED BY <2>1, <3>1, <3>2
    <2>4. Tail(q) # <<>> /\ Tail(q)[1] = q[2] /\ Tail(q)[Len(q) - 1] = q[Len(q)]
        <3>1. /\ 1 \in 1..Len(Tail(q)) /\ Len(q) - 1 \in 1..Len(Tail(q))
              /\ 1 + 1 = 2 /\ (Len(q) - 1) + 1 = Len(q)
            BY <2>1, <2>2, <2>3
        <3>2. Tail(q)[1] = q[1 + 1] /\ Tail(q)[Len(q) - 1] = q[(Len(q) - 1) + 1]
            BY <2>2, <3>1
        <3>3. Len(Tail(q)) # 0
            BY <2>1, <2>2, <2>3
        <3>. QED BY <3>1, <3>2, <3>3, EmptySeq
    <2>5. /\ informer'[o] = Tail(q)
          /\ \A p \in Operators \ {o} : informer'[p] = informer[p]
        BY <1>3 DEF Deliver, TypeOK
    <2>6. Cached(o)' = q[2]
        BY <2>2, <2>4, <2>5, HeadIsFirst DEF Cached
    <2>7. \A p \in Operators : informer'[p][Len(informer'[p])] = mcp'
        BY <1>1, <2>2, <2>4, <2>5 DEF CachesLead
    <2>8. ObjectMoves
        BY <1>1, <2>7 DEF CachesLead, ObjectMoves
    <2>9. \A p \in Operators : CacheMoves(p)
        <3>1. CacheMoves(o)
            BY <1>3, <2>6 DEF Deliver, Enqueue, CacheMoves, TypeOK
        <3>2. \A p \in Operators \ {o} : CacheMoves(p)
            BY <2>5 DEF CacheMoves, Cached
        <3>. QED BY <3>1, <3>2
    <2>. QED BY <1>1, <1>2, <2>8, <2>9, NobodyMoves DEF Wakes
<1>4. CASE ~ Deliver(o)
    <2>1. UNCHANGED serverVars
        BY <1>4 DEF Watch, DelayEnds, DeliverChild, DeliverService
    <2>. QED BY <1>1, <1>2, <2>1, SameServerMoves, NobodyMoves DEF Wakes, CacheMoves
<1>. QED BY <1>3, <1>4

\* The environment: a new generation reaches every cache later, a deleted child
\* is an event for everybody, and a new process starts with a reconcile.
LEMMA EnvironmentWakes ==
    ASSUME TypeOK, CachesLead, Environment
    PROVE  Wakes
<1>. mcp \in MCP /\ mcp.gen \in Nat
    BY Generations DEF TypeOK
<1>1. CASE ChangeSpec \/ Delete
    <2>1. PICK m \in MCP : /\ Store(m) /\ m.gen = mcp.gen + 1
                           /\ mcp.phase = "live"
                           /\ m.phase = "deleting" => m.fin
        <3>1. CASE ChangeSpec
            <4>. DEFINE m == [mcp EXCEPT !.gen = @ + 1]
            <4>1. m \in MCP /\ m.gen = mcp.gen + 1 /\ m.phase = mcp.phase
                BY DEF MCP
            <4>. QED BY <3>1, <4>1 DEF ChangeSpec
        <3>2. CASE Delete
            <4>1. PICK phase \in {"deleting", "absent"} :
                      /\ Store([mcp EXCEPT !.phase = phase, !.gen = @ + 1])
                      /\ phase = "deleting" => mcp.fin
                BY <3>2 DEF Delete
            <4>. DEFINE m == [mcp EXCEPT !.phase = phase, !.gen = @ + 1]
            <4>2. m \in MCP
                <5>1. phase \in {"live", "deleting", "absent"} /\ mcp.gen + 1 \in Nat
                    OBVIOUS
                <5>2. [mcp EXCEPT !.phase = phase] \in MCP
                    BY <5>1, Zenon DEF MCP
                <5>. QED BY <5>1, <5>2 DEF MCP
            <4>3. m.gen = mcp.gen + 1 /\ m.phase = phase /\ m.fin = mcp.fin
                BY DEF MCP
            <4>. QED BY <3>2, <4>1, <4>2, <4>3 DEF Delete
        <3>. QED BY <1>1, <3>1, <3>2
    <2>2. UNCHANGED <<passVars, childVars, queue>>
        BY <1>1 DEF ChangeSpec, Delete
    <2>3. Precedes(mcp, m) /\ Precedes(m, m)
        BY <2>1 DEF Precedes
    <2>4. ObjectMoves /\ \A p \in Operators : Cached(p)' = Cached(p)
        BY <2>1, <2>3, StoreMoves
    <2>. QED
        BY <2>2, <2>4, NobodyMoves
        DEF Wakes, CacheMoves, QueueMoves, EventMoves, ChildrenMove, childVars
<1>2. CASE AssignAddress \/ Relocate \/ IssueAdminCert
    <2>1. UNCHANGED <<serverVars, passVars, childVars, queue>>
        BY <1>2 DEF AssignAddress, Relocate, IssueAdminCert
    <2>. QED
        BY <2>1, SameServerMoves, NobodyMoves
        DEF Wakes, CacheMoves, QueueMoves, EventMoves, ChildrenMove, childVars
<1>3. CASE WorkloadEvent \/ CollectGarbage \/ \E c \in Components : Drift(c)
    <2>1. UNCHANGED <<serverVars, passVars, queue>>
        BY <1>3 DEF WorkloadEvent, CollectGarbage, Drift
    <2>2. \A p \in Operators : childEvent[p] => childEvent'[p]
        BY <1>3 DEF WorkloadEvent, CollectGarbage, Drift, ChildrenChange
    <2>3. ASSUME mcp.phase # "absent", NEW d \in Components
          PROVE  ChildrenMove(d)
        <3>1. CASE WorkloadEvent
            BY <3>1 DEF WorkloadEvent, ChildrenMove
        <3>2. CASE CollectGarbage
            BY <2>3, <3>2 DEF CollectGarbage
        <3>3. ASSUME NEW c \in Components, Drift(c)
              PROVE  ChildrenMove(d)
            <4>. DEFINE r == [rendered EXCEPT ![c] = {}]
            <4>1. ChildrenChange(r) /\ r[c] = {} /\ rendered[c] # {}
                BY <3>3 DEF Drift, TypeOK
            <4>2. \A p \in Operators : childEvent'[p]
                BY <4>1 DEF ChildrenChange
            <4>. QED BY <4>2 DEF ChildrenMove
        <3>. QED BY <1>3, <3>1, <3>2, <3>3
    <2>. QED
        BY <2>1, <2>2, <2>3, SameServerMoves, NobodyMoves
        DEF Wakes, CacheMoves, QueueMoves, EventMoves
<1>4. ASSUME NEW o \in Operators, Crash(o)
      PROVE  Wakes
    <2>1. /\ UNCHANGED <<mcp, rendered>> /\ Leave(o) /\ Enqueue(o)
          /\ informer' = [informer EXCEPT ![o] = <<mcp>>]
          /\ childEvent' = [childEvent EXCEPT ![o] = FALSE]
        BY <1>4 DEF Crash
    <2>2. /\ queue'[o] = "ready"
          /\ \A p \in Operators \ {o} :
                /\ queue'[p] = queue[p] /\ informer'[p] = informer[p]
                /\ childEvent'[p] = childEvent[p]
        BY <2>1 DEF Enqueue, TypeOK
    <2>3. informer'[o][Len(informer'[o])] = mcp
        BY <2>1 DEF TypeOK
    <2>4. ObjectMoves
        BY <2>1, <2>2, <2>3 DEF CachesLead, ObjectMoves
    <2>5. \A p \in Operators : CacheMoves(p) /\ QueueMoves(p) /\ EventMoves(p)
        BY <2>2 DEF CacheMoves, QueueMoves, EventMoves, Cached
    <2>6. \A p \in Operators : Works(p)
        BY <2>1, <2>2, StageWorks
    <2>. QED BY <2>1, <2>4, <2>5, <2>6 DEF Wakes, ChildrenMove
<1>. QED BY <1>1, <1>2, <1>3, <1>4 DEF Environment

-----------------------------------------------------------------------------

\* Every step is such a step.
LEMMA StepWakes ==
    ASSUME TypeOK, CachesLead, [Next]_vars
    PROVE  Wakes
<1>1. ASSUME NEW o \in Operators, Reconcile(o)
      PROVE  Wakes
    BY <1>1, BeginWakes, ApplyWakes, StageWakes, EndWakes
    DEF Reconcile, ReconcileAPIServiceSvc, ReconcilePKI, ReconcileETCD,
        ReconcileAPIServer, ReconcileControllerManager, ReconcileScheduler,
        ReconcileAdminConfig, Components
<1>2. ASSUME NEW o \in Operators, Watch(o) \/ DelayEnds(o)
      PROVE  Wakes
    BY <1>2, WatchWakes
<1>3. CASE Environment
    BY <1>3, EnvironmentWakes
<1>4. CASE UNCHANGED vars
    <2>1. UNCHANGED <<serverVars, passVars, childVars, queue>>
        BY <1>4 DEF vars, serverVars, passVars, childVars
    <2>. QED
        BY <2>1, SameServerMoves, NobodyMoves
        DEF Wakes, CacheMoves, QueueMoves, EventMoves, ChildrenMove, childVars
<1>. QED BY <1>1, <1>2, <1>3, <1>4 DEF Next

\* The invariant holds of a fresh object: its first reconcile is due.
LEMMA DoneInit == Init => DoneInv
<1>. SUFFICES ASSUME Init PROVE DoneInv
    OBVIOUS
<1>1. Precedes(NewMCP, NewMCP)
    BY DEF Precedes, NewMCP
<1>2. CachesLead
    <2>1. \A i \in 1..Len(<<NewMCP>>) : <<NewMCP>>[i] = NewMCP
        OBVIOUS
    <2>2. <<NewMCP>>[Len(<<NewMCP>>)] = NewMCP
        OBVIOUS
    <2>3. mcp = NewMCP /\ \A o \in Operators : informer[o] = <<NewMCP>>
        BY DEF Init
    <2>. QED BY <1>1, <2>1, <2>2, <2>3 DEF CachesLead
<1>3. \A o \in Operators : queue[o] # "none" /\ pc[o] = "idle"
    BY DEF Init
<1>. QED
    BY <1>2, <1>3, OperatorsAssumption
    DEF DoneInv, PassIsCurrent, DeletionComes, Comes, RenderingComes, Owes,
        RestIsPublished

\* What the invariant says when no reconcile is due or under way.
LEMMA DoneAtRest ==
    ASSUME TypeOK, DoneInv
    PROVE  QuietIsDone
<1>. SUFFICES ASSUME Quiet, mcp.phase # "absent"
              PROVE  /\ mcp.phase = "live"
                     /\ mcp.address # NoAddress /\ mcp.adminRef
                     /\ \A c \in Components : Current(c)
    BY DEF QuietIsDone, Current
<1>0. PICK o \in Operators : TRUE
    BY OperatorsAssumption
<1>1. ASSUME NEW p \in Operators
      PROVE  /\ pc[p] = "idle" /\ queue[p] = "none"
             /\ ~ Comes(p) /\ ~ childEvent[p]
    BY UpToDateIsStored DEF Quiet, Comes, DoneInv
<1>2. mcp.phase = "live"
    <2>1. mcp.phase # "deleting"
        BY <1>0, <1>1 DEF DoneInv, DeletionComes
    <2>. QED BY <2>1 DEF TypeOK, MCP
<1>3. mcp.address # NoAddress /\ mcp.adminRef
    BY <1>0, <1>1, <1>2 DEF DoneInv, RestIsPublished
<1>4. \A c \in Components : Current(c)
    BY <1>1, <1>2 DEF DoneInv, RenderingComes, Owes
<1>. QED BY <1>2, <1>3, <1>4

\* The invariant behind what is done at rest.
LEMMA DoneInvariant == Spec => []DoneInv
<1>1. TypeOK /\ TypeOK' /\ PublishedInv /\ DoneInv /\ [Next]_vars => DoneInv'
    BY StepPublishes, StepWakes, DoneStep DEF DoneInv, Publishes
<1>. QED
    BY <1>1, DoneInit, TypeCorrect, PublishedInvariant, PTL DEF Spec

\* However many operators, whatever lag, faults and lost status patches: what no
\* reconcile, event or delay is about to do any more is done.  An object that is
\* there is not being deleted, has published what its readers need, and all of
\* its children are rendered from its last generation (helpers.go:170,
\* managedcontrolplane_controller.go:74-120, 130).
THEOREM DoneAtLast == Spec => []QuietIsDone
<1>1. TypeOK /\ DoneInv => QuietIsDone
    BY DoneAtRest
<1>. QED BY <1>1, DoneInvariant, TypeCorrect, PTL

-----------------------------------------------------------------------------
(* Ready at rest. *)

\* An operator that has nothing left to do has found everything Ready, for the
\* generation it knows.
RestFound ==
    mcp.phase = "live" =>
        \A o \in Operators : pc[o] = "idle" /\ queue[o] = "none" =>
            observed[o].verdict = Ready /\ observed[o].gen = Cached(o).gen

\* An operator whose reconcile does not end is at rest only if it was before.
LEMMA RestStays ==
    ASSUME TypeOK, CachesLead, RestFound, Wakes, NEW o \in Operators,
           mcp'.phase = "live", pc'[o] = "idle", queue'[o] = "none",
           observed'[o] = observed[o],
           ~ WriteStatus(o), ~ WriteStatusFails(o)
    PROVE  observed'[o].verdict = Ready /\ observed'[o].gen = Cached(o)'.gen
<1>1. mcp.phase = "live" /\ Cached(o).phase = "live"
    BY CachedLeads DEF Wakes, ObjectMoves, Precedes
<1>2. pc[o] = "idle"
    BY DEF Wakes, Works
<1>3. queue[o] = "none"
    BY <1>1 DEF Wakes, QueueMoves
<1>4. Cached(o)'.gen = Cached(o).gen
    BY DEF Wakes, CacheMoves
<1>. QED BY <1>1, <1>2, <1>3, <1>4 DEF RestFound

\* A reconcile that ends and is not repeated has found Ready, of the cached
\* generation.
LEMMA EndRests ==
    ASSUME TypeOK, PassIsCurrent, Wakes, NEW o \in Operators,
           NEW taken \in BOOLEAN, EndPass(o, taken), queue'[o] = "none"
    PROVE  observed'[o].verdict = Ready /\ observed'[o].gen = Cached(o)'.gen
<1>1. observed'[o].verdict = verdict[o] /\ observed'[o].gen = snap[o].gen
    BY EndFinds
<1>2. pc[o] = "status" /\ verdict[o] = Ready /\ queue[o] = "none"
    BY DEF EndPass, EnqueueLater, Later, TypeOK
<1>3. snap[o].gen = Cached(o).gen
    BY <1>2 DEF PassIsCurrent
<1>4. Cached(o)'.gen = Cached(o).gen
    BY DEF Wakes, CacheMoves
<1>. QED BY <1>1, <1>2, <1>3, <1>4

\* A reconcile that ends leaves what the others found.
LEMMA OneEnds ==
    ASSUME TypeOK, NEW o \in Operators, WriteStatus(o) \/ WriteStatusFails(o),
           NEW p \in Operators, p # o
    PROVE  observed'[p] = observed[p] /\ ~ WriteStatus(p) /\ ~ WriteStatusFails(p)
<1>1. PICK taken \in BOOLEAN : EndPass(o, taken)
    BY DEF WriteStatus, WriteStatusFails
<1>2. observed'[p] = observed[p] /\ pc'[p] = pc[p]
    BY <1>1 DEF EndPass, Finds, Leave, TypeOK
<1>3. ASSUME NEW took \in BOOLEAN, EndPass(p, took)
      PROVE  FALSE
    BY <1>2, <1>3 DEF EndPass, Leave, TypeOK
<1>. QED BY <1>2, <1>3 DEF WriteStatus, WriteStatusFails

\* The invariant behind what was found at rest.
LEMMA RestInvariant == Spec => []RestFound
<1>1. Init => RestFound
    BY DEF Init, RestFound
<1>2. TypeOK /\ DoneInv /\ RestFound /\ [Next]_vars => RestFound'
    <2>. SUFFICES ASSUME TypeOK, DoneInv, RestFound, [Next]_vars,
                         NEW p \in Operators, mcp'.phase = "live",
                         pc'[p] = "idle", queue'[p] = "none"
                  PROVE  observed'[p].verdict = Ready /\ observed'[p].gen = Cached(p)'.gen
        BY DEF RestFound
    <2>1. Wakes /\ CachesLead /\ PassIsCurrent
        BY StepWakes DEF DoneInv
    <2>2. CASE WriteStatus(p) \/ WriteStatusFails(p)
        BY <2>1, <2>2, EndRests DEF WriteStatus, WriteStatusFails
    <2>3. ASSUME NEW o \in Operators, o # p, WriteStatus(o) \/ WriteStatusFails(o)
          PROVE  observed'[p] = observed[p] /\ ~ WriteStatus(p) /\ ~ WriteStatusFails(p)
        BY <2>3, OneEnds
    <2>4. CASE \A o \in Operators : ~ WriteStatus(o) /\ ~ WriteStatusFails(o)
        <3>1. NothingFound
            BY <2>4, StageFindsNothing, OthersFindNothing DEF Next
        <3>. QED BY <2>1, <2>4, <3>1, RestStays DEF NothingFound
    <2>. QED BY <2>1, <2>2, <2>3, <2>4, RestStays
<1>. QED BY <1>1, <1>2, TypeCorrect, DoneInvariant, PTL DEF Spec

\* However many operators, however stale their reconciles start, whatever fails,
\* conflicts, panics, crashes or gets lost: a control plane comes to rest only
\* after every operator has found all of it Ready for its last generation
\* (managedcontrolplane_controller.go:110-130).
THEOREM RestFoundReady == Spec => []QuietFoundReady
<1>1. TypeOK /\ DoneInv /\ RestFound => QuietFoundReady
    BY UpToDateIsStored DEF DoneInv, RestFound, QuietFoundReady, Quiet
<1>. QED BY <1>1, TypeCorrect, DoneInvariant, RestInvariant, PTL

\* With one operator, a control plane that has come to rest is Ready for its last
\* generation, in flag, message and condition, UNLESS its last reconcile was not
\* heard: because the API server did not take its patch, whose error is dropped
\* (managedcontrolplane_controller.go:119), or because it started before its cache
\* had the last patch of the status (helpers.go:69).  There is no other way.
THEOREM ReadyIfHeard ==
    ASSUME SingleOperator
    PROVE  Spec => []((\A o \in Operators : observed[o].heard) => QuietIsReady)
<1>1. TypeOK /\ ReportHolds /\ QuietFoundReady
          => ((\A o \in Operators : observed[o].heard) => QuietIsReady)
    <2>. SUFFICES ASSUME ReportHolds, QuietFoundReady, Quiet, mcp.phase = "live",
                         \A o \in Operators : observed[o].heard
                  PROVE  /\ mcp.ready = "true" /\ mcp.message = Ready
                         /\ mcp.cond = [verdict |-> Ready, gen |-> mcp.gen]
        BY DEF QuietIsReady
    <2>1. PICK o \in Operators : TRUE
        BY OperatorsAssumption
    <2>2. observed[o].verdict = Ready /\ observed[o].gen = mcp.gen
        BY DEF QuietFoundReady
    <2>3. mcp.phase # "absent"
        OBVIOUS
    <2>. QED BY <2>2, <2>3 DEF ReportHolds, ReadyFlag
<1>. QED BY <1>1, TypeCorrect, ReportsHold, RestFoundReady, PTL
=============================================================================
