------------------------ MODULE ManagedAddonsProofs -------------------------
(* What ManagedAddons promises for every table, every number of versions,  *)
(* tokens, faults and processes: types, objects that come after what they  *)
(* need, deleted objects that are made again, and processes that rest only *)
(* when everything is installed.                                           *)
EXTENDS ManagedAddons, TLAPS

-----------------------------------------------------------------------------
(* Types. *)

\* Every state of the addons controller is of its type; past the token's read
\* the worker has a token in hand.
LEMMA TypeInit == Init => TypeOK
<1> USE BoundAssumption, TableAssumption
<1> SUFFICES ASSUME Init PROVE TypeOK
  OBVIOUS
<1>1. NoContent \in [Inputs -> 0..MaxVersion]
  BY DEF NoContent
<1>2. /\ source \in [Inputs -> 0..MaxVersion]
      /\ minted \in 0..MaxTokens /\ stored \in 0..minted /\ tokens \subseteq 1..minted
      /\ present \subseteq Positions /\ removed \subseteq Positions \ present
      /\ faults \in 0..MaxFaults
  BY DEF Init
<1>3. /\ content \in [Positions -> [Inputs -> 0..MaxVersion]]
      /\ seen \in [Operators -> 0..MaxVersion]
      /\ queue \in [Operators -> {"none", "delayed", "ready"}]
  BY <1>1 DEF Init
<1>6. marker \in BOOLEAN
  BY DEF Init
<1>7. engaged \in [Operators -> BOOLEAN]
  BY DEF Init
<1>4. Idle \in [pc : Stages, i : 0..Len(Table), token : 0..minted,
                in : [Inputs -> 0..MaxVersion]]
  BY <1>1 DEF Init, Idle, Stages
<1>5. /\ work \in [Operators ->
            [pc : Stages, i : 0..Len(Table), token : 0..minted,
             in : [Inputs -> 0..MaxVersion]]]
      /\ \A op \in Operators : work[op].pc = "idle"
  BY <1>4 DEF Init, Idle
<1> QED
  BY <1>2, <1>3, <1>5, <1>6, <1>7 DEF TypeOK

\* A rendering has a version for every input.
LEMMA RenderedType ==
    ASSUME NEW i, NEW from \in [Inputs -> 0..MaxVersion]
    PROVE  Rendered(i, from) \in [Inputs -> 0..MaxVersion]
BY BoundAssumption DEF Rendered

\* The type of "work", for the steps that change nothing else of the types.
WorkOK ==
    /\ work \in [Operators ->
          [pc : Stages, i : 0..Len(Table), token : 0..minted,
           in : [Inputs -> 0..MaxVersion]]]
    /\ \A op \in Operators :
          work[op].token = 0 => work[op].pc \in {"idle", "marker", "token"}

\* Whatever the worker turns to is of its type, if its parts are.
LEMMA BecomesType ==
    ASSUME TypeOK, NEW op \in Operators, NEW pc \in Stages,
           NEW i \in 0..Len(Table), NEW token \in 0..minted',
           NEW in \in [Inputs -> 0..MaxVersion],
           minted' \in Nat, minted <= minted',
           token = 0 => pc \in {"idle", "marker", "token"},
           Becomes(op, pc, i, token, in)
    PROVE  WorkOK'
BY BoundAssumption DEF Becomes, TypeOK, WorkOK

\* A worker that returns keeps its type, and so does the queue.
LEMMA ReturnType ==
    ASSUME TypeOK, NEW op \in Operators, minted' = minted, Return(op)
    PROVE  WorkOK'
<1>1. NoContent \in [Inputs -> 0..MaxVersion]
  BY BoundAssumption DEF NoContent
<1>2. minted' \in Nat /\ minted <= minted' /\ 0 \in 0..minted' /\ 0 \in 0..Len(Table)
  BY BoundAssumption, TableAssumption DEF TypeOK
<1>3. "idle" \in Stages /\ Becomes(op, "idle", 0, 0, NoContent)
  BY DEF Return, Stages
<1> QED
  BY <1>1, <1>2, <1>3, BecomesType

LEMMA ReturnRetryType ==
    ASSUME TypeOK, NEW op \in Operators, minted' = minted, ReturnRetry(op)
    PROVE  WorkOK' /\ queue' \in [Operators -> {"none", "delayed", "ready"}]
<1>1. WorkOK'
  BY ReturnType DEF ReturnRetry
<1>2. queue' \in [Operators -> {"none", "delayed", "ready"}]
  BY DEF ReturnRetry, TypeOK
<1> QED
  BY <1>1, <1>2

\* An event keeps the queue's type.
LEMMA EnqueueType ==
    ASSUME TypeOK, NEW event, Enqueue(event)
    PROVE  queue' \in [Operators -> {"none", "delayed", "ready"}]
BY DEF Enqueue, TypeOK

\* A step of a worker that changes no more than "work" and "queue".
LEMMA WorkerType ==
    ASSUME TypeOK, WorkOK', queue' \in [Operators -> {"none", "delayed", "ready"}],
           UNCHANGED <<mgmtVars, clusterVars, marker, seen, engaged>>,
           faults' \in 0..MaxFaults
    PROVE  TypeOK'
BY DEF TypeOK, WorkOK, mgmtVars, clusterVars

LEMMA ReconcileTypes ==
    ASSUME TypeOK, NEW op \in Operators, ReconcileStep(op)
    PROVE  TypeOK'
<1> USE BoundAssumption, TableAssumption
<1>w. /\ work[op].pc \in Stages /\ work[op].i \in 0..Len(Table)
      /\ work[op].token \in 0..minted
      /\ work[op].in \in [Inputs -> 0..MaxVersion]
      /\ work[op].token = 0 => work[op].pc \in {"idle", "marker", "token"}
  BY DEF TypeOK
<1>m. /\ minted \in Nat /\ minted <= minted
      /\ 0 \in 0..minted /\ 0 \in 0..Len(Table) /\ 1 \in 0..Len(Table)
      /\ faults \in 0..MaxFaults
      /\ queue \in [Operators -> {"none", "delayed", "ready"}]
  BY DEF TypeOK
<1>n. NoContent \in [Inputs -> 0..MaxVersion]
  BY DEF NoContent
<1>s. Stages = {"idle", "marker", "token", "persist", "ca", "apply", "agent", "konn"}
  BY DEF Stages
<1>1. CASE ReconcileGone(op)
  BY <1>1 DEF ReconcileGone, TypeOK, Taken, mgmtVars, clusterVars
<1>2. CASE ReconcileUnknownCluster(op)
  BY <1>2 DEF ReconcileUnknownCluster, TypeOK, mgmtVars, clusterVars
<1>3. CASE Reconcile(op)
  <2>1. [NoContent EXCEPT !["mcp"] = seen[op]] \in [Inputs -> 0..MaxVersion]
    BY <1>n DEF TypeOK
  <2>2. /\ minted' = minted /\ UNCHANGED <<mgmtVars, clusterVars, marker, seen, engaged>>
        /\ faults' = faults
        /\ Becomes(op, "marker", 0, 0, [NoContent EXCEPT !["mcp"] = seen[op]])
    BY <1>3 DEF Reconcile, mgmtVars
  <2>3. WorkOK'
    BY <2>1, <2>2, <1>m, <1>s, BecomesType
  <2>4. queue' \in [Operators -> {"none", "delayed", "ready"}]
    BY <1>3, <1>m DEF Reconcile, Taken
  <2> QED
    BY <1>m, <2>2, <2>3, <2>4, WorkerType
<1>4. CASE GetMarker(op)
  <2>1. /\ minted' = minted /\ UNCHANGED <<mgmtVars, clusterVars, marker, seen, engaged>>
        /\ faults' = faults /\ queue' = queue
        /\ GoTo(op, "token") \/ Return(op)
    BY <1>4 DEF GetMarker, mgmtVars
  <2>2. CASE GoTo(op, "token")
    <3> QED
      BY <1>w, <1>m, <1>s, <2>1, <2>2, BecomesType, WorkerType DEF GoTo
  <2> QED
    BY <1>m, <2>1, <2>2, ReturnType, WorkerType
<1>5. CASE GetBootstrapToken(op)
  <2>1. /\ minted' = minted /\ UNCHANGED <<mgmtVars, clusterVars, marker, seen, engaged>>
        /\ faults' = faults /\ queue' = queue
        /\ stored \in 0..minted /\ stored # 0
        /\ Becomes(op, "ca", work[op].i, stored, work[op].in)
    BY <1>5 DEF GetBootstrapToken, TypeOK, mgmtVars
  <2> QED
    BY <1>w, <1>m, <1>s, <2>1, BecomesType, WorkerType
<1>6. CASE NewBootstrapToken(op)
  <2>1. /\ minted' = minted + 1 /\ minted + 1 \in 1..MaxTokens
        /\ Becomes(op, "persist", work[op].i, minted + 1, work[op].in)
    BY <1>6 DEF NewBootstrapToken, TypeOK
  <2>2. minted' \in Nat /\ minted <= minted' /\ minted + 1 \in 0..minted' /\ minted + 1 # 0
    BY <1>m, <2>1
  <2>3. WorkOK'
    BY <1>w, <1>s, <2>1, <2>2, BecomesType
  <2> QED
    BY <1>6, <2>1, <2>3 DEF NewBootstrapToken, TypeOK, WorkOK, clusterVars
<1>7. CASE PersistBootstrapToken(op)
  <2>1. /\ minted' = minted /\ work[op].token # 0
        /\ Becomes(op, "ca", work[op].i, work[op].token, work[op].in)
    BY <1>7, <1>w DEF PersistBootstrapToken, GoTo, At
  <2>2. WorkOK'
    BY <1>w, <1>m, <1>s, <2>1, BecomesType
  <2> QED
    BY <1>7, <1>w, <1>m, <2>2 DEF PersistBootstrapToken, TypeOK, WorkOK, clusterVars
<1>8. CASE GetClusterCA(op)
  <2> DEFINE in == [work[op].in EXCEPT !["ca"] = source["ca"]]
  <2>1. in \in [Inputs -> 0..MaxVersion]
    BY <1>w DEF TypeOK, Inputs
  <2>2. /\ minted' = minted /\ UNCHANGED <<mgmtVars, clusterVars, marker, seen, engaged>>
        /\ faults' = faults
        /\ \/ Becomes(op, "apply", work[op].i, work[op].token, in) /\ queue' = queue
           \/ ReturnRetry(op)
    BY <1>8 DEF GetClusterCA, mgmtVars
  <2>3. work[op].token # 0
    BY <1>8, <1>w DEF GetClusterCA, At
  <2>4. CASE Becomes(op, "apply", work[op].i, work[op].token, in) /\ queue' = queue
    <3> HIDE DEF in
    <3>1. WorkOK'
      BY <1>w, <1>m, <1>s, <2>1, <2>2, <2>3, <2>4, BecomesType
    <3> QED
      BY <1>m, <2>2, <2>4, <3>1, WorkerType
  <2> QED
    BY <1>m, <2>2, <2>4, ReturnRetryType, WorkerType
<1>9. CASE ApplyBootstrapTokenSecret(op)
  <2>1. /\ minted' = minted /\ work[op].token \in 1..minted
        /\ StageAfter(0) \in Stages
        /\ Becomes(op, StageAfter(0), 1, work[op].token, work[op].in)
    BY <1>9, <1>w, <1>m
       DEF ApplyBootstrapTokenSecret, StageAfter, Stages, At, mgmtVars
  <2>2. WorkOK'
    BY <1>w, <1>m, <2>1, BecomesType
  <2> QED
    BY <1>9, <1>m, <2>1, <2>2
       DEF ApplyBootstrapTokenSecret, TypeOK, WorkOK, mgmtVars
<1>10. CASE Apply(op)
  <2> DEFINE i == work[op].i
  <2>1. i \in Positions /\ Rendered(i, work[op].in) \in [Inputs -> 0..MaxVersion]
    BY <1>10, <1>w, RenderedType DEF Apply, Positions
  <2>2. /\ minted' = minted /\ work[op].token # 0
        /\ StageAfter(i) \in Stages
        /\ i # Len(Table) => i + 1 \in 0..Len(Table)
    BY <1>10, <1>w, <2>1 DEF Apply, At, StageAfter, Stages, Positions, mgmtVars
  <2>3. \/ Return(op)
        \/ /\ i # Len(Table)
           /\ Becomes(op, StageAfter(i), i + 1, work[op].token, work[op].in)
    BY <1>10 DEF Apply, Proceed
  <2>4. WorkOK'
    BY <1>w, <1>m, <2>2, <2>3, BecomesType, ReturnType
  <2>5. queue' \in [Operators -> {"none", "delayed", "ready"}]
    BY <1>10, EnqueueType DEF Apply
  <2>6. /\ present' \subseteq Positions
        /\ removed' \subseteq Positions \ present'
        /\ content' \in [Positions -> [Inputs -> 0..MaxVersion]]
    BY <1>10, <2>1 DEF Apply, TypeOK
  <2> QED
    BY <1>10, <2>4, <2>5, <2>6 DEF Apply, TypeOK, WorkOK, mgmtVars
<1>11. CASE ApplyIntoNowhere(op)
  <2>1. /\ minted' = minted /\ UNCHANGED <<mgmtVars, clusterVars, marker, seen, engaged>>
        /\ faults' = faults /\ ReturnRetry(op)
    BY <1>11 DEF ApplyIntoNowhere, mgmtVars
  <2> QED
    BY <1>m, <2>1, ReturnRetryType, WorkerType
<1>12. ASSUME NEW pc, NEW secret \in Inputs, NEW next \in Stages,
              pc \in {"agent", "konn"}, GetKonnectivityTLS(op, pc, secret, next)
       PROVE  TypeOK'
  <2> DEFINE in == [work[op].in EXCEPT ![secret] = source[secret]]
  <2>1. in \in [Inputs -> 0..MaxVersion]
    BY <1>w DEF TypeOK
  <2>2. /\ minted' = minted /\ UNCHANGED <<mgmtVars, clusterVars, marker, seen, engaged>>
        /\ faults' = faults
        /\ \/ Becomes(op, next, work[op].i, work[op].token, in) /\ queue' = queue
           \/ ReturnRetry(op)
    BY <1>12 DEF GetKonnectivityTLS, mgmtVars
  <2>3. work[op].token # 0
    BY <1>12, <1>w DEF GetKonnectivityTLS, At
  <2>4. CASE Becomes(op, next, work[op].i, work[op].token, in) /\ queue' = queue
    <3> HIDE DEF in
    <3>1. WorkOK'
      BY <1>w, <1>m, <2>1, <2>2, <2>3, <2>4, BecomesType
    <3> QED
      BY <1>m, <2>2, <2>4, <3>1, WorkerType
  <2> QED
    BY <1>m, <2>2, <2>4, ReturnRetryType, WorkerType
<1>13. CASE GetAgentTLS(op)
  BY <1>12, <1>13 DEF GetAgentTLS, Inputs, Stages
<1>14. CASE GetKonnectivityCA(op)
  BY <1>12, <1>14 DEF GetKonnectivityCA, Inputs, Stages
<1> QED
  BY <1>1, <1>2, <1>3, <1>4, <1>5, <1>6, <1>7, <1>8, <1>9, <1>10, <1>11,
     <1>13, <1>14 DEF ReconcileStep

LEMMA ProcessTypes ==
    ASSUME TypeOK, NEW op \in Operators, ProcessStep(op)
    PROVE  TypeOK'
<1> USE BoundAssumption, TableAssumption
<1>1. CASE CallFails(op)
  <2>1. /\ minted' = minted /\ UNCHANGED <<mgmtVars, clusterVars, marker, seen, engaged>>
        /\ faults' \in 0..MaxFaults /\ ReturnRetry(op)
    BY <1>1 DEF CallFails, Fault, TypeOK, mgmtVars
  <2> QED
    BY <2>1, ReturnRetryType, WorkerType
<1>2. CASE Engage(op)
  BY <1>2 DEF Engage, TypeOK, mgmtVars, clusterVars
<1>3. CASE Disengage(op)
  BY <1>3 DEF Disengage, Fault, TypeOK, mgmtVars, clusterVars
<1>4. CASE Elapse(op)
  BY <1>4 DEF Elapse, TypeOK, mgmtVars, clusterVars
<1>5. CASE Resync(op)
  BY <1>5 DEF Resync, TypeOK, mgmtVars, clusterVars
<1>6. CASE Observe(op)
  BY <1>6 DEF Observe, TypeOK, Inputs, mgmtVars, clusterVars
<1>7. CASE Crash(op)
  <2>1. minted' = minted /\ Return(op)
    BY <1>7 DEF Crash, mgmtVars
  <2>2. WorkOK'
    BY <2>1, ReturnType
  <2>3. /\ queue' \in [Operators -> {"none", "delayed", "ready"}]
        /\ faults' \in 0..MaxFaults
    BY <1>7 DEF Crash, Fault, TypeOK
  <2>4. engaged' \in [Operators -> BOOLEAN]
    BY <1>7 DEF Crash, TypeOK
  <2>5. seen' \in [Operators -> 0..MaxVersion]
    BY <1>7 DEF Crash, TypeOK, Inputs
  <2> QED
    BY <1>7, <2>2, <2>3, <2>4, <2>5
       DEF Crash, TypeOK, WorkOK, mgmtVars, clusterVars
<1> QED
  BY <1>1, <1>2, <1>3, <1>4, <1>5, <1>6, <1>7 DEF ProcessStep

LEMMA ClusterTypes ==
    ASSUME TypeOK, ClusterStep
    PROVE  TypeOK'
<1> USE BoundAssumption, TableAssumption
<1>1. ASSUME NEW x \in Inputs, Renew(x)
      PROVE  TypeOK'
  BY <1>1 DEF Renew, TypeOK, clusterVars
<1>2. ASSUME NEW i \in Positions, Remove(i)
      PROVE  TypeOK'
  <2>1. GoneWith(i) \subseteq Positions
    BY DEF GoneWith, TypeOK
  <2>2. content' \in [Positions -> [Inputs -> 0..MaxVersion]]
    BY <1>2 DEF Remove, TypeOK, NoContent
  <2>3. queue' \in [Operators -> {"none", "delayed", "ready"}]
    BY <1>2, EnqueueType DEF Remove
  <2> QED
    BY <1>2, <2>1, <2>2, <2>3 DEF Remove, Fault, TypeOK, mgmtVars
<1>3. CASE LoseToken
  BY <1>3 DEF LoseToken, Fault, TypeOK, clusterVars
<1>4. CASE Delete
  BY <1>4 DEF Delete, Fault, NoContent, TypeOK, clusterVars
<1>5. CASE Unmark
  <2>1. queue' \in [Operators -> {"none", "delayed", "ready"}]
    BY <1>5, EnqueueType DEF Unmark
  <2>2. marker' \in BOOLEAN
    BY <1>5 DEF Unmark
  <2>3. faults' \in 0..MaxFaults
    BY <1>5 DEF Unmark, Fault, TypeOK
  <2> QED
    BY <1>5, <2>1, <2>2, <2>3 DEF Unmark, TypeOK, mgmtVars, clusterVars
<1> QED
  BY <1>1, <1>2, <1>3, <1>4, <1>5 DEF ClusterStep

LEMMA TypeNext == TypeOK /\ [Next]_vars => TypeOK'
<1> SUFFICES ASSUME TypeOK, [Next]_vars PROVE TypeOK'
  OBVIOUS
<1>1. CASE UNCHANGED vars
  BY <1>1 DEF vars, TypeOK
<1> QED
  BY <1>1, ReconcileTypes, ProcessTypes, ClusterTypes DEF Next

THEOREM TypeCorrect == Spec => []TypeOK
BY TypeInit, TypeNext, PTL DEF Spec

-----------------------------------------------------------------------------
(* The worker's way through the table. *)

\* A worker stays at its object, returns, or goes on after it has applied it.
Moves(op) ==
    \/ work'[op].i = work[op].i
    \/ work'[op].i = 0
    \/ work'[op].i = work[op].i + 1 /\ (work[op].i = 0 \/ work[op].i \in present')

\* What becomes of "i" when the worker turns to something.
LEMMA BecomesMoves ==
    ASSUME TypeOK, NEW op \in Operators, NEW pc, NEW i, NEW token, NEW in,
           Becomes(op, pc, i, token, in),
           \/ i = work[op].i
           \/ i = 0
           \/ i = work[op].i + 1 /\ (work[op].i = 0 \/ work[op].i \in present')
    PROVE  \A o \in Operators : Moves(o)
<1> TAKE o \in Operators
<1>1. CASE o = op
  <2>1. work'[o].i = i
    BY <1>1 DEF Becomes, TypeOK
  <2> QED
    BY <1>1, <2>1 DEF Moves
<1>2. CASE o # op
  BY <1>2 DEF Becomes, TypeOK, Moves
<1> QED
  BY <1>1, <1>2

LEMMA ReturnMoves ==
    ASSUME TypeOK, NEW op \in Operators, Return(op) \/ ReturnRetry(op)
    PROVE  \A o \in Operators : Moves(o)
<1>1. Becomes(op, "idle", 0, 0, NoContent)
  BY DEF Return, ReturnRetry
<1> QED
  BY <1>1, BecomesMoves

\* No step makes a worker skip an object.
LEMMA NextMoves ==
    ASSUME TypeOK, [Next]_vars
    PROVE  \A o \in Operators : Moves(o)
<1>u. ASSUME work' = work PROVE \A o \in Operators : Moves(o)
  BY <1>u DEF Moves
<1>1. ASSUME NEW op \in Operators, ReconcileStep(op)
      PROVE  \A o \in Operators : Moves(o)
  <2>1. CASE ReconcileGone(op) \/ ReconcileUnknownCluster(op)
    BY <2>1, <1>u DEF ReconcileGone, ReconcileUnknownCluster
  <2>2. CASE Reconcile(op)
    BY <2>2, BecomesMoves DEF Reconcile
  <2>3. CASE GetMarker(op)
    BY <2>3, BecomesMoves, ReturnMoves DEF GetMarker, GoTo
  <2>4. CASE GetBootstrapToken(op)
    BY <2>4, BecomesMoves DEF GetBootstrapToken
  <2>5. CASE NewBootstrapToken(op)
    BY <2>5, BecomesMoves DEF NewBootstrapToken
  <2>6. CASE PersistBootstrapToken(op)
    BY <2>6, BecomesMoves DEF PersistBootstrapToken, GoTo
  <2>7. CASE GetClusterCA(op)
    BY <2>7, BecomesMoves, ReturnMoves DEF GetClusterCA
  <2>8. CASE ApplyBootstrapTokenSecret(op)
    <3>1. Becomes(op, StageAfter(0), 1, work[op].token, work[op].in) /\ work[op].i = 0
      BY <2>8 DEF ApplyBootstrapTokenSecret
    <3> QED
      BY <3>1, BecomesMoves
  <2>9. CASE Apply(op)
    <3>1. work[op].i \in present'
      BY <2>9 DEF Apply
    <3>2. CASE Return(op)
      BY <3>2, ReturnMoves
    <3>3. CASE Becomes(op, StageAfter(work[op].i), work[op].i + 1, work[op].token,
                       work[op].in)
      BY <3>1, <3>3, BecomesMoves
    <3> QED
      BY <2>9, <3>2, <3>3 DEF Apply, Proceed
  <2>10. CASE ApplyIntoNowhere(op)
    BY <2>10, ReturnMoves DEF ApplyIntoNowhere
  <2>11. CASE GetAgentTLS(op) \/ GetKonnectivityCA(op)
    BY <2>11, BecomesMoves, ReturnMoves
       DEF GetAgentTLS, GetKonnectivityCA, GetKonnectivityTLS
  <2> QED
    BY <1>1, <2>1, <2>2, <2>3, <2>4, <2>5, <2>6, <2>7, <2>8, <2>9, <2>10, <2>11
       DEF ReconcileStep
<1>2. ASSUME NEW op \in Operators, ProcessStep(op)
      PROVE  \A o \in Operators : Moves(o)
  <2>1. CASE CallFails(op)
    BY <2>1, ReturnMoves DEF CallFails
  <2>2. CASE Crash(op)
    BY <2>2, ReturnMoves DEF Crash
  <2>3. CASE Engage(op) \/ Disengage(op) \/ Elapse(op) \/ Resync(op) \/ Observe(op)
    BY <2>3, <1>u DEF Engage, Disengage, Elapse, Resync, Observe
  <2> QED
    BY <1>2, <2>1, <2>2, <2>3 DEF ProcessStep
<1>3. CASE ClusterStep
  BY <1>3, <1>u DEF ClusterStep, Renew, Remove, LoseToken, Delete, Unmark
<1>4. CASE UNCHANGED vars
  BY <1>4, <1>u DEF vars
<1> QED
  BY <1>1, <1>2, <1>3, <1>4 DEF Next

-----------------------------------------------------------------------------
(* What is present, and what somebody deleted. *)

\* An object that was once applied is either there or counted as deleted, and a
\* new one is the object at which a worker is.
LEMMA NextPresent ==
    ASSUME TypeOK, [Next]_vars
    PROVE  /\ present \union removed \subseteq present' \union removed'
           /\ \A i \in present' \ present :
                 \E op \in Operators : work[op].i = i
<1> DEFINE Goal == /\ present \union removed \subseteq present' \union removed'
                   /\ \A i \in present' \ present :
                         \E op \in Operators : work[op].i = i
<1>u. ASSUME present' = present, removed' = removed PROVE Goal
  BY <1>u
<1>1. ASSUME NEW op \in Operators, Apply(op) PROVE Goal
  BY <1>1 DEF Apply
<1>2. ASSUME NEW op \in Operators, ReconcileStep(op), ~ Apply(op) PROVE Goal
  <2>1. present' = present /\ removed' = removed
    BY <1>2 DEF ReconcileStep, ReconcileGone, ReconcileUnknownCluster, Reconcile,
       GetMarker, GetBootstrapToken, NewBootstrapToken, PersistBootstrapToken,
       GetClusterCA, ApplyBootstrapTokenSecret, ApplyIntoNowhere, GetAgentTLS,
       GetKonnectivityCA, GetKonnectivityTLS, clusterVars
  <2> QED
    BY <2>1
<1>3. ASSUME NEW op \in Operators, ProcessStep(op) PROVE Goal
  <2>1. present' = present /\ removed' = removed
    BY <1>3 DEF ProcessStep, CallFails, Engage, Disengage, Elapse, Resync, Observe,
       Crash, clusterVars
  <2> QED
    BY <2>1
<1>4. ASSUME NEW i \in Positions, Remove(i) PROVE Goal
  BY <1>4 DEF Remove
<1>5. ASSUME ClusterStep, \A i \in Positions : ~ Remove(i) PROVE Goal
  <2>1. present' = present /\ removed' = removed
    BY <1>5 DEF ClusterStep, Renew, LoseToken, Delete, Unmark, clusterVars
  <2> QED
    BY <2>1
<1>6. ASSUME UNCHANGED vars PROVE Goal
  BY <1>6 DEF vars
<1> HIDE DEF Goal
<1>7. Goal
  BY <1>1, <1>2, <1>3, <1>4, <1>5, <1>6 DEF Next
<1> QED
  BY <1>7 DEF Goal

-----------------------------------------------------------------------------
(* Needs. *)

\* What comes before a worker's object was applied.
AppliedBefore ==
    \A op \in Operators : \A j \in Positions :
        j < work[op].i => j \in present \union removed

LEMMA AppliedNext ==
    TypeOK /\ AppliedBefore /\ [Next]_vars => AppliedBefore'
<1> SUFFICES ASSUME TypeOK, AppliedBefore, [Next]_vars,
                    NEW op \in Operators, NEW j \in Positions, j < work'[op].i
             PROVE  j \in present' \union removed'
  BY DEF AppliedBefore, Positions
<1>1. Moves(op) /\ present \union removed \subseteq present' \union removed'
  BY NextMoves, NextPresent
<1>2. j \in Nat /\ j >= 1 /\ work[op].i \in Nat
  BY TableAssumption DEF TypeOK, Positions
<1>3. CASE j < work[op].i
  BY <1>1, <1>3 DEF AppliedBefore
<1>4. CASE ~ (j < work[op].i)
  <2>1. work'[op].i = work[op].i + 1 /\ work[op].i \in present' \union {0}
    BY <1>1, <1>2, <1>4 DEF Moves
  <2>2. j = work[op].i
    BY <1>2, <1>4, <2>1
  <2> QED
    BY <1>2, <2>1, <2>2
<1> QED
  BY <1>3, <1>4

LEMMA NeedsNext ==
    TypeOK /\ AppliedBefore /\ NeedsArePresent /\ [Next]_vars => NeedsArePresent'
<1> SUFFICES ASSUME TypeOK, AppliedBefore, NeedsArePresent, [Next]_vars,
                    NEW i \in present', NEW j \in Uses(i)
             PROVE  j \in present' \union removed'
  BY DEF NeedsArePresent
<1>1. /\ present \union removed \subseteq present' \union removed'
      /\ i \in present \/ \E op \in Operators : work[op].i = i
  BY NextPresent
<1>2. TypeOK'
  BY TypeNext
<1>3. i \in Positions
  BY <1>2 DEF TypeOK
<1>4. j \in Positions /\ j < i
  BY <1>3, TableAssumption DEF Uses, UsedBy
<1>5. CASE i \in present
  BY <1>1, <1>5 DEF NeedsArePresent
<1>6. ASSUME NEW op \in Operators, work[op].i = i
      PROVE  j \in present' \union removed'
  BY <1>1, <1>4, <1>6 DEF AppliedBefore
<1> QED
  BY <1>1, <1>5, <1>6

\* Whatever the tables, the calls that fail and the objects that somebody
\* deletes: an object that is present has what it needs, unless that is what
\* was deleted (the order of the Objects methods and of reconcileAddons).
THEOREM NeedsCorrect == Spec => []NeedsArePresent
<1>1. Init => TypeOK /\ AppliedBefore /\ NeedsArePresent
  <2> SUFFICES ASSUME Init PROVE TypeOK /\ AppliedBefore /\ NeedsArePresent
    OBVIOUS
  <2>1. AppliedBefore /\ NeedsArePresent
    BY TableAssumption DEF Init, Idle, AppliedBefore, NeedsArePresent, Positions
  <2> QED
    BY <2>1, TypeInit
<1>2. TypeOK /\ AppliedBefore /\ NeedsArePresent /\ [Next]_vars
      => (TypeOK /\ AppliedBefore /\ NeedsArePresent)'
  BY TypeNext, AppliedNext, NeedsNext
<1> QED
  BY <1>1, <1>2, PTL DEF Spec

-----------------------------------------------------------------------------
(* Deletions. *)

\* A process whose cache misses the control plane is right about it.
SeenGone == \A op \in Operators : seen[op] = 0 => source["mcp"] = 0

LEMMA SeenNext == TypeOK /\ SeenGone /\ [Next]_vars => SeenGone'
<1> SUFFICES ASSUME TypeOK, SeenGone, [Next]_vars PROVE SeenGone'
  OBVIOUS
<1>u. ASSUME source' = source, seen' = seen PROVE SeenGone'
  BY <1>u DEF SeenGone
<1>1. ASSUME NEW op \in Operators, ReconcileStep(op) PROVE SeenGone'
  <2>1. source' = source /\ seen' = seen
    BY <1>1 DEF ReconcileStep, ReconcileGone, ReconcileUnknownCluster, Reconcile,
       GetMarker, GetBootstrapToken, NewBootstrapToken, PersistBootstrapToken,
       GetClusterCA, ApplyBootstrapTokenSecret, Apply, ApplyIntoNowhere,
       GetAgentTLS, GetKonnectivityCA, GetKonnectivityTLS, mgmtVars
  <2> QED
    BY <2>1, <1>u
<1>2. ASSUME NEW op \in Operators, ProcessStep(op) PROVE SeenGone'
  <2>1. CASE Observe(op)
    BY <2>1 DEF Observe, SeenGone, TypeOK, mgmtVars
  <2>2. CASE Crash(op)
    <3>1. source' = source /\ \E version \in {seen[op], source["mcp"]} :
                                seen' = [seen EXCEPT ![op] = version]
      BY <2>2 DEF Crash, mgmtVars
    <3> QED
      BY <3>1 DEF SeenGone, TypeOK
  <2>3. CASE CallFails(op) \/ Engage(op) \/ Disengage(op) \/ Elapse(op) \/ Resync(op)
    BY <2>3, <1>u DEF CallFails, Engage, Disengage, Elapse, Resync, mgmtVars
  <2> QED
    BY <1>2, <2>1, <2>2, <2>3 DEF ProcessStep
<1>3. ASSUME NEW x \in Inputs, Renew(x) PROVE SeenGone'
  BY <1>3 DEF Renew, SeenGone
<1>4. CASE Delete
  BY <1>4 DEF Delete, NoContent, SeenGone, Inputs
<1>5. ASSUME LoseToken \/ Unmark \/ (\E i \in Positions : Remove(i)) \/ UNCHANGED vars
      PROVE  SeenGone'
  BY <1>5, <1>u DEF LoseToken, Unmark, Remove, mgmtVars, vars
<1> QED
  BY <1>1, <1>2, <1>3, <1>4, <1>5 DEF Next, ClusterStep

\* The item of the queue stands for the object, or the worker comes to it.
Comes(op, i) ==
    \/ queue[op] # "none"
    \/ ~ At(op, "idle") /\ work[op].i <= i

Wanted(op, i) == Watched(i) /\ marker /\ engaged[op] /\ source["mcp"] # 0

\* A worker that returns to have the reconcile repeated.
LEMMA RetryComes ==
    ASSUME TypeOK, NEW op \in Operators, ReturnRetry(op),
           NEW o \in Operators, NEW i \in Positions, Comes(o, i)
    PROVE  Comes(o, i)'
<1>1. CASE o = op
  BY <1>1 DEF ReturnRetry, Comes, TypeOK
<1>2. CASE o # op
  BY <1>2 DEF ReturnRetry, Return, Becomes, Comes, At, TypeOK
<1> QED
  BY <1>1, <1>2

\* A worker that goes on, its queue being left alone, with an object that is
\* not past "i".
LEMMA BecomesComes ==
    ASSUME TypeOK, NEW op \in Operators, NEW pc, NEW n, NEW token, NEW in,
           Becomes(op, pc, n, token, in), queue' = queue, pc # "idle",
           NEW o \in Operators, NEW i \in Positions, Comes(o, i),
           o = op /\ work[op].i <= i => n <= i,
           work[op].pc # "idle"
    PROVE  Comes(o, i)'
<1>1. CASE o = op
  <2>1. work'[o].pc = pc /\ work'[o].i = n
    BY <1>1 DEF Becomes, TypeOK
  <2> QED
    BY <1>1, <2>1 DEF Comes, At
<1>2. CASE o # op
  BY <1>2 DEF Becomes, Comes, At, TypeOK
<1> QED
  BY <1>1, <1>2

LEMMA ReconcilePends ==
    ASSUME TypeOK, SeenGone, DeletedIsPending,
           NEW op \in Operators, ReconcileStep(op),
           NEW o \in Operators, NEW i \in removed', Wanted(o, i)'
    PROVE  Comes(o, i)'
<1>i. i \in Positions /\ i \in Nat /\ i >= 1
  <2>1. TypeOK'
    BY TypeNext DEF Next
  <2> QED
    BY <2>1, TableAssumption DEF TypeOK, Positions
<1>u. marker' = marker /\ engaged' = engaged /\ source' = source /\ i \in removed
  BY DEF ReconcileStep, ReconcileGone, ReconcileUnknownCluster, Reconcile,
     GetMarker, GetBootstrapToken, NewBootstrapToken, PersistBootstrapToken,
     GetClusterCA, ApplyBootstrapTokenSecret, Apply, ApplyIntoNowhere,
     GetAgentTLS, GetKonnectivityCA, GetKonnectivityTLS, mgmtVars, clusterVars
<1>c. Comes(o, i)
  BY <1>u, <1>i DEF DeletedIsPending, Comes, Wanted
<1>w. \A p \in Operators : work[p].i \in Nat
  BY TableAssumption DEF TypeOK
<1>1. CASE ReconcileGone(op)
  BY <1>1, <1>c, <1>u DEF ReconcileGone, Taken, SeenGone, Wanted, Comes, At, TypeOK
<1>2. CASE ReconcileUnknownCluster(op)
  BY <1>2, <1>c, <1>u DEF ReconcileUnknownCluster, Wanted, Comes, At, TypeOK
<1>3. CASE Reconcile(op)
  <2>1. CASE o = op
    BY <1>3, <2>1, <1>i DEF Reconcile, Becomes, Comes, At, TypeOK
  <2>2. CASE o # op
    BY <1>3, <2>2, <1>c DEF Reconcile, Taken, Becomes, Comes, At, TypeOK
  <2> QED
    BY <2>1, <2>2
<1>4. CASE GetMarker(op)
  BY <1>4, <1>c, <1>u, <1>i, <1>w, BecomesComes DEF GetMarker, GoTo, At, Wanted
<1>5. CASE GetBootstrapToken(op)
  BY <1>5, <1>c, <1>i, <1>w, BecomesComes DEF GetBootstrapToken, At
<1>6. CASE NewBootstrapToken(op)
  BY <1>6, <1>c, <1>i, <1>w, BecomesComes DEF NewBootstrapToken, At
<1>7. CASE PersistBootstrapToken(op)
  BY <1>7, <1>c, <1>i, <1>w, BecomesComes DEF PersistBootstrapToken, GoTo, At
<1>8. CASE GetClusterCA(op)
  BY <1>8, <1>c, <1>i, <1>w, BecomesComes, RetryComes DEF GetClusterCA, At
<1>9. CASE ApplyBootstrapTokenSecret(op)
  <2>1. StageAfter(0) # "idle"
    BY DEF StageAfter
  <2> QED
    BY <1>9, <2>1, <1>c, <1>i, <1>w, BecomesComes DEF ApplyBootstrapTokenSecret, At
<1>10. CASE Apply(op)
  <2>1. i # work[op].i
    BY <1>10, <1>i DEF Apply
  <2>2. queue[o] # "none" => queue'[o] # "none"
    BY <1>10 DEF Apply, Enqueue
  <2>3. CASE o # op /\ queue[o] = "none"
    <3>1. work'[o] = work[o]
      BY <1>10, <2>3 DEF Apply, Proceed, Return, Becomes, TypeOK
    <3> QED
      BY <3>1, <2>3, <1>c DEF Comes, At
  <2>4. CASE o = op /\ queue[o] = "none"
    <3>1. work[op].i < i /\ i <= Len(Table)
      BY <2>1, <2>4, <1>c, <1>i, <1>w, TableAssumption DEF Comes, Positions
    <3>2. Becomes(op, StageAfter(work[op].i), work[op].i + 1, work[op].token,
                  work[op].in)
      BY <1>10, <3>1, <1>w, <1>i, TableAssumption DEF Apply, Proceed
    <3>3. work'[op].i = work[op].i + 1 /\ work'[op].pc # "idle"
      BY <3>2 DEF Becomes, StageAfter, TypeOK
    <3> QED
      BY <2>4, <3>1, <3>3, <1>i, <1>w DEF Comes, At
  <2> QED
    BY <2>2, <2>3, <2>4 DEF Comes
<1>11. CASE ApplyIntoNowhere(op)
  BY <1>11, <1>c, <1>i, RetryComes DEF ApplyIntoNowhere
<1>12. ASSUME NEW pc \in {"agent", "konn"}, NEW secret, NEW next, next # "idle",
              GetKonnectivityTLS(op, pc, secret, next)
       PROVE  Comes(o, i)'
  BY <1>12, <1>c, <1>i, <1>w, BecomesComes, RetryComes DEF GetKonnectivityTLS, At
<1>13. CASE GetAgentTLS(op) \/ GetKonnectivityCA(op)
  BY <1>12, <1>13 DEF GetAgentTLS, GetKonnectivityCA
<1> QED
  BY <1>1, <1>2, <1>3, <1>4, <1>5, <1>6, <1>7, <1>8, <1>9, <1>10, <1>11, <1>13
     DEF ReconcileStep

\* A step that takes nothing out of a queue and leaves the workers alone.
LEMMA QueueComes ==
    ASSUME NEW o \in Operators, NEW i, Comes(o, i), work' = work,
           queue[o] # "none" => queue'[o] # "none"
    PROVE  Comes(o, i)'
BY DEF Comes, At

LEMMA ProcessPends ==
    ASSUME TypeOK, DeletedIsPending,
           NEW op \in Operators, ProcessStep(op),
           NEW o \in Operators, NEW i \in removed', Wanted(o, i)'
    PROVE  Comes(o, i)'
<1>u. source' = source /\ i \in removed
  BY DEF ProcessStep, CallFails, Engage, Disengage, Elapse, Resync, Observe, Crash,
     mgmtVars, clusterVars
<1>i. i \in Positions
  BY <1>u DEF TypeOK
<1>c. marker /\ engaged[o] => Comes(o, i)
  BY <1>u, <1>i DEF DeletedIsPending, Comes, Wanted
<1>1. CASE CallFails(op)
  BY <1>1, <1>c, <1>i, RetryComes DEF CallFails, Wanted
<1>2. CASE Engage(op)
  <2>1. CASE o # op /\ marker
    <3>1. engaged[o] /\ Comes(o, i)
      BY <1>2, <2>1, <1>c DEF Engage, Wanted, TypeOK
    <3> QED
      BY <1>2, <3>1, QueueComes DEF Engage
  <2>2. CASE o # op /\ ~ marker
    <3>1. engaged[o]
      BY <1>2, <2>2 DEF Engage, Wanted, TypeOK
    <3> QED
      BY <1>2, <2>2, <3>1 DEF Engage, Comes
  <2>3. CASE o = op
    BY <1>2, <2>3 DEF Engage, Comes
  <2> QED
    BY <2>1, <2>2, <2>3
<1>3. CASE Disengage(op)
  BY <1>3, <1>c, QueueComes DEF Disengage, Wanted, TypeOK
<1>4. CASE Elapse(op)
  BY <1>4, <1>c, QueueComes DEF Elapse, Wanted, TypeOK
<1>5. CASE Resync(op)
  BY <1>5, <1>c, QueueComes DEF Resync, Wanted, TypeOK
<1>6. CASE Observe(op)
  BY <1>6, <1>c, QueueComes DEF Observe, Wanted
<1>7. CASE Crash(op)
  <2>1. o # op /\ engaged[o] /\ marker
    BY <1>7 DEF Crash, Wanted, TypeOK
  <2>2. work'[o] = work[o] /\ queue'[o] = queue[o]
    BY <1>7, <2>1 DEF Crash, Return, Becomes, TypeOK
  <2> QED
    BY <1>c, <2>1, <2>2 DEF Comes, At
<1> QED
  BY <1>1, <1>2, <1>3, <1>4, <1>5, <1>6, <1>7 DEF ProcessStep

LEMMA ClusterPends ==
    ASSUME TypeOK, DeletedIsPending, ClusterStep,
           NEW o \in Operators, NEW i \in removed', Wanted(o, i)'
    PROVE  Comes(o, i)'
<1>c. i \in removed /\ Wanted(o, i) => Comes(o, i)
  BY DEF DeletedIsPending, Comes, Wanted
<1>1. ASSUME NEW x \in Inputs, Renew(x) PROVE Comes(o, i)'
  BY <1>1, <1>c, QueueComes DEF Renew, Wanted, clusterVars
<1>2. ASSUME NEW n \in Positions, Remove(n) PROVE Comes(o, i)'
  <2>1. engaged[o] /\ work' = work /\ Watched(i) /\ Enqueue(\E j \in GoneWith(n) : Watched(j))
    BY <1>2 DEF Remove, Wanted
  <2>2. CASE i \in removed
    <3>1. Comes(o, i)
      BY <1>2, <2>2, <1>c DEF Remove, Wanted, mgmtVars
    <3> QED
      BY <2>1, <3>1, QueueComes DEF Enqueue
  <2>3. CASE i \in GoneWith(n)
    BY <2>1, <2>3 DEF Enqueue, Comes
  <2> QED
    BY <1>2, <2>2, <2>3 DEF Remove
<1>3. CASE LoseToken
  BY <1>3, <1>c, QueueComes DEF LoseToken, Wanted, clusterVars
<1>4. CASE Delete
  BY <1>4 DEF Delete, NoContent, Inputs, Wanted
<1>5. CASE Unmark
  BY <1>5 DEF Unmark, Wanted
<1> QED
  BY <1>1, <1>2, <1>3, <1>4, <1>5 DEF ClusterStep

LEMMA PendsNext ==
    TypeOK /\ SeenGone /\ DeletedIsPending /\ [Next]_vars => DeletedIsPending'
<1> SUFFICES ASSUME TypeOK, SeenGone, DeletedIsPending, [Next]_vars,
                    NEW o \in Operators, NEW i \in removed', Wanted(o, i)'
             PROVE  Comes(o, i)'
  BY DEF DeletedIsPending, Comes, Wanted, Watched, At, isPartOf, isNonManagedAddon
<1>1. CASE UNCHANGED vars
  <2>1. Comes(o, i)
    BY <1>1 DEF vars, DeletedIsPending, Comes, Wanted
  <2> QED
    BY <1>1, <2>1 DEF vars, Comes, At
<1> QED
  BY <1>1, ReconcilePends, ProcessPends, ClusterPends DEF Next

\* An object the controller watches never stays deleted unnoticed: whatever
\* the worker is doing when somebody deletes it, the reconcile is queued
\* again or has yet to come to it (the watches of the addons controller and
\* the dirty items of its work queue).
THEOREM DeletedCorrect == Spec => []DeletedIsPending
<1>1. Init => TypeOK /\ SeenGone /\ DeletedIsPending
  <2> SUFFICES ASSUME Init PROVE SeenGone /\ DeletedIsPending
    BY TypeInit
  <2> QED
    BY DEF Init, SeenGone, DeletedIsPending
<1>2. TypeOK /\ SeenGone /\ DeletedIsPending /\ [Next]_vars
      => (TypeOK /\ SeenGone /\ DeletedIsPending)'
  BY TypeNext, SeenNext, PendsNext
<1> QED
  BY <1>1, <1>2, PTL DEF Spec

-----------------------------------------------------------------------------
(* Rest. *)

\* Everything was applied once.
Complete == Positions \subseteq present \union removed

\* A reconcile is queued or under way.
Busy(op) == queue[op] # "none" \/ ~ At(op, "idle")

\* Until everything is applied, every process that is engaged has work to do.
Installing ==
    \A op \in Operators :
        marker /\ source["mcp"] # 0 /\ engaged[op] => Busy(op) \/ Complete

\* Up to the first object the worker is in front of the tables.
FromStart ==
    \A op \in Operators :
        work[op].pc \in {"marker", "token", "persist", "ca"} => work[op].i = 0

\* The worker has yet to read the token, or is about to apply the stored one.
Hands(op) ==
    \/ work[op].pc \in {"marker", "token", "persist"}
    \/ work[op].pc \in {"ca", "apply"} /\ work[op].i = 0 /\ work[op].token = stored

\* The process will engage, reconcile, or hand out the token.
HandsOut(op) == ~ engaged[op] \/ queue[op] # "none" \/ Hands(op)

\* A stored token that no worker node can use yet is on its way.
TokenComes ==
    marker /\ source["mcp"] # 0 /\ stored \notin tokens \union {0}
        => \E op \in Operators : HandsOut(op)

\* What the worker has turned to.
LEMMA Became ==
    ASSUME TypeOK, NEW op \in Operators, NEW pc, NEW i, NEW token, NEW in,
           Becomes(op, pc, i, token, in)
    PROVE  /\ work'[op].pc = pc /\ work'[op].i = i /\ work'[op].token = token
           /\ \A o \in Operators \ {op} : work'[o] = work[o]
BY DEF Becomes, TypeOK

\* A worker that returns to have the reconcile repeated leaves it in the queue.
LEMMA Retried ==
    ASSUME TypeOK, NEW op \in Operators, ReturnRetry(op)
    PROVE  /\ queue'[op] # "none" /\ work'[op].pc = "idle" /\ work'[op].i = 0
           /\ \A o \in Operators \ {op} : work'[o] = work[o] /\ queue'[o] = queue[o]
BY DEF ReturnRetry, Return, Becomes, TypeOK

\* No event takes anything out of a queue.
LEMMA Enqueued ==
    ASSUME NEW event, Enqueue(event), NEW o \in Operators, queue[o] # "none"
    PROVE  queue'[o] # "none"
BY DEF Enqueue

\* What a step of a worker is to the others, and to what is read here.
LEMMA ReconcileOthers ==
    ASSUME TypeOK, NEW op \in Operators, ReconcileStep(op)
    PROVE  /\ UNCHANGED <<marker, engaged, source>>
           /\ tokens \subseteq tokens'
           /\ \A o \in Operators \ {op} :
                 work'[o] = work[o] /\ (queue[o] # "none" => queue'[o] # "none")
<1> DEFINE Same == \A o \in Operators \ {op} :
                      work'[o] = work[o] /\ (queue[o] # "none" => queue'[o] # "none")
<1>1. UNCHANGED <<marker, engaged, source>> /\ tokens \subseteq tokens'
  BY DEF ReconcileStep, ReconcileGone, ReconcileUnknownCluster, Reconcile,
     GetMarker, GetBootstrapToken, NewBootstrapToken, PersistBootstrapToken,
     GetClusterCA, ApplyBootstrapTokenSecret, Apply, ApplyIntoNowhere,
     GetAgentTLS, GetKonnectivityCA, GetKonnectivityTLS, mgmtVars, clusterVars
<1>2. ASSUME ReconcileGone(op) \/ ReconcileUnknownCluster(op) PROVE Same
  BY <1>2 DEF ReconcileGone, ReconcileUnknownCluster, Taken, TypeOK
<1>3. ASSUME Reconcile(op) PROVE Same
  BY <1>3, Became DEF Reconcile, Taken, TypeOK
<1>4. ASSUME GetMarker(op) PROVE Same
  BY <1>4, Became DEF GetMarker, GoTo, Return
<1>5. ASSUME GetBootstrapToken(op) \/ NewBootstrapToken(op) \/ PersistBootstrapToken(op)
           \/ ApplyBootstrapTokenSecret(op) PROVE Same
  BY <1>5, Became DEF GetBootstrapToken, NewBootstrapToken, PersistBootstrapToken,
     ApplyBootstrapTokenSecret, GoTo
<1>6. ASSUME GetClusterCA(op) PROVE Same
  BY <1>6, Became, Retried DEF GetClusterCA
<1>7. ASSUME Apply(op) PROVE Same
  <2>1. \A o \in Operators \ {op} : work'[o] = work[o]
    BY <1>7, Became DEF Apply, Proceed, Return
  <2> QED
    BY <1>7, <2>1, Enqueued DEF Apply
<1>8. ASSUME ApplyIntoNowhere(op) PROVE Same
  BY <1>8, Retried DEF ApplyIntoNowhere
<1>9. ASSUME GetAgentTLS(op) \/ GetKonnectivityCA(op) PROVE Same
  BY <1>9, Became, Retried DEF GetAgentTLS, GetKonnectivityCA, GetKonnectivityTLS
<1> HIDE DEF Same
<1>10. Same
  BY <1>2, <1>3, <1>4, <1>5, <1>6, <1>7, <1>8, <1>9 DEF ReconcileStep
<1> QED
  BY <1>1, <1>10 DEF Same

\* A worker is done only when it has applied the last object.
LEMMA ReconcileInstalls ==
    ASSUME TypeOK, SeenGone, AppliedBefore, NEW op \in Operators, ReconcileStep(op),
           marker, source["mcp"] # 0, engaged[op], Busy(op)
    PROVE  Busy(op)' \/ Complete'
<1>1. CASE ReconcileGone(op) \/ ReconcileUnknownCluster(op)
  BY <1>1 DEF ReconcileGone, ReconcileUnknownCluster, SeenGone
<1>2. CASE Reconcile(op)
  BY <1>2, Became DEF Reconcile, Busy, At
<1>3. CASE GetMarker(op)
  BY <1>3, Became DEF GetMarker, GoTo, Busy, At
<1>4. CASE GetBootstrapToken(op) \/ NewBootstrapToken(op) \/ PersistBootstrapToken(op)
  <2>1. CASE GetBootstrapToken(op)
    BY <2>1, Became DEF GetBootstrapToken, Busy, At
  <2>2. CASE NewBootstrapToken(op)
    BY <2>2, Became DEF NewBootstrapToken, Busy, At
  <2>3. CASE PersistBootstrapToken(op)
    BY <2>3, Became DEF PersistBootstrapToken, GoTo, Busy, At
  <2> QED
    BY <1>4, <2>1, <2>2, <2>3
<1>5. CASE GetClusterCA(op)
  BY <1>5, Became, Retried DEF GetClusterCA, Busy, At
<1>6. CASE ApplyBootstrapTokenSecret(op)
  <2>1. StageAfter(0) # "idle"
    BY DEF StageAfter
  <2> QED
    BY <1>6, <2>1, Became DEF ApplyBootstrapTokenSecret, Busy, At
<1>7. CASE Apply(op)
  <2>1. CASE work[op].i = Len(Table)
    <3>1. present \union removed \subseteq present' \union removed'
      BY <1>7, NextPresent DEF Next
    <3>2. work[op].i \in present'
      BY <1>7 DEF Apply
    <3>3. \A j \in Positions : j < Len(Table) \/ j = Len(Table)
      BY TableAssumption DEF Positions
    <3> QED
      BY <2>1, <3>1, <3>2, <3>3 DEF AppliedBefore, Complete, Positions
  <2>2. CASE work[op].i # Len(Table)
    <3>1. Becomes(op, StageAfter(work[op].i), work[op].i + 1, work[op].token,
                  work[op].in)
      BY <1>7, <2>2 DEF Apply, Proceed
    <3>2. StageAfter(work[op].i) # "idle"
      BY DEF StageAfter
    <3> QED
      BY <3>1, <3>2, Became DEF Busy, At
  <2> QED
    BY <2>1, <2>2
<1>8. CASE ApplyIntoNowhere(op)
  BY <1>8, Retried DEF ApplyIntoNowhere, Busy
<1>9. ASSUME NEW pc, NEW secret, NEW next, next # "idle",
             GetKonnectivityTLS(op, pc, secret, next)
      PROVE  Busy(op)'
  BY <1>9, Became, Retried DEF GetKonnectivityTLS, Busy, At
<1>10. CASE GetAgentTLS(op) \/ GetKonnectivityCA(op)
  BY <1>9, <1>10 DEF GetAgentTLS, GetKonnectivityCA
<1> QED
  BY <1>1, <1>2, <1>3, <1>4, <1>5, <1>6, <1>7, <1>8, <1>10 DEF ReconcileStep

\* What the manager and the process do leaves work where there is some: a process
\* that is engaged after the step was engaged before it and kept its queue and its
\* worker, or the reconcile is in its queue.
LEMMA ProcessKeeps ==
    ASSUME TypeOK, NEW op \in Operators, ProcessStep(op),
           NEW o \in Operators, engaged'[o]
    PROVE  /\ source' = source /\ stored' = stored /\ tokens' = tokens
           /\ \/ queue'[o] # "none"
              \/ /\ marker' = marker /\ engaged[o] /\ work'[o] = work[o]
                 /\ queue'[o] = queue[o]
<1>0. source' = source /\ stored' = stored /\ tokens' = tokens
  BY DEF ProcessStep, CallFails, Engage, Disengage, Elapse, Resync, Observe, Crash,
     mgmtVars, clusterVars
<1>1. CASE CallFails(op)
  BY <1>0, <1>1, Retried DEF CallFails
<1>2. CASE Engage(op)
  <2>1. CASE o = op \/ (engaged[o] /\ ~ marker)
    BY <1>0, <1>2, <2>1 DEF Engage
  <2>2. CASE o # op /\ ~ (engaged[o] /\ ~ marker)
    <3>1. engaged[o] /\ marker
      BY <1>2, <2>2 DEF Engage, TypeOK
    <3> QED
      BY <1>0, <1>2, <2>2, <3>1 DEF Engage
  <2> QED
    BY <2>1, <2>2
<1>3. CASE Disengage(op)
  BY <1>0, <1>3 DEF Disengage, TypeOK
<1>4. CASE Elapse(op)
  BY <1>0, <1>4 DEF Elapse, TypeOK
<1>5. CASE Resync(op)
  BY <1>0, <1>5 DEF Resync, TypeOK
<1>6. CASE Observe(op)
  BY <1>0, <1>6 DEF Observe
<1>7. CASE Crash(op)
  <2>1. o # op /\ engaged[o]
    BY <1>7 DEF Crash, TypeOK
  <2>2. marker' = marker /\ queue'[o] = queue[o] /\ work'[o] = work[o]
    BY <1>7, <2>1, Became DEF Crash, Return, TypeOK
  <2> QED
    BY <1>0, <2>1, <2>2
<1> QED
  BY <1>1, <1>2, <1>3, <1>4, <1>5, <1>6, <1>7 DEF ProcessStep

\* The clusters change no process, and take nothing out of a queue; the stored
\* token goes, but no other takes its place.
LEMMA ClusterKeeps ==
    ASSUME TypeOK, ClusterStep, marker', source'["mcp"] # 0
    PROVE  /\ marker /\ source["mcp"] # 0 /\ engaged' = engaged /\ work' = work
           /\ tokens' = tokens /\ stored' \in {stored, 0}
           /\ \A o \in Operators : queue[o] # "none" => queue'[o] # "none"
<1>1. ASSUME NEW x \in Inputs, Renew(x)
      PROVE  /\ marker /\ source["mcp"] # 0 /\ engaged' = engaged /\ work' = work
             /\ tokens' = tokens /\ stored' = stored /\ queue' = queue
  BY <1>1 DEF Renew, clusterVars
<1>2. ASSUME NEW i \in Positions, Remove(i)
      PROVE  /\ marker /\ source["mcp"] # 0 /\ engaged' = engaged /\ work' = work
             /\ tokens' = tokens /\ stored' = stored
             /\ \A o \in Operators : queue[o] # "none" => queue'[o] # "none"
  BY <1>2, Enqueued DEF Remove, mgmtVars
<1>3. CASE LoseToken
  BY <1>3 DEF LoseToken, clusterVars
<1>4. CASE Delete \/ Unmark
  BY <1>4 DEF Delete, Unmark, NoContent, Inputs
<1> QED
  BY <1>1, <1>2, <1>3, <1>4 DEF ClusterStep

LEMMA InstallingNext ==
    TypeOK /\ SeenGone /\ AppliedBefore /\ Installing /\ [Next]_vars => Installing'
<1> SUFFICES ASSUME TypeOK, SeenGone, AppliedBefore, Installing, [Next]_vars,
                    NEW o \in Operators, marker', source'["mcp"] # 0, engaged'[o]
             PROVE  Busy(o)' \/ Complete'
  BY DEF Installing
<1>1. Complete => Complete'
  BY NextPresent DEF Complete
<1>2. ASSUME NEW op \in Operators, ReconcileStep(op)
      PROVE  Busy(o)' \/ Complete'
  <2>1. /\ marker /\ source["mcp"] # 0 /\ engaged[o]
        /\ o # op => work'[o] = work[o] /\ (queue[o] # "none" => queue'[o] # "none")
    BY <1>2, ReconcileOthers
  <2>2. CASE o # op
    BY <1>1, <2>1, <2>2 DEF Installing, Busy, At
  <2>3. CASE o = op
    BY <1>1, <1>2, <2>1, <2>3, ReconcileInstalls DEF Installing
  <2> QED
    BY <2>2, <2>3
<1>3. ASSUME NEW op \in Operators, ProcessStep(op)
      PROVE  Busy(o)' \/ Complete'
  BY <1>1, <1>3, ProcessKeeps DEF Installing, Busy, At
<1>4. CASE ClusterStep
  BY <1>1, <1>4, ClusterKeeps DEF Installing, Busy, At
<1>5. CASE UNCHANGED vars
  BY <1>1, <1>5 DEF vars, Installing, Busy, At
<1> QED
  BY <1>2, <1>3, <1>4, <1>5 DEF Next

LEMMA FromStartNext ==
    TypeOK /\ FromStart /\ [Next]_vars => FromStart'
<1> SUFFICES ASSUME TypeOK, FromStart, [Next]_vars, NEW o \in Operators,
                    work'[o].pc \in {"marker", "token", "persist", "ca"}
             PROVE  work'[o].i = 0
  BY DEF FromStart
<1>1. CASE work'[o] = work[o]
  BY <1>1 DEF FromStart
<1>2. ASSUME NEW op \in Operators, ReconcileStep(op), o = op
      PROVE  work'[o].i = 0
  <2>1. CASE ReconcileGone(op) \/ ReconcileUnknownCluster(op)
    BY <1>1, <2>1 DEF ReconcileGone, ReconcileUnknownCluster
  <2>2. CASE Reconcile(op)
    BY <1>2, <2>2, Became DEF Reconcile
  <2>3. CASE GetMarker(op) \/ GetBootstrapToken(op) \/ NewBootstrapToken(op)
             \/ PersistBootstrapToken(op)
    <3>1. work[op].i = 0
      BY <2>3 DEF GetMarker, GetBootstrapToken, NewBootstrapToken,
         PersistBootstrapToken, At, FromStart
    <3> QED
      BY <1>2, <2>3, <3>1, Became DEF GetMarker, GetBootstrapToken, NewBootstrapToken,
         PersistBootstrapToken, GoTo, Return
  <2>4. CASE GetClusterCA(op)
    BY <1>2, <2>4, Became, Retried DEF GetClusterCA
  <2>5. CASE ApplyBootstrapTokenSecret(op)
    BY <1>2, <2>5, Became DEF ApplyBootstrapTokenSecret, StageAfter
  <2>6. CASE Apply(op)
    BY <1>2, <2>6, Became DEF Apply, Proceed, Return, StageAfter
  <2>7. CASE ApplyIntoNowhere(op)
    BY <1>2, <2>7, Retried DEF ApplyIntoNowhere
  <2>8. CASE GetAgentTLS(op) \/ GetKonnectivityCA(op)
    BY <1>2, <2>8, Became, Retried DEF GetAgentTLS, GetKonnectivityCA, GetKonnectivityTLS
  <2> QED
    BY <1>2, <2>1, <2>2, <2>3, <2>4, <2>5, <2>6, <2>7, <2>8 DEF ReconcileStep
<1>3. ASSUME NEW op \in Operators, ReconcileStep(op), o # op
      PROVE  work'[o].i = 0
  BY <1>1, <1>3, ReconcileOthers
<1>4. ASSUME NEW op \in Operators, ProcessStep(op)
      PROVE  work'[o].i = 0
  <2>1. CASE CallFails(op)
    BY <1>1, <2>1, Retried DEF CallFails
  <2>2. CASE Crash(op)
    BY <1>1, <2>2, Became DEF Crash, Return
  <2>3. CASE Engage(op) \/ Disengage(op) \/ Elapse(op) \/ Resync(op) \/ Observe(op)
    BY <1>1, <2>3 DEF Engage, Disengage, Elapse, Resync, Observe
  <2> QED
    BY <1>4, <2>1, <2>2, <2>3 DEF ProcessStep
<1>5. CASE ClusterStep \/ UNCHANGED vars
  BY <1>1, <1>5 DEF ClusterStep, Renew, Remove, LoseToken, Delete, Unmark, vars
<1> QED
  BY <1>2, <1>3, <1>4, <1>5 DEF Next

\* The worker's own steps: it goes on to apply the token it reads or stores, or
\* returns with the reconcile in the queue.
LEMMA ReconcileHands ==
    ASSUME TypeOK, SeenGone, FromStart, NEW op \in Operators, ReconcileStep(op),
           marker, source["mcp"] # 0, HandsOut(op), stored' \notin tokens'
    PROVE  HandsOut(op)'
<1>0. engaged' = engaged
  BY ReconcileOthers
<1>1. CASE ReconcileGone(op) \/ ReconcileUnknownCluster(op)
  BY <1>0, <1>1 DEF ReconcileGone, ReconcileUnknownCluster, SeenGone, HandsOut
<1>2. CASE Reconcile(op)
  BY <1>2, Became DEF Reconcile, HandsOut, Hands
<1>3. CASE GetMarker(op)
  BY <1>3, Became DEF GetMarker, GoTo, HandsOut, Hands
<1>4. CASE GetBootstrapToken(op)
  <2>1. work[op].i = 0
    BY <1>4 DEF GetBootstrapToken, At, FromStart
  <2> QED
    BY <1>4, <2>1, Became DEF GetBootstrapToken, mgmtVars, HandsOut, Hands
<1>5. CASE NewBootstrapToken(op)
  BY <1>5, Became DEF NewBootstrapToken, HandsOut, Hands
<1>6. CASE PersistBootstrapToken(op)
  <2>1. work[op].i = 0
    BY <1>6 DEF PersistBootstrapToken, At, FromStart
  <2> QED
    BY <1>6, <2>1, Became DEF PersistBootstrapToken, GoTo, HandsOut, Hands
<1>7. CASE GetClusterCA(op)
  BY <1>0, <1>7, Became, Retried DEF GetClusterCA, At, mgmtVars, HandsOut, Hands
<1>8. CASE ApplyBootstrapTokenSecret(op)
  BY <1>0, <1>8, Became DEF ApplyBootstrapTokenSecret, At, mgmtVars, HandsOut, Hands
<1>9. CASE Apply(op)
  BY <1>0, <1>9, Enqueued DEF Apply, At, HandsOut, Hands
<1>10. CASE ApplyIntoNowhere(op)
  BY <1>10, Retried DEF ApplyIntoNowhere, HandsOut
<1>11. CASE GetAgentTLS(op) \/ GetKonnectivityCA(op)
  BY <1>0, <1>11, Retried
     DEF GetAgentTLS, GetKonnectivityCA, GetKonnectivityTLS, At, HandsOut, Hands
<1> QED
  BY <1>1, <1>2, <1>3, <1>4, <1>5, <1>6, <1>7, <1>8, <1>9, <1>10, <1>11
     DEF ReconcileStep

\* The stored token changes only when the worker that hands it out stores it.
LEMMA StoredBy ==
    ASSUME TypeOK, FromStart, NEW op \in Operators, ReconcileStep(op),
           source["mcp"] # 0, stored' # stored
    PROVE  HandsOut(op)'
<1>1. PersistBootstrapToken(op)
  BY DEF ReconcileStep, ReconcileGone, ReconcileUnknownCluster, Reconcile,
     GetMarker, GetBootstrapToken, NewBootstrapToken,
     GetClusterCA, ApplyBootstrapTokenSecret, Apply, ApplyIntoNowhere,
     GetAgentTLS, GetKonnectivityCA, GetKonnectivityTLS, mgmtVars
<1>2. work[op].i = 0
  BY <1>1 DEF PersistBootstrapToken, At, FromStart
<1> QED
  BY <1>1, <1>2, Became DEF PersistBootstrapToken, GoTo, HandsOut, Hands

LEMMA TokenComesNext ==
    TypeOK /\ SeenGone /\ FromStart /\ TokenComes /\ [Next]_vars => TokenComes'
<1> SUFFICES ASSUME TypeOK, SeenGone, FromStart, TokenComes, [Next]_vars,
                    marker', source'["mcp"] # 0, stored' \notin tokens' \union {0}
             PROVE  \E o \in Operators : HandsOut(o)'
  BY DEF TokenComes
<1>1. ASSUME NEW op \in Operators, ReconcileStep(op)
      PROVE  \E o \in Operators : HandsOut(o)'
  <2>1. marker /\ source["mcp"] # 0 /\ tokens \subseteq tokens'
    BY <1>1, ReconcileOthers
  <2>2. CASE stored' # stored
    BY <1>1, <2>1, <2>2, StoredBy
  <2>3. CASE stored' = stored
    <3>1. PICK o \in Operators : HandsOut(o)
      BY <2>1, <2>3 DEF TokenComes
    <3>2. CASE o = op
      BY <1>1, <2>1, <3>1, <3>2, ReconcileHands
    <3>3. CASE o # op
      BY <1>1, <2>3, <3>1, <3>3, ReconcileOthers DEF HandsOut, Hands
    <3> QED
      BY <3>2, <3>3
  <2> QED
    BY <2>2, <2>3
<1>2. ASSUME NEW op \in Operators, ProcessStep(op)
      PROVE  \E o \in Operators : HandsOut(o)'
  <2>1. CASE \E o \in Operators : ~ engaged'[o] \/ queue'[o] # "none"
    BY <2>1 DEF HandsOut
  <2>2. CASE \A o \in Operators : engaged'[o] /\ queue'[o] = "none"
    <3>1. /\ source' = source /\ stored' = stored /\ tokens' = tokens
          /\ \A o \in Operators :
                marker' = marker /\ engaged[o] /\ work'[o] = work[o] /\ queue'[o] = queue[o]
      BY <1>2, <2>2, ProcessKeeps
    <3>2. PICK o \in Operators : HandsOut(o)
      BY <1>2, <3>1 DEF TokenComes
    <3> QED
      BY <2>2, <3>1, <3>2 DEF HandsOut, Hands
  <2> QED
    BY <2>1, <2>2
<1>3. CASE ClusterStep
  <2>1. /\ marker /\ source["mcp"] # 0 /\ engaged' = engaged /\ work' = work
        /\ tokens' = tokens /\ stored' = stored
        /\ \A o \in Operators : queue[o] # "none" => queue'[o] # "none"
    BY <1>3, ClusterKeeps
  <2>2. PICK o \in Operators : HandsOut(o)
    BY <2>1 DEF TokenComes
  <2> QED
    BY <2>1, <2>2 DEF HandsOut, Hands
<1>4. CASE UNCHANGED vars
  <2>1. PICK o \in Operators : HandsOut(o)
    BY <1>4 DEF TokenComes, vars
  <2> QED
    BY <1>4, <2>1 DEF HandsOut, Hands, vars
<1> QED
  BY <1>1, <1>2, <1>3, <1>4 DEF Next

\* Whatever the tables and the processes, the calls that fail, the restarts, the
\* objects and tokens that somebody deletes and the clusters that the provider
\* lets go of: a process that rests has everything installed that an event would
\* tell of, and when all rest, workers can join with the stored token
\* (addon_controller.go:51, addon.go:111).
THEOREM RestCorrect == Spec => []RestIsInstalled
<1> DEFINE Inv == /\ TypeOK /\ SeenGone /\ DeletedIsPending
                  /\ AppliedBefore /\ Installing /\ FromStart /\ TokenComes
<1>1. Init => Inv
  <2> SUFFICES ASSUME Init
               PROVE  /\ SeenGone /\ DeletedIsPending /\ AppliedBefore
                      /\ Installing /\ FromStart /\ TokenComes
    BY TypeInit
  <2>1. SeenGone /\ DeletedIsPending
    BY DEF Init, SeenGone, DeletedIsPending
  <2>2. AppliedBefore /\ FromStart
    BY TableAssumption DEF Init, Idle, AppliedBefore, FromStart, Positions
  <2>3. Installing /\ TokenComes
    BY DEF Init, Installing, TokenComes
  <2> QED
    BY <2>1, <2>2, <2>3
<1>2. Inv /\ [Next]_vars => Inv'
  BY TypeNext, SeenNext, PendsNext, AppliedNext, InstallingNext, FromStartNext,
     TokenComesNext
<1>3. Inv => RestIsInstalled
  <2> SUFFICES ASSUME Inv, marker, source["mcp"] # 0
               PROVE  /\ \A op \in Operators : Rests(op) =>
                            \A i \in Positions :
                                i \in present \/ (i \in removed /\ ~ Watched(i))
                      /\ (\A op \in Operators : Rests(op)) => stored \in tokens \union {0}
    BY DEF RestIsInstalled
  <2>1. ASSUME NEW op \in Operators, Rests(op), NEW i \in Positions
        PROVE  i \in present \/ (i \in removed /\ ~ Watched(i))
    <3>1. Complete
      BY <2>1 DEF Rests, Installing, Busy
    <3>2. i \in removed => ~ Watched(i)
      BY <2>1 DEF Rests, DeletedIsPending
    <3> QED
      BY <3>1, <3>2 DEF Complete
  <2>2. ASSUME \A op \in Operators : Rests(op)
        PROVE  stored \in tokens \union {0}
    <3>1. \A op \in Operators : ~ HandsOut(op)
      BY <2>2 DEF Rests, HandsOut, Hands, At
    <3> QED
      BY <3>1 DEF TokenComes
  <2> QED
    BY <2>1, <2>2
<1> HIDE DEF Inv
<1> QED
  BY <1>1, <1>2, <1>3, PTL DEF Spec
=============================================================================
