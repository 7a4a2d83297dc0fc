---------------------- MODULE ManagedAddonsSoleProofs -----------------------
(* What the addons controller promises when one process runs it, through   *)
(* crashes, failing calls and deletions, for every table and every number  *)
(* of versions, tokens and faults.                                         *)
EXTENDS ManagedAddonsProofs

OneProcess == \A o, p \in Operators : o = p
NoLoss == "lose" \notin FaultKinds

\* The worker's record after it turns to something.
LEMMA BecomesOwn ==
    ASSUME TypeOK, NEW op \in Operators, NEW pc, NEW i, NEW token, NEW in,
           Becomes(op, pc, i, token, in)
    PROVE  /\ work'[op].pc = pc /\ work'[op].i = i
           /\ work'[op].token = token /\ work'[op].in = in
BY DEF Becomes, TypeOK

-----------------------------------------------------------------------------
(* Bootstrap tokens. *)

Holds == {"ca", "apply", "agent", "konn"}

\* A worker holds the stored token, or it made one because there is none.
HoldsStored ==
    source["mcp"] # 0 =>
        \A op \in Operators :
            /\ work[op].pc \in Holds => work[op].token = stored
            /\ work[op].pc = "persist" => stored = 0

TokenInv == TypeOK /\ TokenIsStored /\ HoldsStored

\* A step that neither turns the worker to a token nor touches tokens.
LEMMA TokenKept ==
    ASSUME TokenInv, UNCHANGED <<stored, tokens>>,
           source'["mcp"] # 0 => source["mcp"] # 0,
           \A op \in Operators :
              \/ work'[op].pc \notin Holds \union {"persist"}
              \/ work'[op].pc \in Holds /\ work[op].pc \in Holds
                 /\ work'[op].token = work[op].token
              \/ work'[op] = work[op]
    PROVE  TokenIsStored' /\ HoldsStored'
<1>1. TokenIsStored'
  BY DEF TokenInv, TokenIsStored
<1>2. HoldsStored'
  BY DEF TokenInv, HoldsStored, Holds
<1> QED
  BY <1>1, <1>2

LEMMA TokenReturn ==
    ASSUME TokenInv, OneProcess, NEW op \in Operators, Return(op) \/ ReturnRetry(op),
           UNCHANGED <<stored, tokens, source>>
    PROVE  TokenIsStored' /\ HoldsStored'
<1>1. Becomes(op, "idle", 0, 0, NoContent)
  BY DEF Return, ReturnRetry
<1>2. \A o \in Operators : work'[o].pc = "idle"
  BY <1>1, BecomesOwn DEF OneProcess, TokenInv
<1> QED
  BY <1>2, TokenKept DEF Holds

\* The worker goes on with the token it has.
LEMMA TokenGoesOn ==
    ASSUME TokenInv, OneProcess, NEW op \in Operators, NEW pc \in Holds, NEW i, NEW in,
           Becomes(op, pc, i, work[op].token, in), work[op].pc \in Holds,
           UNCHANGED <<stored, tokens, source>>
    PROVE  TokenIsStored' /\ HoldsStored'
<1>1. \A o \in Operators :
          /\ work'[o].pc \in Holds /\ work[o].pc \in Holds
          /\ work'[o].token = work[o].token
  BY BecomesOwn DEF OneProcess, TokenInv
<1> QED
  BY <1>1, TokenKept

\* With one worker, its state decides.
LEMMA OneHolds ==
    ASSUME OneProcess, NEW op \in Operators,
           source'["mcp"] # 0 /\ work'[op].pc \in Holds => work'[op].token = stored',
           source'["mcp"] # 0 /\ work'[op].pc = "persist" => stored' = 0
    PROVE  HoldsStored'
<1> SUFFICES ASSUME source'["mcp"] # 0, NEW o \in Operators
             PROVE  /\ work'[o].pc \in Holds => work'[o].token = stored'
                    /\ work'[o].pc = "persist" => stored' = 0
  BY DEF HoldsStored, Holds
<1>1. o = op
  BY DEF OneProcess
<1> QED
  BY <1>1

LEMMA TokenReconcile ==
    ASSUME TokenInv, OneProcess, NEW op \in Operators, ReconcileStep(op)
    PROVE  TokenIsStored' /\ HoldsStored'
<1>t. TypeOK /\ \A o \in Operators : o = op
  BY DEF TokenInv, OneProcess
<1>h. Holds = {"ca", "apply", "agent", "konn"}
  BY DEF Holds
<1>1. CASE ReconcileGone(op) \/ ReconcileUnknownCluster(op)
  BY <1>1, TokenKept
     DEF ReconcileGone, ReconcileUnknownCluster, mgmtVars, clusterVars
<1>2. CASE Reconcile(op)
  <2>1. work'[op].pc = "marker"
    BY <1>2, <1>t, BecomesOwn DEF Reconcile
  <2> QED
    BY <1>2, <1>t, <1>h, <2>1, TokenKept DEF Reconcile, mgmtVars, clusterVars
<1>3. CASE GetMarker(op)
  <2>1. UNCHANGED <<stored, tokens, source>>
    BY <1>3 DEF GetMarker, mgmtVars, clusterVars
  <2>2. CASE GoTo(op, "token")
    <3>1. work'[op].pc = "token"
      BY <2>2, <1>t, BecomesOwn DEF GoTo
    <3> QED
      BY <1>t, <1>h, <2>1, <3>1, TokenKept
  <2> QED
    BY <1>3, <2>1, <2>2, TokenReturn DEF GetMarker
<1>4. CASE GetBootstrapToken(op)
  <2>1. work'[op].pc = "ca" /\ work'[op].token = stored
    BY <1>4, <1>t, BecomesOwn DEF GetBootstrapToken
  <2>2. UNCHANGED <<stored, tokens, source>>
    BY <1>4 DEF GetBootstrapToken, mgmtVars, clusterVars
  <2>3. TokenIsStored'
    BY <2>2 DEF TokenInv, TokenIsStored
  <2> QED
    BY <1>h, <2>1, <2>2, <2>3, OneHolds
<1>5. CASE NewBootstrapToken(op)
  <2>1. work'[op].pc = "persist" /\ stored = 0
    BY <1>5, <1>t, BecomesOwn DEF NewBootstrapToken
  <2>2. UNCHANGED <<stored, tokens, source>>
    BY <1>5 DEF NewBootstrapToken, clusterVars
  <2>3. TokenIsStored'
    BY <2>2 DEF TokenInv, TokenIsStored
  <2> QED
    BY <1>h, <2>1, <2>2, <2>3, OneHolds
<1>6. CASE PersistBootstrapToken(op)
  <2>1. /\ work'[op].pc = "ca" /\ work'[op].token = work[op].token
        /\ source' = source /\ tokens' = tokens
        /\ source["mcp"] # 0 => stored' = work[op].token
    BY <1>6, <1>t, BecomesOwn DEF PersistBootstrapToken, GoTo, clusterVars
  <2>2. source["mcp"] # 0 => tokens = {}
    <3>1. source["mcp"] # 0 => stored = 0 /\ tokens \subseteq {0}
      BY <1>6 DEF PersistBootstrapToken, At, TokenInv, HoldsStored, TokenIsStored
    <3>2. minted \in Nat /\ 0 \notin tokens
      BY <1>t, BoundAssumption DEF TypeOK
    <3> QED
      BY <3>1, <3>2
  <2>3. TokenIsStored'
    BY <2>1, <2>2 DEF TokenIsStored
  <2> QED
    BY <1>h, <2>1, <2>3, OneHolds
<1>7. CASE GetClusterCA(op)
  <2>1. UNCHANGED <<stored, tokens, source>> /\ work[op].pc \in Holds
    BY <1>7, <1>h DEF GetClusterCA, At, mgmtVars, clusterVars
  <2> QED
    BY <1>7, <1>h, <2>1, TokenGoesOn, TokenReturn DEF GetClusterCA
<1>8. CASE ApplyBootstrapTokenSecret(op)
  <2>1. /\ source' = source /\ stored' = stored
        /\ tokens' = tokens \union {work[op].token}
        /\ work[op].pc \in Holds
        /\ Becomes(op, StageAfter(0), 1, work[op].token, work[op].in)
        /\ StageAfter(0) \in Holds
    BY <1>8, <1>h DEF ApplyBootstrapTokenSecret, At, StageAfter, mgmtVars
  <2>2. work'[op].token = work[op].token /\ work'[op].pc \in Holds
    BY <1>t, <2>1, BecomesOwn
  <2>3. source["mcp"] # 0 => work[op].token = stored
    BY <2>1 DEF TokenInv, HoldsStored
  <2>4. TokenIsStored'
    BY <2>1, <2>3 DEF TokenInv, TokenIsStored
  <2> QED
    BY <1>h, <2>1, <2>2, <2>3, <2>4, OneHolds
<1>9. CASE Apply(op)
  <2>1. UNCHANGED <<stored, tokens, source>> /\ work[op].pc \in Holds
    BY <1>9, <1>h DEF Apply, At, mgmtVars
  <2>2. \A i : StageAfter(i) \in Holds
    BY <1>h DEF StageAfter
  <2> QED
    BY <1>9, <2>1, <2>2, TokenGoesOn, TokenReturn DEF Apply, Proceed
<1>10. CASE ApplyIntoNowhere(op)
  BY <1>10, TokenReturn DEF ApplyIntoNowhere, mgmtVars, clusterVars
<1>11. ASSUME NEW pc \in Holds, NEW secret, NEW next \in Holds,
              GetKonnectivityTLS(op, pc, secret, next)
       PROVE  TokenIsStored' /\ HoldsStored'
  <2>1. UNCHANGED <<stored, tokens, source>> /\ work[op].pc \in Holds
    BY <1>11 DEF GetKonnectivityTLS, At, mgmtVars, clusterVars
  <2> QED
    BY <1>11, <2>1, TokenGoesOn, TokenReturn DEF GetKonnectivityTLS
<1>12. CASE GetAgentTLS(op) \/ GetKonnectivityCA(op)
  BY <1>11, <1>12, <1>h DEF GetAgentTLS, GetKonnectivityCA
<1> QED
  BY <1>1, <1>2, <1>3, <1>4, <1>5, <1>6, <1>7, <1>8, <1>9, <1>10, <1>12
     DEF ReconcileStep

LEMMA TokenNext ==
    OneProcess /\ NoLoss /\ TokenInv /\ [Next]_vars => TokenInv'
<1> SUFFICES ASSUME OneProcess, NoLoss, TokenInv, [Next]_vars
             PROVE  TokenIsStored' /\ HoldsStored'
  BY TypeNext DEF TokenInv
<1>1. ASSUME NEW op \in Operators, ReconcileStep(op)
      PROVE  TokenIsStored' /\ HoldsStored'
  BY <1>1, TokenReconcile
<1>2. ASSUME NEW op \in Operators, ProcessStep(op)
      PROVE  TokenIsStored' /\ HoldsStored'
  <2>1. UNCHANGED <<stored, tokens, source>>
    BY <1>2 DEF ProcessStep, CallFails, Engage, Disengage, Elapse, Resync, Observe,
       Crash, mgmtVars, clusterVars
  <2>2. CASE CallFails(op) \/ Crash(op)
    BY <2>1, <2>2, TokenReturn DEF CallFails, Crash
  <2>3. CASE work' = work
    BY <2>1, <2>3, TokenKept
  <2> QED
    BY <1>2, <2>2, <2>3
       DEF ProcessStep, Engage, Disengage, Elapse, Resync, Observe
<1>3. ASSUME NEW x \in Inputs, Renew(x) PROVE TokenIsStored' /\ HoldsStored'
  BY <1>3, TokenKept DEF Renew, clusterVars
<1>4. CASE Delete
  BY <1>4 DEF Delete, NoContent, Inputs, TokenIsStored, HoldsStored
<1>5. CASE LoseToken
  BY <1>5 DEF LoseToken, Fault, NoLoss
<1>6. CASE Unmark \/ (\E i \in Positions : Remove(i)) \/ UNCHANGED vars
  BY <1>6, TokenKept DEF Unmark, Remove, mgmtVars, clusterVars, vars
<1> QED
  BY <1>1, <1>2, <1>3, <1>4, <1>5, <1>6 DEF Next, ClusterStep

\* With one process, and a stored token that nobody deletes, every bootstrap
\* token of the managed cluster is the stored one, wherever the process dies
\* between making a token, storing it and handing it out.
THEOREM TokenCorrect ==
    ASSUME OneProcess, NoLoss PROVE Spec => []TokenIsStored
<1>1. Init => TokenInv
  <2> SUFFICES ASSUME Init PROVE TokenIsStored /\ HoldsStored
    BY TypeInit DEF TokenInv
  <2> QED
    BY DEF Init, Idle, TokenIsStored, HoldsStored, Holds
<1>2. TokenInv /\ [Next]_vars => TokenInv'
  BY TokenNext
<1>3. TokenInv => TokenIsStored
  BY DEF TokenInv
<1> QED
  BY <1>1, <1>2, <1>3, PTL DEF Spec

-----------------------------------------------------------------------------
(* Renderings. *)

\* The inputs that a reconcile has read when it gets there.
ReadAt(pc, i) ==
    {x \in Inputs :
        \/ x = "mcp" /\ pc # "idle"
        \/ x = "ca" /\ pc \in {"apply", "agent", "konn"}
        \/ x = "agent" /\ pc = "konn"
        \/ x \in {"agent", "konn"} /\ pc = "apply" /\ i > LastJoin}

\* Nothing is ahead of the sources, as long as there are any, nor ahead of the
\* cache; a version that a reconcile has read is as new as any that is applied.
GoneAll == source["mcp"] = 0 => \A x \in Inputs : source[x] = 0
Unread ==
    \A i \in Positions : \A x \in Inputs \ Table[i].reads : content[i][x] = 0
CacheBehind ==
    \A op \in Operators :
        /\ source["mcp"] # 0 => seen[op] <= source["mcp"]
        /\ seen[op] # 0 => /\ \A i \in Positions : content[i]["mcp"] <= seen[op]
                           /\ work[op].in["mcp"] <= seen[op]
SourcesAhead ==
    source["mcp"] # 0 =>
        \A x \in Inputs :
            /\ \A i \in Positions : content[i][x] <= source[x]
            /\ \A op \in Operators : work[op].in[x] <= source[x]
ReadsAhead ==
    \A op \in Operators : \A i \in Positions :
        \A x \in ReadAt(work[op].pc, work[op].i) : content[i][x] <= work[op].in[x]

\* Before it reads the CA, a worker has not begun with the table.
Beginning == {"marker", "token", "persist", "ca"}
NotBegun == \A op \in Operators : work[op].pc \in Beginning => work[op].i = 0

Ahead ==
    /\ SeenGone /\ GoneAll /\ Unread /\ CacheBehind /\ SourcesAhead /\ ReadsAhead
    /\ NotBegun
ForwardInv == TypeOK /\ Ahead

\* Versions are numbers.
LEMMA Versions ==
    ASSUME TypeOK
    PROVE  /\ "mcp" \in Inputs /\ MaxVersion \in Nat /\ LastJoin \in Nat
           /\ \A x \in Inputs : source[x] \in Nat
           /\ \A i \in Positions : \A x \in Inputs : content[i][x] \in Nat
           /\ \A op \in Operators : /\ seen[op] \in Nat /\ work[op].i \in Nat
                                     /\ \A x \in Inputs : work[op].in[x] \in Nat
<1>1. /\ "mcp" \in Inputs /\ MaxVersion \in Nat /\ LastJoin \in Nat
      /\ 0..MaxVersion \subseteq Nat /\ 0..Len(Table) \subseteq Nat
    BY BoundAssumption, TableAssumption DEF Inputs
<1>2. \A x \in Inputs : source[x] \in Nat
    BY <1>1 DEF TypeOK
<1>3. \A i \in Positions : \A x \in Inputs : content[i][x] \in Nat
    BY <1>1 DEF TypeOK
<1>4. ASSUME NEW op \in Operators
      PROVE  /\ seen[op] \in Nat /\ work[op].i \in Nat
             /\ \A x \in Inputs : work[op].in[x] \in Nat
    BY <1>1 DEF TypeOK
<1> QED
    BY <1>1, <1>2, <1>3, <1>4

\* A step of the worker that applies nothing.
LEMMA AheadBecomes ==
    ASSUME ForwardInv, OneProcess, NEW op \in Operators, NEW pc, NEW i, NEW token,
           NEW in \in [Inputs -> 0..MaxVersion], Becomes(op, pc, i, token, in),
           UNCHANGED <<content, source, seen>>,
           source["mcp"] # 0 => \A x \in Inputs : in[x] <= source[x],
           seen[op] # 0 => in["mcp"] <= seen[op], pc \in Beginning => i = 0,
           \A j \in Positions : \A x \in ReadAt(pc, i) : content[j][x] <= in[x]
    PROVE  Ahead'
<1>1. \A o \in Operators : /\ o = op /\ work'[o].pc = pc /\ work'[o].i = i
                           /\ work'[o].in = in
  BY BecomesOwn DEF ForwardInv, OneProcess
<1>2. SeenGone' /\ GoneAll' /\ Unread'
  BY DEF ForwardInv, Ahead, SeenGone, GoneAll, Unread
<1>3. CacheBehind'
  BY <1>1 DEF ForwardInv, Ahead, CacheBehind
<1>4. SourcesAhead'
  BY <1>1 DEF ForwardInv, Ahead, SourcesAhead
<1>5. ReadsAhead'
  BY <1>1 DEF ReadsAhead
<1>6. NotBegun'
  BY <1>1 DEF NotBegun, Beginning
<1> QED
  BY <1>2, <1>3, <1>4, <1>5, <1>6 DEF Ahead

LEMMA AheadReturn ==
    ASSUME ForwardInv, OneProcess, NEW op \in Operators, Return(op) \/ ReturnRetry(op),
           UNCHANGED <<content, source, seen>>
    PROVE  Ahead'
<1>1. Becomes(op, "idle", 0, 0, NoContent)
  BY DEF Return, ReturnRetry
<1>2. NoContent \in [Inputs -> 0..MaxVersion] /\ \A x \in Inputs : NoContent[x] = 0
  BY BoundAssumption DEF NoContent
<1>3. ReadAt("idle", 0) = {}
  BY DEF ReadAt
<1>4. /\ source["mcp"] # 0 => \A x \in Inputs : NoContent[x] <= source[x]
      /\ seen[op] # 0 => NoContent["mcp"] <= seen[op]
  BY <1>2, Versions DEF ForwardInv
<1> QED
  BY <1>1, <1>2, <1>3, <1>4, AheadBecomes

\* The worker goes on with what it has read.
LEMMA AheadGoesOn ==
    ASSUME ForwardInv, OneProcess, NEW op \in Operators, NEW pc, NEW i, NEW token,
           Becomes(op, pc, i, token, work[op].in), UNCHANGED <<content, source, seen>>,
           ReadAt(pc, i) \subseteq ReadAt(work[op].pc, work[op].i),
           pc \in Beginning => i = 0
    PROVE  Ahead'
<1>1. work[op].in \in [Inputs -> 0..MaxVersion]
  BY DEF ForwardInv, TypeOK
<1>2. /\ source["mcp"] # 0 => \A x \in Inputs : work[op].in[x] <= source[x]
      /\ seen[op] # 0 => work[op].in["mcp"] <= seen[op]
  BY DEF ForwardInv, Ahead, SourcesAhead, CacheBehind
<1>3. \A j \in Positions : \A x \in ReadAt(pc, i) : content[j][x] <= work[op].in[x]
  BY DEF ForwardInv, Ahead, ReadsAhead
<1> QED
  BY <1>1, <1>2, <1>3, AheadBecomes

\* The worker reads input "y", which there is, and goes on.
LEMMA AheadReads ==
    ASSUME ForwardInv, OneProcess, NEW op \in Operators, NEW y \in Inputs \ {"mcp"},
           NEW pc, pc \notin Beginning, source[y] # 0,
           Becomes(op, pc, work[op].i, work[op].token,
                   [work[op].in EXCEPT ![y] = source[y]]),
           UNCHANGED <<content, source, seen>>,
           ReadAt(pc, work[op].i) \subseteq ReadAt(work[op].pc, work[op].i) \union {y}
    PROVE  Ahead'
<1> DEFINE in == [work[op].in EXCEPT ![y] = source[y]]
<1>1. work[op].in \in [Inputs -> 0..MaxVersion] /\ source \in [Inputs -> 0..MaxVersion]
  BY DEF ForwardInv, TypeOK
<1>2. /\ in \in [Inputs -> 0..MaxVersion] /\ in[y] = source[y]
      /\ \A x \in Inputs \ {y} : in[x] = work[op].in[x]
  BY <1>1
<1>3. source["mcp"] # 0
  BY DEF ForwardInv, Ahead, GoneAll
<1>v. source[y] \in Nat /\ "mcp" \in Inputs
  BY Versions DEF ForwardInv
<1> HIDE DEF in
<1>4. \A x \in Inputs : in[x] <= source[x]
  BY <1>2, <1>3, <1>v DEF ForwardInv, Ahead, SourcesAhead
<1>5. seen[op] # 0 => in["mcp"] <= seen[op]
  BY <1>2, <1>v DEF ForwardInv, Ahead, CacheBehind
<1>6. \A j \in Positions : \A x \in ReadAt(pc, work[op].i) : content[j][x] <= in[x]
  <2> SUFFICES ASSUME NEW j \in Positions, NEW x \in ReadAt(pc, work[op].i)
               PROVE  content[j][x] <= in[x]
    OBVIOUS
  <2>1. x \in Inputs
    BY DEF ReadAt
  <2>2. CASE x = y
    BY <1>2, <1>3, <2>1, <2>2 DEF ForwardInv, Ahead, SourcesAhead
  <2>3. CASE x # y
    BY <1>2, <2>1, <2>3 DEF ForwardInv, Ahead, ReadsAhead
  <2> QED
    BY <2>2, <2>3
<1>7. Becomes(op, pc, work[op].i, work[op].token, in)
  BY DEF in
<1> QED
  BY <1>2, <1>4, <1>5, <1>6, <1>7, AheadBecomes

\* A step that leaves the workers and what is applied alone.
LEMMA AheadKept ==
    ASSUME ForwardInv, UNCHANGED <<content, source, seen, work>>
    PROVE  Ahead'
BY DEF ForwardInv, Ahead, SeenGone, GoneAll, Unread, CacheBehind, SourcesAhead,
       ReadsAhead, NotBegun

LEMMA AheadApply ==
    ASSUME ForwardInv, OneProcess, NEW op \in Operators, Apply(op)
    PROVE  /\ Ahead'
           /\ \A i \in Positions : \A x \in Inputs : content[i][x] <= content'[i][x]
<1> DEFINE n == work[op].i
           in == work[op].in
<1>t. TypeOK /\ TypeOK'
  BY TypeNext DEF ForwardInv, Next, ReconcileStep
<1>1. /\ n \in Positions /\ n \in Nat /\ n >= 1 /\ work[op].pc = "apply"
      /\ content' = [content EXCEPT ![n] = Rendered(n, in)]
      /\ source' = source /\ seen' = seen
      /\ in \in [Inputs -> 0..MaxVersion]
  BY <1>t, TableAssumption DEF Apply, At, TypeOK, Positions, mgmtVars
<1>2. \A x \in Inputs :
        /\ x \in Table[n].reads => content'[n][x] = in[x]
        /\ x \notin Table[n].reads => content'[n][x] = 0
  BY <1>1, <1>t DEF Rendered, TypeOK
<1>3. \A i \in Positions \ {n} : content'[i] = content[i]
  BY <1>1, <1>t DEF TypeOK
<1>v. /\ "mcp" \in Inputs /\ LastJoin \in Nat
      /\ \A x \in Inputs : source[x] \in Nat /\ in[x] \in Nat
      /\ seen[op] \in Nat
  BY <1>t, Versions
<1>4. /\ source["mcp"] # 0 => \A x \in Inputs : in[x] <= source[x]
      /\ seen[op] # 0 => in["mcp"] <= seen[op]
  BY DEF ForwardInv, Ahead, SourcesAhead, CacheBehind
<1>5. \A i \in Positions : \A x \in Inputs : content[i][x] <= content'[i][x]
  <2> SUFFICES ASSUME NEW i \in Positions, NEW x \in Inputs
               PROVE  content[i][x] <= content'[i][x]
    OBVIOUS
  <2>1. content[i][x] \in Nat
    BY <1>t, Versions
  <2>2. CASE i # n
    BY <1>3, <2>1, <2>2
  <2>3. CASE i = n /\ x \notin Table[n].reads
    <3>1. content[i][x] = 0
      BY <2>3 DEF ForwardInv, Ahead, Unread
    <3> QED
      BY <1>2, <2>3, <3>1
  <2>4. CASE i = n /\ x \in Table[n].reads
    <3>1. x \in {"mcp", "ca"} \/ n > LastJoin
      BY <1>1, <1>v, <2>4, TableAssumption
    <3>2. x \in ReadAt(work[op].pc, n)
      BY <1>1, <3>1 DEF ReadAt, Inputs
    <3>3. content[i][x] <= in[x]
      BY <3>2 DEF ForwardInv, Ahead, ReadsAhead
    <3> QED
      BY <1>2, <2>4, <3>3
  <2> QED
    BY <2>2, <2>3, <2>4
<1>6. \/ Becomes(op, "idle", 0, 0, NoContent)
      \/ Becomes(op, StageAfter(n), n + 1, work[op].token, in)
  BY DEF Apply, Proceed, Return
<1>7. /\ \A o \in Operators : o = op
      /\ \/ work'[op].pc = "idle" /\ work'[op].in = NoContent
         \/ work'[op].pc = StageAfter(n) /\ work'[op].i = n + 1 /\ work'[op].in = in
  BY <1>t, <1>6, BecomesOwn DEF OneProcess
<1>8. \A x \in Inputs : NoContent[x] = 0
  BY DEF NoContent
<1>9. \A x \in Inputs : work'[op].in[x] <= in[x] /\ work'[op].in[x] \in Nat
  BY <1>7, <1>8, <1>v
<1>10. SeenGone' /\ GoneAll'
  BY <1>1 DEF ForwardInv, Ahead, SeenGone, GoneAll
<1>11. Unread'
  BY <1>2, <1>3 DEF ForwardInv, Ahead, Unread
<1>12. \A i \in Positions : \A x \in Inputs :
          content'[i][x] = content[i][x] \/ content'[i][x] = in[x] \/ content'[i][x] = 0
  BY <1>2, <1>3
<1>13. CacheBehind'
  <2>1. source["mcp"] # 0 => seen[op] <= source["mcp"]
    BY DEF ForwardInv, Ahead, CacheBehind
  <2>2. ASSUME seen[op] # 0, NEW i \in Positions PROVE content'[i]["mcp"] <= seen[op]
    <3>1. content[i]["mcp"] <= seen[op]
      BY <2>2 DEF ForwardInv, Ahead, CacheBehind
    <3> QED
      BY <1>4, <1>12, <1>v, <2>2, <3>1
  <2>3. seen[op] # 0 => work'[op].in["mcp"] <= seen[op]
    BY <1>4, <1>9, <1>v
  <2> QED
    BY <1>1, <1>7, <2>1, <2>2, <2>3 DEF CacheBehind
<1>14. SourcesAhead'
  <2> SUFFICES ASSUME source["mcp"] # 0, NEW x \in Inputs
               PROVE  /\ \A i \in Positions : content'[i][x] <= source[x]
                      /\ work'[op].in[x] <= source[x]
    BY <1>1, <1>7 DEF SourcesAhead
  <2>1. ASSUME NEW i \in Positions PROVE content'[i][x] <= source[x]
    <3>1. content[i][x] <= source[x]
      BY DEF ForwardInv, Ahead, SourcesAhead
    <3> QED
      BY <1>4, <1>12, <1>v, <3>1
  <2>2. work'[op].in[x] <= source[x]
    BY <1>4, <1>9, <1>v
  <2> QED
    BY <2>1, <2>2
<1>15. ReadsAhead'
  <2> SUFFICES ASSUME NEW i \in Positions,
                      NEW x \in ReadAt(work'[op].pc, work'[op].i)
               PROVE  content'[i][x] <= work'[op].in[x]
    BY <1>7 DEF ReadsAhead
  <2>1. /\ work'[op].pc = StageAfter(n) /\ work'[op].i = n + 1 /\ work'[op].in = in
        /\ x \in Inputs
    BY <1>7 DEF ReadAt
  <2>2. x \in ReadAt("apply", n)
    <3>1. CASE n = LastJoin
      BY <1>1, <1>v, <2>1, <3>1 DEF StageAfter, ReadAt
    <3>2. CASE n # LastJoin
      <4>1. work'[op].pc = "apply" /\ (n + 1 > LastJoin => n > LastJoin)
        BY <1>1, <1>v, <2>1, <3>2 DEF StageAfter
      <4> QED
        BY <2>1, <4>1 DEF ReadAt
    <3> QED
      BY <3>1, <3>2
  <2>3. content[i][x] <= in[x]
    BY <1>1, <2>2 DEF ForwardInv, Ahead, ReadsAhead
  <2> QED
    BY <1>12, <1>v, <2>1, <2>3
<1>16. NotBegun'
  <2>1. work'[op].pc \notin Beginning
    BY <1>7 DEF StageAfter, Beginning
  <2> QED
    BY <1>7, <2>1 DEF NotBegun
<1> QED
  BY <1>5, <1>10, <1>11, <1>13, <1>14, <1>15, <1>16 DEF Ahead

LEMMA AheadReconcile ==
    ASSUME ForwardInv, OneProcess, NEW op \in Operators, ReconcileStep(op)
    PROVE  Ahead'
<1>t. TypeOK
  BY DEF ForwardInv
<1>b. work[op].pc \in Beginning => work[op].i = 0
  BY DEF ForwardInv, Ahead, NotBegun
<1>1. CASE ReconcileGone(op) \/ ReconcileUnknownCluster(op)
  BY <1>1, AheadKept DEF ReconcileGone, ReconcileUnknownCluster, mgmtVars, clusterVars
<1>2. CASE Reconcile(op)
  <2> DEFINE in == [NoContent EXCEPT !["mcp"] = seen[op]]
  <2>1. /\ in \in [Inputs -> 0..MaxVersion] /\ in["mcp"] = seen[op]
        /\ \A x \in Inputs \ {"mcp"} : in[x] = 0
    BY <1>t, BoundAssumption DEF NoContent, TypeOK, Inputs
  <2>2. /\ Becomes(op, "marker", 0, 0, in) /\ seen[op] # 0
        /\ UNCHANGED <<content, source, seen>>
    BY <1>2 DEF Reconcile, mgmtVars, clusterVars
  <2> HIDE DEF in
  <2>3. source["mcp"] # 0 => \A x \in Inputs : in[x] <= source[x]
    BY <1>t, <2>1, Versions DEF ForwardInv, Ahead, CacheBehind
  <2>4. \A j \in Positions : \A x \in ReadAt("marker", 0) : content[j][x] <= in[x]
    BY <2>1, <2>2 DEF ForwardInv, Ahead, CacheBehind, ReadAt
  <2>5. in["mcp"] <= seen[op]
    BY <1>t, <2>1, Versions
  <2> QED
    BY <2>1, <2>2, <2>3, <2>4, <2>5, AheadBecomes
<1>3. CASE GetMarker(op)
  <2>1. UNCHANGED <<content, source, seen>> /\ work[op].pc = "marker"
    BY <1>3 DEF GetMarker, At, mgmtVars, clusterVars
  <2>2. CASE GoTo(op, "token")
    BY <1>b, <2>1, <2>2, AheadGoesOn DEF GoTo, ReadAt, Beginning
  <2> QED
    BY <1>3, <2>1, <2>2, AheadReturn DEF GetMarker
<1>4. CASE GetBootstrapToken(op)
  BY <1>4, <1>b, AheadGoesOn DEF Beginning, GetBootstrapToken, At, ReadAt, mgmtVars, clusterVars
<1>5. CASE NewBootstrapToken(op)
  BY <1>5, <1>b, AheadGoesOn DEF Beginning, NewBootstrapToken, At, ReadAt, clusterVars
<1>6. CASE PersistBootstrapToken(op)
  BY <1>6, <1>b, AheadGoesOn DEF Beginning, PersistBootstrapToken, GoTo, At, ReadAt, clusterVars
<1>7. CASE GetClusterCA(op)
  <2>1. UNCHANGED <<content, source, seen>> /\ work[op].pc = "ca"
    BY <1>7 DEF GetClusterCA, At, mgmtVars, clusterVars
  <2>2. CASE ReturnRetry(op)
    BY <2>1, <2>2, AheadReturn
  <2>3. CASE /\ source["ca"] # 0
             /\ Becomes(op, "apply", work[op].i, work[op].token,
                        [work[op].in EXCEPT !["ca"] = source["ca"]])
    <3>1. work[op].i = 0
      BY <1>b, <2>1 DEF Beginning
    <3>2. /\ ReadAt("apply", work[op].i) \subseteq ReadAt("ca", work[op].i) \union {"ca"}
          /\ "ca" \in Inputs \ {"mcp"} /\ "apply" \notin Beginning
      BY <3>1, TableAssumption DEF ReadAt, Inputs, Beginning
    <3> QED
      BY <2>1, <2>3, <3>2, AheadReads
  <2> QED
    BY <1>7, <2>2, <2>3 DEF GetClusterCA
<1>8. CASE ApplyBootstrapTokenSecret(op)
  <2>1. /\ UNCHANGED <<content, source, seen>> /\ work[op].pc = "apply" /\ work[op].i = 0
        /\ Becomes(op, StageAfter(0), 1, work[op].token, work[op].in)
    BY <1>8 DEF ApplyBootstrapTokenSecret, At, mgmtVars
  <2>2. ReadAt(StageAfter(0), 1) \subseteq ReadAt("apply", 0)
    BY TableAssumption DEF ReadAt, StageAfter
  <2>3. StageAfter(0) \notin Beginning
    BY DEF StageAfter, Beginning
  <2> QED
    BY <2>1, <2>2, <2>3, AheadGoesOn
<1>9. CASE Apply(op)
  BY <1>9, AheadApply
<1>10. CASE ApplyIntoNowhere(op)
  BY <1>10, AheadReturn DEF ApplyIntoNowhere, mgmtVars, clusterVars
<1>11. ASSUME NEW pc, NEW y \in {"agent", "konn"}, NEW next,
              next \notin Beginning, pc = y, GetKonnectivityTLS(op, pc, y, next),
              ReadAt(next, work[op].i) \subseteq ReadAt(pc, work[op].i) \union {y}
       PROVE  Ahead'
  <2>1. UNCHANGED <<content, source, seen>> /\ work[op].pc = pc
    BY <1>11 DEF GetKonnectivityTLS, At, mgmtVars, clusterVars
  <2>2. CASE ReturnRetry(op)
    BY <2>1, <2>2, AheadReturn
  <2>3. CASE /\ source[y] # 0
             /\ Becomes(op, next, work[op].i, work[op].token,
                        [work[op].in EXCEPT ![y] = source[y]])
    <3>1. y \in Inputs \ {"mcp"}
      BY DEF Inputs
    <3> QED
      BY <1>11, <2>1, <2>3, <3>1, AheadReads
  <2> QED
    BY <1>11, <2>2, <2>3 DEF GetKonnectivityTLS
<1>12. CASE GetAgentTLS(op)
  <2>1. ReadAt("konn", work[op].i) \subseteq ReadAt("agent", work[op].i) \union {"agent"}
    BY DEF ReadAt
  <2> QED
    BY <1>11, <1>12, <2>1 DEF GetAgentTLS, Beginning
<1>13. CASE GetKonnectivityCA(op)
  <2>1. ReadAt("apply", work[op].i) \subseteq ReadAt("konn", work[op].i) \union {"konn"}
    BY DEF ReadAt
  <2> QED
    BY <1>11, <1>13, <2>1 DEF GetKonnectivityCA, Beginning
<1> QED
  BY <1>1, <1>2, <1>3, <1>4, <1>5, <1>6, <1>7, <1>8, <1>9, <1>10, <1>12, <1>13
     DEF ReconcileStep

LEMMA AheadProcess ==
    ASSUME ForwardInv, OneProcess, NEW op \in Operators, ProcessStep(op)
    PROVE  Ahead'
<1>t. TypeOK
  BY DEF ForwardInv
<1>o. \A o \in Operators : o = op
  BY DEF OneProcess
<1>1. CASE CallFails(op)
  BY <1>1, AheadReturn DEF CallFails, mgmtVars, clusterVars
<1>2. ASSUME UNCHANGED <<content, source, work>>,
             seen' = seen \/ seen'[op] = source["mcp"]
      PROVE  Ahead'
  <2>1. CASE seen' = seen
    BY <1>2, <2>1, AheadKept
  <2>2. CASE seen'[op] = source["mcp"]
    <3>1. SeenGone' /\ GoneAll' /\ Unread' /\ SourcesAhead' /\ ReadsAhead' /\ NotBegun'
      BY <1>2, <1>o, <2>2 DEF ForwardInv, Ahead, SeenGone, GoneAll, Unread,
         SourcesAhead, ReadsAhead, NotBegun
    <3>2. CacheBehind'
      BY <1>2, <1>o, <1>t, <2>2, Versions
         DEF ForwardInv, Ahead, SourcesAhead, CacheBehind
    <3> QED
      BY <3>1, <3>2 DEF Ahead
  <2> QED
    BY <1>2, <2>1, <2>2
<1>3. CASE Engage(op) \/ Disengage(op) \/ Elapse(op) \/ Resync(op)
  BY <1>3, AheadKept DEF Engage, Disengage, Elapse, Resync, mgmtVars, clusterVars
<1>4. CASE Observe(op)
  BY <1>2, <1>4, <1>t DEF Observe, TypeOK, clusterVars, mgmtVars
<1>5. CASE Crash(op)
  <2>1. /\ Return(op) /\ content' = content /\ source' = source
        /\ \E version \in {seen[op], source["mcp"]} :
              seen' = [seen EXCEPT ![op] = version]
    BY <1>5 DEF Crash, mgmtVars, clusterVars
  <2>2. seen'[op] = seen[op] \/ seen'[op] = source["mcp"]
    BY <2>1, <1>t DEF TypeOK
  <2>3. Becomes(op, "idle", 0, 0, NoContent)
    BY <2>1 DEF Return
  <2>4. /\ work'[op].pc = "idle" /\ work'[op].in = NoContent /\ "mcp" \in Inputs
        /\ \A x \in Inputs : NoContent[x] = 0
    BY <1>t, <2>3, BecomesOwn DEF NoContent, Inputs
  <2>5. SeenGone' /\ GoneAll' /\ Unread'
    BY <1>o, <2>1, <2>2 DEF ForwardInv, Ahead, SeenGone, GoneAll, Unread
  <2>6. CacheBehind'
    <3>1. source["mcp"] # 0 => seen'[op] <= source["mcp"]
      BY <1>t, <2>2, Versions DEF ForwardInv, Ahead, CacheBehind
    <3>2. ASSUME seen'[op] # 0, NEW i \in Positions
          PROVE  content[i]["mcp"] <= seen'[op]
      BY <2>2, <2>4, <3>2 DEF ForwardInv, Ahead, CacheBehind, SourcesAhead
    <3>3. seen'[op] \in Nat
      BY <1>t, <2>2, Versions
    <3> QED
      BY <1>o, <2>1, <2>4, <3>1, <3>2, <3>3 DEF CacheBehind
  <2>7. SourcesAhead'
    BY <1>o, <1>t, <2>1, <2>4, Versions DEF ForwardInv, Ahead, SourcesAhead
  <2>8. ReadsAhead' /\ NotBegun'
    BY <1>o, <2>4 DEF ReadsAhead, ReadAt, NotBegun, Beginning
  <2> QED
    BY <2>5, <2>6, <2>7, <2>8 DEF Ahead
<1> QED
  BY <1>1, <1>3, <1>4, <1>5 DEF ProcessStep

LEMMA AheadCluster ==
    ASSUME ForwardInv, ClusterStep
    PROVE  Ahead'
<1>t. TypeOK
  BY DEF ForwardInv
<1>1. ASSUME NEW y \in Inputs, Renew(y) PROVE Ahead'
  <2>1. /\ UNCHANGED <<content, seen, work>> /\ source["mcp"] # 0
        /\ source' = [source EXCEPT ![y] = @ + 1]
    BY <1>1 DEF Renew, clusterVars
  <2>2. \A x \in Inputs : source'[x] \in Nat /\ source[x] <= source'[x]
    BY <1>t, <2>1, Versions DEF TypeOK
  <2>3. source'["mcp"] # 0
    BY <1>t, <2>1, <2>2, Versions
  <2>4. SeenGone' /\ GoneAll' /\ Unread' /\ ReadsAhead' /\ NotBegun'
    BY <2>1, <2>3 DEF ForwardInv, Ahead, SeenGone, GoneAll, Unread, ReadsAhead, NotBegun
  <2>5. CacheBehind'
    BY <1>t, <2>1, <2>2, Versions DEF ForwardInv, Ahead, CacheBehind
  <2>6. SourcesAhead'
    BY <1>t, <2>1, <2>2, Versions DEF ForwardInv, Ahead, SourcesAhead
  <2> QED
    BY <2>4, <2>5, <2>6 DEF Ahead
<1>2. ASSUME NEW n \in Positions, Remove(n) PROVE Ahead'
  <2>1. /\ UNCHANGED <<source, seen, work>>
        /\ content' = [j \in Positions |->
                          IF j \in GoneWith(n) THEN NoContent ELSE content[j]]
    BY <1>2 DEF Remove, mgmtVars
  <2>2. \A i \in Positions : \A x \in Inputs :
            /\ content'[i][x] = content[i][x] \/ content'[i][x] = 0
            /\ content'[i][x] <= content[i][x] /\ content'[i][x] \in Nat
            /\ content[i][x] \in Nat
    BY <1>t, <2>1, Versions DEF NoContent
  <2>3. SeenGone' /\ GoneAll' /\ NotBegun'
    BY <2>1 DEF ForwardInv, Ahead, SeenGone, GoneAll, NotBegun
  <2>4. Unread'
    BY <2>2 DEF ForwardInv, Ahead, Unread
  <2>5. CacheBehind'
    BY <1>t, <2>1, <2>2, Versions DEF ForwardInv, Ahead, CacheBehind
  <2>6. SourcesAhead'
    BY <1>t, <2>1, <2>2, Versions DEF ForwardInv, Ahead, SourcesAhead
  <2>7. ReadsAhead'
    BY <1>t, <2>1, <2>2, Versions DEF ForwardInv, Ahead, ReadsAhead, ReadAt
  <2> QED
    BY <2>3, <2>4, <2>5, <2>6, <2>7 DEF Ahead
<1>3. CASE LoseToken \/ Unmark
  BY <1>3, AheadKept DEF LoseToken, Unmark, mgmtVars, clusterVars
<1>4. CASE Delete
  <2>1. /\ UNCHANGED <<content, seen, work>> /\ "mcp" \in Inputs
        /\ \A x \in Inputs : source'[x] = 0
    BY <1>4 DEF Delete, NoContent, Inputs, clusterVars
  <2> QED
    BY <2>1 DEF ForwardInv, Ahead, SeenGone, GoneAll, Unread, CacheBehind,
       SourcesAhead, ReadsAhead, NotBegun
<1> QED
  BY <1>1, <1>2, <1>3, <1>4 DEF ClusterStep

LEMMA ForwardNext ==
    OneProcess /\ ForwardInv /\ [Next]_vars => ForwardInv'
<1> SUFFICES ASSUME OneProcess, ForwardInv, [Next]_vars PROVE ForwardInv'
  OBVIOUS
<1>1. TypeOK'
  BY TypeNext DEF ForwardInv
<1>2. CASE UNCHANGED vars
  BY <1>1, <1>2, AheadKept DEF vars, ForwardInv
<1> QED
  BY <1>1, <1>2, AheadReconcile, AheadProcess, AheadCluster DEF Next, ForwardInv

\* Every step that renders an object again renders it from inputs as new.
LEMMA ForwardStep ==
    OneProcess /\ ForwardInv /\ [Next]_vars
        => \A i \in present \intersect present' : \A x \in Inputs :
              content[i][x] <= content'[i][x]
<1> SUFFICES ASSUME OneProcess, ForwardInv, [Next]_vars,
                    NEW i \in present \intersect present', NEW x \in Inputs
             PROVE  content[i][x] <= content'[i][x]
  OBVIOUS
<1>1. i \in Positions /\ content[i][x] \in Nat
  BY Versions DEF ForwardInv, TypeOK
<1>u. ASSUME content' = content PROVE content[i][x] <= content'[i][x]
  BY <1>u, <1>1
<1>2. ASSUME NEW op \in Operators, ReconcileStep(op)
      PROVE  content[i][x] <= content'[i][x]
  <2>1. CASE Apply(op)
    BY <1>1, <2>1, AheadApply
  <2>2. CASE ~ Apply(op)
    BY <1>2, <1>u, <2>2 DEF ReconcileStep, ReconcileGone, ReconcileUnknownCluster,
       Reconcile, GetMarker, GetBootstrapToken, NewBootstrapToken,
       PersistBootstrapToken, GetClusterCA, ApplyBootstrapTokenSecret,
       ApplyIntoNowhere, GetAgentTLS, GetKonnectivityCA, GetKonnectivityTLS, clusterVars
  <2> QED
    BY <2>1, <2>2
<1>3. ASSUME NEW op \in Operators, ProcessStep(op)
      PROVE  content[i][x] <= content'[i][x]
  BY <1>3, <1>u DEF ProcessStep, CallFails, Engage, Disengage, Elapse, Resync,
     Observe, Crash, clusterVars
<1>4. ASSUME NEW n \in Positions, Remove(n)
      PROVE  content[i][x] <= content'[i][x]
  BY <1>1, <1>4 DEF Remove
<1>5. ASSUME (\E y \in Inputs : Renew(y)) \/ LoseToken \/ Delete \/ Unmark \/ UNCHANGED vars
      PROVE  content[i][x] <= content'[i][x]
  BY <1>5, <1>u DEF Renew, LoseToken, Delete, Unmark, clusterVars, vars
<1> QED
  BY <1>2, <1>3, <1>4, <1>5 DEF Next, ClusterStep

\* With one process no object of the managed cluster is ever rendered again
\* from an older control plane, CA or konnectivity Secret than before, although
\* the control plane comes from a cache that lags and the reconcile may use
\* what it read long ago.
THEOREM ForwardCorrect ==
    ASSUME OneProcess PROVE Spec => RenderedForward
<1>1. Init => ForwardInv
  <2> SUFFICES ASSUME Init PROVE TypeOK /\ Ahead
    BY DEF ForwardInv
  <2>1. TypeOK /\ \A x \in Inputs : NoContent[x] = 0
    BY TypeInit DEF NoContent
  <2>2. SeenGone /\ GoneAll /\ NotBegun
    BY DEF Init, Idle, SeenGone, GoneAll, NotBegun, Beginning
  <2>3. Unread /\ CacheBehind /\ SourcesAhead /\ ReadsAhead
    BY <2>1 DEF Init, Idle, Unread, CacheBehind, SourcesAhead, ReadsAhead, ReadAt, Inputs
  <2> QED
    BY <2>1, <2>2, <2>3 DEF Ahead
<1>2. ForwardInv /\ [Next]_vars => ForwardInv'
  BY ForwardNext
<1>3. ForwardInv /\ [Next]_vars
      => [\A i \in present \intersect present' : \A x \in Inputs :
             content[i][x] <= content'[i][x]]_vars
  BY ForwardStep
<1> QED
  BY <1>1, <1>2, <1>3, PTL DEF Spec, RenderedForward
=============================================================================
