----------------------------- MODULE WorkerJoin ------------------------------
(***************************************************************************)
(* A worker joins a managed cluster while the addons controller works on   *)
(* it: `tesseractl mcp kubeadm-join` (cmd/tesseractl/cli/mcp.go) collects  *)
(* token, CA hash and endpoint in separate calls, then kubeadm and the     *)
(* kubelet, which are not part of this repository, use them with the RBAC  *)
(* objects of the join table (hack/worker.sh runs both).                   *)
(***************************************************************************)
EXTENDS ManagedAddons, AddonTables

VARIABLES
    worker,  \* the attempt: its step ("out" before the first), the token and
             \* the CA it was told
    calm     \* the join set was complete and current all along the attempt

joinVars == <<vars, worker, calm>>

NoWorker == [pc |-> "out", token |-> 0, ca |-> 0]

JoinInit == Init /\ worker = NoWorker /\ calm = FALSE

-----------------------------------------------------------------------------
(* Authorization in the managed cluster. *)

PositionOf(o) == CHOOSE i \in Positions : Id(Table[i]) = Id(o)
Exists(o) == PositionOf(o) \in present
ContentOf(o) == content[PositionOf(o)]

\* A bound role is one of the table's, or one that comes with the API server
\* and is the permission itself.
Allowed(groups, permission) ==
    \E i \in present :
        /\ Table[i].subjects \intersect groups # {}
        /\ \/ Table[i].role = permission
           \/ \E j \in Uses(i) \intersect present : permission \in Table[j].allows

\* A bootstrap token speaks for all bootstrappers and for the extra group that
\* bootstrapTokenSecret writes into its Secret.
bootstrapTokenGroups == {Bootstrappers, DefaultNodeBootstrapperGroup}

TokenAllowed(permission) ==
    /\ worker.token \in tokens
    /\ Allowed(bootstrapTokenGroups, permission)

\* All objects of the join table are there and current, and a token is.
JoinReady ==
    /\ \A i \in 1..LastJoin :
          i \in present /\ content[i] = Rendered(i, source)
    /\ tokens # {}

-----------------------------------------------------------------------------
(* One step of the attempt: it succeeds or it ends the attempt. *)

Step(pc, succeeds, next) ==
    /\ worker.pc = pc
    /\ worker' = [worker EXCEPT !.pc = IF succeeds THEN next ELSE "failed"]

\* newJoinCommand: the kubeconfig of the control plane opens the cluster, whose
\* API server answers the provider by now.
newJoinCommand ==
    /\ worker.pc \in {"out", "failed"}
    /\ source["mcp"] # 0 /\ source["ca"] # 0 /\ marker
    /\ worker' = [NoWorker EXCEPT !.pc = "token"]
    /\ calm' = JoinReady

\* The newest of the tokens' Secrets by creation time, which has the precision
\* of a second: with several tokens any may come out.
getLatestBootstrapToken ==
    /\ worker.pc = "token"
    /\ \/ \E token \in tokens :
             worker' = [worker EXCEPT !.pc = "hash", !.token = token]
       \/ tokens = {} /\ worker' = [worker EXCEPT !.pc = "failed"]

\* The hash of the CA that cluster-info shows.
getDiscoveryCAHash ==
    /\ worker.pc = "hash"
    /\ worker' = IF Exists(clusterInfo)
                 THEN [worker EXCEPT !.pc = "endpoint",
                                     !.ca = ContentOf(clusterInfo)["ca"]]
                 ELSE [worker EXCEPT !.pc = "failed"]

\* No Service default/kube-apiserver is ever made: the kubeconfig's server.
getAPIEndpoint == Step("endpoint", TRUE, "discover")

\* kubeadm reads cluster-info as nobody; its signature is made with the token
\* and its CA must have the hash.
Discover ==
    Step("discover",
         /\ Exists(clusterInfo) /\ worker.token \in tokens
         /\ Allowed({Anonymous}, "get cluster-info")
         /\ ContentOf(clusterInfo)["ca"] = worker.ca,
         "connect")

\* Then it connects to the server that cluster-info names; with an old CA or
\* an old address this may or may not work.
Connect ==
    \/ Step("connect", TRUE, "preflight")
    \/ ~ Exists(clusterInfo) /\ Step("connect", FALSE, "preflight")
    \/ /\ Exists(clusterInfo)
       /\ ContentOf(clusterInfo) # Rendered(PositionOf(clusterInfo), source)
       /\ Step("connect", FALSE, "preflight")

\* As the token: is the node's name free, and what is the configuration?
Preflight ==
    Step("preflight",
         /\ Exists(kubeadmConfigConfigMap) /\ TokenAllowed("get kubeadm-config")
         /\ Exists(kubeletConfigUnversioned) /\ TokenAllowed("get kubelet-config")
         /\ TokenAllowed("get nodes"),
         "bootstrap")

\* The kubelet requests a client certificate, which is approved unseen.
Bootstrap ==
    Step("bootstrap",
         /\ TokenAllowed("system:node-bootstrapper")
         /\ TokenAllowed("nodeclient"),
         "joined")

\* Later it renews the certificate, as a node.
Rotate == Step("joined", Allowed({Nodes}, "selfnodeclient"), "rotated")

WorkerStep ==
    /\ \/ getLatestBootstrapToken \/ getDiscoveryCAHash \/ getAPIEndpoint
       \/ Discover \/ Connect \/ Preflight \/ Bootstrap \/ Rotate
    /\ calm' = calm

JoinNext ==
    \/ (newJoinCommand \/ WorkerStep) /\ UNCHANGED vars
    \/ Next /\ UNCHANGED worker /\ calm' = (calm /\ JoinReady')

JoinSpec == JoinInit /\ [][JoinNext]_joinVars

-----------------------------------------------------------------------------
(* Properties. *)

\* While the join set is complete and current, no attempt fails at any of its
\* steps: what tesseractl reads fits together, and the objects of rbac.go
\* grant every permission that discovery, preflight, bootstrap and rotation
\* ask for, each to the identity that asks.
JoinsWhenReady == calm => worker.pc # "failed"
=============================================================================
