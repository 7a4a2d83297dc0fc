------------------------------ MODULE PKITrust ------------------------------
(***************************************************************************)
(* How the parts of a control plane come to trust each other: the          *)
(* reconciler applies certificates and workloads (pkg/controller),         *)
(* cert-manager fills the Secrets, the pods start once their Secrets are   *)
(* there and keep copies of them, and the address that certificates and    *)
(* the admin kubeconfig name may change under way.                         *)
(*                                                                         *)
(* The apply of all objects of a component is one step here, and there is  *)
(* one operator, whose cache of the control plane is up to date:           *)
(* ControlPlaneController has the single calls, the caches and the work    *)
(* queue.  A CA that is renewed gets a new key                             *)
(* (RotationPolicyAlways) and does not make cert-manager sign the          *)
(* certificates of its issuer again; rootCAs asks for no duration, so that *)
(* this happens long before the ten years of the other certificates end.   *)
(***************************************************************************)
EXTENDS PKITables, ServiceNetwork, FiniteSets

CONSTANTS
    None,          \* absent: no Certificate, Secret, Deployment, pod
    Network,       \* the service network of the managed cluster
    MaxAddress,    \* bound: addresses 1..MaxAddress, 0 is the empty one
    MaxFaults,     \* bound: failed reconciles and renewed CAs
    Renewable      \* the CAs that are renewed

ASSUME NetworkAssumption == Network \in Networks
ASSUME BoundAssumption == MaxAddress \in Nat /\ MaxFaults \in Nat

VARIABLES
    lb,          \* address of the load balancer
    seen,        \* the Service's address as the operator's cache has it
    status,      \* status.address of the ManagedControlPlane
    pass,        \* the running reconcile: component, address in its snapshot
    wanted,      \* the address the Certificates ask for
    secrets,     \* Secret -> what cert-manager wrote
    deployed,    \* workload -> the address its template was rendered with
    pods,        \* workload -> its running pod: template and Secret copies
    kubeconfig,  \* the admin kubeconfig: server address, certificate
    faults       \* faults so far

reconcilerVars == <<seen, status, pass>>
objectVars == <<wanted, deployed, kubeconfig>>
vars == <<lb, seen, status, pass, wanted, secrets, deployed, pods, kubeconfig,
          faults>>

-----------------------------------------------------------------------------
(* Data. *)

Address == 0..MaxAddress
Maybe(S) == S \union {None}

SecretNames == {c.secret : c \in certificateResources}
CertificateOf ==
    [s \in SecretNames |-> CHOOSE c \in certificateResources : c.secret = s]

\* The Secret of the CA that signs a certificate: its own, or its issuer's.
Signer ==
    [s \in SecretNames |->
        LET issuer == CertificateOf[s].issuer
        IN  IF issuer \in selfSignedIssuers
            THEN s
            ELSE (CHOOSE i \in issuerResources : i.issuer = issuer).ca]

CASecrets == {c.secret : c \in rootCAs}
Leaves == SecretNames \ CASecrets
SignedBy == [ca \in CASecrets |-> {s \in Leaves : Signer[s] = ca}]

\* A certificate in a Secret: which key of its CA signed it, and the address
\* it names.
Signed == [key : 0..MaxFaults, address : Address]

Workloads == [etcd |-> etcdStatefulSet, apiserver |-> apiserverDeployment,
              cm |-> controllerManagerDeployment,
              scheduler |-> schedulerDeployment, agent |-> konnectivityAgent]
Names == DOMAIN Workloads

\* A pod: the address in its template, and its copies of the Secrets.
Pod(w) == [template : Address, files : [Workloads[w].volumes -> Signed]]
Kubeconfig == [server : 1..MaxAddress, key : 0..MaxFaults]

ASSUME NoneAssumption ==
    /\ None \notin Int /\ None \notin Signed /\ None \notin Kubeconfig
    /\ \A w \in Names : None \notin Pod(w)

\* After each component the next one (NewClusterContext's list, past the
\* Service).
Then == [pki |-> "etcd", etcd |-> "apiserver", apiserver |-> "cm",
         cm |-> "scheduler", scheduler |-> "admin", admin |-> "idle"]

Idle == [at |-> "idle", address |-> 0]

TypeOK ==
    /\ lb \in Address /\ seen \in Maybe(Address) /\ status \in Address
    /\ pass \in [at : DOMAIN Then \union {"idle"}, address : Address]
    /\ wanted \in Maybe(Address)
    /\ secrets \in [SecretNames -> Maybe(Signed)]
    /\ deployed \in [Names -> Maybe(Address)]
    /\ \A w \in Names : pods[w] \in Maybe(Pod(w))
    /\ kubeconfig \in Maybe(Kubeconfig)
    /\ faults \in 0..MaxFaults
    \* No certificate without the CA that signed it.
    /\ \A s \in SecretNames :
          secrets[s] # None =>
             secrets[Signer[s]] # None /\ secrets[s].key <= secrets[Signer[s]].key

Init ==
    /\ lb = 0 /\ seen = None /\ status = 0
    /\ pass = Idle
    /\ wanted = None
    /\ secrets = [s \in SecretNames |-> None]
    /\ deployed = [w \in Names |-> None]
    /\ pods = [w \in Names |-> None]
    /\ kubeconfig = None
    /\ faults = 0

-----------------------------------------------------------------------------
(* The load balancer, and the operator's view of the Service. *)

Relocate ==
    /\ lb < MaxAddress
    /\ lb' = lb + 1
    /\ UNCHANGED <<reconcilerVars, objectVars, secrets, pods, faults>>

Observe ==
    /\ seen # lb
    /\ seen' = lb
    /\ UNCHANGED <<lb, status, pass, objectVars, secrets, pods, faults>>

-----------------------------------------------------------------------------
(* A reconcile: the Service component, then the others in order. *)

\* What a reconcile with this address is to leave behind.
Applied(address) ==
    /\ wanted = address
    /\ \A w \in DOMAIN Then \intersect Names :
          deployed[w] = IF w = "apiserver" THEN address ELSE 0
    /\ kubeconfig = [server |-> address, key |-> secrets[Secret.AdminClient].key]

\* A reconcile with this address finds nothing to do.
NothingToApply(address) == kubeconfig # None /\ Applied(address)

\* The Service is not in the cache yet: the reconcile goes on.  An empty
\* address ends it, another one goes into the status; the components that
\* follow are rendered from the status as it was before.  Reconciles that find
\* nothing to do are left out.
Begin ==
    /\ pass = Idle
    /\ seen # 0
    /\ status' = IF seen = None THEN status ELSE seen
    /\ ~ NothingToApply(status')
    /\ pass' = [at |-> "pki", address |-> status]
    /\ UNCHANGED <<lb, seen, objectVars, secrets, pods, faults>>

Continue ==
    pass' = IF Then[pass.at] = "idle" THEN Idle
                                      ELSE [pass EXCEPT !.at = Then[@]]

\* Mutant: the certificates keep the address they were first created with.
ApplyPKIOnce ==
    /\ pass.at = "pki"
    /\ wanted' = IF wanted = None THEN pass.address ELSE wanted
    /\ Continue
    /\ UNCHANGED <<lb, seen, status, secrets, deployed, pods, kubeconfig,
                   faults>>

ApplyPKI ==
    /\ pass.at = "pki"
    /\ wanted' = pass.address
    /\ Continue
    /\ UNCHANGED <<lb, seen, status, secrets, deployed, pods, kubeconfig,
                   faults>>

\* Only the API server's template has the address (--advertise-address).
Rendered(w) == IF w = "apiserver" THEN pass.address ELSE 0

Apply(w) ==
    /\ pass.at = w
    /\ deployed' = [deployed EXCEPT ![w] = Rendered(w)]
    /\ Continue
    /\ UNCHANGED <<lb, seen, status, wanted, secrets, pods, kubeconfig, faults>>

\* Mutant: the kubeconfig is written without an address.
AdminInputsThereExceptAddress == secrets[Secret.AdminClient] # None

\* config.go: the address is set and the Secret is filled.
AdminInputsThere == pass.address # 0 /\ secrets[Secret.AdminClient] # None

ApplyAdmin ==
    /\ pass.at = "admin"
    /\ AdminInputsThere
    /\ kubeconfig' = [server |-> pass.address,
                      key |-> secrets[Secret.AdminClient].key]
    /\ Continue
    /\ UNCHANGED <<lb, seen, status, wanted, secrets, deployed, pods, faults>>

EndPass ==
    /\ pass' = Idle
    /\ UNCHANGED <<lb, seen, status, objectVars, secrets, pods>>

AdminWaits ==
    /\ pass.at = "admin"
    /\ ~ AdminInputsThere
    /\ EndPass
    /\ UNCHANGED faults

Fault == faults < MaxFaults /\ faults' = faults + 1

\* Mutant: a component that fails takes the address out of the status.
FailsAndClears ==
    /\ pass # Idle
    /\ pass' = Idle /\ status' = 0
    /\ Fault
    /\ UNCHANGED <<lb, seen, objectVars, secrets, pods>>

\* A component fails: the reconcile ends.
Fails == pass # Idle /\ EndPass /\ Fault

\* Mutant: an agent that is there is left with its address.
AgentIsMissing == kubeconfig # None /\ deployed["agent"] = None

\* The addons controller, which reaches the managed cluster by the kubeconfig,
\* gives the agent the address in the status.
AgentIsBehind == kubeconfig # None /\ deployed["agent"] # status

ApplyAgent ==
    /\ AgentIsBehind
    /\ deployed' = [deployed EXCEPT !["agent"] = status]
    /\ UNCHANGED <<lb, reconcilerVars, wanted, secrets, pods, kubeconfig,
                   faults>>

-----------------------------------------------------------------------------
(* cert-manager. *)

\* The address the certificate in a Secret is to name.
Asked(s) == IF CertificateOf[s].exposed THEN wanted ELSE 0

Outdated(s) == secrets[s] # None => secrets[s].address # Asked(s)

\* The CAs sign themselves; they have no inputs and are there together.
CAsAreDue == wanted # None /\ \E ca \in CASecrets : secrets[ca] = None

IssueCAs ==
    /\ CAsAreDue
    /\ secrets' = [s \in SecretNames |->
          IF s \in CASecrets THEN [key |-> 0, address |-> 0] ELSE secrets[s]]
    /\ UNCHANGED <<lb, reconcilerVars, objectVars, pods, faults>>

\* A certificate is signed when its Secret is absent or names another address
\* than the Certificate asks for; those of one CA at a time, in one step.
IssueIsDue(ca) ==
    wanted # None /\ secrets[ca] # None /\ \E s \in SignedBy[ca] : Outdated(s)

Issue(ca) ==
    /\ IssueIsDue(ca)
    /\ secrets' = [s \in SecretNames |->
          IF s \in SignedBy[ca] /\ Outdated(s)
          THEN [key |-> secrets[ca].key, address |-> Asked(s)] ELSE secrets[s]]
    /\ UNCHANGED <<lb, reconcilerVars, objectVars, pods, faults>>

\* A new key for a CA; what it signed before stays as it is.
Renew(ca) ==
    /\ ca \in Renewable
    /\ secrets[ca] # None
    /\ Fault
    /\ secrets' = [secrets EXCEPT ![ca].key = @ + 1]
    /\ UNCHANGED <<lb, reconcilerVars, objectVars, pods>>

-----------------------------------------------------------------------------
(* The pods. *)

\* The mounts name volumes, the command line names files that are mounted.
Consistent(w) ==
    \A c \in Workloads[w].containers :
        c.mounts \subseteq Workloads[w].volumes /\ c.files \subseteq c.mounts

Mounted(w) == \A s \in Workloads[w].volumes : secrets[s] # None

Fresh(w) == [template |-> deployed[w],
             files |-> [s \in Workloads[w].volumes |-> secrets[s]]]

\* A pod starts when there is none of its template, and its volumes exist.
StartIsDue(w) ==
    /\ deployed[w] # None
    /\ pods[w] # None => pods[w].template # deployed[w]
    /\ Consistent(w) /\ Mounted(w)

Start(w) ==
    /\ StartIsDue(w)
    /\ pods' = [pods EXCEPT ![w] = Fresh(w)]
    /\ UNCHANGED <<lb, reconcilerVars, objectVars, secrets, faults>>

\* A container dies and is started again, from the pod's old template.
Restart(w) ==
    /\ pods[w] # None
    /\ pods' = [pods EXCEPT ![w].files = Fresh(w).files]
    /\ UNCHANGED <<lb, reconcilerVars, objectVars, secrets, faults>>

ServingSecrets == {s \in SecretNames : CertificateOf[s].exposed}

\* kube-apiserver and the konnectivity server take up a serving certificate
\* that was signed again; for all else a container has to be started again.
ReloadIsDue(s) ==
    pods["apiserver"] # None /\ pods["apiserver"].files[s] # secrets[s]

Reload(s) ==
    /\ ReloadIsDue(s)
    /\ pods' = [pods EXCEPT !["apiserver"].files[s] = secrets[s]]
    /\ UNCHANGED <<lb, reconcilerVars, objectVars, secrets, faults>>

-----------------------------------------------------------------------------

Reconcile ==
    \/ Begin \/ ApplyPKI \/ ApplyAdmin \/ AdminWaits
    \/ \E w \in Names : Apply(w)

Sign == IssueCAs \/ \E ca \in CASecrets : Issue(ca)

Next ==
    \/ Relocate \/ Observe
    \/ Reconcile \/ Fails \/ ApplyAgent
    \/ Sign \/ \E ca \in CASecrets : Renew(ca)
    \/ \E w \in Names : Start(w) \/ Restart(w)
    \/ \E s \in ServingSecrets : Reload(s)

Spec == Init /\ [][Next]_vars

\* The load balancer gives an address in the end.  While something is left to
\* apply a reconcile comes: after a delay, an event, or after an address that
\* moved only with the informers' resync (every ten hours).  cert-manager signs,
\* a pod whose volumes are there starts, and the servers take up their
\* certificates.
FairSpec ==
    /\ Spec
    /\ WF_vars(lb = 0 /\ Relocate) /\ WF_vars(Observe)
    /\ WF_vars(Reconcile) /\ WF_vars(ApplyAgent) /\ WF_vars(Sign)
    /\ WF_vars(\E w \in Names : Start(w))
    /\ WF_vars(\E s \in ServingSecrets : Reload(s))

-----------------------------------------------------------------------------
(* Properties. *)

\* The address a call goes to is one the serving certificate names.
Covers(call, copy) ==
    LET c == CertificateOf[call.serving] IN
    CASE call.dials.to = "name" -> call.dials.name \in c.names
      [] call.dials.to = "service" ->
            /\ c.exposed
            /\ firstServiceIP(Network) # NoIP
            /\ firstServiceIP(Network) = IPAtOffset(Network, 1)
      [] call.dials.to = "address" ->
            c.exposed /\ copy.address = pods[call.client].template

\* One side's certificate is signed by the CA that the other side checks with.
Chains(cert, one, ca, other) ==
    /\ Signer[cert] = ca
    /\ pods[one].files[cert].key = pods[other].files[ca].key

Verifies(call) ==
    /\ "server" \in CertificateOf[call.serving].auth
    /\ Chains(call.serving, call.server, call.trusts, call.client)
    /\ Covers(call, pods[call.server].files[call.serving])
    /\ call.cert # NoCertificate =>
          LET c == CertificateOf[call.cert] IN
          /\ "client" \in c.auth
          /\ Chains(call.cert, call.client, call.accepts, call.server)
          /\ call.as \subseteq {c.subject} \union c.groups

Running(call) == pods[call.client] # None /\ pods[call.server] # None

\* A call to the address waits until both sides know the same one.
SameAddress(call) ==
    call.dials.to = "address" =>
        /\ pods[call.server].files[call.serving].address
              = pods[call.client].template

NeverRenewed(call) ==
    secrets[call.trusts].key = 0 /\ secrets[call.accepts].key = 0

\* Whenever both ends of a call run, the handshake succeeds, both sides, and
\* the caller is who the server lets in, however their Secrets came to be and
\* in whichever order pods started, unless a CA of the two was renewed
\* (pki.go:133, apiserver.go:125, etcd.go:61, controllermanager.go:73).
TrustHolds ==
    \A call \in Calls :
        Running(call) /\ SameAddress(call) /\ NeverRenewed(call)
            => Verifies(call)

\* The admin kubeconfig never names an address that the serving certificates
\* were not asked to name before: a kubeconfig in a user's hands is at most
\* behind (managedcontrolplane_controller.go:96, config.go:69).
KubeconfigNotAhead ==
    kubeconfig # None => wanted # None /\ kubeconfig.server <= wanted

\* Every workload runs, and the kubeconfig and the agent have the address that
\* the load balancer gave last and that the API server's pod has a
\* certificate for.
Serves ==
    /\ \A w \in Names : pods[w] # None
    /\ kubeconfig # None /\ kubeconfig.server = lb
    /\ pods["agent"].template = lb
    /\ \A s \in ServingSecrets : pods["apiserver"].files[s].address = lb

\* The load balancer has given an address, and nothing of what FairSpec lets
\* happen is left to do.
Quiet ==
    /\ lb # 0 /\ seen = lb
    /\ pass = Idle /\ NothingToApply(lb) /\ ~ AgentIsBehind
    /\ ~ CAsAreDue /\ \A ca \in CASecrets : ~ IssueIsDue(ca)
    /\ \A w \in Names : ~ StartIsDue(w)
    /\ \A s \in ServingSecrets : ~ ReloadIsDue(s)

\* Nobody waits for anybody: when nothing is left to do, everything runs with
\* the last address and all parts trust each other, whichever way it came about
\* (managedcontrolplane_controller.go:94, pki.go:222, apiserver.go:221,
\* konnectivity.go:67).
QuietServes ==
    Quiet => Serves /\ \A call \in Calls : NeverRenewed(call) => Verifies(call)

\* A certificate, or a copy of one, that takes the place of another.
NotOlder(new, old) == old.address <= new.address /\ old.key <= new.key

\* No certificate, no copy of one in a pod and no admin kubeconfig is replaced
\* by one for an earlier address or by one that an earlier key of the CA
\* signed, although reconciles work with the address of before and pods copy
\* Secrets at any time (config.go:69, pki.go:514, apiserver.go:125).
CredentialsForward ==
    [][/\ \A s \in SecretNames : secrets[s] \notin {None, secrets'[s]} =>
              secrets'[s] # None /\ NotOlder(secrets'[s], secrets[s])
       /\ \A w \in Names : pods[w] \notin {None, pods'[w]} =>
              /\ pods'[w] # None
              /\ \A s \in Workloads[w].volumes :
                    NotOlder(pods'[w].files[s], pods[w].files[s])
       /\ kubeconfig # None =>
              /\ kubeconfig' # None
              /\ kubeconfig.server <= kubeconfig'.server
              /\ kubeconfig.key <= kubeconfig'.key]_<<secrets, pods, kubeconfig>>

\* Once the load balancer's address stays, the control plane comes up with it
\* and stays up (managedcontrolplane_controller.go:94, pki.go:222,
\* apiserver.go:221).
ComesUp == <>[]Serves
=============================================================================
