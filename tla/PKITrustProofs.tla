---------------------------- MODULE PKITrustProofs ----------------------------
(***************************************************************************)
(* Five facts for every bound on addresses and faults and every set of     *)
(* renewable CAs.                                                          *)
(*                                                                         *)
(* The admin kubeconfig is never ahead of the certificates: addresses pass *)
(* one way, from the load balancer through the cache, the status and the   *)
(* Certificates into the kubeconfig, and each is at most the one before.   *)
(*                                                                         *)
(* The state is of its type, where the one thing that is not plain is that *)
(* no certificate has a key that its CA has not had.                       *)
(*                                                                         *)
(* Calls succeed: who signs, mounts, dials and accepts what is read off    *)
(* the tables once, and a copy in a pod is never ahead of its CA, so that  *)
(* under a CA with its first key all have the first key.                   *)
(*                                                                         *)
(* When nothing is left to do, everything runs with the last address.      *)
(*                                                                         *)
(* Credentials are only replaced by newer ones.                            *)
(***************************************************************************)
EXTENDS PKITrust, ServiceNetworkProofs

-----------------------------------------------------------------------------
(* Addresses. *)

\* The types of what the argument reads.
Typed ==
    /\ lb \in Nat /\ seen \in Nat \union {None} /\ status \in Nat
    /\ pass \in [at : DOMAIN Then \union {"idle"}, address : Nat]
    /\ wanted \in Nat \union {None}
    /\ kubeconfig # None => kubeconfig.server \in Nat

\* The cache is behind the load balancer, the status behind the cache.
StatusBehind ==
    /\ seen = None => status = 0
    /\ seen # None => seen <= lb /\ status <= seen

\* A reconcile uses the status, or what was there before it wrote it.
PassBehind == pass # Idle => pass.address <= status

\* The Certificates ask for what some reconcile used: at most for what the
\* running one has, and for just that once it is past them.
WantedBehind ==
    /\ wanted # None => wanted <= status
    /\ wanted # None /\ pass # Idle => wanted <= pass.address
    /\ pass.at \notin {"idle", "pki"} => wanted = pass.address

IInv ==
    /\ Typed /\ StatusBehind /\ PassBehind /\ WantedBehind
    /\ KubeconfigNotAhead

LEMMA Starts == Init => IInv
  BY NoneAssumption DEF Init, IInv, Typed, StatusBehind, PassBehind, WantedBehind,
         KubeconfigNotAhead, Idle, Then, Address

\* What a step that leaves the addresses alone does to the invariant: nothing.
LEMMA Untouched ==
    ASSUME IInv, UNCHANGED <<lb, reconcilerVars, wanted, kubeconfig>>
    PROVE  IInv'
  BY DEF IInv, Typed, StatusBehind, PassBehind, WantedBehind,
         KubeconfigNotAhead, reconcilerVars

\* A reconcile goes on to a component past the Certificates, or ends.
LEMMA GoesOn ==
    ASSUME Typed, pass.at # "idle", Continue
    PROVE  /\ pass' \in [at : DOMAIN Then \union {"idle"}, address : Nat]
           /\ pass'.at # "pki"
           /\ pass' = Idle \/ pass'.address = pass.address
           /\ pass # Idle
  <1>1. pass \in [at : DOMAIN Then \union {"idle"}, address : Nat]
    BY DEF Typed
  <1>2. pass.at \in {"pki", "etcd", "apiserver", "cm", "scheduler", "admin"}
    BY <1>1 DEF Then
  <1>3. Then[pass.at] \in {"etcd", "apiserver", "cm", "scheduler", "admin",
                           "idle"}
    BY <1>2 DEF Then
  <1>4. CASE Then[pass.at] = "idle"
    BY <1>1, <1>4 DEF Continue, Idle
  <1>5. CASE Then[pass.at] # "idle"
    <2>1. pass' = [pass EXCEPT !.at = Then[pass.at]]
      BY <1>5 DEF Continue
    <2>2. Then[pass.at] \in DOMAIN Then \union {"idle"}
      BY <1>3 DEF Then
    <2> QED  BY <1>1, <1>3, <2>1, <2>2 DEF Idle
  <1> QED  BY <1>4, <1>5

LEMMA Steps ==
    ASSUME IInv, [Next]_vars
    PROVE  IInv'
  <1> USE NoneAssumption, BoundAssumption DEF reconcilerVars, objectVars
  <1>1. CASE Relocate
    BY <1>1 DEF Relocate, IInv, Typed, StatusBehind, PassBehind,
                WantedBehind, KubeconfigNotAhead
  <1>2. CASE Observe
    BY <1>2 DEF Observe, IInv, Typed, StatusBehind, PassBehind,
                WantedBehind, KubeconfigNotAhead
  <1>3. CASE Begin
    <2>1. status' \in Nat /\ status <= status'
      BY <1>3 DEF Begin, IInv, Typed, StatusBehind
    <2>2. StatusBehind'
      BY <1>3 DEF Begin, IInv, Typed, StatusBehind
    <2>3. /\ pass' \in [at : DOMAIN Then \union {"idle"}, address : Nat]
          /\ pass'.at = "pki" /\ pass'.address = status
      BY <1>3, <2>1 DEF Begin, Then, IInv, Typed
    <2>4. WantedBehind'
      BY <1>3, <2>1, <2>3 DEF Begin, IInv, Typed, WantedBehind
    <2> QED
      BY <1>3, <2>1, <2>2, <2>3, <2>4
      DEF Begin, IInv, Typed, PassBehind, KubeconfigNotAhead
  <1>4. CASE ApplyPKI
    <2>1. /\ pass' \in [at : DOMAIN Then \union {"idle"}, address : Nat]
          /\ pass' = Idle \/ pass'.address = pass.address
          /\ pass # Idle /\ pass.address \in Nat
      BY <1>4, GoesOn DEF ApplyPKI, IInv, Typed
    <2>2. wanted' = pass.address
      BY <1>4 DEF ApplyPKI
    <2>3. KubeconfigNotAhead'
      <3> SUFFICES ASSUME kubeconfig # None
                   PROVE  kubeconfig.server <= pass.address
        BY <1>4, <2>2 DEF ApplyPKI, KubeconfigNotAhead, IInv, Typed
      <3>1. /\ wanted \in Nat /\ wanted <= pass.address
            /\ kubeconfig.server <= wanted
        BY <2>1 DEF IInv, KubeconfigNotAhead, Typed, WantedBehind
      <3> QED  BY <3>1 DEF IInv, Typed
    <2> QED
      BY <1>4, <2>1, <2>2, <2>3
      DEF ApplyPKI, IInv, Typed, StatusBehind, PassBehind, WantedBehind, Idle
  <1>5. ASSUME NEW w \in Names, Apply(w)
        PROVE  IInv'
    <2>1. /\ pass' \in [at : DOMAIN Then \union {"idle"}, address : Nat]
          /\ pass' = Idle \/ pass'.address = pass.address
          /\ pass # Idle
          /\ pass.at \notin {"idle", "pki"}
      BY <1>5, GoesOn DEF Apply, IInv, Names, Workloads
    <2> QED
      BY <1>5, <2>1
      DEF Apply, IInv, Typed, StatusBehind, PassBehind, WantedBehind,
          KubeconfigNotAhead, Idle
  <1>6. CASE ApplyAdmin
    <2>1. /\ pass' \in [at : DOMAIN Then \union {"idle"}, address : Nat]
          /\ pass' = Idle \/ pass'.address = pass.address
          /\ pass # Idle
      BY <1>6, GoesOn DEF ApplyAdmin, IInv
    <2>2. wanted = pass.address
      BY <1>6 DEF ApplyAdmin, IInv, WantedBehind
    <2>3. KubeconfigNotAhead'
      BY <1>6, <2>2 DEF ApplyAdmin, IInv, Typed, KubeconfigNotAhead
    <2> QED
      BY <1>6, <2>1, <2>2, <2>3
      DEF ApplyAdmin, IInv, Typed, StatusBehind, PassBehind, WantedBehind, Idle
  <1>7. ASSUME EndPass
        PROVE  IInv'
    BY <1>7
    DEF EndPass, Idle, IInv, Typed, StatusBehind, PassBehind, WantedBehind,
        KubeconfigNotAhead
  <1>8. CASE AdminWaits \/ Fails
    BY <1>7, <1>8 DEF AdminWaits, Fails
  <1>9. CASE ApplyAgent \/ Sign \/ \E ca \in CASecrets : Renew(ca)
    BY <1>9, Untouched DEF ApplyAgent, Sign, IssueCAs, Issue, Renew
  <1>10. CASE \/ \E w \in Names : Start(w) \/ Restart(w)
              \/ \E s \in ServingSecrets : Reload(s)
    BY <1>10, Untouched DEF Start, Restart, Reload
  <1>11. CASE UNCHANGED vars
    BY <1>11, Untouched DEF vars
  <1> QED
    BY <1>1, <1>2, <1>3, <1>4, <1>5, <1>6, <1>8, <1>9, <1>10, <1>11
    DEF Next, Reconcile

\* The server that the admin kubeconfig names is never one the serving
\* certificates were not asked to name before: config.go:69 reads the snapshot
\* that pki.go:514 was given in the same reconcile, and snapshots only advance.
THEOREM KubeconfigCorrect == Spec => []KubeconfigNotAhead
  <1>1. IInv => KubeconfigNotAhead
    BY DEF IInv
  <1> QED  BY Starts, Steps, <1>1, PTL DEF Spec

-----------------------------------------------------------------------------
(* Certificates and volumes, read off the tables. *)

\* The CAs' Secrets.
LEMMA CANames ==
    CASecrets = {"managed-ca", "etcd-ca", "front-proxy-ca", "konnectivity-ca"}
  BY DEF CASecrets, rootCAs, Certificate, Secret

\* Who signs each certificate, and into which Secret.
Row(c, secret, issuer) == c.secret = secret /\ c.issuer = issuer

LEMMA CertificateRows ==
    /\ Row(saSigner, "sa-signer", "ca-issuer")
    /\ Row(apiserverTLS, "apiserver-tls", "ca-issuer")
    /\ Row(konnectivityServerTLS, "konnectivity-server-tls", "konnectivity-ca-issuer")
    /\ Row(apiserverKubeletClient, "apiserver-kubelet-client", "ca-issuer")
    /\ Row(konnectivityAgentTLS, "konnectivity-agent-tls", "konnectivity-ca-issuer")
    /\ Row(etcdServerTLS, "etcd-server-tls", "etcd-ca-issuer")
    /\ Row(etcdPeerTLS, "etcd-peer-tls", "etcd-ca-issuer")
    /\ Row(etcdHealthClient, "etcd-healthcheck-client", "etcd-ca-issuer")
    /\ Row(apiserverEtcdClient, "apiserver-etcd-client", "etcd-ca-issuer")
    /\ Row(frontProxyClient, "front-proxy-client", "front-proxy-ca-issuer")
    /\ Row(cmClient, "cm-client", "ca-issuer")
    /\ Row(schedulerClient, "scheduler-client", "ca-issuer")
    /\ Row(adminClient, "admin-client", "ca-issuer")
  BY DEF Row, saSigner, apiserverTLS, konnectivityServerTLS,
      apiserverKubeletClient, konnectivityAgentTLS, etcdServerTLS, etcdPeerTLS,
      etcdHealthClient, apiserverEtcdClient, frontProxyClient, cmClient,
      schedulerClient, adminClient, Certificate, ServerAuth, ClientAuth, Exposed,
      InMasters, Issuer, Secret

\* The CAs are signed by themselves.
LEMMA CARows ==
    \A c \in rootCAs : c.issuer \in selfSignedIssuers /\ c.secret \in CASecrets
  BY DEF rootCAs, CASecrets, Certificate, selfSignedIssuers, Issuer

\* A certificate is that of a CA, or signed by an issuer that has one.
LEMMA IssuersFit ==
    \A c \in certificateResources :
        \/ c.issuer \in selfSignedIssuers /\ c.secret \in CASecrets
        \/ /\ c.issuer \notin selfSignedIssuers /\ c.secret \notin CASecrets
           /\ \E i \in issuerResources : i.issuer = c.issuer
  <1>1. ASSUME NEW c, c \in certificateResources \ rootCAs
        PROVE  c.issuer \in {"ca-issuer", "etcd-ca-issuer", "front-proxy-ca-issuer",
                             "konnectivity-ca-issuer"}
    BY <1>1, CertificateRows DEF certificateResources, Row
  <1>2. ASSUME NEW c, c \in certificateResources \ rootCAs
        PROVE  c.secret \notin CASecrets
    BY <1>2, CertificateRows, CANames DEF certificateResources, Row
  <1>3. \A n \in {"ca-issuer", "etcd-ca-issuer", "front-proxy-ca-issuer",
                  "konnectivity-ca-issuer"} :
           n \notin selfSignedIssuers /\ \E i \in issuerResources : i.issuer = n
    BY DEF selfSignedIssuers, issuerResources, Issuer
  <1> QED  BY <1>1, <1>2, <1>3, CARows

\* Every certificate is signed by a CA, and a CA by itself.
LEMMA SignerIsCA ==
    /\ CASecrets \subseteq SecretNames
    /\ \A s \in SecretNames : Signer[s] \in CASecrets
    /\ \A ca \in CASecrets : Signer[ca] = ca
  <1>1. CASecrets \subseteq SecretNames
    BY DEF CASecrets, SecretNames, certificateResources
  <1>2. ASSUME NEW s \in SecretNames
        PROVE  CertificateOf[s] \in certificateResources /\ CertificateOf[s].secret = s
    BY <1>2 DEF SecretNames, CertificateOf
  <1>3. \A i \in issuerResources : i.ca \in CASecrets
    BY CANames DEF issuerResources, Secret
  <1>4. ASSUME NEW s \in SecretNames
        PROVE  /\ Signer[s] \in CASecrets
               /\ s \in CASecrets => Signer[s] = s
    <2> DEFINE issuer == CertificateOf[s].issuer
    <2>1. CASE issuer \in selfSignedIssuers
      <3>1. Signer[s] = s
        BY <2>1 DEF Signer
      <3> QED  BY <1>2, <2>1, <3>1, IssuersFit
    <2>2. CASE issuer \notin selfSignedIssuers
      <3>1. Signer[s] = (CHOOSE i \in issuerResources : i.issuer = issuer).ca
        BY <2>2 DEF Signer
      <3>2. s \notin CASecrets /\ \E i \in issuerResources : i.issuer = issuer
        BY <1>2, <2>2, IssuersFit
      <3> QED  BY <1>3, <3>1, <3>2
    <2> QED  BY <2>1, <2>2
  <1> QED  BY <1>1, <1>4

\* All Secrets that cert-manager fills.
LEMMA SecretsOfCertificates ==
    SecretNames = CASecrets \union
      {"sa-signer", "apiserver-tls", "konnectivity-server-tls",
       "apiserver-kubelet-client", "konnectivity-agent-tls", "etcd-server-tls",
       "etcd-peer-tls", "etcd-healthcheck-client", "apiserver-etcd-client",
       "front-proxy-client", "cm-client", "scheduler-client", "admin-client"}
  <1>1. certificateResources = rootCAs \union
            {saSigner, apiserverTLS, konnectivityServerTLS, apiserverKubeletClient,
             konnectivityAgentTLS, etcdServerTLS, etcdPeerTLS, etcdHealthClient,
             apiserverEtcdClient, frontProxyClient, cmClient, schedulerClient,
             adminClient}
    BY DEF certificateResources
  <1> QED  BY <1>1, CertificateRows DEF SecretNames, CASecrets, Row

\* What the pods mount.
LEMMA VolumesAre ==
    /\ Names = {"etcd", "apiserver", "cm", "scheduler", "agent"}
    /\ Workloads["etcd"].volumes =
          {"etcd-ca", "etcd-server-tls", "etcd-peer-tls", "etcd-healthcheck-client"}
    /\ Workloads["apiserver"].volumes =
          {"managed-ca", "apiserver-tls", "etcd-ca", "apiserver-etcd-client",
           "apiserver-kubelet-client", "sa-signer", "front-proxy-ca",
           "front-proxy-client", "konnectivity-ca", "konnectivity-server-tls"}
    /\ Workloads["cm"].volumes = {"managed-ca", "cm-client", "sa-signer"}
    /\ Workloads["scheduler"].volumes = {"managed-ca", "scheduler-client"}
    /\ Workloads["agent"].volumes = {"konnectivity-ca", "konnectivity-agent-tls"}
  <1>1. Names = {"etcd", "apiserver", "cm", "scheduler", "agent"}
    BY DEF Names, Workloads
  <1>2. /\ Workloads["etcd"] = etcdStatefulSet
        /\ Workloads["apiserver"] = apiserverDeployment
        /\ Workloads["cm"] = controllerManagerDeployment
        /\ Workloads["scheduler"] = schedulerDeployment
        /\ Workloads["agent"] = konnectivityAgent
    BY DEF Workloads
  <1>3. etcdStatefulSet.volumes =
          {"etcd-ca", "etcd-server-tls", "etcd-peer-tls", "etcd-healthcheck-client"}
    BY DEF etcdStatefulSet, Part, etcdSecrets, Secret
  <1>4. apiserverDeployment.volumes =
          {"managed-ca", "apiserver-tls", "etcd-ca", "apiserver-etcd-client",
           "apiserver-kubelet-client", "sa-signer", "front-proxy-ca",
           "front-proxy-client", "konnectivity-ca", "konnectivity-server-tls"}
    BY DEF apiserverDeployment, Part, apiserverSecrets, Secret
  <1>5. controllerManagerDeployment.volumes = {"managed-ca", "cm-client", "sa-signer"}
    BY DEF controllerManagerDeployment, Part, controllerManagerSecrets, Secret
  <1>6. schedulerDeployment.volumes = {"managed-ca", "scheduler-client"}
    BY DEF schedulerDeployment, Part, schedulerSecrets, Secret
  <1>7. konnectivityAgent.volumes = {"konnectivity-ca", "konnectivity-agent-tls"}
    BY DEF konnectivityAgent, Part, konnectivitySecrets, Secret
  <1> QED  BY <1>1, <1>2, <1>3, <1>4, <1>5, <1>6, <1>7

\* Pods mount Secrets that cert-manager fills.
LEMMA VolumesAreSecrets ==
    \A w \in Names : Workloads[w].volumes \subseteq SecretNames
  BY VolumesAre, SecretsOfCertificates, CANames

-----------------------------------------------------------------------------
(* Types. *)

\* A pod has a copy of each Secret it mounts, and the Secrets stay.
PodsTyped ==
    /\ pods = [w \in Names |-> pods[w]]
    /\ \A w \in Names : pods[w] # None => pods[w] \in Pod(w) /\ Mounted(w)

\* No certificate without the CA that signed it, which has had as many keys as
\* it was renewed; the CAs come together.
SecretsTyped ==
    /\ secrets \in [SecretNames -> Maybe(Signed)]
    /\ \A s \in SecretNames :
          secrets[s] # None =>
             /\ secrets[Signer[s]] # None
             /\ secrets[s].key <= secrets[Signer[s]].key
             /\ secrets[s].key <= faults
    /\ \A s, t \in CASecrets : secrets[s] = None => secrets[t] = None

\* The rest of TypeOK.
RestTyped ==
    /\ lb \in Address /\ seen \in Maybe(Address) /\ status \in Address
    /\ pass \in [at : DOMAIN Then \union {"idle"}, address : Address]
    /\ wanted \in Maybe(Address)
    /\ deployed \in [Names -> Maybe(Address)]
    /\ kubeconfig \in Maybe(Kubeconfig)
    /\ faults \in 0..MaxFaults

TypeInv == RestTyped /\ SecretsTyped /\ PodsTyped

LEMMA TypeInvOK == TypeInv => TypeOK
  BY DEF TypeInv, RestTyped, SecretsTyped, PodsTyped, Maybe, TypeOK

LEMMA TypeInvInit == Init => TypeInv
  <1>1. 0 \in Address /\ 0 \in 0..MaxFaults
    BY BoundAssumption DEF Address
  <1>2. Signer \in [SecretNames -> CASecrets]
    BY SignerIsCA DEF Signer
  <1> QED
    BY <1>1, <1>2, SignerIsCA
    DEF Init, Idle, Maybe, TypeInv, RestTyped, SecretsTyped, PodsTyped

\* What is in a Secret.
LEMMA SecretType ==
    ASSUME SecretsTyped, NEW s \in SecretNames, secrets[s] # None
    PROVE  /\ secrets[s] \in Signed /\ secrets[s].key \in Nat
           /\ Signer[s] \in CASecrets /\ Signer[s] \in SecretNames
           /\ secrets[Signer[s]] \in Signed /\ secrets[Signer[s]].key \in Nat
  BY SignerIsCA, BoundAssumption DEF SecretsTyped, Maybe, Signed

\* A certificate just signed is one.
LEMMA SignedIsSome ==
    ASSUME NEW x \in Signed
    PROVE  x # None
  BY NoneAssumption, BoundAssumption DEF Signed, Address

\* What signing and renewing do to the Secrets: none goes, no CA gets back an
\* older key.
SecretsStay ==
    /\ \A s \in SecretNames : secrets[s] # None => secrets'[s] # None
    /\ \A ca \in CASecrets :
          secrets[ca] # None => secrets'[ca].key >= secrets[ca].key

LEMMA IssueCAsTyped ==
    ASSUME SecretsTyped, faults \in 0..MaxFaults, IssueCAs
    PROVE  SecretsTyped' /\ SecretsStay
  <1> DEFINE first == [key |-> 0, address |-> 0]
  <1>1. first \in Signed /\ first # None
    BY SignedIsSome, BoundAssumption DEF Signed, Address
  <1>2. \A ca \in CASecrets : secrets[ca] = None
    BY DEF IssueCAs, CAsAreDue, SecretsTyped
  <1>3. \A s \in SecretNames : secrets[s] = None
    BY <1>2, SignerIsCA DEF SecretsTyped
  <1>4. secrets' = [s \in SecretNames |-> IF s \in CASecrets THEN first ELSE None]
    BY <1>3 DEF IssueCAs
  <1>5. SecretsStay
    BY <1>3, SignerIsCA DEF SecretsStay
  <1>6. secrets' \in [SecretNames -> Maybe(Signed)]
    BY <1>1, <1>4 DEF Maybe
  <1>7. faults' = faults
    BY DEF IssueCAs
  <1> QED
    BY <1>1, <1>4, <1>5, <1>6, <1>7, SignerIsCA DEF SecretsTyped

LEMMA IssueTyped ==
    ASSUME SecretsTyped, faults \in 0..MaxFaults, wanted \in Maybe(Address),
           NEW ca \in CASecrets, Issue(ca)
    PROVE  SecretsTyped' /\ SecretsStay
  <1>1. ca \in SecretNames /\ Signer[ca] = ca /\ secrets[ca] # None
    BY SignerIsCA DEF Issue, IssueIsDue
  <1>2. /\ secrets[ca].key \in 0..MaxFaults /\ secrets[ca].key <= faults
    BY <1>1, SecretType DEF Signed, SecretsTyped
  <1>3. \A s \in SecretNames : Asked(s) \in Address
    BY BoundAssumption DEF Asked, Issue, IssueIsDue, Maybe, Address
  <1> DEFINE cert(s) == [key |-> secrets[ca].key, address |-> Asked(s)]
             new(s) == s \in SignedBy[ca] /\ Outdated(s)
  <1>4. \A s \in SecretNames : cert(s) \in Signed /\ cert(s) # None
    BY <1>2, <1>3, SignedIsSome DEF Signed
  <1>5. /\ secrets' = [s \in SecretNames |-> IF new(s) THEN cert(s) ELSE secrets[s]]
        /\ faults' = faults
    BY DEF Issue
  <1>6. \A s \in SecretNames : new(s) => s \notin CASecrets /\ Signer[s] = ca
    BY DEF SignedBy, Leaves
  <1>7. \A s \in SecretNames : cert(s).key = secrets[ca].key
    OBVIOUS
  <1> HIDE DEF cert, new
  <1>8. \A d \in CASecrets : secrets'[d] = secrets[d]
    BY <1>5, <1>6, SignerIsCA
  <1>9. SecretsStay
    <2>1. \A d \in CASecrets : secrets[d] # None => secrets[d].key \in Nat
      BY SecretType, SignerIsCA
    <2> QED  BY <1>4, <1>5, <1>8, <2>1 DEF SecretsStay
  <1>10. secrets' \in [SecretNames -> Maybe(Signed)]
    BY <1>4, <1>5 DEF SecretsTyped, Maybe
  <1>11. ASSUME NEW s \in SecretNames, secrets'[s] # None
         PROVE  /\ secrets'[Signer[s]] # None
                /\ secrets'[s].key <= secrets'[Signer[s]].key
                /\ secrets'[s].key <= faults'
    <2>1. CASE new(s)
      BY <1>1, <1>2, <1>5, <1>6, <1>7, <1>8, <2>1
    <2>2. CASE ~ new(s)
      BY <1>5, <1>8, <1>11, <2>2, SignerIsCA DEF SecretsTyped
    <2> QED  BY <2>1, <2>2
  <1> QED
    BY <1>8, <1>9, <1>10, <1>11 DEF SecretsTyped

LEMMA RenewTyped ==
    ASSUME SecretsTyped, faults \in 0..MaxFaults, NEW ca \in CASecrets, Renew(ca)
    PROVE  SecretsTyped' /\ SecretsStay
  <1>1. ca \in SecretNames /\ Signer[ca] = ca /\ secrets[ca] # None
    BY SignerIsCA DEF Renew
  <1>2. /\ secrets[ca] \in Signed /\ secrets[ca].key \in Nat
        /\ secrets[ca].key <= faults /\ faults < MaxFaults /\ faults' = faults + 1
    BY <1>1, SecretType DEF SecretsTyped, Renew, Fault
  <1> DEFINE renewed == [secrets[ca] EXCEPT !.key = @ + 1]
  <1>3. renewed \in Signed /\ renewed.key = secrets[ca].key + 1
    BY <1>2, BoundAssumption DEF Signed
  <1>4. renewed # None
    BY <1>3, SignedIsSome
  <1>5. secrets' = [secrets EXCEPT ![ca] = renewed]
    BY DEF Renew
  <1> HIDE DEF renewed
  <1>6. secrets' \in [SecretNames -> Maybe(Signed)]
    BY <1>3, <1>5 DEF SecretsTyped, Maybe
  <1>7. \A s \in SecretNames :
            secrets'[s] = IF s = ca THEN renewed ELSE secrets[s]
    BY <1>5 DEF SecretsTyped
  <1>8. SecretsStay
    <2>1. \A d \in CASecrets : secrets[d] # None => secrets[d].key \in Nat
      BY SecretType, SignerIsCA
    <2> QED  BY <1>2, <1>3, <1>4, <1>7, <2>1, SignerIsCA DEF SecretsStay
  <1>9. ASSUME NEW s \in SecretNames, secrets'[s] # None
        PROVE  /\ secrets'[Signer[s]] # None
               /\ secrets'[s].key <= secrets'[Signer[s]].key
               /\ secrets'[s].key <= faults'
    <2>1. CASE s = ca
      BY <1>1, <1>2, <1>3, <1>4, <1>7, <2>1
    <2>2. CASE s # ca
      <3>1. /\ secrets[s] # None /\ secrets'[s] = secrets[s]
            /\ secrets[Signer[s]] # None /\ secrets[s].key <= secrets[Signer[s]].key
            /\ secrets[s].key <= faults
        BY <1>7, <1>9, <2>2 DEF SecretsTyped
      <3>2. secrets[s].key \in Nat /\ secrets[Signer[s]].key \in Nat
            /\ Signer[s] \in CASecrets /\ Signer[s] \in SecretNames
        BY <3>1, SecretType
      <3>3. secrets'[Signer[s]].key >= secrets[Signer[s]].key
        BY <1>8, <3>1, <3>2 DEF SecretsStay
      <3>4. secrets'[Signer[s]] # None /\ secrets'[Signer[s]].key \in Nat
        BY <1>2, <1>3, <1>4, <1>7, <3>1, <3>2
      <3> QED  BY <1>2, <3>1, <3>2, <3>3, <3>4
    <2> QED  BY <2>1, <2>2
  <1>10. \A d \in CASecrets : secrets'[d] # None
    <2>1. \A d \in CASecrets : secrets[d] # None
      BY <1>1 DEF SecretsTyped
    <2> QED  BY <1>8, <2>1, SignerIsCA DEF SecretsStay
  <1> QED
    BY <1>6, <1>8, <1>9, <1>10 DEF SecretsTyped

\* A copy of the Secrets that are there is of its type.
LEMMA FreshType ==
    ASSUME SecretsTyped, NEW w \in Names, Mounted(w)
    PROVE  Fresh(w).files \in [Workloads[w].volumes -> Signed]
  BY VolumesAreSecrets DEF Fresh, Mounted, SecretsTyped, Maybe

\* While the Secrets stay, so does what is mounted.
LEMMA MountsStay ==
    ASSUME SecretsStay, NEW w \in Names, Mounted(w)
    PROVE  Mounted(w)'
  BY VolumesAreSecrets DEF SecretsStay, Mounted

\* A container that starts.
LEMMA PodStarts ==
    ASSUME TypeInv, NEW w \in Names, Start(w) \/ Restart(w)
    PROVE  /\ PodsTyped'
           /\ pods'[w] # None /\ \A v \in Names \ {w} : pods'[v] = pods[v]
  <1>1. SecretsTyped /\ secrets' = secrets /\ \A v \in Names : Mounted(v)' = Mounted(v)
    BY DEF TypeInv, Start, Restart, Mounted
  <1>2. Mounted(w)
    BY DEF Start, StartIsDue, Restart, TypeInv, PodsTyped
  <1>3. PICK template \in Address :
            pods' = [pods EXCEPT ![w] = [template |-> template, files |-> Fresh(w).files]]
    <2>1. CASE Start(w)
      <3>1. deployed[w] \in Address
        BY <2>1 DEF Start, StartIsDue, TypeInv, RestTyped, Maybe
      <3> QED  BY <2>1, <3>1 DEF Start, Fresh
    <2>2. CASE Restart(w)
      <3>1. pods[w] \in Pod(w)
        BY <2>2 DEF Restart, TypeInv, PodsTyped
      <3>2. [pods[w] EXCEPT !.files = Fresh(w).files]
               = [template |-> pods[w].template, files |-> Fresh(w).files]
        BY <3>1 DEF Pod
      <3>3. pods' = [pods EXCEPT ![w] = [pods[w] EXCEPT !.files = Fresh(w).files]]
        BY <2>2 DEF Restart
      <3> QED  BY <3>1, <3>2, <3>3 DEF Pod
    <2> QED  BY <2>1, <2>2
  <1>4. [template |-> template, files |-> Fresh(w).files] \in Pod(w)
    BY <1>1, <1>2, FreshType DEF Pod
  <1> QED
    BY <1>1, <1>2, <1>3, <1>4, NoneAssumption DEF TypeInv, PodsTyped

\* A server takes up a certificate.
LEMMA PodReloads ==
    ASSUME TypeInv, NEW s \in ServingSecrets, Reload(s)
    PROVE  /\ PodsTyped'
           /\ pods'["apiserver"] # None
           /\ \A v \in Names \ {"apiserver"} : pods'[v] = pods[v]
  <1>1. SecretsTyped /\ secrets' = secrets /\ \A v \in Names : Mounted(v)' = Mounted(v)
    BY DEF TypeInv, Reload, Mounted
  <1>2. "apiserver" \in Names
    BY VolumesAre
  <1>3. pods["apiserver"] \in Pod("apiserver") /\ Mounted("apiserver")
    BY <1>2 DEF Reload, ReloadIsDue, TypeInv, PodsTyped
  <1> DEFINE files == [pods["apiserver"].files EXCEPT ![s] = secrets[s]]
  <1>4. pods' = [pods EXCEPT !["apiserver"] = [pods["apiserver"] EXCEPT !.files = files]]
    BY DEF Reload
  <1>5. files \in [Workloads["apiserver"].volumes -> Signed]
    BY <1>1, <1>2, <1>3, VolumesAreSecrets DEF Pod, Mounted, SecretsTyped, Maybe
  <1>6. [pods["apiserver"] EXCEPT !.files = files] \in Pod("apiserver")
    BY <1>3, <1>5 DEF Pod
  <1> QED
    BY <1>1, <1>2, <1>3, <1>4, <1>6, NoneAssumption DEF TypeInv, PodsTyped

\* A reconcile goes on or ends.
LEMMA ContinueType ==
    ASSUME RestTyped, pass.at \in DOMAIN Then, Continue
    PROVE  pass' \in [at : DOMAIN Then \union {"idle"}, address : Address]
  <1>1. /\ DOMAIN Then = {"pki", "etcd", "apiserver", "cm", "scheduler", "admin"}
        /\ \A c \in DOMAIN Then : Then[c] \in DOMAIN Then \union {"idle"}
    BY DEF Then
  <1>2. pass.at \in DOMAIN Then /\ pass.address \in Address
    BY DEF RestTyped
  <1>3. CASE Then[pass.at] = "idle"
    BY <1>3, BoundAssumption DEF Continue, Idle, Address
  <1>4. CASE Then[pass.at] # "idle"
    <2>1. pass' = [pass EXCEPT !.at = Then[pass.at]]
      BY <1>4 DEF Continue
    <2> QED  BY <1>1, <1>2, <2>1 DEF RestTyped
  <1> QED  BY <1>3, <1>4

\* The Service, the reconciler and the addons controller change neither Secrets
\* nor pods.
LEMMA ObjectsTyped ==
    ASSUME TypeInv, Relocate \/ Observe \/ Reconcile \/ Fails \/ ApplyAgent
    PROVE  RestTyped' /\ UNCHANGED <<secrets, pods>> /\ faults <= faults'
  <1> USE BoundAssumption DEF reconcilerVars, objectVars
  <1>0. RestTyped /\ SecretsTyped /\ faults \in Nat
    BY DEF TypeInv, RestTyped
  <1>1. CASE Relocate \/ Observe \/ ApplyAgent
    BY <1>0, <1>1 DEF Relocate, Observe, ApplyAgent, RestTyped, Maybe, Address
  <1>2. CASE Begin
    <2>1. status' \in Address
      BY <1>0, <1>2 DEF Begin, RestTyped, Maybe
    <2>2. pass' \in [at : DOMAIN Then \union {"idle"}, address : Address]
      BY <1>0, <1>2 DEF Begin, RestTyped, Then
    <2> QED  BY <1>0, <1>2, <2>1, <2>2 DEF Begin, RestTyped
  <1>3. CASE ApplyPKI
    <2>1. pass' \in [at : DOMAIN Then \union {"idle"}, address : Address]
      BY <1>0, <1>3, ContinueType DEF ApplyPKI, Then
    <2> QED  BY <1>0, <1>3, <2>1 DEF ApplyPKI, RestTyped, Maybe
  <1>4. ASSUME NEW w \in Names, Apply(w)
        PROVE  RestTyped' /\ UNCHANGED <<secrets, pods>> /\ faults <= faults'
    <2>1. pass.at \in DOMAIN Then
      <3>1. pass.at = w /\ w # "idle"
        BY <1>4, VolumesAre DEF Apply
      <3> QED  BY <1>0, <3>1 DEF RestTyped
    <2>2. pass' \in [at : DOMAIN Then \union {"idle"}, address : Address]
      BY <1>0, <1>4, <2>1, ContinueType DEF Apply
    <2>3. deployed' \in [Names -> Maybe(Address)]
      BY <1>0, <1>4 DEF Apply, Rendered, RestTyped, Maybe, Address
    <2> QED  BY <1>0, <1>4, <2>2, <2>3 DEF Apply, RestTyped
  <1>5. CASE ApplyAdmin
    <2>1. pass' \in [at : DOMAIN Then \union {"idle"}, address : Address]
      BY <1>0, <1>5, ContinueType DEF ApplyAdmin, Then
    <2>2. secrets[Secret.AdminClient].key \in 0..MaxFaults
      <3>1. Secret.AdminClient = "admin-client" /\ "admin-client" \in SecretNames
        BY SecretsOfCertificates DEF Secret
      <3>2. secrets["admin-client"] # None
        BY <1>5, <3>1 DEF ApplyAdmin, AdminInputsThere
      <3> QED  BY <1>0, <3>1, <3>2, SecretType DEF Signed
    <2>3. pass.address \in 1..MaxAddress
      BY <1>0, <1>5 DEF ApplyAdmin, AdminInputsThere, RestTyped, Address
    <2>4. kubeconfig' \in Maybe(Kubeconfig)
      BY <1>5, <2>2, <2>3 DEF ApplyAdmin, Kubeconfig, Maybe
    <2> QED  BY <1>0, <1>5, <2>1, <2>4 DEF ApplyAdmin, RestTyped
  <1>6. CASE AdminWaits \/ Fails
    <2>1. Idle \in [at : DOMAIN Then \union {"idle"}, address : Address]
      BY DEF Idle, Address
    <2> QED
      BY <1>0, <1>6, <2>1 DEF AdminWaits, Fails, EndPass, Fault, RestTyped
  <1> QED
    BY <1>1, <1>2, <1>3, <1>4, <1>5, <1>6 DEF Reconcile

\* More faults, and the same Secrets.
LEMMA SecretsUntouched ==
    ASSUME SecretsTyped, faults \in Nat, faults' \in Nat, faults <= faults',
           secrets' = secrets
    PROVE  SecretsTyped' /\ SecretsStay
  <1>1. \A s \in SecretNames : secrets[s] # None => secrets[s].key \in Nat
    BY SecretType
  <1>2. SecretsTyped'
    BY <1>1 DEF SecretsTyped
  <1>3. SecretsStay
    BY <1>1, SignerIsCA DEF SecretsStay
  <1> QED  BY <1>2, <1>3

\* The pods are the same, and mount the same or newer Secrets.
LEMMA PodsUntouched ==
    ASSUME PodsTyped, SecretsStay, pods' = pods
    PROVE  PodsTyped'
  BY MountsStay DEF PodsTyped, Pod

LEMMA TypeInvNext ==
    ASSUME TypeInv, [Next]_vars
    PROVE  TypeInv' /\ SecretsStay
  <1> USE DEF TypeInv
  <1>0. /\ RestTyped /\ SecretsTyped /\ PodsTyped
        /\ faults \in 0..MaxFaults /\ faults \in Nat
    BY BoundAssumption DEF RestTyped
  <1>1. CASE Relocate \/ Observe \/ Reconcile \/ Fails \/ ApplyAgent
    <2>1. RestTyped' /\ UNCHANGED <<secrets, pods>> /\ faults <= faults'
      BY <1>1, ObjectsTyped
    <2>2. faults' \in Nat
      BY <2>1, BoundAssumption DEF RestTyped
    <2> QED  BY <1>0, <2>1, <2>2, SecretsUntouched, PodsUntouched
  <1>2. CASE Sign \/ \E ca \in CASecrets : Renew(ca)
    <2>1. SecretsTyped' /\ SecretsStay
      BY <1>0, <1>2, IssueCAsTyped, IssueTyped, RenewTyped DEF Sign, RestTyped
    <2>2. faults' \in 0..MaxFaults
      BY <1>0, <1>2, BoundAssumption DEF Sign, IssueCAs, Issue, Renew, Fault
    <2>3. RestTyped' /\ pods' = pods
      BY <1>0, <1>2, <2>2
      DEF Sign, IssueCAs, Issue, Renew, RestTyped, reconcilerVars, objectVars
    <2> QED  BY <1>0, <2>1, <2>3, PodsUntouched
  <1>3. CASE \/ \E w \in Names : Start(w) \/ Restart(w)
             \/ \E s \in ServingSecrets : Reload(s)
    <2>1. PodsTyped'
      BY <1>3, PodStarts, PodReloads
    <2>2. RestTyped' /\ secrets' = secrets /\ faults' = faults
      BY <1>0, <1>3
      DEF Start, Restart, Reload, RestTyped, reconcilerVars, objectVars
    <2> QED  BY <1>0, <2>1, <2>2, SecretsUntouched
  <1>4. CASE UNCHANGED vars
    <2>1. RestTyped' /\ UNCHANGED <<secrets, pods, faults>>
      BY <1>0, <1>4 DEF vars, RestTyped
    <2> QED  BY <1>0, <2>1, SecretsUntouched, PodsUntouched
  <1> QED
    BY <1>1, <1>2, <1>3, <1>4 DEF Next

\* Whatever is renewed, fails or is started again, the state of the control
\* plane is of its type, and no certificate is there without the CA that signed
\* it or with a key that its CA has not had yet.
THEOREM TypeCorrect == Spec => []TypeOK
  <1>1. TypeInv /\ [Next]_vars => TypeInv'
    BY TypeInvNext
  <1> QED  BY <1>1, TypeInvInit, TypeInvOK, PTL DEF Spec

-----------------------------------------------------------------------------
(* Who calls whom, read off the tables. *)

\* No two certificates share a Secret.
LEMMA CertificateOfSecret ==
    \A c \in certificateResources \ rootCAs : CertificateOf[c.secret] = c
  <1>1. \A c \in certificateResources \ rootCAs, d \in certificateResources :
            d.secret = c.secret => d = c
    <2>1. \A c \in certificateResources \ rootCAs : c.secret \notin CASecrets
      BY CertificateRows, CANames DEF certificateResources, Row
    <2>2. \A d \in rootCAs : d.secret \in CASecrets
      BY CARows
    <2> QED  BY <2>1, <2>2, CertificateRows DEF certificateResources, Row
  <1>2. \A c \in certificateResources \ rootCAs : c.secret \in SecretNames
    BY DEF SecretNames
  <1> QED  BY <1>1, <1>2 DEF CertificateOf

\* What an issuer signs with.
LEMMA SignerOf ==
    ASSUME NEW c \in certificateResources \ rootCAs, NEW i \in issuerResources,
           c.issuer = i.issuer
    PROVE  Signer[c.secret] = i.ca
  <1>1. c.secret \in SecretNames /\ CertificateOf[c.secret] = c
    BY CertificateOfSecret DEF SecretNames
  <1>2. i.issuer \notin selfSignedIssuers
    BY DEF issuerResources, selfSignedIssuers, Issuer
  <1>3. \A j \in issuerResources : j.issuer = i.issuer => j.ca = i.ca
    BY DEF issuerResources, Issuer, Secret
  <1>4. Signer[c.secret] = (CHOOSE j \in issuerResources : j.issuer = c.issuer).ca
    BY <1>1, <1>2 DEF Signer
  <1> QED  BY <1>3, <1>4

\* Whom the CAs have signed, of the certificates that calls are made with.
LEMMA Signers ==
    /\ Signer["etcd-server-tls"] = "etcd-ca"
    /\ Signer["etcd-healthcheck-client"] = "etcd-ca"
    /\ Signer["apiserver-etcd-client"] = "etcd-ca"
    /\ Signer["apiserver-tls"] = "managed-ca"
    /\ Signer["cm-client"] = "managed-ca"
    /\ Signer["scheduler-client"] = "managed-ca"
    /\ Signer["konnectivity-server-tls"] = "konnectivity-ca"
    /\ Signer["konnectivity-agent-tls"] = "konnectivity-ca"
  <1>1. /\ {etcdServerTLS, etcdHealthClient, apiserverEtcdClient, apiserverTLS,
            cmClient, schedulerClient, konnectivityServerTLS,
            konnectivityAgentTLS} \subseteq certificateResources \ rootCAs
    <2>1. \A d \in rootCAs : d.issuer \in selfSignedIssuers
      BY CARows
    <2> QED
      BY <2>1, CertificateRows DEF certificateResources, Row, selfSignedIssuers, Issuer
  <1>2. /\ [issuer |-> "ca-issuer", ca |-> "managed-ca"] \in issuerResources
        /\ [issuer |-> "etcd-ca-issuer", ca |-> "etcd-ca"] \in issuerResources
        /\ [issuer |-> "konnectivity-ca-issuer", ca |-> "konnectivity-ca"]
              \in issuerResources
    BY DEF issuerResources, Issuer, Secret
  <1> QED  BY <1>1, <1>2, SignerOf, CertificateRows DEF Row

\* A server's certificate is for serving and signed by the CA its client has.
ServingFits(call) ==
    /\ call.client \in Names /\ call.server \in Names
    /\ call.trusts \in CASecrets /\ call.accepts \in CASecrets
    /\ Signer[call.serving] = call.trusts
    /\ call.trusts \in Workloads[call.client].volumes
    /\ call.serving \in Workloads[call.server].volumes
    /\ "server" \in CertificateOf[call.serving].auth

\* It names what the client dials, whichever address it is to name.
DialsFit(call) ==
    LET c == CertificateOf[call.serving] IN
    \/ call.dials.to = "name" /\ call.dials.name \in c.names
    \/ call.dials.to \in {"service", "address"} /\ c.exposed

\* The client's certificate is signed by the CA that the server has, and names
\* somebody that the server lets in.
ClientFits(call) ==
    call.cert # NoCertificate =>
        LET c == CertificateOf[call.cert] IN
        /\ Signer[call.cert] = call.accepts
        /\ call.cert \in Workloads[call.client].volumes
        /\ call.accepts \in Workloads[call.server].volumes
        /\ "client" \in c.auth
        /\ call.as \subseteq {c.subject} \union c.groups

\* Of the certificates, what a call needs.
LEMMA ServingCertificates ==
    /\ CertificateOf["etcd-server-tls"] = etcdServerTLS
    /\ CertificateOf["apiserver-tls"] = apiserverTLS
    /\ CertificateOf["konnectivity-server-tls"] = konnectivityServerTLS
    /\ \A c \in {etcdServerTLS, apiserverTLS, konnectivityServerTLS} : "server" \in c.auth
    /\ {<<"localhost">>, <<"etcd-0", "etcd", "ns", "svc">>} \subseteq etcdServerTLS.names
    /\ <<"apiserver", "ns", "svc">> \in apiserverTLS.names
    /\ apiserverTLS.exposed /\ konnectivityServerTLS.exposed
  <1>1. {etcdServerTLS, apiserverTLS, konnectivityServerTLS}
            \subseteq certificateResources \ rootCAs
    BY CertificateRows, CARows DEF certificateResources, Row, selfSignedIssuers, Issuer
  <1>2. /\ etcdServerTLS.auth = {"server", "client"}
        /\ etcdServerTLS.names = etcdNames
    BY DEF etcdServerTLS, ClientAuth, ServerAuth, Certificate
  <1>3. /\ apiserverTLS.auth = {"server"} /\ apiserverTLS.exposed
        /\ apiserverTLS.names = apiserverSANs
    BY DEF apiserverTLS, Exposed, ServerAuth, Certificate
  <1>4. "server" \in konnectivityServerTLS.auth /\ konnectivityServerTLS.exposed
    BY DEF konnectivityServerTLS, Exposed, ServerAuth, Certificate
  <1>5. {<<"localhost">>, <<"etcd-0", "etcd", "ns", "svc">>} \subseteq etcdNames
    BY DEF etcdNames, ServiceNames, etcdMember
  <1>6. <<"apiserver", "ns", "svc">> \in apiserverSANs
    BY DEF apiserverSANs, ServiceNames
  <1> QED
    BY <1>1, <1>2, <1>3, <1>4, <1>5, <1>6, CertificateOfSecret, CertificateRows DEF Row

\* The same for those that clients show.
LEMMA ClientCertificates ==
    /\ CertificateOf["etcd-healthcheck-client"] = etcdHealthClient
    /\ CertificateOf["apiserver-etcd-client"] = apiserverEtcdClient
    /\ CertificateOf["cm-client"] = cmClient
    /\ CertificateOf["scheduler-client"] = schedulerClient
    /\ CertificateOf["konnectivity-agent-tls"] = konnectivityAgentTLS
    /\ \A c \in {etcdHealthClient, apiserverEtcdClient, cmClient, schedulerClient,
                 konnectivityAgentTLS} : "client" \in c.auth
    /\ cmClient.subject = "system:kube-controller-manager"
    /\ schedulerClient.subject = "system:kube-scheduler"
  <1>1. {etcdHealthClient, apiserverEtcdClient, cmClient, schedulerClient,
         konnectivityAgentTLS} \subseteq certificateResources \ rootCAs
    BY CertificateRows, CARows DEF certificateResources, Row, selfSignedIssuers, Issuer
  <1>2. \A c \in {etcdHealthClient, apiserverEtcdClient, cmClient, schedulerClient,
                  konnectivityAgentTLS} : "client" \in c.auth
    BY DEF etcdHealthClient, apiserverEtcdClient, cmClient, schedulerClient,
           konnectivityAgentTLS, ClientAuth, Certificate
  <1>3. /\ cmClient.subject = "system:kube-controller-manager"
        /\ schedulerClient.subject = "system:kube-scheduler"
    BY DEF cmClient, schedulerClient, ClientAuth, Certificate
  <1> QED
    BY <1>1, <1>2, <1>3, CertificateOfSecret, CertificateRows DEF Row

\* Each call fits the certificates and volumes of both ends.
LEMMA CallsFit ==
    \A call \in Calls : ServingFits(call) /\ DialsFit(call) /\ ClientFits(call)
  <1> USE VolumesAre, Signers, CANames, ServingCertificates, ClientCertificates
      DEF ServingFits, DialsFit, ClientFits
  <1>2. \A call \in {ETCDHealthProbe, etcdServers} :
            ServingFits(call) /\ DialsFit(call) /\ ClientFits(call)
    BY DEF ETCDHealthProbe, etcdServers, Call, Anyone, NoCertificate, etcdSecrets,
           apiserverSecrets, etcdMember, Secret
  <1>3. \A call \in {controllerManagerKubeconfig, schedulerKubeconfig} :
            ServingFits(call) /\ DialsFit(call) /\ ClientFits(call)
    BY DEF controllerManagerKubeconfig, schedulerKubeconfig, Call, NoCertificate,
           BuildComponentKubeconfig, controllerManagerSecrets, schedulerSecrets,
           apiserverSecrets, Secret
  <1>4. \A call \in {agentCalls, podCalls} :
            ServingFits(call) /\ DialsFit(call) /\ ClientFits(call)
    BY DEF agentCalls, podCalls, Call, Anyone, NoCertificate, konnectivitySecrets,
           controllerManagerSecrets, apiserverSecrets, Secret
  <1> QED  BY ONLY <1>2, <1>3, <1>4 DEF Calls

-----------------------------------------------------------------------------
(* Handshakes. *)

\* No pod has a certificate with a key that the certificate's CA has not had.
FilesBehind ==
    \A w \in Names : pods[w] # None =>
        \A s \in Workloads[w].volumes :
            pods[w].files[s].key <= secrets[Signer[s]].key

\* What a pod's copies are, and the Secrets they were taken from.
LEMMA FileType ==
    ASSUME TypeInv, NEW w \in Names, pods[w] # None, NEW s \in Workloads[w].volumes
    PROVE  /\ pods[w].template \in Address
           /\ pods[w].files[s] \in Signed /\ pods[w].files[s].key \in Nat
           /\ s \in SecretNames /\ secrets[s] # None
  <1>1. pods[w] \in Pod(w) /\ Mounted(w)
    BY DEF TypeInv, PodsTyped
  <1>2. pods[w].template \in Address /\ pods[w].files[s] \in Signed
    BY <1>1 DEF Pod
  <1>3. pods[w].files[s].key \in Nat
    BY <1>2, BoundAssumption DEF Signed
  <1>4. s \in SecretNames /\ secrets[s] # None
    BY <1>1, VolumesAreSecrets DEF Mounted
  <1> QED  BY <1>2, <1>3, <1>4

\* What is mounted now is not ahead of the CAs, which keep their newest key.
LEMMA SignersKeep ==
    ASSUME TypeInv, SecretsStay, NEW s \in SecretNames, secrets[s] # None
    PROVE  /\ secrets[s].key \in Nat /\ secrets[Signer[s]].key \in Nat
           /\ secrets[s].key <= secrets[Signer[s]].key
           /\ secrets'[Signer[s]].key >= secrets[Signer[s]].key
  <1>1. /\ secrets[s].key \in Nat /\ secrets[Signer[s]].key \in Nat
        /\ Signer[s] \in CASecrets
    BY SecretType DEF TypeInv
  <1>2. secrets[Signer[s]] # None /\ secrets[s].key <= secrets[Signer[s]].key
    BY DEF TypeInv, SecretsTyped
  <1> QED  BY <1>1, <1>2 DEF SecretsStay

LEMMA SignersKeepType ==
    ASSUME TypeInv, [Next]_vars, NEW s \in SecretNames, secrets[s] # None
    PROVE  secrets'[Signer[s]].key \in Nat
  <1>1. SecretsTyped' /\ SecretsStay
    BY TypeInvNext DEF TypeInv
  <1>2. Signer[s] \in SecretNames /\ secrets[Signer[s]] # None
    BY SignerIsCA DEF TypeInv, SecretsTyped
  <1>3. secrets'[Signer[s]] \in Signed
    BY <1>1, <1>2 DEF SecretsTyped, SecretsStay, Maybe
  <1> QED  BY <1>3, BoundAssumption DEF Signed

\* A step copies a Secret as it is into a pod, or leaves the pod's file.
CopiesOrKeeps ==
    \A w \in Names : pods'[w] # None =>
        \A s \in Workloads[w].volumes :
            \/ s \in SecretNames /\ secrets[s] # None /\ pods'[w].files[s] = secrets[s]
            \/ pods[w] # None /\ pods'[w].files[s] = pods[w].files[s]

LEMMA PodFiles ==
    ASSUME TypeInv, [Next]_vars
    PROVE  CopiesOrKeeps
  <1>0. /\ SecretsTyped /\ PodsTyped
    BY DEF TypeInv
  <1>1. CASE pods' = pods
    BY <1>1 DEF CopiesOrKeeps
  <1>2. ASSUME NEW w \in Names, Start(w) \/ Restart(w)
        PROVE  CopiesOrKeeps
    <2>1. Mounted(w)
      BY <1>0, <1>2 DEF Start, StartIsDue, Restart, PodsTyped
    <2>2. /\ pods'[w].files = Fresh(w).files
          /\ \A v \in Names \ {w} : pods'[v] = pods[v]
      <3>1. CASE Start(w)
        BY <1>0, <3>1 DEF Start, PodsTyped
      <3>2. CASE Restart(w)
        <4>1. pods[w] \in Pod(w)
          BY <1>0, <3>2 DEF Restart, PodsTyped
        <4>2. pods' = [pods EXCEPT ![w] = [pods[w] EXCEPT !.files = Fresh(w).files]]
          BY <3>2 DEF Restart
        <4> QED  BY <1>0, <4>1, <4>2 DEF Pod, PodsTyped
      <3> QED  BY <1>2, <3>1, <3>2
    <2>3. \A s \in Workloads[w].volumes :
              s \in SecretNames /\ secrets[s] # None /\ pods'[w].files[s] = secrets[s]
      BY <2>1, <2>2, VolumesAreSecrets DEF Fresh, Mounted
    <2> QED  BY <2>2, <2>3 DEF CopiesOrKeeps
  <1>3. ASSUME NEW s \in ServingSecrets, Reload(s)
        PROVE  CopiesOrKeeps
    <2>1. "apiserver" \in Names /\ pods["apiserver"] # None
      BY <1>3, VolumesAre DEF Reload, ReloadIsDue
    <2>2. pods["apiserver"] \in Pod("apiserver") /\ Mounted("apiserver")
      BY <1>0, <2>1 DEF PodsTyped
    <2>3. /\ pods'["apiserver"].files = [pods["apiserver"].files EXCEPT ![s] = secrets[s]]
          /\ \A v \in Names \ {"apiserver"} : pods'[v] = pods[v]
      <3>1. pods' = [pods EXCEPT !["apiserver"] =
                        [pods["apiserver"] EXCEPT !.files =
                            [pods["apiserver"].files EXCEPT ![s] = secrets[s]]]]
        BY <1>3 DEF Reload
      <3> QED  BY <1>0, <2>1, <2>2, <3>1 DEF Pod, PodsTyped
    <2>4. \A t \in Workloads["apiserver"].volumes :
              \/ t \in SecretNames /\ secrets[t] # None
                 /\ pods'["apiserver"].files[t] = secrets[t]
              \/ pods'["apiserver"].files[t] = pods["apiserver"].files[t]
      BY <2>1, <2>2, <2>3, VolumesAreSecrets DEF Pod, Mounted
    <2> QED  BY <2>1, <2>3, <2>4 DEF CopiesOrKeeps
  <1>4. CASE Relocate \/ Observe \/ Reconcile \/ Fails \/ ApplyAgent
    BY <1>1, <1>4, ObjectsTyped
  <1>5. CASE Sign \/ (\E ca \in CASecrets : Renew(ca)) \/ UNCHANGED vars
    BY <1>1, <1>5 DEF Sign, IssueCAs, Issue, Renew, vars
  <1> QED  BY <1>2, <1>3, <1>4, <1>5 DEF Next

LEMMA FilesBehindNext ==
    ASSUME TypeInv, FilesBehind, [Next]_vars
    PROVE  FilesBehind'
  <1>1. SecretsStay /\ CopiesOrKeeps
    BY TypeInvNext, PodFiles
  <1>2. SUFFICES ASSUME NEW w \in Names, pods'[w] # None,
                        NEW s \in Workloads[w].volumes
                 PROVE  pods'[w].files[s].key <= secrets'[Signer[s]].key
    BY DEF FilesBehind
  <1>3. CASE s \in SecretNames /\ secrets[s] # None /\ pods'[w].files[s] = secrets[s]
    <2>1. /\ secrets[s].key \in Nat /\ secrets[Signer[s]].key \in Nat
          /\ secrets[s].key <= secrets[Signer[s]].key
          /\ secrets'[Signer[s]].key >= secrets[Signer[s]].key
      BY <1>1, <1>3, SignersKeep
    <2>2. secrets'[Signer[s]].key \in Nat
      BY <1>3, SignersKeepType
    <2> QED  BY <1>3, <2>1, <2>2
  <1>4. CASE pods[w] # None /\ pods'[w].files[s] = pods[w].files[s]
    <2>1. /\ pods[w].files[s].key \in Nat /\ s \in SecretNames /\ secrets[s] # None
          /\ pods[w].files[s].key <= secrets[Signer[s]].key
      BY <1>4, FileType DEF FilesBehind
    <2>2. /\ secrets[Signer[s]].key \in Nat
          /\ secrets'[Signer[s]].key >= secrets[Signer[s]].key
      BY <1>1, <2>1, SignersKeep
    <2>3. secrets'[Signer[s]].key \in Nat
      BY <2>1, SignersKeepType
    <2> QED  BY <1>4, <2>1, <2>2, <2>3
  <1> QED  BY <1>1, <1>2, <1>3, <1>4 DEF CopiesOrKeeps

\* While a CA has its first key, so has what it signed.
LEMMA FirstKeys ==
    ASSUME TypeInv, FilesBehind, NEW w \in Names, pods[w] # None,
           NEW s \in Workloads[w].volumes, secrets[Signer[s]].key = 0
    PROVE  pods[w].files[s].key = 0
  BY FileType DEF FilesBehind

\* Each handshake is between a certificate and the CA that signed it, both with
\* the CA's first key.
LEMMA HandshakesHold ==
    ASSUME ByteSize = 256, Network.size >= 2, TypeInv, FilesBehind
    PROVE  TrustHolds
  <1> SUFFICES ASSUME NEW call \in Calls, Running(call), SameAddress(call),
                      NeverRenewed(call)
               PROVE  Verifies(call)
    BY DEF TrustHolds
  <1>1. ServingFits(call) /\ DialsFit(call) /\ ClientFits(call)
    BY CallsFit
  <1>2. pods[call.client] # None /\ pods[call.server] # None
    BY DEF Running
  <1>3. Signer[call.trusts] = call.trusts /\ Signer[call.accepts] = call.accepts
    BY <1>1, SignerIsCA DEF ServingFits
  <1>4. Chains(call.serving, call.server, call.trusts, call.client)
    BY <1>1, <1>2, <1>3, FirstKeys DEF Chains, ServingFits, NeverRenewed
  <1>5. Covers(call, pods[call.server].files[call.serving])
    <2>1. CASE call.dials.to = "name"
      BY <1>1, <2>1 DEF DialsFit, Covers
    <2>2. CASE call.dials.to = "service"
      BY <1>1, <2>2, FirstIsAtOffsetOne, NetworkAssumption DEF DialsFit, Covers
    <2>3. CASE call.dials.to = "address"
      BY <1>1, <2>3 DEF DialsFit, Covers, SameAddress
    <2> QED  BY <1>1, <2>1, <2>2, <2>3 DEF DialsFit
  <1>6. ASSUME call.cert # NoCertificate
        PROVE  Chains(call.cert, call.client, call.accepts, call.server)
    BY <1>1, <1>2, <1>3, <1>6, FirstKeys
    DEF Chains, ServingFits, ClientFits, NeverRenewed
  <1> QED
    BY <1>1, <1>4, <1>5, <1>6 DEF Verifies, ServingFits, ClientFits

\* Whenever two parts of the control plane that call each other both run, the
\* handshake succeeds on both sides, in whichever order Secrets were filled and
\* pods started, failed and started again, until a CA of the two is renewed: in
\* every service network that has an address for the Service "kubernetes".
THEOREM TrustCorrect ==
    ASSUME ByteSize = 256, Network.size >= 2
    PROVE  Spec => []TrustHolds
  <1> DEFINE Inv == TypeInv /\ FilesBehind
  <1>1. Init => Inv
    BY TypeInvInit DEF Init, FilesBehind
  <1>2. Inv /\ [Next]_vars => Inv'
    BY TypeInvNext, FilesBehindNext
  <1>3. Inv => TrustHolds
    BY HandshakesHold
  <1> HIDE DEF Inv
  <1> QED  BY <1>1, <1>2, <1>3, PTL DEF Spec

-----------------------------------------------------------------------------
(* Nobody waits for anybody. *)

\* The mounts of each workload name its volumes, its arguments files it mounts.
LEMMA WorkloadsConsistent == \A w \in Names : Consistent(w)
  <1>1. \A p \in {etcdStatefulSet, controllerManagerDeployment,
                  schedulerDeployment, konnectivityAgent} :
            \A c \in p.containers : c.mounts = p.volumes /\ c.files = p.volumes
    BY DEF etcdStatefulSet, controllerManagerDeployment, schedulerDeployment,
           konnectivityAgent
  <1>2. \A c \in apiserverDeployment.containers :
            c.mounts \subseteq apiserverDeployment.volumes /\ c.files \subseteq c.mounts
    <2> DEFINE all == Part(apiserverSecrets, DOMAIN apiserverSecrets)
               konnectivity ==
                   Part(apiserverSecrets, {"KonnectivityCA", "KonnectivityServer"})
    <2>1. konnectivity \subseteq all
      BY DEF Part, apiserverSecrets
    <2> QED  BY <2>1 DEF apiserverDeployment
  <1>3. \A w \in {"etcd", "cm", "scheduler", "agent"} :
            Workloads[w] \in {etcdStatefulSet, controllerManagerDeployment,
                              schedulerDeployment, konnectivityAgent}
    BY DEF Workloads
  <1>4. Workloads["apiserver"] = apiserverDeployment
    BY DEF Workloads
  <1> QED  BY ONLY <1>1, <1>2, <1>3, <1>4, VolumesAre DEF Consistent

\* A CA names no address.
LEMMA ServingAreLeaves == ServingSecrets \subseteq Leaves
  <1> SUFFICES ASSUME NEW s \in SecretNames, CertificateOf[s].exposed
               PROVE  s \notin CASecrets
    BY DEF ServingSecrets, Leaves
  <1>1. CertificateOf[s] \in certificateResources /\ CertificateOf[s].secret = s
    BY DEF SecretNames, CertificateOf
  <1>2. \A c \in rootCAs : ~ c.exposed
    BY DEF rootCAs, Certificate
  <1>3. \A c \in certificateResources : c.secret \in CASecrets => c \in rootCAs
    BY CertificateRows, CANames DEF certificateResources, Row
  <1> QED  BY <1>1, <1>2, <1>3

\* Only the agents dial the address, and it is the API server's pod they reach.
LEMMA AddressCalls ==
    ASSUME NEW call \in Calls, call.dials.to = "address"
    PROVE  /\ call.client = "agent" /\ call.server = "apiserver"
           /\ call.serving \in ServingSecrets
  <1>1. /\ agentCalls.client = "agent" /\ agentCalls.server = "apiserver"
        /\ agentCalls.serving = "konnectivity-server-tls"
    BY DEF agentCalls, Call, apiserverSecrets, Secret
  <1>2. \A c \in Calls : c.dials.to = "address" => c = agentCalls
    BY DEF Calls, ETCDHealthProbe, etcdServers, controllerManagerKubeconfig,
           schedulerKubeconfig, podCalls, BuildComponentKubeconfig, Call
  <1>3. "konnectivity-server-tls" \in ServingSecrets
    BY ServingCertificates, SecretsOfCertificates DEF ServingSecrets
  <1> QED  BY <1>1, <1>2, <1>3

\* When nothing is left to apply, the status, and all that is rendered from it,
\* has the load balancer's address: the status is between what the Certificates
\* ask for and what the cache saw.
LEMMA QuietApplied ==
    ASSUME IInv, Quiet
    PROVE  /\ wanted = lb /\ wanted # None
           /\ kubeconfig # None /\ kubeconfig.server = lb
           /\ deployed["agent"] = lb
           /\ \A w \in Names : deployed[w] # None
  <1>1. lb \in Nat /\ lb # None /\ 0 # None /\ status \in Nat
    BY NoneAssumption DEF IInv, Typed
  <1>2. wanted = lb /\ seen = lb
    BY DEF Quiet, NothingToApply, Applied
  <1>3. kubeconfig # None /\ kubeconfig.server = lb
    BY DEF Quiet, NothingToApply, Applied
  <1>4. status = lb
    BY <1>1, <1>2 DEF IInv, StatusBehind, WantedBehind
  <1>5. deployed["agent"] = lb
    BY <1>4 DEF Quiet, NothingToApply, AgentIsBehind
  <1>6. \A w \in {"etcd", "apiserver", "cm", "scheduler"} : deployed[w] \in {lb, 0}
    BY VolumesAre DEF Quiet, NothingToApply, Applied, Then
  <1> QED  BY <1>1, <1>2, <1>3, <1>5, <1>6, VolumesAre

\* When nothing is left to sign, all Secrets are filled, with that address.
LEMMA QuietSigned ==
    ASSUME Quiet, wanted # None
    PROVE  /\ \A s \in SecretNames : secrets[s] # None
           /\ \A s \in ServingSecrets : secrets[s].address = wanted
  <1>1. \A ca \in CASecrets : secrets[ca] # None
    BY DEF Quiet, CAsAreDue
  <1>2. ASSUME NEW s \in Leaves
        PROVE  secrets[s] # None /\ secrets[s].address = Asked(s)
    <2>1. Signer[s] \in CASecrets /\ s \in SignedBy[Signer[s]]
      BY SignerIsCA DEF SignedBy, Leaves
    <2> QED  BY <1>1, <2>1 DEF Quiet, IssueIsDue, Outdated
  <1>3. \A s \in SecretNames : secrets[s] # None
    BY <1>1, <1>2 DEF Leaves
  <1>4. \A s \in ServingSecrets : secrets[s].address = wanted
    BY <1>2, ServingAreLeaves DEF ServingSecrets, Asked
  <1> QED  BY <1>3, <1>4

\* When nothing is left to start or to take up either, all pods run, and both
\* ends of a call to the address know the same one.
LEMMA QuietRuns ==
    ASSUME IInv, Quiet
    PROVE  /\ Serves
           /\ \A call \in Calls : Running(call) /\ SameAddress(call)
  <1>1. /\ wanted = lb /\ wanted # None
        /\ kubeconfig # None /\ kubeconfig.server = lb
        /\ deployed["agent"] = lb /\ \A w \in Names : deployed[w] # None
    BY QuietApplied
  <1>2. /\ \A s \in SecretNames : secrets[s] # None
        /\ \A s \in ServingSecrets : secrets[s].address = lb
    BY <1>1, QuietSigned
  <1>3. \A w \in Names : Consistent(w) /\ Mounted(w)
    BY <1>2, WorkloadsConsistent, VolumesAreSecrets DEF Mounted
  <1>4. \A w \in Names : pods[w] # None /\ pods[w].template = deployed[w]
    BY <1>1, <1>3 DEF Quiet, StartIsDue
  <1>5. \A s \in ServingSecrets : pods["apiserver"].files[s].address = lb
    BY <1>2, <1>4, VolumesAre DEF Quiet, ReloadIsDue
  <1>6. pods["agent"].template = lb
    BY <1>1, <1>4, VolumesAre
  <1>7. Serves
    BY <1>1, <1>4, <1>5, <1>6 DEF Serves
  <1>8. \A call \in Calls : Running(call)
    BY <1>4, CallsFit DEF Running, ServingFits
  <1>9. \A call \in Calls : SameAddress(call)
    BY <1>5, <1>6, AddressCalls DEF SameAddress
  <1> QED  BY <1>7, <1>8, <1>9

\* When the operator, cert-manager, the pods and the servers have nothing left to
\* do, all run with the load balancer's last address and trust each other, in
\* whichever order they came to it and whatever failed: in every service network
\* that has an address for the Service "kubernetes".
THEOREM QuietCorrect ==
    ASSUME ByteSize = 256, Network.size >= 2
    PROVE  Spec => []QuietServes
  <1> DEFINE Inv == IInv /\ TypeInv /\ FilesBehind
  <1>1. Init => Inv
    BY Starts, TypeInvInit DEF Init, FilesBehind
  <1>2. Inv /\ [Next]_vars => Inv'
    BY Steps, TypeInvNext, FilesBehindNext
  <1>3. Inv => QuietServes
    BY QuietRuns, HandshakesHold DEF QuietServes, TrustHolds
  <1> HIDE DEF Inv
  <1> QED  BY <1>1, <1>2, <1>3, PTL DEF Spec

-----------------------------------------------------------------------------
(* Credentials only go forward. *)

\* No certificate names an address that it is not asked to name any more.
AskedBehind ==
    \A s \in SecretNames : secrets[s] # None =>
        wanted # None /\ secrets[s].address <= Asked(s)

\* The copies in pods are not newer than the Secrets.
CopiesBehind ==
    \A w \in Names : pods[w] # None =>
        \A s \in Workloads[w].volumes : NotOlder(secrets[s], pods[w].files[s])

\* Nor is the certificate in the admin kubeconfig.
AdminBehind ==
    kubeconfig # None =>
        /\ secrets[Secret.AdminClient] # None
        /\ kubeconfig.key <= secrets[Secret.AdminClient].key

ForwardInv == AskedBehind /\ CopiesBehind /\ AdminBehind

\* What a step does to the Secrets, to the pods and to the kubeconfig.
SecretsForward ==
    \A s \in SecretNames : secrets[s] # None =>
        secrets'[s] # None /\ NotOlder(secrets'[s], secrets[s])
PodsForward ==
    \A w \in Names : pods[w] # None =>
        /\ pods'[w] # None
        /\ \A s \in Workloads[w].volumes :
              NotOlder(pods'[w].files[s], pods[w].files[s])
KubeconfigForward ==
    kubeconfig # None =>
        /\ kubeconfig' # None
        /\ kubeconfig.server <= kubeconfig'.server
        /\ kubeconfig.key <= kubeconfig'.key

\* The numbers of a certificate.
LEMMA SignedNumbers ==
    ASSUME NEW c \in Signed
    PROVE  c.key \in Nat /\ c.address \in Nat
  BY BoundAssumption DEF Signed, Address

LEMMA NotOlderTrans ==
    ASSUME NEW a \in Signed, NEW b \in Signed, NEW c \in Signed,
           NotOlder(a, b), NotOlder(b, c)
    PROVE  NotOlder(a, c)
  BY SignedNumbers DEF NotOlder

LEMMA NotOlderSelf ==
    ASSUME NEW c \in Signed
    PROVE  NotOlder(c, c)
  BY SignedNumbers DEF NotOlder

\* What a certificate is asked to name, once there is one to ask.
LEMMA AskedType ==
    ASSUME RestTyped, wanted # None, NEW s \in SecretNames
    PROVE  Asked(s) \in Nat
  BY BoundAssumption DEF RestTyped, Asked, Maybe, Address

\* The Certificates ask for no earlier address than before, and nothing but
\* cert-manager writes Secrets.
LEMMA WantedForward ==
    ASSUME IInv, [Next]_vars, wanted # None
    PROVE  wanted' # None /\ wanted \in Nat /\ wanted' \in Nat /\ wanted <= wanted'
  <1>1. wanted \in Nat
    BY DEF IInv, Typed
  <1>2. CASE wanted' = wanted
    BY <1>1, <1>2
  <1>3. CASE ApplyPKI
    <2>1. pass # Idle /\ pass.address \in Nat /\ wanted' = pass.address
      BY <1>3, GoesOn DEF ApplyPKI, IInv, Typed
    <2>2. wanted <= pass.address
      BY <2>1 DEF IInv, WantedBehind
    <2> QED  BY <1>1, <2>1, <2>2, NoneAssumption
  <1> QED
    BY <1>2, <1>3
    DEF Next, Relocate, Observe, Reconcile, Begin, Apply, ApplyAdmin, AdminWaits,
        Fails, EndPass, ApplyAgent, Sign, IssueCAs, Issue, Renew, Start, Restart,
        Reload, vars, reconcilerVars, objectVars

\* Signing writes the newest key of the CA and the address that is asked for
\* now, and a renewed CA has a newer key.
LEMMA SecretsGoForward ==
    ASSUME TypeInv, ForwardInv, [Next]_vars
    PROVE  SecretsForward
  <1>0. SecretsTyped /\ RestTyped
    BY DEF TypeInv
  <1>k. \A s \in SecretNames : secrets[s] # None =>
            /\ secrets[s] \in Signed
            /\ secrets[s].key \in Nat /\ secrets[s].address \in Nat
    BY <1>0, SecretType, SignedNumbers
  <1>1. CASE secrets' = secrets
    BY <1>1, <1>k, NotOlderSelf DEF SecretsForward
  <1>2. CASE IssueCAs
    <2>1. \A s \in SecretNames : secrets[s] = None
      BY <1>0, <1>2, SignerIsCA DEF IssueCAs, CAsAreDue, SecretsTyped
    <2> QED  BY <2>1 DEF SecretsForward
  <1>3. ASSUME NEW ca \in CASecrets, Issue(ca)
        PROVE  SecretsForward
    <2>1. SUFFICES ASSUME NEW s \in SecretNames, secrets[s] # None
                   PROVE  secrets'[s] # None /\ NotOlder(secrets'[s], secrets[s])
      BY DEF SecretsForward
    <2>2. CASE s \in SignedBy[ca] /\ Outdated(s)
      <3>1. secrets'[s] = [key |-> secrets[ca].key, address |-> Asked(s)]
        BY <1>3, <2>2 DEF Issue
      <3>2. secrets[s].key <= secrets[ca].key
        BY <1>0, <2>1, <2>2 DEF SignedBy, SecretsTyped
      <3>3. secrets[s].address <= Asked(s) /\ Asked(s) \in Nat
        BY <1>0, <2>1, AskedType DEF ForwardInv, AskedBehind
      <3>4. secrets'[s] # None
        BY <1>0, <1>3, <2>1, IssueTyped DEF SecretsStay, RestTyped
      <3> QED  BY <3>1, <3>2, <3>3, <3>4 DEF NotOlder
    <2>3. CASE ~ (s \in SignedBy[ca] /\ Outdated(s))
      <3>1. secrets'[s] = secrets[s]
        BY <1>3, <2>3 DEF Issue
      <3> QED  BY <1>k, <2>1, <3>1, NotOlderSelf
    <2> QED  BY <2>2, <2>3
  <1>4. ASSUME NEW ca \in CASecrets, Renew(ca)
        PROVE  SecretsForward
    <2>1. SUFFICES ASSUME NEW s \in SecretNames, secrets[s] # None
                   PROVE  secrets'[s] # None /\ NotOlder(secrets'[s], secrets[s])
      BY DEF SecretsForward
    <2>2. secrets'[s] # None
      BY <1>0, <1>4, <2>1, RenewTyped DEF SecretsStay, RestTyped
    <2>3. CASE s = ca
      <3>1. secrets[s] \in [key : 0..MaxFaults, address : Address]
        BY <1>k, <2>1 DEF Signed
      <3>2. secrets'[s] = [secrets[s] EXCEPT !.key = @ + 1]
        BY <1>0, <1>4, <2>3 DEF Renew, SecretsTyped
      <3>3. secrets'[s].key = secrets[s].key + 1 /\ secrets'[s].address = secrets[s].address
        BY <3>1, <3>2
      <3> QED  BY <1>k, <2>1, <2>2, <3>3 DEF NotOlder
    <2>4. CASE s # ca
      <3>1. secrets'[s] = secrets[s]
        BY <1>0, <1>4, <2>4 DEF Renew, SecretsTyped
      <3> QED  BY <1>k, <2>1, <3>1, NotOlderSelf
    <2> QED  BY <2>3, <2>4
  <1>5. CASE Relocate \/ Observe \/ Reconcile \/ Fails \/ ApplyAgent
    BY <1>1, <1>5, ObjectsTyped
  <1>6. CASE \/ \E w \in Names : Start(w) \/ Restart(w)
             \/ \E s \in ServingSecrets : Reload(s)
             \/ UNCHANGED vars
    BY <1>1, <1>6 DEF Start, Restart, Reload, vars
  <1> QED  BY <1>2, <1>3, <1>4, <1>5, <1>6 DEF Next, Sign

\* A certificate is written as it is asked for.
LEMMA AskedBehindNext ==
    ASSUME TypeInv, IInv, ForwardInv, [Next]_vars
    PROVE  AskedBehind'
  <1>0. SecretsTyped /\ RestTyped /\ SecretsTyped' /\ RestTyped'
    BY TypeInvNext DEF TypeInv
  <1>1. SUFFICES ASSUME NEW s \in SecretNames, secrets'[s] # None
                 PROVE  wanted' # None /\ secrets'[s].address <= Asked(s)'
    BY DEF AskedBehind
  <1>2. ASSUME wanted # None
        PROVE  /\ wanted' # None /\ Asked(s) \in Nat /\ Asked(s)' \in Nat
               /\ Asked(s) <= Asked(s)'
    BY <1>2, WantedForward DEF Asked
  <1>3. ASSUME secrets[s] # None, secrets'[s].address = secrets[s].address
        PROVE  wanted' # None /\ secrets'[s].address <= Asked(s)'
    <2>1. wanted # None /\ secrets[s].address <= Asked(s)
      BY <1>3 DEF ForwardInv, AskedBehind
    <2>2. secrets[s].address \in Nat
      BY <1>0, <1>3, SecretType, SignedNumbers
    <2> QED  BY <1>2, <1>3, <2>1, <2>2
  <1>4. CASE secrets' = secrets
    BY <1>1, <1>3, <1>4
  <1>5. CASE IssueCAs
    <2>1. wanted # None /\ (secrets'[s].address = 0 \/ secrets'[s] = secrets[s])
      BY <1>5 DEF IssueCAs, CAsAreDue
    <2> QED  BY <1>1, <1>2, <1>3, <2>1
  <1>6. ASSUME NEW ca \in CASecrets, Issue(ca)
        PROVE  wanted' # None /\ secrets'[s].address <= Asked(s)'
    <2>1. wanted # None /\ (secrets'[s].address = Asked(s) \/ secrets'[s] = secrets[s])
      BY <1>6 DEF Issue, IssueIsDue
    <2> QED  BY <1>1, <1>2, <1>3, <2>1
  <1>7. ASSUME NEW ca \in CASecrets, Renew(ca)
        PROVE  wanted' # None /\ secrets'[s].address <= Asked(s)'
    <2>1. secrets[s] # None
      BY <1>0, <1>1, <1>7, SignerIsCA DEF Renew, SecretsTyped
    <2>2. secrets[s] \in [key : 0..MaxFaults, address : Address]
      BY <1>0, <2>1, SecretType DEF Signed
    <2>3. secrets'[s] = secrets[s] \/ secrets'[s] = [secrets[s] EXCEPT !.key = @ + 1]
      BY <1>0, <1>7 DEF Renew, SecretsTyped
    <2> QED  BY <1>3, <2>1, <2>2, <2>3
  <1>8. CASE Relocate \/ Observe \/ Reconcile \/ Fails \/ ApplyAgent
    BY <1>4, <1>8, ObjectsTyped
  <1>9. CASE \/ \E w \in Names : Start(w) \/ Restart(w)
             \/ \E t \in ServingSecrets : Reload(t)
             \/ UNCHANGED vars
    BY <1>4, <1>9 DEF Start, Restart, Reload, vars
  <1> QED  BY <1>5, <1>6, <1>7, <1>8, <1>9 DEF Next, Sign

\* What the copies in a pod are after a step.
LEMMA FileTypeNext ==
    ASSUME TypeInv', NEW w \in Names, pods'[w] # None, NEW s \in Workloads[w].volumes
    PROVE  s \in SecretNames /\ pods'[w].files[s] \in Signed
  <1>1. pods'[w] \in Pod(w)
    BY DEF TypeInv, PodsTyped
  <1> QED  BY <1>1, VolumesAreSecrets DEF Pod

\* What is copied into a pod takes the place of something that is not newer.
LEMMA PodsGoForward ==
    ASSUME TypeInv, CopiesBehind, SecretsForward, [Next]_vars
    PROVE  PodsForward /\ CopiesBehind'
  <1>1. CopiesOrKeeps /\ TypeInv'
    BY PodFiles, TypeInvNext
  <1>2. \A w \in Names : pods[w] # None => pods'[w] # None
    <2>1. CASE pods' = pods
      BY <2>1
    <2>2. ASSUME NEW w \in Names, Start(w) \/ Restart(w)
          PROVE  pods'[w] # None /\ \A v \in Names \ {w} : pods'[v] = pods[v]
      BY <2>2, PodStarts
    <2>3. ASSUME NEW s \in ServingSecrets, Reload(s)
          PROVE  /\ pods'["apiserver"] # None
                 /\ \A v \in Names \ {"apiserver"} : pods'[v] = pods[v]
      BY <2>3, PodReloads
    <2>4. CASE Relocate \/ Observe \/ Reconcile \/ Fails \/ ApplyAgent
      BY <2>1, <2>4, ObjectsTyped
    <2>5. CASE Sign \/ (\E ca \in CASecrets : Renew(ca)) \/ UNCHANGED vars
      BY <2>1, <2>5 DEF Sign, IssueCAs, Issue, Renew, vars
    <2> QED  BY <2>2, <2>3, <2>4, <2>5 DEF Next
  <1>3. ASSUME NEW w \in Names, pods'[w] # None, NEW s \in Workloads[w].volumes
        PROVE  /\ NotOlder(secrets'[s], pods'[w].files[s])
               /\ pods[w] # None => NotOlder(pods'[w].files[s], pods[w].files[s])
    <2>1. s \in SecretNames /\ pods'[w].files[s] \in Signed
      BY <1>1, <1>3, FileTypeNext
    <2>2. ASSUME pods[w] # None
          PROVE  /\ pods[w].files[s] \in Signed /\ secrets[s] # None
                 /\ NotOlder(secrets[s], pods[w].files[s])
      BY <1>3, <2>2, FileType DEF CopiesBehind
    <2>3. ASSUME secrets[s] # None
          PROVE  /\ secrets[s] \in Signed /\ secrets'[s] \in Signed
                 /\ NotOlder(secrets'[s], secrets[s])
      BY <1>1, <2>1, <2>3, SecretType DEF SecretsForward, TypeInv, SecretsTyped, Maybe
    <2>4. CASE secrets[s] # None /\ pods'[w].files[s] = secrets[s]
      BY <2>2, <2>3, <2>4
    <2>5. CASE pods[w] # None /\ pods'[w].files[s] = pods[w].files[s]
      BY <2>2, <2>3, <2>5, NotOlderTrans, NotOlderSelf
    <2> QED  BY <1>1, <1>3, <2>4, <2>5 DEF CopiesOrKeeps
  <1> QED  BY <1>2, <1>3 DEF PodsForward, CopiesBehind

\* A reconcile writes the kubeconfig with the address it has given to the
\* Certificates and with the certificate as it is now.
LEMMA KubeconfigGoesForward ==
    ASSUME TypeInv, IInv, AdminBehind, SecretsForward, [Next]_vars
    PROVE  KubeconfigForward /\ AdminBehind'
  <1> DEFINE admin == Secret.AdminClient
  <1>0. admin \in SecretNames
    BY SecretsOfCertificates DEF Secret
  <1>1. ASSUME secrets[admin] # None
        PROVE  /\ secrets[admin].key \in Nat /\ secrets'[admin].key \in Nat
               /\ secrets'[admin] # None /\ secrets[admin].key <= secrets'[admin].key
    <2>1. secrets[admin] \in Signed /\ secrets'[admin] \in Signed
          /\ secrets'[admin] # None /\ NotOlder(secrets'[admin], secrets[admin])
      BY <1>0, <1>1, TypeInvNext, SecretType
      DEF SecretsForward, TypeInv, SecretsTyped, Maybe
    <2> QED  BY <2>1, SignedNumbers DEF NotOlder
  <1>2. ASSUME kubeconfig # None
        PROVE  /\ kubeconfig.server \in Nat /\ kubeconfig.key \in Nat
               /\ secrets[admin] # None /\ kubeconfig.key <= secrets[admin].key
               /\ wanted \in Nat /\ kubeconfig.server <= wanted
    <2>1. kubeconfig \in Kubeconfig
      BY <1>2 DEF TypeInv, RestTyped, Maybe
    <2>2. wanted \in Nat /\ kubeconfig.server <= wanted
      BY <1>2 DEF IInv, KubeconfigNotAhead, Typed
    <2> QED  BY <1>2, <2>1, <2>2, BoundAssumption DEF AdminBehind, Kubeconfig
  <1> HIDE DEF admin
  <1>3. CASE kubeconfig' = kubeconfig
    BY <1>1, <1>2, <1>3 DEF KubeconfigForward, AdminBehind, admin
  <1>4. CASE ApplyAdmin
    <2>1. /\ secrets[admin] # None /\ secrets' = secrets
          /\ kubeconfig' = [server |-> pass.address, key |-> secrets[admin].key]
      BY <1>4 DEF ApplyAdmin, AdminInputsThere, admin
    <2>2. pass.address = wanted
      BY <1>4 DEF ApplyAdmin, IInv, WantedBehind
    <2>3. kubeconfig' \in Kubeconfig
      <3>1. pass.address \in 1..MaxAddress
        BY <1>4, BoundAssumption
        DEF ApplyAdmin, AdminInputsThere, TypeInv, RestTyped, Address
      <3>2. secrets[admin].key \in 0..MaxFaults
        BY <1>0, <2>1, SecretType DEF TypeInv, Signed, admin
      <3> QED  BY <2>1, <3>1, <3>2 DEF Kubeconfig
    <2>4. kubeconfig' # None
      BY <2>3, NoneAssumption
    <2>5. KubeconfigForward
      BY <1>2, <2>1, <2>2, <2>4 DEF KubeconfigForward
    <2>6. AdminBehind'
      BY <1>1, <2>1 DEF AdminBehind, admin
    <2> QED  BY <2>5, <2>6
  <1> QED
    BY <1>3, <1>4
    DEF Next, Relocate, Observe, Reconcile, Begin, ApplyPKI, Apply, AdminWaits,
        Fails, EndPass, ApplyAgent, Sign, IssueCAs, Issue, Renew, Start, Restart,
        Reload, vars, reconcilerVars, objectVars

\* Whatever reconciles with an address of before, pods that copy Secrets at any
\* time and renewed CAs do: no certificate, no copy of one and no admin
\* kubeconfig is replaced by one for an earlier address or of an earlier key.
THEOREM CredentialsCorrect == Spec => CredentialsForward
  <1> DEFINE Inv == TypeInv /\ IInv /\ ForwardInv
  <1>1. Init => Inv
    <2>1. Init => ForwardInv
      BY DEF Init, ForwardInv, AskedBehind, CopiesBehind, AdminBehind
    <2> QED  BY <2>1, TypeInvInit, Starts
  <1>2. Inv /\ [Next]_vars => Inv' /\ SecretsForward /\ PodsForward /\ KubeconfigForward
    <2> SUFFICES ASSUME Inv, [Next]_vars
                 PROVE  Inv' /\ SecretsForward /\ PodsForward /\ KubeconfigForward
      OBVIOUS
    <2>1. SecretsForward
      BY SecretsGoForward
    <2>2. PodsForward /\ CopiesBehind'
      BY <2>1, PodsGoForward DEF ForwardInv
    <2>3. KubeconfigForward /\ AdminBehind'
      BY <2>1, KubeconfigGoesForward DEF ForwardInv
    <2>4. AskedBehind'
      BY AskedBehindNext
    <2>5. TypeInv' /\ IInv'
      BY TypeInvNext, Steps
    <2> QED  BY <2>1, <2>2, <2>3, <2>4, <2>5 DEF ForwardInv
  <1>3. SecretsForward /\ PodsForward /\ KubeconfigForward
           => [/\ \A s \in SecretNames : secrets[s] \notin {None, secrets'[s]} =>
                     secrets'[s] # None /\ NotOlder(secrets'[s], secrets[s])
               /\ \A w \in Names : pods[w] \notin {None, pods'[w]} =>
                     /\ pods'[w] # None
                     /\ \A s \in Workloads[w].volumes :
                           NotOlder(pods'[w].files[s], pods[w].files[s])
               /\ kubeconfig # None =>
                     /\ kubeconfig' # None
                     /\ kubeconfig.server <= kubeconfig'.server
                     /\ kubeconfig.key <= kubeconfig'.key]_<<secrets, pods, kubeconfig>>
    BY DEF SecretsForward, PodsForward, KubeconfigForward
  <1> HIDE DEF Inv
  <1> QED  BY <1>1, <1>2, <1>3, PTL DEF Spec, CredentialsForward
=============================================================================
