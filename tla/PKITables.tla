----------------------------- MODULE PKITables ------------------------------
(***************************************************************************)
(* The certificates of a control plane (pkg/resources/pki, pkg/cluster)    *)
(* and the workloads that mount them (pkg/resources/etcd, apiserver,       *)
(* controllermanager, scheduler), one definition per builder or facade.    *)
(*                                                                         *)
(* Of a certificate the tables keep who signs it, what it may be used for  *)
(* and whom it names; of a workload the Secrets it mounts and the Secrets  *)
(* its command line points into.  A host name is the sequence of its       *)
(* parts, "ns" for the namespace, without the control plane's name.        *)
(***************************************************************************)
EXTENDS Sequences

Secret ==
    [ManagedCA |-> "managed-ca", EtcdCA |-> "etcd-ca",
     FrontProxyCA |-> "front-proxy-ca", KonnectivityCA |-> "konnectivity-ca",
     SASigner |-> "sa-signer", APIServerTLS |-> "apiserver-tls",
     APIServerKubeletClient |-> "apiserver-kubelet-client",
     EtcdServerTLS |-> "etcd-server-tls", EtcdPeerTLS |-> "etcd-peer-tls",
     EtcdHealthClient |-> "etcd-healthcheck-client",
     APIServerEtcdClient |-> "apiserver-etcd-client",
     FrontProxyClient |-> "front-proxy-client", CMClient |-> "cm-client",
     SchedulerClient |-> "scheduler-client", AdminClient |-> "admin-client",
     KonnectivityServerTLS |-> "konnectivity-server-tls",
     KonnectivityAgentTLS |-> "konnectivity-agent-tls"]

Issuer ==
    [SelfSigned |-> "selfsigned", CA |-> "ca-issuer",
     EtcdSelfSigned |-> "etcd-selfsigned", EtcdCA |-> "etcd-ca-issuer",
     FrontProxySelfSigned |-> "front-proxy-selfsigned",
     FrontProxyCA |-> "front-proxy-ca-issuer",
     KonnectivitySelfSigned |-> "konnectivity-selfsigned",
     KonnectivityCA |-> "konnectivity-ca-issuer"]

\* The issuers that sign with a CA, and the Secret of that CA.  The other four
\* issuers sign a certificate with its own key.
issuerResources ==
    {[issuer |-> Issuer.CA, ca |-> Secret.ManagedCA],
     [issuer |-> Issuer.EtcdCA, ca |-> Secret.EtcdCA],
     [issuer |-> Issuer.FrontProxyCA, ca |-> Secret.FrontProxyCA],
     [issuer |-> Issuer.KonnectivityCA, ca |-> Secret.KonnectivityCA]}

selfSignedIssuers ==
    {Issuer.SelfSigned, Issuer.EtcdSelfSigned, Issuer.FrontProxySelfSigned,
     Issuer.KonnectivitySelfSigned}

-----------------------------------------------------------------------------
(* Certificates.  An exposed one also names the first address of the       *)
(* service network and the address in the control plane's status.          *)

Certificate(secret, subject, issuer) ==
    [secret |-> secret, subject |-> subject, issuer |-> issuer, auth |-> {},
     groups |-> {}, names |-> {}, exposed |-> FALSE]

ServerAuth(names, c) == [c EXCEPT !.auth = @ \union {"server"}, !.names = names]
ClientAuth(c) == [c EXCEPT !.auth = @ \union {"client"}]
Exposed(c) == [c EXCEPT !.exposed = TRUE]

Masters == "system:masters"
InMasters(c) == [c EXCEPT !.groups = {Masters}]

\* A service's name inside the cluster, short and long.
ServiceNames(parts) == {parts \o <<"svc">>, parts \o <<"svc", "cluster.local">>}

rootCAs ==
    {Certificate(Secret.ManagedCA, "managed-ca", Issuer.SelfSigned),
     Certificate(Secret.EtcdCA, "etcd-ca", Issuer.EtcdSelfSigned),
     Certificate(Secret.FrontProxyCA, "kubernetes-front-proxy-ca",
                 Issuer.FrontProxySelfSigned),
     Certificate(Secret.KonnectivityCA, "konnectivity-ca",
                 Issuer.KonnectivitySelfSigned)}

saSigner == Certificate(Secret.SASigner, "sa-signer", Issuer.CA)

\* Mutant: only the names the managed cluster's workloads use.
kubernetesSANs ==
    ServiceNames(<<"kubernetes", "default">>)
    \union {<<"kubernetes">>, <<"kubernetes", "default">>, <<"localhost">>}

apiserverSANs ==
    ServiceNames(<<"apiserver", "ns">>)
    \union ServiceNames(<<"kube-apiserver", "ns">>)
    \union ServiceNames(<<"kubernetes", "default">>)
    \union {<<"kubernetes">>, <<"kubernetes", "default">>, <<"localhost">>,
            <<"127.0.0.1">>}

apiserverTLS ==
    Exposed(ServerAuth(apiserverSANs,
        Certificate(Secret.APIServerTLS, "kube-apiserver", Issuer.CA)))

konnectivityServerSANs ==
    {<<"konnectivity-server">>, <<"konnectivity-server", "ns">>,
     <<"konnectivity-server", "ns", "svc">>, <<"127.0.0.1">>}

konnectivityServerTLS ==
    Exposed(ServerAuth(konnectivityServerSANs,
        Certificate(Secret.KonnectivityServerTLS, "konnectivity-server",
                    Issuer.KonnectivityCA)))

apiserverKubeletClient ==
    InMasters(ClientAuth(Certificate(Secret.APIServerKubeletClient,
        "kube-apiserver-kubelet-client", Issuer.CA)))

konnectivityAgentTLS ==
    ClientAuth(Certificate(Secret.KonnectivityAgentTLS, "konnectivity-agent",
                           Issuer.KonnectivityCA))

\* The one member: the StatefulSet's pod 0, by the Service that governs it.
etcdMember == "etcd-0"
etcdNames ==
    ServiceNames(<<etcdMember, "etcd", "ns">>)
    \union ServiceNames(<<"etcd", "ns">>)
    \union {<<"localhost">>}

etcdServerTLS ==
    ClientAuth(ServerAuth(etcdNames,
        Certificate(Secret.EtcdServerTLS, etcdMember, Issuer.EtcdCA)))

etcdPeerTLS ==
    ClientAuth(ServerAuth(etcdNames,
        Certificate(Secret.EtcdPeerTLS, etcdMember, Issuer.EtcdCA)))

etcdHealthClient ==
    ClientAuth(Certificate(Secret.EtcdHealthClient,
                           "kube-etcd-healthcheck-client", Issuer.EtcdCA))

apiserverEtcdClient ==
    ClientAuth(Certificate(Secret.APIServerEtcdClient,
                           "kube-apiserver-etcd-client", Issuer.EtcdCA))

frontProxyClient ==
    ClientAuth(Certificate(Secret.FrontProxyClient, "front-proxy-client",
                           Issuer.FrontProxyCA))

cmClient ==
    ClientAuth(Certificate(Secret.CMClient, "system:kube-controller-manager",
                           Issuer.CA))

schedulerClient ==
    ClientAuth(Certificate(Secret.SchedulerClient, "system:kube-scheduler",
                           Issuer.CA))

adminClient ==
    InMasters(ClientAuth(Certificate(Secret.AdminClient, "kubernetes-admin",
                                     Issuer.CA)))

certificateResources ==
    rootCAs \union
    {saSigner, apiserverTLS, konnectivityServerTLS, apiserverKubeletClient,
     konnectivityAgentTLS, etcdServerTLS, etcdPeerTLS, etcdHealthClient,
     apiserverEtcdClient, frontProxyClient, cmClient, schedulerClient,
     adminClient}

-----------------------------------------------------------------------------
(* Facades: which Secret plays which part for a component (pkg/cluster).   *)

etcdSecrets ==
    [CA |-> Secret.EtcdCA, ServerTLS |-> Secret.EtcdServerTLS,
     PeerTLS |-> Secret.EtcdPeerTLS, HealthClient |-> Secret.EtcdHealthClient]

apiserverSecrets ==
    [ClientCA |-> Secret.ManagedCA, ServingTLS |-> Secret.APIServerTLS,
     EtcdCA |-> Secret.EtcdCA, EtcdClient |-> Secret.APIServerEtcdClient,
     KubeletClient |-> Secret.APIServerKubeletClient,
     SASigner |-> Secret.SASigner, FrontProxyCA |-> Secret.FrontProxyCA,
     FrontProxyClient |-> Secret.FrontProxyClient,
     KonnectivityCA |-> Secret.KonnectivityCA,
     KonnectivityServer |-> Secret.KonnectivityServerTLS]

controllerManagerSecrets ==
    [ClusterCA |-> Secret.ManagedCA, ClientCert |-> Secret.CMClient,
     SASigner |-> Secret.SASigner]

schedulerSecrets ==
    [ClusterCA |-> Secret.ManagedCA, ClientCert |-> Secret.SchedulerClient]

konnectivitySecrets ==
    [CA |-> Secret.KonnectivityCA, AgentTLS |-> Secret.KonnectivityAgentTLS]

-----------------------------------------------------------------------------
(* Workloads: the Secret volumes of the pod, and of each container the     *)
(* Secrets it mounts and those its arguments name files of.                *)

Part(f, names) == {f[x] : x \in names}

etcdStatefulSet ==
    LET all == Part(etcdSecrets, DOMAIN etcdSecrets)
    IN  [volumes |-> all, containers |-> {[mounts |-> all, files |-> all]}]

apiserverDeployment ==
    LET all == Part(apiserverSecrets, DOMAIN apiserverSecrets)
        konnectivity ==
            Part(apiserverSecrets, {"KonnectivityCA", "KonnectivityServer"})
        frontProxy ==
            Part(apiserverSecrets, {"FrontProxyCA", "FrontProxyClient"})
    IN  [volumes |-> all,
         containers |->
            {[mounts |-> all \ konnectivity,
              files |-> all \ (konnectivity \union frontProxy)],
             [mounts |-> konnectivity, files |-> konnectivity]}]

\* Mutant: the key of the service accounts is no volume of the pod.
controllerManagerDeploymentUnmounted ==
    LET all == Part(controllerManagerSecrets, DOMAIN controllerManagerSecrets)
        volumes == all \ {controllerManagerSecrets.SASigner}
    IN  [volumes |-> volumes, containers |-> {[mounts |-> all, files |-> all]}]

controllerManagerDeployment ==
    LET all == Part(controllerManagerSecrets, DOMAIN controllerManagerSecrets)
    IN  [volumes |-> all, containers |-> {[mounts |-> all, files |-> all]}]

schedulerDeployment ==
    LET all == Part(schedulerSecrets, DOMAIN schedulerSecrets)
    IN  [volumes |-> all, containers |-> {[mounts |-> all, files |-> all]}]

\* The agent in the managed cluster mounts copies of two Secrets.
konnectivityAgent ==
    LET all == Part(konnectivitySecrets, DOMAIN konnectivitySecrets)
    IN  [volumes |-> all, containers |-> {[mounts |-> all, files |-> all]}]

-----------------------------------------------------------------------------
(* Who calls whom: the client's certificate and the CA it checks the       *)
(* server with, what it dials, the server's certificate and the CA it      *)
(* checks clients with, and the subjects or groups the server lets do it.  *)

Call(client, cert, trusts, dials, server, serving, accepts, as) ==
    [client |-> client, cert |-> cert, trusts |-> trusts, dials |-> dials,
     server |-> server, serving |-> serving, accepts |-> accepts, as |-> as]

Anyone == {}

\* etcdctl endpoint health, in etcd's own pod
ETCDHealthProbe ==
    Call("etcd", etcdSecrets.HealthClient, etcdSecrets.CA,
         [to |-> "name", name |-> <<"localhost">>],
         "etcd", etcdSecrets.ServerTLS, etcdSecrets.CA, Anyone)

\* --etcd-servers, --etcd-cafile, --etcd-certfile
etcdServers ==
    Call("apiserver", apiserverSecrets.EtcdClient, apiserverSecrets.EtcdCA,
         [to |-> "name", name |-> <<etcdMember, "etcd", "ns", "svc">>],
         "etcd", etcdSecrets.ServerTLS, etcdSecrets.CA, Anyone)

BuildComponentKubeconfig(client, secrets, user) ==
    Call(client, secrets.ClientCert, secrets.ClusterCA,
         [to |-> "name", name |-> <<"apiserver", "ns", "svc">>],
         "apiserver", apiserverSecrets.ServingTLS, apiserverSecrets.ClientCA,
         {user})

controllerManagerKubeconfig ==
    BuildComponentKubeconfig("cm", controllerManagerSecrets,
                             "system:kube-controller-manager")

schedulerKubeconfig ==
    BuildComponentKubeconfig("scheduler", schedulerSecrets,
                             "system:kube-scheduler")

\* The agent dials the address of the control plane.
agentCalls ==
    Call("agent", konnectivitySecrets.AgentTLS, konnectivitySecrets.CA,
         [to |-> "address"],
         "apiserver", apiserverSecrets.KonnectivityServer,
         apiserverSecrets.KonnectivityCA, Anyone)

\* Pods of the managed cluster: the Service "kubernetes", checked with what
\* the controller manager publishes (--root-ca-file), no certificate.
NoCertificate == "none"
podCalls ==
    Call("cm", NoCertificate, controllerManagerSecrets.ClusterCA,
         [to |-> "service"],
         "apiserver", apiserverSecrets.ServingTLS, apiserverSecrets.ClientCA,
         Anyone)

Calls == {ETCDHealthProbe, etcdServers, controllerManagerKubeconfig,
          schedulerKubeconfig, agentCalls, podCalls}
=============================================================================
