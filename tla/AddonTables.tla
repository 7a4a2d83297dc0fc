---------------------------- MODULE AddonTables -----------------------------
(***************************************************************************)
(* The objects that the addons controller applies to a managed cluster     *)
(* (pkg/resources/addons), one definition per builder method, in the order *)
(* of the Objects methods.                                                 *)
(*                                                                         *)
(* Of an object the tables keep what the other modules tell apart: its     *)
(* identity, whether it carries the part-of annotation that the watches    *)
(* look for, which inputs it is rendered from, and which other objects it  *)
(* needs.  Of RBAC objects they keep the grants a joining worker rests on; *)
(* the rules of the addons' own roles are left out.                        *)
(*                                                                         *)
(* Inputs: "mcp" is the spec and status of the ManagedControlPlane, "ca",  *)
(* "agent" and "konn" the Secrets of the cluster CA, of the konnectivity   *)
(* agent's certificate and of the konnectivity CA.                         *)
(***************************************************************************)
EXTENDS Sequences

Id(o) == <<o.kind, o.ns, o.name>>

Obj(kind, ns, name) ==
    [kind |-> kind, ns |-> ns, name |-> name, partOf |-> TRUE,
     reads |-> {}, uses |-> {}, allows |-> {}, role |-> "", subjects |-> {}]

Unmarked(o) == [o EXCEPT !.partOf = FALSE]
Reading(inputs, o) == [o EXCEPT !.reads = inputs]
Using(ids, o) == [o EXCEPT !.uses = ids]
Allowing(rules, o) == [o EXCEPT !.allows = rules]

\* A binding refers to a role of the table by its id, and to a role that the
\* API server brings along by its name alone.
Binding(role, subjects, o) == [o EXCEPT !.role = role, !.subjects = subjects]

ServiceAccount(ns, name) == <<"ServiceAccount", ns, name>>
ConfigMap(ns, name) == <<"ConfigMap", ns, name>>
Secret(ns, name) == <<"Secret", ns, name>>
Namespace(name) == <<"Namespace", "", name>>

\* Binds a role of the same name and scope to a service account: the object
\* needs both.
AccountBinding(kind, rolekind, ns, name, rolename, account) ==
    Using({<<rolekind, ns, rolename>>, account},
          Binding(rolename, {account[3]}, Obj(kind, ns, name)))

Anonymous == "system:anonymous"
Bootstrappers == "system:bootstrappers"
DefaultNodeBootstrapperGroup ==
    "system:bootstrappers:kubeadm:default-node-token"
Nodes == "system:nodes"

-----------------------------------------------------------------------------
(* What a kubelet needs to join (rbac.go).  The bootstrap token's Secret,  *)
(* the first of them, is named after the token: ManagedAddons keeps it.    *)

nodeAutoapproveRotation ==
    Binding("selfnodeclient", {Nodes},
            Obj("ClusterRoleBinding", "", "kubeadm:node-autoapprove-rotation"))

nodeAutoapproveBootstrap ==
    Unmarked(Binding("nodeclient", {Bootstrappers},
        Obj("ClusterRoleBinding", "", "kubeadm:node-autoapprove-bootstrap")))

nodeBootstrapper ==
    Unmarked(Binding("system:node-bootstrapper", {Bootstrappers},
                     Obj("ClusterRoleBinding", "", "kubelet-bootstrap")))

clusterInfo ==
    Reading({"mcp", "ca"}, Obj("ConfigMap", "kube-public", "cluster-info"))

clusterInfoRole ==
    Unmarked(Allowing({"get cluster-info"},
        Obj("Role", "kube-public", "kubeadm:bootstrap-signer-clusterinfo")))

\* The bindings of the join set name a role of their own namespace or scope.
RoleOf(kind, ns, name) == {<<kind, ns, name>>}

clusterInfoRoleBindingAnon ==
    Unmarked(Using(RoleOf("Role", "kube-public",
                          "kubeadm:bootstrap-signer-clusterinfo"),
        Binding("kubeadm:bootstrap-signer-clusterinfo", {Anonymous},
            Obj("RoleBinding", "kube-public",
                "kubeadm:bootstrap-signer-clusterinfo"))))

\* kubelet-config-<major.minor>: nobody is granted access to it.
kubeletConfigVersioned ==
    Reading({"mcp"}, Obj("ConfigMap", "kube-system", "kubelet-config-x.y"))

kubeletConfigUnversioned ==
    Unmarked(Reading({"mcp"},
                     Obj("ConfigMap", "kube-system", "kubelet-config")))

\* No such role exists: the binding grants nothing.
kubeletConfig ==
    Binding("system:kubelet-config-reader", {Nodes},
            Obj("ClusterRoleBinding", "", "kubeadm:kubelet-config"))

kubeadmKubeletConfigRole ==
    Unmarked(Allowing({"get kubelet-config"},
                      Obj("Role", "kube-system", "kubeadm:kubelet-config")))

kubeadmKubeletConfigRoleBinding ==
    Unmarked(Using(RoleOf("Role", "kube-system", "kubeadm:kubelet-config"),
        Binding("kubeadm:kubelet-config", {Nodes, DefaultNodeBootstrapperGroup},
                Obj("RoleBinding", "kube-system", "kubeadm:kubelet-config"))))

kubeadmNodesKubeadmConfigRole ==
    Unmarked(Allowing({"get kubeadm-config"},
        Obj("Role", "kube-system", "kubeadm:nodes-kubeadm-config")))

kubeadmNodesKubeadmConfigRoleBinding ==
    Unmarked(Using(RoleOf("Role", "kube-system", "kubeadm:nodes-kubeadm-config"),
        Binding("kubeadm:nodes-kubeadm-config",
                {DefaultNodeBootstrapperGroup, Nodes},
                Obj("RoleBinding", "kube-system",
                    "kubeadm:nodes-kubeadm-config"))))

kubeadmGetNodesClusterRole ==
    Unmarked(Allowing({"get nodes"}, Obj("ClusterRole", "", "kubeadm:get-nodes")))

\* Mutant: bound to the nodes only, as the other two are as well.
getNodesForNodes ==
    Unmarked(Using(RoleOf("ClusterRole", "", "kubeadm:get-nodes"),
        Binding("kubeadm:get-nodes", {Nodes},
                Obj("ClusterRoleBinding", "", "kubeadm:get-nodes"))))

kubeadmGetNodesClusterRoleBinding ==
    Unmarked(Using(RoleOf("ClusterRole", "", "kubeadm:get-nodes"),
        Binding("kubeadm:get-nodes", {DefaultNodeBootstrapperGroup},
                Obj("ClusterRoleBinding", "", "kubeadm:get-nodes"))))

kubeadmConfigConfigMap ==
    Unmarked(Reading({"mcp"},
                     Obj("ConfigMap", "kube-system", "kubeadm-config")))

\* kubeletJoinBuilder.Objects, past the token's Secret.
JoinObjects ==
    <<nodeAutoapproveRotation, nodeAutoapproveBootstrap, nodeBootstrapper,
      clusterInfo, clusterInfoRole, clusterInfoRoleBindingAnon,
      kubeletConfigVersioned, kubeletConfigUnversioned, kubeletConfig,
      kubeadmKubeletConfigRole, kubeadmKubeletConfigRoleBinding,
      kubeadmNodesKubeadmConfigRole, kubeadmNodesKubeadmConfigRoleBinding,
      kubeadmGetNodesClusterRole, kubeadmGetNodesClusterRoleBinding,
      kubeadmConfigConfigMap>>

-----------------------------------------------------------------------------
(* The addons. *)

\* ensureKonnectivityTLSData: copies of two Secrets of the management cluster.
KonnectivitySecrets ==
    <<Unmarked(Reading({"agent"},
                       Obj("Secret", "kube-system", "konnectivity-agent-tls"))),
      Unmarked(Reading({"konn"}, Obj("Secret", "kube-system", "konnectivity-ca")))>>

buildKonnectivityAgentDaemonSet ==
    Reading({"mcp"}, Using({Secret("kube-system", "konnectivity-agent-tls"),
                            Secret("kube-system", "konnectivity-ca")},
                           Obj("DaemonSet", "kube-system", "konnectivity-agent")))

buildKubeproxyServiceAccount == Obj("ServiceAccount", "kube-system", "kube-proxy")

buildKubeproxyClusterRoleBinding ==
    Using({ServiceAccount("kube-system", "kube-proxy")},
          Binding("system:node-proxier", {"kube-proxy"},
                  Obj("ClusterRoleBinding", "", "kube-proxy")))

buildKubeproxyConfigMap ==
    Reading({"mcp"}, Obj("ConfigMap", "kube-system", "kube-proxy"))

buildKubeproxyDaemonSet ==
    Reading({"mcp"}, Using({ConfigMap("kube-system", "kube-proxy"),
                            ServiceAccount("kube-system", "kube-proxy")},
                           Obj("DaemonSet", "kube-system", "kube-proxy")))

buildFlannelNamespace == Obj("Namespace", "", "kube-flannel")
buildFlannelServiceAccount == Obj("ServiceAccount", "kube-flannel", "flannel")
buildFlannelClusterRole == Obj("ClusterRole", "", "flannel")
buildFlannelClusterRoleBinding ==
    AccountBinding("ClusterRoleBinding", "ClusterRole", "", "flannel",
                   "flannel", ServiceAccount("kube-flannel", "flannel"))
buildFlannelConfigMap ==
    Reading({"mcp"}, Obj("ConfigMap", "kube-flannel", "kube-flannel-cfg"))
buildFlannelDaemonSet ==
    Using({ConfigMap("kube-flannel", "kube-flannel-cfg"),
           ServiceAccount("kube-flannel", "flannel")},
          Obj("DaemonSet", "kube-flannel", "kube-flannel-ds"))

buildCoreDNSServiceAccount == Obj("ServiceAccount", "kube-system", "coredns")
buildCoreDNSClusterRole == Obj("ClusterRole", "", "system:coredns")
buildCoreDNSClusterRoleBinding ==
    AccountBinding("ClusterRoleBinding", "ClusterRole", "", "system:coredns",
                   "system:coredns", ServiceAccount("kube-system", "coredns"))
buildCoreDNSRole == Obj("Role", "kube-system", "coredns")
buildCoreDNSRoleBinding ==
    AccountBinding("RoleBinding", "Role", "kube-system", "coredns", "coredns",
                   ServiceAccount("kube-system", "coredns"))
buildCoreDNSConfigMap == Obj("ConfigMap", "kube-system", "coredns-config")
buildCoreDNSService == Reading({"mcp"}, Obj("Service", "kube-system", "kube-dns"))
buildCoreDNSDeployment ==
    Using({ConfigMap("kube-system", "coredns-config"),
           ServiceAccount("kube-system", "coredns")},
          Obj("Deployment", "kube-system", "coredns"))

buildCSINamespace == Obj("Namespace", "", "local-path-storage")
buildCSIServiceAccount ==
    Obj("ServiceAccount", "local-path-storage",
        "local-path-provisioner-service-account")
CSIAccount == Id(buildCSIServiceAccount)
buildCSIClusterRole == Obj("ClusterRole", "", "local-path-provisioner-role")
buildCSIClusterRoleBinding ==
    AccountBinding("ClusterRoleBinding", "ClusterRole", "",
                   "local-path-provisioner-role",
                   "local-path-provisioner-role", CSIAccount)
buildCSIRole == Obj("Role", "local-path-storage", "local-path-provisioner-role")
buildCSIRoleBinding ==
    AccountBinding("RoleBinding", "Role", "local-path-storage",
                   "local-path-provisioner-bind",
                   "local-path-provisioner-role", CSIAccount)
buildCSIConfigMap == Obj("ConfigMap", "local-path-storage", "local-path-config")
buildCSIStorageClass == Obj("StorageClass", "", "local-path")
buildCSIDeployment ==
    Using({ConfigMap("local-path-storage", "local-path-config"), CSIAccount},
          Obj("Deployment", "local-path-storage", "local-path-provisioner"))

-----------------------------------------------------------------------------
buildKubeproxy ==
    <<buildKubeproxyServiceAccount, buildKubeproxyClusterRoleBinding,
      buildKubeproxyConfigMap, buildKubeproxyDaemonSet>>

buildFlannel ==
    <<buildFlannelNamespace, buildFlannelServiceAccount,
      buildFlannelClusterRole, buildFlannelClusterRoleBinding,
      buildFlannelConfigMap, buildFlannelDaemonSet>>

buildCoreDNS ==
    <<buildCoreDNSServiceAccount, buildCoreDNSClusterRole,
      buildCoreDNSClusterRoleBinding, buildCoreDNSRole,
      buildCoreDNSRoleBinding, buildCoreDNSConfigMap, buildCoreDNSService,
      buildCoreDNSDeployment>>

buildCSI ==
    <<buildCSINamespace, buildCSIServiceAccount, buildCSIClusterRole,
      buildCSIClusterRoleBinding, buildCSIRole, buildCSIRoleBinding,
      buildCSIConfigMap, buildCSIStorageClass, buildCSIDeployment>>

\* reconcileAddons: the copied Secrets, then addonsBuilder.Objects.
AddonObjects ==
    KonnectivitySecrets \o <<buildKonnectivityAgentDaemonSet>> \o
    buildKubeproxy \o buildFlannel \o buildCoreDNS \o buildCSI
=============================================================================
