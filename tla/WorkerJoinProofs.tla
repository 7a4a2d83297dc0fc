-------------------------- MODULE WorkerJoinProofs ---------------------------
(***************************************************************************)
(* No worker fails to join while the join set is complete and current, for *)
(* every number of operator processes, versions, tokens and faults, and    *)
(* whatever else the addons controller applies.                            *)
(*                                                                         *)
(* The set grants what the attempt asks for, which is read off the table.  *)
(* What the worker was told in separate calls still holds when it is used: *)
(* no step takes a token out of the cluster, and a new CA makes            *)
(* cluster-info outdated before it can be shown.                           *)
(***************************************************************************)
EXTENDS WorkerJoin, TLAPS

-----------------------------------------------------------------------------
(* The join set. *)

\* What tells an object from others.
Row(o, kind, ns, name) == o.kind = kind /\ o.ns = ns /\ o.name = name

\* The objects of rbac.go.
LEMMA JoinIds ==
    /\ Row(nodeAutoapproveRotation, "ClusterRoleBinding", "",
           "kubeadm:node-autoapprove-rotation")
    /\ Row(nodeAutoapproveBootstrap, "ClusterRoleBinding", "",
           "kubeadm:node-autoapprove-bootstrap")
    /\ Row(nodeBootstrapper, "ClusterRoleBinding", "", "kubelet-bootstrap")
    /\ Row(clusterInfo, "ConfigMap", "kube-public", "cluster-info")
    /\ Row(clusterInfoRole, "Role", "kube-public", "kubeadm:bootstrap-signer-clusterinfo")
    /\ Row(clusterInfoRoleBindingAnon, "RoleBinding", "kube-public",
           "kubeadm:bootstrap-signer-clusterinfo")
    /\ Row(kubeletConfigVersioned, "ConfigMap", "kube-system", "kubelet-config-x.y")
    /\ Row(kubeletConfigUnversioned, "ConfigMap", "kube-system", "kubelet-config")
    /\ Row(kubeletConfig, "ClusterRoleBinding", "", "kubeadm:kubelet-config")
    /\ Row(kubeadmKubeletConfigRole, "Role", "kube-system", "kubeadm:kubelet-config")
    /\ Row(kubeadmKubeletConfigRoleBinding, "RoleBinding", "kube-system",
           "kubeadm:kubelet-config")
    /\ Row(kubeadmNodesKubeadmConfigRole, "Role", "kube-system",
           "kubeadm:nodes-kubeadm-config")
    /\ Row(kubeadmNodesKubeadmConfigRoleBinding, "RoleBinding", "kube-system",
           "kubeadm:nodes-kubeadm-config")
    /\ Row(kubeadmGetNodesClusterRole, "ClusterRole", "", "kubeadm:get-nodes")
    /\ Row(kubeadmGetNodesClusterRoleBinding, "ClusterRoleBinding", "", "kubeadm:get-nodes")
    /\ Row(kubeadmConfigConfigMap, "ConfigMap", "kube-system", "kubeadm-config")
  BY DEF Row, nodeAutoapproveRotation, nodeAutoapproveBootstrap, nodeBootstrapper,
      clusterInfo, clusterInfoRole, clusterInfoRoleBindingAnon,
      kubeletConfigVersioned, kubeletConfigUnversioned, kubeletConfig,
      kubeadmKubeletConfigRole, kubeadmKubeletConfigRoleBinding,
      kubeadmNodesKubeadmConfigRole, kubeadmNodesKubeadmConfigRoleBinding,
      kubeadmGetNodesClusterRole, kubeadmGetNodesClusterRoleBinding,
      kubeadmConfigConfigMap, Obj, Unmarked, Reading, Using, Allowing, Binding, RoleOf

\* What they grant, and to whom.
LEMMA Grants ==
    /\ nodeAutoapproveRotation.role = "selfnodeclient"
    /\ nodeAutoapproveRotation.subjects = {Nodes}
    /\ nodeAutoapproveBootstrap.role = "nodeclient"
    /\ nodeAutoapproveBootstrap.subjects = {Bootstrappers}
    /\ nodeBootstrapper.role = "system:node-bootstrapper"
    /\ nodeBootstrapper.subjects = {Bootstrappers}
    /\ clusterInfoRole.allows = {"get cluster-info"}
    /\ clusterInfoRoleBindingAnon.subjects = {Anonymous}
    /\ kubeadmKubeletConfigRole.allows = {"get kubelet-config"}
    /\ DefaultNodeBootstrapperGroup \in kubeadmKubeletConfigRoleBinding.subjects
    /\ kubeadmNodesKubeadmConfigRole.allows = {"get kubeadm-config"}
    /\ DefaultNodeBootstrapperGroup \in kubeadmNodesKubeadmConfigRoleBinding.subjects
    /\ kubeadmGetNodesClusterRole.allows = {"get nodes"}
    /\ kubeadmGetNodesClusterRoleBinding.subjects = {DefaultNodeBootstrapperGroup}
    /\ clusterInfo.reads = {"mcp", "ca"}
  BY DEF nodeAutoapproveRotation, nodeAutoapproveBootstrap, nodeBootstrapper,
      clusterInfo, clusterInfoRole, clusterInfoRoleBindingAnon,
      kubeadmKubeletConfigRole, kubeadmKubeletConfigRoleBinding,
      kubeadmNodesKubeadmConfigRole, kubeadmNodesKubeadmConfigRoleBinding,
      kubeadmGetNodesClusterRole, kubeadmGetNodesClusterRoleBinding,
      Obj, Unmarked, Reading, Using, Allowing, Binding

\* The roles that the bindings bind.
LEMMA RolesUsed ==
    /\ Id(clusterInfoRole) \in clusterInfoRoleBindingAnon.uses
    /\ Id(kubeadmKubeletConfigRole) \in kubeadmKubeletConfigRoleBinding.uses
    /\ Id(kubeadmNodesKubeadmConfigRole) \in kubeadmNodesKubeadmConfigRoleBinding.uses
    /\ Id(kubeadmGetNodesClusterRole) \in kubeadmGetNodesClusterRoleBinding.uses
  <1>1. /\ clusterInfoRoleBindingAnon.uses
             = {<<"Role", "kube-public", "kubeadm:bootstrap-signer-clusterinfo">>}
        /\ kubeadmKubeletConfigRoleBinding.uses
             = {<<"Role", "kube-system", "kubeadm:kubelet-config">>}
        /\ kubeadmNodesKubeadmConfigRoleBinding.uses
             = {<<"Role", "kube-system", "kubeadm:nodes-kubeadm-config">>}
        /\ kubeadmGetNodesClusterRoleBinding.uses
             = {<<"ClusterRole", "", "kubeadm:get-nodes">>}
    BY DEF clusterInfoRoleBindingAnon, kubeadmKubeletConfigRoleBinding,
      kubeadmNodesKubeadmConfigRoleBinding, kubeadmGetNodesClusterRoleBinding,
      Obj, Unmarked, Using, Binding, RoleOf
  <1> QED  BY <1>1, JoinIds DEF Id, Row

\* In the order of the Objects method.
LEMMA JoinPositions ==
    /\ Len(JoinObjects) = 16
    /\ JoinObjects[1] = nodeAutoapproveRotation
    /\ JoinObjects[2] = nodeAutoapproveBootstrap
    /\ JoinObjects[3] = nodeBootstrapper
    /\ JoinObjects[4] = clusterInfo
    /\ JoinObjects[5] = clusterInfoRole
    /\ JoinObjects[6] = clusterInfoRoleBindingAnon
    /\ JoinObjects[7] = kubeletConfigVersioned
    /\ JoinObjects[8] = kubeletConfigUnversioned
    /\ JoinObjects[9] = kubeletConfig
    /\ JoinObjects[10] = kubeadmKubeletConfigRole
    /\ JoinObjects[11] = kubeadmKubeletConfigRoleBinding
    /\ JoinObjects[12] = kubeadmNodesKubeadmConfigRole
    /\ JoinObjects[13] = kubeadmNodesKubeadmConfigRoleBinding
    /\ JoinObjects[14] = kubeadmGetNodesClusterRole
    /\ JoinObjects[15] = kubeadmGetNodesClusterRoleBinding
    /\ JoinObjects[16] = kubeadmConfigConfigMap
  BY DEF JoinObjects

\* The same by position.
LEMMA JoinRows ==
    /\ Row(JoinObjects[1], "ClusterRoleBinding", "",
           "kubeadm:node-autoapprove-rotation")
    /\ Row(JoinObjects[2], "ClusterRoleBinding", "",
           "kubeadm:node-autoapprove-bootstrap")
    /\ Row(JoinObjects[3], "ClusterRoleBinding", "", "kubelet-bootstrap")
    /\ Row(JoinObjects[4], "ConfigMap", "kube-public", "cluster-info")
    /\ Row(JoinObjects[5], "Role", "kube-public",
           "kubeadm:bootstrap-signer-clusterinfo")
    /\ Row(JoinObjects[6], "RoleBinding", "kube-public",
           "kubeadm:bootstrap-signer-clusterinfo")
    /\ Row(JoinObjects[7], "ConfigMap", "kube-system",
           "kubelet-config-x.y")
    /\ Row(JoinObjects[8], "ConfigMap", "kube-system", "kubelet-config")
    /\ Row(JoinObjects[9], "ClusterRoleBinding", "",
           "kubeadm:kubelet-config")
    /\ Row(JoinObjects[10], "Role", "kube-system",
           "kubeadm:kubelet-config")
    /\ Row(JoinObjects[11], "RoleBinding", "kube-system",
           "kubeadm:kubelet-config")
    /\ Row(JoinObjects[12], "Role", "kube-system",
           "kubeadm:nodes-kubeadm-config")
    /\ Row(JoinObjects[13], "RoleBinding", "kube-system",
           "kubeadm:nodes-kubeadm-config")
    /\ Row(JoinObjects[14], "ClusterRole", "", "kubeadm:get-nodes")
    /\ Row(JoinObjects[15], "ClusterRoleBinding", "", "kubeadm:get-nodes")
    /\ Row(JoinObjects[16], "ConfigMap", "kube-system", "kubeadm-config")
  BY JoinPositions, JoinIds, Zenon

\* A row is read by its columns.
LEMMA Columns ==
    ASSUME NEW o, NEW kind, NEW ns, NEW name, Row(o, kind, ns, name)
    PROVE  o.kind = kind /\ o.ns = ns /\ o.name = name
  BY DEF Row

LEMMA Sixteen ==
    \A i \in 1..16 : i \in {1, 2, 3, 4, 5, 6, 7, 8, 9, 10, 11, 12, 13, 14, 15, 16}
  OBVIOUS

\* No object of a set is the same as one of the join set: the kind, the
\* namespace or the name is another.
Apart(S) == \A o \in S : \A i \in 1..16 : Id(o) # Id(JoinObjects[i])

\* One table after the other.
LEMMA Concatenation ==
    ASSUME NEW T, NEW s \in Seq(T), NEW t \in Seq(T)
    PROVE  /\ Len(s \o t) = Len(s) + Len(t)
           /\ \A i \in 1..(Len(s) + Len(t)) :
                 (s \o t)[i] = IF i <= Len(s) THEN s[i] ELSE t[i - Len(s)]
  OBVIOUS

\* The tables of the code: first the join set, then objects that are others.
LEMMA JoinComesFirst ==
    ASSUME JoinTable = JoinObjects, NEW S, AddonTable \in Seq(S)
    PROVE  /\ LastJoin = 16
           /\ \A i \in 1..16 : i \in Positions /\ Table[i] = JoinObjects[i]
           /\ \A i \in Positions : i \notin 1..16 => Table[i] \in S
  <1>1. Len(JoinObjects) = 16 /\ LastJoin = 16
    BY JoinPositions DEF LastJoin
  <1> DEFINE R == {JoinObjects[i] : i \in 1..16}
  <1>2. JoinObjects \in Seq(R)
    BY JoinPositions, <1>1 DEF JoinObjects
  <1> HIDE DEF R
  <1>3. /\ Len(AddonTable) \in Nat
        /\ \A i \in 1..Len(AddonTable) : AddonTable[i] \in S
    OBVIOUS
  <1>4. /\ Len(Table) = 16 + Len(AddonTable)
        /\ \A i \in 1..(16 + Len(AddonTable)) :
              Table[i] = IF i <= 16 THEN JoinObjects[i] ELSE AddonTable[i - 16]
    <2>1. Table = JoinObjects \o AddonTable
      BY DEF Table
    <2> HIDE DEF JoinObjects
    <2>2. JoinObjects \in Seq(R \union S) /\ AddonTable \in Seq(R \union S)
      BY <1>2
    <2>3. /\ Len(JoinObjects \o AddonTable) = Len(JoinObjects) + Len(AddonTable)
          /\ \A i \in 1..(Len(JoinObjects) + Len(AddonTable)) :
                (JoinObjects \o AddonTable)[i]
                   = IF i <= Len(JoinObjects) THEN JoinObjects[i]
                                              ELSE AddonTable[i - Len(JoinObjects)]
      BY <2>2, Concatenation, Zenon
    <2> QED  BY <1>1, <2>1, <2>3
  <1>5. \A i \in 1..(16 + Len(AddonTable)) : i \notin 1..16 =>
            i > 16 /\ i - 16 \in 1..Len(AddonTable)
    BY <1>3
  <1>6. Positions = 1..(16 + Len(AddonTable))
    BY <1>4 DEF Positions
  <1>7. ASSUME NEW i \in 1..16
        PROVE  i \in Positions /\ Table[i] = JoinObjects[i]
    <2>1. i \in 1..(16 + Len(AddonTable)) /\ i <= 16
      BY <1>3
    <2> QED  BY <1>4, <1>6, <2>1
  <1>8. ASSUME NEW i \in Positions, i \notin 1..16
        PROVE  Table[i] \in S
    <2>1. i \in 1..(16 + Len(AddonTable)) /\ ~(i <= 16) /\ i - 16 \in 1..Len(AddonTable)
      BY <1>3, <1>5, <1>6, <1>8
    <2> QED  BY <1>3, <1>4, <2>1
  <1> QED  BY <1>1, <1>7, <1>8

\* Which of them are ConfigMaps.
LEMMA ConfigMapsAre ==
    /\ \A i \in 1..16 : JoinObjects[i].kind = "ConfigMap" => i \in {4, 7, 8, 16}
    /\ \A i \in {4, 7, 8, 16} : JoinObjects[i].kind = "ConfigMap"
    /\ JoinObjects[4].name = "cluster-info"
    /\ JoinObjects[7].name = "kubelet-config-x.y"
    /\ JoinObjects[8].name = "kubelet-config"
    /\ JoinObjects[16].name = "kubeadm-config"
  <1>1. ASSUME NEW i \in 1..16, i \notin {4, 7, 8, 16}
        PROVE  JoinObjects[i].kind # "ConfigMap"
    <2>1. \E kind, ns, name : /\ Row(JoinObjects[i], kind, ns, name)
                              /\ kind \in {"ClusterRoleBinding", "Role",
                                           "RoleBinding", "ClusterRole"}
      BY <1>1, Sixteen, JoinRows, Zenon
    <2> QED  BY <2>1, Columns
  <1>2. /\ Row(JoinObjects[4], "ConfigMap", "kube-public", "cluster-info")
        /\ Row(JoinObjects[7], "ConfigMap", "kube-system", "kubelet-config-x.y")
        /\ Row(JoinObjects[8], "ConfigMap", "kube-system", "kubelet-config")
        /\ Row(JoinObjects[16], "ConfigMap", "kube-system", "kubeadm-config")
    BY JoinRows, Zenon
  <1> QED  BY <1>1, <1>2, Columns

\* Objects of the join set are found by their identity.
LEMMA PositionsAre ==
    ASSUME JoinTable = JoinObjects, NEW S, AddonTable \in Seq(S), Apart(S)
    PROVE  /\ PositionOf(clusterInfo) = 4
           /\ PositionOf(kubeletConfigUnversioned) = 8
           /\ PositionOf(kubeadmConfigConfigMap) = 16
  <1>1. ASSUME NEW p \in {4, 8, 16}, NEW i \in Positions,
               Id(Table[i]) = Id(JoinObjects[p])
        PROVE  i = p
    <2>1. i \in 1..16
      BY <1>1, JoinComesFirst DEF Apart
    <2>2. Table[i] = JoinObjects[i]
      BY <2>1, JoinComesFirst
    <2>3. /\ JoinObjects[i].kind = JoinObjects[p].kind
          /\ JoinObjects[i].ns = JoinObjects[p].ns
          /\ JoinObjects[i].name = JoinObjects[p].name
      BY <1>1, <2>2 DEF Id
    <2>4. JoinObjects[p].kind = "ConfigMap"
      BY <1>1, ConfigMapsAre
    <2>5. i \in {4, 7, 8, 16}
      BY <2>1, <2>3, <2>4, ConfigMapsAre
    <2>6. /\ JoinObjects[4].name = "cluster-info"
          /\ JoinObjects[7].name = "kubelet-config-x.y"
          /\ JoinObjects[8].name = "kubelet-config"
          /\ JoinObjects[16].name = "kubeadm-config"
          /\ JoinObjects[i].name = JoinObjects[p].name
      BY <2>3, ConfigMapsAre
    <2> QED  BY <1>1, <2>5, <2>6
  <1>2. \A p \in {4, 8, 16} : p \in Positions /\ Table[p] = JoinObjects[p]
    BY JoinComesFirst
  <1> QED  BY <1>1, <1>2, JoinPositions DEF PositionOf

\* The bindings of the join set, with the roles they bind, grant what a joining
\* worker asks for.
LEMMA JoinSetGrants ==
    ASSUME JoinTable = JoinObjects, NEW S, AddonTable \in Seq(S),
           1..16 \subseteq present
    PROVE  /\ Allowed({Anonymous}, "get cluster-info")
           /\ \A permission \in {"get kubeadm-config", "get kubelet-config",
                                 "get nodes", "system:node-bootstrapper",
                                 "nodeclient"} :
                 Allowed(bootstrapTokenGroups, permission)
           /\ Allowed({Nodes}, "selfnodeclient")
  <1>1. \A i \in 1..16 : /\ i \in present /\ i \in Positions
                         /\ Table[i] = JoinObjects[i]
    BY JoinComesFirst
  <1>2. ASSUME NEW i \in 1..16, NEW groups, NEW permission,
               JoinObjects[i].subjects \intersect groups # {},
               JoinObjects[i].role = permission
        PROVE  Allowed(groups, permission)
    BY <1>1, <1>2 DEF Allowed
  <1>3. ASSUME NEW i \in 1..16, NEW j \in 1..16, NEW groups, NEW permission,
               JoinObjects[i].subjects \intersect groups # {},
               Id(JoinObjects[j]) \in JoinObjects[i].uses,
               permission \in JoinObjects[j].allows
        PROVE  Allowed(groups, permission)
    <2>1. j \in Uses(i)
      BY <1>1, <1>3 DEF Uses, UsedBy, Id
    <2> QED  BY <1>1, <1>3, <2>1 DEF Allowed
  <1>4. /\ DefaultNodeBootstrapperGroup \in bootstrapTokenGroups
        /\ Bootstrappers \in bootstrapTokenGroups
    BY DEF bootstrapTokenGroups
  <1>5. Allowed({Anonymous}, "get cluster-info")
    <2>1. /\ JoinObjects[6].subjects \intersect {Anonymous} # {}
          /\ Id(JoinObjects[5]) \in JoinObjects[6].uses
          /\ "get cluster-info" \in JoinObjects[5].allows
      BY JoinPositions, Grants, RolesUsed
    <2>2. 6 \in 1..16 /\ 5 \in 1..16
      OBVIOUS
    <2> QED  BY <1>3, <2>1, <2>2, Zenon
  <1>6. Allowed(bootstrapTokenGroups, "get kubeadm-config")
    <2>1. /\ JoinObjects[13].subjects \intersect bootstrapTokenGroups # {}
          /\ Id(JoinObjects[12]) \in JoinObjects[13].uses
          /\ "get kubeadm-config" \in JoinObjects[12].allows
      BY <1>4, JoinPositions, Grants, RolesUsed
    <2>2. 13 \in 1..16 /\ 12 \in 1..16
      OBVIOUS
    <2> QED  BY <1>3, <2>1, <2>2, Zenon
  <1>7. Allowed(bootstrapTokenGroups, "get kubelet-config")
    <2>1. /\ JoinObjects[11].subjects \intersect bootstrapTokenGroups # {}
          /\ Id(JoinObjects[10]) \in JoinObjects[11].uses
          /\ "get kubelet-config" \in JoinObjects[10].allows
      BY <1>4, JoinPositions, Grants, RolesUsed
    <2>2. 11 \in 1..16 /\ 10 \in 1..16
      OBVIOUS
    <2> QED  BY <1>3, <2>1, <2>2, Zenon
  <1>8. Allowed(bootstrapTokenGroups, "get nodes")
    <2>1. /\ JoinObjects[15].subjects \intersect bootstrapTokenGroups # {}
          /\ Id(JoinObjects[14]) \in JoinObjects[15].uses
          /\ "get nodes" \in JoinObjects[14].allows
      BY <1>4, JoinPositions, Grants, RolesUsed
    <2>2. 15 \in 1..16 /\ 14 \in 1..16
      OBVIOUS
    <2> QED  BY <1>3, <2>1, <2>2, Zenon
  <1>9. /\ Allowed(bootstrapTokenGroups, "system:node-bootstrapper")
        /\ Allowed(bootstrapTokenGroups, "nodeclient")
        /\ Allowed({Nodes}, "selfnodeclient")
    <2>1. /\ JoinObjects[3].subjects \intersect bootstrapTokenGroups # {}
          /\ JoinObjects[2].subjects \intersect bootstrapTokenGroups # {}
          /\ JoinObjects[1].subjects \intersect {Nodes} # {}
          /\ JoinObjects[3].role = "system:node-bootstrapper"
          /\ JoinObjects[2].role = "nodeclient"
          /\ JoinObjects[1].role = "selfnodeclient"
      BY <1>4, JoinPositions, Grants
    <2>2. 1 \in 1..16 /\ 2 \in 1..16 /\ 3 \in 1..16
      OBVIOUS
    <2> QED  BY <1>2, <2>1, <2>2, Zenon
  <1> QED  BY <1>5, <1>6, <1>7, <1>8, <1>9


-----------------------------------------------------------------------------
(* The addons are others. *)

\* The objects of reconcileAddons.
AddonSet ==
    {KonnectivitySecrets[1], KonnectivitySecrets[2], buildKonnectivityAgentDaemonSet,
     buildKubeproxyServiceAccount, buildKubeproxyClusterRoleBinding,
     buildKubeproxyConfigMap, buildKubeproxyDaemonSet,
     buildFlannelNamespace, buildFlannelServiceAccount, buildFlannelClusterRole,
     buildFlannelClusterRoleBinding, buildFlannelConfigMap, buildFlannelDaemonSet,
     buildCoreDNSServiceAccount, buildCoreDNSClusterRole,
     buildCoreDNSClusterRoleBinding, buildCoreDNSRole, buildCoreDNSRoleBinding,
     buildCoreDNSConfigMap, buildCoreDNSService, buildCoreDNSDeployment,
     buildCSINamespace, buildCSIServiceAccount, buildCSIClusterRole,
     buildCSIClusterRoleBinding, buildCSIRole, buildCSIRoleBinding,
     buildCSIConfigMap, buildCSIStorageClass, buildCSIDeployment}

LEMMA AddonsListed == AddonObjects \in Seq(AddonSet)
  <1>1. /\ KonnectivitySecrets \in Seq(AddonSet)
        /\ <<buildKonnectivityAgentDaemonSet>> \in Seq(AddonSet)
        /\ buildKubeproxy \in Seq(AddonSet)
    BY DEF KonnectivitySecrets, AddonSet, buildKubeproxy
  <1>2. buildFlannel \in Seq(AddonSet)
    BY DEF buildFlannel, AddonSet
  <1>3. buildCoreDNS \in Seq(AddonSet)
    BY DEF buildCoreDNS, AddonSet
  <1>4. buildCSI \in Seq(AddonSet)
    BY DEF buildCSI, AddonSet
  <1>5. \A s, t \in Seq(AddonSet) : s \o t \in Seq(AddonSet)
    OBVIOUS
  <1> QED  BY <1>1, <1>2, <1>3, <1>4, <1>5 DEF AddonObjects

\* Their names are not those of the join set; kubeadm's RBAC objects and its
\* ConfigMaps have names that kubeadm looks for.
JoinNames ==
    {"kubeadm:node-autoapprove-rotation", "kubeadm:node-autoapprove-bootstrap",
     "kubelet-bootstrap", "cluster-info", "kubeadm:bootstrap-signer-clusterinfo",
     "kubelet-config-x.y", "kubelet-config", "kubeadm:kubelet-config",
     "kubeadm:nodes-kubeadm-config", "kubeadm:get-nodes", "kubeadm-config"}

LEMMA JoinNamed == \A i \in 1..16 : JoinObjects[i].name \in JoinNames
  <1> SUFFICES ASSUME NEW i \in 1..16
               PROVE  JoinObjects[i].name \in JoinNames
    OBVIOUS
  <1>1. \E kind, ns, name : Row(JoinObjects[i], kind, ns, name) /\ name \in JoinNames
    BY Sixteen, JoinRows, Zenon DEF JoinNames
  <1> QED  BY <1>1, Columns

LEMMA AddonsNamed == \A o \in AddonSet : o.name \notin JoinNames
  <1>1. /\ KonnectivitySecrets[1].name = "konnectivity-agent-tls"
        /\ KonnectivitySecrets[2].name = "konnectivity-ca"
        /\ buildKonnectivityAgentDaemonSet.name = "konnectivity-agent"
    BY DEF KonnectivitySecrets, buildKonnectivityAgentDaemonSet, Unmarked, Reading,
           Using, Obj
  <1>2. /\ buildKubeproxyServiceAccount.name = "kube-proxy"
        /\ buildKubeproxyClusterRoleBinding.name = "kube-proxy"
        /\ buildKubeproxyConfigMap.name = "kube-proxy"
        /\ buildKubeproxyDaemonSet.name = "kube-proxy"
    BY DEF buildKubeproxyServiceAccount, buildKubeproxyClusterRoleBinding,
           buildKubeproxyConfigMap, buildKubeproxyDaemonSet, Reading, Using, Binding, Obj
  <1>3. /\ buildFlannelNamespace.name = "kube-flannel"
        /\ buildFlannelServiceAccount.name = "flannel"
        /\ buildFlannelClusterRole.name = "flannel"
        /\ buildFlannelClusterRoleBinding.name = "flannel"
        /\ buildFlannelConfigMap.name = "kube-flannel-cfg"
        /\ buildFlannelDaemonSet.name = "kube-flannel-ds"
    BY DEF buildFlannelNamespace, buildFlannelServiceAccount, buildFlannelClusterRole,
           buildFlannelClusterRoleBinding, buildFlannelConfigMap, buildFlannelDaemonSet,
           AccountBinding, Reading, Using, Binding, Obj
  <1>4. /\ buildCoreDNSServiceAccount.name = "coredns"
        /\ buildCoreDNSClusterRole.name = "system:coredns"
        /\ buildCoreDNSClusterRoleBinding.name = "system:coredns"
        /\ buildCoreDNSRole.name = "coredns"
        /\ buildCoreDNSRoleBinding.name = "coredns"
        /\ buildCoreDNSConfigMap.name = "coredns-config"
        /\ buildCoreDNSService.name = "kube-dns"
        /\ buildCoreDNSDeployment.name = "coredns"
    BY DEF buildCoreDNSServiceAccount, buildCoreDNSClusterRole,
           buildCoreDNSClusterRoleBinding, buildCoreDNSRole, buildCoreDNSRoleBinding,
           buildCoreDNSConfigMap, buildCoreDNSService, buildCoreDNSDeployment,
           AccountBinding, Reading, Using, Binding, Obj
  <1>5. /\ buildCSINamespace.name = "local-path-storage"
        /\ buildCSIServiceAccount.name = "local-path-provisioner-service-account"
        /\ buildCSIClusterRole.name = "local-path-provisioner-role"
        /\ buildCSIClusterRoleBinding.name = "local-path-provisioner-role"
        /\ buildCSIRole.name = "local-path-provisioner-role"
        /\ buildCSIRoleBinding.name = "local-path-provisioner-bind"
        /\ buildCSIConfigMap.name = "local-path-config"
        /\ buildCSIStorageClass.name = "local-path"
        /\ buildCSIDeployment.name = "local-path-provisioner"
    BY DEF buildCSINamespace, buildCSIServiceAccount, buildCSIClusterRole,
           buildCSIClusterRoleBinding, buildCSIRole, buildCSIRoleBinding,
           buildCSIConfigMap, buildCSIStorageClass, buildCSIDeployment, CSIAccount,
           AccountBinding, Reading, Using, Binding, Obj
  <1> DEFINE others ==
        {"konnectivity-agent-tls", "konnectivity-ca", "konnectivity-agent", "kube-proxy",
         "kube-flannel", "flannel", "kube-flannel-cfg", "kube-flannel-ds", "coredns",
         "system:coredns", "coredns-config", "kube-dns", "local-path-storage",
         "local-path-provisioner-service-account", "local-path-provisioner-role",
         "local-path-provisioner-bind", "local-path-config", "local-path",
         "local-path-provisioner"}
  <1>6. \A o \in AddonSet : o.name \in others
    BY <1>1, <1>2, <1>3, <1>4, <1>5 DEF AddonSet
  <1>7. \A name \in others : name \notin JoinNames
    BY DEF JoinNames
  <1> QED  BY <1>6, <1>7

LEMMA AddonsApart == Apart(AddonSet)
  BY JoinNamed, AddonsNamed DEF Apart, Id

-----------------------------------------------------------------------------
(* The attempt. *)

\* Where a worker has a token in hand, and a CA's hash.
WithToken ==
    {"hash", "endpoint", "discover", "connect", "preflight", "bootstrap", "joined",
     "rotated"}
WithCA == WithToken \ {"hash"}

\* While the join set is complete and current, what the worker was told still
\* holds: its token is one of the cluster's, its CA the one that cluster-info
\* shows.
AttemptHolds ==
    /\ JoinReady
    /\ worker.pc \in {"token"} \union WithToken
    /\ worker.pc \in WithToken => worker.token \in tokens
    /\ worker.pc \in WithCA => worker.ca = content[4]["ca"]

WorkerTyped == worker = [pc |-> worker.pc, token |-> worker.token, ca |-> worker.ca]

JoinInv == WorkerTyped /\ (calm => AttemptHolds)

\* No step takes a token out of the cluster, and none changes both the inputs
\* and what is rendered from them.
LEMMA AddonsStep ==
    ASSUME [Next]_vars
    PROVE  tokens \subseteq tokens' /\ (source' = source \/ content' = content)
  <1>1. ASSUME NEW op \in Operators, ReconcileStep(op)
        PROVE  tokens \subseteq tokens' /\ source' = source
    BY <1>1
    DEF ReconcileStep, ReconcileGone, ReconcileUnknownCluster, Reconcile, GetMarker,
        GetBootstrapToken, NewBootstrapToken, PersistBootstrapToken, GetClusterCA,
        ApplyBootstrapTokenSecret, Apply, ApplyIntoNowhere, GetAgentTLS,
        GetKonnectivityCA, GetKonnectivityTLS, mgmtVars, clusterVars
  <1>2. ASSUME NEW op \in Operators, ProcessStep(op)
        PROVE  tokens \subseteq tokens' /\ source' = source
    BY <1>2
    DEF ProcessStep, CallFails, Engage, Disengage, Elapse, Resync, Observe, Crash,
        mgmtVars, clusterVars
  <1>3. CASE ClusterStep
    BY <1>3
    DEF ClusterStep, Renew, Remove, LoseToken, Delete, Unmark, mgmtVars, clusterVars
  <1>4. CASE UNCHANGED vars
    BY <1>4 DEF vars
  <1> QED  BY <1>1, <1>2, <1>3, <1>4 DEF Next

\* What cluster-info shows is the CA.
LEMMA ShowsCA ==
    ASSUME JoinTable = JoinObjects, NEW S, AddonTable \in Seq(S)
    PROVE  /\ JoinReady => 1..16 \subseteq present /\ content[4]["ca"] = source["ca"]
           /\ JoinReady' => content'[4]["ca"] = source'["ca"]
  <1>1. LastJoin = 16 /\ Table[4] = clusterInfo
    BY JoinComesFirst, JoinPositions
  <1>2. "ca" \in Table[4].reads /\ "ca" \in Inputs
    BY <1>1, Grants DEF Inputs
  <1> QED  BY <1>1, <1>2 DEF JoinReady, Rendered

LEMMA AddonsKeepAttempt ==
    ASSUME JoinTable = JoinObjects, NEW S, AddonTable \in Seq(S),
           JoinInv, [Next]_vars, UNCHANGED worker, calm' = (calm /\ JoinReady')
    PROVE  JoinInv'
  <1>1. WorkerTyped'
    BY DEF JoinInv, WorkerTyped
  <1>2. ASSUME calm'
        PROVE  AttemptHolds'
    <2>1. AttemptHolds /\ JoinReady /\ JoinReady'
      BY <1>2 DEF JoinInv, AttemptHolds
    <2>2. content'[4]["ca"] = content[4]["ca"]
      BY <2>1, AddonsStep, ShowsCA
    <2> QED  BY <2>1, <2>2, AddonsStep DEF AttemptHolds
  <1> QED  BY <1>1, <1>2 DEF JoinInv

\* A step of the attempt that its conditions let succeed.
LEMMA StepSucceeds ==
    ASSUME WorkerTyped, NEW pc, NEW succeeds, NEW next, Step(pc, succeeds, next)
    PROVE  /\ worker.pc = pc
           /\ worker' = [pc |-> IF succeeds THEN next ELSE "failed",
                         token |-> worker.token, ca |-> worker.ca]
  BY DEF Step, WorkerTyped

LEMMA WorkerKeepsAttempt ==
    ASSUME JoinTable = JoinObjects, NEW S, AddonTable \in Seq(S), Apart(S),
           JoinInv, newJoinCommand \/ WorkerStep, UNCHANGED vars
    PROVE  JoinInv'
  <1>1. /\ PositionOf(clusterInfo) = 4
        /\ PositionOf(kubeletConfigUnversioned) = 8
        /\ PositionOf(kubeadmConfigConfigMap) = 16
    BY PositionsAre
  <1>2. /\ JoinReady' = JoinReady /\ tokens' = tokens /\ content' = content
    BY DEF vars, JoinReady
  <1>3. ASSUME JoinReady
        PROVE  /\ Exists(clusterInfo) /\ Exists(kubeletConfigUnversioned)
               /\ Exists(kubeadmConfigConfigMap)
               /\ ContentOf(clusterInfo) = content[4]
               /\ ContentOf(clusterInfo) = Rendered(PositionOf(clusterInfo), source)
    <2>1. 1..16 \subseteq present /\ content[4] = Rendered(4, source)
      BY <1>3, ShowsCA, JoinComesFirst DEF JoinReady
    <2> QED  BY <1>1, <2>1 DEF Exists, ContentOf
  <1>4. ASSUME JoinReady
        PROVE  /\ Allowed({Anonymous}, "get cluster-info")
               /\ \A permission \in {"get kubeadm-config", "get kubelet-config",
                                     "get nodes", "system:node-bootstrapper",
                                     "nodeclient"} :
                     Allowed(bootstrapTokenGroups, permission)
               /\ Allowed({Nodes}, "selfnodeclient")
    BY <1>4, ShowsCA, JoinSetGrants
  <1>5. CASE newJoinCommand
    <2>1. worker' = [pc |-> "token", token |-> 0, ca |-> 0] /\ calm' = JoinReady
      BY <1>5 DEF newJoinCommand, NoWorker
    <2> QED
      BY <1>2, <2>1 DEF JoinInv, WorkerTyped, AttemptHolds, WithToken, WithCA
  <1> SUFFICES ASSUME WorkerStep PROVE JoinInv'
    BY <1>5
  <1>6. calm' = calm /\ WorkerTyped /\ (calm => AttemptHolds /\ JoinReady)
    BY DEF WorkerStep, JoinInv, AttemptHolds
  <1> USE DEF JoinInv, AttemptHolds, WithToken, WithCA
  <1>7. CASE getLatestBootstrapToken
    <2>1. worker.pc = "token"
      BY <1>7 DEF getLatestBootstrapToken
    <2>2. CASE \E token \in tokens :
                  worker' = [worker EXCEPT !.pc = "hash", !.token = token]
      <3>1. PICK token \in tokens :
                worker' = [pc |-> "hash", token |-> token, ca |-> worker.ca]
        BY <1>6, <2>2 DEF WorkerTyped
      <3> QED  BY <1>2, <1>6, <3>1 DEF WorkerTyped
    <2>3. CASE tokens = {} /\ worker' = [worker EXCEPT !.pc = "failed"]
      <3>1. ~ calm
        BY <1>6, <2>3 DEF JoinReady
      <3> QED  BY <1>6, <2>3, <3>1 DEF WorkerTyped
    <2> QED  BY <1>7, <2>2, <2>3 DEF getLatestBootstrapToken
  <1>8. CASE getDiscoveryCAHash
    <2>1. WorkerTyped' /\ worker.pc = "hash"
      BY <1>6, <1>8 DEF getDiscoveryCAHash, WorkerTyped
    <2>2. ASSUME calm
          PROVE  worker' = [pc |-> "endpoint", token |-> worker.token,
                            ca |-> content[4]["ca"]]
      BY <1>3, <1>6, <1>8, <2>2 DEF getDiscoveryCAHash, WorkerTyped
    <2> QED  BY <1>2, <1>6, <2>1, <2>2
  <1>9. ASSUME NEW pc \in WithCA, NEW next \in WithCA, NEW succeeds,
               Step(pc, succeeds, next), calm => succeeds
        PROVE  JoinInv'
    <2>1. /\ worker.pc = pc
          /\ worker' = [pc |-> IF succeeds THEN next ELSE "failed",
                        token |-> worker.token, ca |-> worker.ca]
      BY <1>6, <1>9, StepSucceeds
    <2>2. WorkerTyped'
      BY <2>1 DEF WorkerTyped
    <2> QED  BY <1>2, <1>6, <1>9, <2>1, <2>2
  <1>10. CASE getAPIEndpoint
    BY <1>9, <1>10 DEF getAPIEndpoint
  <1>11. CASE Discover
    <2>1. worker.pc = "discover"
      BY <1>11 DEF Discover, Step
    <2> QED  BY <1>3, <1>4, <1>6, <1>9, <1>11, <2>1 DEF Discover
  <1>12. CASE Connect
    <2>1. CASE Step("connect", TRUE, "preflight")
      BY <1>9, <2>1
    <2>2. CASE ~ calm /\ Step("connect", FALSE, "preflight")
      BY <1>9, <2>2
    <2> QED  BY <1>3, <1>6, <1>12, <2>1, <2>2 DEF Connect
  <1>13. CASE Preflight
    <2>1. worker.pc = "preflight"
      BY <1>13 DEF Preflight, Step
    <2> QED  BY <1>3, <1>4, <1>6, <1>9, <1>13, <2>1 DEF Preflight, TokenAllowed
  <1>14. CASE Bootstrap
    <2>1. worker.pc = "bootstrap"
      BY <1>14 DEF Bootstrap, Step
    <2> QED  BY <1>4, <1>6, <1>9, <1>14, <2>1 DEF Bootstrap, TokenAllowed
  <1>15. CASE Rotate
    BY <1>4, <1>6, <1>9, <1>15 DEF Rotate
  <1> QED
    BY <1>7, <1>8, <1>10, <1>11, <1>12, <1>13, <1>14, <1>15 DEF WorkerStep

\* With the join set of rbac.go and whatever other objects: as long as the set
\* is complete and current no attempt to join fails at any step, though calls
\* fail, processes crash, tokens are lost and inputs change in between, with
\* every number of operator processes.
THEOREM JoinCorrect ==
    ASSUME JoinTable = JoinObjects, NEW S, AddonTable \in Seq(S), Apart(S)
    PROVE  JoinSpec => []JoinsWhenReady
  <1>1. JoinInit => JoinInv
    BY DEF JoinInit, NoWorker, JoinInv, WorkerTyped
  <1>2. JoinInv /\ [JoinNext]_joinVars => JoinInv'
    <2> SUFFICES ASSUME JoinInv, [JoinNext]_joinVars PROVE JoinInv'
      OBVIOUS
    <2>1. CASE (newJoinCommand \/ WorkerStep) /\ UNCHANGED vars
      BY <2>1, WorkerKeepsAttempt
    <2>2. CASE Next /\ UNCHANGED worker /\ calm' = (calm /\ JoinReady')
      BY <2>2, AddonsKeepAttempt
    <2>3. CASE UNCHANGED joinVars
      BY <2>3
      DEF joinVars, vars, JoinInv, WorkerTyped, AttemptHolds, JoinReady
    <2> QED  BY <2>1, <2>2, <2>3 DEF JoinNext
  <1>3. JoinInv => JoinsWhenReady
    BY DEF JoinInv, AttemptHolds, WithToken, JoinsWhenReady
  <1> QED  BY <1>1, <1>2, <1>3, PTL DEF JoinSpec

\* In particular with the addons of the code.
THEOREM JoinWithAddons ==
    ASSUME JoinTable = JoinObjects, AddonTable = AddonObjects
    PROVE  JoinSpec => []JoinsWhenReady
  BY JoinCorrect, AddonsListed, AddonsApart
=============================================================================
