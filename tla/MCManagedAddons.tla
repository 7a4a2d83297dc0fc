-------------------------- MODULE MCManagedAddons ---------------------------
(* Instances of the addons controller for TLC. *)
EXTENDS ManagedAddons, AddonTables

\* A part-of ConfigMap, which is not watched, a Secret, and a workload in a
\* namespace that goes with it.
SmallJoin == <<clusterInfo>>
SmallAddons == <<Head(KonnectivitySecrets), buildFlannelNamespace,
                 buildFlannelDaemonSet>>
=============================================================================
