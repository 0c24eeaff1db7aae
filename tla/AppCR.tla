------------------------------- MODULE AppCR -------------------------------
(***************************************************************************)
(* The App custom resource as the admission controller reads it, and the   *)
(* accessors of github.com/giantswarm/app/v8/pkg/key its code calls.  The  *)
(* resource and the accessors are libraries: they are modelled from how    *)
(* pkg/app uses them.                                                      *)
(*                                                                         *)
(* An absent field and an empty string are the same value, None: every     *)
(* accessor returns "" for both.  An object name the code builds by        *)
(* gluing strings together is a pair <<what it is, whose it is>>.          *)
(***************************************************************************)
EXTENDS Naturals, Sequences, SequencesExt

CONSTANTS
  None,                 \* the empty string, the absent field
  Namespaces,           \* namespaces of the management cluster
  OrgNamespaces,        \* those whose name starts with "org-"
  ManagementNamespace,  \* the namespace "giantswarm"
  ClusterIds,           \* names of workload clusters
  AppNames,             \* .metadata.name of Apps
  SpecNames,            \* .spec.name of Apps: the chart to install
  ClusterAppNames,      \* the chart names that start with "cluster-"
  Catalogs,             \* App catalogs
  ClusterCatalogs,      \* the catalogs "cluster" and "cluster-test"
  ChartVersions,        \* .spec.version of Apps
  TargetNamespaces,     \* .spec.namespace of Apps
  VersionLabels,        \* values of the app-operator version label
  Major,                \* the major version of each label that is a semver
  LegacyVersion,        \* the label "1.0.0"
  UniqueVersion         \* the label "0.0.0": an app of the management cluster

ASSUME NamesAssumption ==
  /\ OrgNamespaces \subseteq Namespaces
  /\ ManagementNamespace \in Namespaces \ OrgNamespaces
  /\ ClusterAppNames \subseteq SpecNames
  /\ ClusterCatalogs \subseteq Catalogs
  /\ None \notin Namespaces \cup ClusterIds \cup SpecNames \cup VersionLabels
  /\ None \notin {"empty", "user"}      \* what annotations may be

ASSUME VersionsAssumption ==
  /\ DOMAIN Major \subseteq VersionLabels
  /\ \A v \in DOMAIN Major : Major[v] \in Nat
  /\ {LegacyVersion, UniqueVersion} \subseteq DOMAIN Major
  /\ Major[LegacyVersion] = 1
  /\ Major[UniqueVersion] = 0

-----------------------------------------------------------------------------
(* Objects an App refers to.                                               *)

Owners == Namespaces \cup ClusterIds \cup {None}
ClusterValues(owner) == <<"cluster-values", owner>>
KubeConfig(owner) == <<"kubeconfig", owner>>
PspRemovalPatch(suffix) == <<"psp-removal-patch", suffix>>

\* A reference to a ConfigMap or a Secret, and the reference that is not set.
Ref(name, ns) == [name |-> name, ns |-> ns]
NoRef == Ref(None, None)

ConfigMapEntry(name, ns, priority) ==
  [kind |-> "configMap", name |-> name, ns |-> ns, priority |-> priority]

-----------------------------------------------------------------------------
(* An App document.  Its labels are those the controller reads or writes;  *)
(* config and userConfig are the ConfigMaps of these two levels,           *)
(* configSecret and userSecret their Secrets, secret is the kubeconfig.    *)

LabelKeys == {"app.kubernetes.io/name", "app", "version", "cluster", "psp"}

HasLabels(app) == \E k \in LabelKeys : app.labels[k] # None

VersionLabel(app) == app.labels["version"]
ClusterLabel(app) == app.labels["cluster"]

InOrgNamespace(app) == app.ns \in OrgNamespaces

\* isManagedInOrg: a workload cluster app that lives in its organization's
\* namespace (a CAPI app) and not in a namespace named after its cluster.
IsManagedInOrg(app) == ~app.inCluster /\ InOrgNamespace(app)

\* The cluster an App belongs to, as its ConfigMap and Secret names spell it.
Owner(app) == IF InOrgNamespace(app) THEN ClusterLabel(app) ELSE app.ns
ClusterConfigMapName(app) == ClusterValues(Owner(app))
ClusterKubeConfigSecretName(app) == KubeConfig(Owner(app))

Entries(app) == ToSet(app.extraConfigs)

\* A mistake to rule out: the user level is not looked at.
ReferencesClusterValuesExceptUser(app) ==
  LET ref == Ref(ClusterConfigMapName(app), app.ns)
  IN  \/ app.config = ref
      \/ \E e \in Entries(app) : Ref(e.name, e.ns) = ref
\* Whether one of the three configuration levels of an App already refers to
\* its cluster's values.
ReferencesClusterValues(app) ==
  LET ref == Ref(ClusterConfigMapName(app), app.ns)
  IN  \/ app.config = ref
      \/ app.userConfig = ref
      \/ \E e \in Entries(app) : Ref(e.name, e.ns) = ref
=============================================================================
