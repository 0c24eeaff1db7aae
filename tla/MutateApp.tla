----------------------------- MODULE MutateApp -----------------------------
(***************************************************************************)
(* The pure half of the mutating webhook: the conditions MutateApp         *)
(* (pkg/app/mutate_app.go) tests and the patches it puts together.  What   *)
(* it learns from the API server on the way is a parameter here; module    *)
(* Mutator makes the calls.                                                *)
(***************************************************************************)
EXTENDS JSONPatch

CONSTANTS
  ConfigPatches,        \* the psp configuration: a sequence of [appName,
                        \* suffix, values], suffix None when it is left out
  Truncated,            \* ConfigMap suffix -> what the cut of the name to
                        \* 60 characters leaves of it
  DefaultPspValues,     \* defaultExtraConfigValues
  ReleaseVersions,      \* the semver release labels of Cluster CRs, ordered
  PssCutoffVersion,     \* v19.3.0
  MalformedRelease      \* a release label that is no semver

ASSUME ConfigPatchesAssumption ==
  \A p \in ToSet(ConfigPatches) : /\ p.appName \in DOMAIN Truncated
                                  /\ p.suffix \in DOMAIN Truncated \cup {None}
ASSUME ReleasesAssumption ==
  /\ ReleaseVersions \subseteq Nat
  /\ PssCutoffVersion \in ReleaseVersions
  /\ MalformedRelease \notin ReleaseVersions \cup {None}

\* A mistake to rule out: the entry is given no valid priority.
NoPriority == 0
BottomPriority == 1
TopPriority == 150

-----------------------------------------------------------------------------
(* Gates.                                                                  *)

\* The App names no version of its own, so the chart-operator App's is used.
DefaultsVersion(app) ==
  ~IsManagedInOrg(app) /\ VersionLabel(app) \in {None, LegacyVersion}

\* Nothing is changed when the version is no semver; below major version 3
\* only the labels are.  An App managed in its organization's namespace is
\* always mutated, an App with the unique version whatever its major version.
UnreadableVersion(app, version) ==
  ~IsManagedInOrg(app) /\ version \notin DOMAIN Major

\* A mistake to rule out: version 3 itself is taken for an old one.
LabelsOnlyUpToThree(app, version) ==
  /\ ~IsManagedInOrg(app)
  /\ VersionLabel(app) # UniqueVersion
  /\ Major[version] <= 3
LabelsOnly(app, version) ==
  /\ ~IsManagedInOrg(app)
  /\ VersionLabel(app) # UniqueVersion
  /\ Major[version] < 3

-----------------------------------------------------------------------------
(* Metadata.                                                               *)

\* Empty objects to add labels and annotations to.
MetadataPatches(app) ==
  (IF app.annotations \in {None, "empty"}
   THEN <<PatchAdd("/metadata", "annotations", "empty")>> ELSE <<>>)
  \o
  (IF ~HasLabels(app)
   THEN <<PatchAdd("/metadata", "labels", NoLabels)>> ELSE <<>>)

LabelPatches(app, version) ==
  (IF app.labels["app.kubernetes.io/name"] = None /\ app.labels["app"] = None
   THEN <<PatchAdd("/metadata/labels", "app.kubernetes.io/name", app.specName)>>
   ELSE <<>>)
  \o
  (IF VersionLabel(app) \in {None, LegacyVersion} /\ version # None
   THEN <<PatchAdd("/metadata/labels", "version", version)>> ELSE <<>>)

-----------------------------------------------------------------------------
(* Cluster values.                                                         *)

ClusterValuesPatches(app) ==
  IF VersionLabel(app) = UniqueVersion \/ ReferencesClusterValues(app)
  THEN <<>>
  ELSE <<PatchAdd("/spec/extraConfigs", "-",
           ConfigMapEntry(ClusterConfigMapName(app), app.ns, BottomPriority))>>

-----------------------------------------------------------------------------
(* PSP removal.                                                            *)

\* The first configured patch of a chart name, if it has one.
CustomPatchesOf(specName) ==
  {i \in DOMAIN ConfigPatches : ConfigPatches[i].appName = specName}
AppRequiresCustomPatch(specName) == CustomPatchesOf(specName) # {}
CustomPatch(specName) ==
  ConfigPatches[CHOOSE i \in CustomPatchesOf(specName) :
                  \A j \in CustomPatchesOf(specName) : i <= j]

ExtraConfigName(specName) ==
  LET patch == CustomPatch(specName)
      suffix == IF patch.suffix = None THEN patch.appName ELSE patch.suffix
  IN  PspRemovalPatch(IF AppRequiresCustomPatch(specName)
                      THEN Truncated[suffix] ELSE None)
ExtraConfigValues(specName) ==
  IF AppRequiresCustomPatch(specName)
  THEN CustomPatch(specName).values ELSE DefaultPspValues

\* A mistake to rule out: the ConfigMap is looked for in the namespace of the
\* admission controller.
PspEntryOfManagement(app) ==
  ConfigMapEntry(ExtraConfigName(app.specName), ManagementNamespace, TopPriority)
PspEntry(app) ==
  ConfigMapEntry(ExtraConfigName(app.specName), app.ns, TopPriority)

\* The ConfigMaps this may write, and the values it may write there.
PspNames == {ExtraConfigName(n) : n \in SpecNames}
PspValues == {ExtraConfigValues(n) : n \in SpecNames}

\* Apps PSP removal is not about: those of no workload cluster, and bundles
\* that carry a cluster label but are deployed to the management cluster.
OutsideWorkloadClusters(app) ==
  \/ ClusterLabel(app) = None
  \/ VersionLabel(app) = UniqueVersion /\ app.ns = ManagementNamespace

Providers == {"vintage", "capi", "other"}

\* The Cluster CR of an App, None when there is none, decides what is done:
\* patch the App, leave it, or reject it.
ClusterCR == [release : ReleaseVersions \cup {None, MalformedRelease},
              psp : {None, "disabled", "other"}]

\* What the cluster is, as opposed to how the code finds out.
ServesNoPsps(provider, cr) ==
  /\ cr # None
  /\ \/ /\ provider = "vintage"
        /\ cr.release \in ReleaseVersions
        /\ cr.release >= PssCutoffVersion
     \/ provider = "capi" /\ cr.psp = "disabled"

Undecidable(provider, cr) ==
  \/ provider = "vintage" /\ cr = None
  \/ provider = "vintage" /\ cr # None /\ cr.release \notin ReleaseVersions
  \/ provider = "capi" /\ cr # None /\ cr.psp = "other"

\* Mistakes to rule out: the cutoff release itself is left out; a CAPI
\* cluster without the label is taken for one that has it.
EnforcesPssAfterCutoff(provider, cr) ==
  /\ cr # None
  /\ \/ /\ provider = "vintage"
        /\ cr.release \in ReleaseVersions
        /\ cr.release > PssCutoffVersion
     \/ provider = "capi" /\ cr.psp = "disabled"
EnforcesPssUnlabelled(provider, cr) ==
  /\ cr # None
  /\ \/ /\ provider = "vintage"
        /\ cr.release \in ReleaseVersions
        /\ ~(cr.release < PssCutoffVersion)
     \/ provider = "capi" /\ cr.psp # "other"
EnforcesPss(provider, cr) ==
  /\ cr # None
  /\ \/ /\ provider = "vintage"
        /\ cr.release \in ReleaseVersions
        /\ ~(cr.release < PssCutoffVersion)
     \/ provider = "capi" /\ cr.psp = "disabled"

\* "none": PSP removal does not touch the App; "label": it refreshes the label
\* of an App that has the entry already; "entry": it adds label and entry.
PspPatches(app, psp) ==
  (IF psp = "none" THEN <<>>
   ELSE <<PatchAdd("/metadata/labels", "psp", "disabled")>>)
  \o
  (IF psp = "entry" THEN <<PatchAdd("/spec/extraConfigs", "-", PspEntry(app))>>
   ELSE <<>>)

-----------------------------------------------------------------------------
(* The list that two of the parts above may add to is prepared once.       *)

HasPatchAddToExtraConfigs(patches) ==
  \E i \in DOMAIN patches : patches[i].container = "/spec/extraConfigs"

\* Mistakes to rule out: only one of the two parts is asked; the list is
\* prepared though the App has one.
NeedsExtraConfigsSetForValues(app, psp) ==
  app.extraConfigs = <<>> /\ HasPatchAddToExtraConfigs(ClusterValuesPatches(app))
NeedsExtraConfigsSetAlways(app, psp) ==
  \/ HasPatchAddToExtraConfigs(ClusterValuesPatches(app))
  \/ HasPatchAddToExtraConfigs(PspPatches(app, psp))
NeedsExtraConfigsSet(app, psp) ==
  /\ app.extraConfigs = <<>>
  /\ \/ HasPatchAddToExtraConfigs(ClusterValuesPatches(app))
     \/ HasPatchAddToExtraConfigs(PspPatches(app, psp))

ExtraConfigsPatches(app, psp) ==
  (IF NeedsExtraConfigsSet(app, psp)
   THEN <<PatchAdd("/spec", "extraConfigs", <<>>)>> ELSE <<>>)
  \o ClusterValuesPatches(app) \o PspPatches(app, psp)

-----------------------------------------------------------------------------
(* Kubeconfig.                                                             *)

KeepsKubeConfig(app) ==
  app.inCluster \/ app.secret.name # None \/ app.secret.ns # None

KubeConfigPatches(app, ns) ==
  IF ns = None THEN <<>>
  ELSE (IF app.context = None
        THEN <<PatchAdd("/spec/kubeConfig", "context",
                 IF IsManagedInOrg(app) THEN ClusterLabel(app) ELSE app.ns)>>
        ELSE <<>>)
       \o <<PatchAdd("/spec/kubeConfig", "secret",
              Ref(ClusterKubeConfigSecretName(app), ns))>>

-----------------------------------------------------------------------------
(* Version of a cluster app.                                               *)

IsClusterApp(app) ==
  app.catalog \in ClusterCatalogs /\ app.specName \in ClusterAppNames

\* A mistake to rule out: a cluster app that names a version keeps it.
ClusterAppPatchesOnce(app, component) ==
  IF component = None \/ app.version # None THEN <<>>
  ELSE <<PatchAdd("/spec", "version", component.version),
         PatchAdd("/spec", "catalog", component.catalog)>>
ClusterAppPatches(app, component) ==
  IF component = None THEN <<>>
  ELSE (IF app.version # component.version
        THEN <<PatchAdd("/spec", "version", component.version)>> ELSE <<>>)
       \o (IF app.catalog # component.catalog
           THEN <<PatchAdd("/spec", "catalog", component.catalog)>> ELSE <<>>)

-----------------------------------------------------------------------------
(* What MutateApp returns, by how far it got.                              *)

MetadataOnly(app, version) ==
  IF LabelPatches(app, version) = <<>> THEN <<>>
  ELSE MetadataPatches(app) \o LabelPatches(app, version)

FullMutation(app, version, psp, kubeNs, component) ==
  MetadataPatches(app) \o LabelPatches(app, version)
    \o ExtraConfigsPatches(app, psp)
    \o KubeConfigPatches(app, kubeNs)
    \o ClusterAppPatches(app, component)
=============================================================================
