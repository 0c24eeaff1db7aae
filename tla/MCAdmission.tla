---------------------------- MODULE MCAdmission ----------------------------
(***************************************************************************)
(* Instances of Admission for TLC.                                         *)
(***************************************************************************)
EXTENDS Admission

MCNamespaces == {"org-a", "c1", "giantswarm"}
MCVersionLabels == {"0.0.0", "1.0.0", "2.9.0", "3.0.0", "not-semver"}
MCMajor == [v \in MCVersionLabels \ {"not-semver"} |->
              CASE v = "0.0.0" -> 0 [] v = "1.0.0" -> 1
                [] v = "2.9.0" -> 2 [] v = "3.0.0" -> 3]
MCSpecNames == {"app", "custom", "shared", "cluster-aws"}
\* Two charts that share a ConfigMap and its values.
MCConfigPatches ==
  <<[appName |-> "custom", suffix |-> None, values |-> "custom values"],
    [appName |-> "shared", suffix |-> "custom", values |-> "custom values"]>>
MCTruncated == [s \in MCSpecNames |-> s]
MCReleases == [k \in MCSpecNames \X {"1.0.0", "1.0.1"} |->
                 [version |-> "v2", catalog |-> IF k[2] = "1.0.0" THEN "cluster" ELSE None]]

-----------------------------------------------------------------------------
(* Apps.                                                                   *)

Labels(version, cluster) ==
  [k \in LabelKeys |-> CASE k = "version" -> version
                         [] k = "cluster" -> cluster
                         [] OTHER -> None]

Manifest(name, specName) ==
  [ns |-> "org-a", name |-> name, deleting |-> FALSE, annotations |-> None,
   labels |-> Labels(None, "c1"), specName |-> specName, catalog |-> "default",
   version |-> "v1", config |-> NoRef, userConfig |-> NoRef,
   configSecret |-> NoRef, userSecret |-> NoRef,
   target |-> "default", extraConfigs |-> <<>>, inCluster |-> FALSE, context |-> None, secret |-> NoRef]

OneApp == [id \in {"a"} |-> {Manifest("a", "custom")}]
\* Two Apps whose charts share a ConfigMap.  The second has nothing else to be
\* looked up for it.
TwoApps == [id \in {"a", "b"} |->
  {IF id = "a" THEN Manifest(id, "custom")
   ELSE [Manifest(id, "shared") EXCEPT !.labels["version"] = "3.0.0",
                                       !.inCluster = TRUE]}]

\* An App in its organization's namespace, one in its cluster's namespace, and
\* a cluster app, each with several manifests.
ManyManifests ==
  [id \in {"a", "b", "c"} |->
     CASE id = "a" ->
            {[Manifest(id, "custom") EXCEPT !.labels["version"] = v, !.extraConfigs = x] :
               v \in {None, "3.0.0", "0.0.0"},
               x \in {<<>>, <<PspEntry(Manifest(id, "custom"))>>}}
       [] id = "b" ->
            {[Manifest(id, "app") EXCEPT !.ns = "c1", !.labels = Labels(v, c)] :
               v \in {None, "1.0.0", "3.0.0"}, c \in {None, "c1"}}
       [] id = "c" ->
            {[Manifest(id, "cluster-aws") EXCEPT !.labels = Labels("0.0.0", None),
                                                 !.inCluster = TRUE, !.catalog = g] :
               g \in {"cluster", "cluster-test"}}]

-----------------------------------------------------------------------------
(* States of the management cluster.                                       *)

KubeConfigSecret == [ns |-> "org-a", name |-> KubeConfig("c1"), cluster |-> "c1"]

Starting(cr, values) ==
  [provider |-> "capi", configMaps |-> [k \in Namespaces \X PspNames |-> values],
   clusters |-> [id \in ClusterIds |-> cr],
   chartOperator |-> [ns \in Namespaces |-> None],
   secrets |-> {KubeConfigSecret}, userValues |-> [n \in AppNames |-> "1.0.0"]]

\* A CAPI cluster whose Cluster CR appears late and stops serving PSPs later.
RaceEnvironments ==
  {Starting(None, "stale"), Starting([release |-> None, psp |-> None], None)}

\* A CAPI cluster that stops serving PSPs.
StoppingEnvironments == {Starting([release |-> None, psp |-> None], None)}

FrozenEnvironments ==
  LET enforced == Starting([release |-> 1930, psp |-> "disabled"], None)
  IN  {[enforced EXCEPT !.provider = p] : p \in Providers}
        \cup {[enforced EXCEPT !.clusters = [id \in ClusterIds |-> None]]}
        \cup {[enforced EXCEPT !.chartOperator = [ns \in Namespaces |-> v]] :
                v \in MCVersionLabels}
        \cup {[enforced EXCEPT !.secrets = {}]}
        \cup {[enforced EXCEPT !.userValues = [n \in AppNames |-> v]] :
                v \in {"noRelease", "1.0.1"}}

Symmetry == Permutations(Workers)
=============================================================================
