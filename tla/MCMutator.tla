----------------------------- MODULE MCMutator -----------------------------
(***************************************************************************)
(* Instances of Mutator for TLC: the requests and the states of the        *)
(* management cluster the runs choose from.                                *)
(***************************************************************************)
EXTENDS Mutator

MCNamespaces == {"org-a", "c1", "giantswarm"}
MCOrgNamespaces == {"org-a"}
MCClusterIds == {"c1"}
MCSpecNames == {"app", "custom", "shared", "cluster-aws"}
MCAppNames == {"app", "custom"}
MCVersionLabels == {"0.0.0", "1.0.0", "2.9.0", "3.0.0", "not-semver"}
MCMajor == [v \in MCVersionLabels \ {"not-semver"} |->
              CASE v = "0.0.0" -> 0 [] v = "1.0.0" -> 1
                [] v = "2.9.0" -> 2 [] v = "3.0.0" -> 3]

\* "custom" has two entries, of which the first counts; the ConfigMap of
\* "shared" has the name, and the values, of that of "custom".
MCConfigPatches ==
  <<[appName |-> "custom", suffix |-> None, values |-> "custom values"],
    [appName |-> "custom", suffix |-> "other", values |-> "other values"],
    [appName |-> "shared", suffix |-> "custom-long", values |-> "custom values"]>>
MCTruncated == [s \in MCSpecNames \cup {"other", "custom-long"} |->
                  IF s = "custom-long" THEN "custom" ELSE s]
\* Releases 19.2.0, 19.3.0 and 20.0.0.
MCReleaseVersions == {1920, 1930, 2000}

MCReleases ==
  [k \in MCSpecNames \X {"1.0.0", "1.0.1", "1.0.2", "1.0.3"} |->
     CASE k[2] = "1.0.0" -> [version |-> "v2", catalog |-> "cluster"]
       [] k[2] = "1.0.1" -> [version |-> "v2", catalog |-> None]
       [] k[2] = "1.0.2" -> [version |-> None, catalog |-> None]
       [] OTHER -> None]

-----------------------------------------------------------------------------
(* Requests.                                                               *)

Labels(name, version, cluster) ==
  [k \in LabelKeys |-> CASE k = "app" -> name
                         [] k = "version" -> version
                         [] k = "cluster" -> cluster
                         [] OTHER -> None]

\* A CAPI App in its organization's namespace, as its manifest has it.
BaseApp ==
  [ns |-> "org-a", name |-> "app", deleting |-> FALSE, annotations |-> None,
   labels |-> Labels(None, None, "c1"), specName |-> "app",
   catalog |-> "cluster", version |-> "v1", config |-> NoRef,
   userConfig |-> NoRef, configSecret |-> NoRef, userSecret |-> NoRef,
   target |-> "default", extraConfigs |-> <<>>, inCluster |-> FALSE,
   context |-> None, secret |-> NoRef]

Create(app) == [op |-> "CREATE", dryRun |-> FALSE, app |-> app]

OtherEntry == ConfigMapEntry(ClusterValues("giantswarm"), "giantswarm", 25)
OwnValues(app) == Ref(ClusterConfigMapName(app), app.ns)

\* Every combination of what the gates look at.
GateApps ==
  {[BaseApp EXCEPT !.ns = ns, !.inCluster = in, !.labels = Labels(n, v, c)] :
     ns \in MCNamespaces, in \in BOOLEAN, n \in {None, "app"},
     v \in MCVersionLabels \cup {None}, c \in {None, "c1"}}

\* Every combination of the configuration levels, for Apps that are mutated.
ConfigApps ==
  LET apps == {[BaseApp EXCEPT !.ns = ns, !.specName = n, !.annotations = a,
                               !.labels = Labels(None, v, "c1")] :
                 ns \in {"org-a", "c1"}, v \in {"0.0.0", "3.0.0"},
                 <<n, a>> \in {<<"app", None>>, <<"custom", "user">>}}
      own(app) == ConfigMapEntry(ClusterConfigMapName(app), app.ns, 1)
      elsewhere(app) == ConfigMapEntry(ClusterValues(app.ns), "giantswarm", 1)
      lists(app) == {<<>>, <<OtherEntry>>, <<elsewhere(app)>>, <<own(app)>>,
                     <<PspEntry(app)>>, <<OtherEntry, PspEntry(app)>>,
                     <<[PspEntry(app) EXCEPT !.priority = 100]>>}
  IN  UNION {{[app EXCEPT !.config = c, !.userConfig = u, !.extraConfigs = x] :
                c \in {NoRef, OwnValues(app)}, u \in {NoRef, OwnValues(app)},
                x \in lists(app)} : app \in apps}

KubeConfigApps ==
  {[BaseApp EXCEPT !.ns = ns, !.labels = Labels("app", "3.0.0", "c1"),
                   !.context = x, !.secret = s] :
     ns \in {"org-a", "c1"}, x \in {None, "c1"},
     s \in {NoRef, Ref(KubeConfig("c1"), None), Ref(KubeConfig("c1"), "org-a")}}

ClusterApps ==
  {[BaseApp EXCEPT !.labels = Labels("app", "0.0.0", c), !.inCluster = TRUE,
                   !.specName = n, !.catalog = g, !.version = v] :
     c \in {None, "c1"}, n \in {"app", "cluster-aws"},
     g \in {None, "cluster", "cluster-test", "default"}, v \in {None, "v1", "v2"}}

ShapeRequests ==
  {Create(app) : app \in GateApps \cup ConfigApps \cup KubeConfigApps \cup ClusterApps}
    \cup {[op |-> op, dryRun |-> dry, app |-> [app EXCEPT !.deleting = deleting]] :
            op \in {"CREATE", "UPDATE"}, dry \in BOOLEAN, deleting \in BOOLEAN,
            app \in {BaseApp, [BaseApp EXCEPT !.extraConfigs = <<PspEntry(BaseApp)>>]}}

-----------------------------------------------------------------------------
(* States of the management cluster.                                       *)

ConfigMaps(values) == [k \in MCNamespaces \X PspNames |-> values]
KubeConfigSecret == [ns |-> "org-a", name |-> KubeConfig("c1"), cluster |-> "c1"]
OtherSecret == [ns |-> "giantswarm", name |-> KubeConfig("org-a"), cluster |-> "c1"]

BaseEnvironment ==
  [provider |-> "capi", configMaps |-> ConfigMaps(None),
   clusters |-> [id \in MCClusterIds |-> [release |-> 2000, psp |-> "disabled"]],
   chartOperator |-> [ns \in MCNamespaces |-> None],
   secrets |-> {KubeConfigSecret, OtherSecret},
   userValues |-> [n \in MCAppNames |-> "1.0.0"]]

WithClusters(crs) ==
  {[BaseEnvironment EXCEPT !.provider = p, !.clusters = [id \in MCClusterIds |-> cr]] :
     p \in Providers, cr \in crs}

ShapeEnvironments ==
  WithClusters({None, [release |-> None, psp |-> None],
                [release |-> MalformedRelease, psp |-> "other"],
                [release |-> 1920, psp |-> "disabled"],
                [release |-> 1930, psp |-> None],
                [release |-> 2000, psp |-> "other"]})
    \cup {[BaseEnvironment EXCEPT !.configMaps = ConfigMaps("stale"), !.secrets = s] :
            s \in SUBSET {KubeConfigSecret, OtherSecret,
                          [KubeConfigSecret EXCEPT !.ns = "c1"]}}
    \cup {[BaseEnvironment EXCEPT !.chartOperator = [ns \in MCNamespaces |-> v]] :
            v \in MCVersionLabels}
    \cup {[BaseEnvironment EXCEPT !.userValues = [n \in MCAppNames |-> v]] :
            v \in UserValues}

\* What arrives while requests are being served: the chart-operator App, the
\* kubeconfig Secret, the user values, the Cluster CR.
LateRequests ==
  {Create([BaseApp EXCEPT !.ns = "c1"]),
   Create([BaseApp EXCEPT !.specName = "cluster-aws", !.labels = Labels("app", None, None)]),
   Create(BaseApp)}
LateEnvironments ==
  {[BaseEnvironment EXCEPT !.clusters = [id \in MCClusterIds |-> None], !.secrets = {},
                           !.userValues = [n \in MCAppNames |-> "missing"]],
   [BaseEnvironment EXCEPT !.chartOperator = [ns \in MCNamespaces |-> "3.0.0"]]}

\* Apps that share a ConfigMap nobody has created yet.
SharingRequests ==
  {Create([BaseApp EXCEPT !.specName = n]) : n \in {"custom", "shared"}}
SharingEnvironments == {BaseEnvironment}
SharedEnvironments ==
  {[BaseEnvironment EXCEPT !.configMaps = ConfigMaps(v)] : v \in {None, "stale"}}

\* An App whose object name differs from its chart name.
RenamedRequests ==
  {Create([BaseApp EXCEPT !.name = n, !.specName = c]) :
     n \in MCAppNames, c \in {"app", "custom"}}

Symmetry == Permutations(Workers)
=============================================================================
