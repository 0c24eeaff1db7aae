----------------------------- MODULE MCWebhooks -----------------------------
(***************************************************************************)
(* Instances of Webhooks for TLC.                                          *)
(***************************************************************************)
EXTENDS Webhooks

MCNamespaces == {"c1", "org-a", "x-monitoring", "giantswarm"}
MCVersionLabels == {"0.0.0", "1.0.0", "2.9.0", "3.0.0"}
MCMajor == [v \in MCVersionLabels |->
              CASE v = "0.0.0" -> 0 [] v = "1.0.0" -> 1
                [] v = "2.9.0" -> 2 [] v = "3.0.0" -> 3]
MCSpecNames == {"app", "operator", "cluster-aws"}
MCConfigPatches == <<[appName |-> "app", suffix |-> None, values |-> "app values"]>>
MCTruncated == [s \in MCSpecNames |-> s]
MCReleases == [k \in MCSpecNames \X {"1.0.0"} |-> [version |-> "v2", catalog |-> "cluster"]]
MCSingletonOf == [n \in MCSpecNames |-> IF n = "app" THEN "cluster" ELSE None]

\* "giantswarm" is protected by name, "x-monitoring" by its suffix.
MCAffixed == {<<"x-monitoring", "-monitoring">>}
MCStartsWith == {<<"giantswarm:operator", "giantswarm:">>}

Ordinary == [name |-> "customer", groups |-> {"customers"}]
Operator == [name |-> "giantswarm:operator", groups |-> {}]
Staff == [name |-> "staff", groups |-> {"giantswarm", "staff"}]
OrdinaryAndStaff == {Ordinary, Staff}
OrdinaryAndOperator == {Ordinary, Operator}
OrdinaryOnly == {Ordinary}

-----------------------------------------------------------------------------
Labels(version, cluster) ==
  [k \in LabelKeys |-> CASE k = "version" -> version
                         [] k = "cluster" -> cluster
                         [] OTHER -> None]

Manifest(name, ns, specName, labels) ==
  [ns |-> ns, name |-> name, deleting |-> FALSE, annotations |-> None,
   labels |-> labels, specName |-> specName, catalog |-> "default",
   version |-> "v1", config |-> NoRef, userConfig |-> NoRef,
   configSecret |-> NoRef, userSecret |-> NoRef, target |-> "default",
   extraConfigs |-> <<>>, inCluster |-> FALSE, context |-> None, secret |-> NoRef]

\* An App of a workload cluster that takes its configuration from its own
\* namespace or from a protected one, at each level in turn.
Unique == Manifest("a", "c1", "app", Labels("0.0.0", "c1"))
Elsewhere == ConfigMapEntry(ClusterValues("giantswarm"), "giantswarm", 25)
ReferringManifests ==
  {Unique,
   [Unique EXCEPT !.catalog = "missing"],
   [Unique EXCEPT !.extraConfigs = <<Elsewhere>>, !.version = "v2"],
   [Unique EXCEPT !.userSecret = Ref("secret", "x-monitoring")],
   [Unique EXCEPT !.configSecret = Ref("secret", "c1")],
   [Unique EXCEPT !.userConfig = Ref(ClusterValues("c1"), "c1"), !.target = "kube-system"],
   [Unique EXCEPT !.secret = Ref(KubeConfig("c1"), "giantswarm"), !.labels["version"] = "3.0.0"],
   [Unique EXCEPT !.labels["version"] = "2.9.0"],
   [Unique EXCEPT !.labels["version"] = None],
   [Unique EXCEPT !.labels["version"] = "1.0.0"]}

\* Apps in and next to the protected namespaces, one of a reserved chart, and
\* a cluster app.
Places ==
  LET here(ns, chart) == Manifest("a", ns, chart, Labels("0.0.0", "c1"))
  IN  {here("giantswarm", "operator"), here("x-monitoring", "app"),
       here("c1", "operator"),
       [here("org-a", "cluster-aws") EXCEPT !.catalog = "cluster", !.inCluster = TRUE]}

\* One of these Apps at a time.
Shapes == [id \in {"a"} |-> ReferringManifests \cup Places]

Singletons == [id \in {"a", "b"} |-> {Manifest(id, "org-a", "app", Labels(None, "c1"))}]
\* Refused when an ordinary user submits it; the other one is announced.
Protectively ==
  [Unique EXCEPT !.version = "v2", !.secret = Ref(KubeConfig("c1"), "giantswarm")]
Harmlessly == [Unique EXCEPT !.secret = Ref(KubeConfig("c1"), "c1")]
OneApp == [id \in {"a"} |-> {Protectively, Harmlessly}]

-----------------------------------------------------------------------------
Secrets(ns) == {[ns |-> ns, name |-> KubeConfig("c1"), cluster |-> "c1"]}

Starting(cr, ns, version) ==
  [provider |-> "capi", configMaps |-> [k \in MCNamespaces \X PspNames |-> None],
   clusters |-> [id \in ClusterIds |-> cr],
   chartOperator |-> [n \in MCNamespaces |-> version],
   secrets |-> Secrets(ns), userValues |-> [n \in AppNames |-> "1.0.0"]]

\* With the kubeconfig where the App is, and in a protected namespace.
FrozenEnvironments ==
  LET enforced(ns, version) == Starting([release |-> 1930, psp |-> "disabled"], ns, version)
  IN  {enforced("c1", v) : v \in {"3.0.0", "2.9.0", "0.0.0", None}}
        \cup {enforced("giantswarm", "3.0.0")}
OneEnvironment == {Starting([release |-> 1930, psp |-> None], "c1", "3.0.0")}
=============================================================================
