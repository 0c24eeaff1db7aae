------------------------------ MODULE Mutator ------------------------------
(***************************************************************************)
(* The mutating webhook as a concurrent program: any number of requests    *)
(* are served at once, by the goroutines of all replicas, and each reads   *)
(* and writes the management cluster through the API server while the      *)
(* others, and the controllers of the cluster, do the same.  One action is *)
(* one API call with the code that runs up to the next one.                *)
(*                                                                         *)
(* The state of the replicas is the state of the requests they serve: the  *)
(* code keeps nothing else, no lock and no cache.                          *)
(***************************************************************************)
EXTENDS MutateApp

CONSTANTS
  Workers,              \* requests that may be served at the same time
  Requests,             \* requests the webhook may receive
  Environments,         \* states of the management cluster: it starts in one
                        \* of them, and may move towards another
  ReleaseNames,         \* release versions that user values name
  Releases,             \* Release CRs: <<chart name, release version>> ->
                        \* [version, catalog] of the chart, or None
  EnvironmentMoves,     \* whether other controllers change the cluster
  MaxFaults             \* bound: failures of API calls and of the service

\* Objects the webhook reads and writes.
Secret == [ns : Namespaces, name : {KubeConfig(o) : o \in Owners},
           cluster : Owners]     \* label cluster.x-k8s.io/cluster-name
\* User values name a release version, or none for one of these reasons.
NoReleaseNamed == {"missing", "noGlobal", "noRelease", "badRelease"}
UserValues == NoReleaseNamed \cup ReleaseNames
Environment ==
  [provider : Providers,
   configMaps : [Namespaces \X PspNames -> PspValues \cup {None, "stale"}],
   clusters : [ClusterIds -> ClusterCR \cup {None}],
   chartOperator : [Namespaces -> VersionLabels \cup {None}],
   secrets : SUBSET Secret,
   userValues : [AppNames -> UserValues]]

Component == [version : ChartVersions \cup {None}, catalog : Catalogs \cup {None}]

VARIABLES
  provider,       \* --provider, the same for every replica
  configMaps,     \* the psp-removal-patch ConfigMaps: their values, or None
  clusters,       \* Cluster CRs
  chartOperator,  \* the version label of the chart-operator App, by namespace
  secrets,        \* kubeconfig Secrets
  userValues,     \* what merging an App's user values yields
  faults,         \* API calls that have failed so far
  call            \* the requests being served

environment == <<clusters, chartOperator, secrets, userValues>>
vars == <<provider, configMaps, environment, faults, call>>

-----------------------------------------------------------------------------
(* A request being served.  pc names the API call to make next.            *)

AppLabels ==
  {l \in [LabelKeys -> SpecNames \cup VersionLabels \cup ClusterIds \cup {None, "disabled"}] :
     /\ l["version"] \in VersionLabels \cup {None}
     /\ l["cluster"] \in ClusterIds \cup {None}
     /\ l["psp"] \in {None, "disabled"}}

ValuesRef == [name : {None} \cup {ClusterValues(o) : o \in Owners},
              ns : Namespaces \cup {None}]
SecretRef == [name : {None, "secret"}, ns : Namespaces \cup {None}]

App == [ns : Namespaces, name : AppNames, deleting : BOOLEAN,
        annotations : {None, "empty", "user"}, labels : AppLabels,
        specName : SpecNames,
        catalog : Catalogs \cup {None}, version : ChartVersions \cup {None},
        config : ValuesRef, userConfig : ValuesRef,
        extraConfigs : Seq([kind : {"configMap"},
                            name : PspNames \cup {ClusterValues(o) : o \in Owners},
                            ns : Namespaces, priority : 1..TopPriority]),
        configSecret : SecretRef, userSecret : SecretRef,
        target : TargetNamespaces,
        inCluster : BOOLEAN, context : Namespaces \cup ClusterIds \cup {None},
        secret : [name : {None} \cup {KubeConfig(o) : o \in Owners},
                  ns : Namespaces \cup {None}]]

Request == [op : {"CREATE", "UPDATE"}, dryRun : BOOLEAN, app : App]

ASSUME MutatorAssumption ==
  /\ MaxFaults \in Nat
  /\ Requests \subseteq Request
  /\ EnvironmentMoves \in BOOLEAN
  /\ Environments \subseteq Environment
  /\ ReleaseNames \cap NoReleaseNamed = {}
  /\ \A n \in ClusterAppNames, v \in ReleaseNames :
       Releases[<<n, v>>] \in Component \cup {None}

ApiCalls == {"GetChartOperatorApp", "ListClusters", "GetConfigMap",
             "CreateConfigMap", "UpdateConfigMap", "GetSecret", "ListSecrets",
             "GetUserValues", "GetRelease"}

MaxAttempts == 4    \* backoff.NewMaxRetries(3, ...): one attempt and 3 retries

Idle == [pc |-> "idle"]

Received(request) ==
  [pc |-> "received", request |-> request, version |-> None, psp |-> "none",
   kubeNs |-> None, attempts |-> 0, release |-> None, component |-> None,
   outcome |-> "none"]

Answer(c, outcome) == [c EXCEPT !.pc = "answered", !.outcome = outcome]
Await(c, apiCall) == [c EXCEPT !.pc = apiCall]

\* The patches an answer carries.
Patches(c) ==
  CASE c.outcome = "labels" -> MetadataOnly(c.request.app, c.version)
    [] c.outcome = "full" -> FullMutation(c.request.app, c.version, c.psp,
                                          c.kubeNs, c.component)
    [] OTHER -> <<>>

Allowed(c) == c.pc = "answered" /\ c.outcome \in {"nothing", "labels", "full"}

-----------------------------------------------------------------------------
(* The code between two API calls, from the last part to the first.        *)

MutateClusterApp(c) ==
  IF IsClusterApp(c.request.app)
  THEN Await([c EXCEPT !.attempts = 1], "GetUserValues")
  ELSE Answer(c, "full")

MutateKubeConfig(c) ==
  IF KeepsKubeConfig(c.request.app) THEN MutateClusterApp(c)
  ELSE Await(c, "GetSecret")

KubeConfigFound(c, ns) == MutateClusterApp([c EXCEPT !.kubeNs = ns])

\* Mistakes to rule out: an App that carries the PSP label is taken for one
\* that has the entry; the entry is not looked for.
MutateConfigTrustingLabel(c) ==
  LET app == c.request.app
  IN  IF provider = "other" THEN Answer(c, "unsupported provider")
      ELSE IF OutsideWorkloadClusters(app) \/ app.labels["psp"] = "disabled"
           THEN MutateKubeConfig(c)
           ELSE IF PspEntry(app) \in Entries(app)
                THEN Await([c EXCEPT !.psp = "label"], "GetConfigMap")
                ELSE Await(c, "ListClusters")
MutateConfigUnconditionally(c) ==
  IF provider = "other" THEN Answer(c, "unsupported provider")
  ELSE IF OutsideWorkloadClusters(c.request.app) THEN MutateKubeConfig(c)
  ELSE Await(c, "ListClusters")
MutateConfigForPSPRemoval(c) ==
  LET app == c.request.app
  IN  IF provider = "other" THEN Answer(c, "unsupported provider")
      ELSE IF OutsideWorkloadClusters(app) THEN MutateKubeConfig(c)
      ELSE IF PspEntry(app) \in Entries(app)
           THEN Await([c EXCEPT !.psp = "label"], "GetConfigMap")
           ELSE Await(c, "ListClusters")

VersionKnown(c, version) ==
  LET app == c.request.app
      known == [c EXCEPT !.version = version]
  IN  IF UnreadableVersion(app, version) THEN Answer(known, "nothing")
      ELSE IF LabelsOnly(app, version) THEN Answer(known, "labels")
      ELSE MutateConfigForPSPRemoval(known)

MutateApplication(c) ==
  IF DefaultsVersion(c.request.app) THEN Await(c, "GetChartOperatorApp")
  ELSE VersionKnown(c, VersionLabel(c.request.app))

\* Mistakes to rule out: dry runs go through; only creations are mutated.
MutateDryRuns(request) ==
  LET c == Received(request)
  IN  IF request.op = "UPDATE" /\ request.app.deleting
      THEN Answer(c, "nothing")
      ELSE MutateApplication(c)
MutateCreations(request) ==
  LET c == Received(request)
  IN  IF request.dryRun \/ request.op = "UPDATE"
      THEN Answer(c, "nothing")
      ELSE MutateApplication(c)
Mutate(request) ==
  LET c == Received(request)
  IN  IF request.dryRun THEN Answer(c, "nothing")
      ELSE IF request.op = "UPDATE" /\ request.app.deleting
           THEN Answer(c, "nothing")
           ELSE MutateApplication(c)

-----------------------------------------------------------------------------
(* Actions.                                                                *)

Step(w, c) == call' = [call EXCEPT ![w] = c]

Reads == UNCHANGED <<provider, configMaps, environment, faults>>

Receive(w, request) ==
  /\ call[w].pc = "idle"
  /\ Step(w, Mutate(request))
  /\ Reads

\* A mistake to rule out: a missing chart-operator App is an error.
GetChartOperatorAppVersionOrFail(w) ==
  LET version == chartOperator[call[w].request.app.ns]
  IN  /\ call[w].pc = "GetChartOperatorApp"
      /\ Step(w, IF version = None THEN Answer(call[w], "API error")
                 ELSE VersionKnown(call[w], version))
      /\ Reads
GetChartOperatorAppVersion(w) ==
  LET version == chartOperator[call[w].request.app.ns]
  IN  /\ call[w].pc = "GetChartOperatorApp"
      /\ Step(w, IF version = None THEN Answer(call[w], "nothing")
                 ELSE VersionKnown(call[w], version))
      /\ Reads

\* A mistake to rule out: the ConfigMap is not ensured for a new entry.
ListClustersOnly(w) ==
  LET cr == clusters[ClusterLabel(call[w].request.app)]
  IN  /\ call[w].pc = "ListClusters"
      /\ Step(w, IF Undecidable(provider, cr) THEN Answer(call[w], "psp undecided")
                 ELSE IF EnforcesPss(provider, cr)
                      THEN MutateKubeConfig([call[w] EXCEPT !.psp = "entry"])
                      ELSE MutateKubeConfig(call[w]))
      /\ Reads
ListClusters(w) ==
  LET cr == clusters[ClusterLabel(call[w].request.app)]
  IN  /\ call[w].pc = "ListClusters"
      /\ Step(w, IF Undecidable(provider, cr) THEN Answer(call[w], "psp undecided")
                 ELSE IF EnforcesPss(provider, cr)
                      THEN Await([call[w] EXCEPT !.psp = "entry"], "GetConfigMap")
                      ELSE MutateKubeConfig(call[w]))
      /\ Reads

ConfigMapKey(c) == <<c.request.app.ns, ExtraConfigName(c.request.app.specName)>>
ConfigMapValues(c) == ExtraConfigValues(c.request.app.specName)

\* Mistakes to rule out: a ConfigMap that exists is taken as it is; one with
\* other values is created.
GetConfigMapKeeping(w) ==
  LET existing == configMaps[ConfigMapKey(call[w])]
  IN  /\ call[w].pc = "GetConfigMap"
      /\ Step(w, IF existing # None THEN MutateKubeConfig(call[w])
                 ELSE Await(call[w], "CreateConfigMap"))
      /\ Reads
GetConfigMapCreating(w) ==
  LET existing == configMaps[ConfigMapKey(call[w])]
  IN  /\ call[w].pc = "GetConfigMap"
      /\ Step(w, IF existing = ConfigMapValues(call[w]) THEN MutateKubeConfig(call[w])
                 ELSE Await(call[w], "CreateConfigMap"))
      /\ Reads
GetConfigMap(w) ==
  LET existing == configMaps[ConfigMapKey(call[w])]
  IN  /\ call[w].pc = "GetConfigMap"
      /\ Step(w, IF existing = ConfigMapValues(call[w]) THEN MutateKubeConfig(call[w])
                 ELSE IF existing = None THEN Await(call[w], "CreateConfigMap")
                 ELSE Await(call[w], "UpdateConfigMap"))
      /\ Reads

WriteConfigMap(w) ==
  /\ configMaps' = [configMaps EXCEPT ![ConfigMapKey(call[w])] = ConfigMapValues(call[w])]
  /\ UNCHANGED <<provider, environment>>

\* Create fails when the ConfigMap has appeared since it was looked up, and
\* that error is not told apart from any other.
CreateConfigMap(w) ==
  /\ call[w].pc = "CreateConfigMap"
  /\ \/ /\ configMaps[ConfigMapKey(call[w])] = None
        /\ WriteConfigMap(w)
        /\ Step(w, MutateKubeConfig(call[w]))
        /\ UNCHANGED faults
     \/ /\ configMaps[ConfigMapKey(call[w])] # None
        /\ Step(w, Answer(call[w], "already exists"))
        /\ Reads

\* Update names no resource version: it overwrites whatever is there.
UpdateConfigMap(w) ==
  /\ call[w].pc = "UpdateConfigMap"
  /\ WriteConfigMap(w)
  /\ Step(w, MutateKubeConfig(call[w]))
  /\ UNCHANGED faults

GetSecret(w) ==
  LET app == call[w].request.app
  IN  /\ call[w].pc = "GetSecret"
      /\ Step(w, IF \E s \in secrets : /\ s.ns = app.ns
                                       /\ s.name = ClusterKubeConfigSecretName(app)
                 THEN KubeConfigFound(call[w], app.ns)
                 ELSE Await(call[w], "ListSecrets"))
      /\ Reads

\* A mistake to rule out: any Secret with the label is taken.
KubeConfigsOfCluster(app) == {s \in secrets : s.cluster = app.ns}
\* Secrets of the right name, among those labelled with the App's namespace.
KubeConfigCandidates(app) ==
  {s \in secrets : s.cluster = app.ns /\ s.name = ClusterKubeConfigSecretName(app)}

ListSecrets(w) ==
  LET found == KubeConfigCandidates(call[w].request.app)
  IN  /\ call[w].pc = "ListSecrets"
      /\ \/ \E s \in found : Step(w, KubeConfigFound(call[w], s.ns))
         \/ found = {} /\ Step(w, KubeConfigFound(call[w], None))
      /\ Reads

-----------------------------------------------------------------------------
(* The user values of a cluster app may be applied after it, so they are   *)
(* read up to MaxAttempts times.                                           *)

\* Mistakes to rule out: one attempt too many; attempts are not counted.
RetryUserValuesOnceMore(c) ==
  IF c.attempts > MaxAttempts THEN Answer(c, "no user values")
  ELSE [c EXCEPT !.attempts = @ + 1]
RetryUserValuesUncounted(c) == c
RetryUserValues(c) ==
  IF c.attempts = MaxAttempts THEN Answer(c, "no user values")
  ELSE [c EXCEPT !.attempts = @ + 1]

GetUserValues(w) ==
  LET values == userValues[call[w].request.app.name]
  IN  /\ call[w].pc = "GetUserValues"
      /\ Step(w, CASE values = "missing" -> RetryUserValues(call[w])
                   [] values = "noRelease" -> Answer(call[w], "full")
                   [] values \in {"noGlobal", "badRelease"} ->
                        Answer(call[w], "invalid user values")
                   [] OTHER -> Await([call[w] EXCEPT !.release = values], "GetRelease"))
      /\ Reads

GetRelease(w) ==
  LET component == Releases[<<call[w].request.app.specName, call[w].release>>]
  IN  /\ call[w].pc = "GetRelease"
      /\ Step(w, IF component = None THEN Answer(call[w], "no release")
                 ELSE IF component.version = None
                      THEN Answer(call[w], "no cluster app version")
                 ELSE Answer([call[w] EXCEPT !.component = component], "full"))
      /\ Reads

-----------------------------------------------------------------------------
(* Failures of API calls.                                                  *)

Fault ==
  /\ faults < MaxFaults
  /\ faults' = faults + 1
  /\ UNCHANGED <<provider, environment>>

\* Any error of these calls rejects the App.
CallFails(w) ==
  /\ call[w].pc \in ApiCalls \ {"GetSecret", "GetUserValues"}
  /\ Step(w, Answer(call[w], "API error"))
  /\ Fault
  /\ UNCHANGED configMaps

\* The write took effect and its answer was lost.
WriteAnswerLost(w) ==
  /\ \/ call[w].pc = "UpdateConfigMap"
     \/ call[w].pc = "CreateConfigMap" /\ configMaps[ConfigMapKey(call[w])] = None
  /\ configMaps' = [configMaps EXCEPT ![ConfigMapKey(call[w])] = ConfigMapValues(call[w])]
  /\ Step(w, Answer(call[w], "API error"))
  /\ Fault

\* An error other than "not found" is taken for "no kubeconfig".
GetSecretFails(w) ==
  /\ call[w].pc = "GetSecret"
  /\ Step(w, KubeConfigFound(call[w], None))
  /\ Fault
  /\ UNCHANGED configMaps

GetUserValuesFails(w) ==
  /\ call[w].pc = "GetUserValues"
  /\ Step(w, RetryUserValues(call[w]))
  /\ Fault
  /\ UNCHANGED configMaps

-----------------------------------------------------------------------------
(* The other controllers of the management cluster.  Each object appears   *)
(* or changes on its own, and nothing the webhook reads disappears.        *)

Target(e) == e.provider = provider

ClusterAppears(id, e) ==
  /\ Target(e)
  /\ clusters[id] = None /\ e.clusters[id] # None
  /\ clusters' = [clusters EXCEPT ![id] = e.clusters[id]]
  /\ UNCHANGED <<chartOperator, secrets, userValues>>

\* A CAPI cluster is told to stop serving PSPs, a vintage cluster is upgraded.
ClusterStopsPsps(id) ==
  /\ clusters[id] # None
  /\ ~ServesNoPsps(provider, clusters[id])
  /\ \/ /\ provider = "vintage"
        /\ clusters' = [clusters EXCEPT ![id].release = PssCutoffVersion]
     \/ /\ provider = "capi"
        /\ clusters' = [clusters EXCEPT ![id].psp = "disabled"]
  /\ UNCHANGED <<chartOperator, secrets, userValues>>

ChartOperatorInstalled(ns, e) ==
  /\ Target(e)
  /\ chartOperator[ns] = None /\ e.chartOperator[ns] # None
  /\ chartOperator' = [chartOperator EXCEPT ![ns] = e.chartOperator[ns]]
  /\ UNCHANGED <<clusters, secrets, userValues>>

SecretCreated(e) ==
  /\ Target(e)
  /\ \E s \in e.secrets \ secrets : secrets' = secrets \cup {s}
  /\ UNCHANGED <<clusters, chartOperator, userValues>>

UserValuesApplied(name, e) ==
  /\ Target(e)
  /\ userValues[name] = "missing" /\ e.userValues[name] # "missing"
  /\ userValues' = [userValues EXCEPT ![name] = e.userValues[name]]
  /\ UNCHANGED <<clusters, chartOperator, secrets>>

EnvironmentNext ==
  /\ EnvironmentMoves
  /\ UNCHANGED <<provider, configMaps, faults, call>>
  /\ \/ \E id \in ClusterIds, e \in Environments : ClusterAppears(id, e)
     \/ \E id \in ClusterIds : ClusterStopsPsps(id)
     \/ \E ns \in Namespaces, e \in Environments : ChartOperatorInstalled(ns, e)
     \/ \E e \in Environments : SecretCreated(e)
     \/ \E n \in AppNames, e \in Environments : UserValuesApplied(n, e)

-----------------------------------------------------------------------------
Init ==
  /\ \E e \in Environments :
       /\ provider = e.provider
       /\ configMaps = e.configMaps
       /\ clusters = e.clusters
       /\ chartOperator = e.chartOperator
       /\ secrets = e.secrets
       /\ userValues = e.userValues
  /\ faults = 0
  /\ call = [w \in Workers |-> Idle]

\* The API server has the answer.
Respond(w) ==
  /\ call[w].pc = "answered"
  /\ Step(w, Idle)
  /\ Reads

Serve(w) ==
  \/ GetChartOperatorAppVersion(w)
  \/ ListClusters(w)
  \/ GetConfigMap(w)
  \/ CreateConfigMap(w)
  \/ UpdateConfigMap(w)
  \/ GetSecret(w)
  \/ ListSecrets(w)
  \/ GetUserValues(w)
  \/ GetRelease(w)

Fail(w) ==
  \/ CallFails(w)
  \/ WriteAnswerLost(w)
  \/ GetSecretFails(w)
  \/ GetUserValuesFails(w)

Next ==
  \/ \E w \in Workers : \/ \E r \in Requests : Receive(w, r)
                        \/ Serve(w)
                        \/ Fail(w)
                        \/ Respond(w)
  \/ EnvironmentNext

Spec == Init /\ [][Next]_vars
FairSpec == Spec /\ \A w \in Workers : WF_vars(Serve(w))

-----------------------------------------------------------------------------
(* Types.                                                                  *)

Outcomes == {"none", "nothing", "labels", "full", "unsupported provider",
             "psp undecided", "already exists", "API error", "no user values",
             "invalid user values", "no release", "no cluster app version"}

ActiveCall == [pc : ApiCalls \cup {"answered"}, request : Request,
               version : VersionLabels \cup {None},
               psp : {"none", "label", "entry"},
               kubeNs : Namespaces \cup {None},
               attempts : 0..MaxAttempts,
               release : ReleaseNames \cup {None},
               component : Component \cup {None},
               outcome : Outcomes]

\* The types of all variables; a call makes at most four attempts at reading
\* user values, and an answered call has an outcome.
TypeOK ==
  /\ provider \in Providers
  /\ configMaps \in [Namespaces \X PspNames -> PspValues \cup {None, "stale"}]
  /\ clusters \in [ClusterIds -> ClusterCR \cup {None}]
  /\ chartOperator \in [Namespaces -> VersionLabels \cup {None}]
  /\ secrets \in SUBSET Secret
  /\ userValues \in [AppNames -> UserValues]
  /\ faults \in 0..MaxFaults
  /\ call \in [Workers -> {Idle} \cup ActiveCall]
  /\ \A w \in Workers :
       call[w] # Idle => (call[w].pc = "answered" <=> call[w].outcome # "none")

-----------------------------------------------------------------------------
(* Properties of the answers.                                              *)

Mutated(c) == ApplyPatch(c.request.app, Patches(c))
Fully(c) == c.pc = "answered" /\ c.outcome = "full"

\* No App is rejected because its patch cannot be applied: labels and extra
\* configs are added below containers the document holds, or an earlier
\* operation of the patch opened (the comments at mutate_app.go:120 and :187).
PatchApplies ==
  \A w \in Workers :
    Allowed(call[w]) => Applicable(call[w].request.app, Patches(call[w]))

\* Defaulting never overrides what the submitter wrote: annotations, labels
\* (but the legacy version and the PSP label), the order and content of extra
\* configs, the kubeconfig, and, unless it is a cluster app, the version.
SubmittedContentKept ==
  \A w \in Workers : Allowed(call[w]) =>
    LET app == call[w].request.app
        new == Mutated(call[w])
    IN  /\ app.annotations = "user" => new.annotations = "user"
        /\ \A k \in LabelKeys \ {"psp"} :
             app.labels[k] \notin {None, LegacyVersion} => new.labels[k] = app.labels[k]
        /\ IsPrefix(app.extraConfigs, new.extraConfigs)
        /\ app.context # None => new.context = app.context
        /\ app.secret # NoRef => new.secret = app.secret
        /\ ~IsClusterApp(app) => /\ new.version = app.version
                                 /\ new.catalog = app.catalog

\* A fully mutated App that is not a management cluster app refers to its
\* cluster's values, and through one of its three configuration levels only,
\* unless it was submitted with more (mutate_app.go:249 and :266).
References(app) ==
  LET ref == Ref(ClusterConfigMapName(app), app.ns)
  IN  {<<"config">> : r \in {app.config} \cap {ref}}
        \cup {<<"userConfig">> : r \in {app.userConfig} \cap {ref}}
        \cup {<<"extraConfigs", i>> : i \in
                {j \in DOMAIN app.extraConfigs :
                   Ref(app.extraConfigs[j].name, app.extraConfigs[j].ns) = ref}}

ClusterValuesReferencedOnce ==
  \A w \in Workers :
    /\ Fully(call[w])
    /\ VersionLabel(call[w].request.app) # UniqueVersion
    => LET before == Cardinality(References(call[w].request.app))
           after == Cardinality(References(Mutated(call[w])))
       IN  after = IF before = 0 THEN 1 ELSE before

\* A kubeconfig reference the webhook adds names a Secret that exists and
\* belongs to the App's own cluster, wherever the lookup found it.
AddedKubeConfigExists ==
  \A w \in Workers : Fully(call[w]) =>
    LET app == call[w].request.app
        secret == Mutated(call[w]).secret
    IN  secret # app.secret =>
          \E s \in secrets : /\ Ref(s.name, s.ns) = secret
                             /\ s.name = KubeConfig(Owner(app))
                             /\ s.ns = app.ns \/ s.cluster = app.ns

\* A cluster app whose user values name a release is admitted at the version
\* and from the catalog that release lists, and never without a version.
\* Stated for a cluster no other controller is changing.
ClusterAppFollowsRelease ==
  \A w \in Workers :
    LET app == call[w].request.app
        values == userValues[app.name]
        component == Releases[<<app.specName, values>>]
    IN  /\ Fully(call[w]) /\ IsClusterApp(app)
        /\ values \in ReleaseNames
        => /\ component # None /\ component.version # None
           /\ Mutated(call[w]).version = component.version
           /\ Mutated(call[w]).catalog = component.catalog

\* An App is admitted with the psp-removal entry and label exactly when it had
\* the entry or its workload cluster no longer serves PSPs: from v19.3.0 on for
\* vintage clusters, with the label "disabled" for CAPI clusters.  Stated for a
\* cluster no other controller is changing.
EntryIffPssEnforced ==
  \A w \in Workers : Fully(call[w]) =>
    LET app == call[w].request.app
        new == Mutated(call[w])
        enforced == /\ ~OutsideWorkloadClusters(app)
                    /\ ServesNoPsps(provider, clusters[ClusterLabel(app)])
        had == PspEntry(app) \in Entries(app)
    IN  /\ PspEntry(app) \in Entries(new) <=> enforced \/ had
        /\ enforced => new.labels["psp"] = "disabled"

\* Another request was faster to create the ConfigMap that this one needs for
\* its psp-removal entry: it is there now, with the values of a chart whose
\* ConfigMap it is.
LostConfigMapRace(w) ==
  LET app == call[w].request.app
      sharing == {name \in SpecNames :
                    ExtraConfigName(name) = ExtraConfigName(app.specName)}
  IN  /\ call[w].outcome = "already exists"
      /\ \E other \in Workers : other # w
      /\ ~OutsideWorkloadClusters(app)
      /\ \/ PspEntry(app) \in Entries(app)
         \/ ServesNoPsps(provider, clusters[ClusterLabel(app)])
      /\ \E name \in sharing : configMaps[ConfigMapKey(call[w])] = ExtraConfigValues(name)

\* With the API server answering, an App is rejected only for what its cluster
\* or its own user values say, or because another request has created its
\* ConfigMap first: never for a missing chart-operator, a missing kubeconfig, or
\* a ConfigMap that was there before.
\* Stated for a cluster no other controller is changing.
RejectedForCause ==
  \A w \in Workers :
    LET app == call[w].request.app
        cluster == clusters[ClusterLabel(app)]
        values == userValues[app.name]
    IN  call[w].pc = "answered" /\ ~Allowed(call[w]) /\ faults = 0 =>
          \/ provider = "other"
          \/ ~OutsideWorkloadClusters(app) /\ Undecidable(provider, cluster)
          \/ /\ IsClusterApp(app)
             /\ values \in ReleaseNames =>
                  \/ Releases[<<app.specName, values>>] = None
                  \/ Releases[<<app.specName, values>>].version = None
             /\ values # "noRelease"
          \/ LostConfigMapRace(w)

\* An App that is rejected because its ConfigMap exists has lost a race for it
\* (mutate_app_psp_removal.go:234): never to what was there when it looked, such
\* as an earlier attempt of its own that was answered, and what it has lost to
\* serves it when it is submitted again.
CreateFailsInRacesOnly ==
  \A w \in Workers :
    call[w] # Idle /\ call[w].outcome = "already exists" => LostConfigMapRace(w)

-----------------------------------------------------------------------------
(* Properties of the ConfigMaps the Apps are made to refer to.             *)

\* Chart names that share a ConfigMap share its values.  The configuration may
\* break this (two entries with one suffix, or names cut to the same 60
\* characters); then the Apps overwrite each other's values.
SharedNamesShareValues ==
  \A m, n \in SpecNames : ExtraConfigName(m) = ExtraConfigName(n) =>
                            ExtraConfigValues(m) = ExtraConfigValues(n)

\* An App admitted with the psp-removal entry refers to a ConfigMap that exists
\* and holds the values configured for its chart, whatever other requests have
\* written since it was ensured.
EnsuredBeforeReferenced ==
  \A w \in Workers :
    Fully(call[w]) /\ call[w].psp # "none" =>
      configMaps[ConfigMapKey(call[w])] = ConfigMapValues(call[w])

\* Where a chart's values belong, the charts whose ConfigMap holds them.
ChartConfigMap ==
  [chart \in Namespaces \X SpecNames |-> <<chart[1], ExtraConfigName(chart[2])>>]
ChartValues == [name \in SpecNames |-> ExtraConfigValues(name)]
ReadyCharts ==
  {chart \in Namespaces \X SpecNames :
     configMaps[ChartConfigMap[chart]] = ChartValues[chart[2]]}

\* The webhook keeps the promise of ConfigMapContract to those it answers: no
\* request, whichever others it runs with, takes the values away from one that
\* was answered, or answers before the values are ready.
Answers == INSTANCE ConfigMapContract WITH
  Dependents <- Workers,
  ready <- ReadyCharts,
  present <- {w \in Workers : call[w] # Idle},
  relies <- [w \in Workers |->
               IF Fully(call[w]) /\ call[w].psp # "none"
               THEN {<<call[w].request.app.ns, call[w].request.app.specName>>} ELSE {}]
AnswersKeepContract == Answers!Spec

\* The entry is only ever added for a cluster that has stopped serving PSPs,
\* even when the cluster changes while the request is being served.
NeverBeforeEnforced ==
  \A w \in Workers :
    Fully(call[w]) /\ call[w].psp = "entry" =>
      ServesNoPsps(provider, clusters[ClusterLabel(call[w].request.app)])

\* A ConfigMap changes only by a request that has got as far as ensuring it:
\* no dry run, no App being deleted, no App outside workload clusters; the
\* request writes its own ConfigMap, with its own chart's values.
ConfigMapsWrittenByOwners ==
  [][\A key \in Namespaces \X PspNames :
       configMaps'[key] # configMaps[key] =>
         \E w \in Workers :
           LET request == call[w].request
           IN  /\ call[w] # Idle
               /\ key = ConfigMapKey(call[w])
               /\ configMaps'[key] = ConfigMapValues(call[w])
               /\ ~request.dryRun
               /\ ~(request.op = "UPDATE" /\ request.app.deleting)
               /\ ~OutsideWorkloadClusters(request.app)
               /\ PspEntry(request.app) \in Entries(request.app)
                    \/ ServesNoPsps(provider, clusters[ClusterLabel(request.app)])]_vars

\* Every request is answered: retries are bounded, and no call waits for
\* another one.
Answered == \A w \in Workers : call[w].pc \in ApiCalls ~> call[w].pc = "answered"

-----------------------------------------------------------------------------
(* What comments of the code say, and the code does not do.                *)

\* "If it already exists, it updates the CM" (mutate_app_psp_removal.go:208).
ExistingConfigMapIsUpdated ==
  \A w \in Workers : call[w] # Idle => call[w].outcome # "already exists"

\* "AppName is used to match against App CR's .ObjectMeta.Name" (config.go:45).
CustomPatchByObjectName ==
  \A w \in Workers :
    Fully(call[w]) /\ call[w].psp = "entry" =>
      PspEntry(call[w].request.app) =
        PspEntry([call[w].request.app EXCEPT !.specName = call[w].request.app.name])
=============================================================================
