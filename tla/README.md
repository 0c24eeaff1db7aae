# TLA+ model of app-admission-controller

The app-admission-controller is a pair of Kubernetes admission webhooks for the
`App` custom resource of a management cluster. `/mutate/app` defaults an App on
CREATE and UPDATE (labels, extra configs, kubeconfig, removal of
PodSecurityPolicies, version of a cluster app) and, on the way, reads other
objects and writes ConfigMaps through the API server; `/validate/app` then
accepts or rejects it and emits events. Three replicas serve both.

This directory holds TLA+ modules that model it, TLC configurations that check
the models on small instances, and TLAPS proofs about them for every instance.
Paths below are relative to the repository, `src/` left out.

## Inventory

| Component | State it keeps or changes | Operations | What makes it correct |
|---|---|---|---|
| Mutating webhook (`pkg/app/mutate_app.go`) | none between requests; per request, what it has read so far | `Mutate`, `MutateApp`, its four parts, reads of the chart-operator App and of kubeconfig Secrets | the patch applies, overrides nothing submitted, is the same when repeated; every request is answered |
| PSP removal (`mutate_app_psp_removal.go`) | ConfigMaps `psp-removal-patch[-suffix]`, one per namespace and chart configuration | `mutateConfigForPSPRemoval`, `ensureConfigMap` (Get, then Create or Update), `appRequiresCustomPatch` | an App gets the entry exactly when its cluster has stopped serving PSPs, keeps it, and the ConfigMap it names exists with the right values |
| Cluster app version (`mutate_cluster_app.go`) | none | retried read of the user values, read of the Release | version and catalog are those of the release |
| JSON patches (`pkg/mutator/patch.go`) | none | `PatchAdd`, `PatchReplace` (unused) | order of operations |
| Mutating handler (`pkg/mutator/handler.go`) | metrics | decode, `Mutate`, encode | one answer per request |
| Validating webhook (`validate_app.go`) | events it emits | `Validate`, `emitEvents` | an update is compared with the old object; events tell what was stored |
| Inspector (`internal/security/inspector`) | its lists, fixed at start | `Inspect` | Apps with the unique version refer to no protected namespace |
| Event recorder (`internal/recorder`) | queue of events, in a library | `Emit` | |
| Validating handler (`pkg/validator/handler.go`) | metrics | decode, `Validate`, encode | one answer per request, counted once |
| Metrics (`pkg/metrics`) | counters | | counters add up |
| Serving (`main.go`) | two servers, the certificate in memory, signals | start, health check, SIGTERM | a rotated certificate is noticed, and the pod is reachable again; a termination does not wait for requests in flight |
| Configuration (`config/config.go`) | none after start | `Parse` | |
| Deployment (`helm/`) | | webhook registration, three replicas, failure policy `Fail` | |
| Around it: API server, users, Flux, pss-operator, cluster controllers | stored Apps, Cluster CRs, Secrets, Releases | create, update, delete, upgrade | |

How they interact: the API server calls `/mutate/app` over HTTPS with an App,
applies the patch, calls `/validate/app` with the result, and stores it if the
stored object has not changed meanwhile. The webhook calls the same API server
back. Requests share no memory: they interact through the ConfigMaps they write
and the Apps they cause to be stored, and with other controllers through
the objects those create at any moment. pss-operator sets the label
`policy.giantswarm.io/psp-status` on the Apps of a CAPI cluster that has stopped
serving PSPs, which makes the API server call the webhook again
(`mutate_app_psp_removal.go:150`).

What is hard here:

- two requests ensure the same ConfigMap (Get, then Create or Update, no
  resource version);
- ConfigMap names are cut to 60 characters and suffixes may repeat;
- the Cluster CR is read once, and the App is stored later;
- the handler runs under `context.Background()`, so a timed out or abandoned
  request goes on writing;
- a pod dies, or an answer is lost, between the write and the answer;
- whatever was defaulted is submitted again, partly or wholly undone, in any
  order;
- each webhook decides by itself which Apps it is for, the second by what the
  first has written, and the first adds references that the second forbids;
- an App is compared with the stored ones before it is stored itself;
- an App is stored under the rules of today, and deleted under those of tomorrow;
- the certificate changes in three places at different times, and its two files
  are read one after the other;
- two parts add to one list, which a third must have prepared;
- the user values arrive after the App that needs them, and are retried.

`PROJECT.json` lists each of these at its line, with the properties that cover it.

## Modules

```
AppCR  <-  JSONPatch  <-  MutateApp  <-  Mutator  <-  Admission  <-  Webhooks
  ^                                      (INSTANCE ConfigMapContract)  |   |
  Inspector  <---------------------------------------------------------+   |
      ^                                                                    |
      Validator  <------------------------------------------- INSTANCE ----+

Handlers                    Serving
MCMutator  MCAdmission  MCWebhooks  MCHandlers  MCServing

MutateApp  <-  PatchProofs  <-----------------------+
Mutator    <-  MutatorProofs  <-  PspRemovalProofs  <-  AnswerProofs  <-  DecisionProofs
DecisionProofs, Webhooks  <-  AdmissionProofs
Handlers  <-  HandlersProofs        Serving  <-  ServingProofs
```

- **AppCR**: the App document and the accessors of the library
  `giantswarm/app/pkg/key`. An absent field and an empty string are one value,
  `None`. Names glued from strings are pairs, such as
  `<<"kubeconfig", owner>>`.
- **JSONPatch**: patch operations and RFC 6902's `add`. `Applicable` is false
  when an operation adds below an object or array that is not there, which makes
  the API server refuse the App.
- **MutateApp**: the pure half of `MutateApp`: conditions and patches. What is
  read from the API server is a parameter.
- **Mutator**: the concurrent program. `call[w]` is a request being served: `pc`
  names the API call it makes next, the other fields are Go's locals that
  outlive a call. One action is one API call with the code up to the next one:

  | Action | Code |
  |---|---|
  | `Receive` | the handler, `Mutate`, and `MutateApp` up to its first API call |
  | `GetChartOperatorAppVersion` | `getChartOperatorAppVersion`, then the gates |
  | `ListClusters` | the Cluster CRs, and the decision of `mutateConfigForPSPRemoval` |
  | `GetConfigMap`, `CreateConfigMap`, `UpdateConfigMap` | `ensureConfigMap` |
  | `GetSecret`, `ListSecrets` | `findKubeConfigNamespace` |
  | `GetUserValues` | one attempt of `getUserValues` and the parsing of its result |
  | `GetRelease` | the Release and its component |
  | `CallFails`, `WriteAnswerLost`, `GetSecretFails`, `GetUserValuesFails` | the error paths of those calls |
  | `Respond` | the handler's answer |

  The code between two calls is the operators `Mutate`, `MutateApplication`,
  `VersionKnown`, `MutateConfigForPSPRemoval`, `MutateKubeConfig` and
  `MutateClusterApp`, each ending in the next `pc` or in an outcome. The patch
  list is not state: it is a function of the App and of what was learned
  (`Patches`). The environment actions let the Cluster CR, the chart-operator
  App, the Secrets and the user values appear or change between any two calls.
- **ConfigMapContract**: what PSP removal promises, without ConfigMaps: the set
  of charts whose values are ready only grows, and an App or an answer that
  relies on a chart's values does so from a moment at which they are ready until
  it is gone. Mutator implements it for answers (`Answers`, what an answered
  request relies on), Admission for stored Apps (`Apps`).
- **Admission**: Mutator inside an API server that stores Apps with optimistic
  concurrency, with users and Flux that put manifests back, deletion,
  pss-operator, dry runs, other admission plugins, timeouts and crashes.
- **Inspector**: `Inspect` as operators. How a list entry matches a name is a
  constant relation (`Affixed`, `StartsWith`).
- **Validator**: the validating webhook. `validation[w]` is a request being
  served. `Receive` is everything up to the library's check, which reads other
  Apps and Catalogs, `ValidateApp` that check and everything after it. The
  library is external: `AppIsValid`, `UpdateIsValid` and `Collide` say of it what
  `pkg/app/validate_app_test.go` tests.
- **Webhooks**: Admission with Validator in the place of one of its refusing
  plugins, and with users. `ValidatingReview` is what the API server sends on:
  the defaulted App, the stored one, the user. An App is stored only after both
  webhooks have allowed it and if the stored one has not changed; `author`
  remembers whose request that was.
- **Handlers**: both HTTP handlers and the counters of one process. What a
  webhook decides is arbitrary here. Its order is the code's: an admission is
  counted before the answer is written, a rejection after it.
- **Serving**: one pod. The certificate is in four places (Secret, `caBundle`,
  files, memory) and numbered in the order of issue; the program reads
  certificate and key one after the other, at its start and in `healthCheck`.
- **MCMutator**, **MCAdmission**, **MCWebhooks**, **MCHandlers**, **MCServing**:
  the instances for TLC.
- **PatchProofs**: lemmas about MutateApp's operators: what a list of patches
  makes of an App, and when it can be applied.
- **MutatorProofs**: types of Mutator, and `EnsuredBeforeReferenced`.
- **PspRemovalProofs**: for which Apps ConfigMaps are written and entries added;
  Mutator implements ConfigMapContract.
- **AnswerProofs**: what the answers of Mutator make of the App.
- **DecisionProofs**: which Apps get the entry, which are rejected, which are
  mutated in full, and why anything was left undone.
- **AdmissionProofs**: Admission and Webhooks, types, stored Apps, inspection,
  events, the gates of both, the entry that stays, the contract of stored Apps,
  resubmission.
- **HandlersProofs**, **ServingProofs**: the theorems of these two.

Definitions named `...ExceptUser`, `...Unlabelled` and the like, each under a
comment "A mistake to rule out", are wrong variants of the definition below
them. No specification uses them; a property is kept only if TLC refutes it with
the variant in the place of the original.

## Runs

| Run | What it asks | Instance |
|---|---|---|
| `mutator_shapes` | is the answer right, and are only the right ConfigMaps written, for every combination of what the code looks at? | 435 requests (gates, configuration levels, kubeconfig, cluster apps, operations) against 39 states of the management cluster; one request at a time, nothing else moves, no faults |
| `mutator_late` | is the kubeconfig right and does the answer come, while everything the request reads arrives meanwhile? | 3 requests, 1 fault |
| `admission_race` | do references resolve, is the entry never early and never lost, is a lost race the only thing that makes Create fail, and do stored Apps see the contract kept, under concurrency? | 2 requests at a time, 2 Apps with one ConfigMap, stale or missing at the start, one with the kubeconfig and chart-operator to look up, one without; the cluster appears and stops serving PSPs; 1 fault |
| `admission_liveness` | does an App admitted too early get the entry in the end, and do answers keep the contract? | 2 requests at a time, 1 App, 1 fault |
| `admission_resubmission` | does admitting a stored App again change nothing? | 3 Apps with 2 to 6 manifests, 12 management clusters, one request at a time |
| `webhooks_shapes` | what do both webhooks together store, refuse and announce? | 14 manifests, 5 management clusters, an ordinary and a whitelisted user, one request at a time, 1 fault |
| `webhooks_race` | the same under concurrency; does a deleted App go? | 2 requests at a time, 1 App with 2 manifests, one of which an ordinary user may not submit |
| `handler_counters` | does every request count in exactly one outcome? | 3 requests at a time, 2 of each webhook between restarts |
| `serving_rotation` | is the pod reachable again after a rotation, though calls hang? | 3 rotations, 3 failed probes, 2 calls |
| `ensure_existing` | does `ensureConfigMap` update a ConfigMap that exists, as its comment says? No | 2 requests for 2 Apps with one ConfigMap |
| `custom_patch_name` | is a custom patch chosen by the App's object name, as its comment says? No | 4 Apps |
| `singleton_race` | can an app that may be installed once be installed twice? Yes | 2 requests for 2 Apps of one chart and cluster |

Bounds. `MaxFaults` bounds failed API calls, lost answers, timeouts, crashes and
refusals together; the actions that count are guarded by it. One is enough for
every hazard of the list, each of which is one disruption in the wrong place;
the race of two Apps was also run with two, without the contract. `MaxAttempts`
(4) is the code's own bound. Two requests at a time are enough for a race on one
ConfigMap, since a third could only repeat what one of the two does. Versions,
releases and names are one representative of each class the code tells apart:
labels `0.0.0`, `1.0.0`, below 3, 3 and above, no semver; releases below, at and
above the cutoff, missing and malformed; one chart without a custom patch, one
with two (the first counts), one whose suffix is cut to that of another.
Namespaces are protected by name, protected by a suffix, or not. In
`serving_rotation` three rotations let a second one strike while the pod recovers
from the first and a third while it starts. `MaxRequests` (2) lets the two
requests of a webhook overlap in every order. The workers are symmetric in
`admission_race` and `handler_counters`; no liveness run uses symmetry.

Properties about the answer (`ClusterAppFollowsRelease`, `EntryIffPssEnforced`,
`RejectedForCause`) compare it with the state of the cluster when it is given and
are stated for a cluster nobody changes meanwhile; `admission_race` then checks
what remains true while it does change (`CreateFailsInRacesOnly` of the
rejections). `ResubmissionChangesNothing` and
`GatesAgree` leave out a chart-operator App that itself has the unique version
`0.0.0`: its version is copied to the App's label, and `mutate_app.go:165` tests
the label submitted, so the second admission, and the validating webhook, take a
branch the first did not. `StoredEntriesResolve` leaves out Apps submitted with
the entry by hand. `DefaultingPassesInspection` names the three ways in which
defaulting does get an App rejected that would have passed: a kubeconfig found in
a protected namespace; an App that lives in a namespace protected by a prefix
or suffix, where references to its own namespace are refused; and a cluster app
that gets its catalog from its release and is a reserved chart of that catalog.

### Fairness

`FairSpec` of Mutator assumes that a request being served makes its next call
(weak fairness of `Serve(w)`): a goroutine is scheduled, and a call of the API
server returns or fails. `FairAdmissionSpec` assumes the same of the webhook, and
of the API server with an answer it holds. For pss-operator it assumes strong
fairness: its update competes with other writers, is enabled again and again
rather than all the time, and a controller retries until it succeeds.
`FairWebhooksSpec` assumes the same of both webhooks, and, again with strong
fairness, that whoever removes the finalizer of a deleted App tries until it is
gone. `FairSpec` of Serving assumes that cert-manager injects its certificate, the
kubelet synchronises the volume, probes, restarts and starts the pod, and that
`main` returns once its listener is closed. It assumes neither that the file
watcher sees a change nor that a call ends: the handlers have no deadline.
Nothing is assumed of users, Flux, faults or the other controllers.

### Findings

- `ensure_existing`: `ensureConfigMap` (`mutate_app_psp_removal.go:208`) is said
  to update a ConfigMap that already exists. It creates it only after a lookup
  that did not find it, and returns the error when another request was faster, so
  one of two Apps of a namespace submitted together is rejected. A resubmission
  heals it: `CreateFailsInRacesOnly`, checked by `admission_race` and proved, says
  that a Create fails for no other reason, and that the values it has lost to are
  those of a chart that shares the ConfigMap.
- `custom_patch_name`: `config/config.go:45` says that `AppName` is matched
  against `.ObjectMeta.Name`; `mutate_app_psp_removal.go:94` passes
  `app.Spec.Name`.
- `singleton_race`: `pkg/app/validate_app_test.go:914` has the message that an app
  "can only be installed once in cluster". `ValidateApp` looks among the stored
  Apps, and two that are validated at the same time do not see each other.

Four more places where code and documentation disagree were met while modelling.
Each is one statement of the code, and has no run:

- `validate_app.go:166` says that an update whose old object does not decode is
  allowed; `pkg/validator/handler.go:65` rejects on any error. Only a dry run gets
  there with such an object: on any other update the mutating webhook has refused
  it before (`mutate_app.go:93`, passed over for dry runs at line 83). The modules
  leave both paths out.
- The validating webhook is registered with `sideEffects: NoneOnDryRun`
  (`helm/app-admission-controller/templates/webhook.yaml:44`); `Validate` emits
  events on dry runs too (`validate_app.go:179`), as does `EmitEvents`.
- `requests_total` ("Total number of requests", `metrics.go:50`) has a label for
  the webhook and is incremented by the mutating handler only.
- `errors_total` (`metrics.go:22`) is incremented and never registered
  (`metrics.go:55`), so `/metrics` does not show it.

## Proofs

The theorems below hold for any number of concurrent requests (infinitely many
too), any names, psp configuration, releases, manifests and users, and any bound
on faults, requests and rotations. Each names its further assumptions.

| Module | Theorem | Assumes |
|---|---|---|
| MutatorProofs | `TypeCorrect` | |
| | `EnsuredBeforeReferencedHolds` | shared names share values |
| PspRemovalProofs | `NeverBeforeEnforcedHolds`, `ConfigMapsWrittenByOwnersHolds` | |
| | `AnswersKeepContractHolds`: Mutator implements ConfigMapContract | shared names share values |
| AnswerProofs | `PatchAppliesHolds`, `SubmittedContentKeptHolds`, `ClusterValuesReferencedOnceHolds`, `AddedKubeConfigExistsHolds`, `ClusterAppFollowsReleaseHolds` | |
| DecisionProofs | `EntryIffPssEnforcedHolds`, `RejectedForCauseHolds` | a quiet cluster |
| | `CreateFailsInRacesOnlyHolds` | |
| AdmissionProofs | `AdmissionTypeCorrect`, `WebhooksTypeCorrect` | |
| | `StoredEntriesResolveHolds`, and `ValidatedEntriesResolve` for both webhooks | shared names share values |
| | `OrdinaryUsersConfinedHolds`, `DefaultingPassesInspectionHolds`, `GatesAgreeHolds`, `StoredUpdatesAnnouncedHolds`, `RefusedUpdatesAreSilentHolds` | |
| | `EntryKeptHolds` | steady manifests |
| | `StoredAppsKeepContractHolds`: Admission implements ConfigMapContract; `ValidatedAppsKeepContract`: so does Webhooks, and entries stay | shared names share values, steady manifests |
| | `ResubmissionChangesNothingHolds`, and `ValidatedResubmissionChangesNothing` for both webhooks | a quiet cluster, lookups answered |
| HandlersProofs | `TypeCorrect`, `OutcomesAddUpHolds`, `AnswersCountedHolds` | |
| ServingProofs | `TypeCorrect`, `FailsOnlyAfterRotationHolds` | |

**Assumptions.** The modules' own (`NamesAssumption`, `VersionsAssumption`,
`ConfigPatchesAssumption`, `ReleasesAssumption`, `MutatorAssumption`,
`AdmissionAssumption` and those of the others) are evaluated by TLC in every run
that extends them. Beyond them:

- *shared names share values* (`SharedNamesShareValues`): charts whose patches
  have one ConfigMap name have one content. The configuration has to see to it;
  the code does not check it, and the last writer wins.
- *a quiet cluster* (`~EnvironmentMoves`): no other controller changes anything
  while requests are served; these properties compare an answer with what the
  cluster is like. Any number of requests is served at the same time.
- *lookups answered* (`LookupsAnswered`, of every step): the call that gets the
  kubeconfig Secret does not fail. `findKubeConfigNamespace`
  (`mutate_app.go:353`) takes a failure for a Secret that is not there, so an App
  may be stored without its kubeconfig reference and get it the next time it is
  submitted; with failures of this call TLC finds such a behaviour. The run
  `admission_resubmission` has no failures at all, the theorem admits all others.
- *steady manifests* (`SteadyManifests`): what users and Flux submit for one App
  names one workload cluster, has a version label of major version 3 or more (or
  marks a managed App in an organisation namespace), and no entry put in by hand.
  Without it the entry is lost for a good reason: a manifest with a version below
  3 is answered with labels only, and one that moves the App to another cluster
  is measured against that cluster. The manifests of `admission_race` are steady.

**Types** (MutatorProofs). `TypeOK` alone is not inductive: `GetRelease` looks a
Release up by a release name and a cluster app's chart name, `ListClusters` by a
cluster label, and `RetryUserValues` counts one more attempt; that these are what
they must be depends on how the request got there. `IInv` adds to `TypeOK`, for
each request, what its `pc` implies (`Sound`): a cluster label before
`ListClusters`, a cluster app before `GetUserValues`, a release name before
`GetRelease`, a PSP decision before the ConfigMap calls. The lemmas follow the
code: one for each piece between two API calls (`MutateClusterAppSound`, ...,
`MutateSound`) says that it leaves a sound request, `ServeSound` and `FailSound`
that every call does. They are put together for `AnyStep`, which receives any
request at any time and may drop one: Mutator's `Next` is one of these steps, and
so is every step of Admission and, through `AnyAdmissionStep`, of Webhooks. What
is proved of `AnyStep` therefore holds in all three modules. The same five-part
outline (a lemma per piece of code, one per call, one for the environment, one
for `AnyStep`, the theorem) is that of every invariant below on requests.

**ConfigMaps** (MutatorProofs, PspRemovalProofs). `EnsuredBeforeReferenced` speaks
of answered requests; inductive is `Ensured`, which holds from the moment the
ConfigMap was ensured, through the kubeconfig and release calls. `OwnStepEnsures`
shows that a request gets past the ConfigMap only with the ConfigMap there,
`OthersStayEnsured` that another request, writing the same name, writes the same
values. `Justified` adds why a request is where it is: `psp = "entry"` only with a
cluster that has stopped serving PSPs (`Stopped`, which stays so), and past the
gates only what they let pass (`Cleared`). The contract follows step by step
(`NextKeepsContract`): writing a ConfigMap makes charts ready and takes none away,
being answered is an `Admit` of a chart that `Ensured` says is ready.

**Content of answers** (PatchProofs, AnswerProofs). A patch list is a fold, and
induction over lists is out of reach. Two arguments take its place. A property of
every prefix of the list is proved by least counterexample: were there one, a
shortest one would exist (`WFMin`), and its last operation keeps the property. And
the list of `MutateApp` is concatenated from parts each of which is written out,
so the mutated App has a closed form (`FullyDefaulted`, field by field in
`FullyDefaultedFields`). For `PatchApplies`, `Chains` says of two lists that what
the first opens the second may fill. What an answer may say of the cluster is
`Learned`: a kubeconfig namespace in hand is one whose Secret exists, a component
is that of the release that the user values name now. It survives the environment
because Secrets are only created and user values, once there, stay.

**Decisions** (DecisionProofs). `Decided` keeps, in a quiet cluster, why a request
has left PSP removal without an entry (`LeftAlone`) and what an error outcome is
to be blamed on (`Caused`). One error is another request's doing, a Create that
finds the ConfigMap there. `Raced` says of a request that is about to create that
the ConfigMap is still missing or `Taken`: written since by another request, for a
chart that shares it. Each step of any request keeps this of all (`CallRaces` for
its own, `OthersRace` for the others), with failures, crashes and a cluster that
changes, so `CreateFailsInRacesOnly` needs no assumption. `Gated` keeps which version a
request was judged by; it does survive the environment, as a chart-operator App
that has a version keeps it.

**Stored Apps** (AdmissionProofs). `AdmissionInv` has `IInv` for the requests and
types for the store and for what the API server holds back until the answer.
`Resolved` carries `Ensured` from the answer to the store and from there to every
resubmission. `WebhooksInv` relates the two webhooks: what the validating one was
given is what the mutating one has made of the App, compared with the App the
update is based on (`Follows`, in `RequestSane`); its verdict is its code's
(`Judged`); and what is stored was allowed to its author (`Confined`, in
`AppSane`). `OrdinaryUsersConfined` and `RefusedUpdatesAreSilent` follow at once,
`DefaultingPassesInspection` with the closed form above, `StoredUpdatesAnnounced`
because an App is stored only over the one it was compared with, `GatesAgree` from
`Gated` on one side and `Judged` on the other.

`EntryKept` needs more than one step of history: a request that has decided
against the entry may be stored after the cluster has stopped serving PSPs, over
an App that has got the entry meanwhile. It is not, because the App it is based on
is the one it would replace: `EntriesAnchored` says that an App with the entry
belongs to a cluster that has stopped, wherever it is held (stored, being served,
or as the base of an update), and that a request based on such an App does not get
past PSP removal undecided (`Settled`). The contract of stored Apps
(`StepKeepsContract`) then is `Resolved` for Apps that get the entry and
`EntryKept` for those that have it.

For `ResubmissionChangesNothing` the proof has to know of a request what it did
*not* do. `LeftUndone` (DecisionProofs) keeps that: no kubeconfig because there is
none, no entry because the App has it, is outside of workload clusters, or its
cluster serves PSPs, nothing at all only for dry runs, deletions and versions
nobody can read. `StoredIsFinished` turns it, with the closed form of the mutated
App, into a statement about the stored App alone (`Finished`): whatever a mutation
would add is there already. `FinishedStays` is the converse for a request that is
given such an App. Both speak of what requests only look at (`Surroundings`),
which a quiet cluster does not change; so `AllFinished` holds of the store at any
time.

**Handlers** and **Serving**. `Counted` (HandlersProofs) weighs for each webhook
its counters against the requests at each place of the handler. `Ordered` and
`Probing` (ServingProofs) order the four places of the certificate by issue, and
say what a health check that has read one of the two files may still conclude.

**Only model-checked.** Liveness (`Answered`, `EntryAddedEventually`,
`DeletedAppsGo`, `AdmissionResumes`), which rests on fairness and so on ENABLED,
and is out of the prover's reach. That the constants of an instance satisfy an
assumption is TLC's to evaluate.

## Assumptions of the model

- ConfigMaps, Secrets, Cluster CRs and user values are not deleted.
- The values library's reads and the read of the Catalog are one step and one
  outcome (missing, without `global`, without a release, malformed, or a release).
  So are the reads of the library that validates an App.
- An App, or an old object, that does not decode is refused by the mutating
  webhook before anything is read (`mutate_app.go:88`, `:93`), so requests hold
  Apps. Only a dry run takes such an old object further, to the validating
  webhook, which refuses it too (`validate_app.go:165`). A review without a request, which makes a handler panic, is not sent
  by the API server.
- The API server compares documents where it compares resource versions. The two
  differ only when a document changes and changes back while a request is served.
- All replicas run with the same configuration.
- Time is not modelled: a timeout may strike at any API call. That four attempts
  at the user values fit the ten seconds of a call is not shown.
- The certificate is self-signed and its own CA: the program is given `ca.crt`
  as its certificate.

## Not modelled

- `config/config.go` runs once, before serving; the modules take its result as
  constants. `pkg/project` is constants.
- The queue behind the event recorder is client-go's, and drops events when it is
  full; Validator says which events are handed to it.
- The metrics server of `main.go` stops on the same signal as the other, and the
  process does not wait for it. The readiness probe asks what the liveness probe
  asks.
- Rollouts during which replicas run with different psp configurations: nothing
  in the code coordinates them, and the last writer of a ConfigMap wins.
- Failures to encode a patch or a review, whose types can always be encoded.
- `PatchReplace`, which nothing calls.
- The unit and integration tests.

## Plan

Done: the mutating webhook alone and in its place; the validating webhook, the
inspector and both webhooks composed; handlers and metrics; serving; the abstract
contract of the ConfigMaps; and a theorem for every safety property that a passing
run checks, type invariants and both refinements of the contract included.

Left to look at: `EntryKept` without steady manifests, that is, which of the ways
a manifest may change between two updates (its version label, its cluster label)
really loses the entry, so that the assumption names those only.
