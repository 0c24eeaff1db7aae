-------------------------- MODULE AdmissionProofs --------------------------
(***************************************************************************)
(* Theorems about the webhooks in their place: Admission, the mutating     *)
(* webhook behind an API server, and Webhooks, both of them.               *)
(***************************************************************************)
EXTENDS Webhooks, DecisionProofs

-----------------------------------------------------------------------------
(* What the API server makes of an answer is an App again.                 *)

LEMMA DefaultedLabelsAreLabels ==
  ASSUME NEW app \in App, NEW version \in VersionLabels \cup {None}, NEW psp
  PROVE  /\ NamedAndVersioned(app, version, app.labels) \in AppLabels
         /\ DefaultedLabels(app, version, psp) \in AppLabels
<1>1. app.labels \in AppLabels /\ app.specName \in SpecNames
  BY DEF App
<1> DEFINE named == NamedAndVersioned(app, version, app.labels)
           Value == SpecNames \cup VersionLabels \cup ClusterIds \cup {None, "disabled"}
<1>2. /\ app.labels \in [LabelKeys -> Value]
      /\ app.labels["version"] \in VersionLabels \cup {None}
      /\ app.labels["cluster"] \in ClusterIds \cup {None}
      /\ app.labels["psp"] \in {None, "disabled"}
  BY <1>1 DEF AppLabels
<1>3. /\ named \in [LabelKeys -> Value]
      /\ named["version"] \in VersionLabels \cup {None}
      /\ named["cluster"] \in ClusterIds \cup {None}
      /\ named["psp"] \in {None, "disabled"}
  BY <1>1, <1>2 DEF NamedAndVersioned, LabelKeys
<1>4. DefaultedLabels(app, version, psp) = PspLabelled(psp, named)
  BY DEF DefaultedLabels
<1> HIDE DEF named
<1>5. /\ PspLabelled(psp, named) \in [LabelKeys -> Value]
      /\ PspLabelled(psp, named)["version"] = named["version"]
      /\ PspLabelled(psp, named)["cluster"] = named["cluster"]
      /\ PspLabelled(psp, named)["psp"] \in {None, "disabled"}
  BY <1>3 DEF PspLabelled, LabelKeys
<1> QED
  BY <1>3, <1>4, <1>5 DEF AppLabels, named

\* The entries a list of extra configs may hold.
EntryOfApp == [kind : {"configMap"},
               name : PspNames \cup {ClusterValues(o) : o \in Owners},
               ns : Namespaces, priority : 1..TopPriority]

LEMMA DefaultedConfigsAreConfigs ==
  ASSUME NEW app \in App, NEW psp
  PROVE  /\ ClusterValuesEntry(app) \in EntryOfApp /\ PspEntry(app) \in EntryOfApp
         /\ WithClusterValues(app) \in Seq(EntryOfApp)
         /\ DefaultedConfigs(app, psp) \in Seq(EntryOfApp)
<1>1. /\ app.extraConfigs \in Seq(EntryOfApp)
      /\ app.ns \in Namespaces /\ app.specName \in SpecNames
      /\ app.labels \in AppLabels
  BY DEF App, EntryOfApp
<1>2. Owner(app) \in Owners
  BY <1>1 DEF Owner, Owners, ClusterLabel, AppLabels
<1>3. ClusterValuesEntry(app) \in EntryOfApp
  BY <1>1, <1>2 DEF ClusterValuesEntry, ConfigMapEntry, ClusterConfigMapName, EntryOfApp,
     BottomPriority, TopPriority
<1>4. PspEntry(app) \in EntryOfApp
  BY <1>1 DEF PspEntry, ConfigMapEntry, EntryOfApp, PspNames, TopPriority
<1>5. WithClusterValues(app) \in Seq(EntryOfApp)
  BY <1>1, <1>3, AppendProperties DEF WithClusterValues
<1> QED
  BY <1>3, <1>4, <1>5, AppendProperties DEF DefaultedConfigs

LEMMA FullyDefaultedIsApp ==
  ASSUME NEW app \in App, NEW version \in VersionLabels \cup {None}, NEW psp,
         NEW ns \in Namespaces \cup {None}, NEW component \in Component \cup {None}
  PROVE  FullyDefaulted(app, version, psp, ns, component) \in App
<1>1. /\ app.ns \in Namespaces /\ app.labels \in AppLabels
      /\ app.annotations \in {None, "empty", "user"}
      /\ app.context \in Namespaces \cup ClusterIds \cup {None}
      /\ app.secret \in [name : {None} \cup {KubeConfig(o) : o \in Owners},
                         ns : Namespaces \cup {None}]
      /\ app.version \in ChartVersions \cup {None}
      /\ app.catalog \in Catalogs \cup {None}
  BY DEF App
<1>2. DefaultedLabels(app, version, psp) \in AppLabels
  BY DefaultedLabelsAreLabels
<1>3. DefaultedConfigs(app, psp) \in Seq(EntryOfApp)
  BY DefaultedConfigsAreConfigs
<1>4. DefaultedContext(app, ns) \in Namespaces \cup ClusterIds \cup {None}
  BY <1>1 DEF DefaultedContext, ClusterLabel, AppLabels
<1>5. DefaultedSecret(app, ns) \in [name : {None} \cup {KubeConfig(o) : o \in Owners},
                                    ns : Namespaces \cup {None}]
  BY <1>1 DEF DefaultedSecret, Ref, ClusterKubeConfigSecretName, Owner, Owners,
     ClusterLabel, AppLabels
<1>6. /\ DefaultedVersion(app, component) \in ChartVersions \cup {None}
      /\ DefaultedCatalog(app, component) \in Catalogs \cup {None}
  BY <1>1 DEF DefaultedVersion, DefaultedCatalog, Component
<1>7. DefaultedAnnotations(app) \in {None, "empty", "user"}
  BY <1>1 DEF DefaultedAnnotations
<1> DEFINE a == DefaultedAnnotations(app)
           l == DefaultedLabels(app, version, psp)
           x == DefaultedConfigs(app, psp)
           c == DefaultedContext(app, ns)
           s == DefaultedSecret(app, ns)
           v == DefaultedVersion(app, component)
           g == DefaultedCatalog(app, component)
<1>8. FullyDefaulted(app, version, psp, ns, component) =
        [app EXCEPT !.annotations = a, !.labels = l, !.extraConfigs = x,
                    !.context = c, !.secret = s, !.version = v, !.catalog = g]
  BY DEF FullyDefaulted
<1> HIDE DEF a, l, x, c, s, v, g
<1>9. /\ a \in {None, "empty", "user"} /\ l \in AppLabels /\ x \in Seq(EntryOfApp)
      /\ c \in Namespaces \cup ClusterIds \cup {None}
      /\ s \in [name : {None} \cup {KubeConfig(o) : o \in Owners},
                ns : Namespaces \cup {None}]
      /\ v \in ChartVersions \cup {None} /\ g \in Catalogs \cup {None}
  BY <1>2, <1>3, <1>4, <1>5, <1>6, <1>7 DEF a, l, x, c, s, v, g
<1>10. [app EXCEPT !.annotations = a, !.labels = l] \in App
  BY <1>9 DEF App
<1>11. \A d \in App : [d EXCEPT !.extraConfigs = x] \in App
  BY <1>9 DEF App, EntryOfApp
<1>12. \A d \in App : [d EXCEPT !.context = c] \in App
  BY <1>9 DEF App
<1>13. \A d \in App : [d EXCEPT !.secret = s] \in App
  BY <1>9 DEF App
<1>14. \A d \in App : [d EXCEPT !.version = v, !.catalog = g] \in App
  BY <1>9 DEF App
<1> QED
  BY <1>8, <1>10, <1>11, <1>12, <1>13, <1>14

LEMMA LabelledOnlyIsApp ==
  ASSUME NEW app \in App, NEW version \in VersionLabels \cup {None}
  PROVE  LabelledOnly(app, version) \in App
<1>1. NamedAndVersioned(app, version, app.labels) \in AppLabels
  BY DefaultedLabelsAreLabels
<1>2. DefaultedAnnotations(app) \in {None, "empty", "user"}
  BY DEF DefaultedAnnotations, App
<1> QED
  BY <1>1, <1>2 DEF LabelledOnly, App

\* What of an App stays as it was submitted, whatever the answer; and that the
\* result is an App.
Unmutated(app, new) ==
  /\ new.ns = app.ns /\ new.name = app.name /\ new.specName = app.specName
  /\ new.deleting = app.deleting /\ new.inCluster = app.inCluster
  /\ new.config = app.config /\ new.userConfig = app.userConfig
  /\ new.configSecret = app.configSecret /\ new.userSecret = app.userSecret

LEMMA MutatedIsApp ==
  ASSUME NEW c, Sound(c)
  PROVE  /\ c.request.app \in App
         /\ Mutated(c) = Outcome(c)
         /\ Mutated(c) \in App
         /\ Unmutated(c.request.app, Mutated(c))
<1> DEFINE app == c.request.app
<1>1. /\ app \in App
      /\ c.version \in VersionLabels \cup {None}
      /\ c.kubeNs \in Namespaces \cup {None}
      /\ c.component \in Component \cup {None}
  BY DEF Sound, ActiveCall, Request
<1>2. Mutated(c) = Outcome(c)
  BY <1>1, MutatedIsOutcome
<1>3. /\ FullyDefaulted(app, c.version, c.psp, c.kubeNs, c.component) \in App
      /\ LabelledOnly(app, c.version) \in App
  BY <1>1, FullyDefaultedIsApp, LabelledOnlyIsApp
<1>4. IsDocument(app)
  BY <1>1, AppIsDocument
<1>5. Unmutated(app, FullyDefaulted(app, c.version, c.psp, c.kubeNs, c.component))
  BY <1>4 DEF Unmutated, FullyDefaulted, IsDocument, Fields
<1>6. Unmutated(app, LabelledOnly(app, c.version))
  BY <1>4 DEF Unmutated, LabelledOnly, IsDocument, Fields
<1>7. Unmutated(app, app)
  BY DEF Unmutated
<1> QED
  BY <1>1, <1>2, <1>3, <1>5, <1>6, <1>7 DEF Outcome

\* Storing drops empty annotations only.
LEMMA StoredIsApp ==
  ASSUME NEW app \in App
  PROVE  /\ Stored(app) \in App
         /\ Unmutated(app, Stored(app))
         /\ Stored(app).labels = app.labels
         /\ Stored(app).extraConfigs = app.extraConfigs
         /\ Stored(app).secret = app.secret
         /\ Stored(app).catalog = app.catalog
BY DEF Stored, App, Unmutated

-----------------------------------------------------------------------------
(* What may happen behind an API server, with or without the validating    *)
(* webhook: every step of Admission and of Webhooks is an AnyAdmissionStep.*)

Operations == {"CREATE", "UPDATE"}

\* What may be submitted under an identifier.
Submission(id, op, app) ==
  \/ op = "CREATE" /\ store[id] = None /\ app \in Manifests[id]
  \/ op = "UPDATE" /\ Live(id) /\ app \in Manifests[id]
  \/ op = "UPDATE" /\ store[id] # None /\ app = store[id]
  \/ op = "UPDATE" /\ Live(id) /\ app = [store[id] EXCEPT !.labels["psp"] = "disabled"]

SubmitAny(w, id, op) ==
  \E dryRun \in BOOLEAN : \E app :
    Submission(id, op, app) /\ Submit(w, id, op, dryRun, app)

\* The request is over, and nothing was stored.
GiveUp(w) ==
  /\ Close(w)
  /\ faults' \in 0..MaxFaults
  /\ UNCHANGED store

StopWaiting(w) ==
  /\ review[w].waiting
  /\ review' = [review EXCEPT ![w].waiting = FALSE]
  /\ faults' \in 0..MaxFaults
  /\ UNCHANGED <<provider, configMaps, environment, call, store>>

DisturbOnly == Disturb /\ UNCHANGED <<store, review>>

AnyAdmissionStep ==
  \/ \E w \in Workers :
       \/ \E id \in AppIds, op \in Operations : SubmitAny(w, id, op)
       \/ Webhook(w)
       \/ Persist(w)
       \/ GiveUp(w)
       \/ StopWaiting(w)
  \/ \E id \in AppIds : DeleteApp(id)
  \/ DisturbOnly
  \/ EnvironmentNext /\ UNCHANGED <<store, review>>

LEMMA UsersSubmit ==
  ASSUME NEW w \in Workers, Users(w) \/ \E id \in AppIds : PssOperatorUpdate(w, id)
  PROVE  \E id \in AppIds, op \in Operations : SubmitAny(w, id, op)
<1>1. ASSUME NEW id \in AppIds, NEW op \in Operations, NEW dryRun \in BOOLEAN,
             NEW app, Submission(id, op, app), Submit(w, id, op, dryRun, app)
      PROVE  SubmitAny(w, id, op)
  BY <1>1 DEF SubmitAny
<1>2. ASSUME NEW id \in AppIds, NEW dryRun \in BOOLEAN, CreateApp(w, id, dryRun)
      PROVE  SubmitAny(w, id, "CREATE")
  BY <1>1, <1>2 DEF CreateApp, Submission, Operations
<1>3. ASSUME NEW id \in AppIds, NEW dryRun \in BOOLEAN, ReplaceApp(w, id, dryRun)
      PROVE  SubmitAny(w, id, "UPDATE")
  BY <1>1, <1>3 DEF ReplaceApp, Submission, Operations
<1>4. ASSUME NEW id \in AppIds, ResubmitApp(w, id) \/ FinalizeApp(w, id)
      PROVE  SubmitAny(w, id, "UPDATE")
  BY <1>1, <1>4 DEF ResubmitApp, FinalizeApp, Submission, Live, Operations
<1>5. ASSUME NEW id \in AppIds, PssOperatorUpdate(w, id)
      PROVE  SubmitAny(w, id, "UPDATE")
  BY <1>1, <1>5 DEF PssOperatorUpdate, Submission, Operations
<1> QED
  BY <1>2, <1>3, <1>4, <1>5 DEF Users, Operations

LEMMA BoundedFaults ==
  ASSUME faults \in 0..MaxFaults, Disrupt \/ UNCHANGED faults
  PROVE  faults' \in 0..MaxFaults
BY MutatorAssumption DEF Disrupt

LEMMA AdmissionNextIsAny ==
  faults \in 0..MaxFaults /\ [AdmissionNext]_admissionVars => AnyAdmissionStep
<1> SUFFICES ASSUME faults \in 0..MaxFaults, [AdmissionNext]_admissionVars
             PROVE  AnyAdmissionStep
  OBVIOUS
<1>1. ASSUME NEW w \in Workers, Users(w) \/ \E id \in AppIds : PssOperatorUpdate(w, id)
      PROVE  AnyAdmissionStep
  BY <1>1, UsersSubmit DEF AnyAdmissionStep
<1>2. ASSUME NEW w \in Workers, Discard(w) \/ Refuse(w) \/ Crash(w)
      PROVE  AnyAdmissionStep
  <2>1. GiveUp(w)
    BY <1>2, BoundedFaults DEF Discard, Refuse, Crash, GiveUp, Disrupt
  <2> QED
    BY <2>1 DEF AnyAdmissionStep
<1>3. ASSUME NEW w \in Workers, TimeOut(w)
      PROVE  AnyAdmissionStep
  <2>1. StopWaiting(w)
    BY <1>3, BoundedFaults DEF TimeOut, StopWaiting, Disrupt
  <2> QED
    BY <2>1 DEF AnyAdmissionStep
<1>4. CASE UNCHANGED admissionVars
  BY <1>4 DEF AnyAdmissionStep, DisturbOnly, Disturb, admissionVars, vars
<1>5. CASE AdmissionNext
  BY <1>1, <1>2, <1>3, <1>5 DEF AdmissionNext, PssOperator, ApiServer, AnyAdmissionStep
<1> QED
  BY <1>4, <1>5

LEMMA WebhooksNextIsAny ==
  faults \in 0..MaxFaults /\ [WebhooksNext]_webhooksVars => AnyAdmissionStep
<1> SUFFICES ASSUME faults \in 0..MaxFaults, [WebhooksNext]_webhooksVars
             PROVE  AnyAdmissionStep
  OBVIOUS
<1>1. ASSUME NEW w \in Workers, Submitted(w)
      PROVE  AnyAdmissionStep
  BY <1>1, UsersSubmit DEF AnyAdmissionStep, Submitted
<1>2. ASSUME NEW w \in Workers, Reviewing(w)
      PROVE  AnyAdmissionStep
  <2>1. CASE Mutating(w)
    BY <2>1 DEF AnyAdmissionStep, Mutating
  <2>2. CASE CallValidating(w) \/ Validating(w)
    <3>1. UNCHANGED <<vars, store, review>>
      BY <2>2 DEF CallValidating, Validating, V!Receive, V!ValidateApp
    <3> QED
      BY <3>1 DEF AnyAdmissionStep, DisturbOnly, Disturb, vars
  <2>3. CASE PersistValidated(w)
    BY <2>3 DEF AnyAdmissionStep, PersistValidated
  <2>4. CASE DiscardReviewed(w)
    <3>1. GiveUp(w)
      BY <2>4 DEF DiscardReviewed, GiveUp
    <3> QED
      BY <3>1 DEF AnyAdmissionStep
  <2> QED
    BY <1>2, <2>1, <2>2, <2>3, <2>4 DEF Reviewing
<1>3. ASSUME NEW w \in Workers, Faults(w)
      PROVE  AnyAdmissionStep
  <2>1. CASE RefuseReviewed(w) \/ CrashServing(w)
    <3>1. GiveUp(w)
      BY <2>1, BoundedFaults DEF RefuseReviewed, CrashServing, Refuse, Crash, GiveUp, Disrupt
    <3> QED
      BY <3>1 DEF AnyAdmissionStep
  <2>2. CASE TimeOutMutating(w) \/ TimeOutValidating(w)
    <3>1. StopWaiting(w)
      BY <2>2, BoundedFaults DEF TimeOutMutating, TimeOut, TimeOutValidating, StopWaiting, Disrupt
    <3> QED
      BY <3>1 DEF AnyAdmissionStep
  <2>3. CASE ValidatingFails(w)
    <3>1. DisturbOnly
      BY <2>3, BoundedFaults DEF ValidatingFails, DisturbOnly, Disturb, Disrupt
    <3> QED
      BY <3>1 DEF AnyAdmissionStep
  <2> QED
    BY <1>3, <2>1, <2>2, <2>3 DEF Faults
<1>4. CASE UNCHANGED webhooksVars
  BY <1>4 DEF AnyAdmissionStep, DisturbOnly, Disturb, webhooksVars, admissionVars, vars
<1>5. CASE WebhooksNext
  BY <1>1, <1>2, <1>3, <1>5 DEF WebhooksNext, AnyAdmissionStep
<1> QED
  BY <1>4, <1>5

-----------------------------------------------------------------------------
(* Types.                                                                  *)

ActiveReview == [waiting : BOOLEAN, id : AppIds, base : App \cup {None}]

\* The inductive invariant: types, what is known of each call (IInv), and that
\* the API server has a record of each request the webhook serves.
AdmissionInv ==
  /\ IInv
  /\ store \in [AppIds -> App \cup {None}]
  /\ review \in [Workers -> {NoReview} \cup ActiveReview]
  /\ \A w \in Workers : call[w] # Idle => review[w] \in ActiveReview

LEMMA SubmittedIsApp ==
  ASSUME AdmissionInv, NEW id \in AppIds, NEW op, NEW app, Submission(id, op, app)
  PROVE  app \in App
<1>1. store[id] \in App \cup {None}
  BY DEF AdmissionInv
<1>2. CASE app \in Manifests[id]
  BY <1>2, AdmissionAssumption
<1>3. CASE store[id] # None /\ app = store[id]
  BY <1>1, <1>3
<1>4. CASE Live(id) /\ app = [store[id] EXCEPT !.labels["psp"] = "disabled"]
  <2> DEFINE l == store[id].labels
  <2>1. store[id] \in App
    BY <1>1, <1>4 DEF Live
  <2>2. l \in AppLabels
    BY <2>1 DEF App
  <2>3. [l EXCEPT !["psp"] = "disabled"] \in AppLabels
    BY <2>2 DEF AppLabels, LabelKeys
  <2>4. app = [store[id] EXCEPT !.labels = [l EXCEPT !["psp"] = "disabled"]]
    BY <1>4
  <2> HIDE DEF l
  <2> QED
    BY <2>1, <2>3, <2>4 DEF App
<1> QED
  BY <1>2, <1>3, <1>4 DEF Submission

LEMMA AnyAdmissionStepIsAny == AdmissionInv /\ AnyAdmissionStep => AnyStep
<1> SUFFICES ASSUME AdmissionInv, AnyAdmissionStep PROVE AnyStep
  OBVIOUS
<1>0. faults \in 0..MaxFaults
  BY DEF AdmissionInv, IInv, TypeOK
<1>1. ASSUME NEW w \in Workers, NEW id \in AppIds, NEW op \in Operations,
             SubmitAny(w, id, op)
      PROVE  AnyStep
  <2>1. PICK dryRun \in BOOLEAN : \E app :
          Submission(id, op, app) /\ Submit(w, id, op, dryRun, app)
    BY <1>1 DEF SubmitAny
  <2>2. PICK app : Submission(id, op, app) /\ Submit(w, id, op, dryRun, app)
    BY <2>1
  <2> DEFINE r == [op |-> op, dryRun |-> dryRun, app |-> app]
  <2>3. app \in App
    BY <2>2, SubmittedIsApp
  <2>4. r \in Request
    BY <2>3 DEF Request, Operations
  <2>5. Receive(w, r)
    BY <2>2 DEF Submit
  <2> QED
    BY <2>4, <2>5 DEF AnyStep
<1>2. ASSUME NEW w \in Workers, Persist(w) \/ GiveUp(w)
      PROVE  AnyStep
  <2>1. Drop(w)
    BY <1>0, <1>2 DEF Persist, GiveUp, Close, Drop
  <2> QED
    BY <2>1 DEF AnyStep
<1>3. ASSUME NEW w \in Workers, StopWaiting(w)
      PROVE  AnyStep
  BY <1>3 DEF StopWaiting, AnyStep, Disturb
<1>4. ASSUME NEW id \in AppIds, DeleteApp(id)
      PROVE  AnyStep
  BY <1>0, <1>4 DEF DeleteApp, vars, AnyStep, Disturb
<1> QED
  BY <1>1, <1>2, <1>3, <1>4 DEF AnyAdmissionStep, Webhook, DisturbOnly, AnyStep

LEMMA AdmissionInitInv == AdmissionInit => AdmissionInv
BY InitIInv DEF AdmissionInit, Init, AdmissionInv

\* A call the API server may take up is one the webhook has answered.
LEMMA AnsweredCall ==
  ASSUME AdmissionInv, NEW w \in Workers, call[w].pc = "answered"
  PROVE  /\ call[w] # Idle
         /\ Sound(call[w])
         /\ call[w].request.app \in App
         /\ review[w] \in ActiveReview
<1>1. call[w] # Idle
  BY DEF Idle
<1> QED
  BY <1>1, ServedRequest DEF AdmissionInv

\* What is stored after a request.
LEMMA PersistStores ==
  ASSUME AdmissionInv, NEW w \in Workers, Persist(w)
  PROVE  /\ Allowed(call[w]) /\ call[w] # Idle /\ Sound(call[w])
         /\ review[w] \in ActiveReview /\ review[w].id \in AppIds
         /\ Stored(Mutated(call[w])) \in App
         /\ \A id \in AppIds :
              store'[id] = IF id # review[w].id THEN store[id]
                           ELSE IF call[w].request.app.deleting THEN None
                           ELSE Stored(Mutated(call[w]))
         /\ store' \in [AppIds -> App \cup {None}]
<1>1. call[w].pc = "answered" /\ Allowed(call[w])
  BY DEF Persist, Storable, Allowed
<1>2. /\ call[w] # Idle /\ Sound(call[w]) /\ call[w].request.app \in App
      /\ review[w] \in ActiveReview
  BY <1>1, AnsweredCall
<1>3. Mutated(call[w]) \in App
  BY <1>2, MutatedIsApp
<1>4. Stored(Mutated(call[w])) \in App
  BY <1>3, StoredIsApp
<1>5. review[w].id \in AppIds
  BY <1>2 DEF ActiveReview
<1>6. store \in [AppIds -> App \cup {None}]
  BY DEF AdmissionInv
<1> QED
  BY <1>1, <1>2, <1>4, <1>5, <1>6 DEF Persist

LEMMA AnyAdmissionStepInv == AdmissionInv /\ AnyAdmissionStep => AdmissionInv'
<1> SUFFICES ASSUME AdmissionInv, AnyAdmissionStep PROVE AdmissionInv'
  OBVIOUS
<1>1. IInv'
  BY AnyAdmissionStepIsAny, AnyStepIInv DEF AdmissionInv
<1>2. /\ store \in [AppIds -> App \cup {None}]
      /\ review \in [Workers -> {NoReview} \cup ActiveReview]
      /\ call \in [Workers -> {Idle} \cup ActiveCall]
      /\ \A w \in Workers : call[w] # Idle => review[w] \in ActiveReview
  BY DEF AdmissionInv, IInv, TypeOK
<1> DEFINE Served == \A w \in Workers : call'[w] # Idle => review'[w] \in ActiveReview
<1>3. ASSUME NEW w \in Workers, NEW id \in AppIds, NEW op \in Operations,
             SubmitAny(w, id, op)
      PROVE  /\ UNCHANGED store
             /\ review' \in [Workers -> {NoReview} \cup ActiveReview]
             /\ Served
  <2> DEFINE r == [waiting |-> TRUE, id |-> id, base |-> store[id]]
  <2>1. /\ UNCHANGED store
        /\ review' = [review EXCEPT ![w] = r]
        /\ \E c : Step(w, c)
    BY <1>3 DEF SubmitAny, Submit, Receive
  <2>2. r \in ActiveReview
    BY <1>2 DEF ActiveReview
  <2> HIDE DEF r
  <2>3. review'[w] \in ActiveReview
    BY <1>2, <2>1, <2>2
  <2>4. \A v \in Workers \ {w} : call'[v] = call[v] /\ review'[v] = review[v]
    BY <1>2, <2>1 DEF Step
  <2> QED
    BY <1>2, <2>1, <2>2, <2>3, <2>4
<1>4. ASSUME NEW w \in Workers, Webhook(w)
      PROVE  /\ UNCHANGED <<store, review>>
             /\ Served
  <2>1. PICK c : Sound(c) /\ Step(w, c)
    BY <1>4, ServeSound, FailSound DEF Webhook, AdmissionInv
  <2>2. call[w].pc \in ApiCalls
    BY <1>4 DEF Webhook, Serve, Fail, GetChartOperatorAppVersion, ListClusters, GetConfigMap,
       CreateConfigMap, UpdateConfigMap, GetSecret, ListSecrets, GetUserValues, GetRelease,
       CallFails, WriteAnswerLost, GetSecretFails, GetUserValuesFails, ApiCalls
  <2>3. call[w] # Idle
    BY <2>2 DEF Idle, ApiCalls
  <2>4. \A v \in Workers \ {w} : call'[v] = call[v]
    BY <1>2, <2>1 DEF Step
  <2> QED
    BY <1>2, <1>4, <2>3, <2>4 DEF Webhook
<1>5. ASSUME NEW w \in Workers, Close(w)
      PROVE  /\ review' \in [Workers -> {NoReview} \cup ActiveReview]
             /\ Served
  BY <1>2, <1>5 DEF Close, Step
<1>6. ASSUME NEW w \in Workers, Persist(w) \/ GiveUp(w)
      PROVE  /\ store' \in [AppIds -> App \cup {None}]
             /\ Close(w)
  BY <1>2, <1>6, PersistStores DEF Persist, GiveUp
<1>7. ASSUME NEW w \in Workers, StopWaiting(w)
      PROVE  /\ UNCHANGED store
             /\ review' \in [Workers -> {NoReview} \cup ActiveReview]
             /\ Served
  <2>1. review[w] \in ActiveReview
    BY <1>2, <1>7 DEF StopWaiting, NoReview
  <2>2. [review[w] EXCEPT !.waiting = FALSE] \in ActiveReview
    BY <2>1 DEF ActiveReview
  <2> QED
    BY <1>2, <1>7, <2>2 DEF StopWaiting
<1>8. ASSUME NEW id \in AppIds, DeleteApp(id)
      PROVE  /\ store' \in [AppIds -> App \cup {None}]
             /\ UNCHANGED review
             /\ Served
  <2>1. store[id] \in App
    BY <1>2, <1>8 DEF DeleteApp, Live
  <2>2. [store[id] EXCEPT !.deleting = TRUE] \in App
    BY <2>1 DEF App
  <2>3. store' = [store EXCEPT ![id] = [store[id] EXCEPT !.deleting = TRUE]]
    BY <1>8 DEF DeleteApp
  <2> QED
    BY <1>2, <1>8, <2>2, <2>3 DEF DeleteApp, vars
<1> DEFINE Preserved == /\ store' \in [AppIds -> App \cup {None}]
                        /\ review' \in [Workers -> {NoReview} \cup ActiveReview]
                        /\ Served
<1>9. ASSUME DisturbOnly \/ (EnvironmentNext /\ UNCHANGED <<store, review>>)
      PROVE  Preserved
  BY <1>2, <1>9 DEF DisturbOnly, Disturb, EnvironmentNext
<1>10. ASSUME NEW w \in Workers,
              \/ \E id \in AppIds, op \in Operations : SubmitAny(w, id, op)
              \/ Webhook(w) \/ Persist(w) \/ GiveUp(w) \/ StopWaiting(w)
       PROVE  Preserved
  <2>1. ASSUME NEW id \in AppIds, NEW op \in Operations, SubmitAny(w, id, op)
        PROVE  Preserved
    BY <1>2, <1>3, <2>1
  <2>2. ASSUME Persist(w) \/ GiveUp(w)
        PROVE  Preserved
    BY <1>5, <1>6, <2>2
  <2>3. ASSUME Webhook(w)
        PROVE  Preserved
    BY <1>2, <1>4, <2>3
  <2>4. ASSUME StopWaiting(w)
        PROVE  Preserved
    BY <1>2, <1>7, <2>4
  <2> QED
    BY <1>10, <2>1, <2>2, <2>3, <2>4
<1>11. ASSUME NEW id \in AppIds, DeleteApp(id)
       PROVE  Preserved
  BY <1>2, <1>8, <1>11
<1> HIDE DEF Preserved
<1>12. Preserved
  BY <1>9, <1>10, <1>11 DEF AnyAdmissionStep
<1> QED
  BY <1>1, <1>12 DEF AdmissionInv, Preserved

\* Both specifications keep the invariant.
LEMMA AdmissionInvHolds == AdmissionSpec => []AdmissionInv
<1>1. AdmissionInv /\ [AdmissionNext]_admissionVars => AdmissionInv'
  BY AdmissionNextIsAny, AnyAdmissionStepInv DEF AdmissionInv, IInv, TypeOK
<1> QED
  BY <1>1, AdmissionInitInv, PTL DEF AdmissionSpec

\* The types of what is stored and of what the API server keeps: whatever is
\* submitted, defaulted and stored, in any order, is an App.
THEOREM AdmissionTypeCorrect == AdmissionSpec => []AdmissionTypeOK
<1>1. AdmissionInv => AdmissionTypeOK
  BY DEF AdmissionInv, AdmissionTypeOK, IInv, ActiveReview
<1> QED
  BY <1>1, AdmissionInvHolds, PTL

-----------------------------------------------------------------------------
(* One step, seen from the requests.                                       *)

\* All other requests stay as they are.
OthersStay(w) == \A v \in Workers \ {w} : call'[v] = call[v] /\ review'[v] = review[v]

LEMMA SubmitStarts ==
  ASSUME AdmissionInv, NEW w \in Workers, NEW id \in AppIds, NEW op \in Operations,
         SubmitAny(w, id, op)
  PROVE  /\ \E r \in Request : /\ Submission(id, op, r.app) /\ r.op = op
                             /\ call'[w] = Mutate(r) /\ call'[w].request = r
         /\ review'[w].waiting /\ review'[w].id = id /\ review'[w].base = store[id]
         /\ OthersStay(w)
         /\ call[w] = Idle
         /\ UNCHANGED <<provider, configMaps, environment, faults, store>>
<1>0. /\ call \in [Workers -> {Idle} \cup ActiveCall]
      /\ review \in [Workers -> {NoReview} \cup ActiveReview]
  BY DEF AdmissionInv, IInv, TypeOK
<1>1. PICK dryRun \in BOOLEAN : \E app :
        Submission(id, op, app) /\ Submit(w, id, op, dryRun, app)
  BY DEF SubmitAny
<1>2. PICK app : Submission(id, op, app) /\ Submit(w, id, op, dryRun, app)
  BY <1>1
<1> DEFINE r == [op |-> op, dryRun |-> dryRun, app |-> app]
<1>3. app \in App
  BY <1>2, SubmittedIsApp
<1>4. r \in Request /\ r.app = app /\ r.op = op
  BY <1>3 DEF Request, Operations
<1>5. Receive(w, r)
  BY <1>2 DEF Submit
<1> HIDE DEF r
<1>6. Mutate(r).request = r
  BY <1>4, MutateSound
<1>7. call'[w] = Mutate(r)
  BY <1>0, <1>5 DEF Receive, Step
<1>8. call[w] = Idle
  <2>1. call[w].pc = "idle"
    BY <1>5 DEF Receive
  <2> QED
    BY <1>0, <2>1 DEF ActiveCall, ApiCalls
<1>9. /\ review'[w].waiting /\ review'[w].id = id /\ review'[w].base = store[id]
      /\ OthersStay(w)
  BY <1>0, <1>2, <1>5 DEF Submit, Receive, Step, OthersStay
<1>10. UNCHANGED <<provider, configMaps, environment, faults, store>>
  BY <1>2, <1>5 DEF Submit, Receive, Reads
<1> QED
  BY <1>2, <1>4, <1>6, <1>7, <1>8, <1>9, <1>10

LEMMA WebhookGoesOn ==
  ASSUME AdmissionInv, NEW w \in Workers, Webhook(w)
  PROVE  /\ call[w].pc \in ApiCalls /\ call[w] # Idle
         /\ call'[w].request = call[w].request
         /\ call'[w] # Idle
         /\ OthersStay(w)
         /\ UNCHANGED <<provider, environment, store, review>>
<1>0. /\ IInv /\ call \in [Workers -> {Idle} \cup ActiveCall]
      /\ Serve(w) \/ Fail(w)
      /\ UNCHANGED <<store, review>>
  BY DEF AdmissionInv, IInv, TypeOK, Webhook
<1>1. call[w].pc \in ApiCalls /\ call[w] # Idle
  BY <1>0, ServedWaits
<1>2. PICK c : Step(w, c) /\ c.request = call[w].request
  BY <1>0, DecidedOnce
<1>3. call'[w].request = call[w].request /\ OthersStay(w)
  BY <1>0, <1>2 DEF Step, OthersStay
<1>4. PICK d : Sound(d) /\ Step(w, d)
  BY <1>0, ServeSound, FailSound
<1>5. call'[w] # Idle
  BY <1>0, <1>4 DEF Step, Sound, ActiveCall, ApiCalls, Idle
<1> QED
  BY <1>0, <1>1, <1>3, <1>5, WebhookTypes

LEMMA CloseEnds ==
  ASSUME AdmissionInv, NEW w \in Workers, Close(w)
  PROVE  call'[w] = Idle /\ review'[w] = NoReview /\ OthersStay(w)
BY DEF AdmissionInv, IInv, TypeOK, Close, Step, OthersStay

LEMMA StopWaitingKeeps ==
  ASSUME AdmissionInv, NEW w \in Workers, StopWaiting(w)
  PROVE  /\ UNCHANGED <<call, store, provider, configMaps, environment>>
         /\ review[w] \in ActiveReview /\ ~review'[w].waiting
         /\ review'[w].id = review[w].id /\ review'[w].base = review[w].base
         /\ OthersStay(w)
<1>1. review[w] \in ActiveReview
  BY DEF AdmissionInv, StopWaiting, NoReview
<1>2. review' = [review EXCEPT ![w] = [review[w] EXCEPT !.waiting = FALSE]]
  BY DEF StopWaiting
<1>3. /\ [review[w] EXCEPT !.waiting = FALSE].id = review[w].id
      /\ [review[w] EXCEPT !.waiting = FALSE].base = review[w].base
      /\ ~[review[w] EXCEPT !.waiting = FALSE].waiting
  BY <1>1 DEF ActiveReview
<1> QED
  BY <1>1, <1>2, <1>3 DEF AdmissionInv, OthersStay, StopWaiting

-----------------------------------------------------------------------------
(* Stored Apps refer to ConfigMaps that hold the values of their charts.   *)

WithEntry(app) == PspEntry(app) \in Entries(app)
ChartOfApp(app) == <<app.ns, app.specName>>
NeverSubmittedWithEntry(id) == \A m \in Manifests[id] : ~WithEntry(m)

\* What is inductive: so do the Apps the webhook is called with.
Resolved ==
  \A id \in AppIds : NeverSubmittedWithEntry(id) =>
    /\ store[id] # None /\ WithEntry(store[id]) => ChartOfApp(store[id]) \in ReadyCharts
    /\ \A w \in Workers :
         /\ call[w] # Idle
         /\ review[w].id = id
         /\ WithEntry(call[w].request.app)
         => ChartOfApp(call[w].request.app) \in ReadyCharts

\* A chart is ready when its ConfigMap holds its values.
LEMMA ReadyChart ==
  ASSUME NEW app \in App
  PROVE  ChartOfApp(app) \in ReadyCharts <=>
           configMaps[<<app.ns, ExtraConfigName(app.specName)>>] = ExtraConfigValues(app.specName)
BY DEF App, ChartOfApp, ReadyCharts, ChartConfigMap, ChartValues

\* The entry and the chart of an App are given by three of its fields.
LEMMA EntryOfFields ==
  ASSUME NEW app, NEW new, new.ns = app.ns, new.specName = app.specName
  PROVE  /\ ChartOfApp(new) = ChartOfApp(app)
         /\ PspEntry(new) = PspEntry(app)
         /\ new.extraConfigs = app.extraConfigs => (WithEntry(new) <=> WithEntry(app))
BY DEF ChartOfApp, PspEntry, WithEntry, Entries

\* A stored App has the entry because the one that was submitted had it, or
\* because its request has added it.
LEMMA StoredEntry ==
  ASSUME NEW c, Sound(c), Allowed(c), WithEntry(Stored(Mutated(c)))
  PROVE  /\ ChartOfApp(Stored(Mutated(c))) = ChartOfApp(c.request.app)
         /\ WithEntry(c.request.app) \/ (Fully(c) /\ c.psp # "none")
<1> DEFINE app == c.request.app
           new == Mutated(c)
<1>1. app \in App /\ new = Outcome(c) /\ new \in App /\ Unmutated(app, new)
  BY MutatedIsApp
<1>2. /\ Stored(new).ns = app.ns /\ Stored(new).specName = app.specName
      /\ Stored(new).extraConfigs = new.extraConfigs
      /\ new.ns = app.ns /\ new.specName = app.specName
  BY <1>1, StoredIsApp DEF Unmutated
<1>3. PspEntry(app) \in ToSet(new.extraConfigs)
  BY <1>2, EntryOfFields DEF WithEntry, Entries
<1>4. CASE c.outcome = "full"
  <2>1. new.extraConfigs = DefaultedConfigs(app, c.psp)
    BY <1>1, <1>4, FullyDefaultedFields DEF Outcome
  <2>2. c.psp = "entry" \/ WithEntry(app)
    BY <1>1, <1>3, <2>1, EntriesDefaulted DEF WithEntry
  <2> QED
    BY <1>2, <1>4, <2>2, EntryOfFields DEF Fully, Allowed
<1>5. CASE c.outcome = "labels"
  <2>1. new.extraConfigs = app.extraConfigs
    BY <1>1, <1>5, AppIsDocument DEF Outcome, LabelledOnly, IsDocument, Fields
  <2> QED
    BY <1>2, <1>3, <2>1, EntryOfFields DEF WithEntry, Entries
<1>6. CASE c.outcome = "nothing"
  <2>1. new = app
    BY <1>1, <1>6 DEF Outcome
  <2> QED
    BY <1>2, <1>3, <2>1, EntryOfFields DEF WithEntry, Entries
<1> QED
  BY <1>4, <1>5, <1>6 DEF Allowed

\* Every step preserves Resolved.
LEMMA AnyAdmissionStepResolved ==
  ASSUME SharedNamesShareValues, AdmissionInv, Ensured, Resolved, AnyAdmissionStep
  PROVE  Resolved'
<1> DEFINE StoreResolved(id) ==
             store'[id] # None /\ WithEntry(store'[id]) => ChartOfApp(store'[id]) \in ReadyCharts'
           CallResolved(id, v) ==
             /\ call'[v] # Idle
             /\ review'[v].id = id
             /\ WithEntry(call'[v].request.app)
             => ChartOfApp(call'[v].request.app) \in ReadyCharts'
<1> SUFFICES ASSUME NEW id \in AppIds, NeverSubmittedWithEntry(id)
             PROVE  StoreResolved(id) /\ \A v \in Workers : CallResolved(id, v)
  BY DEF Resolved
<1>0. /\ store \in [AppIds -> App \cup {None}]
      /\ ReadyCharts \subseteq ReadyCharts'
  BY AnyAdmissionStepIsAny, ValuesStayReady DEF AdmissionInv
<1>1. store'[id] = store[id] => StoreResolved(id)
  BY <1>0 DEF Resolved
<1>2. \A v \in Workers :
        call'[v] = call[v] /\ review'[v] = review[v] => CallResolved(id, v)
  BY <1>0 DEF Resolved
<1>3. ASSUME NEW w \in Workers, NEW i \in AppIds, NEW op \in Operations,
             SubmitAny(w, i, op)
      PROVE  StoreResolved(id) /\ \A v \in Workers : CallResolved(id, v)
  <2>1. /\ UNCHANGED store /\ OthersStay(w) /\ review'[w].id = i
    BY <1>3, SubmitStarts
  <2>2. PICK r \in Request : Submission(i, op, r.app) /\ call'[w].request = r
    BY <1>3, SubmitStarts
  <2>3. ASSUME i = id, WithEntry(r.app)
        PROVE  ChartOfApp(r.app) \in ReadyCharts
    <3>1. r.app \notin Manifests[id]
      BY <2>3 DEF NeverSubmittedWithEntry
    <3>2. CASE store[id] # None /\ r.app = store[id]
      BY <2>3, <3>2 DEF Resolved
    <3>3. CASE Live(id) /\ r.app = [store[id] EXCEPT !.labels["psp"] = "disabled"]
      <4>1. store[id] \in App
        BY <1>0, <3>3 DEF Live
      <4>2. /\ r.app.ns = store[id].ns /\ r.app.specName = store[id].specName
            /\ r.app.extraConfigs = store[id].extraConfigs
        BY <3>3, <4>1 DEF App
      <4>3. /\ ChartOfApp(r.app) = ChartOfApp(store[id])
            /\ WithEntry(store[id])
        BY <2>3, <4>2, EntryOfFields
      <4> QED
        BY <3>3, <4>3 DEF Resolved, Live
    <3> QED
      BY <2>2, <2>3, <3>1, <3>2, <3>3 DEF Submission
  <2>4. CallResolved(id, w)
    BY <1>0, <2>1, <2>2, <2>3
  <2> QED
    BY <1>1, <1>2, <2>1, <2>4 DEF OthersStay
<1>4. ASSUME NEW w \in Workers, Webhook(w)
      PROVE  StoreResolved(id) /\ \A v \in Workers : CallResolved(id, v)
  <2>1. /\ UNCHANGED <<store, review>> /\ OthersStay(w)
        /\ call[w] # Idle /\ call'[w].request = call[w].request
    BY <1>4, WebhookGoesOn
  <2>2. CallResolved(id, w)
    BY <1>0, <2>1 DEF Resolved
  <2> QED
    BY <1>1, <1>2, <2>1, <2>2 DEF OthersStay
<1>5. ASSUME NEW w \in Workers, Close(w)
      PROVE  \A v \in Workers : CallResolved(id, v)
  BY <1>2, <1>5, CloseEnds DEF OthersStay
<1>6. ASSUME NEW w \in Workers, Persist(w)
      PROVE  StoreResolved(id)
  <2>1. /\ Allowed(call[w]) /\ call[w] # Idle /\ Sound(call[w])
        /\ \/ store'[id] \in {store[id], None}
           \/ store'[id] = Stored(Mutated(call[w])) /\ review[w].id = id
    BY <1>6, PersistStores
  <2>2. ASSUME store'[id] = Stored(Mutated(call[w])), review[w].id = id,
               WithEntry(Stored(Mutated(call[w])))
        PROVE  ChartOfApp(Stored(Mutated(call[w]))) \in ReadyCharts
    <3>1. /\ ChartOfApp(Stored(Mutated(call[w]))) = ChartOfApp(call[w].request.app)
          /\ WithEntry(call[w].request.app) \/ (Fully(call[w]) /\ call[w].psp # "none")
      BY <2>1, <2>2, StoredEntry
    <3>2. CASE WithEntry(call[w].request.app)
      BY <2>1, <2>2, <3>1, <3>2 DEF Resolved
    <3>3. CASE Fully(call[w]) /\ call[w].psp # "none"
      <4>1. configMaps[ConfigMapKey(call[w])] = ConfigMapValues(call[w])
        BY <2>1, <3>3 DEF Ensured, PastEnsure, Fully
      <4>2. call[w].request.app \in App
        BY <2>1, MutatedIsApp
      <4> QED
        BY <3>1, <4>1, <4>2, ReadyChart DEF ConfigMapKey, ConfigMapValues
    <3> QED
      BY <3>1, <3>2, <3>3
  <2> QED
    BY <1>0, <1>1, <2>1, <2>2
<1>7. ASSUME NEW w \in Workers, StopWaiting(w)
      PROVE  StoreResolved(id) /\ \A v \in Workers : CallResolved(id, v)
  <2>1. /\ UNCHANGED <<call, store>> /\ OthersStay(w) /\ review'[w].id = review[w].id
    BY <1>7, StopWaitingKeeps
  <2>2. CallResolved(id, w)
    BY <1>0, <2>1 DEF Resolved
  <2> QED
    BY <1>1, <1>2, <2>1, <2>2 DEF OthersStay
<1>8. ASSUME NEW i \in AppIds, DeleteApp(i)
      PROVE  StoreResolved(id) /\ \A v \in Workers : CallResolved(id, v)
  <2>1. store[i] \in App /\ store[i] # None
    BY <1>0, <1>8 DEF DeleteApp, Live
  <2> DEFINE new == [store[i] EXCEPT !.deleting = TRUE]
  <2>2. /\ new.ns = store[i].ns /\ new.specName = store[i].specName
        /\ new.extraConfigs = store[i].extraConfigs
    BY <2>1 DEF App
  <2>3. store'[id] = IF id = i THEN new ELSE store[id]
    BY <1>0, <1>8 DEF DeleteApp
  <2> HIDE DEF new
  <2>4. /\ ChartOfApp(new) = ChartOfApp(store[i])
        /\ WithEntry(new) <=> WithEntry(store[i])
    BY <2>2, EntryOfFields
  <2>5. StoreResolved(id)
    BY <1>0, <1>1, <2>1, <2>3, <2>4 DEF Resolved
  <2>6. UNCHANGED <<call, review>>
    BY <1>8 DEF DeleteApp, vars
  <2> QED
    BY <1>2, <2>5, <2>6
<1>9. ASSUME UNCHANGED <<call, store, review>>
      PROVE  StoreResolved(id) /\ \A v \in Workers : CallResolved(id, v)
  BY <1>1, <1>2, <1>9
<1>10. ASSUME NEW w \in Workers, GiveUp(w)
       PROVE  StoreResolved(id)
  BY <1>1, <1>10 DEF GiveUp
<1>11. ASSUME NEW w \in Workers, Persist(w) \/ GiveUp(w)
       PROVE  StoreResolved(id) /\ \A v \in Workers : CallResolved(id, v)
  BY <1>5, <1>6, <1>10, <1>11 DEF Persist, GiveUp
<1>12. ASSUME DisturbOnly \/ (EnvironmentNext /\ UNCHANGED <<store, review>>)
       PROVE  UNCHANGED <<call, store, review>>
  BY <1>12 DEF DisturbOnly, Disturb, EnvironmentNext
<1> HIDE DEF StoreResolved, CallResolved
<1> QED
  BY <1>3, <1>4, <1>7, <1>8, <1>9, <1>11, <1>12 DEF AnyAdmissionStep

\* Ensured and Resolved, whatever comes between the answers and the store.
LEMMA AnyAdmissionStepEnsured ==
  ASSUME SharedNamesShareValues
  PROVE  AdmissionInv /\ Ensured /\ AnyAdmissionStep => Ensured'
BY AnyAdmissionStepIsAny, AnyStepEnsured DEF AdmissionInv

LEMMA ResolvedImplies == AdmissionInv /\ Resolved => StoredEntriesResolve
<1> SUFFICES ASSUME AdmissionInv, Resolved, NEW id \in AppIds, HasEntry(id),
                    \A m \in Manifests[id] : PspEntry(m) \notin Entries(m)
             PROVE  configMaps[<<store[id].ns, ExtraConfigName(store[id].specName)>>]
                      = ExtraConfigValues(store[id].specName)
  BY DEF StoredEntriesResolve
<1>1. store[id] \in App
  BY DEF HasEntry, AdmissionInv
<1>2. ChartOfApp(store[id]) \in ReadyCharts
  BY DEF Resolved, NeverSubmittedWithEntry, WithEntry, HasEntry
<1> QED
  BY <1>1, <1>2, ReadyChart

\* When charts that share a ConfigMap share its values, every stored App the
\* webhook has given the psp-removal entry refers to a ConfigMap that exists
\* and holds the values of its chart, whatever has happened between the answer
\* and the store, and for as long as the App is there (ensureConfigMap,
\* mutate_app_psp_removal.go:210).
THEOREM StoredEntriesResolveHolds ==
  ASSUME SharedNamesShareValues
  PROVE  AdmissionSpec => []StoredEntriesResolve
<1>1. AdmissionInit => Ensured /\ Resolved
  BY DEF AdmissionInit, Init, Ensured, Resolved
<1>2. AdmissionInv /\ Ensured /\ [AdmissionNext]_admissionVars => Ensured'
  BY AdmissionNextIsAny, AnyAdmissionStepEnsured DEF AdmissionInv, IInv, TypeOK
<1>3. AdmissionInv /\ Ensured /\ Resolved /\ [AdmissionNext]_admissionVars => Resolved'
  BY AdmissionNextIsAny, AnyAdmissionStepResolved DEF AdmissionInv, IInv, TypeOK
<1> QED
  BY <1>1, <1>2, <1>3, AdmissionInvHolds, ResolvedImplies, PTL DEF AdmissionSpec

-----------------------------------------------------------------------------
(* The validating webhook.  Validator is instantiated, so its operators on *)
(* Apps are copies of those of AppCR and Inspector.                        *)

LEMMA CopiesAgree ==
  ASSUME NEW app, NEW user
  PROVE  /\ V!Inspect(app, user) <=> Inspect(app, user)
         /\ V!VersionLabel(app) = VersionLabel(app)
         /\ V!IsManagedInOrg(app) <=> IsManagedInOrg(app)
<1>1. /\ V!IsWhitelistedActor(user) <=> IsWhitelistedActor(user)
      /\ V!IsPrivateApp(app) <=> IsPrivateApp(app)
      /\ V!IsBlacklistedApp(app) <=> IsBlacklistedApp(app)
  BY DEF V!IsWhitelistedActor, IsWhitelistedActor, V!IsPrivateApp, IsPrivateApp,
     V!FixedNamespaceBlacklist, FixedNamespaceBlacklist, V!IsBlacklistedApp, IsBlacklistedApp
<1>2. V!ReferencedNamespaces(app) = ReferencedNamespaces(app)
  BY DEF V!ReferencedNamespaces, ReferencedNamespaces, V!Entries, Entries, V!ToSet, ToSet
<1>3. \A ns : V!Protected(ns) <=> Protected(ns)
  BY DEF V!Protected, Protected, V!FixedNamespaceBlacklist, FixedNamespaceBlacklist
<1>4. V!HasBlacklistedReference(app) <=> HasBlacklistedReference(app)
  BY <1>2, <1>3 DEF V!HasBlacklistedReference, HasBlacklistedReference
<1> QED
  BY <1>1, <1>4 DEF V!Inspect, Inspect, V!VersionLabel, VersionLabel,
     V!IsManagedInOrg, IsManagedInOrg, V!InOrgNamespace, InOrgNamespace

\* Why an App is not validated, or refused without any API call.
Skipped(r) == (r.op = "UPDATE" /\ r.app.deleting) \/ V!SkipsValidation(r.app)
Violates(r) == VersionLabel(r.app) = UniqueVersion /\ ~Inspect(r.app, r.user)

\* The outcomes of the library's checks.
LibraryOutcomes ==
  {"none", "invalid app", "invalid update", "API error", "valid"}

\* What the validating webhook has made of a request.
Judged(v) ==
  /\ v.pc \in {"ValidateApp", "answered"}
  /\ v.pc = "answered" <=> v.outcome # "none"
  /\ v.outcome \in LibraryOutcomes \cup {"skipped", "security violation"}
  /\ v.outcome = "skipped" <=> Skipped(v.request)
  /\ v.outcome = "security violation" => Violates(v.request)
  /\ v.outcome \in LibraryOutcomes => ~Violates(v.request)
  /\ v.events = IF v.outcome = "valid" THEN V!EmitEvents(v.request) ELSE {}

LEMMA ValidateJudges ==
  ASSUME NEW r
  PROVE  Judged(V!Validate(r)) /\ V!Validate(r).request = r
<1>1. /\ VersionLabel(r.app) = V!VersionLabel(r.app)
      /\ V!Inspect(r.app, r.user) <=> Inspect(r.app, r.user)
  BY CopiesAgree
<1> DEFINE v == V!Validate(r)
<1>2. /\ v.request = r /\ v.events = {}
      /\ \/ Skipped(r) /\ v.pc = "answered" /\ v.outcome = "skipped"
         \/ ~Skipped(r) /\ Violates(r) /\ v.pc = "answered" /\ v.outcome = "security violation"
         \/ ~Skipped(r) /\ ~Violates(r) /\ v.pc = "ValidateApp" /\ v.outcome = "none"
  BY <1>1 DEF V!Validate, V!Verdict, Skipped, Violates
<1> HIDE DEF v
<1>3. Judged(v)
  BY <1>2 DEF Judged, LibraryOutcomes
<1> QED
  BY <1>2, <1>3 DEF v

\* The library is called for no other requests, and its verdict is final.
LEMMA LibraryJudges ==
  ASSUME NEW v, Judged(v), v.pc = "ValidateApp", NEW d,
         d.pc = "answered", d.request = v.request,
         d.outcome \in LibraryOutcomes \ {"none"},
         d.events = IF d.outcome = "valid" THEN V!EmitEvents(d.request) ELSE {}
  PROVE  Judged(d)
<1>1. v.outcome = "none"
  BY DEF Judged
<1>2. ~Skipped(d.request) /\ ~Violates(d.request)
  BY <1>1 DEF Judged, LibraryOutcomes
<1> QED
  BY <1>2 DEF Judged, LibraryOutcomes

-----------------------------------------------------------------------------
(* The invariant of both webhooks together.                                *)

\* The validating webhook's request is the one the API server makes of the
\* mutating webhook's, the App that was stored and the user.
Follows(v, c, base, user) ==
  /\ Allowed(c)
  /\ v.request.op = c.request.op
  /\ v.request.app = Stored(Mutated(c))
  /\ v.request.old = base
  /\ v.request.user = user

\* A request of both webhooks: the validating one is only called with what the
\* mutating one has allowed, and an update is one of a stored App.
RequestSane(v, c, base, user) ==
  /\ v = V!NotValidating \/ (Judged(v) /\ Follows(v, c, base, user))
  /\ c = Idle => v = V!NotValidating
  /\ c # Idle => user \in Submitters /\ (c.request.op = "UPDATE" <=> base # None)

\* No App with the unique version is stored that its author may not submit.
Confined(app, user) ==
  app.deleting \/ (VersionLabel(app) = UniqueVersion => Inspect(app, user))

AppSane(app, user) ==
  IF app = None THEN user = Nobody ELSE user \in Submitters /\ Confined(app, user)

WebhooksInv ==
  /\ AdmissionInv
  /\ DOMAIN validation = Workers /\ DOMAIN actor = Workers /\ DOMAIN author = AppIds
  /\ \A w \in Workers : actor[w] \in Submitters \cup {Nobody}
  /\ \A w \in Workers : RequestSane(validation[w], call[w], review[w].base, actor[w])
  /\ \A id \in AppIds : AppSane(store[id], author[id])

LEMMA WebhooksInitInv == WebhooksInit => WebhooksInv
<1> SUFFICES ASSUME WebhooksInit PROVE WebhooksInv
  OBVIOUS
<1>1. AdmissionInv
  BY AdmissionInitInv DEF WebhooksInit
<1>2. \A w \in Workers : call[w] = Idle /\ validation[w] = V!NotValidating
  BY DEF WebhooksInit, AdmissionInit, Init
<1>3. \A id \in AppIds : store[id] = None /\ author[id] = Nobody
  BY DEF WebhooksInit, AdmissionInit
<1> QED
  BY <1>1, <1>2, <1>3 DEF WebhooksInit, WebhooksInv, RequestSane, AppSane

\* A request that is over, and one that is submitted.
LEMMA OverIsSane ==
  ASSUME NEW base, NEW user
  PROVE  RequestSane(V!NotValidating, Idle, base, user)
BY DEF RequestSane

\* An answer of the library.
LEMMA LibraryAnswers ==
  ASSUME NEW w, DOMAIN validation = Workers, w \in Workers,
         V!ValidateApp(w) \/ V!ValidateAppFails(w)
  PROVE  /\ validation[w].pc = "ValidateApp"
         /\ \A v \in Workers \ {w} : validation'[v] = validation[v]
         /\ DOMAIN validation' = Workers
         /\ LET d == validation'[w]
            IN  /\ d.pc = "answered" /\ d.request = validation[w].request
                /\ d.outcome \in LibraryOutcomes \ {"none"}
                /\ d.events = IF d.outcome = "valid" THEN V!EmitEvents(d.request) ELSE {}
         /\ UNCHANGED store
<1>1. ASSUME NEW o \in LibraryOutcomes \ {"none", "valid"},
             validation' = [validation EXCEPT ![w] = V!Verdict(validation[w].request, o)]
      PROVE  /\ validation'[w].pc = "answered" /\ validation'[w].request = validation[w].request
             /\ validation'[w].outcome = o /\ validation'[w].events = {}
  BY <1>1 DEF V!Verdict
<1>2. ASSUME validation' = [validation EXCEPT ![w] =
               [V!Verdict(validation[w].request, "valid") EXCEPT
                  !.events = V!EmitEvents(validation[w].request)]]
      PROVE  /\ validation'[w].pc = "answered" /\ validation'[w].request = validation[w].request
             /\ validation'[w].outcome = "valid"
             /\ validation'[w].events = V!EmitEvents(validation[w].request)
  BY <1>2 DEF V!Verdict
<1>3. CASE V!ValidateAppFails(w)
  <2>1. validation' = [validation EXCEPT ![w] = V!Verdict(validation[w].request, "API error")]
    BY <1>3 DEF V!ValidateAppFails
  <2>2. "API error" \in LibraryOutcomes \ {"none", "valid"}
    BY DEF LibraryOutcomes
  <2>3. /\ validation'[w].pc = "answered" /\ validation'[w].request = validation[w].request
        /\ validation'[w].outcome = "API error" /\ validation'[w].events = {}
    BY <1>1, <2>1, <2>2
  <2> QED
    BY <1>3, <2>1, <2>2, <2>3 DEF V!ValidateAppFails
<1>4. CASE V!ValidateApp(w)
  <2>1. \/ \E o \in {"invalid app", "invalid update"} :
             validation' = [validation EXCEPT ![w] = V!Verdict(validation[w].request, o)]
        \/ validation' = [validation EXCEPT ![w] =
               [V!Verdict(validation[w].request, "valid") EXCEPT
                  !.events = V!EmitEvents(validation[w].request)]]
    BY <1>4 DEF V!ValidateApp
  <2> QED
    BY <1>1, <1>2, <1>4, <2>1 DEF V!ValidateApp, LibraryOutcomes
<1> QED
  BY <1>3, <1>4

\* What the API server stores when the validating webhook has admitted it.
LEMMA AdmittedIsConfined ==
  ASSUME WebhooksInv, NEW w \in Workers, Persist(w), V!Admitted(validation[w]),
         ~call[w].request.app.deleting
  PROVE  /\ actor[w] \in Submitters
         /\ Confined(Stored(Mutated(call[w])), actor[w])
<1> DEFINE v == validation[w]
           app == Stored(Mutated(call[w]))
<1>1. /\ RequestSane(v, call[w], review[w].base, actor[w])
      /\ call[w] # Idle
      /\ v # V!NotValidating
      /\ v.outcome \in {"skipped", "valid"}
  BY PersistStores DEF WebhooksInv, V!Admitted, V!NotValidating
<1>2. Judged(v) /\ v.request.app = app /\ v.request.user = actor[w]
  BY <1>1 DEF RequestSane, Follows
<1>3. CASE v.outcome = "valid"
  BY <1>1, <1>2, <1>3 DEF Judged, LibraryOutcomes, Violates, Confined, RequestSane
<1>4. CASE v.outcome = "skipped"
  <2>1. Skipped(v.request)
    BY <1>2, <1>4 DEF Judged
  <2>2. V!SkipsValidation(app) => VersionLabel(app) # UniqueVersion
    BY VersionsAssumption, CopiesAgree DEF V!SkipsValidation
  <2> QED
    BY <1>1, <1>2, <2>1, <2>2 DEF Skipped, Confined, RequestSane
<1> QED
  BY <1>1, <1>3, <1>4

\* A step of one request: it keeps the invariant if it keeps it for the request,
\* and for what is stored.
OneRequest(w) ==
  /\ \A v \in Workers \ {w} : /\ validation'[v] = validation[v] /\ call'[v] = call[v]
                             /\ review'[v] = review[v] /\ actor'[v] = actor[v]
  /\ RequestSane(validation'[w], call'[w], review'[w].base, actor'[w])
  /\ actor'[w] \in Submitters \cup {Nobody}

\* The steps of the request's own webhooks keep the user.
LEMMA ActorStays ==
  ASSUME WebhooksInv, UNCHANGED actor, NEW w \in Workers
  PROVE  /\ \A v \in Workers \ {w} : actor'[v] = actor[v]
         /\ actor'[w] = actor[w] /\ actor[w] \in Submitters \cup {Nobody}
BY DEF WebhooksInv

LEMMA SubmittedSane ==
  ASSUME WebhooksInv, NEW w \in Workers, Submitted(w)
  PROVE  OneRequest(w) /\ UNCHANGED <<store, author, validation>>
<1>1. PICK id \in AppIds, op \in Operations : SubmitAny(w, id, op)
  BY UsersSubmit DEF Submitted
<1>2. AdmissionInv
  BY DEF WebhooksInv
<1>3. /\ review'[w].base = store[id] /\ OthersStay(w) /\ call[w] = Idle /\ UNCHANGED store
  BY <1>1, <1>2, SubmitStarts
<1>4. PICK r \in Request : /\ Submission(id, op, r.app) /\ r.op = op
                          /\ call'[w] = Mutate(r) /\ call'[w].request = r
  BY <1>1, <1>2, SubmitStarts
<1>5. op = "UPDATE" <=> store[id] # None
  BY <1>4 DEF Submission, Live
<1>6. PICK user \in Submitters : actor' = [actor EXCEPT ![w] = user]
  BY DEF Submitted, SubmittedBySomeone
<1>7. /\ actor'[w] = user /\ \A v \in Workers \ {w} : actor'[v] = actor[v]
  BY <1>6 DEF WebhooksInv
<1>8. UNCHANGED <<validation, author>>
  BY DEF Submitted, SubmittedBySomeone
<1>9. validation[w] = V!NotValidating
  BY <1>3 DEF WebhooksInv, RequestSane
<1>10. RequestSane(validation'[w], call'[w], review'[w].base, actor'[w])
  BY <1>3, <1>4, <1>5, <1>7, <1>8, <1>9 DEF RequestSane, Mutate, Idle
<1> QED
  BY <1>3, <1>7, <1>8, <1>10 DEF OneRequest, OthersStay

LEMMA MutatingSane ==
  ASSUME WebhooksInv, NEW w \in Workers, Mutating(w)
  PROVE  OneRequest(w) /\ UNCHANGED <<store, author>>
<1>1. /\ call[w].pc \in ApiCalls /\ call[w] # Idle
      /\ call'[w].request = call[w].request /\ call'[w] # Idle
      /\ OthersStay(w) /\ UNCHANGED <<store, review>>
  BY WebhookGoesOn DEF Mutating, WebhooksInv
<1>2. UNCHANGED <<validation, actor, author>>
  BY DEF Mutating
<1>3. RequestSane(validation[w], call[w], review[w].base, actor[w])
  BY DEF WebhooksInv
<1>4. ~Allowed(call[w])
  BY <1>1 DEF Allowed, ApiCalls
<1>5. validation[w] = V!NotValidating
  BY <1>3, <1>4 DEF RequestSane, Follows
<1>6. RequestSane(validation'[w], call'[w], review'[w].base, actor'[w])
  BY <1>1, <1>2, <1>3, <1>5 DEF RequestSane
<1> QED
  BY <1>1, <1>2, <1>6, ActorStays DEF OneRequest, OthersStay

LEMMA ReceivedSane ==
  ASSUME WebhooksInv, NEW w \in Workers, Defaulted(w), NEW r, V!Receive(w, r),
         r.op = call[w].request.op, r.app = Stored(Mutated(call[w])),
         r.old = review[w].base, r.user = actor[w],
         UNCHANGED <<call, review, actor, author>>
  PROVE  OneRequest(w) /\ UNCHANGED <<store, author>>
<1>1. Allowed(call[w]) /\ call[w] # Idle
  BY DEF Defaulted, Allowed, Idle
<1>2. /\ validation'[w] = V!Validate(r)
      /\ \A v \in Workers \ {w} : validation'[v] = validation[v]
      /\ UNCHANGED store
  BY DEF V!Receive, WebhooksInv
<1>3. Judged(validation'[w]) /\ validation'[w].request = r
  BY <1>2, ValidateJudges
<1>4. Follows(validation'[w], call[w], review[w].base, actor[w])
  BY <1>1, <1>3 DEF Follows
<1>5. RequestSane(validation'[w], call[w], review[w].base, actor[w])
  BY <1>1, <1>3, <1>4 DEF RequestSane, WebhooksInv
<1> QED
  BY <1>2, <1>5, ActorStays DEF OneRequest

LEMMA AnsweredSane ==
  ASSUME WebhooksInv, NEW w \in Workers, V!ValidateApp(w) \/ V!ValidateAppFails(w),
         UNCHANGED <<call, review, actor, author>>
  PROVE  OneRequest(w) /\ UNCHANGED <<store, author>>
<1> DEFINE d == validation'[w]
<1>1. /\ validation[w].pc = "ValidateApp"
      /\ \A v \in Workers \ {w} : validation'[v] = validation[v]
      /\ d.pc = "answered" /\ d.request = validation[w].request
      /\ d.outcome \in LibraryOutcomes \ {"none"}
      /\ d.events = IF d.outcome = "valid" THEN V!EmitEvents(d.request) ELSE {}
      /\ UNCHANGED store
  BY LibraryAnswers DEF WebhooksInv
<1>2. RequestSane(validation[w], call[w], review[w].base, actor[w])
  BY DEF WebhooksInv
<1>3. /\ Judged(validation[w])
      /\ Follows(validation[w], call[w], review[w].base, actor[w])
      /\ call[w] # Idle
  BY <1>1, <1>2 DEF RequestSane, V!NotValidating
<1> HIDE DEF d
<1>4. Judged(d)
  BY <1>1, <1>3, LibraryJudges
<1>5. Follows(d, call[w], review[w].base, actor[w])
  BY <1>1, <1>3 DEF Follows
<1>6. RequestSane(d, call[w], review[w].base, actor[w])
  BY <1>2, <1>3, <1>4, <1>5 DEF RequestSane
<1> QED
  BY <1>1, <1>6, ActorStays DEF OneRequest, d

LEMMA ForgottenSane ==
  ASSUME WebhooksInv, NEW w \in Workers, Close(w), Forget(w)
  PROVE  OneRequest(w)
<1>1. call'[w] = Idle /\ OthersStay(w)
  BY CloseEnds DEF WebhooksInv
<1>2. /\ validation'[w] = V!NotValidating /\ actor'[w] = Nobody
      /\ \A v \in Workers \ {w} : validation'[v] = validation[v] /\ actor'[v] = actor[v]
  BY DEF Forget, WebhooksInv
<1>3. RequestSane(validation'[w], call'[w], review'[w].base, actor'[w])
  BY <1>1, <1>2, OverIsSane
<1> QED
  BY <1>1, <1>2, <1>3 DEF OneRequest, OthersStay

LEMMA StoppedSane ==
  ASSUME WebhooksInv, NEW w \in Workers, StopWaiting(w),
         UNCHANGED <<validation, actor, author>>
  PROVE  OneRequest(w) /\ UNCHANGED <<store, author>>
<1>1. /\ UNCHANGED <<call, store>> /\ review'[w].base = review[w].base /\ OthersStay(w)
  BY StopWaitingKeeps DEF WebhooksInv
<1>2. RequestSane(validation'[w], call'[w], review'[w].base, actor'[w])
  BY <1>1 DEF WebhooksInv
<1> QED
  BY <1>1, <1>2, ActorStays DEF OneRequest, OthersStay

\* What is stored is what the validating webhook has seen, and its author the
\* user it was told.
LEMMA PersistedSane ==
  ASSUME WebhooksInv, NEW w \in Workers, PersistValidated(w)
  PROVE  \A id \in AppIds : AppSane(store'[id], author'[id])
<1>1. /\ Persist(w) /\ V!Admitted(validation[w])
      /\ author' = [author EXCEPT ![review[w].id] =
                      IF store'[review[w].id] = None THEN Nobody ELSE actor[w]]
  BY DEF PersistValidated
<1>2. /\ review[w].id \in AppIds
      /\ \A id \in AppIds :
           store'[id] = IF id # review[w].id THEN store[id]
                        ELSE IF call[w].request.app.deleting THEN None
                        ELSE Stored(Mutated(call[w]))
  BY <1>1, PersistStores DEF WebhooksInv
<1> SUFFICES ASSUME NEW id \in AppIds PROVE AppSane(store'[id], author'[id])
  OBVIOUS
<1>3. author'[id] = IF id # review[w].id THEN author[id]
                    ELSE IF store'[id] = None THEN Nobody ELSE actor[w]
  BY <1>1, <1>2 DEF WebhooksInv
<1>4. CASE id # review[w].id
  BY <1>2, <1>3, <1>4 DEF WebhooksInv
<1>5. CASE id = review[w].id /\ store'[id] = None
  BY <1>3, <1>5 DEF AppSane
<1>6. CASE id = review[w].id /\ store'[id] # None
  <2>1. ~call[w].request.app.deleting /\ store'[id] = Stored(Mutated(call[w]))
    BY <1>2, <1>6
  <2>2. actor[w] \in Submitters /\ Confined(Stored(Mutated(call[w])), actor[w])
    BY <1>1, <2>1, AdmittedIsConfined
  <2> QED
    BY <1>3, <1>6, <2>1, <2>2 DEF AppSane
<1> QED
  BY <1>4, <1>5, <1>6

LEMMA DeletedSane ==
  ASSUME WebhooksInv, NEW i \in AppIds, DeleteApp(i), UNCHANGED author
  PROVE  \A id \in AppIds : AppSane(store'[id], author'[id])
<1> DEFINE new == [store[i] EXCEPT !.deleting = TRUE]
<1>1. store[i] \in App /\ store[i] # None
  BY DEF DeleteApp, Live, WebhooksInv, AdmissionInv
<1>2. new.deleting /\ new \in App
  BY <1>1 DEF App
<1>3. \A id \in AppIds : store'[id] = IF id = i THEN new ELSE store[id]
  BY DEF DeleteApp, WebhooksInv, AdmissionInv
<1> HIDE DEF new
<1>4. AppSane(new, author[i])
  <2>1. AppSane(store[i], author[i])
    BY DEF WebhooksInv
  <2>2. Confined(new, author[i])
    BY <1>2 DEF Confined
  <2>3. new # None
    BY <1>2, AdmissionAssumption
  <2> QED
    BY <1>1, <2>1, <2>2, <2>3 DEF AppSane
<1> QED
  BY <1>3, <1>4 DEF WebhooksInv

\* Every step keeps the domains of the variables of Webhooks.
LEMMA DomainsStay ==
  ASSUME [WebhooksNext]_webhooksVars
  PROVE  /\ DOMAIN validation' = DOMAIN validation
         /\ DOMAIN actor' = DOMAIN actor
         /\ DOMAIN author' = DOMAIN author
<1>1. ASSUME NEW w \in Workers, Submitted(w) \/ Mutating(w) \/ TimeOutMutating(w)
                                \/ TimeOutValidating(w)
      PROVE  /\ UNCHANGED <<validation, author>>
             /\ DOMAIN actor' = DOMAIN actor
  BY <1>1 DEF Submitted, SubmittedBySomeone, Mutating, TimeOutMutating, TimeOutValidating
<1>2. ASSUME NEW w \in Workers, CallValidating(w) \/ Validating(w)
                                \/ ValidatingFails(w)
      PROVE  /\ UNCHANGED <<actor, author>>
             /\ DOMAIN validation' = DOMAIN validation
  BY <1>2 DEF CallValidating, Validating, ValidatingFails,
     V!Receive, V!ValidateApp, V!ValidateAppFails
<1>3. ASSUME NEW w \in Workers, PersistValidated(w) \/ DiscardReviewed(w)
                                \/ RefuseReviewed(w) \/ CrashServing(w)
      PROVE  /\ Forget(w)
             /\ DOMAIN author' = DOMAIN author
  BY <1>3 DEF PersistValidated, DiscardReviewed, RefuseReviewed, CrashServing
<1>4. ASSUME NEW w \in Workers, Forget(w)
      PROVE  DOMAIN validation' = DOMAIN validation /\ DOMAIN actor' = DOMAIN actor
  BY <1>4 DEF Forget
<1>5. CASE UNCHANGED webhooksVars
  BY <1>5 DEF webhooksVars
<1>6. CASE WebhooksNext
  BY <1>1, <1>2, <1>3, <1>4, <1>6 DEF WebhooksNext, Reviewing, Faults
<1> QED
  BY <1>5, <1>6

LEMMA WebhooksNextInv == WebhooksInv /\ [WebhooksNext]_webhooksVars => WebhooksInv'
<1> SUFFICES ASSUME WebhooksInv, [WebhooksNext]_webhooksVars PROVE WebhooksInv'
  OBVIOUS
<1> DEFINE Requests2 == \A v \in Workers :
             /\ RequestSane(validation'[v], call'[v], review'[v].base, actor'[v])
             /\ actor'[v] \in Submitters \cup {Nobody}
           Apps2 == \A id \in AppIds : AppSane(store'[id], author'[id])
<1>1. AdmissionInv'
  BY WebhooksNextIsAny, AnyAdmissionStepInv DEF WebhooksInv, AdmissionInv, IInv, TypeOK
<1>2. ASSUME NEW w \in Workers, OneRequest(w)
      PROVE  Requests2
  BY <1>2 DEF OneRequest, WebhooksInv
<1>3. UNCHANGED <<store, author>> => Apps2
  BY DEF WebhooksInv
<1>4. UNCHANGED <<validation, call, review, actor>> => Requests2
  BY DEF WebhooksInv
<1>5. ASSUME NEW w \in Workers, Submitted(w) \/ Mutating(w)
      PROVE  Requests2 /\ Apps2
  BY <1>2, <1>3, <1>5, SubmittedSane, MutatingSane
<1>6. ASSUME NEW w \in Workers, CallValidating(w)
      PROVE  Requests2 /\ Apps2
  <2> DEFINE r == ValidatingReview(w)
  <2>1. /\ r.op = call[w].request.op /\ r.app = Stored(Mutated(call[w]))
        /\ r.old = review[w].base /\ r.user = actor[w]
    BY DEF ValidatingReview
  <2>2. /\ Defaulted(w)
        /\ V!Receive(w, r)
        /\ UNCHANGED <<call, review, actor, author>>
    BY <1>6 DEF CallValidating, vars
  <2> HIDE DEF r
  <2>3. OneRequest(w) /\ UNCHANGED <<store, author>>
    BY <2>1, <2>2, ReceivedSane
  <2> QED
    BY <1>2, <1>3, <2>3
<1>7. ASSUME NEW w \in Workers, Validating(w) \/ ValidatingFails(w)
      PROVE  Requests2 /\ Apps2
  <2>1. /\ V!ValidateApp(w) \/ V!ValidateAppFails(w)
        /\ UNCHANGED <<call, review, actor, author>>
    BY <1>7 DEF Validating, ValidatingFails, vars
  <2> QED
    BY <1>2, <1>3, <2>1, AnsweredSane
<1>8. ASSUME NEW w \in Workers, PersistValidated(w)
      PROVE  Requests2 /\ Apps2
  BY <1>2, <1>8, PersistedSane, ForgottenSane DEF PersistValidated, Persist
<1>9. ASSUME NEW w \in Workers, DiscardReviewed(w) \/ RefuseReviewed(w) \/ CrashServing(w)
      PROVE  Requests2 /\ Apps2
  <2>1. Close(w) /\ Forget(w) /\ UNCHANGED <<store, author>>
    BY <1>9 DEF DiscardReviewed, RefuseReviewed, CrashServing, Refuse, Crash, Disrupt
  <2> QED
    BY <1>2, <1>3, <2>1, ForgottenSane
<1>10. ASSUME NEW w \in Workers, TimeOutMutating(w) \/ TimeOutValidating(w)
       PROVE  Requests2 /\ Apps2
  <2>1. /\ StopWaiting(w)
        /\ UNCHANGED <<validation, actor, author>>
    BY <1>10, BoundedFaults DEF TimeOutMutating, TimeOut, TimeOutValidating, StopWaiting,
       Disrupt, WebhooksInv, AdmissionInv, IInv, TypeOK
  <2> QED
    BY <1>2, <1>3, <2>1, StoppedSane
<1>11. ASSUME NEW id \in AppIds, DeleteApp(id), UNCHANGED <<validation, actor, author>>
       PROVE  Requests2 /\ Apps2
  <2>1. UNCHANGED <<call, review>>
    BY <1>11 DEF DeleteApp, vars
  <2> QED
    BY <1>4, <1>11, <2>1, DeletedSane
<1>12. ASSUME \/ EnvironmentNext /\ UNCHANGED <<store, review, validation, actor, author>>
              \/ UNCHANGED webhooksVars
       PROVE  Requests2 /\ Apps2
  <2>1. UNCHANGED <<call, store, review, validation, actor, author>>
    BY <1>12 DEF EnvironmentNext, webhooksVars, admissionVars, vars
  <2> QED
    BY <1>3, <1>4, <2>1
<1> HIDE DEF Requests2, Apps2
<1>13. Requests2 /\ Apps2
  BY <1>5, <1>6, <1>7, <1>8, <1>9, <1>10, <1>11, <1>12 DEF WebhooksNext, Reviewing, Faults
<1> QED
  BY <1>1, <1>13, DomainsStay DEF WebhooksInv, Requests2, Apps2

LEMMA WebhooksInvHolds == WebhooksSpec => []WebhooksInv
BY WebhooksInitInv, WebhooksNextInv, PTL DEF WebhooksSpec

\* The validating webhook is busy only with requests the mutating one has
\* answered, and every stored App has the author who was told apart.
THEOREM WebhooksTypeCorrect == WebhooksSpec => []WebhooksTypeOK
<1>1. WebhooksInv => WebhooksTypeOK
  <2> SUFFICES ASSUME WebhooksInv PROVE WebhooksTypeOK
    OBVIOUS
  <2>1. ASSUME NEW w \in Workers, validation[w] # V!NotValidating
        PROVE  /\ call[w].pc = "answered"
               /\ validation[w].pc \in {"ValidateApp", "answered"}
               /\ validation[w].pc = "answered" <=> validation[w].outcome # "none"
    BY <2>1 DEF WebhooksInv, RequestSane, Judged, Follows, Allowed
  <2> QED
    BY <2>1 DEF WebhooksTypeOK, WebhooksInv, AppSane
<1> QED
  BY <1>1, WebhooksInvHolds, PTL

\* Events tell of admitted updates only: not of creations, not of Apps that are
\* being deleted, and not of changes the webhook itself refuses, whatever else
\* happens between its API calls (ValidateApp, validate_app.go).
THEOREM RefusedUpdatesAreSilentHolds == WebhooksSpec => []RefusedUpdatesAreSilent
<1>1. WebhooksInv => RefusedUpdatesAreSilent
  <2> SUFFICES ASSUME WebhooksInv, NEW w \in Workers,
                      validation[w].pc = "answered", validation[w].events # {}
               PROVE  /\ V!Admitted(validation[w])
                      /\ validation[w].request.op = "UPDATE"
                      /\ ~validation[w].request.app.deleting
    BY DEF RefusedUpdatesAreSilent
  <2>1. Judged(validation[w])
    BY DEF WebhooksInv, RequestSane, V!NotValidating
  <2>2. validation[w].outcome = "valid" /\ V!EmitEvents(validation[w].request) # {}
    BY <2>1 DEF Judged
  <2>3. validation[w].request.op = "UPDATE"
    BY <2>2 DEF V!EmitEvents
  <2> QED
    BY <2>1, <2>2, <2>3 DEF Judged, Skipped, V!Admitted
<1> QED
  BY <1>1, WebhooksInvHolds, PTL

\* An ordinary user cannot get an App with the unique version stored that
\* refers to a protected namespace or installs a reserved chart: the inspector
\* sees the App as it is stored, with what was defaulted, and no timeout,
\* crash, retry or other writer gets one past it (inspector.go:90).
THEOREM OrdinaryUsersConfinedHolds == WebhooksSpec => []OrdinaryUsersConfined
<1>1. WebhooksInv => OrdinaryUsersConfined
  <2> SUFFICES ASSUME WebhooksInv, NEW id \in AppIds,
                      Live(id),
                      VersionLabel(store[id]) = UniqueVersion,
                      ~IsWhitelistedActor(author[id]),
                      store[id].ns \notin FixedNamespaceBlacklist
               PROVE  LET app == store[id]
                      IN  /\ \A ref \in {app.config, app.configSecret, app.userConfig,
                                          app.userSecret, app.secret} \cup Entries(app) :
                                ~Protected(ref.ns)
                          /\ ~(app.specName \in AppBlacklist /\ app.catalog \in CatalogBlacklist)
    BY DEF OrdinaryUsersConfined
  <2>1. Inspect(store[id], author[id])
    BY DEF WebhooksInv, AppSane, Confined, Live
  <2>2. ~IsBlacklistedApp(store[id]) /\ ~HasBlacklistedReference(store[id])
    BY <2>1 DEF Inspect, IsPrivateApp
  <2> QED
    BY <2>2 DEF IsBlacklistedApp, HasBlacklistedReference, ReferencedNamespaces
<1> QED
  BY <1>1, WebhooksInvHolds, PTL

\* With the validating webhook in its place the stored Apps refer to ConfigMaps
\* that hold the values of their charts as well (ensureConfigMap,
\* mutate_app_psp_removal.go:210).
THEOREM ValidatedEntriesResolve ==
  ASSUME SharedNamesShareValues
  PROVE  WebhooksSpec => []StoredEntriesResolve
<1>1. WebhooksInit => Ensured /\ Resolved
  BY DEF WebhooksInit, AdmissionInit, Init, Ensured, Resolved
<1>2. WebhooksInv => AdmissionInv
  BY DEF WebhooksInv
<1>3. AdmissionInv /\ Ensured /\ [WebhooksNext]_webhooksVars => Ensured'
  BY WebhooksNextIsAny, AnyAdmissionStepEnsured DEF AdmissionInv, IInv, TypeOK
<1>4. AdmissionInv /\ Ensured /\ Resolved /\ [WebhooksNext]_webhooksVars => Resolved'
  BY WebhooksNextIsAny, AnyAdmissionStepResolved DEF AdmissionInv, IInv, TypeOK
<1> QED
  BY <1>1, <1>2, <1>3, <1>4, WebhooksInvHolds, ResolvedImplies, PTL DEF WebhooksSpec

-----------------------------------------------------------------------------
(* Events.                                                                 *)

\* An App changes by being stored or by being deleted.
LEMMA StoreChanges ==
  ASSUME WebhooksNext, store' # store
  PROVE  \/ \E w \in Workers : PersistValidated(w)
         \/ \E id \in AppIds : DeleteApp(id)
<1>1. ASSUME NEW w \in Workers, Submitted(w)
      PROVE  UNCHANGED store
  BY <1>1 DEF Submitted, Users, CreateApp, ReplaceApp, ResubmitApp, FinalizeApp,
     PssOperatorUpdate, Submit
<1>2. ASSUME NEW w \in Workers, Mutating(w) \/ CallValidating(w) \/ Validating(w)
                                \/ DiscardReviewed(w)
      PROVE  UNCHANGED store
  BY <1>2 DEF Mutating, Webhook, CallValidating, V!Receive, Validating, V!ValidateApp,
     DiscardReviewed
<1>3. ASSUME NEW w \in Workers, Faults(w)
      PROVE  UNCHANGED store
  BY <1>3 DEF Faults, RefuseReviewed, Refuse, TimeOutMutating, TimeOut, TimeOutValidating,
     CrashServing, Crash, ValidatingFails, Disrupt
<1> QED
  BY <1>1, <1>2, <1>3 DEF WebhooksNext, Reviewing

\* A request that ends with a change of the App it is about has stored it.
LEMMA ChangedByItsRequest ==
  ASSUME WebhooksInv, WebhooksNext, NEW w \in Workers, NEW id \in AppIds,
         validation[w].pc = "answered", call'[w] = Idle,
         review[w].id = id, store'[id] # store[id]
  PROVE  PersistValidated(w)
<1>1. call[w] # Idle
  BY DEF WebhooksInv, RequestSane, V!NotValidating
<1>2. ~ \E i \in AppIds : DeleteApp(i)
  BY <1>1 DEF DeleteApp, vars
<1>3. PICK v \in Workers : PersistValidated(v)
  BY <1>2, StoreChanges
<1>4. OthersStay(v)
  BY <1>3, CloseEnds DEF PersistValidated, Persist, WebhooksInv
<1> QED
  BY <1>1, <1>3, <1>4 DEF OthersStay

\* When an update of a validated App is stored, its events have told exactly
\* what has changed of the announced fields, and the values they were stored
\* with, defaulted ones included: the App is compared as it is stored with the
\* one it replaces (docs/events.md:5).
THEOREM StoredUpdatesAnnouncedHolds == WebhooksSpec => StoredUpdatesAnnounced
<1> DEFINE Told(w, id) ==
             /\ review[w].waiting
             /\ review[w].id = id
             /\ call'[w] = Idle
             /\ validation[w].pc = "answered" /\ validation[w].outcome # "skipped"
             /\ store[id] # None /\ store'[id] # None
             /\ store'[id] # store[id]
             => LET old == V!Announced(store[id])
                    new == V!Announced(store'[id])
                IN  validation[w].events =
                      {<<f, new[f]>> : f \in {g \in DOMAIN new : new[g] # old[g]}}
<1>1. WebhooksInv /\ [WebhooksNext]_webhooksVars =>
        [\A w \in Workers, id \in AppIds : Told(w, id)]_webhooksVars
  <2> SUFFICES ASSUME WebhooksInv, WebhooksNext, NEW w \in Workers, NEW id \in AppIds
               PROVE  Told(w, id)
    OBVIOUS
  <2> SUFFICES ASSUME review[w].id = id, call'[w] = Idle,
                      validation[w].pc = "answered", validation[w].outcome # "skipped",
                      store[id] # None, store'[id] # None, store'[id] # store[id]
               PROVE  LET old == V!Announced(store[id])
                          new == V!Announced(store'[id])
                      IN  validation[w].events =
                            {<<f, new[f]>> : f \in {g \in DOMAIN new : new[g] # old[g]}}
    OBVIOUS
  <2>1. /\ Persist(w) /\ V!Admitted(validation[w])
    BY ChangedByItsRequest DEF PersistValidated
  <2>2. /\ store[id] = review[w].base
        /\ store'[id] = Stored(Mutated(call[w]))
    BY <2>1, PersistStores DEF Persist, Storable, WebhooksInv
  <2>3. /\ Judged(validation[w])
        /\ Follows(validation[w], call[w], review[w].base, actor[w])
        /\ call[w] # Idle
        /\ call[w].request.op = "UPDATE" <=> review[w].base # None
    BY DEF WebhooksInv, RequestSane, V!NotValidating
  <2>4. validation[w].events = V!EmitEvents(validation[w].request)
    BY <2>1, <2>3 DEF V!Admitted, Judged
  <2>5. /\ validation[w].request.op = "UPDATE"
        /\ validation[w].request.app = store'[id]
        /\ validation[w].request.old = store[id]
    BY <2>2, <2>3 DEF Follows
  <2> QED
    BY <2>4, <2>5 DEF V!EmitEvents
<1> QED
  BY <1>1, WebhooksInvHolds, PTL DEF WebhooksSpec, StoredUpdatesAnnounced

\* A request the validating webhook is busy with.
LEMMA BusyRequest ==
  ASSUME WebhooksInv, NEW w \in Workers, validation[w].pc # "idle"
  PROVE  /\ Judged(validation[w])
         /\ Follows(validation[w], call[w], review[w].base, actor[w])
         /\ call[w] # Idle /\ Sound(call[w])
         /\ call[w].request \in Request /\ call[w].request.app \in App
<1>1. validation[w] # V!NotValidating
  BY DEF V!NotValidating
<1>2. /\ Judged(validation[w])
      /\ Follows(validation[w], call[w], review[w].base, actor[w])
      /\ call[w] # Idle
  BY <1>1 DEF WebhooksInv, RequestSane
<1> QED
  BY <1>2, ServedRequest DEF WebhooksInv, AdmissionInv

-----------------------------------------------------------------------------
(* Defaulting and the inspector.                                           *)

\* What defaulting may add to an App that the inspector looks at.
LEMMA InspectedFields ==
  ASSUME NEW c, Sound(c)
  PROVE  LET app == c.request.app
             new == Stored(Mutated(c))
         IN  /\ Unmutated(app, new)
             /\ \A e \in Entries(new) : e \in Entries(app) \/ e.ns = app.ns
<1> DEFINE app == c.request.app
           mid == Mutated(c)
           new == Stored(mid)
<1>1. app \in App /\ mid = Outcome(c) /\ mid \in App /\ Unmutated(app, mid)
  BY MutatedIsApp
<1>2. Unmutated(mid, new) /\ new.extraConfigs = mid.extraConfigs
  BY <1>1, StoredIsApp
<1>3. Unmutated(app, new)
  BY <1>1, <1>2 DEF Unmutated
<1>4. mid.extraConfigs \in {app.extraConfigs, DefaultedConfigs(app, c.psp)}
  <2>1. c.outcome = "full" => mid.extraConfigs = DefaultedConfigs(app, c.psp)
    BY <1>1, FullyDefaultedFields DEF Outcome
  <2>2. LabelledOnly(app, c.version).extraConfigs = app.extraConfigs
    BY <1>1, AppIsDocument DEF LabelledOnly, IsDocument, Fields
  <2> QED
    BY <1>1, <2>1, <2>2 DEF Outcome
<1>5. \A e \in Entries(new) : e \in Entries(app) \/ e.ns = app.ns
  BY <1>1, <1>2, <1>4, EntriesAdded DEF Entries
<1> QED
  BY <1>3, <1>5

\* An App the inspector refuses though it would have let pass what it was
\* defaulted from.
LEMMA RefusedForItsDefaults ==
  ASSUME NEW app, NEW new, NEW user, Unmutated(app, new),
         \A e \in Entries(new) : e \in Entries(app) \/ e.ns = app.ns,
         Inspect(app, user), ~Inspect(new, user)
  PROVE  \/ new.secret # app.secret /\ Protected(new.secret.ns)
         \/ Protected(app.ns)
         \/ new.catalog # app.catalog /\ IsBlacklistedApp(new)
<1>1. ~IsBlacklistedApp(app) /\ ~HasBlacklistedReference(app)
  BY DEF Inspect, IsPrivateApp, Unmutated
<1>2. CASE IsBlacklistedApp(new)
  BY <1>1, <1>2 DEF IsBlacklistedApp, Unmutated
<1>3. CASE HasBlacklistedReference(new)
  <2>1. PICK ns \in ReferencedNamespaces(new) : Protected(ns)
    BY <1>3 DEF HasBlacklistedReference
  <2>2. ns \notin ReferencedNamespaces(app)
    BY <1>1, <2>1 DEF HasBlacklistedReference
  <2>3. \/ ns \in {new.config.ns, new.configSecret.ns, new.userConfig.ns, new.userSecret.ns}
        \/ ns = new.secret.ns
        \/ \E e \in Entries(new) : ns = e.ns
    BY <2>1 DEF ReferencedNamespaces
  <2> QED
    BY <2>1, <2>2, <2>3 DEF ReferencedNamespaces, Unmutated
<1> QED
  BY <1>2, <1>3 DEF Inspect

\* Defaulting does not get an App rejected, but for the kubeconfig it was given,
\* for a namespace protected by a prefix or suffix it lives in itself, and for
\* a reserved catalog its release names: everything else the mutating webhook
\* adds refers to the App's own namespace (inspector.go:81 and :108).
THEOREM DefaultingPassesInspectionHolds == WebhooksSpec => []DefaultingPassesInspection
<1>1. WebhooksInv => DefaultingPassesInspection
  <2> SUFFICES ASSUME WebhooksInv, NEW w \in Workers,
                      validation[w].pc = "answered",
                      validation[w].outcome = "security violation",
                      Inspect(call[w].request.app, actor[w])
               PROVE  LET submitted == call[w].request.app
                          defaulted == validation[w].request.app
                      IN  \/ defaulted.secret # submitted.secret /\ Protected(defaulted.secret.ns)
                          \/ Protected(submitted.ns)
                          \/ defaulted.catalog # submitted.catalog /\ IsBlacklistedApp(defaulted)
    BY DEF DefaultingPassesInspection
  <2>1. /\ Judged(validation[w])
        /\ Follows(validation[w], call[w], review[w].base, actor[w])
        /\ Sound(call[w])
    BY BusyRequest
  <2>2. ~Inspect(validation[w].request.app, actor[w])
    BY <2>1 DEF Judged, Violates, Follows
  <2>3. /\ validation[w].request.app = Stored(Mutated(call[w]))
        /\ Sound(call[w])
    BY <2>1 DEF Follows
  <2> QED
    BY <2>2, <2>3, InspectedFields, RefusedForItsDefaults
<1> QED
  BY <1>1, WebhooksInvHolds, PTL

-----------------------------------------------------------------------------
(* Which Apps the two webhooks are for.                                    *)

\* The version label an App is stored with.
LEMMA VersionLabelStored ==
  ASSUME NEW c, Sound(c)
  PROVE  LET app == c.request.app
         IN  VersionLabel(Stored(Mutated(c))) =
               IF c.outcome \in {"labels", "full"} /\ TakesVersion(app, c.version)
               THEN c.version ELSE VersionLabel(app)
<1> DEFINE app == c.request.app
           named == NamedAndVersioned(app, c.version, app.labels)
           label == IF TakesVersion(app, c.version) THEN c.version ELSE VersionLabel(app)
<1>1. app \in App /\ Mutated(c) = Outcome(c) /\ Mutated(c) \in App
  BY MutatedIsApp
<1>2. VersionLabel(Stored(Mutated(c))) = VersionLabel(Mutated(c))
  BY <1>1, StoredIsApp DEF VersionLabel
<1>3. named["version"] = label
  BY DEF NamedAndVersioned, LabelKeys, VersionLabel
<1>4. VersionLabel(FullyDefaulted(app, c.version, c.psp, c.kubeNs, c.component)) = label
  <2>1. DefaultedLabels(app, c.version, c.psp)["version"] = named["version"]
    BY DEF DefaultedLabels, PspLabelled, LabelKeys
  <2> QED
    BY <1>1, <1>3, <2>1, FullyDefaultedFields DEF VersionLabel
<1>5. VersionLabel(LabelledOnly(app, c.version)) = label
  <2>1. CASE LabelPatches(app, c.version) = <<>>
    <3>1. ~TakesVersion(app, c.version)
      BY <2>1 DEF LabelPatches, TakesVersion
    <3> QED
      BY <2>1, <3>1 DEF LabelledOnly
  <2>2. CASE LabelPatches(app, c.version) # <<>>
    <3>1. LabelledOnly(app, c.version).labels = named
      BY <1>1, <2>2, AppIsDocument DEF LabelledOnly, IsDocument, Fields
    <3> QED
      BY <1>3, <3>1 DEF VersionLabel
  <2> QED
    BY <2>1, <2>2
<1> HIDE DEF named
<1> QED
  BY <1>1, <1>2, <1>4, <1>5 DEF Outcome

\* The label tells the validating webhook what the mutating one has done.
LEMMA LabelTellsMutation ==
  ASSUME NEW c, Sound(c), Allowed(c), NEW versions, Gated(c, versions),
         ~c.request.dryRun, ~c.request.app.deleting,
         versions[c.request.app.ns] # UniqueVersion
  PROVE  c.outcome = "full" <=> ~V!SkipsValidation(Stored(Mutated(c)))
<1> DEFINE app == c.request.app
           new == Stored(Mutated(c))
           label == VersionLabel(app)
<1>1. /\ IsManagedInOrg(new) <=> IsManagedInOrg(app)
      /\ VersionLabel(new) = IF /\ c.outcome \in {"labels", "full"}
                                /\ TakesVersion(app, c.version)
                             THEN c.version ELSE label
  BY VersionLabelStored, InspectedFields DEF Unmutated, IsManagedInOrg, InOrgNamespace
<1> HIDE DEF new
<1>2. V!SkipsValidation(new) <=>
        /\ ~IsManagedInOrg(app)
        /\ \/ VersionLabel(new) \notin DOMAIN Major
           \/ VersionLabel(new) # UniqueVersion /\ Major[VersionLabel(new)] < 3
  BY <1>1, CopiesAgree DEF V!SkipsValidation
<1>3. /\ UniqueVersion \in DOMAIN Major /\ None \notin DOMAIN Major
      /\ LegacyVersion # UniqueVersion /\ Major[LegacyVersion] = 1
      /\ \A v \in DOMAIN Major : Major[v] \in Nat
  BY NamesAssumption, VersionsAssumption
<1>4. ASSUME c.outcome \in {"labels", "full"}, ~IsManagedInOrg(app)
      PROVE  /\ VersionLabel(new) = c.version /\ c.version \in DOMAIN Major
             /\ c.version = UniqueVersion <=> label = UniqueVersion
  <2>1. Readable(c, versions)
    BY <1>4 DEF Gated, Passed
  <2>2. c.version \in DOMAIN Major
    BY <1>4, <2>1 DEF Readable, UnreadableVersion
  <2>3. CASE DefaultsVersion(app)
    <3>1. c.version # UniqueVersion /\ label # UniqueVersion
      BY <1>3, <2>1, <2>3 DEF Readable, DefaultsVersion
    <3>2. TakesVersion(app, c.version)
      BY <1>3, <2>2, <2>3 DEF DefaultsVersion, TakesVersion
    <3> QED
      BY <1>1, <1>4, <2>2, <3>1, <3>2
  <2>4. CASE ~DefaultsVersion(app)
    BY <1>1, <2>1, <2>2, <2>4 DEF Readable
  <2> QED
    BY <2>3, <2>4
<1>5. CASE c.outcome = "full"
  <2>1. ~LabelsOnly(app, c.version)
    BY <1>5 DEF Gated, Passed
  <2> QED
    BY <1>2, <1>3, <1>4, <1>5, <2>1 DEF LabelsOnly, new
<1>6. CASE c.outcome = "labels"
  <2>1. LabelsOnly(app, c.version)
    BY <1>6 DEF Gated
  <2> QED
    BY <1>2, <1>4, <1>6, <2>1 DEF LabelsOnly, new
<1>7. CASE c.outcome = "nothing"
  <2>1. Unversioned(app) /\ VersionLabel(new) = label
    BY <1>1, <1>7 DEF Gated
  <2> QED
    BY <1>2, <1>3, <1>7, <2>1 DEF Unversioned, DefaultsVersion, new
<1> QED
  BY <1>5, <1>6, <1>7 DEF Allowed

\* Both webhooks decide which Apps they are for, each by itself, and agree: an
\* App that is defaulted in full is validated in full, and no other is, though
\* the version of chart-operator may appear between the two decisions
\* (validate_app.go:131).  Not so for dry runs, which are not defaulted, and
\* for a chart-operator App with the unique version.
THEOREM GatesAgreeHolds == WebhooksSpec => []GatesAgree
<1>1. WebhooksInit => AllGated
  BY DEF WebhooksInit, AdmissionInit, Init, AllGated
<1>2. AdmissionInv /\ AllGated /\ [WebhooksNext]_webhooksVars => AllGated'
  BY WebhooksNextIsAny, AnyAdmissionStepIsAny, AnyStepGated DEF AdmissionInv, IInv, TypeOK
<1>3. WebhooksInv => AdmissionInv
  BY DEF WebhooksInv
<1>4. WebhooksInv /\ AllGated => GatesAgree
  <2> SUFFICES ASSUME WebhooksInv, AllGated, NEW w \in Workers,
                      validation[w].pc # "idle",
                      ~call[w].request.dryRun, ~call[w].request.app.deleting,
                      chartOperator[call[w].request.app.ns] # UniqueVersion
               PROVE  call[w].outcome = "full" <=> validation[w].outcome # "skipped"
    BY DEF GatesAgree
  <2>1. /\ Judged(validation[w])
        /\ Follows(validation[w], call[w], review[w].base, actor[w])
        /\ call[w] # Idle /\ Sound(call[w])
    BY BusyRequest
  <2>2. /\ Allowed(call[w])
        /\ validation[w].request.app = Stored(Mutated(call[w]))
    BY <2>1 DEF Follows
  <2>3. call[w].outcome = "full" <=> ~V!SkipsValidation(Stored(Mutated(call[w])))
    BY <2>1, <2>2, LabelTellsMutation DEF AllGated
  <2>4. ~Stored(Mutated(call[w])).deleting
    BY <2>1, InspectedFields DEF Unmutated
  <2> QED
    BY <2>1, <2>2, <2>3, <2>4 DEF Judged, Skipped
<1> QED
  BY <1>1, <1>2, <1>3, <1>4, WebhooksInvHolds, PTL DEF WebhooksSpec

-----------------------------------------------------------------------------
(* Stored Apps keep the psp-removal entry.                                 *)

\* An App that the gates let through whatever version chart-operator has.
AlwaysMutated(app) ==
  \/ IsManagedInOrg(app)
  \/ /\ VersionLabel(app) \in DOMAIN Major \ {LegacyVersion}
     /\ VersionLabel(app) = UniqueVersion \/ Major[VersionLabel(app)] >= 3

\* The manifests of an App differ in nothing that decides whether it gets the
\* entry, and none has the entry itself.  Without this an App may well lose it:
\* put back with a version below 3, or moved to another cluster.
SteadyManifests ==
  \A id \in AppIds : \A m, n \in Manifests[id] :
    /\ ~WithEntry(m)
    /\ AlwaysMutated(m)
    /\ ~OutsideWorkloadClusters(m)
    /\ ClusterLabel(m) = ClusterLabel(n)

Steady(id, app) ==
  /\ AlwaysMutated(app)
  /\ ~OutsideWorkloadClusters(app)
  /\ \E m \in Manifests[id] : ClusterLabel(app) = ClusterLabel(m)

\* An App has the entry only if its cluster has stopped serving PSPs.
Anchored(id, app, p, crs) ==
  /\ Steady(id, app)
  /\ WithEntry(app) => Stopped(p, crs, app)

\* A request that is to replace an App with the entry gives it the entry.
Settled(c, base) ==
  /\ base # None /\ WithEntry(base)
  /\ c.pc \in AfterEnsure \/ Fully(c)
  => c.psp # "none"

\* What is inductive: the stored Apps, those the webhook is called with and
\* those they are to replace are anchored.
EntriesAnchored ==
  /\ \A id \in AppIds : store[id] # None => Anchored(id, store[id], provider, clusters)
  /\ \A w \in Workers : call[w] # Idle =>
       /\ Anchored(review[w].id, call[w].request.app, provider, clusters)
       /\ review[w].base # None => Anchored(review[w].id, review[w].base, provider, clusters)
       /\ Settled(call[w], review[w].base)

\* Major versions are numbers, and no App without a version has one.
LEMMA MajorOfLabels ==
  ASSUME NEW app, AlwaysMutated(app)
  PROVE  /\ ~DefaultsVersion(app)
         /\ ~Unversioned(app)
         /\ ~LabelsOnly(app, VersionLabel(app))
<1>1. None \notin DOMAIN Major /\ \A v \in DOMAIN Major : Major[v] \in Nat
  BY NamesAssumption, VersionsAssumption
<1>2. CASE IsManagedInOrg(app)
  BY <1>2 DEF DefaultsVersion, Unversioned, LabelsOnly
<1>3. CASE /\ VersionLabel(app) \in DOMAIN Major \ {LegacyVersion}
           /\ VersionLabel(app) = UniqueVersion \/ Major[VersionLabel(app)] >= 3
  <2>1. ~DefaultsVersion(app)
    BY <1>1, <1>3 DEF DefaultsVersion
  <2>2. ~LabelsOnly(app, VersionLabel(app))
    BY <1>1, <1>3 DEF LabelsOnly
  <2> QED
    BY <1>3, <2>1, <2>2 DEF Unversioned
<1> QED
  BY <1>2, <1>3 DEF AlwaysMutated

\* No gate stops such an App from being mutated in full.
LEMMA AlwaysMutatedInFull ==
  ASSUME NEW c, NEW versions, Gated(c, versions), Allowed(c),
         AlwaysMutated(c.request.app), ~c.request.dryRun, ~c.request.app.deleting
  PROVE  Fully(c)
<1> DEFINE app == c.request.app
<1>1. /\ ~DefaultsVersion(app)
      /\ ~Unversioned(app)
      /\ ~LabelsOnly(app, VersionLabel(app))
  BY MajorOfLabels
<1>2. c.outcome # "nothing"
  BY <1>1 DEF Gated
<1>3. c.outcome # "labels"
  BY <1>1 DEF Gated, Readable
<1> QED
  BY <1>2, <1>3 DEF Allowed, Fully

\* Whatever is submitted for an App is for one cluster.
LEMMA SameCluster ==
  ASSUME SteadyManifests, NEW id \in AppIds, NEW app, NEW other, NEW p, NEW crs,
         Steady(id, app), Steady(id, other), Stopped(p, crs, other)
  PROVE  Stopped(p, crs, app)
<1>1. ClusterLabel(app) = ClusterLabel(other)
  BY DEF Steady, SteadyManifests
<1> QED
  BY <1>1 DEF Stopped

\* Defaulting an App, and updating its PSP label, leaves alone what decides.
LEMMA AnchoredByFields ==
  ASSUME NEW id, NEW app, NEW new, NEW p, NEW crs, Anchored(id, app, p, crs),
         new.ns = app.ns, new.inCluster = app.inCluster, new.specName = app.specName,
         ClusterLabel(new) = ClusterLabel(app),
         VersionLabel(new) = VersionLabel(app) \/ IsManagedInOrg(app),
         WithEntry(new) => WithEntry(app) \/ Stopped(p, crs, app)
  PROVE  Anchored(id, new, p, crs)
<1>1. IsManagedInOrg(new) <=> IsManagedInOrg(app)
  BY DEF IsManagedInOrg, InOrgNamespace
<1>2. AlwaysMutated(new)
  BY <1>1 DEF Anchored, Steady, AlwaysMutated
<1>3. ~OutsideWorkloadClusters(new)
  BY NamesAssumption DEF Anchored, Steady, OutsideWorkloadClusters, IsManagedInOrg,
     InOrgNamespace
<1>4. Stopped(p, crs, new) <=> Stopped(p, crs, app)
  BY DEF Stopped
<1> QED
  BY <1>2, <1>3, <1>4 DEF Anchored, Steady

\* What is anchored stays so: a cluster does not start to serve PSPs again.
LEMMA AnchoredStays ==
  ASSUME AdmissionInv, AnyAdmissionStep, NEW id \in AppIds, NEW app \in App,
         Anchored(id, app, provider, clusters)
  PROVE  Anchored(id, app, provider', clusters')
<1>1. AnyStep /\ IInv
  BY AnyAdmissionStepIsAny DEF AdmissionInv
<1>2. EnvironmentNext \/ UNCHANGED <<provider, clusters>>
  <2>1. ASSUME NEW w \in Workers, Serve(w) \/ Fail(w)
        PROVE  UNCHANGED <<provider, clusters>>
    BY <1>1, <2>1, WebhookTypes DEF environment
  <2> QED
    BY <1>1, <2>1 DEF AnyStep, Receive, Reads, Drop, Disturb, environment
<1>3. ClusterLabel(app) \in ClusterIds
  BY DEF Anchored, Steady, OutsideWorkloadClusters, App, AppLabels, ClusterLabel
<1>4. Stopped(provider, clusters, app) => Stopped(provider', clusters', app)
  BY <1>1, <1>2, <1>3, StoppedForGood DEF Stopped
<1> QED
  BY <1>4 DEF Anchored

\* The cluster label an App is stored with.
LEMMA ClusterLabelStored ==
  ASSUME NEW c, Sound(c), Fully(c)
  PROVE  ClusterLabel(Stored(Mutated(c))) = ClusterLabel(c.request.app)
<1> DEFINE app == c.request.app
           labels == DefaultedLabels(app, c.version, c.psp)
<1>1. app \in App /\ Mutated(c) = Outcome(c) /\ Mutated(c) \in App
  BY MutatedIsApp
<1>2. Mutated(c).labels = labels
  BY <1>1, FullyDefaultedFields DEF Outcome, Fully
<1>3. Stored(Mutated(c)).labels = labels
  BY <1>1, <1>2, StoredIsApp
<1>4. labels["cluster"] = app.labels["cluster"]
  BY DEF DefaultedLabels, PspLabelled, NamedAndVersioned, LabelKeys
<1> QED
  BY <1>3, <1>4 DEF ClusterLabel

\* An App is stored as it was submitted, in what decides about the entry, and
\* with the entry only if its request has found the cluster to have stopped.
LEMMA StoredIsAnchored ==
  ASSUME NEW id, NEW c, Sound(c), Fully(c), Cleared(c), NEW p, NEW crs,
         Anchored(id, c.request.app, p, crs),
         c.psp = "entry" => Stopped(p, crs, c.request.app)
  PROVE  Anchored(id, Stored(Mutated(c)), p, crs)
<1> DEFINE app == c.request.app
           new == Stored(Mutated(c))
<1>1. /\ new.ns = app.ns /\ new.inCluster = app.inCluster /\ new.specName = app.specName
      /\ ClusterLabel(new) = ClusterLabel(app)
  BY InspectedFields, ClusterLabelStored DEF Unmutated
<1>2. VersionLabel(new) = VersionLabel(app) \/ IsManagedInOrg(app)
  <2>1. ~DefaultsVersion(app)
    BY MajorOfLabels DEF Anchored, Steady
  <2>2. TakesVersion(app, c.version) => IsManagedInOrg(app)
    BY <2>1 DEF DefaultsVersion, TakesVersion
  <2> QED
    BY <2>2, VersionLabelStored
<1>3. WithEntry(new) => WithEntry(app) \/ Stopped(p, crs, app)
  <2>1. ASSUME WithEntry(new), ~WithEntry(app)
        PROVE  Stopped(p, crs, app)
    <3>1. c.psp # "none"
      BY <2>1, StoredEntry DEF Allowed, Fully
    <3>2. c.psp # "label"
      BY <2>1 DEF Cleared, WithEntry
    <3> QED
      BY <3>1, <3>2 DEF Sound, ActiveCall
  <2> QED
    BY <2>1
<1> HIDE DEF new
<1>4. Anchored(id, new, p, crs)
  BY <1>1, <1>2, <1>3, AnchoredByFields
<1> QED
  BY <1>4 DEF new

LEMMA SubmittedIsAnchored ==
  ASSUME SteadyManifests, AdmissionInv, NEW id \in AppIds, NEW op, NEW app,
         Submission(id, op, app),
         store[id] # None => Anchored(id, store[id], provider, clusters)
  PROVE  Anchored(id, app, provider, clusters)
<1>1. CASE app \in Manifests[id]
  BY <1>1 DEF SteadyManifests, Anchored, Steady
<1>2. CASE store[id] # None /\ app = store[id]
  BY <1>2
<1>3. CASE Live(id) /\ app = [store[id] EXCEPT !.labels["psp"] = "disabled"]
  <2>1. store[id] \in App /\ Anchored(id, store[id], provider, clusters)
    BY <1>3 DEF Live, AdmissionInv
  <2>2. /\ app.ns = store[id].ns /\ app.inCluster = store[id].inCluster
        /\ app.specName = store[id].specName
        /\ app.extraConfigs = store[id].extraConfigs
        /\ app.labels["cluster"] = store[id].labels["cluster"]
        /\ app.labels["version"] = store[id].labels["version"]
    BY <1>3, <2>1 DEF App, AppLabels, LabelKeys
  <2>3. WithEntry(app) <=> WithEntry(store[id])
    BY <2>2, EntryOfFields
  <2> QED
    BY <2>1, <2>2, <2>3, AnchoredByFields DEF ClusterLabel, VersionLabel
<1> QED
  BY <1>1, <1>2, <1>3 DEF Submission

\* The request that is to replace an App with the entry finds that the cluster
\* of its own App has stopped serving PSPs.
LEMMA NotLeftAlone ==
  ASSUME SteadyManifests, NEW id \in AppIds, NEW app, NEW base, NEW p, NEW crs,
         Anchored(id, app, p, crs), Anchored(id, base, p, crs), WithEntry(base)
  PROVE  ~LeftAlone(app, p, crs)
<1>1. Stopped(p, crs, app)
  BY SameCluster DEF Anchored
<1> QED
  BY <1>1 DEF LeftAlone, Anchored, Steady

\* So it gives it the entry, or leaves it as it has been told to.
LEMMA CallSettles ==
  ASSUME SteadyManifests, AdmissionInv, Justified, AllLearned,
         NEW w \in Workers, Webhook(w), NEW id \in AppIds, NEW base,
         Anchored(id, call[w].request.app, provider, clusters),
         base # None => Anchored(id, base, provider, clusters),
         Settled(call[w], base)
  PROVE  Settled(call'[w], base)
<1>0. /\ IInv
      /\ Serve(w) \/ Fail(w)
      /\ call \in [Workers -> {Idle} \cup ActiveCall]
      /\ call[w].pc \in ApiCalls /\ call[w] # Idle /\ Sound(call[w])
      /\ call'[w].request = call[w].request
  BY WebhookGoesOn, ServedRequest DEF AdmissionInv, Webhook, IInv, TypeOK
<1>1. CASE call[w].pc \in AfterEnsure
  <2>1. PICK c : /\ Step(w, c)
                 /\ c.psp = call[w].psp \/ call[w].pc \in {"GetChartOperatorApp", "ListClusters"}
    BY <1>0, DecidedOnce
  <2>2. call'[w].psp = call[w].psp
    BY <1>0, <1>1, <2>1 DEF Step, AfterEnsure
  <2> QED
    BY <1>1, <2>2 DEF Settled
<1>2. CASE call[w].pc \notin AfterEnsure
  <2>1. call[w].outcome = "none"
    BY <1>0 DEF IInv, TypeOK, ApiCalls
  <2>2. Decided(call[w], provider, clusters, userValues, faults)
    BY <1>2, <2>1, UndecidedYet DEF Admitted
  <2>3. PICK c : Step(w, c) /\ Decided(c, provider, clusters, userValues, faults')
    BY <1>0, <2>2, CallDecides
  <2>4. call'[w] = c
    BY <1>0, <2>3 DEF Step
  <2>5. c.psp = "none" /\ (c.pc \in AfterEnsure \/ Fully(c)) =>
          LeftAlone(call[w].request.app, provider, clusters)
    BY <1>0, <2>3, <2>4 DEF Decided
  <2>6. base # None /\ WithEntry(base) => ~LeftAlone(call[w].request.app, provider, clusters)
    BY NotLeftAlone
  <2> QED
    BY <2>4, <2>5, <2>6 DEF Settled
<1> QED
  BY <1>1, <1>2

\* The answer to a request that is stored is a full mutation.
LEMMA PersistsInFull ==
  ASSUME AdmissionInv, Justified, AllGated, EntriesAnchored,
         NEW w \in Workers, Persist(w), NEW id \in AppIds, store'[id] # None,
         store'[id] # store[id]
  PROVE  /\ review[w].id = id
         /\ store[id] = review[w].base
         /\ call[w] # Idle /\ Sound(call[w]) /\ Fully(call[w]) /\ Cleared(call[w])
         /\ call[w].psp = "entry" => Stopped(provider, clusters, call[w].request.app)
         /\ Anchored(id, call[w].request.app, provider, clusters)
         /\ Settled(call[w], review[w].base)
         /\ store'[id] = Stored(Mutated(call[w]))
<1>1. /\ Allowed(call[w]) /\ call[w] # Idle /\ Sound(call[w])
      /\ review[w].id = id /\ ~call[w].request.app.deleting
      /\ store'[id] = Stored(Mutated(call[w]))
  BY PersistStores
<1>2. ~call[w].request.dryRun /\ store[id] = review[w].base
  BY <1>1 DEF Persist, Storable
<1>3. /\ Anchored(id, call[w].request.app, provider, clusters)
      /\ Settled(call[w], review[w].base)
  BY <1>1 DEF EntriesAnchored
<1>4. Gated(call[w], chartOperator)
  BY <1>1 DEF AllGated
<1>5. Fully(call[w])
  BY <1>1, <1>2, <1>3, <1>4, AlwaysMutatedInFull DEF Anchored, Steady
<1> QED
  BY <1>1, <1>2, <1>3, <1>5 DEF Justified

\* Every step preserves EntriesAnchored.
LEMMA AnyAdmissionStepAnchored ==
  ASSUME SteadyManifests, AdmissionInv, Justified, AllLearned, AllGated,
         EntriesAnchored, AnyAdmissionStep
  PROVE  EntriesAnchored'
<1> DEFINE StoreAnchored == \A id \in AppIds :
             store'[id] # None => Anchored(id, store'[id], provider', clusters')
           CallAnchored(v) == call'[v] # Idle =>
             /\ Anchored(review'[v].id, call'[v].request.app, provider', clusters')
             /\ review'[v].base # None =>
                  Anchored(review'[v].id, review'[v].base, provider', clusters')
             /\ Settled(call'[v], review'[v].base)
           CallsAnchored == \A v \in Workers : CallAnchored(v)
<1> SUFFICES StoreAnchored /\ CallsAnchored
  BY DEF EntriesAnchored, Settled, Fully
<1>0. /\ IInv
      /\ store \in [AppIds -> App \cup {None}]
      /\ \A w \in Workers : call[w] # Idle =>
           /\ review[w] \in ActiveReview
           /\ review[w].id \in AppIds /\ review[w].base \in App \cup {None}
           /\ call[w].request.app \in App
  BY ServedRequest DEF AdmissionInv, ActiveReview
<1>1. \A id \in AppIds :
        store[id] # None => Anchored(id, store[id], provider', clusters')
  BY <1>0, AnchoredStays DEF EntriesAnchored
<1>2. \A w \in Workers : call[w] # Idle =>
        /\ Anchored(review[w].id, call[w].request.app, provider', clusters')
        /\ review[w].base # None =>
             Anchored(review[w].id, review[w].base, provider', clusters')
  <2> SUFFICES ASSUME NEW w \in Workers, call[w] # Idle
               PROVE  /\ Anchored(review[w].id, call[w].request.app, provider', clusters')
                      /\ review[w].base # None =>
                           Anchored(review[w].id, review[w].base, provider', clusters')
    OBVIOUS
  <2>1. /\ Anchored(review[w].id, call[w].request.app, provider, clusters)
        /\ review[w].base # None =>
             Anchored(review[w].id, review[w].base, provider, clusters)
    BY DEF EntriesAnchored
  <2> QED
    BY <1>0, <2>1, AnchoredStays
<1>3. UNCHANGED store => StoreAnchored
  BY <1>1
<1>4. \A v \in Workers :
        call'[v] = call[v] /\ review'[v] = review[v] => CallAnchored(v)
  BY <1>2 DEF EntriesAnchored
<1>5. ASSUME NEW w \in Workers, OthersStay(w), CallAnchored(w)
      PROVE  CallsAnchored
  BY <1>4, <1>5 DEF OthersStay
<1>6. ASSUME NEW w \in Workers, NEW id \in AppIds, NEW op \in Operations,
             SubmitAny(w, id, op)
      PROVE  StoreAnchored /\ CallsAnchored
  <2>1. /\ UNCHANGED <<store, provider, clusters>> /\ OthersStay(w)
        /\ review'[w].id = id /\ review'[w].base = store[id]
    BY <1>6, SubmitStarts DEF environment
  <2>2. PICK r \in Request : /\ Submission(id, op, r.app)
                             /\ call'[w] = Mutate(r) /\ call'[w].request = r
    BY <1>6, SubmitStarts
  <2>3. store[id] # None => Anchored(id, store[id], provider, clusters)
    BY DEF EntriesAnchored
  <2>4. Anchored(id, r.app, provider, clusters)
    BY <2>2, <2>3, SubmittedIsAnchored
  <2>5. Settled(call'[w], store[id])
    <3>1. Decided(Mutate(r), provider, clusters, userValues, faults)
      BY MutateDecided
    <3>2. store[id] # None /\ WithEntry(store[id]) => ~LeftAlone(r.app, provider, clusters)
      BY <2>3, <2>4, NotLeftAlone
    <3> QED
      BY <2>2, <3>1, <3>2 DEF Decided, Settled
  <2>6. CallAnchored(w)
    BY <2>1, <2>2, <2>3, <2>4, <2>5
  <2> QED
    BY <1>3, <1>5, <2>1, <2>6
<1>7. ASSUME NEW w \in Workers, Webhook(w)
      PROVE  StoreAnchored /\ CallsAnchored
  <2>1. /\ UNCHANGED <<store, review>> /\ OthersStay(w)
        /\ call[w] # Idle /\ call'[w].request = call[w].request
    BY <1>7, WebhookGoesOn
  <2>2. /\ Anchored(review[w].id, call[w].request.app, provider, clusters)
        /\ review[w].base # None =>
             Anchored(review[w].id, review[w].base, provider, clusters)
        /\ Settled(call[w], review[w].base)
    BY <2>1 DEF EntriesAnchored
  <2>3. Settled(call'[w], review[w].base)
    BY <1>0, <1>7, <2>1, <2>2, CallSettles
  <2>4. CallAnchored(w)
    BY <1>2, <2>1, <2>3
  <2> QED
    BY <1>3, <1>5, <2>1, <2>4
<1>8. ASSUME NEW w \in Workers, Close(w)
      PROVE  CallsAnchored
  BY <1>5, <1>8, CloseEnds
<1>9. ASSUME NEW w \in Workers, Persist(w)
      PROVE  StoreAnchored
  <2> SUFFICES ASSUME NEW id \in AppIds, store'[id] # None
               PROVE  Anchored(id, store'[id], provider', clusters')
    OBVIOUS
  <2>1. CASE store'[id] = store[id]
    BY <1>1, <2>1
  <2>2. CASE store'[id] # store[id]
    <3>1. /\ Sound(call[w]) /\ Fully(call[w]) /\ Cleared(call[w])
          /\ call[w].psp = "entry" => Stopped(provider, clusters, call[w].request.app)
          /\ Anchored(id, call[w].request.app, provider, clusters)
          /\ store'[id] = Stored(Mutated(call[w]))
      BY <1>9, <2>2, PersistsInFull
    <3>2. Anchored(id, store'[id], provider, clusters)
      BY <3>1, StoredIsAnchored
    <3>3. UNCHANGED <<provider, clusters>>
      BY <1>9 DEF Persist, Close, environment
    <3> QED
      BY <3>2, <3>3
  <2> QED
    BY <2>1, <2>2
<1>10. ASSUME NEW w \in Workers, StopWaiting(w)
       PROVE  StoreAnchored /\ CallsAnchored
  <2>1. /\ UNCHANGED <<call, store>> /\ OthersStay(w)
        /\ review'[w].id = review[w].id /\ review'[w].base = review[w].base
    BY <1>10, StopWaitingKeeps
  <2>2. CallAnchored(w)
    BY <1>2, <2>1 DEF EntriesAnchored
  <2> QED
    BY <1>3, <1>5, <2>1, <2>2
<1>11. ASSUME NEW id \in AppIds, DeleteApp(id)
       PROVE  StoreAnchored /\ CallsAnchored
  <2> DEFINE new == [store[id] EXCEPT !.deleting = TRUE]
  <2>1. store[id] \in App /\ store[id] # None
    BY <1>0, <1>11 DEF DeleteApp, Live
  <2>2. /\ new.ns = store[id].ns /\ new.inCluster = store[id].inCluster
        /\ new.specName = store[id].specName
        /\ new.extraConfigs = store[id].extraConfigs
        /\ new.labels = store[id].labels
    BY <2>1 DEF App
  <2>3. \A i \in AppIds : store'[i] = IF i = id THEN new ELSE store[i]
    BY <1>0, <1>11 DEF DeleteApp
  <2> HIDE DEF new
  <2>4. WithEntry(new) <=> WithEntry(store[id])
    BY <2>2, EntryOfFields
  <2>5. Anchored(id, new, provider', clusters')
    BY <1>1, <2>1, <2>2, <2>4, AnchoredByFields DEF ClusterLabel, VersionLabel
  <2>6. StoreAnchored
    BY <1>1, <2>3, <2>5
  <2>7. UNCHANGED <<call, review>>
    BY <1>11 DEF DeleteApp, vars
  <2> QED
    BY <1>4, <2>6, <2>7
<1>12. ASSUME DisturbOnly \/ (EnvironmentNext /\ UNCHANGED <<store, review>>)
       PROVE  StoreAnchored /\ CallsAnchored
  BY <1>3, <1>4, <1>12 DEF DisturbOnly, Disturb, EnvironmentNext
<1>13. ASSUME NEW w \in Workers, Persist(w) \/ GiveUp(w)
       PROVE  StoreAnchored /\ CallsAnchored
  BY <1>3, <1>8, <1>9, <1>13 DEF Persist, GiveUp
<1> HIDE DEF StoreAnchored, CallsAnchored
<1> QED
  BY <1>6, <1>7, <1>10, <1>11, <1>12, <1>13 DEF AnyAdmissionStep

\* What the theorems about stored entries rest on, together.
KeepingInv == AdmissionInv /\ Justified /\ AllLearned /\ AllGated /\ EntriesAnchored

LEMMA KeepingInvStep ==
  ASSUME SteadyManifests
  PROVE  KeepingInv /\ AnyAdmissionStep => KeepingInv'
<1> SUFFICES ASSUME KeepingInv, AnyAdmissionStep PROVE KeepingInv'
  OBVIOUS
<1>1. IInv /\ AnyStep
  BY AnyAdmissionStepIsAny DEF KeepingInv, AdmissionInv
<1>2. AdmissionInv' /\ EntriesAnchored'
  BY AnyAdmissionStepInv, AnyAdmissionStepAnchored DEF KeepingInv
<1>3. Justified' /\ AllLearned' /\ AllGated'
  BY <1>1, AnyStepJustified, AnyStepLearned, AnyStepGated DEF KeepingInv
<1> QED
  BY <1>2, <1>3 DEF KeepingInv

LEMMA KeepingInvInit == AdmissionInit => KeepingInv
<1> SUFFICES ASSUME AdmissionInit PROVE KeepingInv
  OBVIOUS
<1>1. AllLearned /\ AllGated /\ EntriesAnchored
  BY DEF AdmissionInit, Init, AllLearned, AllGated, EntriesAnchored
<1> QED
  BY <1>1, AdmissionInitInv, InitJustified DEF KeepingInv, AdmissionInit

\* A request that stores an App in the place of one with the entry gives it
\* the entry: as a new one, or because the App was submitted with it.
LEMMA EntryStaysStored ==
  ASSUME KeepingInv, NEW w \in Workers, Persist(w), NEW id \in AppIds,
         store[id] # None, WithEntry(store[id]), store'[id] # None
  PROVE  WithEntry(store'[id])
<1>1. CASE store'[id] = store[id]
  BY <1>1
<1>2. CASE store'[id] # store[id]
  <2> DEFINE c == call[w]
             app == c.request.app
             new == Stored(Mutated(c))
  <2>1. /\ store[id] = review[w].base
        /\ Sound(c) /\ Fully(c) /\ Cleared(c)
        /\ Settled(c, review[w].base)
        /\ store'[id] = new
    BY <1>2, PersistsInFull DEF KeepingInv
  <2>2. /\ app \in App /\ Mutated(c) = Outcome(c) /\ Mutated(c) \in App
        /\ Unmutated(app, new)
    BY <2>1, MutatedIsApp, InspectedFields
  <2>3. c.psp # "none"
    BY <2>1 DEF Settled
  <2>4. c.psp = "entry" \/ WithEntry(app)
    BY <2>1, <2>3 DEF Cleared, WithEntry, Sound, ActiveCall
  <2>5. new.extraConfigs = DefaultedConfigs(app, c.psp)
    BY <2>1, <2>2, FullyDefaultedFields, StoredIsApp DEF Outcome, Fully
  <2>6. PspEntry(app) \in ToSet(DefaultedConfigs(app, c.psp))
    BY <2>2, <2>4, EntriesDefaulted DEF WithEntry
  <2>7. PspEntry(new) = PspEntry(app)
    BY <2>2, EntryOfFields DEF Unmutated
  <2> HIDE DEF new
  <2> QED
    BY <2>1, <2>5, <2>6, <2>7 DEF WithEntry, Entries
<1> QED
  BY <1>1, <1>2

\* What a step makes of the stored Apps: one of them is stored or removed, or
\* all keep their place and what they rely on.
LEMMA StoreStep ==
  ASSUME AdmissionInv, AnyAdmissionStep
  PROVE  \/ \E w \in Workers : Persist(w)
         \/ \A id \in AppIds :
              /\ store'[id] = None <=> store[id] = None
              /\ store[id] # None => /\ ChartOfApp(store'[id]) = ChartOfApp(store[id])
                                     /\ WithEntry(store'[id]) <=> WithEntry(store[id])
<1> DEFINE AppsStay == \A id \in AppIds :
             /\ store'[id] = None <=> store[id] = None
             /\ store[id] # None => /\ ChartOfApp(store'[id]) = ChartOfApp(store[id])
                                    /\ WithEntry(store'[id]) <=> WithEntry(store[id])
<1>0. store \in [AppIds -> App \cup {None}]
  BY DEF AdmissionInv
<1>1. UNCHANGED store => AppsStay
  OBVIOUS
<1>2. ASSUME NEW id \in AppIds, DeleteApp(id)
      PROVE  AppsStay
  <2> DEFINE new == [store[id] EXCEPT !.deleting = TRUE]
  <2>1. store[id] \in App /\ store[id] # None
    BY <1>0, <1>2 DEF DeleteApp, Live
  <2>2. /\ new.ns = store[id].ns /\ new.specName = store[id].specName
        /\ new.extraConfigs = store[id].extraConfigs
        /\ new \in App
    BY <2>1 DEF App
  <2>3. \A i \in AppIds : store'[i] = IF i = id THEN new ELSE store[i]
    BY <1>0, <1>2 DEF DeleteApp
  <2> HIDE DEF new
  <2>4. /\ ChartOfApp(new) = ChartOfApp(store[id])
        /\ WithEntry(new) <=> WithEntry(store[id])
    BY <2>2, EntryOfFields
  <2>5. new # None
    BY <2>2, AdmissionAssumption
  <2> QED
    BY <2>1, <2>3, <2>4, <2>5
<1>3. ASSUME NEW w \in Workers,
             \/ \E id \in AppIds, op \in Operations : SubmitAny(w, id, op)
             \/ Webhook(w) \/ GiveUp(w) \/ StopWaiting(w)
      PROVE  UNCHANGED store
  BY <1>3 DEF SubmitAny, Submit, Webhook, GiveUp, StopWaiting
<1>4. ASSUME DisturbOnly \/ (EnvironmentNext /\ UNCHANGED <<store, review>>)
      PROVE  UNCHANGED store
  BY <1>4 DEF DisturbOnly
<1> HIDE DEF AppsStay
<1>5. AppsStay \/ \E w \in Workers : Persist(w)
  BY <1>1, <1>2, <1>3, <1>4 DEF AnyAdmissionStep
<1> QED
  BY <1>5 DEF AppsStay

\* What EntryKept says of one step.
LEMMA AnyAdmissionStepKeepsEntries ==
  ASSUME KeepingInv, AnyAdmissionStep, NEW id \in AppIds, HasEntry(id), store'[id] # None
  PROVE  HasEntry(id)'
<1>1. store[id] # None /\ WithEntry(store[id])
  BY DEF HasEntry, WithEntry
<1>2. WithEntry(store'[id])
  BY <1>1, StoreStep, EntryStaysStored DEF KeepingInv
<1> QED
  BY <1>2 DEF HasEntry, WithEntry, PspEntry, Entries

\* Once a stored App has the psp-removal entry no update takes it away, for any
\* number of Apps and of requests at the same time: not a manifest without it,
\* put back by Flux, nor a decision taken before the cluster stopped serving
\* PSPs and stored after it, nor a timeout or a crash
\* (mutate_app_psp_removal.go:111).  Of the manifests SteadyManifests is assumed.
THEOREM EntryKeptHolds ==
  ASSUME SteadyManifests
  PROVE  AdmissionSpec => EntryKept
<1>1. KeepingInv /\ [AdmissionNext]_admissionVars => KeepingInv'
  BY AdmissionNextIsAny, KeepingInvStep DEF KeepingInv, AdmissionInv, IInv, TypeOK
<1>2. KeepingInv /\ [AdmissionNext]_admissionVars =>
        [\A id \in AppIds : HasEntry(id) /\ store'[id] # None => HasEntry(id)']_admissionVars
  BY AdmissionNextIsAny, AnyAdmissionStepKeepsEntries
     DEF KeepingInv, AdmissionInv, IInv, TypeOK
<1> QED
  BY <1>1, <1>2, KeepingInvInit, PTL DEF AdmissionSpec, EntryKept

-----------------------------------------------------------------------------
(* The stored Apps implement ConfigMapContract.                            *)

\* The state of the contract, as StoredAppsKeepContract gives it.
StoredPresent == {id \in AppIds : store[id] # None}
StoredRelies == [id \in AppIds |->
                   IF HasEntry(id) THEN {<<store[id].ns, store[id].specName>>} ELSE {}]

\* The chart, one or none, that an App under an identifier relies on.
ReliesOn(app) == IF app # None /\ WithEntry(app) THEN {ChartOfApp(app)} ELSE {}

LEMMA StoredReliesOn == StoredRelies = [id \in AppIds |-> ReliesOn(store[id])]
BY DEF StoredRelies, ReliesOn, HasEntry, WithEntry, ChartOfApp

\* Storing or removing an App changes its own entry in that state, no other.
LEMMA PersistChangesOne ==
  ASSUME AdmissionInv, NEW w \in Workers, Persist(w)
  PROVE  /\ review[w].id \in AppIds
         /\ StoredRelies' = [StoredRelies EXCEPT ![review[w].id] = ReliesOn(store'[review[w].id])]
         /\ StoredPresent' = IF store'[review[w].id] = None
                             THEN StoredPresent \ {review[w].id}
                             ELSE StoredPresent \cup {review[w].id}
         /\ UNCHANGED ReadyCharts
<1> DEFINE i == review[w].id
<1>1. i \in AppIds /\ \A id \in AppIds : id # i => store'[id] = store[id]
  BY PersistStores
<1>2. StoredRelies' = [id \in AppIds |-> ReliesOn(store'[id])]
  BY DEF StoredRelies, ReliesOn, HasEntry, WithEntry, ChartOfApp, PspEntry, Entries
<1>3. StoredRelies' = [StoredRelies EXCEPT ![i] = ReliesOn(store'[i])]
  BY <1>1, <1>2, StoredReliesOn
<1>4. StoredPresent' = IF store'[i] = None THEN StoredPresent \ {i} ELSE StoredPresent \cup {i}
  BY <1>1 DEF StoredPresent
<1>5. UNCHANGED ReadyCharts
  BY DEF Persist, Close, ReadyCharts
<1> QED
  BY <1>1, <1>3, <1>4, <1>5

\* What the steps of the webhook and of those around it are in the contract.
\* An App that had the entry is not stored without it (EntryStaysStored), which
\* is why storing one without is a step the contract allows.
LEMMA StepKeepsContract ==
  ASSUME SharedNamesShareValues, SteadyManifests, KeepingInv, Ensured, Resolved,
         AnyAdmissionStep
  PROVE  \/ ReadyCharts \subseteq ReadyCharts' /\ UNCHANGED <<StoredPresent, StoredRelies>>
         \/ \E id \in AppIds :
              \/ /\ StoredRelies[id] = {}
                 /\ StoredPresent' = StoredPresent \cup {id}
                 /\ UNCHANGED <<ReadyCharts, StoredRelies>>
              \/ /\ ReadyCharts \subseteq ReadyCharts'
                 /\ StoredPresent' = StoredPresent \cup {id}
                 /\ \E chart \in ReadyCharts' :
                      StoredRelies' = [StoredRelies EXCEPT ![id] = {chart}]
              \/ /\ StoredPresent' = StoredPresent \ {id}
                 /\ StoredRelies' = [StoredRelies EXCEPT ![id] = {}]
                 /\ UNCHANGED ReadyCharts
<1>0. /\ AdmissionInv
      /\ ReadyCharts \subseteq ReadyCharts'
      /\ Resolved'
  BY AnyAdmissionStepIsAny, ValuesStayReady, AnyAdmissionStepResolved
     DEF KeepingInv, AdmissionInv
<1>1. ASSUME NEW w \in Workers, Persist(w)
      PROVE  \E id \in AppIds :
               \/ /\ StoredRelies[id] = {}
                  /\ StoredPresent' = StoredPresent \cup {id}
                  /\ UNCHANGED <<ReadyCharts, StoredRelies>>
               \/ /\ ReadyCharts \subseteq ReadyCharts'
                  /\ StoredPresent' = StoredPresent \cup {id}
                  /\ \E chart \in ReadyCharts' :
                       StoredRelies' = [StoredRelies EXCEPT ![id] = {chart}]
               \/ /\ StoredPresent' = StoredPresent \ {id}
                  /\ StoredRelies' = [StoredRelies EXCEPT ![id] = {}]
                  /\ UNCHANGED ReadyCharts
  <2> DEFINE i == review[w].id
             new == store'[i]
  <2>1. /\ i \in AppIds
        /\ StoredRelies' = [StoredRelies EXCEPT ![i] = ReliesOn(new)]
        /\ StoredPresent' = IF new = None THEN StoredPresent \ {i} ELSE StoredPresent \cup {i}
        /\ UNCHANGED ReadyCharts
    BY <1>0, <1>1, PersistChangesOne
  <2>2. StoredRelies = [id \in AppIds |-> ReliesOn(store[id])]
    BY StoredReliesOn
  <2>3. CASE new = None
    BY <2>1, <2>3 DEF ReliesOn
  <2>4. CASE new # None /\ WithEntry(new)
    <3>1. NeverSubmittedWithEntry(i)
      BY <2>1 DEF SteadyManifests, NeverSubmittedWithEntry
    <3>2. ChartOfApp(new) \in ReadyCharts'
      BY <1>0, <2>1, <2>4, <3>1
         DEF Resolved, WithEntry, ChartOfApp, PspEntry, Entries
    <3>3. ReliesOn(new) = {ChartOfApp(new)}
      BY <2>4 DEF ReliesOn
    <3> QED
      BY <1>0, <2>1, <2>4, <3>2, <3>3
  <2>5. CASE new # None /\ ~WithEntry(new)
    <3>1. ~(store[i] # None /\ WithEntry(store[i]))
      BY <1>1, <2>1, <2>5, EntryStaysStored
    <3>2. ReliesOn(new) = {} /\ StoredRelies[i] = {}
      BY <2>1, <2>2, <2>5, <3>1 DEF ReliesOn
    <3>3. UNCHANGED StoredRelies
      BY <2>1, <2>2, <3>2
    <3> QED
      BY <2>1, <2>5, <3>2, <3>3
  <2> QED
    BY <2>3, <2>4, <2>5
<1>2. ASSUME \A id \in AppIds :
               /\ store'[id] = None <=> store[id] = None
               /\ store[id] # None => /\ ChartOfApp(store'[id]) = ChartOfApp(store[id])
                                      /\ WithEntry(store'[id]) <=> WithEntry(store[id])
      PROVE  UNCHANGED <<StoredPresent, StoredRelies>>
  <2>1. UNCHANGED StoredPresent
    BY <1>2 DEF StoredPresent
  <2>2. StoredRelies' = [id \in AppIds |-> ReliesOn(store'[id])]
    BY DEF StoredRelies, ReliesOn, HasEntry, WithEntry, ChartOfApp, PspEntry, Entries
  <2>3. \A id \in AppIds : ReliesOn(store'[id]) = ReliesOn(store[id])
    BY <1>2 DEF ReliesOn
  <2> QED
    BY <2>1, <2>2, <2>3, StoredReliesOn
<1> QED
  BY <1>0, <1>1, <1>2, StoreStep

\* What the invariants and the contract make of a step of either composition.
LEMMA ContractStep ==
  ASSUME SharedNamesShareValues, SteadyManifests, KeepingInv, Ensured, Resolved,
         AnyAdmissionStep
  PROVE  /\ KeepingInv' /\ Ensured' /\ Resolved'
         /\ [Apps!Next]_<<ReadyCharts, StoredPresent, StoredRelies>>
<1>1. KeepingInv' /\ Ensured' /\ Resolved'
  BY KeepingInvStep, AnyAdmissionStepEnsured, AnyAdmissionStepResolved DEF KeepingInv
<1>2. [Apps!Next]_<<ReadyCharts, StoredPresent, StoredRelies>>
  BY StepKeepsContract DEF Apps!Next, Apps!Provide, Apps!Admit, Apps!Rely,
     Apps!Remove, StoredPresent, StoredRelies
<1> QED
  BY <1>1, <1>2

LEMMA ContractInit ==
  AdmissionInit => KeepingInv /\ Ensured /\ Resolved /\ Apps!Init
BY KeepingInvInit DEF AdmissionInit, Init, Ensured, Resolved, Apps!Init, HasEntry

\* When charts that share a ConfigMap share its values, and manifests are steady,
\* the webhook and the API server implement ConfigMapContract for the Apps that
\* are stored: no App is stored as relying on values that are not ready, none
\* stops relying on them but by being removed, and no values are taken back
\* (ensureConfigMap, and the Apps' side in mutate_app_psp_removal.go:111).
THEOREM StoredAppsKeepContractHolds ==
  ASSUME SharedNamesShareValues, SteadyManifests
  PROVE  AdmissionSpec => StoredAppsKeepContract
<1>1. KeepingInv /\ Ensured /\ Resolved /\ [AdmissionNext]_admissionVars =>
        /\ KeepingInv' /\ Ensured' /\ Resolved'
        /\ [Apps!Next]_<<ReadyCharts, StoredPresent, StoredRelies>>
  BY AdmissionNextIsAny, ContractStep DEF KeepingInv, AdmissionInv, IInv, TypeOK
<1> QED
  BY <1>1, ContractInit, PTL
     DEF AdmissionSpec, StoredAppsKeepContract, Apps!Spec, StoredPresent, StoredRelies

\* The validating webhook between the answer and the store takes nothing away
\* from that: the contract is kept and entries stay with both in their place.
THEOREM ValidatedAppsKeepContract ==
  ASSUME SharedNamesShareValues, SteadyManifests
  PROVE  WebhooksSpec => StoredAppsKeepContract /\ EntryKept
<1>1. WebhooksInit => AdmissionInit
  BY DEF WebhooksInit
<1>2. KeepingInv /\ Ensured /\ Resolved /\ [WebhooksNext]_webhooksVars =>
        /\ KeepingInv' /\ Ensured' /\ Resolved'
        /\ [Apps!Next]_<<ReadyCharts, StoredPresent, StoredRelies>>
  BY WebhooksNextIsAny, ContractStep DEF KeepingInv, AdmissionInv, IInv, TypeOK
<1>3. KeepingInv /\ [WebhooksNext]_webhooksVars =>
        [\A id \in AppIds : HasEntry(id) /\ store'[id] # None => HasEntry(id)']_admissionVars
  BY WebhooksNextIsAny, AnyAdmissionStepKeepsEntries
     DEF KeepingInv, AdmissionInv, IInv, TypeOK
<1> QED
  BY <1>1, <1>2, <1>3, ContractInit, PTL
     DEF WebhooksSpec, StoredAppsKeepContract, Apps!Spec, StoredPresent, StoredRelies, EntryKept

-----------------------------------------------------------------------------
(* Submitting a stored App again.                                          *)

\* The labels are what a mutation for version v makes of them.
Labelled(app, v) ==
  /\ ~NamesNothing(app)
  /\ TakesVersion(app, v) => VersionLabel(app) = v

\* PSP removal has nothing to add to an App it is not about, to one it has
\* added everything to, or while the cluster serves PSPs.
PspSettled(app, q) ==
  \/ OutsideWorkloadClusters(app)
  \/ WithEntry(app) /\ app.labels["psp"] = "disabled"
  \/ ~WithEntry(app) /\ ~Stopped(q.provider, q.clusters, app)

ReleaseFollowed(app, q) ==
  LET values == q.userValues[app.name]
      component == Releases[<<app.specName, values>>]
  IN  IsClusterApp(app) /\ values \in ReleaseNames =>
        app.version = component.version /\ app.catalog = component.catalog

\* An App a full mutation adds nothing to.
Complete(app, q) ==
  /\ ~LacksClusterValues(app)
  /\ PspSettled(app, q)
  /\ KeepsKubeConfig(app) \/ NoKubeConfig(app, q)
  /\ ReleaseFollowed(app, q)

\* An App the webhook has nothing to add to.
Finished(app, q) ==
  LET v == OwnVersion(app, q)
  IN  /\ app.annotations # "empty"
      /\ \/ UnreadableVersion(app, v)
         \/ /\ Labelled(app, v)
            /\ LabelsOnly(app, v) \/ Complete(app, q)

LEMMA NoEmptyAnnotations ==
  ASSUME NEW app \in App
  PROVE  /\ Stored(app).annotations # "empty"
         /\ Stored(app).version = app.version
         /\ app.annotations # "empty" => Stored(app) = app
BY NamesAssumption DEF Stored, App

\* The fields of an App stored after a full mutation.
LEMMA FullyStored ==
  ASSUME NEW c, Sound(c), Fully(c)
  PROVE  LET app == c.request.app
             new == Stored(Mutated(c))
         IN  /\ new.labels = DefaultedLabels(app, c.version, c.psp)
             /\ new.extraConfigs = DefaultedConfigs(app, c.psp)
             /\ new.secret = DefaultedSecret(app, c.kubeNs)
             /\ new.version = DefaultedVersion(app, c.component)
             /\ new.catalog = DefaultedCatalog(app, c.component)
<1> DEFINE app == c.request.app
           mid == Mutated(c)
<1>1. app \in App /\ mid \in App
  BY MutatedIsApp
<1>2. mid = FullyDefaulted(app, c.version, c.psp, c.kubeNs, c.component)
  BY MutatedIsApp DEF Outcome, Fully
<1>3. /\ mid.labels = DefaultedLabels(app, c.version, c.psp)
      /\ mid.extraConfigs = DefaultedConfigs(app, c.psp)
      /\ mid.secret = DefaultedSecret(app, c.kubeNs)
      /\ mid.version = DefaultedVersion(app, c.component)
      /\ mid.catalog = DefaultedCatalog(app, c.component)
  BY <1>1, <1>2, FullyDefaultedFields
<1> HIDE DEF mid
<1>4. /\ Stored(mid).labels = mid.labels
      /\ Stored(mid).extraConfigs = mid.extraConfigs
      /\ Stored(mid).secret = mid.secret
      /\ Stored(mid).version = mid.version
      /\ Stored(mid).catalog = mid.catalog
  BY <1>1, StoredIsApp, NoEmptyAnnotations
<1> QED
  BY <1>3, <1>4 DEF mid

\* The labels an App is stored with, but that of PSP removal.
LEMMA LabelsStored ==
  ASSUME NEW c, Sound(c), c.outcome \in {"labels", "full"}
  PROVE  LET app == c.request.app
             new == Stored(Mutated(c))
         IN  \A k \in LabelKeys \ {"psp"} :
               new.labels[k] = NamedAndVersioned(app, c.version, app.labels)[k]
<1> DEFINE app == c.request.app
           named == NamedAndVersioned(app, c.version, app.labels)
           new == Stored(Mutated(c))
<1>1. app \in App /\ Mutated(c) = Outcome(c) /\ Mutated(c) \in App
  BY MutatedIsApp
<1>2. CASE c.outcome = "full"
  <2>1. new.labels = PspLabelled(c.psp, named)
    BY <1>2, FullyStored DEF Fully, DefaultedLabels, Sound
  <2> QED
    BY <2>1 DEF PspLabelled
<1>3. CASE c.outcome = "labels"
  <2>1. new.labels = LabelledOnly(app, c.version).labels
    BY <1>1, <1>3, StoredIsApp DEF Outcome
  <2>2. IsDocument(app)
    BY <1>1, AppIsDocument
  <2>3. CASE LabelPatches(app, c.version) = <<>>
    <3>1. ~TakesVersion(app, c.version) /\ ~NamesNothing(app)
      BY <2>3 DEF LabelPatches, TakesVersion, NamesNothing
    <3>2. \A k \in LabelKeys : named[k] = app.labels[k]
      BY <3>1 DEF NamedAndVersioned
    <3> QED
      BY <2>1, <2>3, <3>2 DEF LabelledOnly
  <2>4. CASE LabelPatches(app, c.version) # <<>>
    BY <2>1, <2>2, <2>4 DEF LabelledOnly, IsDocument, Fields
  <2> QED
    BY <2>3, <2>4
<1> QED
  BY <1>2, <1>3

\* An App is mutated for the same version whenever it is submitted.
LEMMA OwnVersionStored ==
  ASSUME NEW c, Sound(c), Allowed(c), NEW q, Gated(c, q.chartOperator)
  PROVE  LET app == c.request.app
             new == Stored(Mutated(c))
         IN  /\ OwnVersion(new, q) = OwnVersion(app, q)
             /\ c.outcome \in {"labels", "full"} =>
                  /\ c.version = OwnVersion(app, q)
                  /\ ~UnreadableVersion(app, c.version)
<1> DEFINE app == c.request.app
           new == Stored(Mutated(c))
<1>1. /\ IsManagedInOrg(new) <=> IsManagedInOrg(app)
      /\ new.ns = app.ns
      /\ VersionLabel(new) = IF /\ c.outcome \in {"labels", "full"}
                                /\ TakesVersion(app, c.version)
                             THEN c.version ELSE VersionLabel(app)
  BY VersionLabelStored, InspectedFields DEF Unmutated, IsManagedInOrg, InOrgNamespace
<1> HIDE DEF new
<1>2. ASSUME c.outcome \in {"labels", "full"}
      PROVE  c.version = OwnVersion(app, q) /\ ~UnreadableVersion(app, c.version)
  BY <1>2 DEF Gated, Passed, Readable, OwnVersion
<1>3. OwnVersion(new, q) = OwnVersion(app, q)
  BY <1>1, <1>2 DEF OwnVersion, DefaultsVersion, TakesVersion
<1> QED
  BY <1>2, <1>3 DEF new

\* An App labelled for a version is labelled once and for all.
LEMMA StoredIsLabelled ==
  ASSUME NEW c, Sound(c), c.outcome \in {"labels", "full"}
  PROVE  Labelled(Stored(Mutated(c)), c.version)
<1> DEFINE app == c.request.app
           new == Stored(Mutated(c))
<1>1. app.specName # None
  BY RequestFields, NamesAssumption DEF Sound, ActiveCall
<1>2. \A k \in LabelKeys \ {"psp"} :
        new.labels[k] = NamedAndVersioned(app, c.version, app.labels)[k]
  BY LabelsStored
<1> HIDE DEF new
<1>3. ~NamesNothing(new)
  BY <1>1, <1>2 DEF NamesNothing, NamedAndVersioned, LabelKeys
<1>4. TakesVersion(new, c.version) => VersionLabel(new) = c.version
  BY <1>2 DEF TakesVersion, VersionLabel, NamedAndVersioned, LabelKeys
<1>5. Labelled(new, c.version)
  BY <1>3, <1>4 DEF Labelled
<1> QED
  BY <1>5 DEF new

\* Entries a full mutation keeps, and the one it adds for the cluster's values.
LEMMA ConfigsInclude ==
  ASSUME NEW app \in App, NEW psp
  PROVE  /\ Entries(app) \subseteq ToSet(DefaultedConfigs(app, psp))
         /\ LacksClusterValues(app) =>
              ClusterValuesEntry(app) \in ToSet(DefaultedConfigs(app, psp))
<1> DEFINE list == WithClusterValues(app)
           entry == PspEntry(app)
           own == ClusterValuesEntry(app)
<1>1. app.extraConfigs \in Seq(EntryOfApp)
  BY DEF App, EntryOfApp
<1>2. list \in Seq(EntryOfApp) /\ entry \in EntryOfApp /\ own \in EntryOfApp
  BY DefaultedConfigsAreConfigs
<1>3. /\ Entries(app) \subseteq ToSet(list)
      /\ LacksClusterValues(app) => own \in ToSet(list)
  BY <1>1, <1>2, ToSetOfAppend DEF WithClusterValues, Entries
<1>4. DefaultedConfigs(app, psp) = IF psp = "entry" THEN Append(list, entry) ELSE list
  BY DEF DefaultedConfigs
<1> HIDE DEF list, entry, own
<1>5. ToSet(list) \subseteq ToSet(DefaultedConfigs(app, psp))
  BY <1>2, <1>4, ToSetOfAppend
<1> QED
  BY <1>3, <1>5 DEF own

\* A full mutation leaves nothing undone: a second one would add nothing.
LEMMA StoredIsComplete ==
  ASSUME NEW c, Sound(c), Fully(c), NEW q, Learned(c, q.secrets, q.userValues),
         Cleared(c), LeftUndone(c, q)
  PROVE  Complete(Stored(Mutated(c)), q)
<1> DEFINE app == c.request.app
           new == Stored(Mutated(c))
<1>1. /\ app \in App /\ c.psp \in {"none", "label", "entry"}
      /\ EntryWeighed(c, q) /\ KubeConfigSought(c, q)
      /\ c.kubeNs \in Namespaces \cup {None}
  BY MutatedIsApp DEF LeftUndone, Sound, ActiveCall
<1>2. /\ new.ns = app.ns /\ new.name = app.name /\ new.specName = app.specName
      /\ new.inCluster = app.inCluster
      /\ new.config = app.config /\ new.userConfig = app.userConfig
  BY InspectedFields DEF Unmutated
<1>3. ClusterLabel(new) = ClusterLabel(app)
  BY ClusterLabelStored
<1>4. VersionLabel(new) = IF TakesVersion(app, c.version) THEN c.version ELSE VersionLabel(app)
  BY VersionLabelStored DEF Fully
<1>5. /\ new.labels = DefaultedLabels(app, c.version, c.psp)
      /\ new.extraConfigs = DefaultedConfigs(app, c.psp)
      /\ new.secret = DefaultedSecret(app, c.kubeNs)
      /\ new.version = DefaultedVersion(app, c.component)
      /\ new.catalog = DefaultedCatalog(app, c.component)
  BY FullyStored
<1> HIDE DEF new
<1>6. VersionLabel(app) = UniqueVersion => VersionLabel(new) = UniqueVersion
  BY <1>4, NamesAssumption, VersionsAssumption DEF TakesVersion
<1>7. /\ ClusterConfigMapName(new) = ClusterConfigMapName(app)
      /\ ClusterKubeConfigSecretName(new) = ClusterKubeConfigSecretName(app)
      /\ PspEntry(new) = PspEntry(app)
  BY <1>2, <1>3 DEF ClusterConfigMapName, ClusterKubeConfigSecretName, Owner,
                    InOrgNamespace, PspEntry
<1>8. ~LacksClusterValues(new)
  <2>1. /\ Entries(app) \subseteq Entries(new)
        /\ LacksClusterValues(app) => ClusterValuesEntry(app) \in Entries(new)
    BY <1>1, <1>5, ConfigsInclude DEF Entries
  <2>2. CASE LacksClusterValues(app)
    BY <1>2, <1>7, <2>1, <2>2
       DEF LacksClusterValues, ReferencesClusterValues, ClusterValuesEntry,
           ConfigMapEntry, Ref
  <2>3. CASE ReferencesClusterValues(app)
    BY <1>2, <1>7, <2>1, <2>3 DEF LacksClusterValues, ReferencesClusterValues
  <2>4. CASE VersionLabel(app) = UniqueVersion
    BY <1>6, <2>4 DEF LacksClusterValues
  <2> QED
    BY <2>2, <2>3, <2>4 DEF LacksClusterValues
<1>9. PspSettled(new, q)
  <2>1. WithEntry(new) <=> c.psp = "entry" \/ WithEntry(app)
    BY <1>1, <1>5, <1>7, EntriesDefaulted DEF WithEntry, Entries
  <2>2. c.psp # "none" => new.labels["psp"] = "disabled"
    BY <1>5 DEF DefaultedLabels, PspLabelled, LabelKeys
  <2>3. c.psp = "label" => WithEntry(app)
    BY DEF Cleared, WithEntry
  <2>4. OutsideWorkloadClusters(app) => OutsideWorkloadClusters(new)
    BY <1>2, <1>3, <1>6 DEF OutsideWorkloadClusters
  <2>5. Stopped(q.provider, q.clusters, new) <=> Stopped(q.provider, q.clusters, app)
    BY <1>3 DEF Stopped
  <2>6. CASE c.psp = "none"
    BY <1>1, <2>1, <2>4, <2>5, <2>6 DEF EntryWeighed, PspSettled, WithEntry
  <2>7. CASE c.psp # "none"
    BY <1>1, <2>1, <2>2, <2>3, <2>7 DEF PspSettled
  <2> QED
    BY <2>6, <2>7
<1>10. KeepsKubeConfig(new) \/ NoKubeConfig(new, q)
  <2>1. CASE c.kubeNs = None
    <3>1. KeepsKubeConfig(new) <=> KeepsKubeConfig(app)
      BY <1>2, <1>5, <2>1 DEF KeepsKubeConfig, DefaultedSecret
    <3>2. NoKubeConfig(app, q) => NoKubeConfig(new, q)
      BY <1>2, <1>7 DEF NoKubeConfig, HasKubeConfig
    <3> QED
      BY <1>1, <2>1, <3>1, <3>2 DEF KubeConfigSought
  <2>2. CASE c.kubeNs # None
    BY <1>5, <2>2 DEF KeepsKubeConfig, DefaultedSecret, Ref
  <2> QED
    BY <2>1, <2>2
<1>11. ReleaseFollowed(new, q)
  <2>1. CASE c.component = None
    <3>1. IsClusterApp(new) <=> IsClusterApp(app)
      BY <1>2, <1>5, <2>1 DEF IsClusterApp, DefaultedCatalog
    <3>2. IsClusterApp(app) => q.userValues[app.name] = "noRelease"
      BY <2>1 DEF Learned, ComponentLearned
    <3> QED
      BY <1>2, <3>1, <3>2, MutatorAssumption DEF ReleaseFollowed, NoReleaseNamed
  <2>2. CASE c.component # None
    <3>1. c.component = Releases[<<app.specName, q.userValues[app.name]>>]
      BY <2>2 DEF Learned, ComponentLearned
    <3>2. new.version = c.component.version /\ new.catalog = c.component.catalog
      BY <1>5, <2>2 DEF DefaultedVersion, DefaultedCatalog
    <3> QED
      BY <1>2, <3>1, <3>2 DEF ReleaseFollowed
  <2> QED
    BY <2>1, <2>2
<1>12. Complete(new, q)
  BY <1>8, <1>9, <1>10, <1>11 DEF Complete
<1> QED
  BY <1>12 DEF new

\* What the webhook has admitted it has nothing to add to any more, but for a
\* version of chart-operator that is the unique one.
LEMMA StoredIsFinished ==
  ASSUME NEW c, Sound(c), Allowed(c), NEW q, Gated(c, q.chartOperator),
         Learned(c, q.secrets, q.userValues), Cleared(c), LeftUndone(c, q),
         ~c.request.dryRun, ~c.request.app.deleting,
         q.chartOperator[c.request.app.ns] # UniqueVersion
  PROVE  Finished(Stored(Mutated(c)), q)
<1> DEFINE app == c.request.app
           new == Stored(Mutated(c))
           v == OwnVersion(app, q)
<1>1. new.annotations # "empty"
  BY MutatedIsApp, NoEmptyAnnotations
<1>2. /\ OwnVersion(new, q) = v
      /\ c.outcome \in {"labels", "full"} => c.version = v /\ ~UnreadableVersion(app, v)
  BY OwnVersionStored
<1>3. /\ IsManagedInOrg(new) <=> IsManagedInOrg(app)
      /\ VersionLabel(new) = IF /\ c.outcome \in {"labels", "full"}
                                /\ TakesVersion(app, c.version)
                             THEN c.version ELSE VersionLabel(app)
  BY VersionLabelStored, InspectedFields DEF Unmutated, IsManagedInOrg, InOrgNamespace
<1>4. c.outcome \in {"labels", "full"} => Labelled(new, c.version)
  BY StoredIsLabelled
<1>5. c.outcome = "full" => Complete(new, q)
  BY StoredIsComplete DEF Fully, Allowed
<1>6. v = IF DefaultsVersion(app) THEN q.chartOperator[app.ns] ELSE VersionLabel(app)
  BY DEF OwnVersion
<1> HIDE DEF new, v
<1>7. CASE c.outcome = "nothing"
  <2>1. UnreadableVersion(app, v)
    BY <1>7 DEF LeftUndone, v
  <2>2. UnreadableVersion(new, v)
    BY <1>3, <2>1 DEF UnreadableVersion
  <2> QED
    BY <1>1, <1>2, <2>2 DEF Finished, new
<1>8. CASE c.outcome = "labels"
  <2>1. LabelsOnly(app, v)
    BY <1>2, <1>8 DEF Gated
  <2>2. v # UniqueVersion
    BY <1>6, <2>1 DEF LabelsOnly
  <2>3. LabelsOnly(new, v)
    BY <1>2, <1>3, <1>8, <2>1, <2>2 DEF LabelsOnly
  <2> QED
    BY <1>1, <1>2, <1>4, <1>8, <2>3 DEF Finished, new
<1>9. CASE c.outcome = "full"
  BY <1>1, <1>2, <1>4, <1>5, <1>9 DEF Finished, new
<1> QED
  BY <1>7, <1>8, <1>9 DEF Allowed

\* An App the webhook has nothing to add to is stored again as it is.
LEMMA FinishedStays ==
  ASSUME NEW c, Sound(c), Allowed(c), NEW q, Gated(c, q.chartOperator),
         Learned(c, q.secrets, q.userValues), Cleared(c), LeftUndone(c, q),
         c.psp = "entry" => Stopped(q.provider, q.clusters, c.request.app),
         Finished(c.request.app, q)
  PROVE  Stored(Mutated(c)) = c.request.app
<1> DEFINE app == c.request.app
           v == c.version
<1>1. /\ app \in App /\ Mutated(c) = Outcome(c)
      /\ app.annotations # "empty" /\ IsDocument(app)
      /\ c.psp \in {"none", "label", "entry"} /\ c.kubeNs \in Namespaces \cup {None}
  BY MutatedIsApp, AppIsDocument DEF Finished, Sound, ActiveCall
<1>2. ASSUME c.outcome \in {"labels", "full"}
      PROVE  /\ v = OwnVersion(app, q) /\ ~UnreadableVersion(app, v)
             /\ NamedAndVersioned(app, v, app.labels) = app.labels
             /\ ~LabelsOnly(app, v) => Complete(app, q)
  <2>1. v = OwnVersion(app, q) /\ ~UnreadableVersion(app, v)
    BY <1>2, OwnVersionStored
  <2>2. Labelled(app, v) /\ (~LabelsOnly(app, v) => Complete(app, q))
    BY <2>1 DEF Finished
  <2>3. NamedAndVersioned(app, v, app.labels) = app.labels
    BY <1>1, <2>2 DEF Labelled, NamedAndVersioned, IsDocument, VersionLabel
  <2> QED
    BY <2>1, <2>2, <2>3
<1>3. Stored(app) = app
  BY <1>1, NoEmptyAnnotations
<1>4. \A a \in {app.annotations, DefaultedAnnotations(app)} :
        Stored([app EXCEPT !.annotations = a]) = app
  <2>1. [app EXCEPT !.annotations = app.annotations] = app
    BY <1>1 DEF App
  <2>2. app.annotations \in {None, "user"}
    BY <1>1 DEF App
  <2>3. CASE app.annotations = "user"
    BY <1>3, <2>1, <2>3, NamesAssumption DEF DefaultedAnnotations
  <2>4. CASE app.annotations = None
    <3>1. DefaultedAnnotations(app) = "empty"
      BY <2>4 DEF DefaultedAnnotations
    <3>2. Stored([app EXCEPT !.annotations = "empty"]) = [app EXCEPT !.annotations = None]
      BY <1>1 DEF Stored, App
    <3> QED
      BY <1>3, <2>1, <2>4, <3>1, <3>2
  <2> QED
    BY <2>2, <2>3, <2>4
<1>5. CASE c.outcome = "nothing"
  BY <1>1, <1>3, <1>5 DEF Outcome
<1>6. CASE c.outcome = "labels"
  <2>1. LabelledOnly(app, v) \in {app, [app EXCEPT !.annotations = DefaultedAnnotations(app)]}
    BY <1>1, <1>2, <1>6 DEF LabelledOnly, App
  <2>2. Mutated(c) = LabelledOnly(app, v)
    BY <1>1, <1>6 DEF Outcome
  <2> QED
    BY <1>3, <1>4, <2>1, <2>2
<1>7. CASE c.outcome = "full"
  <2>1. ~LabelsOnly(app, v)
    BY <1>7 DEF Gated, Passed
  <2>2. Complete(app, q) /\ NamedAndVersioned(app, v, app.labels) = app.labels
    BY <1>2, <1>7, <2>1
  <2>3. Fully(c) /\ EntryWeighed(c, q)
    BY <1>7 DEF Allowed, Fully, LeftUndone
  <2>4. c.psp # "entry" /\ (c.psp = "label" => app.labels["psp"] = "disabled")
    BY <2>2, <2>3 DEF Complete, PspSettled, EntryWeighed, Cleared, WithEntry
  <2>5. DefaultedLabels(app, v, c.psp) = app.labels
    BY <1>1, <2>2, <2>4 DEF DefaultedLabels, PspLabelled, IsDocument
  <2>6. DefaultedConfigs(app, c.psp) = app.extraConfigs
    BY <2>2, <2>4 DEF Complete, DefaultedConfigs, WithClusterValues
  <2>7. c.kubeNs = None
    BY <1>1, <2>2 DEF Complete, Learned, KubeConfigLearned, NoKubeConfig
  <2>8. /\ DefaultedContext(app, c.kubeNs) = app.context
        /\ DefaultedSecret(app, c.kubeNs) = app.secret
    BY <2>7 DEF DefaultedContext, DefaultedSecret
  <2>9. /\ DefaultedVersion(app, c.component) = app.version
        /\ DefaultedCatalog(app, c.component) = app.catalog
    BY <2>2 DEF Complete, ReleaseFollowed, Learned, ComponentLearned,
                DefaultedVersion, DefaultedCatalog
  <2>10. Mutated(c) = FullyDefaulted(app, v, c.psp, c.kubeNs, c.component)
    BY <1>1, <1>7 DEF Outcome
  <2>11. Mutated(c) = [app EXCEPT !.annotations = DefaultedAnnotations(app)]
    BY <1>1, <2>5, <2>6, <2>8, <2>9, <2>10 DEF FullyDefaulted, App
  <2> QED
    BY <1>4, <2>11
<1> QED
  BY <1>5, <1>6, <1>7 DEF Allowed

\* Every stored App is one the webhook has nothing to add to.
AllFinished ==
  \A id \in AppIds :
    /\ store[id] # None
    /\ ~store[id].deleting
    /\ chartOperator[store[id].ns] # UniqueVersion
    => Finished(store[id], Surroundings)

FinishedInv ==
  AdmissionInv /\ Justified /\ AllLearned /\ AllGated /\ AllLeftUndone /\ AllFinished

\* The kubeconfig lookups are answered.
LookupsAnswered == \A w \in Workers : ~GetSecretFails(w)

LEMMA PersistFinishes ==
  ASSUME FinishedInv, NEW w \in Workers, Persist(w), NEW id \in AppIds,
         review[w].id = id, store'[id] # None,
         chartOperator[store'[id].ns] # UniqueVersion
  PROVE  Finished(store'[id], Surroundings)
<1> DEFINE new == Stored(Mutated(call[w]))
<1>1. /\ Allowed(call[w]) /\ call[w] # Idle /\ Sound(call[w])
      /\ ~call[w].request.app.deleting /\ ~call[w].request.dryRun
      /\ store'[id] = new
  BY PersistStores DEF FinishedInv, Persist, Storable
<1>2. new.ns = call[w].request.app.ns
  BY <1>1, InspectedFields DEF Unmutated
<1>3. /\ Gated(call[w], chartOperator) /\ Learned(call[w], secrets, userValues)
      /\ Cleared(call[w]) /\ LeftUndone(call[w], Surroundings)
  BY <1>1 DEF FinishedInv, AllGated, AllLearned, Justified, AllLeftUndone
<1>4. /\ Surroundings.chartOperator = chartOperator
      /\ Surroundings.secrets = secrets /\ Surroundings.userValues = userValues
  BY DEF Surroundings
<1> HIDE DEF new
<1>5. Finished(new, Surroundings)
  BY <1>1, <1>2, <1>3, <1>4, StoredIsFinished DEF new
<1> QED
  BY <1>1, <1>5

LEMMA InitFinished == ~EnvironmentMoves /\ AdmissionInit => FinishedInv
BY AdmissionInitInv, InitJustified
   DEF FinishedInv, AdmissionInit, Init, AllLearned, AllGated, AllLeftUndone, AllFinished

LEMMA StepFinished ==
  ASSUME ~EnvironmentMoves
  PROVE  FinishedInv /\ AnyAdmissionStep /\ LookupsAnswered => FinishedInv'
<1> SUFFICES ASSUME FinishedInv, AnyAdmissionStep, LookupsAnswered
             PROVE  FinishedInv'
  OBVIOUS
<1>1. AdmissionInv /\ IInv /\ AnyStep
  BY AnyAdmissionStepIsAny DEF FinishedInv, AdmissionInv
<1>2. AdmissionInv' /\ Justified' /\ AllLearned' /\ AllGated'
  BY <1>1, AnyAdmissionStepInv, AnyStepJustified, AnyStepLearned, AnyStepGated DEF FinishedInv
<1>3. AllLeftUndone' /\ UNCHANGED Surroundings
  BY <1>1, AnyStepUndone DEF FinishedInv, LookupsAnswered
<1>4. UNCHANGED chartOperator
  BY <1>3 DEF Surroundings
<1>5. ASSUME NEW id \in AppIds, store'[id] # None, ~store'[id].deleting,
             chartOperator[store'[id].ns] # UniqueVersion
      PROVE  Finished(store'[id], Surroundings)
  <2>1. CASE store'[id] = store[id]
    BY <1>5, <2>1 DEF FinishedInv, AllFinished
  <2>2. CASE store'[id] # store[id]
    <3>1. ASSUME NEW w \in Workers, Persist(w)
          PROVE  Finished(store'[id], Surroundings)
      <4>1. review[w].id = id
        BY <1>1, <2>2, <3>1, PersistStores
      <4> QED
        BY <1>5, <3>1, <4>1, PersistFinishes
    <3>2. ASSUME NEW i \in AppIds, DeleteApp(i)
          PROVE  FALSE
      <4>1. store' = [store EXCEPT ![i].deleting = TRUE]
        BY <3>2 DEF DeleteApp
      <4>2. i = id /\ store[id] \in App
        BY <1>1, <2>2, <3>2, <4>1 DEF AdmissionInv, DeleteApp, Live
      <4> QED
        BY <1>1, <1>5, <4>1, <4>2 DEF AdmissionInv, App
    <3>3. ~UNCHANGED store
      BY <2>2
    <3> QED
      BY <3>1, <3>2, <3>3
         DEF AnyAdmissionStep, SubmitAny, Submit, Webhook, GiveUp, StopWaiting, DisturbOnly
  <2> QED
    BY <2>1, <2>2
<1>6. AllFinished'
  BY <1>3, <1>4, <1>5 DEF AllFinished
<1> QED
  BY <1>2, <1>3, <1>6 DEF FinishedInv

\* The step that answers a resubmission.
LEMMA ResubmittedStays ==
  ASSUME FinishedInv, AnyAdmissionStep, NEW w \in Workers, NEW id \in AppIds,
         call[w].pc = "answered", review[w].id = id,
         store[id] # None, ~store[id].deleting,
         call[w].request.app = review[w].base,
         chartOperator[store[id].ns] # UniqueVersion, call'[w] = Idle
  PROVE  store'[id] = store[id]
<1>1. AdmissionInv /\ call[w] # Idle /\ Sound(call[w])
  BY AnsweredCall DEF FinishedInv
<1>2. ASSUME NEW v \in Workers, Persist(v)
      PROVE  store'[id] = store[id]
  <2>1. CASE v # w
    <3>1. call'[w] = call[w]
      BY <1>1, <1>2, <2>1, CloseEnds DEF Persist, OthersStay
    <3> QED
      BY <1>1, <3>1
  <2>2. CASE v = w
    <3>1. Allowed(call[w]) /\ store[id] = call[w].request.app
      BY <1>2, <2>2 DEF Persist, Storable
    <3>2. store'[id] = Stored(Mutated(call[w]))
      BY <1>1, <1>2, <2>2, <3>1, PersistStores
    <3>3. /\ Gated(call[w], chartOperator) /\ Learned(call[w], secrets, userValues)
          /\ Cleared(call[w]) /\ LeftUndone(call[w], Surroundings)
          /\ call[w].psp = "entry" => Stopped(provider, clusters, call[w].request.app)
      BY <1>1 DEF FinishedInv, AllGated, AllLearned, Justified, AllLeftUndone
    <3>4. Finished(call[w].request.app, Surroundings)
      BY <3>1 DEF FinishedInv, AllFinished
    <3>5. /\ Surroundings.provider = provider /\ Surroundings.clusters = clusters
          /\ Surroundings.chartOperator = chartOperator
          /\ Surroundings.secrets = secrets /\ Surroundings.userValues = userValues
      BY DEF Surroundings
    <3>6. Stored(Mutated(call[w])) = call[w].request.app
      BY <1>1, <3>1, <3>3, <3>4, <3>5, FinishedStays
    <3> QED
      BY <3>1, <3>2, <3>6
  <2> QED
    BY <2>1, <2>2
<1>3. ASSUME NEW i \in AppIds, DeleteApp(i)
      PROVE  FALSE
  BY <1>1, <1>3 DEF DeleteApp, vars
<1> QED
  BY <1>2, <1>3
     DEF AnyAdmissionStep, SubmitAny, Submit, Webhook, GiveUp, StopWaiting, DisturbOnly

\* What a step may not do to a stored App that is submitted as it is.
Resubmission ==
  \A w \in Workers, id \in AppIds :
    /\ call[w].pc = "answered"
    /\ review[w].waiting
    /\ review[w].id = id
    /\ store[id] # None
    /\ call[w].request.app = review[w].base
    /\ chartOperator[store[id].ns] # UniqueVersion
    /\ call'[w] = Idle
    /\ ~store[id].deleting
    => store'[id] = store[id]

LEMMA ResubmissionStep ==
  ASSUME ~EnvironmentMoves, FinishedInv, AnyAdmissionStep,
         LookupsAnswered \/ UNCHANGED vars
  PROVE  FinishedInv' /\ Resubmission
<1>1. LookupsAnswered
  <2>1. faults \in Nat
    BY DEF FinishedInv, AdmissionInv, IInv, TypeOK
  <2>2. UNCHANGED faults => LookupsAnswered
    BY <2>1 DEF LookupsAnswered, GetSecretFails, Fault
  <2> QED
    BY <2>2 DEF vars
<1>2. FinishedInv'
  BY <1>1, StepFinished
<1>3. Resubmission
  BY ResubmittedStays DEF Resubmission
<1> QED
  BY <1>2, <1>3

\* In a cluster no other controller is changing, submitting a stored App again
\* as it is changes nothing, whichever requests it runs with: the webhook has
\* finished with an App once it has been stored, and no controller that updates
\* Apps fights with it.  That takes the API server's answer to every lookup of
\* a kubeconfig: a lookup that fails passes for one that found none
\* (mutate_app.go:359), and the App gets the reference the next time.
THEOREM ResubmissionChangesNothingHolds ==
  ASSUME ~EnvironmentMoves
  PROVE  AdmissionSpec /\ [][LookupsAnswered]_admissionVars => ResubmissionChangesNothing
<1>1. AdmissionInit => FinishedInv
  BY InitFinished
<1>2. FinishedInv /\ [AdmissionNext]_admissionVars /\ [LookupsAnswered]_admissionVars
        => FinishedInv' /\ Resubmission
  BY AdmissionNextIsAny, ResubmissionStep
     DEF FinishedInv, AdmissionInv, IInv, TypeOK, admissionVars
<1>3. AdmissionSpec /\ [][LookupsAnswered]_admissionVars => [][Resubmission]_admissionVars
  BY <1>1, <1>2, PTL DEF AdmissionSpec
<1> QED
  BY <1>3 DEF ResubmissionChangesNothing, Resubmission

\* The same with the validating webhook between the answer and the store.
THEOREM ValidatedResubmissionChangesNothing ==
  ASSUME ~EnvironmentMoves
  PROVE  WebhooksSpec /\ [][LookupsAnswered]_webhooksVars => ResubmissionChangesNothing
<1>1. WebhooksInit => FinishedInv
  BY InitFinished DEF WebhooksInit
<1>2. FinishedInv /\ [WebhooksNext]_webhooksVars /\ [LookupsAnswered]_webhooksVars
        => FinishedInv' /\ Resubmission
  BY WebhooksNextIsAny, ResubmissionStep
     DEF FinishedInv, AdmissionInv, IInv, TypeOK, webhooksVars, admissionVars
<1>3. WebhooksSpec /\ [][LookupsAnswered]_webhooksVars => [][Resubmission]_admissionVars
  BY <1>1, <1>2, PTL DEF WebhooksSpec
<1> QED
  BY <1>3 DEF ResubmissionChangesNothing, Resubmission
=============================================================================
