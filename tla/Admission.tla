----------------------------- MODULE Admission -----------------------------
(***************************************************************************)
(* The mutating webhook in its place: the API server that calls it and     *)
(* stores Apps, and the users and controllers that submit them.  The API   *)
(* server and pss-operator are not part of this repository; they are       *)
(* modelled from what its code and its comments rely on.                   *)
(*                                                                         *)
(* The API server calls the webhook with a document made from the one it   *)
(* has stored, applies the patches of the answer, and stores the result    *)
(* only if the stored document is still the same (optimistic concurrency). *)
(* It gives up on a webhook that does not answer in time; the webhook is   *)
(* not told and goes on (mutate_app.go:79).                                *)
(***************************************************************************)
EXTENDS Mutator

CONSTANTS
  Manifests         \* identifier -> the documents users submit under it

AppIds == DOMAIN Manifests

ASSUME AdmissionAssumption ==
  /\ \A id \in AppIds : \A m \in Manifests[id] : m \in App /\ ~m.deleting
  /\ None \notin App      \* stands for "no App is stored" too

VARIABLES
  store,        \* the stored Apps, by identifier
  review        \* the API server's side of each request being served

admissionVars == <<vars, store, review>>

NoReview == [waiting |-> FALSE]

-----------------------------------------------------------------------------
(* Submitting an App.                                                      *)

Submit(w, id, op, dryRun, app) ==
  /\ Receive(w, [op |-> op, dryRun |-> dryRun, app |-> app])
  /\ review' = [review EXCEPT ![w] = [waiting |-> TRUE, id |-> id, base |-> store[id]]]
  /\ UNCHANGED store

Live(id) == store[id] # None /\ ~store[id].deleting

CreateApp(w, id, dryRun) ==
  /\ store[id] = None
  /\ \E m \in Manifests[id] : Submit(w, id, "CREATE", dryRun, m)

\* A user or Flux puts a manifest back, undoing what was defaulted.  An App
\* keeps its name and namespace.
ReplaceApp(w, id, dryRun) ==
  /\ Live(id)
  /\ \E m \in Manifests[id] :
       /\ m.name = store[id].name /\ m.ns = store[id].ns
       /\ Submit(w, id, "UPDATE", dryRun, m)

\* Some controller updates the App without changing what is modelled of it.
ResubmitApp(w, id) ==
  /\ Live(id)
  /\ Submit(w, id, "UPDATE", FALSE, store[id])

\* pss-operator triggers mutation of the Apps of a CAPI cluster that has
\* stopped serving PSPs by setting the label it looks for.
PssOperatorUpdate(w, id) ==
  /\ Live(id)
  /\ provider = "capi"
  /\ ClusterLabel(store[id]) # None
  /\ ServesNoPsps(provider, clusters[ClusterLabel(store[id])])
  /\ store[id].labels["psp"] # "disabled"
  /\ Submit(w, id, "UPDATE", FALSE, [store[id] EXCEPT !.labels["psp"] = "disabled"])

\* Deletion is not admitted by the webhook, the removal of the finalizer is.
DeleteApp(id) ==
  /\ Live(id)
  /\ store' = [store EXCEPT ![id].deleting = TRUE]
  /\ UNCHANGED <<vars, review>>

FinalizeApp(w, id) ==
  /\ store[id] # None /\ ~Live(id)
  /\ Submit(w, id, "UPDATE", FALSE, store[id])

-----------------------------------------------------------------------------
(* Handling the answer.                                                    *)

\* The API server drops empty metadata.
Stored(app) == IF app.annotations = "empty" THEN [app EXCEPT !.annotations = None] ELSE app

Close(w) ==
  /\ Step(w, Idle)
  /\ review' = [review EXCEPT ![w] = NoReview]
  /\ UNCHANGED <<provider, configMaps, environment>>

\* A mistake to rule out: whoever writes last wins.
StorableOverwriting(w) ==
  /\ Allowed(call[w])
  /\ review[w].waiting
  /\ ~call[w].request.dryRun
  /\ Applicable(call[w].request.app, Patches(call[w]))
Storable(w) ==
  /\ Allowed(call[w])
  /\ review[w].waiting
  /\ ~call[w].request.dryRun
  /\ store[review[w].id] = review[w].base
  /\ Applicable(call[w].request.app, Patches(call[w]))

Persist(w) ==
  /\ Storable(w)
  /\ store' = [store EXCEPT ![review[w].id] =
                 IF call[w].request.app.deleting THEN None ELSE Stored(Mutated(call[w]))]
  /\ Close(w)
  /\ UNCHANGED faults

\* Rejected, dry run, conflict, or an answer nobody waits for any more.
Discard(w) ==
  /\ call[w].pc = "answered"
  /\ ~Storable(w)
  /\ Close(w)
  /\ UNCHANGED <<store, faults>>

\* Timeouts, crashes and refusals are bounded together with API failures.
Disrupt ==
  /\ faults < MaxFaults
  /\ faults' = faults + 1
  /\ UNCHANGED store

\* The validating webhook, or another admission plugin, refuses the App.
Refuse(w) ==
  /\ Allowed(call[w])
  /\ Close(w)
  /\ Disrupt

TimeOut(w) ==
  /\ call[w].pc \in ApiCalls
  /\ review[w].waiting
  /\ review' = [review EXCEPT ![w].waiting = FALSE]
  /\ UNCHANGED <<provider, configMaps, environment, call>>
  /\ Disrupt

\* The pod serving the request dies; nothing it has written is undone.
Crash(w) ==
  /\ call[w].pc \in ApiCalls
  /\ Close(w)
  /\ Disrupt

-----------------------------------------------------------------------------
AdmissionInit ==
  /\ Init
  /\ store = [id \in AppIds |-> None]
  /\ review = [w \in Workers |-> NoReview]

Users(w) ==
  \E id \in AppIds :
    \/ \E dryRun \in BOOLEAN : CreateApp(w, id, dryRun) \/ ReplaceApp(w, id, dryRun)
    \/ ResubmitApp(w, id)
    \/ FinalizeApp(w, id)

PssOperator(id) == \E w \in Workers : PssOperatorUpdate(w, id)

Webhook(w) ==
  /\ Serve(w) \/ Fail(w)
  /\ UNCHANGED <<store, review>>

ApiServer(w) == Persist(w) \/ Discard(w)

AdmissionNext ==
  \/ \E w \in Workers : \/ Users(w)
                        \/ Webhook(w)
                        \/ ApiServer(w)
                        \/ Refuse(w)
                        \/ TimeOut(w)
                        \/ Crash(w)
  \/ \E id \in AppIds : PssOperator(id) \/ DeleteApp(id)
  \/ EnvironmentNext /\ UNCHANGED <<store, review>>

AdmissionSpec == AdmissionInit /\ [][AdmissionNext]_admissionVars

\* The webhook and the API server go on with what they have started;
\* pss-operator tries again until its update is stored.
FairAdmissionSpec ==
  /\ AdmissionSpec
  /\ \A w \in Workers : /\ WF_admissionVars(Webhook(w))
                        /\ WF_admissionVars(ApiServer(w))
  /\ \A id \in AppIds : SF_admissionVars(PssOperator(id))

-----------------------------------------------------------------------------
(* Properties.                                                             *)

AdmissionTypeOK ==
  /\ TypeOK
  /\ store \in [AppIds -> App \cup {None}]
  /\ review \in [Workers -> {NoReview} \cup [waiting : BOOLEAN, id : AppIds,
                                             base : App \cup {None}]]

HasEntry(id) == store[id] # None /\ PspEntry(store[id]) \in Entries(store[id])

\* Every stored App the webhook has given the psp-removal entry refers to a
\* ConfigMap that exists and holds the values of its chart: a missing one would
\* stop the App from being installed, a wrong one would install PSPs.
StoredEntriesResolve ==
  \A id \in AppIds :
    /\ HasEntry(id)
    /\ \A m \in Manifests[id] : PspEntry(m) \notin Entries(m)
    =>
      configMaps[<<store[id].ns, ExtraConfigName(store[id].specName)>>]
        = ExtraConfigValues(store[id].specName)

\* Once a stored App has the entry no update takes it away, though Flux and
\* users keep putting back manifests without it, and decisions taken before the
\* cluster stopped serving PSPs are still being stored after it.
EntryKept ==
  [][\A id \in AppIds : HasEntry(id) /\ store'[id] # None => HasEntry(id)']_admissionVars

\* Seen from the stored Apps the promise of ConfigMapContract is kept as well:
\* between the answer and the store lie conflicts, lost answers, crashes and
\* whatever other requests write.
Apps == INSTANCE ConfigMapContract WITH
  Dependents <- AppIds,
  ready <- ReadyCharts,
  present <- {id \in AppIds : store[id] # None},
  relies <- [id \in AppIds |->
               IF HasEntry(id) THEN {<<store[id].ns, store[id].specName>>} ELSE {}]
StoredAppsKeepContract == Apps!Spec

\* An App that was stored is not changed by submitting it again as it is, so no
\* controller that updates Apps fights with the webhook.  Stated for a cluster
\* no other controller is changing, and for a chart-operator App that does not
\* itself have the unique version (its value is copied to the App's label,
\* which turns off on the first admission what it turns on at the second).
\* Lookups of a kubeconfig must be answered: one that fails passes for one that
\* has found none, and the next admission adds the reference.
ResubmissionChangesNothing ==
  [][\A w \in Workers, id \in AppIds :
       /\ call[w].pc = "answered"
       /\ review[w].waiting
       /\ review[w].id = id
       /\ store[id] # None
       /\ call[w].request.app = review[w].base
       /\ chartOperator[store[id].ns] # UniqueVersion
       /\ call'[w] = Idle
       /\ ~store[id].deleting
       => store'[id] = store[id]]_admissionVars

\* A document the webhook mutates in full, given the version it will be given.
MutatedInFull(app) ==
  LET version == IF DefaultsVersion(app) THEN chartOperator[app.ns] ELSE VersionLabel(app)
  IN  /\ version # None \/ IsManagedInOrg(app)
      /\ ~UnreadableVersion(app, version)
      /\ ~LabelsOnly(app, version)
      /\ ~OutsideWorkloadClusters(app)

\* "pss-operator is responsible to trigger mutation of the App once Cluster CR
\* exists and has the psp label" (mutate_app_psp_removal.go:150): an App stored
\* without the entry, because its Cluster CR was read too early, gets it.
EntryAddedEventually ==
  \A id \in AppIds :
    /\ Live(id)
    /\ MutatedInFull(store[id])
    /\ ServesNoPsps(provider, clusters[ClusterLabel(store[id])])
    ~> ~Live(id) \/ HasEntry(id)
=============================================================================
