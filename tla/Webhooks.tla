------------------------------ MODULE Webhooks ------------------------------
(***************************************************************************)
(* Both webhooks in their place.  The API server calls the mutating        *)
(* webhook, applies its patches, calls the validating webhook with the     *)
(* result, the stored App and the user, and stores the App if both allowed *)
(* it and it has not changed meanwhile.  This module puts Validator in the *)
(* place of one of the plugins that module Admission lets refuse an App.   *)
(***************************************************************************)
EXTENDS Admission, Inspector

CONSTANTS
  KnownCatalogs, SingletonOf,   \* as in module Validator
  Submitters                    \* the users that submit Apps

VARIABLES
  validation,   \* the validating webhook's side of each request
  actor,        \* the user of each request
  author        \* the user whose request stored what is stored

webhooksVars == <<admissionVars, validation, actor, author>>

V == INSTANCE Validator

Nobody == [name |-> None, groups |-> {}]

\* The request the validating webhook is called with.
ValidatingReview(w) ==
  [op |-> call[w].request.op, dryRun |-> call[w].request.dryRun,
   app |-> Stored(Mutated(call[w])), old |-> review[w].base,
   user |-> actor[w]]

\* The API server has the mutated App and still waits.
Defaulted(w) ==
  /\ Allowed(call[w])
  /\ review[w].waiting
  /\ Applicable(call[w].request.app, Patches(call[w]))

SubmittedBySomeone(w) ==
  /\ \E user \in Submitters : actor' = [actor EXCEPT ![w] = user]
  /\ UNCHANGED <<validation, author>>

Submitted(w) ==
  /\ Users(w) \/ \E id \in AppIds : PssOperatorUpdate(w, id)
  /\ SubmittedBySomeone(w)

Mutating(w) == Webhook(w) /\ UNCHANGED <<validation, actor, author>>

CallValidating(w) ==
  /\ Defaulted(w)
  /\ V!Receive(w, ValidatingReview(w))
  /\ UNCHANGED <<vars, review, actor, author>>

Validating(w) ==
  /\ V!ValidateApp(w)
  /\ UNCHANGED <<vars, review, actor, author>>

\* The request is over; what was written and announced stays.
Forget(w) ==
  /\ validation' = [validation EXCEPT ![w] = V!NotValidating]
  /\ actor' = [actor EXCEPT ![w] = Nobody]

PersistValidated(w) ==
  /\ V!Admitted(validation[w])
  /\ Persist(w)
  /\ author' = [author EXCEPT ![review[w].id] =
                  IF store'[review[w].id] = None THEN Nobody ELSE actor[w]]
  /\ Forget(w)

\* Rejected by a webhook, dry run, conflict, or nobody waits any more.
DiscardReviewed(w) ==
  /\ call[w].pc = "answered"
  /\ validation[w].pc = "answered" \/ (validation[w].pc = "idle" /\ ~Defaulted(w))
  /\ ~(Storable(w) /\ V!Admitted(validation[w]))
  /\ Close(w)
  /\ Forget(w)
  /\ UNCHANGED <<store, author, faults>>

-----------------------------------------------------------------------------
(* Faults, bounded together with those of Admission.                       *)

RefuseReviewed(w) ==
  /\ validation[w].pc # "ValidateApp"
  /\ Refuse(w)
  /\ Forget(w)
  /\ UNCHANGED author

TimeOutMutating(w) == TimeOut(w) /\ UNCHANGED <<validation, actor, author>>

\* The validating webhook goes on, and announces what is never stored.
TimeOutValidating(w) ==
  /\ validation[w].pc = "ValidateApp"
  /\ review[w].waiting
  /\ review' = [review EXCEPT ![w].waiting = FALSE]
  /\ UNCHANGED <<provider, configMaps, environment, call, validation, actor, author>>
  /\ Disrupt

CrashServing(w) ==
  /\ \/ Crash(w)
     \/ /\ validation[w].pc = "ValidateApp"
        /\ Close(w)
        /\ Disrupt
  /\ Forget(w)
  /\ UNCHANGED author

ValidatingFails(w) ==
  /\ V!ValidateAppFails(w)
  /\ UNCHANGED <<provider, configMaps, environment, call, review, actor, author>>
  /\ Disrupt

-----------------------------------------------------------------------------
WebhooksInit ==
  /\ AdmissionInit
  /\ validation = [w \in Workers |-> V!NotValidating]
  /\ actor = [w \in Workers |-> Nobody]
  /\ author = [id \in AppIds |-> Nobody]

Reviewing(w) == \/ Mutating(w)
                \/ CallValidating(w)
                \/ Validating(w)
                \/ PersistValidated(w)
                \/ DiscardReviewed(w)

Faults(w) == \/ RefuseReviewed(w)
             \/ TimeOutMutating(w)
             \/ TimeOutValidating(w)
             \/ CrashServing(w)
             \/ ValidatingFails(w)

WebhooksNext ==
  \/ \E w \in Workers : Submitted(w) \/ Reviewing(w) \/ Faults(w)
  \/ /\ \/ \E id \in AppIds : DeleteApp(id)
        \/ EnvironmentNext /\ UNCHANGED <<store, review>>
     /\ UNCHANGED <<validation, actor, author>>

WebhooksSpec == WebhooksInit /\ [][WebhooksNext]_webhooksVars

\* Whoever removes the finalizer of a deleted App tries again until it is gone.
Finalizing(id) == \E w \in Workers : FinalizeApp(w, id) /\ SubmittedBySomeone(w)

FairWebhooksSpec ==
  /\ WebhooksSpec
  /\ \A w \in Workers : WF_webhooksVars(Reviewing(w))
  /\ \A id \in AppIds : SF_webhooksVars(Finalizing(id))

-----------------------------------------------------------------------------
(* Properties.                                                             *)

\* The validating webhook's side has a request while it is busy, and an outcome
\* exactly when it has answered; only stored Apps have an author.
WebhooksTypeOK ==
  /\ \A w \in Workers :
       /\ actor[w] \in Submitters \cup {Nobody}
       /\ validation[w] # V!NotValidating =>
            /\ call[w].pc = "answered"
            /\ validation[w].pc \in {"ValidateApp", "answered"}
            /\ validation[w].pc = "answered" <=> validation[w].outcome # "none"
  /\ \A id \in AppIds : IF store[id] = None THEN author[id] = Nobody
                       ELSE author[id] \in Submitters

\* Whatever was defaulted and whoever else has written before, a stored App
\* with the unique version that an ordinary user wrote last, outside the
\* protected namespaces, refers to none of them at any level, and is not one of
\* the charts reserved for the management cluster (inspector.go:90).
OrdinaryUsersConfined ==
  \A id \in AppIds :
    LET app == store[id]
    IN  /\ Live(id)
        /\ VersionLabel(app) = UniqueVersion
        /\ ~IsWhitelistedActor(author[id])
        /\ app.ns \notin FixedNamespaceBlacklist
        => /\ \A ref \in {app.config, app.configSecret, app.userConfig,
                          app.userSecret, app.secret} \cup Entries(app) :
                ~Protected(ref.ns)
           /\ ~(app.specName \in AppBlacklist /\ app.catalog \in CatalogBlacklist)

\* Defaulting does not get an App rejected: if the inspector refuses a
\* defaulted App that it would have let pass as it was submitted, then for the
\* kubeconfig the App was given; or because the App itself lives in a namespace
\* the list protects by a prefix or suffix: references to it are refused
\* (inspector.go:81), but Apps in it are not private (inspector.go:108); or
\* because its release names a reserved catalog for a reserved cluster app.
DefaultingPassesInspection ==
  \A w \in Workers :
    LET submitted == call[w].request.app
        defaulted == validation[w].request.app
    IN  /\ validation[w].pc = "answered"
        /\ validation[w].outcome = "security violation"
        /\ Inspect(submitted, actor[w])
        => \/ defaulted.secret # submitted.secret /\ Protected(defaulted.secret.ns)
           \/ Protected(submitted.ns)
           \/ defaulted.catalog # submitted.catalog /\ IsBlacklistedApp(defaulted)

\* Both webhooks decide which Apps they are for, each by itself and the second
\* by the version label the first has written: an App that is defaulted in full
\* is validated in full, and no other is (validate_app.go:131).  Not so for dry
\* runs, which are not defaulted, and for a chart-operator App with the unique
\* version, which the mutating webhook takes for an old one.
GatesAgree ==
  \A w \in Workers :
    LET app == call[w].request.app
    IN  /\ validation[w].pc # "idle"
        /\ ~call[w].request.dryRun /\ ~app.deleting
        /\ chartOperator[app.ns] # UniqueVersion
        => (call[w].outcome = "full" <=> validation[w].outcome # "skipped")

\* When an update of a validated App is stored, its events have told exactly
\* what has changed of the announced fields and their stored values, defaulted
\* ones included (docs/events.md:5), though they were emitted before it was.
StoredUpdatesAnnounced ==
  [][\A w \in Workers, id \in AppIds :
       /\ review[w].waiting
       /\ review[w].id = id
       /\ call'[w] = Idle
       /\ validation[w].pc = "answered" /\ validation[w].outcome # "skipped"
       /\ store[id] # None /\ store'[id] # None
       /\ store'[id] # store[id]
       => LET old == V!Announced(store[id])
              new == V!Announced(store'[id])
          IN  validation[w].events =
                {<<f, new[f]>> : f \in {g \in DOMAIN new : new[g] # old[g]}}]_webhooksVars

\* Only an update that is admitted after full validation is announced, so no
\* event tells of a change the webhook itself refuses (docs/events.md:5).
RefusedUpdatesAreSilent ==
  \A w \in Workers :
    validation[w].pc = "answered" /\ validation[w].events # {} =>
      /\ V!Admitted(validation[w])
      /\ validation[w].request.op = "UPDATE"
      /\ ~validation[w].request.app.deleting

\* A deleted App goes, whether or not it would be admitted today, and whoever
\* removes its finalizer: namespaces can be deleted
\* (TestSkipValidationOnNamespaceDeletion).
DeletedAppsGo ==
  \A id \in AppIds : store[id] # None /\ ~Live(id) ~> store[id] = None

-----------------------------------------------------------------------------
(* What this repository says elsewhere, and the code does not do.          *)

\* "app `hello-world` can only be installed once in cluster `demo01`"
\* (validate_app_test.go:914).
SingletonInstalledOnce ==
  \A id, other \in AppIds :
    Live(id) /\ Live(other) => ~V!Collide(store[id], store[other])
=============================================================================
