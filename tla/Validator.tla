----------------------------- MODULE Validator -----------------------------
(***************************************************************************)
(* The validating webhook (pkg/app/validate_app.go).  A request is decoded *)
(* and inspected without any API call; then the library giantswarm/app     *)
(* checks the App, reading Catalogs and other Apps; then events are        *)
(* emitted.  What the library checks is modelled from the tests of this    *)
(* repository.                                                             *)
(***************************************************************************)
EXTENDS Inspector

CONSTANTS
  Workers,              \* requests that may be served at the same time
  KnownCatalogs,        \* Catalog CRs
  SingletonOf           \* chart -> "cluster" or "namespace" when it may be
                        \* installed there only once, None otherwise

VARIABLES
  store,                \* the stored Apps, by identifier
  validation            \* the requests being served

NotValidating == [pc |-> "idle"]

Verdict(request, outcome) ==
  [pc |-> "answered", request |-> request, outcome |-> outcome, events |-> {}]

-----------------------------------------------------------------------------
(* The library giantswarm/app.                                             *)

\* Two Apps that install the same chart where it may be installed only once.
Collide(app, other) ==
  /\ <<app.ns, app.name>> # <<other.ns, other.name>>
  /\ <<app.specName, app.catalog>> = <<other.specName, other.catalog>>
  /\ Owner(app) = Owner(other)
  /\ \/ SingletonOf[app.specName] = "cluster"
     \/ SingletonOf[app.specName] = "namespace" /\ app.target = other.target

AppIsValid(app) ==
  /\ app.catalog \in KnownCatalogs
  /\ IsManagedInOrg(app) => ClusterLabel(app) # None
  /\ \A id \in DOMAIN store : store[id] # None => ~Collide(app, store[id])

UpdateIsValid(app, old) == app.target = old.target

-----------------------------------------------------------------------------
\* Apps of platform releases that know no admission controller.
SkipsValidation(app) ==
  /\ ~IsManagedInOrg(app)
  /\ \/ VersionLabel(app) \notin DOMAIN Major
     \/ VersionLabel(app) # UniqueVersion /\ Major[VersionLabel(app)] < 3

\* Mistakes to rule out: only creations are inspected; an App that is being
\* deleted is validated like any other.
ValidateInspectingCreations(request) ==
  LET app == request.app
  IN  IF \/ request.op = "UPDATE" /\ app.deleting
         \/ SkipsValidation(app)
      THEN Verdict(request, "skipped")
      ELSE IF /\ VersionLabel(app) = UniqueVersion
              /\ request.op = "CREATE"
              /\ ~Inspect(app, request.user)
      THEN Verdict(request, "security violation")
      ELSE [Verdict(request, "none") EXCEPT !.pc = "ValidateApp"]
ValidateDeleting(request) ==
  LET app == request.app
  IN  IF SkipsValidation(app) THEN Verdict(request, "skipped")
      ELSE IF VersionLabel(app) = UniqueVersion /\ ~Inspect(app, request.user)
      THEN Verdict(request, "security violation")
      ELSE [Verdict(request, "none") EXCEPT !.pc = "ValidateApp"]
\* Up to the call of the library.
Validate(request) ==
  LET app == request.app
  IN  IF \/ request.op = "UPDATE" /\ app.deleting
         \/ SkipsValidation(app)
      THEN Verdict(request, "skipped")
      ELSE IF VersionLabel(app) = UniqueVersion /\ ~Inspect(app, request.user)
      THEN Verdict(request, "security violation")
      ELSE [Verdict(request, "none") EXCEPT !.pc = "ValidateApp"]

\* What events compare, and the value they tell.
Announced(app) ==
  [appCatalog |-> app.catalog, version |-> app.version,
   appConfigMap |-> app.config, appSecret |-> app.configSecret,
   userConfigMap |-> app.userConfig, userSecret |-> app.userSecret]

\* Of an update: the fields that have changed.
EmitEvents(request) ==
  IF request.op # "UPDATE" THEN {}
  ELSE LET new == Announced(request.app)
           old == Announced(request.old)
       IN  {<<field, new[field]>> : field \in {f \in DOMAIN new : new[f] # old[f]}}

Receive(w, request) ==
  /\ validation[w].pc = "idle"
  /\ validation' = [validation EXCEPT ![w] = Validate(request)]
  /\ UNCHANGED store

\* A mistake to rule out: events are emitted before the update is checked.
ValidateAppAnnouncingFirst(w) ==
  LET request == validation[w].request
      answer(outcome) == [Verdict(request, outcome) EXCEPT !.events = EmitEvents(request)]
  IN  /\ validation[w].pc = "ValidateApp"
      /\ validation' = [validation EXCEPT ![w] =
           IF ~AppIsValid(request.app) THEN Verdict(request, "invalid app")
           ELSE IF request.op = "UPDATE" /\ ~UpdateIsValid(request.app, request.old)
                THEN answer("invalid update")
           ELSE answer("valid")]
      /\ UNCHANGED store
\* The old object, which the mutating webhook has decoded before, is looked at
\* once the App was found valid, and again for the events.
ValidateApp(w) ==
  LET request == validation[w].request
      answer(outcome) == Verdict(request, outcome)
  IN  /\ validation[w].pc = "ValidateApp"
      /\ validation' = [validation EXCEPT ![w] =
           IF ~AppIsValid(request.app) THEN answer("invalid app")
           ELSE IF request.op = "UPDATE" /\ ~UpdateIsValid(request.app, request.old)
                THEN answer("invalid update")
           ELSE [answer("valid") EXCEPT !.events = EmitEvents(request)]]
      /\ UNCHANGED store

\* A mistake to rule out: the error is logged and not returned.
ValidateAppFailsUnanswered(w) ==
  /\ validation[w].pc = "ValidateApp"
  /\ validation' = [validation EXCEPT ![w].outcome = "API error"]
  /\ UNCHANGED store
\* An error of one of the library's API calls rejects the App.
ValidateAppFails(w) ==
  /\ validation[w].pc = "ValidateApp"
  /\ validation' = [validation EXCEPT ![w] = Verdict(@.request, "API error")]
  /\ UNCHANGED store

\* The handler looks at the error first.
Admitted(v) == v.pc = "answered" /\ v.outcome \in {"skipped", "valid"}
=============================================================================
