--------------------------- MODULE DecisionProofs ---------------------------
(***************************************************************************)
(* Theorems about what the mutating webhook decides in a cluster that no   *)
(* other controller is changing: which Apps get the psp-removal entry, and *)
(* which are rejected.                                                     *)
(***************************************************************************)
EXTENDS AnswerProofs

\* PSP removal leaves an App alone only for one of these reasons.
LeftAlone(app, p, crs) == OutsideWorkloadClusters(app) \/ ~Stopped(p, crs, app)

\* What the cluster or the user values say against an App that is rejected, and
\* where a failed call is to blame.
Caused(c, p, crs, uv, f) ==
  LET app == c.request.app
      values == uv[app.name]
      component == Releases[<<app.specName, values>>]
  IN  /\ c.outcome = "unsupported provider" => p = "other"
      /\ c.outcome = "psp undecided" =>
           ~OutsideWorkloadClusters(app) /\ Undecidable(p, crs[ClusterLabel(app)])
      /\ c.outcome = "API error" => f > 0
      /\ c.outcome = "no user values" =>
           IsClusterApp(app) /\ (f > 0 \/ values = "missing")
      /\ c.outcome = "invalid user values" =>
           IsClusterApp(app) /\ values \in {"noGlobal", "badRelease"}
      /\ c.outcome \in {"no release", "no cluster app version"} =>
           /\ IsClusterApp(app)
           /\ values \in ReleaseNames
           /\ component = None \/ component.version = None

Decided(c, p, crs, uv, f) ==
  /\ c.psp = "none" /\ (c.pc \in AfterEnsure \/ Fully(c)) => LeftAlone(c.request.app, p, crs)
  /\ Caused(c, p, crs, uv, f)

AllDecided ==
  \A w \in Workers : call[w] # Idle =>
    Decided(call[w], provider, clusters, userValues, faults)

-----------------------------------------------------------------------------
(* The code between two API calls.                                         *)

\* Outcomes that no rejection stands for.
Admitted == {"none", "nothing", "labels", "full"}

LEMMA AdmittedUncaused ==
  ASSUME NEW c, NEW p, NEW crs, NEW uv, NEW f, c.outcome \in Admitted
  PROVE  Caused(c, p, crs, uv, f)
BY DEF Caused, Admitted

\* Past PSP removal, whatever comes next.
LEMMA PastEnsureDecided ==
  ASSUME NEW c, NEW d, NEW p, NEW crs, NEW uv, NEW f, Sound(d),
         d.pc \in AfterEnsure \/ (d.pc = "answered" /\ d.outcome = "full"),
         d.psp = c.psp, d.request = c.request,
         c.psp = "none" => LeftAlone(c.request.app, p, crs)
  PROVE  Decided(d, p, crs, uv, f)
<1>1. d.outcome \in Admitted
  BY DEF Sound, AfterEnsure, Admitted
<1>2. Caused(d, p, crs, uv, f)
  BY <1>1, AdmittedUncaused
<1> QED
  BY <1>2 DEF Decided

\* Before PSP removal has decided.
LEMMA UndecidedYet ==
  ASSUME NEW d, NEW p, NEW crs, NEW uv, NEW f, d.outcome \in Admitted \ {"full"},
         d.pc \notin AfterEnsure
  PROVE  Decided(d, p, crs, uv, f)
BY AdmittedUncaused DEF Decided, Fully

\* The request with an outcome, to say what its cause would be.
Concluded(c, o) == [c EXCEPT !.outcome = o]

LEMMA AnswerDecided ==
  ASSUME NEW c \in RunningCall, NEW o \in Outcomes \ {"none", "full"},
         NEW p, NEW crs, NEW uv, NEW f,
         Caused(Concluded(c, o), p, crs, uv, f)
  PROVE  Decided(Answer(c, o), p, crs, uv, f)
<1> DEFINE d == Answer(c, o)
           e == Concluded(c, o)
<1>1. d.pc = "answered" /\ d.outcome = o /\ d.request = c.request
  BY DEF Answer, RunningCall
<1>2. e.outcome = o /\ e.request = c.request
  BY DEF Concluded, RunningCall
<1> HIDE DEF d, e
<1>3. Caused(d, p, crs, uv, f)
  BY <1>1, <1>2 DEF Caused, e
<1>4. Decided(d, p, crs, uv, f)
  BY <1>1, <1>3 DEF Decided, Fully, AfterEnsure
<1> QED
  BY <1>4 DEF d

\* The outcome and the request of an answer to be.
LEMMA OutcomeGiven ==
  ASSUME NEW c \in RunningCall, NEW o
  PROVE  /\ Concluded(c, o).outcome = o
         /\ Concluded(c, o).request = c.request
BY DEF Concluded, RunningCall

LEMMA MutateConfigDecided ==
  ASSUME NEW c \in RunningCall, c.psp = "none", NEW uv, NEW f
  PROVE  Decided(MutateConfigForPSPRemoval(c), provider, clusters, uv, f)
<1>1. CASE provider = "other"
  <2>1. Caused(Concluded(c, "unsupported provider"), provider, clusters, uv, f)
    BY <1>1, OutcomeGiven DEF Caused
  <2>2. MutateConfigForPSPRemoval(c) = Answer(c, "unsupported provider")
    BY <1>1 DEF MutateConfigForPSPRemoval
  <2> QED
    BY <2>1, <2>2, AnswerDecided DEF Outcomes
<1>2. CASE provider # "other" /\ OutsideWorkloadClusters(c.request.app)
  <2>1. MutateConfigForPSPRemoval(c) = MutateKubeConfig(c)
    BY <1>2 DEF MutateConfigForPSPRemoval
  <2>2. LeftAlone(c.request.app, provider, clusters)
    BY <1>2 DEF LeftAlone
  <2> QED
    BY <2>1, <2>2, MutateKubeConfigSound, PastEnsureDecided
<1>3. CASE provider # "other" /\ ~OutsideWorkloadClusters(c.request.app)
  <2> DEFINE d == Await([c EXCEPT !.psp = "label"], "GetConfigMap")
             e == Await(c, "ListClusters")
  <2>1. /\ d.pc = "GetConfigMap" /\ d.outcome = "none"
        /\ e.pc = "ListClusters" /\ e.outcome = "none"
    BY DEF Await, RunningCall
  <2>2. MutateConfigForPSPRemoval(c) \in {d, e}
    BY <1>3 DEF MutateConfigForPSPRemoval
  <2> HIDE DEF d, e
  <2>3. /\ Decided(d, provider, clusters, uv, f)
        /\ Decided(e, provider, clusters, uv, f)
    BY <2>1, UndecidedYet DEF Admitted, AfterEnsure
  <2> QED
    BY <2>2, <2>3
<1> QED
  BY <1>1, <1>2, <1>3

LEMMA VersionKnownDecided ==
  ASSUME NEW c \in RunningCall, c.psp = "none", NEW v \in VersionLabels \cup {None},
         NEW uv, NEW f
  PROVE  Decided(VersionKnown(c, v), provider, clusters, uv, f)
<1> DEFINE e == [c EXCEPT !.version = v]
<1>1. e \in RunningCall /\ e.psp = "none"
  BY DEF RunningCall
<1>2. VersionKnown(c, v) \in {Answer(e, "nothing"), Answer(e, "labels"),
                              MutateConfigForPSPRemoval(e)}
  BY DEF VersionKnown
<1> HIDE DEF e
<1>3. ASSUME NEW o \in {"nothing", "labels"}
      PROVE  Decided(Answer(e, o), provider, clusters, uv, f)
  <2>1. Answer(e, o).pc = "answered" /\ Answer(e, o).outcome = o
    BY <1>1, AnswerSound DEF Outcomes
  <2> QED
    BY <2>1, UndecidedYet DEF Admitted, AfterEnsure
<1> QED
  BY <1>1, <1>2, <1>3, MutateConfigDecided

LEMMA MutateDecided ==
  ASSUME NEW r \in Request, NEW uv, NEW f
  PROVE  Decided(Mutate(r), provider, clusters, uv, f)
<1> DEFINE c == Received(r)
           d == Await(c, "GetChartOperatorApp")
<1>1. c \in RunningCall /\ c.psp = "none" /\ c.request = r
  BY DEF Received, RunningCall, MaxAttempts
<1>2. d.pc = "GetChartOperatorApp" /\ d.outcome = "none"
  BY DEF Await, Received
<1>3. Mutate(r) \in {Answer(c, "nothing"), d, VersionKnown(c, VersionLabel(r.app))}
  BY <1>1 DEF Mutate, MutateApplication
<1> HIDE DEF c, d
<1>4. Decided(d, provider, clusters, uv, f)
  BY <1>2, UndecidedYet DEF Admitted, AfterEnsure
<1>5. Decided(Answer(c, "nothing"), provider, clusters, uv, f)
  <2>1. Answer(c, "nothing").pc = "answered" /\ Answer(c, "nothing").outcome = "nothing"
    BY <1>1, AnswerSound DEF Outcomes
  <2> QED
    BY <2>1, UndecidedYet DEF Admitted, AfterEnsure
<1>6. Decided(VersionKnown(c, VersionLabel(r.app)), provider, clusters, uv, f)
  BY <1>1, RequestFields, VersionKnownDecided
<1> QED
  BY <1>3, <1>4, <1>5, <1>6

-----------------------------------------------------------------------------
(* The API calls.                                                          *)

\* Calls that fail are counted, others are not.
LEMMA FaultsCounted ==
  ASSUME IInv, NEW w \in Workers, Serve(w) \/ Fail(w)
  PROVE  /\ faults \in Nat /\ faults' \in Nat
         /\ Serve(w) => faults' = faults
         /\ Fail(w) => faults' = faults + 1
<1>1. faults \in Nat
  BY DEF IInv, TypeOK
<1>2. Serve(w) => faults' = faults
  BY DEF Serve, GetChartOperatorAppVersion, ListClusters, GetConfigMap, CreateConfigMap,
     UpdateConfigMap, GetSecret, ListSecrets, GetUserValues, GetRelease, Reads
<1>3. Fail(w) => faults' = faults + 1
  BY DEF Fail, CallFails, WriteAnswerLost, GetSecretFails, GetUserValuesFails, Fault
<1> QED
  BY <1>1, <1>2, <1>3

\* A cluster the code leaves alone is one that serves PSPs.
LEMMA UnenforcedIsServing ==
  ASSUME NEW cr \in ClusterCR \cup {None}, ~EnforcesPss(provider, cr)
  PROVE  ~ServesNoPsps(provider, cr)
BY ReleasesAssumption DEF EnforcesPss, ServesNoPsps, ClusterCR

\* An API call, answered or failed, leads to a decision with a cause.
LEMMA CallDecides ==
  ASSUME IInv, Justified, AllLearned, NEW w \in Workers, Serve(w) \/ Fail(w),
         Decided(call[w], provider, clusters, userValues, faults)
  PROVE  \E c : Step(w, c) /\ Decided(c, provider, clusters, userValues, faults')
<1> DEFINE Goal == \E c : Step(w, c) /\ Decided(c, provider, clusters, userValues, faults')
           app == call[w].request.app
           values == userValues[app.name]
<1>0. /\ call[w].pc \in ApiCalls /\ call[w] # Idle
      /\ call[w] \in RunningCall /\ Sound(call[w]) /\ call[w].request \in Request
      /\ Cleared(call[w]) /\ Learned(call[w], secrets, userValues)
  BY ServedWaits, WaitingCall DEF Justified, AllLearned
<1>concluded. \A o : /\ Concluded(call[w], o).outcome = o
                   /\ Concluded(call[w], o).request = call[w].request
  BY <1>0, OutcomeGiven
<1>1. ASSUME NEW o \in Outcomes \ {"none", "full"}, Step(w, Answer(call[w], o)),
             Caused(Concluded(call[w], o), provider, clusters, userValues, faults')
      PROVE  Goal
  BY <1>0, <1>1, AnswerDecided
<1>2. ASSUME NEW d, Step(w, d), Sound(d),
             d.pc \in AfterEnsure \/ (d.pc = "answered" /\ d.outcome = "full"),
             d.psp = call[w].psp, d.request = call[w].request,
             call[w].psp = "none" => LeftAlone(app, provider, clusters)
      PROVE  Goal
  <2>1. Decided(d, provider, clusters, userValues, faults')
    BY <1>2, PastEnsureDecided
  <2> QED
    BY <1>2, <2>1
<1>3. ASSUME Step(w, MutateKubeConfig(call[w])),
             call[w].psp = "none" => LeftAlone(app, provider, clusters)
      PROVE  Goal
  BY <1>0, <1>2, <1>3, MutateKubeConfigSound
<1>4. ASSUME NEW ns \in Namespaces \cup {None}, Step(w, KubeConfigFound(call[w], ns)),
             call[w].pc \in AfterEnsure
      PROVE  Goal
  <2>1. call[w].psp = "none" => LeftAlone(app, provider, clusters)
    BY <1>4 DEF Decided
  <2> QED
    BY <1>0, <1>2, <1>4, <2>1, KubeConfigFoundSound
<1>5. ASSUME call[w].pc = "GetUserValues", Step(w, RetryUserValues(call[w])),
             faults' > 0 \/ values = "missing"
      PROVE  Goal
  <2>1. call[w].psp = "none" => LeftAlone(app, provider, clusters)
    BY <1>5 DEF Decided, AfterEnsure
  <2>2. CASE RetryUserValues(call[w]) = Answer(call[w], "no user values")
    <3>1. IsClusterApp(app)
      BY <1>0, <1>5 DEF Sound
    <3>2. Caused(Concluded(call[w], "no user values"),
                 provider, clusters, userValues, faults')
      BY <1>5, <3>1, <1>concluded DEF Caused
    <3> QED
      BY <1>1, <1>5, <2>2, <3>2 DEF Outcomes
  <2>3. CASE RetryUserValues(call[w]) # Answer(call[w], "no user values")
    <3>1. RetryUserValues(call[w]).pc = "GetUserValues"
      BY <1>0, <1>5, <2>3 DEF RetryUserValues, RunningCall
    <3>2. /\ Sound(RetryUserValues(call[w]))
          /\ RetryUserValues(call[w]).psp = call[w].psp
          /\ RetryUserValues(call[w]).request = call[w].request
      BY <1>0, <1>5, RetrySound
    <3> QED
      BY <1>2, <1>5, <2>1, <3>1, <3>2 DEF AfterEnsure
  <2> QED
    BY <2>2, <2>3
<1>6. CASE GetChartOperatorAppVersion(w)
  <2> DEFINE v == chartOperator[app.ns]
  <2>1. v \in VersionLabels \cup {None}
    BY <1>0, RequestFields DEF IInv, TypeOK
  <2>2. /\ call[w].pc = "GetChartOperatorApp"
        /\ Step(w, Answer(call[w], "nothing")) \/ Step(w, VersionKnown(call[w], v))
    BY <1>6 DEF GetChartOperatorAppVersion
  <2>3. call[w].psp = "none"
    BY <1>0, <2>2 DEF Sound
  <2> HIDE DEF v
  <2>4. Decided(VersionKnown(call[w], v), provider, clusters, userValues, faults')
    BY <1>0, <2>1, <2>3, VersionKnownDecided
  <2>5. CASE Step(w, Answer(call[w], "nothing"))
    <3>1. Caused(Concluded(call[w], "nothing"), provider, clusters, userValues, faults')
      BY <1>0, <1>concluded, AdmittedUncaused DEF Admitted
    <3> QED
      BY <1>1, <2>5, <3>1 DEF Outcomes
  <2> QED
    BY <2>2, <2>4, <2>5
<1>7. CASE ListClusters(w)
  <2> DEFINE cr == clusters[ClusterLabel(app)]
             d == Await([call[w] EXCEPT !.psp = "entry"], "GetConfigMap")
  <2>1. d.pc = "GetConfigMap" /\ d.outcome = "none"
    BY <1>0 DEF Await, RunningCall
  <2>2. /\ call[w].pc = "ListClusters"
        /\ \/ Undecidable(provider, cr) /\ Step(w, Answer(call[w], "psp undecided"))
           \/ Step(w, d)
           \/ ~EnforcesPss(provider, cr) /\ Step(w, MutateKubeConfig(call[w]))
    BY <1>7 DEF ListClusters
  <2>3. ~OutsideWorkloadClusters(app)
    BY <1>0, <2>2 DEF Cleared
  <2>4. cr \in ClusterCR \cup {None}
    BY <1>0, <2>2, RequestFields DEF Sound, IInv, TypeOK
  <2> HIDE DEF d
  <2>5. CASE Undecidable(provider, cr) /\ Step(w, Answer(call[w], "psp undecided"))
    <3>1. Caused(Concluded(call[w], "psp undecided"),
                 provider, clusters, userValues, faults')
      BY <1>0, <2>3, <2>5, <1>concluded DEF Caused
    <3> QED
      BY <1>1, <2>5, <3>1 DEF Outcomes
  <2>6. CASE Step(w, d)
    <3>1. Decided(d, provider, clusters, userValues, faults')
      BY <2>1, UndecidedYet DEF Admitted, AfterEnsure
    <3> QED
      BY <2>6, <3>1
  <2>7. CASE ~EnforcesPss(provider, cr) /\ Step(w, MutateKubeConfig(call[w]))
    <3>1. LeftAlone(app, provider, clusters)
      BY <2>4, <2>7, UnenforcedIsServing DEF LeftAlone, Stopped
    <3> QED
      BY <1>3, <2>7, <3>1
  <2> QED
    BY <2>2, <2>5, <2>6, <2>7
<1>8. CASE GetConfigMap(w)
  <2> DEFINE D(q) == Await(call[w], q)
  <2>1. \A q : D(q).pc = q /\ D(q).outcome = "none"
    BY <1>0 DEF Await, RunningCall
  <2>2. call[w].psp # "none"
    BY <1>0, <1>8 DEF GetConfigMap, Sound
  <2>3. \/ Step(w, MutateKubeConfig(call[w]))
        \/ \E q \in {"CreateConfigMap", "UpdateConfigMap"} : Step(w, D(q))
    BY <1>8 DEF GetConfigMap
  <2> HIDE DEF D
  <2>4. \A q \in {"CreateConfigMap", "UpdateConfigMap"} :
          Decided(D(q), provider, clusters, userValues, faults')
    BY <2>1, UndecidedYet DEF Admitted, AfterEnsure
  <2> QED
    BY <1>3, <2>2, <2>3, <2>4
<1>9. CASE CreateConfigMap(w) \/ UpdateConfigMap(w)
  <2>1. call[w].psp # "none"
    BY <1>0, <1>9 DEF CreateConfigMap, UpdateConfigMap, Sound
  <2>2. \/ Step(w, MutateKubeConfig(call[w]))
        \/ Step(w, Answer(call[w], "already exists"))
    BY <1>9 DEF CreateConfigMap, UpdateConfigMap
  <2>3. CASE Step(w, Answer(call[w], "already exists"))
    <3>1. Caused(Concluded(call[w], "already exists"),
                 provider, clusters, userValues, faults')
      BY <1>0, <1>concluded DEF Caused
    <3> QED
      BY <1>1, <2>3, <3>1 DEF Outcomes
  <2> QED
    BY <1>3, <2>1, <2>2, <2>3
<1>10. CASE GetSecret(w)
  <2> DEFINE d == Await(call[w], "ListSecrets")
  <2>1. /\ d.pc = "ListSecrets" /\ d.outcome = "none"
        /\ d.psp = call[w].psp /\ d.request = call[w].request
    BY <1>0 DEF Await, RunningCall
  <2>2. /\ call[w].pc \in AfterEnsure
        /\ Step(w, KubeConfigFound(call[w], app.ns)) \/ Step(w, d)
    BY <1>10 DEF GetSecret, AfterEnsure
  <2> HIDE DEF d
  <2>3. Decided(d, provider, clusters, userValues, faults')
    <3>1. Caused(d, provider, clusters, userValues, faults')
      BY <2>1, AdmittedUncaused DEF Admitted
    <3> QED
      BY <2>1, <2>2, <3>1 DEF Decided
  <2>4. app.ns \in Namespaces \cup {None}
    BY <1>0, RequestFields
  <2> QED
    BY <1>4, <2>2, <2>3, <2>4
<1>11. CASE ListSecrets(w)
  <2>1. call[w].pc \in AfterEnsure
    BY <1>11 DEF ListSecrets, AfterEnsure
  <2>2. \E ns \in Namespaces \cup {None} : Step(w, KubeConfigFound(call[w], ns))
    BY <1>11 DEF ListSecrets, KubeConfigCandidates, IInv, TypeOK, Secret
  <2> QED
    BY <1>4, <2>1, <2>2
<1>12. CASE GetUserValues(w)
  <2> DEFINE d == Await([call[w] EXCEPT !.release = values], "GetRelease")
             e == Answer(call[w], "full")
  <2>1. /\ d.pc = "GetRelease" /\ d.outcome = "none"
        /\ d.psp = call[w].psp /\ d.request = call[w].request
    BY <1>0 DEF Await, RunningCall
  <2>2. /\ call[w].pc = "GetUserValues"
        /\ \/ values = "missing" /\ Step(w, RetryUserValues(call[w]))
           \/ Step(w, e)
           \/ /\ values \in {"noGlobal", "badRelease"}
              /\ Step(w, Answer(call[w], "invalid user values"))
           \/ Step(w, d)
    BY <1>12 DEF GetUserValues
  <2>3. call[w].psp = "none" => LeftAlone(app, provider, clusters)
    BY <2>2 DEF Decided, AfterEnsure
  <2>4. Sound(e) /\ e.pc = "answered" /\ e.outcome = "full"
        /\ e.psp = call[w].psp /\ e.request = call[w].request
    BY <1>0, AnswerSound DEF Outcomes
  <2> HIDE DEF d, e
  <2>5. Decided(d, provider, clusters, userValues, faults')
    <3>1. Caused(d, provider, clusters, userValues, faults')
      BY <2>1, AdmittedUncaused DEF Admitted
    <3> QED
      BY <2>1, <2>3, <3>1 DEF Decided
  <2>6. CASE Step(w, e)
    BY <1>2, <2>3, <2>4, <2>6
  <2>7. CASE /\ values \in {"noGlobal", "badRelease"}
             /\ Step(w, Answer(call[w], "invalid user values"))
    <3>1. IsClusterApp(app)
      BY <1>0, <2>2 DEF Sound
    <3>2. Caused(Concluded(call[w], "invalid user values"),
                 provider, clusters, userValues, faults')
      BY <1>0, <2>7, <3>1, <1>concluded DEF Caused
    <3> QED
      BY <1>1, <2>7, <3>2 DEF Outcomes
  <2> QED
    BY <1>5, <2>2, <2>5, <2>6, <2>7
<1>13. CASE GetRelease(w)
  <2> DEFINE component == Releases[<<app.specName, call[w].release>>]
             found == [call[w] EXCEPT !.component = component]
             d == Answer(found, "full")
  <2>1. /\ call[w].pc = "GetRelease"
        /\ \/ component = None /\ Step(w, Answer(call[w], "no release"))
           \/ component.version = None /\ Step(w, Answer(call[w], "no cluster app version"))
           \/ Step(w, d)
    BY <1>13 DEF GetRelease
  <2>2. /\ call[w].release = values /\ call[w].release \in ReleaseNames
        /\ IsClusterApp(app)
    BY <1>0, <2>1 DEF Learned, ComponentLearned, Sound
  <2>3. call[w].psp = "none" => LeftAlone(app, provider, clusters)
    BY <2>1 DEF Decided, AfterEnsure
  <2>4. /\ d.pc = "answered" /\ d.outcome = "full"
        /\ d.psp = call[w].psp /\ d.request = call[w].request
    BY <1>0 DEF Answer, RunningCall
  <2> HIDE DEF d
  <2>5. Decided(d, provider, clusters, userValues, faults')
    <3>1. Caused(d, provider, clusters, userValues, faults')
      BY <2>4, AdmittedUncaused DEF Admitted
    <3> QED
      BY <2>3, <2>4, <3>1 DEF Decided
  <2>6. CASE component = None /\ Step(w, Answer(call[w], "no release"))
    <3>1. Caused(Concluded(call[w], "no release"),
                 provider, clusters, userValues, faults')
      BY <1>0, <2>2, <2>6, <1>concluded DEF Caused
    <3> QED
      BY <1>1, <2>6, <3>1 DEF Outcomes
  <2>7. CASE component.version = None /\ Step(w, Answer(call[w], "no cluster app version"))
    <3>1. Caused(Concluded(call[w], "no cluster app version"),
                 provider, clusters, userValues, faults')
      BY <1>0, <2>2, <2>7, <1>concluded DEF Caused
    <3> QED
      BY <1>1, <2>7, <3>1 DEF Outcomes
  <2> QED
    BY <2>1, <2>5, <2>6, <2>7
<1>14. CASE Fail(w)
  <2>1. \/ Step(w, Answer(call[w], "API error"))
        \/ call[w].pc = "GetSecret" /\ Step(w, KubeConfigFound(call[w], None))
        \/ call[w].pc = "GetUserValues" /\ Step(w, RetryUserValues(call[w]))
    BY <1>14 DEF Fail, CallFails, WriteAnswerLost, GetSecretFails, GetUserValuesFails
  <2>2. faults' > 0
    BY <1>14, FaultsCounted
  <2>3. CASE Step(w, Answer(call[w], "API error"))
    <3>1. Caused(Concluded(call[w], "API error"),
                 provider, clusters, userValues, faults')
      BY <1>0, <2>2, <1>concluded DEF Caused
    <3> QED
      BY <1>1, <2>3, <3>1 DEF Outcomes
  <2> QED
    BY <1>4, <1>5, <2>1, <2>2, <2>3 DEF AfterEnsure
<1> QED
  BY <1>6, <1>7, <1>8, <1>9, <1>10, <1>11, <1>12, <1>13, <1>14 DEF Serve

\* While no other controller changes the cluster, decisions keep their causes.
LEMMA NextDecided ==
  ASSUME ~EnvironmentMoves
  PROVE  IInv /\ Justified /\ AllLearned /\ AllDecided /\ [Next]_vars => AllDecided'
<1> SUFFICES ASSUME IInv, Justified, AllLearned, AllDecided, [Next]_vars,
                    NEW v \in Workers, (call[v] # Idle)'
             PROVE  Decided(call'[v], provider', clusters', userValues', faults')
  BY DEF AllDecided
<1>0. call \in [Workers -> {Idle} \cup ActiveCall] /\ faults \in Nat
  BY DEF IInv, TypeOK
<1>1. ASSUME NEW c, Decided(c, provider, clusters, userValues, faults),
             faults' \in {faults, faults + 1}
      PROVE  Decided(c, provider, clusters, userValues, faults')
  <2>1. faults > 0 => faults' > 0
    BY <1>0, <1>1
  <2> QED
    BY <1>1, <2>1 DEF Decided, Caused
<1>2. ASSUME NEW w \in Workers, NEW c, Step(w, c),
             UNCHANGED <<provider, clusters, userValues>>,
             faults' \in {faults, faults + 1},
             c = Idle \/ Decided(c, provider, clusters, userValues, faults')
      PROVE  Decided(call'[v], provider', clusters', userValues', faults')
  <2>1. call'[v] = IF v = w THEN c ELSE call[v]
    BY <1>0, <1>2 DEF Step
  <2>2. Decided(call'[v], provider, clusters, userValues, faults')
    <3>1. CASE v = w
      BY <1>2, <2>1, <3>1
    <3>2. CASE v # w
      <4>1. Decided(call[v], provider, clusters, userValues, faults)
        BY <2>1, <3>2 DEF AllDecided
      <4> QED
        BY <1>1, <1>2, <2>1, <3>2, <4>1
    <3> QED
      BY <3>1, <3>2
  <2> QED
    BY <1>2, <2>2
<1>3. ASSUME NEW w \in Workers, NEW r \in Requests, Receive(w, r)
      PROVE  Decided(call'[v], provider', clusters', userValues', faults')
  <2>1. Decided(Mutate(r), provider, clusters, userValues, faults')
    BY MutateDecided, MutatorAssumption
  <2> QED
    BY <1>2, <1>3, <2>1 DEF Receive, Reads, environment
<1>4. ASSUME NEW w \in Workers, Serve(w) \/ Fail(w)
      PROVE  Decided(call'[v], provider', clusters', userValues', faults')
  <2>1. UNCHANGED <<provider, clusters, userValues>>
    BY <1>4, WebhookTypes DEF environment
  <2>2. faults' \in {faults, faults + 1}
    BY <1>4, FaultsCounted
  <2>3. call[w] # Idle
    BY <1>4, ServedWaits
  <2>4. PICK c : Step(w, c) /\ Decided(c, provider, clusters, userValues, faults')
    BY <1>4, <2>3, CallDecides DEF AllDecided
  <2> QED
    BY <1>2, <2>1, <2>2, <2>4
<1>5. ASSUME NEW w \in Workers, Respond(w)
      PROVE  Decided(call'[v], provider', clusters', userValues', faults')
  BY <1>2, <1>5 DEF Respond, Reads, environment
<1>6. CASE UNCHANGED vars
  BY <1>6 DEF vars, environment, AllDecided
<1>7. ~EnvironmentNext
  BY DEF EnvironmentNext
<1> QED
  BY <1>3, <1>4, <1>5, <1>6, <1>7 DEF Next

LEMMA DecidedHolds ==
  ASSUME ~EnvironmentMoves
  PROVE  Spec => [](IInv /\ Justified /\ AllDecided)
<1>1. Init => AllDecided
  BY DEF Init, AllDecided
<1>2. IInv /\ Justified /\ AllLearned /\ AllDecided /\ [Next]_vars => AllDecided'
  BY NextDecided
<1> QED
  BY <1>1, <1>2, JustifiedHolds, LearnedHolds, PTL DEF Spec

-----------------------------------------------------------------------------
(* The psp-removal entry.                                                  *)

LEMMA ToSetOfAppend ==
  ASSUME NEW T, NEW s \in Seq(T), NEW e \in T
  PROVE  ToSet(Append(s, e)) = ToSet(s) \cup {e} /\ Append(s, e) \in Seq(T)
<1> DEFINE longer == Append(s, e)
<1>1. /\ Len(s) \in Nat /\ DOMAIN s = 1..Len(s)
      /\ longer \in Seq(T) /\ DOMAIN longer = 1..(Len(s) + 1)
      /\ \A i \in 1..Len(s) : longer[i] = s[i]
      /\ longer[Len(s) + 1] = e
  BY AppendProperties, LenProperties
<1> HIDE DEF longer
<1>2. DOMAIN longer = DOMAIN s \cup {Len(s) + 1}
  BY <1>1
<1>3. ToSet(longer) = ToSet(s) \cup {e}
  BY <1>1, <1>2 DEF ToSet
<1> QED
  BY <1>1, <1>3 DEF longer

\* The entries of a fully defaulted App.
LEMMA EntriesDefaulted ==
  ASSUME NEW app \in App, NEW psp
  PROVE  PspEntry(app) \in ToSet(DefaultedConfigs(app, psp)) <=>
           psp = "entry" \/ PspEntry(app) \in Entries(app)
<1> DEFINE values == ClusterValuesEntry(app)
           entry == PspEntry(app)
           list == app.extraConfigs
<1>1. PICK S : list \in Seq(S)
  BY DEF App
<1> DEFINE T == S \cup {values, entry}
<1>2. list \in Seq(T)
  <2>1. S \subseteq T
    OBVIOUS
  <2> QED
    BY <1>1, <2>1, SeqMonotonic
<1>3. values \in T /\ entry \in T
  OBVIOUS
<1>4. entry # values
  BY DEF ClusterValuesEntry, PspEntry, ConfigMapEntry, ClusterConfigMapName,
     ClusterValues, ExtraConfigName, PspRemovalPatch
<1> HIDE DEF T, values, entry
<1>5. /\ WithClusterValues(app) \in Seq(T)
      /\ entry \in ToSet(WithClusterValues(app)) <=> entry \in Entries(app)
  <2>1. WithClusterValues(app) \in {list, Append(list, values)}
    BY DEF WithClusterValues, values
  <2>2. ToSet(Append(list, values)) = ToSet(list) \cup {values} /\ Append(list, values) \in Seq(T)
    BY <1>2, <1>3, ToSetOfAppend
  <2> QED
    BY <1>2, <1>4, <2>1, <2>2 DEF Entries
<1>6. ToSet(Append(WithClusterValues(app), entry)) = ToSet(WithClusterValues(app)) \cup {entry}
  BY <1>3, <1>5, ToSetOfAppend
<1> QED
  BY <1>5, <1>6 DEF DefaultedConfigs, entry

\* What defaulting adds to them is for ConfigMaps of the App's own namespace.
LEMMA EntriesAdded ==
  ASSUME NEW app \in App, NEW psp, NEW e \in ToSet(DefaultedConfigs(app, psp))
  PROVE  e \in Entries(app) \/ e.ns = app.ns
<1> DEFINE values == ClusterValuesEntry(app)
           entry == PspEntry(app)
           list == app.extraConfigs
<1>1. PICK S : list \in Seq(S)
  BY DEF App
<1> DEFINE T == S \cup {values, entry}
<1>2. list \in Seq(T)
  <2>1. S \subseteq T
    OBVIOUS
  <2> QED
    BY <1>1, <2>1, SeqMonotonic
<1>3. values \in T /\ entry \in T
  OBVIOUS
<1>4. values.ns = app.ns /\ entry.ns = app.ns
  BY DEF ClusterValuesEntry, PspEntry, ConfigMapEntry
<1>5. /\ WithClusterValues(app) \in {list, Append(list, values)}
      /\ DefaultedConfigs(app, psp)
           \in {WithClusterValues(app), Append(WithClusterValues(app), entry)}
  BY DEF WithClusterValues, DefaultedConfigs
<1> HIDE DEF T, values, entry, list
<1>6. /\ ToSet(Append(list, values)) = ToSet(list) \cup {values}
      /\ Append(list, values) \in Seq(T)
  BY <1>2, <1>3, ToSetOfAppend
<1>7. /\ WithClusterValues(app) \in Seq(T)
      /\ ToSet(WithClusterValues(app)) \subseteq ToSet(list) \cup {values}
  BY <1>2, <1>5, <1>6
<1>8. ToSet(Append(WithClusterValues(app), entry)) = ToSet(WithClusterValues(app)) \cup {entry}
  BY <1>3, <1>7, ToSetOfAppend
<1>9. ToSet(DefaultedConfigs(app, psp)) \subseteq ToSet(list) \cup {values, entry}
  BY <1>5, <1>7, <1>8
<1> QED
  BY <1>4, <1>9 DEF Entries, list

\* In a cluster no other controller is changing, an App is admitted with the
\* psp-removal entry and label exactly when it had the entry or its workload
\* cluster no longer serves PSPs: none is left out, however many requests are
\* served at once and whichever of their calls fail (mutateConfigForPSPRemoval).
THEOREM EntryIffPssEnforcedHolds ==
  ASSUME ~EnvironmentMoves
  PROVE  Spec => []EntryIffPssEnforced
<1>1. IInv /\ Justified /\ AllDecided => EntryIffPssEnforced
  <2> SUFFICES ASSUME IInv, Justified, AllDecided, NEW w \in Workers, Fully(call[w])
               PROVE  LET app == call[w].request.app
                          new == Mutated(call[w])
                          enforced == /\ ~OutsideWorkloadClusters(app)
                                      /\ Stopped(provider, clusters, app)
                          had == PspEntry(app) \in Entries(app)
                      IN  /\ PspEntry(app) \in Entries(new) <=> enforced \/ had
                          /\ enforced => new.labels["psp"] = "disabled"
    BY DEF EntryIffPssEnforced, Stopped
  <2> DEFINE c == call[w]
             app == c.request.app
             enforced == ~OutsideWorkloadClusters(app) /\ Stopped(provider, clusters, app)
             had == PspEntry(app) \in Entries(app)
  <2>1. c # Idle
    BY DEF Fully, Idle
  <2>2. app \in App /\ c.psp \in {"none", "label", "entry"}
    BY <2>1, ServedRequest DEF Sound, ActiveCall
  <2>3. Mutated(c) = FullyDefaulted(app, c.version, c.psp, c.kubeNs, c.component)
    BY <2>2, MutatedIsOutcome DEF Fully, Outcome
  <2>4. /\ Mutated(c).labels = DefaultedLabels(app, c.version, c.psp)
        /\ Entries(Mutated(c)) = ToSet(DefaultedConfigs(app, c.psp))
    BY <2>2, <2>3, FullyDefaultedFields DEF Entries
  <2>5. c.psp = "none" => ~enforced
    BY <2>1 DEF AllDecided, Decided, LeftAlone
  <2>6. c.psp = "label" => had
    BY <2>1 DEF Justified, Cleared
  <2>7. c.psp = "entry" => enforced
    BY <2>1 DEF Justified, Cleared
  <2>8. PspEntry(app) \in Entries(Mutated(c)) <=> c.psp = "entry" \/ had
    BY <2>2, <2>4, EntriesDefaulted
  <2>9. c.psp # "none" => Mutated(c).labels["psp"] = "disabled"
    BY <2>4 DEF DefaultedLabels, PspLabelled, LabelKeys
  <2> HIDE DEF c, app, enforced, had
  <2>10. PspEntry(app) \in Entries(Mutated(c)) <=> enforced \/ had
    BY <2>2, <2>5, <2>6, <2>7, <2>8
  <2>11. enforced => Mutated(c).labels["psp"] = "disabled"
    BY <2>5, <2>9
  <2> QED
    BY <2>10, <2>11 DEF c, app, enforced, had
<1> QED
  BY <1>1, DecidedHolds, PTL

-----------------------------------------------------------------------------
(* Rejections.                                                             *)

\* A ConfigMap another request may have written, for a chart that shares it.
Taken(w, c, cms) ==
  /\ \E other \in Workers : other # w
  /\ \E name \in SpecNames :
       /\ ExtraConfigName(name) = ExtraConfigName(c.request.app.specName)
       /\ cms[ConfigMapKey(c)] = ExtraConfigValues(name)

\* A request that is about to create its ConfigMap has found none; if there is
\* one now, or creating it has failed for that, another request was at work.
Raced(w, c, cms) ==
  /\ c.pc = "CreateConfigMap" => cms[ConfigMapKey(c)] = None \/ Taken(w, c, cms)
  /\ c.outcome = "already exists" => c.psp # "none" /\ Taken(w, c, cms)

AllRaced == \A w \in Workers : call[w] # Idle => Raced(w, call[w], configMaps)

\* A request that is in no race, whatever the ConfigMaps are.
Harmless(c) == c.pc # "CreateConfigMap" /\ c.outcome # "already exists"

LEMMA HarmlessIsRaced ==
  ASSUME NEW w, NEW c, NEW cms, Harmless(c)
  PROVE  Raced(w, c, cms)
BY DEF Harmless, Raced

\* Past the ConfigMap, or answered for another reason.
LEMMA PastEnsureHarmless ==
  ASSUME NEW d, Sound(d),
         d.pc \in AfterEnsure \/ (d.pc = "answered" /\ d.outcome = "full")
  PROVE  Harmless(d)
BY DEF Harmless, Sound, AfterEnsure

LEMMA AnswerHarmless ==
  ASSUME NEW c \in RunningCall, NEW o \in Outcomes \ {"none", "already exists"}
  PROVE  Harmless(Answer(c, o))
<1>1. Answer(c, o).pc = "answered" /\ Answer(c, o).outcome = o
  BY AnswerSound
<1> QED
  BY <1>1 DEF Harmless

LEMMA AwaitHarmless ==
  ASSUME NEW c \in RunningCall, NEW q, q # "CreateConfigMap"
  PROVE  Harmless(Await(c, q))
BY DEF Harmless, Await, RunningCall

LEMMA MutateConfigHarmless ==
  ASSUME NEW c \in RunningCall
  PROVE  Harmless(MutateConfigForPSPRemoval(c))
<1> DEFINE e == [c EXCEPT !.psp = "label"]
<1>1. e \in RunningCall
  BY DEF RunningCall
<1>2. MutateConfigForPSPRemoval(c) \in
        {Answer(c, "unsupported provider"), MutateKubeConfig(c),
         Await(e, "GetConfigMap"), Await(c, "ListClusters")}
  BY DEF MutateConfigForPSPRemoval
<1> HIDE DEF e
<1>3. Harmless(Answer(c, "unsupported provider"))
  BY AnswerHarmless DEF Outcomes
<1>4. Harmless(MutateKubeConfig(c))
  BY MutateKubeConfigSound, PastEnsureHarmless
<1>5. Harmless(Await(e, "GetConfigMap")) /\ Harmless(Await(c, "ListClusters"))
  BY <1>1, AwaitHarmless
<1> QED
  BY <1>2, <1>3, <1>4, <1>5

LEMMA VersionKnownHarmless ==
  ASSUME NEW c \in RunningCall, NEW v \in VersionLabels \cup {None}
  PROVE  Harmless(VersionKnown(c, v))
<1> DEFINE e == [c EXCEPT !.version = v]
<1>1. e \in RunningCall
  BY DEF RunningCall
<1>2. VersionKnown(c, v) \in {Answer(e, "nothing"), Answer(e, "labels"),
                              MutateConfigForPSPRemoval(e)}
  BY DEF VersionKnown
<1> HIDE DEF e
<1>3. Harmless(Answer(e, "nothing")) /\ Harmless(Answer(e, "labels"))
  BY <1>1, AnswerHarmless DEF Outcomes
<1> QED
  BY <1>1, <1>2, <1>3, MutateConfigHarmless

LEMMA MutateHarmless ==
  ASSUME NEW r \in Request
  PROVE  Harmless(Mutate(r))
<1> DEFINE c == Received(r)
<1>1. c \in RunningCall /\ c.request = r
  BY DEF Received, RunningCall, MaxAttempts
<1>2. Mutate(r) \in {Answer(c, "nothing"), Await(c, "GetChartOperatorApp"),
                     VersionKnown(c, VersionLabel(r.app))}
  BY <1>1 DEF Mutate, MutateApplication
<1> HIDE DEF c
<1>3. Harmless(Answer(c, "nothing")) /\ Harmless(Await(c, "GetChartOperatorApp"))
  BY <1>1, AnswerHarmless, AwaitHarmless DEF Outcomes
<1> QED
  BY <1>1, <1>2, <1>3, RequestFields, VersionKnownHarmless

LEMMA RetryHarmless ==
  ASSUME NEW c \in RunningCall, c.pc # "CreateConfigMap"
  PROVE  Harmless(RetryUserValues(c))
<1>1. Harmless(Answer(c, "no user values"))
  BY AnswerHarmless DEF Outcomes
<1>2. Harmless([c EXCEPT !.attempts = @ + 1])
  BY DEF Harmless, RunningCall
<1> QED
  BY <1>1, <1>2 DEF RetryUserValues

\* What an API call makes of its request: it goes on to create a ConfigMap only
\* if it has just found none, and fails to only if one has appeared.
LEMMA CallRaces ==
  ASSUME IInv, NEW w \in Workers, Serve(w) \/ Fail(w), Raced(w, call[w], configMaps)
  PROVE  \E c : Step(w, c) /\ Raced(w, c, configMaps')
<1> DEFINE Goal == \E c : Step(w, c) /\ Raced(w, c, configMaps')
<1>0. /\ call[w].pc \in ApiCalls
      /\ call[w] \in RunningCall
      /\ call[w].request \in Request
  BY ServedWaits, WaitingCall
<1>1. ASSUME NEW c, Step(w, c), Harmless(c)
      PROVE  Goal
  BY <1>1, HarmlessIsRaced
<1>2. Harmless(MutateKubeConfig(call[w]))
  BY <1>0, MutateKubeConfigSound, PastEnsureHarmless
<1>3. \A ns \in Namespaces \cup {None} : Harmless(KubeConfigFound(call[w], ns))
  BY <1>0, KubeConfigFoundSound, PastEnsureHarmless
<1>4. \A o \in Outcomes \ {"none", "already exists"} : Harmless(Answer(call[w], o))
  BY <1>0, AnswerHarmless
<1>5. \A q : q # "CreateConfigMap" => Harmless(Await(call[w], q))
  BY <1>0, AwaitHarmless
<1>6. CASE GetChartOperatorAppVersion(w)
  <2> DEFINE v == chartOperator[call[w].request.app.ns]
  <2>1. v \in VersionLabels \cup {None}
    BY <1>0, RequestFields DEF IInv, TypeOK
  <2>2. Step(w, Answer(call[w], "nothing")) \/ Step(w, VersionKnown(call[w], v))
    BY <1>6 DEF GetChartOperatorAppVersion
  <2> HIDE DEF v
  <2>3. Harmless(VersionKnown(call[w], v))
    BY <1>0, <2>1, VersionKnownHarmless
  <2>4. Harmless(Answer(call[w], "nothing"))
    BY <1>4 DEF Outcomes
  <2> QED
    BY <1>1, <2>2, <2>3, <2>4
<1>7. CASE ListClusters(w)
  <2> DEFINE e == [call[w] EXCEPT !.psp = "entry"]
  <2>1. e \in RunningCall
    BY <1>0 DEF RunningCall
  <2>2. \/ Step(w, Answer(call[w], "psp undecided"))
        \/ Step(w, Await(e, "GetConfigMap"))
        \/ Step(w, MutateKubeConfig(call[w]))
    BY <1>7 DEF ListClusters
  <2> HIDE DEF e
  <2>3. Harmless(Await(e, "GetConfigMap"))
    BY <2>1, AwaitHarmless
  <2>4. Harmless(Answer(call[w], "psp undecided"))
    BY <1>4 DEF Outcomes
  <2> QED
    BY <1>1, <1>2, <2>2, <2>3, <2>4
<1>8. CASE GetConfigMap(w)
  <2> DEFINE d == Await(call[w], "CreateConfigMap")
  <2>1. d.outcome = "none" /\ ConfigMapKey(d) = ConfigMapKey(call[w])
    BY <1>0 DEF Await, RunningCall, ConfigMapKey
  <2>2. /\ \/ Step(w, MutateKubeConfig(call[w]))
           \/ configMaps[ConfigMapKey(call[w])] = None /\ Step(w, d)
           \/ Step(w, Await(call[w], "UpdateConfigMap"))
        /\ configMaps' = configMaps
    BY <1>8 DEF GetConfigMap, Reads
  <2> HIDE DEF d
  <2>3. CASE configMaps[ConfigMapKey(call[w])] = None /\ Step(w, d)
    BY <2>1, <2>2, <2>3 DEF Raced
  <2>4. Harmless(Await(call[w], "UpdateConfigMap"))
    BY <1>5
  <2> QED
    BY <1>1, <1>2, <2>2, <2>3, <2>4
<1>9. CASE CreateConfigMap(w) \/ UpdateConfigMap(w)
  <2> DEFINE d == Answer(call[w], "already exists")
  <2>1. /\ d.pc = "answered" /\ d.psp = call[w].psp
        /\ ConfigMapKey(d) = ConfigMapKey(call[w])
        /\ d.request = call[w].request
    BY <1>0, AnswerSound DEF Outcomes, ConfigMapKey
  <2>2. \/ Step(w, MutateKubeConfig(call[w]))
        \/ /\ call[w].pc = "CreateConfigMap"
           /\ configMaps[ConfigMapKey(call[w])] # None
           /\ Step(w, d) /\ configMaps' = configMaps
    BY <1>9 DEF CreateConfigMap, UpdateConfigMap, Reads
  <2> HIDE DEF d
  <2>3. CASE /\ call[w].pc = "CreateConfigMap"
             /\ configMaps[ConfigMapKey(call[w])] # None
             /\ Step(w, d) /\ configMaps' = configMaps
    <3>1. Taken(w, call[w], configMaps)
      BY <2>3 DEF Raced
    <3>2. Taken(w, d, configMaps')
      BY <2>1, <2>3, <3>1 DEF Taken
    <3>3. call[w].psp # "none"
      BY <2>3, WaitingCall DEF Sound, ApiCalls
    <3>4. Raced(w, d, configMaps')
      BY <2>1, <3>2, <3>3 DEF Raced
    <3> QED
      BY <2>3, <3>4
  <2> QED
    BY <1>1, <1>2, <2>2, <2>3
<1>10. CASE GetSecret(w) \/ ListSecrets(w)
  <2>1. call[w].request.app.ns \in Namespaces
    BY <1>0, RequestFields
  <2>2. \/ \E ns \in Namespaces \cup {None} : Step(w, KubeConfigFound(call[w], ns))
        \/ Step(w, Await(call[w], "ListSecrets"))
    BY <1>10, <2>1 DEF GetSecret, ListSecrets, KubeConfigCandidates, IInv, TypeOK, Secret
  <2>3. Harmless(Await(call[w], "ListSecrets"))
    BY <1>5
  <2> QED
    BY <1>1, <1>3, <2>2, <2>3
<1>11. CASE GetUserValues(w)
  <2> DEFINE values == userValues[call[w].request.app.name]
             e == [call[w] EXCEPT !.release = values]
  <2>1. Harmless(Await(e, "GetRelease"))
    BY <1>0 DEF Harmless, Await, RunningCall
  <2>2. /\ call[w].pc = "GetUserValues"
        /\ \/ Step(w, RetryUserValues(call[w]))
           \/ Step(w, Answer(call[w], "full"))
           \/ Step(w, Answer(call[w], "invalid user values"))
           \/ Step(w, Await(e, "GetRelease"))
    BY <1>11 DEF GetUserValues
  <2> HIDE DEF e
  <2>3. Harmless(RetryUserValues(call[w]))
    BY <1>0, <2>2, RetryHarmless
  <2>4. /\ Harmless(Answer(call[w], "full"))
        /\ Harmless(Answer(call[w], "invalid user values"))
    BY <1>4 DEF Outcomes
  <2> QED
    BY <1>1, <2>1, <2>2, <2>3, <2>4
<1>12. CASE GetRelease(w)
  <2> DEFINE found == Releases[<<call[w].request.app.specName, call[w].release>>]
             e == [call[w] EXCEPT !.component = found]
  <2>1. Harmless(Answer(e, "full"))
    BY <1>0 DEF Harmless, Answer, RunningCall
  <2>2. \/ Step(w, Answer(call[w], "no release"))
        \/ Step(w, Answer(call[w], "no cluster app version"))
        \/ Step(w, Answer(e, "full"))
    BY <1>12 DEF GetRelease
  <2> HIDE DEF e
  <2>3. /\ Harmless(Answer(call[w], "no release"))
        /\ Harmless(Answer(call[w], "no cluster app version"))
    BY <1>4 DEF Outcomes
  <2> QED
    BY <1>1, <2>1, <2>2, <2>3
<1>13. CASE Fail(w)
  <2>1. \/ Step(w, Answer(call[w], "API error"))
        \/ Step(w, KubeConfigFound(call[w], None))
        \/ call[w].pc = "GetUserValues" /\ Step(w, RetryUserValues(call[w]))
    BY <1>13 DEF Fail, CallFails, WriteAnswerLost, GetSecretFails, GetUserValuesFails
  <2>2. call[w].pc = "GetUserValues" => Harmless(RetryUserValues(call[w]))
    BY <1>0, RetryHarmless
  <2>3. Harmless(Answer(call[w], "API error"))
    BY <1>4 DEF Outcomes
  <2> QED
    BY <1>1, <1>3, <2>1, <2>2, <2>3
<1> QED
  BY <1>6, <1>7, <1>8, <1>9, <1>10, <1>11, <1>12, <1>13 DEF Serve

\* Whatever another request does, a race that it enters is one.
LEMMA OthersRace ==
  ASSUME IInv, NEW w \in Workers, Serve(w) \/ Fail(w),
         NEW v \in Workers, v # w, call[v] # Idle, Raced(v, call[v], configMaps)
  PROVE  Raced(v, call[v], configMaps')
<1>1. CASE configMaps' = configMaps
  BY <1>1
<1>2. CASE /\ call[w].pc \in {"CreateConfigMap", "UpdateConfigMap"}
           /\ configMaps' = [configMaps EXCEPT
                               ![ConfigMapKey(call[w])] = ConfigMapValues(call[w])]
  <2>1. call[w].request \in Request /\ call[v].request \in Request
    BY <1>2, WaitingCall DEF ApiCalls, IInv, CallsSound, Sound, ActiveCall
  <2>2. /\ ConfigMapKey(call[v]) \in Namespaces \X PspNames
        /\ DOMAIN configMaps = Namespaces \X PspNames
    BY <2>1, ConfigMapOfCall DEF IInv, TypeOK
  <2>3. CASE ConfigMapKey(call[v]) # ConfigMapKey(call[w])
    <3>1. configMaps'[ConfigMapKey(call[v])] = configMaps[ConfigMapKey(call[v])]
      BY <1>2, <2>2, <2>3
    <3> QED
      BY <3>1 DEF Raced, Taken
  <2>4. CASE ConfigMapKey(call[v]) = ConfigMapKey(call[w])
    <3> DEFINE name == call[w].request.app.specName
    <3>1. name \in SpecNames
      BY <2>1, RequestFields
    <3>2. ExtraConfigName(name) = ExtraConfigName(call[v].request.app.specName)
      BY <2>4 DEF ConfigMapKey
    <3>3. configMaps'[ConfigMapKey(call[v])] = ExtraConfigValues(name)
      BY <1>2, <2>2, <2>4 DEF ConfigMapValues
    <3> HIDE DEF name
    <3>4. Taken(v, call[v], configMaps')
      BY <3>1, <3>2, <3>3 DEF Taken
    <3> QED
      BY <3>4 DEF Raced
  <2> QED
    BY <2>3, <2>4
<1> QED
  BY <1>1, <1>2, WebhookTypes

\* Every step preserves AllRaced, whatever the other controllers do.
LEMMA AnyStepRaced == IInv /\ AllRaced /\ AnyStep => AllRaced'
<1> SUFFICES ASSUME IInv, AllRaced, AnyStep, NEW v \in Workers, (call[v] # Idle)'
             PROVE  Raced(v, call'[v], configMaps')
  BY DEF AllRaced
<1>0. call \in [Workers -> {Idle} \cup ActiveCall]
  BY DEF IInv, TypeOK
<1>1. ASSUME call'[v] = call[v], configMaps' = configMaps
      PROVE  Raced(v, call'[v], configMaps')
  BY <1>1 DEF AllRaced
<1>2. ASSUME NEW w \in Workers, NEW r \in Request, Receive(w, r)
      PROVE  Raced(v, call'[v], configMaps')
  <2>1. configMaps' = configMaps
    BY <1>2 DEF Receive, Reads
  <2>2. call'[v] = IF v = w THEN Mutate(r) ELSE call[v]
    BY <1>0, <1>2 DEF Receive, Step
  <2>3. Raced(v, Mutate(r), configMaps')
    BY MutateHarmless, HarmlessIsRaced
  <2> QED
    BY <1>1, <2>1, <2>2, <2>3
<1>3. ASSUME NEW w \in Workers, Serve(w) \/ Fail(w)
      PROVE  Raced(v, call'[v], configMaps')
  <2>1. call[w] # Idle
    BY <1>3, ServedWaits
  <2>2. PICK c : Step(w, c) /\ Raced(w, c, configMaps')
    BY <1>3, <2>1, CallRaces DEF AllRaced
  <2>3. call'[v] = IF v = w THEN c ELSE call[v]
    BY <1>0, <2>2 DEF Step
  <2>4. CASE v = w
    BY <2>2, <2>3, <2>4
  <2>5. CASE v # w
    BY <1>3, <2>3, <2>5, OthersRace DEF AllRaced
  <2> QED
    BY <2>4, <2>5
<1>4. ASSUME NEW w \in Workers, Drop(w)
      PROVE  Raced(v, call'[v], configMaps')
  <2>1. configMaps' = configMaps /\ v # w
    BY <1>0, <1>4 DEF Drop, Step
  <2>2. call'[v] = call[v]
    BY <1>0, <1>4, <2>1 DEF Drop, Step
  <2> QED
    BY <1>1, <2>1, <2>2
<1>5. CASE Disturb \/ EnvironmentNext
  BY <1>1, <1>5 DEF Disturb, EnvironmentNext
<1> QED
  BY <1>2, <1>3, <1>4, <1>5 DEF AnyStep

LEMMA RacedHolds == Spec => [](IInv /\ Justified /\ AllRaced)
<1>1. Init => AllRaced
  BY DEF Init, AllRaced
<1>2. IInv /\ AllRaced /\ [Next]_vars => AllRaced'
  BY NextIsAnyStep, AnyStepRaced
<1> QED
  BY <1>1, <1>2, JustifiedHolds, PTL DEF Spec

\* A request that failed for a ConfigMap that exists needed one, and lost it.
LEMMA FailedInRace ==
  ASSUME IInv, Justified, AllRaced, NEW w \in Workers,
         call[w] # Idle, call[w].outcome = "already exists"
  PROVE  LostConfigMapRace(w)
<1> DEFINE app == call[w].request.app
<1>1. /\ call[w].psp \in {"label", "entry"}
      /\ Taken(w, call[w], configMaps)
  BY DEF AllRaced, Raced, IInv, CallsSound, Sound, ActiveCall
<1>2. /\ ~OutsideWorkloadClusters(app)
      /\ \/ PspEntry(app) \in Entries(app)
         \/ ServesNoPsps(provider, clusters[ClusterLabel(app)])
  BY <1>1 DEF Justified, Cleared, Stopped
<1> QED
  BY <1>1, <1>2 DEF LostConfigMapRace, Taken

\* An App is rejected because its ConfigMap exists only when another request has
\* been faster to create it, for any number of requests, whatever the other
\* controllers do and whichever calls fail (ensureConfigMap).
THEOREM CreateFailsInRacesOnlyHolds == Spec => []CreateFailsInRacesOnly
<1>1. IInv /\ Justified /\ AllRaced => CreateFailsInRacesOnly
  BY FailedInRace DEF CreateFailsInRacesOnly
<1> QED
  BY <1>1, RacedHolds, PTL

\* In a cluster no other controller is changing, and for any number of requests
\* at a time, an App is rejected only for what the provider, its cluster, its
\* own user values or the release these name say, or for a lost race for its
\* ConfigMap, unless a call has failed (MutateApplication).
THEOREM RejectedForCauseHolds ==
  ASSUME ~EnvironmentMoves
  PROVE  Spec => []RejectedForCause
<1>1. IInv /\ Justified /\ AllDecided /\ AllRaced => RejectedForCause
  <2> SUFFICES ASSUME IInv, Justified, AllDecided, AllRaced, NEW w \in Workers,
                      call[w].pc = "answered", ~Allowed(call[w]), faults = 0
               PROVE  LET app == call[w].request.app
                          cluster == clusters[ClusterLabel(app)]
                          values == userValues[app.name]
                      IN  \/ provider = "other"
                          \/ ~OutsideWorkloadClusters(app) /\ Undecidable(provider, cluster)
                          \/ /\ IsClusterApp(app)
                             /\ values \in ReleaseNames =>
                                  \/ Releases[<<app.specName, values>>] = None
                                  \/ Releases[<<app.specName, values>>].version = None
                             /\ values # "noRelease"
                          \/ LostConfigMapRace(w)
    BY DEF RejectedForCause
  <2>1. call[w] # Idle
    BY DEF Idle
  <2>2. call[w].outcome \in Outcomes \ {"none", "nothing", "labels", "full"}
    BY <2>1 DEF IInv, CallsSound, Sound, ActiveCall, Allowed
  <2> DEFINE app == call[w].request.app
             values == userValues[app.name]
             component == Releases[<<app.specName, values>>]
             o == call[w].outcome
  <2>3. Caused(call[w], provider, clusters, userValues, faults)
    BY <2>1 DEF AllDecided, Decided
  <2>4. /\ o = "unsupported provider" => provider = "other"
        /\ o = "psp undecided" =>
             ~OutsideWorkloadClusters(app) /\ Undecidable(provider, clusters[ClusterLabel(app)])
        /\ o # "API error"
        /\ o = "no user values" => IsClusterApp(app) /\ values = "missing"
        /\ o = "invalid user values" =>
             IsClusterApp(app) /\ values \in {"noGlobal", "badRelease"}
        /\ o \in {"no release", "no cluster app version"} =>
             /\ IsClusterApp(app)
             /\ values \in ReleaseNames
             /\ component = None \/ component.version = None
    <3>1. ~(faults > 0)
      OBVIOUS
    <3> QED
      BY <2>3, <3>1 DEF Caused
  <2>5. \A n \in NoReleaseNamed : n \notin ReleaseNames
    BY MutatorAssumption
  <2>6. o = "already exists" => LostConfigMapRace(w)
    BY <2>1, FailedInRace
  <2>7. o \in {"unsupported provider", "psp undecided", "no user values", "already exists",
               "invalid user values", "no release", "no cluster app version"}
    BY <2>2, <2>4 DEF Outcomes
  <2> HIDE DEF o, component, values, app
  <2>8. \/ provider = "other"
        \/ ~OutsideWorkloadClusters(app) /\ Undecidable(provider, clusters[ClusterLabel(app)])
        \/ /\ IsClusterApp(app)
           /\ values \in ReleaseNames => component = None \/ component.version = None
           /\ values # "noRelease"
        \/ LostConfigMapRace(w)
    BY <2>4, <2>5, <2>6, <2>7 DEF NoReleaseNamed
  <2> QED
    BY <2>8 DEF app, values, component
<1> QED
  BY <1>1, DecidedHolds, RacedHolds, PTL

-----------------------------------------------------------------------------
(* The version an App goes by, and which Apps it keeps from being mutated. *)

\* The version of the call is the App's own or chart-operator's, and a semver
\* where that matters.
Readable(c, versions) ==
  LET app == c.request.app
  IN  /\ c.version = IF DefaultsVersion(app) THEN versions[app.ns] ELSE VersionLabel(app)
      /\ ~UnreadableVersion(app, c.version)
Passed(c, versions) == Readable(c, versions) /\ ~LabelsOnly(c.request.app, c.version)

\* An App that is left as it is has no version that counts.
Unversioned(app) ==
  ~IsManagedInOrg(app) /\ (DefaultsVersion(app) \/ VersionLabel(app) \notin DOMAIN Major)

Gated(c, versions) ==
  /\ c.pc = "GetChartOperatorApp" => DefaultsVersion(c.request.app)
  /\ c.pc \in ApiCalls \ {"GetChartOperatorApp"} \/ c.outcome = "full" =>
       Passed(c, versions)
  /\ c.outcome = "labels" => /\ Readable(c, versions)
                             /\ LabelsOnly(c.request.app, c.version)
  /\ c.outcome = "nothing" => \/ c.request.dryRun \/ c.request.app.deleting
                              \/ Unversioned(c.request.app)

AllGated == \A w \in Workers : call[w] # Idle => Gated(call[w], chartOperator)

\* What the code does once it has the version leaves it as it is.
GoesOn(c, d) ==
  /\ d.request = c.request /\ d.version = c.version
  /\ d.pc # "GetChartOperatorApp" /\ d.outcome \notin {"nothing", "labels"}

LEMMA PassedIsGated ==
  ASSUME NEW c, NEW d, NEW versions, Passed(c, versions), GoesOn(c, d)
  PROVE  Gated(d, versions)
BY DEF Passed, Readable, GoesOn, Gated

LEMMA AnswerGoesOn ==
  ASSUME NEW c \in RunningCall, NEW o \in Outcomes \ {"nothing", "labels"}
  PROVE  GoesOn(c, Answer(c, o))
BY DEF GoesOn, Answer, RunningCall

LEMMA AwaitGoesOn ==
  ASSUME NEW c \in RunningCall, NEW p \in ApiCalls \ {"GetChartOperatorApp"}
  PROVE  GoesOn(c, Await(c, p))
BY DEF GoesOn, Await, RunningCall

\* Setting another field first makes no difference.
LEMMA GoesOnFrom ==
  ASSUME NEW c, NEW e, NEW d, GoesOn(e, d), e.request = c.request, e.version = c.version
  PROVE  GoesOn(c, d)
BY DEF GoesOn

LEMMA MutateClusterAppGoesOn ==
  ASSUME NEW c \in RunningCall
  PROVE  GoesOn(c, MutateClusterApp(c))
<1> DEFINE e == [c EXCEPT !.attempts = 1]
<1>1. e \in RunningCall /\ e.request = c.request /\ e.version = c.version
  BY DEF RunningCall, MaxAttempts
<1>2. MutateClusterApp(c) \in {Answer(c, "full"), Await(e, "GetUserValues")}
  BY DEF MutateClusterApp
<1> HIDE DEF e
<1>3. GoesOn(c, Answer(c, "full"))
  BY AnswerGoesOn DEF Outcomes
<1>4. GoesOn(c, Await(e, "GetUserValues"))
  BY <1>1, AwaitGoesOn, GoesOnFrom DEF ApiCalls
<1> QED
  BY <1>2, <1>3, <1>4

LEMMA MutateKubeConfigGoesOn ==
  ASSUME NEW c \in RunningCall
  PROVE  GoesOn(c, MutateKubeConfig(c))
<1>1. GoesOn(c, Await(c, "GetSecret"))
  BY AwaitGoesOn DEF ApiCalls
<1> QED
  BY <1>1, MutateClusterAppGoesOn DEF MutateKubeConfig

LEMMA KubeConfigFoundGoesOn ==
  ASSUME NEW c \in RunningCall, NEW ns \in Namespaces \cup {None}
  PROVE  GoesOn(c, KubeConfigFound(c, ns))
<1> DEFINE e == [c EXCEPT !.kubeNs = ns]
<1>1. e \in RunningCall /\ e.request = c.request /\ e.version = c.version
  BY DEF RunningCall
<1>2. KubeConfigFound(c, ns) = MutateClusterApp(e)
  BY DEF KubeConfigFound
<1> HIDE DEF e
<1> QED
  BY <1>1, <1>2, MutateClusterAppGoesOn, GoesOnFrom

LEMMA MutateConfigGoesOn ==
  ASSUME NEW c \in RunningCall
  PROVE  GoesOn(c, MutateConfigForPSPRemoval(c))
<1> DEFINE e == [c EXCEPT !.psp = "label"]
<1>1. e \in RunningCall /\ e.request = c.request /\ e.version = c.version
  BY DEF RunningCall
<1>2. MutateConfigForPSPRemoval(c) \in
        {Answer(c, "unsupported provider"), MutateKubeConfig(c),
         Await(e, "GetConfigMap"), Await(c, "ListClusters")}
  BY DEF MutateConfigForPSPRemoval
<1> HIDE DEF e
<1>3. GoesOn(c, Answer(c, "unsupported provider"))
  BY AnswerGoesOn DEF Outcomes
<1>4. GoesOn(c, Await(c, "ListClusters"))
  BY AwaitGoesOn DEF ApiCalls
<1>5. GoesOn(c, Await(e, "GetConfigMap"))
  BY <1>1, AwaitGoesOn, GoesOnFrom DEF ApiCalls
<1> QED
  BY <1>2, <1>3, <1>4, <1>5, MutateKubeConfigGoesOn

\* The gate itself.
LEMMA VersionKnownGates ==
  ASSUME NEW c \in RunningCall, NEW versions, NEW v \in VersionLabels \cup {None},
         v = IF DefaultsVersion(c.request.app) THEN versions[c.request.app.ns]
             ELSE VersionLabel(c.request.app)
  PROVE  Gated(VersionKnown(c, v), versions)
<1> DEFINE app == c.request.app
           e == [c EXCEPT !.version = v]
           Ends(d) == d.request = c.request /\ d.version = v /\ d.pc = "answered"
<1>1. e \in RunningCall /\ e.request = c.request /\ e.version = v
  BY DEF RunningCall
<1>2. /\ VersionKnown(c, v) = IF UnreadableVersion(app, v) THEN Answer(e, "nothing")
                              ELSE IF LabelsOnly(app, v) THEN Answer(e, "labels")
                              ELSE MutateConfigForPSPRemoval(e)
  BY DEF VersionKnown
<1> HIDE DEF e
<1>3. \A o : Ends(Answer(e, o)) /\ Answer(e, o).outcome = o
  BY <1>1 DEF Answer, RunningCall
<1>4. CASE UnreadableVersion(app, v)
  <2>1. Unversioned(app)
    BY <1>4 DEF UnreadableVersion, Unversioned
  <2> QED
    BY <1>2, <1>3, <1>4, <2>1 DEF Gated, ApiCalls
<1>5. CASE ~UnreadableVersion(app, v) /\ LabelsOnly(app, v)
  BY <1>2, <1>3, <1>5 DEF Gated, ApiCalls, Readable
<1>6. CASE ~UnreadableVersion(app, v) /\ ~LabelsOnly(app, v)
  <2>1. Passed(e, versions)
    BY <1>1, <1>6 DEF Passed, Readable
  <2> QED
    BY <1>1, <1>2, <1>6, <2>1, MutateConfigGoesOn, PassedIsGated
<1> QED
  BY <1>4, <1>5, <1>6

LEMMA MutateGates ==
  ASSUME NEW r \in Request, NEW versions
  PROVE  Gated(Mutate(r), versions)
<1> DEFINE c == Received(r)
           d == Await(c, "GetChartOperatorApp")
           n == Answer(c, "nothing")
<1>1. c \in RunningCall /\ c.request = r
  BY DEF Received, RunningCall, MaxAttempts
<1>2. d.pc = "GetChartOperatorApp" /\ d.request = r /\ d.outcome = "none"
  BY DEF Await, Received
<1>3. n.pc = "answered" /\ n.request = r /\ n.outcome = "nothing"
  BY DEF Answer, Received
<1>4. \/ Mutate(r) = n /\ (r.dryRun \/ r.app.deleting)
      \/ Mutate(r) = d /\ DefaultsVersion(r.app)
      \/ Mutate(r) = VersionKnown(c, VersionLabel(r.app)) /\ ~DefaultsVersion(r.app)
  BY <1>1 DEF Mutate, MutateApplication
<1> HIDE DEF c, d, n
<1>5. r.dryRun \/ r.app.deleting => Gated(n, versions)
  BY <1>3 DEF Gated, ApiCalls
<1>6. DefaultsVersion(r.app) => Gated(d, versions)
  BY <1>2 DEF Gated
<1>7. ~DefaultsVersion(r.app) => Gated(VersionKnown(c, VersionLabel(r.app)), versions)
  BY <1>1, RequestFields, VersionKnownGates
<1> QED
  BY <1>4, <1>5, <1>6, <1>7

\* An API call made after that leaves the version as it is.
LEMMA CallGoesOn ==
  ASSUME IInv, NEW w \in Workers, Serve(w) \/ Fail(w),
         call[w].pc # "GetChartOperatorApp"
  PROVE  \E c : Step(w, c) /\ GoesOn(call[w], c)
<1> DEFINE Goal == \E c : Step(w, c) /\ GoesOn(call[w], c)
<1>0. call[w] \in RunningCall /\ call[w].request \in Request
  BY ServedWaits, WaitingCall
<1>1. ASSUME NEW o \in Outcomes \ {"nothing", "labels"}, Step(w, Answer(call[w], o))
      PROVE  Goal
  BY <1>0, <1>1, AnswerGoesOn
<1>2. ASSUME Step(w, MutateKubeConfig(call[w])) PROVE Goal
  BY <1>0, <1>2, MutateKubeConfigGoesOn
<1>3. ASSUME NEW p \in ApiCalls \ {"GetChartOperatorApp"}, Step(w, Await(call[w], p))
      PROVE  Goal
  BY <1>0, <1>3, AwaitGoesOn
<1>4. ASSUME NEW e \in RunningCall, e.request = call[w].request,
             e.version = call[w].version,
             \/ \E p \in ApiCalls \ {"GetChartOperatorApp"} : Step(w, Await(e, p))
             \/ Step(w, Answer(e, "full"))
      PROVE  Goal
  <2>1. GoesOn(call[w], Answer(e, "full"))
    BY <1>4, AnswerGoesOn, GoesOnFrom DEF Outcomes
  <2>2. \A p \in ApiCalls \ {"GetChartOperatorApp"} : GoesOn(call[w], Await(e, p))
    BY <1>4, AwaitGoesOn, GoesOnFrom
  <2> QED
    BY <1>4, <2>1, <2>2
<1>5. ASSUME call[w].pc = "GetUserValues", Step(w, RetryUserValues(call[w])) PROVE Goal
  <2> DEFINE d == [call[w] EXCEPT !.attempts = @ + 1]
  <2>1. GoesOn(call[w], d)
    BY <1>0, <1>5 DEF RunningCall, GoesOn
  <2>2. RetryUserValues(call[w]) \in {Answer(call[w], "no user values"), d}
    BY DEF RetryUserValues
  <2> HIDE DEF d
  <2>3. CASE Step(w, Answer(call[w], "no user values"))
    BY <1>1, <2>3 DEF Outcomes
  <2> QED
    BY <1>5, <2>1, <2>2, <2>3
<1>6. ASSUME NEW ns \in Namespaces \cup {None}, Step(w, KubeConfigFound(call[w], ns))
      PROVE  Goal
  BY <1>0, <1>6, KubeConfigFoundGoesOn
<1>7. CASE ListClusters(w)
  <2> DEFINE e == [call[w] EXCEPT !.psp = "entry"]
  <2>1. e \in RunningCall /\ e.request = call[w].request /\ e.version = call[w].version
    BY <1>0 DEF RunningCall
  <2>2. \/ Step(w, Answer(call[w], "psp undecided"))
        \/ Step(w, Await(e, "GetConfigMap"))
        \/ Step(w, MutateKubeConfig(call[w]))
    BY <1>7 DEF ListClusters
  <2> HIDE DEF e
  <2>3. CASE Step(w, Answer(call[w], "psp undecided"))
    BY <1>1, <2>3 DEF Outcomes
  <2>4. CASE Step(w, Await(e, "GetConfigMap"))
    BY <1>4, <2>1, <2>4 DEF ApiCalls
  <2> QED
    BY <1>2, <2>2, <2>3, <2>4
<1>8. CASE GetConfigMap(w)
  BY <1>2, <1>3, <1>8 DEF GetConfigMap, ApiCalls
<1>9. CASE CreateConfigMap(w) \/ UpdateConfigMap(w)
  BY <1>1, <1>2, <1>9 DEF CreateConfigMap, UpdateConfigMap, Outcomes
<1>10. CASE GetSecret(w)
  BY <1>0, <1>3, <1>6, <1>10, RequestFields DEF GetSecret, ApiCalls
<1>11. CASE ListSecrets(w)
  <2>1. \E ns \in Namespaces \cup {None} : Step(w, KubeConfigFound(call[w], ns))
    BY <1>11 DEF ListSecrets, KubeConfigCandidates, IInv, TypeOK, Secret
  <2> QED
    BY <1>6, <2>1
<1>12. CASE GetUserValues(w)
  <2> DEFINE values == userValues[call[w].request.app.name]
             d == Await([call[w] EXCEPT !.release = values], "GetRelease")
  <2>1. GoesOn(call[w], d)
    BY <1>0 DEF Await, RunningCall, GoesOn
  <2>2. /\ call[w].pc = "GetUserValues"
        /\ \/ Step(w, RetryUserValues(call[w]))
           \/ Step(w, Answer(call[w], "full"))
           \/ Step(w, Answer(call[w], "invalid user values"))
           \/ Step(w, d)
    BY <1>12 DEF GetUserValues
  <2> HIDE DEF d
  <2>3. CASE Step(w, Answer(call[w], "full")) \/ Step(w, Answer(call[w], "invalid user values"))
    BY <1>1, <2>3 DEF Outcomes
  <2> QED
    BY <1>5, <2>1, <2>2, <2>3
<1>13. CASE GetRelease(w)
  <2> DEFINE component == Releases[<<call[w].request.app.specName, call[w].release>>]
             d == Answer([call[w] EXCEPT !.component = component], "full")
  <2>1. GoesOn(call[w], d)
    BY <1>0 DEF Answer, RunningCall, GoesOn
  <2>2. \/ Step(w, Answer(call[w], "no release"))
        \/ Step(w, Answer(call[w], "no cluster app version"))
        \/ Step(w, d)
    BY <1>13 DEF GetRelease
  <2> HIDE DEF d
  <2>3. CASE \/ Step(w, Answer(call[w], "no release"))
             \/ Step(w, Answer(call[w], "no cluster app version"))
    BY <1>1, <2>3 DEF Outcomes
  <2> QED
    BY <2>1, <2>2, <2>3
<1>14. CASE Fail(w)
  <2>1. \/ Step(w, Answer(call[w], "API error"))
        \/ Step(w, KubeConfigFound(call[w], None))
        \/ call[w].pc = "GetUserValues" /\ Step(w, RetryUserValues(call[w]))
    BY <1>14 DEF Fail, CallFails, WriteAnswerLost, GetSecretFails, GetUserValuesFails
  <2>2. CASE Step(w, Answer(call[w], "API error"))
    BY <1>1, <2>2 DEF Outcomes
  <2> QED
    BY <1>5, <1>6, <2>1, <2>2
<1> QED
  BY <1>7, <1>8, <1>9, <1>10, <1>11, <1>12, <1>13, <1>14 DEF Serve, GetChartOperatorAppVersion

LEMMA CallGates ==
  ASSUME IInv, NEW w \in Workers, Serve(w) \/ Fail(w), Gated(call[w], chartOperator)
  PROVE  \E c : Step(w, c) /\ Gated(c, chartOperator)
<1>0. call[w].pc \in ApiCalls /\ call[w] \in RunningCall /\ call[w].request \in Request
  BY ServedWaits, WaitingCall
<1>1. CASE call[w].pc # "GetChartOperatorApp"
  <2>1. Passed(call[w], chartOperator)
    BY <1>0, <1>1 DEF Gated
  <2> QED
    BY <1>1, <2>1, CallGoesOn, PassedIsGated
<1>2. CASE call[w].pc = "GetChartOperatorApp"
  <2> DEFINE v == chartOperator[call[w].request.app.ns]
             n == Answer(call[w], "nothing")
             f == Answer(call[w], "API error")
  <2>1. DefaultsVersion(call[w].request.app)
    BY <1>2 DEF Gated
  <2>2. v \in VersionLabels \cup {None}
    BY <1>0, RequestFields DEF IInv, TypeOK
  <2>3. \/ Step(w, n)
        \/ Step(w, VersionKnown(call[w], v))
        \/ Step(w, f)
    BY <1>2 DEF Serve, Fail, GetChartOperatorAppVersion, ListClusters, GetConfigMap,
       CreateConfigMap, UpdateConfigMap, GetSecret, ListSecrets, GetUserValues, GetRelease,
       CallFails, WriteAnswerLost, GetSecretFails, GetUserValuesFails
  <2>4. /\ n.pc = "answered" /\ n.request = call[w].request /\ n.outcome = "nothing"
        /\ f.pc = "answered" /\ f.request = call[w].request /\ f.outcome = "API error"
    BY <1>0 DEF Answer, RunningCall
  <2>5. Gated(VersionKnown(call[w], v), chartOperator)
    BY <1>0, <2>1, <2>2, VersionKnownGates
  <2> HIDE DEF n, f
  <2>6. Gated(n, chartOperator) /\ Gated(f, chartOperator)
    BY <2>1, <2>4 DEF Gated, ApiCalls, Unversioned, DefaultsVersion
  <2> QED
    BY <2>3, <2>5, <2>6
<1> QED
  BY <1>1, <1>2

\* The version label of a chart-operator App that is there does not change.
LEMMA GatedStays ==
  ASSUME IInv, EnvironmentNext, NEW c, c.request \in Request, Gated(c, chartOperator)
  PROVE  Gated(c, chartOperator')
<1> DEFINE app == c.request.app
<1>1. app.ns \in Namespaces
  BY RequestFields
<1>2. chartOperator[app.ns] # None => chartOperator'[app.ns] = chartOperator[app.ns]
  <2>1. DOMAIN chartOperator = Namespaces
    BY DEF IInv, TypeOK
  <2>2. \/ chartOperator' = chartOperator
        \/ \E ns \in Namespaces, e \in Environments : ChartOperatorInstalled(ns, e)
    BY DEF EnvironmentNext, ClusterAppears, ClusterStopsPsps, SecretCreated, UserValuesApplied
  <2> QED
    BY <1>1, <2>1, <2>2 DEF ChartOperatorInstalled
<1>3. Readable(c, chartOperator) => Readable(c, chartOperator')
  <2>1. ASSUME Readable(c, chartOperator), DefaultsVersion(app)
        PROVE  chartOperator[app.ns] # None
    <3>1. c.version = chartOperator[app.ns] /\ c.version \in DOMAIN Major
      BY <2>1 DEF Readable, UnreadableVersion, DefaultsVersion
    <3> QED
      BY <3>1, NamesAssumption, VersionsAssumption
  <2> QED
    BY <1>2, <2>1 DEF Readable
<1> QED
  BY <1>3 DEF Gated, Passed

LEMMA AnyStepGated == IInv /\ AllGated /\ AnyStep => AllGated'
<1> SUFFICES ASSUME IInv, AllGated, AnyStep, NEW v \in Workers, (call[v] # Idle)'
             PROVE  Gated(call'[v], chartOperator')
  BY DEF AllGated
<1>0. call \in [Workers -> {Idle} \cup ActiveCall]
  BY DEF IInv, TypeOK
<1>1. ASSUME NEW w \in Workers, NEW c, Step(w, c), UNCHANGED chartOperator,
             c = Idle \/ Gated(c, chartOperator)
      PROVE  Gated(call'[v], chartOperator')
  <2>1. call'[v] = IF v = w THEN c ELSE call[v]
    BY <1>0, <1>1 DEF Step
  <2>2. Gated(call'[v], chartOperator)
    BY <1>1, <2>1 DEF AllGated
  <2> QED
    BY <1>1, <2>2
<1>2. ASSUME NEW w \in Workers, NEW r \in Request, Receive(w, r)
      PROVE  Gated(call'[v], chartOperator')
  <2>1. Gated(Mutate(r), chartOperator)
    BY MutateGates
  <2> QED
    BY <1>1, <1>2, <2>1 DEF Receive, Reads, environment
<1>3. ASSUME NEW w \in Workers, Serve(w) \/ Fail(w)
      PROVE  Gated(call'[v], chartOperator')
  <2>1. UNCHANGED chartOperator
    BY <1>3, WebhookTypes DEF environment
  <2>2. call[w] # Idle
    BY <1>3, ServedWaits
  <2>3. PICK c : Step(w, c) /\ Gated(c, chartOperator)
    BY <1>3, <2>2, CallGates DEF AllGated
  <2> QED
    BY <1>1, <2>1, <2>3
<1>4. ASSUME NEW w \in Workers, Drop(w)
      PROVE  Gated(call'[v], chartOperator')
  BY <1>1, <1>4 DEF Drop, environment
<1>5. CASE EnvironmentNext
  <2>1. call' = call
    BY <1>5 DEF EnvironmentNext
  <2>2. call[v].request \in Request /\ Gated(call[v], chartOperator)
    BY <2>1, ServedRequest DEF AllGated
  <2> QED
    BY <1>5, <2>1, <2>2, GatedStays
<1>6. CASE Disturb
  BY <1>6 DEF Disturb, environment, AllGated
<1> QED
  BY <1>2, <1>3, <1>4, <1>5, <1>6 DEF AnyStep

-----------------------------------------------------------------------------
(* What a request has left undone, and why, while no other controller      *)
(* changes the cluster.                                                    *)

\* What requests look at and do not change.
Surroundings ==
  [provider |-> provider, clusters |-> clusters, chartOperator |-> chartOperator,
   secrets |-> secrets, userValues |-> userValues]

\* The version an App is mutated for.
OwnVersion(app, q) ==
  IF DefaultsVersion(app) THEN q.chartOperator[app.ns] ELSE VersionLabel(app)

\* No kubeconfig of the App is anywhere.
NoKubeConfig(app, q) == \A ns \in Namespaces : ~HasKubeConfig(app, ns, q.secrets)

\* The entry is added to Apps without it; an App is left alone outside of
\* workload clusters, or without the entry in a cluster that serves PSPs.
EntryWeighed(c, q) ==
  LET app == c.request.app
      had == PspEntry(app) \in Entries(app)
  IN  /\ c.psp = "entry" => ~had
      /\ c.psp = "none" => \/ OutsideWorkloadClusters(app)
                           \/ ~had /\ ~Stopped(q.provider, q.clusters, app)

KubeConfigSought(c, q) ==
  c.kubeNs = None => KeepsKubeConfig(c.request.app) \/ NoKubeConfig(c.request.app, q)

LeftUndone(c, q) ==
  LET app == c.request.app
  IN  /\ c.outcome = "nothing" => \/ c.request.dryRun \/ app.deleting
                                  \/ UnreadableVersion(app, OwnVersion(app, q))
      /\ c.pc = "ListClusters" \/ c.psp = "entry" => PspEntry(app) \notin Entries(app)
      /\ c.pc \in AfterEnsure \/ Fully(c) => EntryWeighed(c, q)
      /\ c.pc = "ListSecrets" => ~HasKubeConfig(app, app.ns, q.secrets)
      /\ c.pc \in {"GetUserValues", "GetRelease"} \/ Fully(c) => KubeConfigSought(c, q)

AllLeftUndone == \A w \in Workers : call[w] # Idle => LeftUndone(call[w], Surroundings)

\* A rejection, or an answer that changes labels at most.
LEMMA AnswerUndone ==
  ASSUME NEW c \in RunningCall, NEW q, NEW o \in Outcomes \ {"nothing", "full"},
         c.psp = "entry" => PspEntry(c.request.app) \notin Entries(c.request.app)
  PROVE  LeftUndone(Answer(c, o), q)
<1> DEFINE d == Answer(c, o)
<1>1. /\ d.pc = "answered" /\ d.outcome = o
      /\ d.psp = c.psp /\ d.request = c.request
  BY DEF Answer, RunningCall
<1> HIDE DEF d
<1>2. LeftUndone(d, q)
  BY <1>1 DEF LeftUndone, AfterEnsure, Fully
<1> QED
  BY <1>2 DEF d

\* After the kubeconfig.
LEMMA MutateClusterAppUndone ==
  ASSUME NEW c \in RunningCall, NEW q, EntryWeighed(c, q), KubeConfigSought(c, q)
  PROVE  LeftUndone(MutateClusterApp(c), q)
<1> DEFINE d == MutateClusterApp(c)
<1>1. /\ d.pc = "GetUserValues" \/ (d.pc = "answered" /\ d.outcome = "full")
      /\ d.outcome # "nothing"
      /\ d.psp = c.psp /\ d.request = c.request /\ d.kubeNs = c.kubeNs
  BY DEF MutateClusterApp, Await, Answer, RunningCall
<1> HIDE DEF d
<1>2. EntryWeighed(d, q) /\ KubeConfigSought(d, q)
  BY <1>1 DEF EntryWeighed, KubeConfigSought
<1>3. d.pc \notin {"ListClusters", "ListSecrets"}
  BY <1>1
<1>4. d.psp = "entry" => PspEntry(d.request.app) \notin Entries(d.request.app)
  BY <1>2 DEF EntryWeighed
<1>5. LeftUndone(d, q)
  BY <1>1, <1>2, <1>3, <1>4 DEF LeftUndone
<1> QED
  BY <1>5 DEF d

\* After PSP removal.
LEMMA MutateKubeConfigUndone ==
  ASSUME NEW c \in RunningCall, NEW q, EntryWeighed(c, q)
  PROVE  LeftUndone(MutateKubeConfig(c), q)
<1>1. CASE KeepsKubeConfig(c.request.app)
  BY <1>1, MutateClusterAppUndone DEF MutateKubeConfig, KubeConfigSought
<1>2. CASE ~KeepsKubeConfig(c.request.app)
  <2> DEFINE d == Await(c, "GetSecret")
  <2>1. /\ d.pc = "GetSecret" /\ d.outcome = "none"
        /\ d.psp = c.psp /\ d.request = c.request
    BY DEF Await, RunningCall
  <2>2. MutateKubeConfig(c) = d
    BY <1>2 DEF MutateKubeConfig
  <2> HIDE DEF d
  <2> QED
    BY <2>1, <2>2 DEF LeftUndone, EntryWeighed, Fully
<1> QED
  BY <1>1, <1>2

LEMMA KubeConfigFoundUndone ==
  ASSUME NEW c \in RunningCall, NEW q, EntryWeighed(c, q),
         NEW ns \in Namespaces \cup {None}, ns = None => NoKubeConfig(c.request.app, q)
  PROVE  LeftUndone(KubeConfigFound(c, ns), q)
<1> DEFINE e == [c EXCEPT !.kubeNs = ns]
<1>1. /\ e \in RunningCall
      /\ e.request = c.request /\ e.psp = c.psp /\ e.kubeNs = ns
  BY DEF RunningCall
<1>2. KubeConfigFound(c, ns) = MutateClusterApp(e)
  BY DEF KubeConfigFound
<1> HIDE DEF e
<1>3. EntryWeighed(e, q) /\ KubeConfigSought(e, q)
  BY <1>1 DEF EntryWeighed, KubeConfigSought
<1> QED
  BY <1>1, <1>2, <1>3, MutateClusterAppUndone

LEMMA MutateConfigUndone ==
  ASSUME NEW c \in RunningCall, NEW q, c.psp = "none"
  PROVE  LeftUndone(MutateConfigForPSPRemoval(c), q)
<1> DEFINE app == c.request.app
           l == Await([c EXCEPT !.psp = "label"], "GetConfigMap")
           e == Await(c, "ListClusters")
<1>1. /\ l.pc = "GetConfigMap" /\ l.outcome = "none" /\ l.psp = "label"
      /\ e.pc = "ListClusters" /\ e.outcome = "none" /\ e.psp = "none"
      /\ l.request = c.request /\ e.request = c.request
  BY DEF Await, RunningCall
<1>2. \/ MutateConfigForPSPRemoval(c) = Answer(c, "unsupported provider")
      \/ MutateConfigForPSPRemoval(c) = MutateKubeConfig(c) /\ OutsideWorkloadClusters(app)
      \/ MutateConfigForPSPRemoval(c) = l
      \/ MutateConfigForPSPRemoval(c) = e /\ PspEntry(app) \notin Entries(app)
  BY DEF MutateConfigForPSPRemoval
<1> HIDE DEF l, e
<1>3. LeftUndone(Answer(c, "unsupported provider"), q)
  BY AnswerUndone DEF Outcomes
<1>4. OutsideWorkloadClusters(app) => LeftUndone(MutateKubeConfig(c), q)
  BY MutateKubeConfigUndone DEF EntryWeighed
<1>5. LeftUndone(l, q)
  BY <1>1 DEF LeftUndone, AfterEnsure, Fully
<1>6. PspEntry(app) \notin Entries(app) => LeftUndone(e, q)
  BY <1>1 DEF LeftUndone, AfterEnsure, Fully
<1> QED
  BY <1>2, <1>3, <1>4, <1>5, <1>6

LEMMA VersionKnownUndone ==
  ASSUME NEW c \in RunningCall, NEW q, c.psp = "none",
         NEW v \in VersionLabels \cup {None}, v = OwnVersion(c.request.app, q)
  PROVE  LeftUndone(VersionKnown(c, v), q)
<1> DEFINE app == c.request.app
           e == [c EXCEPT !.version = v]
           n == Answer(e, "nothing")
<1>1. e \in RunningCall /\ e.request = c.request /\ e.psp = "none"
  BY DEF RunningCall
<1>2. VersionKnown(c, v) = IF UnreadableVersion(app, v) THEN n
                           ELSE IF LabelsOnly(app, v) THEN Answer(e, "labels")
                           ELSE MutateConfigForPSPRemoval(e)
  BY DEF VersionKnown
<1>3. /\ n.pc = "answered" /\ n.outcome = "nothing"
      /\ n.psp = "none" /\ n.request = c.request
  BY <1>1 DEF Answer, RunningCall
<1> HIDE DEF e, n
<1>4. UnreadableVersion(app, v) => LeftUndone(n, q)
  BY <1>3 DEF LeftUndone, AfterEnsure, Fully
<1>5. LeftUndone(Answer(e, "labels"), q)
  BY <1>1, AnswerUndone DEF Outcomes
<1>6. LeftUndone(MutateConfigForPSPRemoval(e), q)
  BY <1>1, MutateConfigUndone
<1> QED
  BY <1>2, <1>4, <1>5, <1>6

LEMMA MutateUndone ==
  ASSUME NEW r \in Request, NEW q
  PROVE  LeftUndone(Mutate(r), q)
<1> DEFINE c == Received(r)
           d == Await(c, "GetChartOperatorApp")
           n == Answer(c, "nothing")
<1>1. c \in RunningCall /\ c.request = r /\ c.psp = "none"
  BY DEF Received, RunningCall, MaxAttempts
<1>2. d.pc = "GetChartOperatorApp" /\ d.psp = "none" /\ d.outcome = "none"
  BY DEF Await, Received
<1>3. n.pc = "answered" /\ n.request = r /\ n.outcome = "nothing" /\ n.psp = "none"
  BY DEF Answer, Received
<1>4. \/ Mutate(r) = n /\ (r.dryRun \/ r.app.deleting)
      \/ Mutate(r) = d
      \/ Mutate(r) = VersionKnown(c, VersionLabel(r.app)) /\ ~DefaultsVersion(r.app)
  BY <1>1 DEF Mutate, MutateApplication
<1> HIDE DEF c, d, n
<1>5. r.dryRun \/ r.app.deleting => LeftUndone(n, q)
  BY <1>3 DEF LeftUndone, AfterEnsure, Fully
<1>6. LeftUndone(d, q)
  BY <1>2 DEF LeftUndone, AfterEnsure, Fully
<1>7. ~DefaultsVersion(r.app) => LeftUndone(VersionKnown(c, VersionLabel(r.app)), q)
  BY <1>1, RequestFields, VersionKnownUndone DEF OwnVersion
<1> QED
  BY <1>4, <1>5, <1>6, <1>7


\* An API call that is answered.  A failed lookup of the kubeconfig passes for
\* one that has found none; every other failure rejects the App or is retried.
LEMMA CallUndone ==
  ASSUME IInv, NEW w \in Workers, Serve(w) \/ Fail(w), ~GetSecretFails(w),
         Gated(call[w], chartOperator), NEW q, q = Surroundings,
         LeftUndone(call[w], q)
  PROVE  \E c : Step(w, c) /\ LeftUndone(c, q)
<1> DEFINE Goal == \E c : Step(w, c) /\ LeftUndone(c, q)
           app == call[w].request.app
<1>q. /\ q.provider = provider /\ q.clusters = clusters
      /\ q.chartOperator = chartOperator /\ q.secrets = secrets
  BY DEF Surroundings
<1>0. /\ call[w].pc \in ApiCalls /\ call[w] \in RunningCall /\ Sound(call[w])
      /\ call[w].request \in Request /\ app.ns \in Namespaces
      /\ LeftUndone(call[w], q)
  BY ServedWaits, WaitingCall, RequestFields
<1>1. /\ call[w].psp = "entry" => PspEntry(app) \notin Entries(app)
      /\ call[w].pc \in AfterEnsure => EntryWeighed(call[w], q)
  BY <1>0 DEF LeftUndone
<1>2. ASSUME NEW o \in Outcomes \ {"nothing", "full"}, Step(w, Answer(call[w], o))
      PROVE  Goal
  BY <1>0, <1>1, <1>2, AnswerUndone
<1>3. ASSUME Step(w, MutateKubeConfig(call[w])), EntryWeighed(call[w], q) PROVE Goal
  BY <1>0, <1>3, MutateKubeConfigUndone
<1>4. ASSUME NEW ns \in Namespaces \cup {None}, Step(w, KubeConfigFound(call[w], ns)),
             call[w].pc \in AfterEnsure, ns = None => NoKubeConfig(app, q)
      PROVE  Goal
  BY <1>0, <1>1, <1>4, KubeConfigFoundUndone
<1>5. ASSUME NEW c, Step(w, c), c.pc \in {"GetUserValues", "GetRelease"} \/ Fully(c),
             c.outcome # "nothing", c.psp = call[w].psp, c.kubeNs = call[w].kubeNs,
             c.request = call[w].request, call[w].pc \in {"GetUserValues", "GetRelease"}
      PROVE  Goal
  <2>1. EntryWeighed(call[w], q) /\ KubeConfigSought(call[w], q)
    BY <1>0, <1>5 DEF LeftUndone, AfterEnsure
  <2>2. EntryWeighed(c, q) /\ KubeConfigSought(c, q)
    BY <1>5, <2>1 DEF EntryWeighed, KubeConfigSought
  <2>3. c.psp = "entry" => PspEntry(c.request.app) \notin Entries(c.request.app)
    BY <2>2 DEF EntryWeighed
  <2>4. c.pc \notin {"ListClusters", "ListSecrets"}
    BY <1>5 DEF Fully
  <2>5. LeftUndone(c, q)
    BY <1>5, <2>2, <2>3, <2>4 DEF LeftUndone
  <2> QED
    BY <1>5, <2>5
<1>6. ASSUME call[w].pc = "GetUserValues", Step(w, RetryUserValues(call[w])) PROVE Goal
  <2> DEFINE d == [call[w] EXCEPT !.attempts = @ + 1]
  <2>1. /\ d.pc = "GetUserValues" /\ d.outcome # "nothing" /\ d.psp = call[w].psp
        /\ d.kubeNs = call[w].kubeNs /\ d.request = call[w].request
    BY <1>0, <1>6 DEF RunningCall
  <2>2. RetryUserValues(call[w]) \in {Answer(call[w], "no user values"), d}
    BY DEF RetryUserValues
  <2> HIDE DEF d
  <2>3. CASE Step(w, Answer(call[w], "no user values"))
    BY <1>2, <2>3 DEF Outcomes
  <2>4. CASE Step(w, d)
    BY <1>5, <1>6, <2>1, <2>4
  <2> QED
    BY <1>6, <2>2, <2>3, <2>4
<1>7. ASSUME NEW e \in RunningCall, NEW p \in {"GetConfigMap", "CreateConfigMap", "UpdateConfigMap"},
             Step(w, Await(e, p)), e.request = call[w].request,
             e.psp = "entry" => PspEntry(app) \notin Entries(app)
      PROVE  Goal
  <2> DEFINE d == Await(e, p)
  <2>1. /\ d.pc = p /\ d.outcome = "none"
        /\ d.psp = e.psp /\ d.request = call[w].request
    BY <1>7 DEF Await, RunningCall
  <2> HIDE DEF d
  <2>2. LeftUndone(d, q)
    BY <1>7, <2>1 DEF LeftUndone, AfterEnsure, Fully
  <2> QED
    BY <1>7, <2>2 DEF d
<1>8. CASE GetChartOperatorAppVersion(w)
  <2> DEFINE v == chartOperator[app.ns]
             n == Answer(call[w], "nothing")
  <2>1. call[w].pc = "GetChartOperatorApp" /\ call[w].psp = "none" /\ DefaultsVersion(app)
    BY <1>0, <1>8 DEF GetChartOperatorAppVersion, Sound, Gated
  <2>2. v \in VersionLabels \cup {None} /\ v = OwnVersion(app, q)
    BY <1>0, <1>q, <2>1 DEF IInv, TypeOK, OwnVersion
  <2>3. CASE v = None
    <3>1. UnreadableVersion(app, OwnVersion(app, q))
      BY <2>1, <2>2, <2>3, NamesAssumption, VersionsAssumption
         DEF UnreadableVersion, DefaultsVersion
    <3>2. /\ n.pc = "answered" /\ n.request = call[w].request
          /\ n.outcome = "nothing" /\ n.psp = "none"
      BY <1>0, <2>1 DEF Answer, RunningCall
    <3>3. Step(w, n)
      BY <1>8, <2>3 DEF GetChartOperatorAppVersion
    <3> HIDE DEF n
    <3>4. LeftUndone(n, q)
      BY <3>1, <3>2 DEF LeftUndone, AfterEnsure, Fully
    <3> QED
      BY <3>3, <3>4
  <2>4. CASE v # None
    <3>1. Step(w, VersionKnown(call[w], v))
      BY <1>8, <2>4 DEF GetChartOperatorAppVersion
    <3>2. LeftUndone(VersionKnown(call[w], v), q)
      BY <1>0, <2>1, <2>2, VersionKnownUndone
    <3> QED
      BY <3>1, <3>2
  <2> QED
    BY <2>3, <2>4
<1>9. CASE ListClusters(w)
  <2> DEFINE cr == clusters[ClusterLabel(app)]
             e == [call[w] EXCEPT !.psp = "entry"]
  <2>1. /\ call[w].pc = "ListClusters" /\ call[w].psp = "none"
        /\ PspEntry(app) \notin Entries(app)
    BY <1>0, <1>9 DEF ListClusters, Sound, LeftUndone
  <2>2. e \in RunningCall /\ e.request = call[w].request /\ e.psp = "entry"
    BY <1>0 DEF RunningCall
  <2>3. \/ Step(w, Answer(call[w], "psp undecided"))
        \/ Step(w, Await(e, "GetConfigMap"))
        \/ /\ Step(w, MutateKubeConfig(call[w]))
           /\ ~Undecidable(provider, cr) /\ ~EnforcesPss(provider, cr)
    BY <1>9 DEF ListClusters
  <2> HIDE DEF e
  <2>4. CASE Step(w, Answer(call[w], "psp undecided"))
    BY <1>2, <2>4 DEF Outcomes
  <2>5. CASE Step(w, Await(e, "GetConfigMap"))
    BY <1>7, <2>1, <2>2, <2>5
  <2>6. CASE /\ Step(w, MutateKubeConfig(call[w]))
             /\ ~Undecidable(provider, cr) /\ ~EnforcesPss(provider, cr)
    <3>1. cr \in ClusterCR \cup {None}
      BY <1>0, <2>1, RequestFields DEF Sound, IInv, TypeOK
    <3>2. ~Stopped(q.provider, q.clusters, app)
      BY <1>q, <2>6, <3>1, UnenforcedIsServing DEF Stopped
    <3>3. EntryWeighed(call[w], q)
      BY <2>1, <3>2 DEF EntryWeighed
    <3> QED
      BY <1>3, <2>6, <3>3
  <2> QED
    BY <2>3, <2>4, <2>5, <2>6
<1>10. CASE GetConfigMap(w) \/ CreateConfigMap(w) \/ UpdateConfigMap(w)
  <2>1. call[w].psp # "none"
    BY <1>0, <1>10 DEF GetConfigMap, CreateConfigMap, UpdateConfigMap, Sound
  <2>2. EntryWeighed(call[w], q)
    BY <1>1, <2>1 DEF EntryWeighed
  <2>3. \/ Step(w, MutateKubeConfig(call[w]))
        \/ Step(w, Answer(call[w], "already exists"))
        \/ \E p \in {"CreateConfigMap", "UpdateConfigMap"} : Step(w, Await(call[w], p))
    BY <1>10 DEF GetConfigMap, CreateConfigMap, UpdateConfigMap
  <2>4. CASE Step(w, Answer(call[w], "already exists"))
    BY <1>2, <2>4 DEF Outcomes
  <2>5. CASE \E p \in {"CreateConfigMap", "UpdateConfigMap"} : Step(w, Await(call[w], p))
    BY <1>0, <1>1, <1>7, <2>5
  <2> QED
    BY <1>3, <2>2, <2>3, <2>4, <2>5
<1>11. CASE GetSecret(w)
  <2> DEFINE d == Await(call[w], "ListSecrets")
  <2>0. call[w].pc = "GetSecret" /\ call[w].pc \in AfterEnsure
    BY <1>11 DEF GetSecret, AfterEnsure
  <2>1. CASE HasKubeConfig(app, app.ns, secrets)
    <3>1. Step(w, KubeConfigFound(call[w], app.ns))
      BY <1>11, <2>1 DEF GetSecret, HasKubeConfig
    <3>2. app.ns # None
      BY <1>0, NamesAssumption
    <3> QED
      BY <1>0, <1>4, <2>0, <3>1, <3>2
  <2>2. CASE ~HasKubeConfig(app, app.ns, secrets)
    <3>1. Step(w, d)
      BY <1>11, <2>2 DEF GetSecret, HasKubeConfig
    <3>2. /\ d.pc = "ListSecrets" /\ d.outcome = "none"
          /\ d.psp = call[w].psp /\ d.request = call[w].request
      BY <1>0 DEF Await, RunningCall
    <3> HIDE DEF d
    <3>3. EntryWeighed(d, q)
      BY <1>1, <2>0, <3>2 DEF EntryWeighed
    <3>4. d.psp = "entry" => PspEntry(app) \notin Entries(app)
      BY <1>1, <3>2
    <3>5. LeftUndone(d, q)
      BY <1>q, <2>2, <3>2, <3>3, <3>4 DEF LeftUndone, Fully
    <3> QED
      BY <3>1, <3>5
  <2> QED
    BY <2>1, <2>2
<1>12. CASE ListSecrets(w)
  <2> DEFINE found == KubeConfigCandidates(app)
  <2>0. call[w].pc = "ListSecrets" /\ call[w].pc \in AfterEnsure
    BY <1>12 DEF ListSecrets, AfterEnsure
  <2>1. CASE \E s \in found : Step(w, KubeConfigFound(call[w], s.ns))
    <3>1. PICK s \in found : Step(w, KubeConfigFound(call[w], s.ns))
      BY <2>1
    <3>2. s.ns \in Namespaces
      BY DEF KubeConfigCandidates, IInv, TypeOK, Secret
    <3>3. s.ns # None
      BY <3>2, NamesAssumption
    <3> QED
      BY <1>4, <2>0, <3>1, <3>2, <3>3
  <2>2. CASE found = {} /\ Step(w, KubeConfigFound(call[w], None))
    <3>1. ~HasKubeConfig(app, app.ns, secrets)
      BY <1>0, <1>q, <2>0 DEF LeftUndone
    <3>2. \A s \in secrets : ~(s.cluster = app.ns /\ s.name = ClusterKubeConfigSecretName(app))
      BY <2>2 DEF KubeConfigCandidates
    <3>3. NoKubeConfig(app, q)
      BY <1>q, <3>1, <3>2 DEF NoKubeConfig, HasKubeConfig
    <3> QED
      BY <1>4, <2>0, <2>2, <3>3
  <2> QED
    BY <1>12, <2>1, <2>2 DEF ListSecrets
<1>13. CASE GetUserValues(w)
  <2> DEFINE values == userValues[app.name]
             d == Await([call[w] EXCEPT !.release = values], "GetRelease")
             f == Answer(call[w], "full")
  <2>1. /\ d.pc = "GetRelease" /\ d.outcome # "nothing" /\ d.psp = call[w].psp
        /\ d.kubeNs = call[w].kubeNs /\ d.request = call[w].request
        /\ Fully(f) /\ f.outcome # "nothing" /\ f.psp = call[w].psp
        /\ f.kubeNs = call[w].kubeNs /\ f.request = call[w].request
    BY <1>0 DEF Await, Answer, RunningCall, Fully
  <2>2. /\ call[w].pc = "GetUserValues"
        /\ \/ Step(w, RetryUserValues(call[w]))
           \/ Step(w, f)
           \/ Step(w, Answer(call[w], "invalid user values"))
           \/ Step(w, d)
    BY <1>13 DEF GetUserValues
  <2> HIDE DEF d, f
  <2>3. CASE Step(w, Answer(call[w], "invalid user values"))
    BY <1>2, <2>3 DEF Outcomes
  <2>4. CASE Step(w, f)
    BY <1>5, <2>1, <2>2, <2>4
  <2>5. CASE Step(w, d)
    BY <1>5, <2>1, <2>2, <2>5
  <2> QED
    BY <1>6, <2>2, <2>3, <2>4, <2>5
<1>14. CASE GetRelease(w)
  <2> DEFINE component == Releases[<<app.specName, call[w].release>>]
             d == Answer([call[w] EXCEPT !.component = component], "full")
  <2>1. /\ Fully(d) /\ d.outcome # "nothing" /\ d.psp = call[w].psp
        /\ d.kubeNs = call[w].kubeNs /\ d.request = call[w].request
    BY <1>0 DEF Answer, RunningCall, Fully
  <2>2. /\ call[w].pc = "GetRelease"
        /\ \/ Step(w, Answer(call[w], "no release"))
           \/ Step(w, Answer(call[w], "no cluster app version"))
           \/ Step(w, d)
    BY <1>14 DEF GetRelease
  <2> HIDE DEF d
  <2>3. CASE \/ Step(w, Answer(call[w], "no release"))
             \/ Step(w, Answer(call[w], "no cluster app version"))
    BY <1>2, <2>3 DEF Outcomes
  <2>4. CASE Step(w, d)
    BY <1>5, <2>1, <2>2, <2>4
  <2> QED
    BY <2>2, <2>3, <2>4
<1>15. CASE Fail(w)
  <2>1. \/ Step(w, Answer(call[w], "API error"))
        \/ call[w].pc = "GetUserValues" /\ Step(w, RetryUserValues(call[w]))
    BY <1>15 DEF Fail, CallFails, WriteAnswerLost, GetUserValuesFails
  <2>2. CASE Step(w, Answer(call[w], "API error"))
    BY <1>2, <2>2 DEF Outcomes
  <2> QED
    BY <1>6, <2>1, <2>2
<1>16. Goal
  BY <1>8, <1>9, <1>10, <1>11, <1>12, <1>13, <1>14, <1>15 DEF Serve
<1> QED
  BY <1>16

\* In a cluster no other controller is changing, and in which every lookup of a
\* kubeconfig is answered, that holds of every request at any time.
LEMMA AnyStepUndone ==
  ASSUME ~EnvironmentMoves, IInv, AllGated, AllLeftUndone, AnyStep,
         \A w \in Workers : ~GetSecretFails(w)
  PROVE  AllLeftUndone' /\ UNCHANGED Surroundings
<1>0. call \in [Workers -> {Idle} \cup ActiveCall]
  BY DEF IInv, TypeOK
<1>e. ~EnvironmentNext
  BY DEF EnvironmentNext
<1>q. UNCHANGED Surroundings
  <2>1. UNCHANGED <<provider, environment>>
    BY <1>e, WebhookTypes DEF AnyStep, Receive, Reads, Drop, Disturb
  <2> QED
    BY <2>1 DEF Surroundings, environment
<1> SUFFICES ASSUME NEW v \in Workers, (call[v] # Idle)'
             PROVE  LeftUndone(call'[v], Surroundings)
  BY <1>q DEF AllLeftUndone
<1>1. ASSUME NEW w \in Workers, NEW c, Step(w, c),
             c = Idle \/ LeftUndone(c, Surroundings)
      PROVE  LeftUndone(call'[v], Surroundings)
  <2>1. call'[v] = IF v = w THEN c ELSE call[v]
    BY <1>0, <1>1 DEF Step
  <2> QED
    BY <1>1, <2>1 DEF AllLeftUndone
<1>2. ASSUME NEW w \in Workers, NEW r \in Request, Receive(w, r)
      PROVE  LeftUndone(call'[v], Surroundings)
  BY <1>1, <1>2, MutateUndone DEF Receive
<1>3. ASSUME NEW w \in Workers, Serve(w) \/ Fail(w)
      PROVE  LeftUndone(call'[v], Surroundings)
  <2>1. call[w] # Idle
    BY <1>3, ServedWaits
  <2>2. PICK c : Step(w, c) /\ LeftUndone(c, Surroundings)
    BY <1>3, <2>1, CallUndone DEF AllGated, AllLeftUndone
  <2> QED
    BY <1>1, <2>2
<1>4. ASSUME NEW w \in Workers, Drop(w)
      PROVE  LeftUndone(call'[v], Surroundings)
  BY <1>1, <1>4 DEF Drop
<1>5. CASE Disturb
  BY <1>5 DEF Disturb, AllLeftUndone
<1> QED
  BY <1>e, <1>2, <1>3, <1>4, <1>5 DEF AnyStep
=============================================================================
