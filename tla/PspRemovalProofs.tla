------------------------- MODULE PspRemovalProofs -------------------------
(***************************************************************************)
(* Theorems about PSP removal in Mutator: for which Apps ConfigMaps are    *)
(* written and entries added, and that the answers keep the promise of     *)
(* ConfigMapContract.                                                      *)
(***************************************************************************)
EXTENDS MutatorProofs

\* What the code has made sure of about a request by the time it makes an API
\* call, asks for the Cluster CR, or has decided on PSP removal.
Cleared(c) ==
  /\ c.pc \in ApiCalls \/ c.psp # "none" =>
       /\ ~c.request.dryRun
       /\ ~(c.request.op = "UPDATE" /\ c.request.app.deleting)
  /\ c.pc = "ListClusters" \/ c.psp # "none" => ~OutsideWorkloadClusters(c.request.app)
  /\ c.psp = "label" => PspEntry(c.request.app) \in Entries(c.request.app)

Stopped(p, crs, app) == ServesNoPsps(p, crs[ClusterLabel(app)])

\* The entry is added on account of a Cluster CR that has been read, perhaps
\* long ago.
Justified ==
  \A w \in Workers : call[w] # Idle =>
    /\ Cleared(call[w])
    /\ call[w].psp = "entry" => Stopped(provider, clusters, call[w].request.app)

-----------------------------------------------------------------------------
(* The gates a request passes before its first API call.                   *)

\* An answer before PSP removal needs no gate.
LEMMA AnswerCleared ==
  ASSUME NEW c \in RunningCall, c.psp = "none", NEW o \in Outcomes \ {"none"}
  PROVE  Cleared(Answer(c, o)) /\ Answer(c, o).psp # "entry"
<1>1. Answer(c, o).pc = "answered" /\ Answer(c, o).psp = "none"
  BY AnswerSound
<1> QED
  BY <1>1 DEF Cleared, ApiCalls

\* PSP removal starts with Apps of workload clusters only.
LEMMA MutateConfigCleared ==
  ASSUME NEW c \in RunningCall, c.psp = "none", ~c.request.dryRun,
         ~(c.request.op = "UPDATE" /\ c.request.app.deleting)
  PROVE  /\ Cleared(MutateConfigForPSPRemoval(c))
         /\ MutateConfigForPSPRemoval(c).psp # "entry"
<1>1. CASE provider = "other"
  BY <1>1, AnswerCleared DEF MutateConfigForPSPRemoval, Outcomes
<1>2. CASE provider # "other" /\ OutsideWorkloadClusters(c.request.app)
  BY <1>2, MutateKubeConfigSound DEF MutateConfigForPSPRemoval, Cleared, AfterEnsure
<1>3. CASE /\ provider # "other"
           /\ ~OutsideWorkloadClusters(c.request.app)
           /\ PspEntry(c.request.app) \in Entries(c.request.app)
  <2> DEFINE d == Await([c EXCEPT !.psp = "label"], "GetConfigMap")
  <2>1. d.psp = "label" /\ d.request = c.request
    BY DEF Await, RunningCall
  <2>2. MutateConfigForPSPRemoval(c) = d
    BY <1>3 DEF MutateConfigForPSPRemoval
  <2> HIDE DEF d
  <2> QED
    BY <1>3, <2>1, <2>2 DEF Cleared
<1>4. CASE /\ provider # "other"
           /\ ~OutsideWorkloadClusters(c.request.app)
           /\ PspEntry(c.request.app) \notin Entries(c.request.app)
  <2> DEFINE d == Await(c, "ListClusters")
  <2>1. d.psp = "none" /\ d.request = c.request
    BY DEF Await, RunningCall
  <2>2. MutateConfigForPSPRemoval(c) = d
    BY <1>4 DEF MutateConfigForPSPRemoval
  <2> HIDE DEF d
  <2> QED
    BY <1>4, <2>1, <2>2 DEF Cleared
<1> QED
  BY <1>1, <1>2, <1>3, <1>4

\* So do the gates on the version before it.
LEMMA VersionKnownCleared ==
  ASSUME NEW c \in RunningCall, c.psp = "none", ~c.request.dryRun,
         ~(c.request.op = "UPDATE" /\ c.request.app.deleting),
         NEW v \in VersionLabels \cup {None}
  PROVE  Cleared(VersionKnown(c, v)) /\ VersionKnown(c, v).psp # "entry"
<1> DEFINE e == [c EXCEPT !.version = v]
<1>1. e \in RunningCall /\ e.psp = "none" /\ e.request = c.request
  BY DEF RunningCall
<1>2. VersionKnown(c, v) \in {Answer(e, "nothing"), Answer(e, "labels"),
                              MutateConfigForPSPRemoval(e)}
  BY DEF VersionKnown
<1> HIDE DEF e
<1>3. CASE VersionKnown(c, v) = MutateConfigForPSPRemoval(e)
  BY <1>1, <1>3, MutateConfigCleared
<1>4. ASSUME NEW o \in {"nothing", "labels"}, VersionKnown(c, v) = Answer(e, o)
      PROVE  Cleared(Answer(e, o)) /\ Answer(e, o).psp # "entry"
  BY <1>1, AnswerCleared DEF Outcomes
<1> QED
  BY <1>2, <1>3, <1>4

\* Dry runs and Apps being deleted are answered at once.
LEMMA MutateCleared ==
  ASSUME NEW r \in Request
  PROVE  Cleared(Mutate(r)) /\ Mutate(r).psp # "entry"
<1> DEFINE c == Received(r)
<1>1. c \in RunningCall /\ c.psp = "none" /\ c.request = r
  BY DEF Received, RunningCall, MaxAttempts
<1>2. \/ Mutate(r) = Answer(c, "nothing")
      \/ /\ Mutate(r) = MutateApplication(c)
         /\ ~r.dryRun
         /\ ~(r.op = "UPDATE" /\ r.app.deleting)
  BY DEF Mutate
<1> HIDE DEF c
<1>3. VersionLabel(r.app) \in VersionLabels \cup {None}
  BY RequestFields
<1>4. CASE Mutate(r) = Answer(c, "nothing")
  BY <1>1, <1>4, AnswerCleared DEF Outcomes
<1>5. CASE /\ Mutate(r) = MutateApplication(c)
           /\ ~r.dryRun
           /\ ~(r.op = "UPDATE" /\ r.app.deleting)
  <2> DEFINE d == Await(c, "GetChartOperatorApp")
  <2>1. d.pc = "GetChartOperatorApp" /\ d.psp = "none" /\ d.request = r
    BY <1>1 DEF Await, RunningCall
  <2>2. Cleared(d) /\ d.psp # "entry"
    BY <1>5, <2>1 DEF Cleared
  <2>3. Cleared(VersionKnown(c, VersionLabel(r.app)))
        /\ VersionKnown(c, VersionLabel(r.app)).psp # "entry"
    BY <1>1, <1>3, <1>5, VersionKnownCleared
  <2>4. Mutate(r) = d \/ Mutate(r) = VersionKnown(c, VersionLabel(r.app))
    BY <1>1, <1>5 DEF MutateApplication
  <2> QED
    BY <2>2, <2>3, <2>4
<1> QED
  BY <1>2, <1>4, <1>5

-----------------------------------------------------------------------------
(* The API calls.                                                          *)

\* A request decides on PSP removal when it has the version, or when it has the
\* Cluster CR, and never again.
LEMMA DecidedOnce ==
  ASSUME IInv, NEW w \in Workers, Serve(w) \/ Fail(w)
  PROVE  \E c :
           /\ Step(w, c)
           /\ c.request = call[w].request
           /\ \/ c.psp = call[w].psp /\ c.pc # "ListClusters"
              \/ /\ call[w].pc = "GetChartOperatorApp"
                 /\ \E v \in VersionLabels \cup {None} : c = VersionKnown(call[w], v)
              \/ /\ call[w].pc = "ListClusters"
                 /\ c.psp = "entry" /\ c.pc = "GetConfigMap"
                 /\ EnforcesPss(provider, clusters[ClusterLabel(call[w].request.app)])
<1> DEFINE Kept(c) ==
             /\ Step(w, c)
             /\ c.request = call[w].request
             /\ c.psp = call[w].psp /\ c.pc # "ListClusters"
<1> USE DEF ApiCalls
<1>0. call[w] \in RunningCall /\ Sound(call[w]) /\ call[w].request \in Request
  <2>1. call[w].pc \in ApiCalls
    BY DEF Serve, Fail, GetChartOperatorAppVersion, ListClusters, GetConfigMap,
       CreateConfigMap, UpdateConfigMap, GetSecret, ListSecrets, GetUserValues, GetRelease,
       CallFails, WriteAnswerLost, GetSecretFails, GetUserValuesFails
  <2> QED
    BY <2>1, WaitingCall
<1>1. ASSUME NEW o \in Outcomes \ {"none"}, Step(w, Answer(call[w], o))
      PROVE  \E c : Kept(c)
  BY <1>0, <1>1, AnswerSound
<1>2. ASSUME Step(w, MutateKubeConfig(call[w])) PROVE \E c : Kept(c)
  BY <1>0, <1>2, MutateKubeConfigSound DEF AfterEnsure
<1>3. ASSUME NEW ns \in Namespaces \cup {None}, Step(w, KubeConfigFound(call[w], ns))
      PROVE  \E c : Kept(c)
  BY <1>0, <1>3, KubeConfigFoundSound DEF AfterEnsure
<1>4. ASSUME NEW p \in ApiCalls \ {"ListClusters"}, Step(w, Await(call[w], p))
      PROVE  \E c : Kept(c)
  <2>1. /\ Await(call[w], p).request = call[w].request
        /\ Await(call[w], p).psp = call[w].psp
        /\ Await(call[w], p).pc = p
    BY <1>0 DEF Await, RunningCall
  <2> QED
    BY <1>4, <2>1
<1>5. ASSUME call[w].pc = "GetUserValues", Step(w, RetryUserValues(call[w]))
      PROVE  \E c : Kept(c)
  BY <1>0, <1>5, RetrySound
<1>6. CASE GetChartOperatorAppVersion(w)
  <2> DEFINE v == chartOperator[call[w].request.app.ns]
  <2>1. v \in VersionLabels \cup {None}
    BY <1>0, RequestFields DEF IInv, TypeOK
  <2>2. /\ call[w].pc = "GetChartOperatorApp"
        /\ Step(w, Answer(call[w], "nothing")) \/ Step(w, VersionKnown(call[w], v))
    BY <1>6 DEF GetChartOperatorAppVersion
  <2>3. call[w].psp = "none"
    BY <1>0, <2>2 DEF Sound
  <2> HIDE DEF v
  <2>4. VersionKnown(call[w], v).request = call[w].request
    BY <1>0, <2>1, <2>3, VersionKnownSound
  <2>5. CASE Step(w, VersionKnown(call[w], v))
    BY <2>1, <2>2, <2>4, <2>5
  <2>6. CASE Step(w, Answer(call[w], "nothing"))
    BY <1>1, <2>6 DEF Outcomes
  <2> QED
    BY <2>2, <2>5, <2>6
<1>7. CASE ListClusters(w)
  <2> DEFINE d == Await([call[w] EXCEPT !.psp = "entry"], "GetConfigMap")
  <2>1. d.request = call[w].request /\ d.pc = "GetConfigMap" /\ d.psp = "entry"
    BY <1>0 DEF Await, RunningCall
  <2>2. /\ call[w].pc = "ListClusters"
        /\ \/ Step(w, Answer(call[w], "psp undecided"))
           \/ /\ Step(w, d)
              /\ EnforcesPss(provider, clusters[ClusterLabel(call[w].request.app)])
           \/ Step(w, MutateKubeConfig(call[w]))
    BY <1>7 DEF ListClusters
  <2> HIDE DEF d
  <2>3. CASE /\ Step(w, d)
             /\ EnforcesPss(provider, clusters[ClusterLabel(call[w].request.app)])
    BY <2>1, <2>2, <2>3
  <2>4. CASE Step(w, Answer(call[w], "psp undecided"))
    BY <1>1, <2>4 DEF Outcomes
  <2> QED
    BY <1>2, <2>2, <2>3, <2>4
<1>8. CASE GetConfigMap(w)
  BY <1>2, <1>4, <1>8 DEF GetConfigMap
<1>9. CASE CreateConfigMap(w) \/ UpdateConfigMap(w)
  BY <1>1, <1>2, <1>9 DEF CreateConfigMap, UpdateConfigMap, Outcomes
<1>10. CASE GetSecret(w)
  BY <1>0, <1>3, <1>4, <1>10, RequestFields DEF GetSecret
<1>11. CASE ListSecrets(w)
  <2>1. \E ns \in Namespaces \cup {None} : Step(w, KubeConfigFound(call[w], ns))
    BY <1>11 DEF ListSecrets, KubeConfigCandidates, IInv, TypeOK, Secret
  <2> QED
    BY <1>3, <2>1
<1>12. CASE GetUserValues(w)
  <2> DEFINE d == Await([call[w] EXCEPT !.release = userValues[call[w].request.app.name]],
                        "GetRelease")
  <2>1. d.request = call[w].request /\ d.pc = "GetRelease" /\ d.psp = call[w].psp
    BY <1>0 DEF Await, RunningCall
  <2>2. /\ call[w].pc = "GetUserValues"
        /\ \/ Step(w, RetryUserValues(call[w]))
           \/ Step(w, Answer(call[w], "full"))
           \/ Step(w, Answer(call[w], "invalid user values"))
           \/ Step(w, d)
    BY <1>12 DEF GetUserValues
  <2> HIDE DEF d
  <2>3. CASE Step(w, d)
    BY <2>1, <2>3
  <2>4. CASE Step(w, Answer(call[w], "full")) \/ Step(w, Answer(call[w], "invalid user values"))
    BY <1>1, <2>4 DEF Outcomes
  <2> QED
    BY <1>5, <2>2, <2>3, <2>4
<1>13. CASE GetRelease(w)
  <2> DEFINE component == Releases[<<call[w].request.app.specName, call[w].release>>]
             d == Answer([call[w] EXCEPT !.component = component], "full")
  <2>1. \/ Step(w, Answer(call[w], "no release"))
        \/ Step(w, Answer(call[w], "no cluster app version"))
        \/ Step(w, d)
    BY <1>13 DEF GetRelease
  <2>2. d.request = call[w].request /\ d.psp = call[w].psp /\ d.pc = "answered"
    BY <1>0 DEF Answer, RunningCall
  <2> HIDE DEF d
  <2>3. CASE Step(w, d)
    BY <2>2, <2>3
  <2>4. CASE \/ Step(w, Answer(call[w], "no release"))
             \/ Step(w, Answer(call[w], "no cluster app version"))
    BY <1>1, <2>4 DEF Outcomes
  <2> QED
    BY <2>1, <2>3, <2>4
<1>14. CASE Fail(w)
  <2>1. \/ Step(w, Answer(call[w], "API error"))
        \/ Step(w, KubeConfigFound(call[w], None))
        \/ call[w].pc = "GetUserValues" /\ Step(w, RetryUserValues(call[w]))
    BY <1>14 DEF Fail, CallFails, WriteAnswerLost, GetSecretFails, GetUserValuesFails
  <2>2. CASE Step(w, Answer(call[w], "API error"))
    BY <1>1, <2>2 DEF Outcomes
  <2> QED
    BY <1>3, <1>5, <2>1, <2>2
<1> QED
  BY <1>6, <1>7, <1>8, <1>9, <1>10, <1>11, <1>12, <1>13, <1>14 DEF Serve

-----------------------------------------------------------------------------
(* The decision on PSP removal stays right.                                *)

\* The code takes a cluster for one that serves no PSPs only if it is one.
LEMMA EnforcedIsStopped ==
  ASSUME NEW cr \in ClusterCR \cup {None}, EnforcesPss(provider, cr)
  PROVE  ServesNoPsps(provider, cr)
BY ReleasesAssumption DEF EnforcesPss, ServesNoPsps, ClusterCR

\* A cluster that has stopped serving PSPs does not start again.
LEMMA StoppedForGood ==
  ASSUME IInv, EnvironmentNext, NEW id \in ClusterIds,
         ServesNoPsps(provider, clusters[id])
  PROVE  ServesNoPsps(provider, clusters[id])'
<1>1. provider' = provider /\ DOMAIN clusters = ClusterIds
  BY DEF EnvironmentNext, IInv, TypeOK
<1>2. clusters'[id] = clusters[id]
  <2>1. ASSUME NEW other \in ClusterIds, NEW e \in Environments, ClusterAppears(other, e)
        PROVE  clusters'[id] = clusters[id]
    BY <1>1, <2>1 DEF ClusterAppears, ServesNoPsps
  <2>2. ASSUME NEW other \in ClusterIds, ClusterStopsPsps(other)
        PROVE  clusters'[id] = clusters[id]
    <3>1. other # id
      BY <2>2 DEF ClusterStopsPsps
    <3>2. \E cr : clusters' = [clusters EXCEPT ![other] = cr]
      BY <2>2 DEF ClusterStopsPsps
    <3> QED
      BY <1>1, <3>1, <3>2
  <2> QED
    BY <2>1, <2>2 DEF EnvironmentNext, ChartOperatorInstalled, SecretCreated, UserValuesApplied
<1> QED
  BY <1>1, <1>2

\* Every step preserves Justified.
LEMMA AnyStepJustified == IInv /\ Justified /\ AnyStep => Justified'
<1> SUFFICES ASSUME IInv, Justified, AnyStep, NEW v \in Workers, (call[v] # Idle)'
             PROVE  /\ Cleared(call'[v])
                    /\ call'[v].psp = "entry" => Stopped(provider', clusters', call'[v].request.app)
  BY DEF Justified, Cleared
<1>0. call \in [Workers -> {Idle} \cup ActiveCall]
  BY DEF IInv, TypeOK
<1>1. ASSUME call'[v] = call[v], UNCHANGED <<provider, clusters>>
      PROVE  /\ Cleared(call'[v])
             /\ call'[v].psp = "entry" => Stopped(provider', clusters', call'[v].request.app)
  BY <1>1 DEF Justified
<1>2. ASSUME NEW w \in Workers, NEW r \in Request, Receive(w, r)
      PROVE  /\ Cleared(call'[v])
             /\ call'[v].psp = "entry" => Stopped(provider', clusters', call'[v].request.app)
  <2>1. UNCHANGED <<provider, clusters>>
    BY <1>2 DEF Receive, Reads, environment
  <2>2. call'[v] = IF v = w THEN Mutate(r) ELSE call[v]
    BY <1>0, <1>2 DEF Receive, Step
  <2>3. Cleared(Mutate(r)) /\ Mutate(r).psp # "entry"
    BY MutateCleared
  <2> QED
    BY <1>1, <2>1, <2>2, <2>3
<1>3. ASSUME NEW w \in Workers, Serve(w) \/ Fail(w)
      PROVE  /\ Cleared(call'[v])
             /\ call'[v].psp = "entry" => Stopped(provider', clusters', call'[v].request.app)
  <2>1. UNCHANGED <<provider, clusters>>
    BY <1>3, WebhookTypes DEF environment
  <2>2. call[w].pc \in ApiCalls
    BY <1>3 DEF Serve, Fail, GetChartOperatorAppVersion, ListClusters, GetConfigMap,
       CreateConfigMap, UpdateConfigMap, GetSecret, ListSecrets, GetUserValues, GetRelease,
       CallFails, WriteAnswerLost, GetSecretFails, GetUserValuesFails, ApiCalls
  <2>3. /\ call[w] \in RunningCall /\ Sound(call[w]) /\ call[w].request \in Request
        /\ call[w] # Idle
    BY <2>2, WaitingCall DEF Idle, ApiCalls
  <2>4. /\ Cleared(call[w])
        /\ call[w].psp = "entry" => Stopped(provider, clusters, call[w].request.app)
    BY <2>3 DEF Justified
  <2>5. PICK c : /\ Step(w, c)
                 /\ c.request = call[w].request
                 /\ \/ c.psp = call[w].psp /\ c.pc # "ListClusters"
                    \/ /\ call[w].pc = "GetChartOperatorApp"
                       /\ \E l \in VersionLabels \cup {None} : c = VersionKnown(call[w], l)
                    \/ /\ call[w].pc = "ListClusters"
                       /\ c.psp = "entry" /\ c.pc = "GetConfigMap"
                       /\ EnforcesPss(provider, clusters[ClusterLabel(call[w].request.app)])
    BY <1>3, DecidedOnce
  <2>6. call'[v] = IF v = w THEN c ELSE call[v]
    BY <1>0, <2>5 DEF Step
  <2>7. CASE c.psp = call[w].psp /\ c.pc # "ListClusters"
    <3>1. Cleared(c)
      BY <2>2, <2>4, <2>5, <2>7 DEF Cleared
    <3>2. c.psp = "entry" => Stopped(provider, clusters, c.request.app)
      BY <2>4, <2>5, <2>7
    <3> QED
      BY <1>1, <2>1, <2>6, <3>1, <3>2 DEF Stopped
  <2>8. CASE /\ call[w].pc = "GetChartOperatorApp"
             /\ \E l \in VersionLabels \cup {None} : c = VersionKnown(call[w], l)
    <3>1. call[w].psp = "none"
      BY <2>3, <2>8 DEF Sound
    <3>2. /\ ~call[w].request.dryRun
          /\ ~(call[w].request.op = "UPDATE" /\ call[w].request.app.deleting)
      BY <2>2, <2>4 DEF Cleared
    <3>3. Cleared(c) /\ c.psp # "entry"
      BY <2>3, <2>8, <3>1, <3>2, VersionKnownCleared
    <3> QED
      BY <1>1, <2>1, <2>6, <3>3
  <2>9. CASE /\ call[w].pc = "ListClusters"
             /\ c.psp = "entry" /\ c.pc = "GetConfigMap"
             /\ EnforcesPss(provider, clusters[ClusterLabel(call[w].request.app)])
    <3>1. Cleared(c)
      BY <2>2, <2>4, <2>5, <2>9 DEF Cleared
    <3>2. ClusterLabel(call[w].request.app) \in ClusterIds
      BY <2>3, <2>9, RequestFields DEF Sound
    <3>3. clusters[ClusterLabel(call[w].request.app)] \in ClusterCR \cup {None}
      BY <3>2 DEF IInv, TypeOK
    <3>4. Stopped(provider, clusters, c.request.app)
      BY <2>5, <2>9, <3>3, EnforcedIsStopped DEF Stopped
    <3> QED
      BY <1>1, <2>1, <2>6, <3>1, <3>4 DEF Stopped
  <2> QED
    BY <2>5, <2>7, <2>8, <2>9
<1>4. ASSUME NEW w \in Workers, Drop(w)
      PROVE  /\ Cleared(call'[v])
             /\ call'[v].psp = "entry" => Stopped(provider', clusters', call'[v].request.app)
  <2>1. UNCHANGED <<provider, clusters>>
    BY <1>4 DEF Drop, environment
  <2>2. call'[v] = IF v = w THEN Idle ELSE call[v]
    BY <1>0, <1>4 DEF Drop, Step
  <2> QED
    BY <1>1, <2>1, <2>2
<1>5. CASE EnvironmentNext
  <2>1. call' = call
    BY <1>5 DEF EnvironmentNext
  <2>2. Cleared(call[v]) /\ (call[v].psp = "entry" => Stopped(provider, clusters, call[v].request.app))
    BY <2>1 DEF Justified
  <2>3. ASSUME call[v].psp = "entry" PROVE Stopped(provider', clusters', call[v].request.app)
    <3>1. Sound(call[v])
      BY <2>1 DEF IInv, CallsSound
    <3>2. ClusterLabel(call[v].request.app) \in ClusterIds
      <4>1. ~OutsideWorkloadClusters(call[v].request.app)
        BY <2>2, <2>3 DEF Cleared
      <4>2. call[v].request \in Request
        BY <3>1 DEF Sound, ActiveCall
      <4> QED
        BY <4>1, <4>2, RequestFields DEF OutsideWorkloadClusters
    <3> QED
      BY <1>5, <2>1, <2>2, <2>3, <3>2, StoppedForGood DEF Stopped
  <2> QED
    BY <2>1, <2>2, <2>3 DEF Stopped
<1>6. CASE Disturb
  BY <1>1, <1>6 DEF Disturb, environment
<1> QED
  BY <1>2, <1>3, <1>4, <1>5, <1>6 DEF AnyStep

\* No request is being served at first.
LEMMA InitJustified == Init => Justified
BY DEF Init, Justified

LEMMA JustifiedHolds == Spec => [](IInv /\ Justified)
<1>1. IInv /\ Justified /\ [Next]_vars => Justified'
  BY NextIsAnyStep, AnyStepJustified
<1> QED
  BY <1>1, InitIInv, NextIInv, InitJustified, PTL DEF Spec

\* The psp-removal entry is only ever added for a cluster that has stopped
\* serving PSPs, however long ago its Cluster CR was read and whatever other
\* controllers have done to it since (isPSSEnforced, mutate_app_psp_removal.go).
THEOREM NeverBeforeEnforcedHolds == Spec => []NeverBeforeEnforced
<1>1. IInv /\ Justified => NeverBeforeEnforced
  BY DEF Justified, Stopped, NeverBeforeEnforced, Fully, Idle
<1> QED
  BY <1>1, JustifiedHolds, PTL

-----------------------------------------------------------------------------
(* Writes to ConfigMaps.                                                   *)

\* The step in which a ConfigMap changes is one of a request that has passed
\* the gates and writes what its own chart needs.
LEMMA WriterIsOwner ==
  ASSUME IInv, Justified, [Next]_vars, NEW key \in Namespaces \X PspNames,
         configMaps'[key] # configMaps[key]
  PROVE  \E w \in Workers :
           LET request == call[w].request
           IN  /\ call[w] # Idle
               /\ key = ConfigMapKey(call[w])
               /\ configMaps'[key] = ConfigMapValues(call[w])
               /\ ~request.dryRun
               /\ ~(request.op = "UPDATE" /\ request.app.deleting)
               /\ ~OutsideWorkloadClusters(request.app)
               /\ PspEntry(request.app) \in Entries(request.app)
                    \/ ServesNoPsps(provider, clusters[ClusterLabel(request.app)])
<1>1. PICK w \in Workers : Serve(w) \/ Fail(w)
  BY DEF Next, Receive, Respond, Reads, EnvironmentNext, vars
<1>2. /\ call[w].pc \in {"CreateConfigMap", "UpdateConfigMap"}
      /\ configMaps' = [configMaps EXCEPT ![ConfigMapKey(call[w])] = ConfigMapValues(call[w])]
  BY <1>1, WebhookTypes
<1>3. /\ Sound(call[w]) /\ call[w].request \in Request /\ call[w] # Idle
      /\ call[w] \in RunningCall
  BY <1>2, WaitingCall DEF ApiCalls, Idle
<1>4. call[w].psp \in {"label", "entry"}
  BY <1>2, <1>3 DEF Sound, RunningCall
<1>5. key = ConfigMapKey(call[w]) /\ configMaps'[key] = ConfigMapValues(call[w])
  BY <1>2 DEF IInv, TypeOK
<1>6. /\ Cleared(call[w])
      /\ call[w].psp = "entry" => Stopped(provider, clusters, call[w].request.app)
  BY <1>3 DEF Justified
<1> QED
  BY <1>3, <1>4, <1>5, <1>6 DEF Cleared, Stopped

\* A ConfigMap changes only by a request that is no dry run, for an App that
\* is not being deleted and belongs to a workload cluster, and that has or gets
\* the entry; it is the App's own ConfigMap and gets its own chart's values.
THEOREM ConfigMapsWrittenByOwnersHolds == Spec => ConfigMapsWrittenByOwners
<1>1. IInv /\ Justified /\ [Next]_vars =>
        [\A key \in Namespaces \X PspNames :
           configMaps'[key] # configMaps[key] =>
             \E w \in Workers :
               LET request == call[w].request
               IN  /\ call[w] # Idle
                   /\ key = ConfigMapKey(call[w])
                   /\ configMaps'[key] = ConfigMapValues(call[w])
                   /\ ~request.dryRun
                   /\ ~(request.op = "UPDATE" /\ request.app.deleting)
                   /\ ~OutsideWorkloadClusters(request.app)
                   /\ PspEntry(request.app) \in Entries(request.app)
                        \/ ServesNoPsps(provider, clusters[ClusterLabel(request.app)])]_vars
  BY WriterIsOwner
<1> QED
  BY <1>1, JustifiedHolds, PTL DEF Spec, ConfigMapsWrittenByOwners

-----------------------------------------------------------------------------
(* The answers keep the promise of ConfigMapContract.  A request that is    *)
(* served is a dependent that is present; from its answer on it relies on   *)
(* the values of its chart.                                                 *)

ChartOf(c) == <<c.request.app.ns, c.request.app.specName>>
Relying(c) == IF Fully(c) /\ c.psp # "none" THEN {ChartOf(c)} ELSE {}
Present == {w \in Workers : call[w] # Idle}
Relies == [w \in Workers |-> Relying(call[w])]

\* A chart whose values were ready has them ready after every step: who writes
\* to a ConfigMap that several charts share writes what they share.
LEMMA ValuesStayReady ==
  ASSUME SharedNamesShareValues, IInv, AnyStep
  PROVE  ReadyCharts \subseteq ReadyCharts'
<1>1. CASE configMaps' = configMaps
  BY <1>1 DEF ReadyCharts
<1>2. ASSUME NEW w \in Workers, Serve(w) \/ Fail(w), configMaps' # configMaps
      PROVE  ReadyCharts \subseteq ReadyCharts'
  <2>1. /\ call[w].pc \in {"CreateConfigMap", "UpdateConfigMap"}
        /\ configMaps' = [configMaps EXCEPT ![ConfigMapKey(call[w])] = ConfigMapValues(call[w])]
    BY <1>2, WebhookTypes
  <2>2. call[w].request \in Request
    BY <2>1, WaitingCall DEF ApiCalls
  <2>3. call[w].request.app.specName \in SpecNames
    BY <2>2, RequestFields
  <2>4. ASSUME NEW chart \in ReadyCharts
        PROVE  chart \in ReadyCharts'
    <3>1. /\ chart[1] \in Namespaces /\ chart[2] \in SpecNames
          /\ chart \in Namespaces \X SpecNames
      BY DEF ReadyCharts
    <3>2. configMaps[<<chart[1], ExtraConfigName(chart[2])>>] = ExtraConfigValues(chart[2])
      BY <3>1 DEF ReadyCharts, ChartConfigMap, ChartValues
    <3>3. <<chart[1], ExtraConfigName(chart[2])>> \in Namespaces \X PspNames
      BY <3>1 DEF PspNames
    <3>4. ExtraConfigName(chart[2]) = ExtraConfigName(call[w].request.app.specName) =>
            ExtraConfigValues(chart[2]) = ExtraConfigValues(call[w].request.app.specName)
      BY <2>3, <3>1 DEF SharedNamesShareValues
    <3>5. configMaps'[<<chart[1], ExtraConfigName(chart[2])>>] = ExtraConfigValues(chart[2])
      BY <2>1, <3>2, <3>3, <3>4 DEF ConfigMapKey, ConfigMapValues, IInv, TypeOK
    <3> QED
      BY <3>1, <3>5 DEF ReadyCharts, ChartConfigMap, ChartValues
  <2> QED
    BY <2>4
<1> QED
  BY <1>1, <1>2 DEF AnyStep, Receive, Reads, Drop, Disturb, EnvironmentNext

\* Apart from the chart of a request that is answered, nothing is relied on
\* that was not before.
LEMMA ReliesFollowsCall ==
  ASSUME IInv, NEW w \in Workers, NEW c, Step(w, c)
  PROVE  /\ Relies' = [Relies EXCEPT ![w] = Relying(c)]
         /\ Present' = IF c = Idle THEN Present \ {w} ELSE Present \cup {w}
<1>1. \A v \in Workers : call'[v] = IF v = w THEN c ELSE call[v]
  BY DEF Step, IInv, TypeOK
<1>2. Relies' = [v \in Workers |-> Relying(call'[v])]
  BY DEF Relies, Relying, Fully, ChartOf
<1> QED
  BY <1>1, <1>2 DEF Relies, Present

\* The requests that are not answered rely on nothing.
LEMMA ServedReliesOnNothing ==
  ASSUME NEW w \in Workers, call[w] = Idle \/ call[w].pc \in ApiCalls
  PROVE  Relies[w] = {}
BY DEF Relies, Relying, Fully, Idle, ApiCalls

\* Every step of the webhook is one the contract allows.
LEMMA NextKeepsContract ==
  ASSUME SharedNamesShareValues, IInv, IInv', Ensured', [Next]_vars
  PROVE  \/ ReadyCharts \subseteq ReadyCharts' /\ UNCHANGED <<Present, Relies>>
         \/ \E w \in Workers :
              \/ /\ Relies[w] = {}
                 /\ Present' = Present \cup {w}
                 /\ UNCHANGED <<ReadyCharts, Relies>>
              \/ /\ ReadyCharts \subseteq ReadyCharts'
                 /\ Present' = Present \cup {w}
                 /\ \E chart \in ReadyCharts' : Relies' = [Relies EXCEPT ![w] = {chart}]
              \/ /\ Present' = Present \ {w}
                 /\ Relies' = [Relies EXCEPT ![w] = {}]
                 /\ UNCHANGED ReadyCharts
<1> USE DEF ApiCalls
<1>0. /\ ReadyCharts \subseteq ReadyCharts'
      /\ Relies = [v \in Workers |-> Relies[v]]
  BY NextIsAnyStep, ValuesStayReady DEF Relies
<1>1. ASSUME NEW w \in Workers, NEW r \in Requests, Receive(w, r)
      PROVE  /\ Relies[w] = {}
             /\ Present' = Present \cup {w}
             /\ UNCHANGED <<ReadyCharts, Relies>>
  <2>1. Sound(Mutate(r)) /\ ~PastEnsure(Mutate(r))
    BY MutateSound, MutatorAssumption DEF PastEnsure, AfterEnsure
  <2>2. Mutate(r) # Idle /\ Relying(Mutate(r)) = {}
    BY <2>1 DEF Sound, ActiveCall, Idle, Relying, Fully, PastEnsure
  <2>3. call[w] = Idle
    BY <1>1 DEF Receive, IInv, CallsSound, Sound, ActiveCall
  <2>4. Relies[w] = {}
    BY <2>3, ServedReliesOnNothing
  <2>5. Step(w, Mutate(r)) /\ configMaps' = configMaps
    BY <1>1 DEF Receive, Reads
  <2>6. /\ Relies' = [Relies EXCEPT ![w] = {}]
        /\ Present' = Present \cup {w}
    BY <2>2, <2>5, ReliesFollowsCall
  <2>7. UNCHANGED ReadyCharts
    BY <2>5 DEF ReadyCharts
  <2>8. UNCHANGED Relies
    BY <1>0, <2>4, <2>6
  <2> QED
    BY <2>4, <2>6, <2>7, <2>8
<1>2. ASSUME NEW w \in Workers, Serve(w) \/ Fail(w)
      PROVE  \/ UNCHANGED <<Present, Relies>>
             \/ /\ Present' = Present \cup {w}
                /\ \E chart \in ReadyCharts' : Relies' = [Relies EXCEPT ![w] = {chart}]
  <2>1. call[w].pc \in ApiCalls
    BY <1>2 DEF Serve, Fail, GetChartOperatorAppVersion, ListClusters, GetConfigMap,
       CreateConfigMap, UpdateConfigMap, GetSecret, ListSecrets, GetUserValues, GetRelease,
       CallFails, WriteAnswerLost, GetSecretFails, GetUserValuesFails
  <2>2. call[w] # Idle /\ Relies[w] = {}
    BY <2>1, ServedReliesOnNothing DEF Idle
  <2>3. PICK c : Sound(c) /\ Step(w, c)
    BY <1>2, ServeSound, FailSound
  <2>4. c # Idle /\ call'[w] = c
    BY <2>3 DEF Sound, ActiveCall, Idle, Step, IInv, TypeOK
  <2>5. /\ Relies' = [Relies EXCEPT ![w] = Relying(c)]
        /\ Present' = Present \cup {w}
    BY <2>3, <2>4, ReliesFollowsCall
  <2>6. CASE Relying(c) = {}
    <3>1. UNCHANGED Relies
      BY <1>0, <2>2, <2>5, <2>6
    <3>2. UNCHANGED Present
      BY <2>2, <2>5 DEF Present
    <3> QED
      BY <3>1, <3>2
  <2>7. CASE Relying(c) # {}
    <3>1. Relying(c) = {ChartOf(c)}
      BY <2>7 DEF Relying
    <3>2. ChartOf(c) \in ReadyCharts'
      <4>1. PastEnsure(c)
        BY <2>7 DEF Relying, Fully, PastEnsure
      <4>2. configMaps'[ConfigMapKey(c)] = ConfigMapValues(c)
        BY <2>4, <4>1 DEF Ensured
      <4>3. c.request \in Request
        BY <2>3 DEF Sound, ActiveCall
      <4>4. c.request.app.ns \in Namespaces /\ c.request.app.specName \in SpecNames
        BY <4>3, RequestFields
      <4> QED
        BY <4>2, <4>4 DEF ReadyCharts, ChartConfigMap, ChartValues, ChartOf,
           ConfigMapKey, ConfigMapValues
    <3> QED
      BY <2>5, <3>1, <3>2
  <2> QED
    BY <2>6, <2>7
<1>3. ASSUME NEW w \in Workers, Respond(w)
      PROVE  /\ Present' = Present \ {w}
             /\ Relies' = [Relies EXCEPT ![w] = {}]
             /\ UNCHANGED ReadyCharts
  <2>1. Step(w, Idle) /\ configMaps' = configMaps
    BY <1>3 DEF Respond, Reads
  <2>2. Relying(Idle) = {}
    BY DEF Relying, Fully, Idle
  <2>3. UNCHANGED ReadyCharts
    BY <2>1 DEF ReadyCharts
  <2>4. Relies' = [Relies EXCEPT ![w] = {}] /\ Present' = Present \ {w}
    BY <2>1, <2>2, ReliesFollowsCall
  <2> QED
    BY <2>3, <2>4
<1>4. CASE EnvironmentNext \/ UNCHANGED vars
  <2>1. call' = call
    BY <1>4 DEF EnvironmentNext, vars
  <2>2. UNCHANGED Present
    BY <2>1 DEF Present
  <2>3. UNCHANGED Relies
    BY <2>1 DEF Relies, Relying, Fully, ChartOf
  <2> QED
    BY <1>0, <2>2, <2>3
<1> QED
  BY <1>0, <1>1, <1>2, <1>3, <1>4 DEF Next

\* When charts that share a ConfigMap share its values, the webhook implements
\* ConfigMapContract for those it answers: the values an App is told to use are
\* ready when it is told so, and no request, whatever it races with, takes them
\* away before the answer has arrived (ensureConfigMap).
THEOREM AnswersKeepContractHolds ==
  ASSUME SharedNamesShareValues
  PROVE  Spec => AnswersKeepContract
<1>1. Init => Answers!Init
  BY DEF Init, Answers!Init, Fully, Idle
<1>2. IInv /\ IInv' /\ Ensured' /\ [Next]_vars =>
        [Answers!Next]_<<ReadyCharts, Present, Relies>>
  <2> SUFFICES ASSUME IInv, IInv', Ensured', [Next]_vars
               PROVE  [Answers!Next]_<<ReadyCharts, Present, Relies>>
    OBVIOUS
  <2> QED
    BY NextKeepsContract DEF Answers!Next, Answers!Provide, Answers!Admit, Answers!Rely,
       Answers!Remove, Present, Relies, Relying, ChartOf
<1>3. Init => Ensured
  BY DEF Init, Ensured
<1>4. IInv /\ Ensured /\ [Next]_vars => Ensured'
  BY NextIsAnyStep, AnyStepEnsured
<1> QED
  BY <1>1, <1>2, <1>3, <1>4, InitIInv, NextIInv, PTL
     DEF Spec, AnswersKeepContract, Answers!Spec, Present, Relies, Relying, ChartOf

=============================================================================
