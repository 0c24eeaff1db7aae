--------------------------- MODULE MutatorProofs ---------------------------
(***************************************************************************)
(* Theorems about Mutator, for any number of concurrent requests, any      *)
(* names, any psp configuration and any number of failures.                *)
(***************************************************************************)
EXTENDS Mutator, TLAPS

(***************************************************************************)
(* A request as the code between two API calls sees it, and as it leaves   *)
(* it.  Sound says of one request what TypeOK says of all, and what is     *)
(* known of it because of the API call it is about to make.                *)
(***************************************************************************)
RunningCall == [pc : ApiCalls \cup {"received"}, request : Request,
                version : VersionLabels \cup {None},
                psp : {"none", "label", "entry"},
                kubeNs : Namespaces \cup {None},
                attempts : 0..MaxAttempts,
                release : ReleaseNames \cup {None},
                component : Component \cup {None},
                outcome : {"none"}]

\* The API calls made once the ConfigMap is known to be there.
AfterEnsure == {"GetSecret", "ListSecrets", "GetUserValues", "GetRelease"}

Sound(c) ==
  /\ c \in ActiveCall
  /\ c.pc = "answered" <=> c.outcome # "none"
  /\ c.pc \in {"GetChartOperatorApp", "ListClusters"} => c.psp = "none"
  /\ c.pc \in {"GetConfigMap", "CreateConfigMap", "UpdateConfigMap"} => c.psp # "none"
  /\ c.pc = "ListClusters" => ClusterLabel(c.request.app) # None
  /\ c.pc \in {"GetUserValues", "GetRelease"} => IsClusterApp(c.request.app)
  /\ c.pc = "GetRelease" => c.release \in ReleaseNames

CallsSound == \A w \in Workers : call[w] = Idle \/ Sound(call[w])

\* The inductive invariant.
IInv == TypeOK /\ CallsSound

-----------------------------------------------------------------------------
(* What the fields of a request are.                                       *)

\* The fields of a submitted App the webhook looks things up by.
LEMMA RequestFields ==
  ASSUME NEW r \in Request
  PROVE  /\ r.app.ns \in Namespaces
         /\ r.app.name \in AppNames
         /\ r.app.specName \in SpecNames
         /\ VersionLabel(r.app) \in VersionLabels \cup {None}
         /\ ClusterLabel(r.app) \in ClusterIds \cup {None}
<1>1. r.app \in App
  BY DEF Request
<1>2. r.app.labels \in AppLabels
  BY <1>1 DEF App
<1> QED
  BY <1>1, <1>2 DEF App, AppLabels, VersionLabel, ClusterLabel

-----------------------------------------------------------------------------
(* What the code between two API calls makes of a request.                 *)

\* Answering a running request leaves it sound.
LEMMA AnswerSound ==
  ASSUME NEW c \in RunningCall, NEW o \in Outcomes \ {"none"}
  PROVE  /\ Sound(Answer(c, o))
         /\ Answer(c, o).pc = "answered"
         /\ Answer(c, o).outcome = o
         /\ Answer(c, o).psp = c.psp
         /\ Answer(c, o).request = c.request
<1>1. Answer(c, o) \in ActiveCall
  BY DEF Answer, RunningCall, ActiveCall
<1> QED
  BY <1>1 DEF Answer, RunningCall, Sound, ApiCalls

\* After the kubeconfig: a cluster app's version, or the answer.
LEMMA MutateClusterAppSound ==
  ASSUME NEW c \in RunningCall
  PROVE  LET d == MutateClusterApp(c)
         IN  /\ Sound(d)
             /\ d.pc \in AfterEnsure \/ (d.pc = "answered" /\ d.outcome = "full")
             /\ d.psp = c.psp
             /\ d.request = c.request
<1>1. CASE IsClusterApp(c.request.app)
  <2> DEFINE d == Await([c EXCEPT !.attempts = 1], "GetUserValues")
  <2>0. 1 \in 0..MaxAttempts
    BY DEF MaxAttempts
  <2>1. d \in ActiveCall
    BY <2>0 DEF Await, RunningCall, ActiveCall, ApiCalls, Outcomes
  <2>2. d.pc = "GetUserValues" /\ d.outcome = "none" /\ d.psp = c.psp /\ d.request = c.request
    BY DEF Await, RunningCall
  <2>3. MutateClusterApp(c) = d
    BY <1>1 DEF MutateClusterApp
  <2> HIDE DEF d
  <2>4. Sound(d)
    BY <1>1, <2>1, <2>2 DEF Sound
  <2> QED
    BY <2>2, <2>3, <2>4 DEF AfterEnsure
<1>2. CASE ~IsClusterApp(c.request.app)
  BY <1>2, AnswerSound DEF MutateClusterApp, Outcomes
<1> QED
  BY <1>1, <1>2

\* After PSP removal.
LEMMA MutateKubeConfigSound ==
  ASSUME NEW c \in RunningCall
  PROVE  LET d == MutateKubeConfig(c)
         IN  /\ Sound(d)
             /\ d.pc \in AfterEnsure \/ (d.pc = "answered" /\ d.outcome = "full")
             /\ d.psp = c.psp
             /\ d.request = c.request
<1>1. CASE KeepsKubeConfig(c.request.app)
  BY <1>1, MutateClusterAppSound DEF MutateKubeConfig
<1>2. CASE ~KeepsKubeConfig(c.request.app)
  <2> DEFINE d == Await(c, "GetSecret")
  <2>1. d \in ActiveCall
    BY DEF Await, RunningCall, ActiveCall, ApiCalls, Outcomes
  <2>2. d.pc = "GetSecret" /\ d.outcome = "none" /\ d.psp = c.psp /\ d.request = c.request
    BY DEF Await, RunningCall
  <2>3. MutateKubeConfig(c) = d
    BY <1>2 DEF MutateKubeConfig
  <2> HIDE DEF d
  <2>4. Sound(d)
    BY <2>1, <2>2 DEF Sound
  <2> QED
    BY <2>2, <2>3, <2>4 DEF AfterEnsure
<1> QED
  BY <1>1, <1>2

\* A retry is counted, and the last attempt is not retried.
LEMMA RetrySound ==
  ASSUME NEW c \in RunningCall, Sound(c), c.pc = "GetUserValues"
  PROVE  /\ Sound(RetryUserValues(c))
         /\ RetryUserValues(c).psp = c.psp
         /\ RetryUserValues(c).request = c.request
         /\ RetryUserValues(c).outcome # "full"
         /\ RetryUserValues(c).pc \in {"GetUserValues", "answered"}
<1>1. CASE c.attempts = MaxAttempts
  BY <1>1, AnswerSound DEF RetryUserValues, Outcomes
<1>2. CASE c.attempts # MaxAttempts
  <2> DEFINE d == [c EXCEPT !.attempts = c.attempts + 1]
  <2>0. c.attempts + 1 \in 0..MaxAttempts
    BY <1>2 DEF RunningCall, MaxAttempts
  <2>1. d \in ActiveCall
    BY <2>0 DEF RunningCall, ActiveCall, ApiCalls, Outcomes
  <2>2. /\ d.pc = "GetUserValues" /\ d.outcome = "none"
        /\ d.psp = c.psp /\ d.request = c.request
    BY DEF RunningCall
  <2>3. RetryUserValues(c) = d
    BY <1>2 DEF RetryUserValues
  <2> HIDE DEF d
  <2>4. Sound(d)
    BY <2>1, <2>2 DEF Sound
  <2> QED
    BY <2>2, <2>3, <2>4
<1> QED
  BY <1>1, <1>2

\* After the lookup of the kubeconfig Secret, whatever it found.
LEMMA KubeConfigFoundSound ==
  ASSUME NEW c \in RunningCall, NEW ns \in Namespaces \cup {None}
  PROVE  LET d == KubeConfigFound(c, ns)
         IN  /\ Sound(d)
             /\ d.pc \in AfterEnsure \/ (d.pc = "answered" /\ d.outcome = "full")
             /\ d.psp = c.psp
             /\ d.request = c.request
<1> DEFINE e == [c EXCEPT !.kubeNs = ns]
<1>1. e \in RunningCall /\ e.psp = c.psp /\ e.request = c.request
  BY DEF RunningCall
<1>2. KubeConfigFound(c, ns) = MutateClusterApp(e)
  BY DEF KubeConfigFound
<1> HIDE DEF e
<1> QED
  BY <1>1, <1>2, MutateClusterAppSound

\* From the version gates to PSP removal's first API call or past it.  Apps
\* outside workload clusters get past it with psp "none".
LEMMA MutateConfigSound ==
  ASSUME NEW c \in RunningCall, c.psp = "none"
  PROVE  LET d == MutateConfigForPSPRemoval(c)
         IN  /\ Sound(d)
             /\ d.psp # "none" => d.pc = "GetConfigMap" /\ d.psp = "label"
             /\ d.request = c.request
<1>1. CASE provider = "other"
  BY <1>1, AnswerSound DEF MutateConfigForPSPRemoval, Outcomes
<1>2. CASE provider # "other" /\ OutsideWorkloadClusters(c.request.app)
  BY <1>2, MutateKubeConfigSound DEF MutateConfigForPSPRemoval
<1>3. CASE /\ provider # "other"
           /\ ~OutsideWorkloadClusters(c.request.app)
           /\ PspEntry(c.request.app) \in Entries(c.request.app)
  <2> DEFINE d == Await([c EXCEPT !.psp = "label"], "GetConfigMap")
  <2>1. d \in ActiveCall
    BY DEF Await, RunningCall, ActiveCall, ApiCalls, Outcomes
  <2>2. d.pc = "GetConfigMap" /\ d.outcome = "none" /\ d.psp = "label" /\ d.request = c.request
    BY DEF Await, RunningCall
  <2>3. MutateConfigForPSPRemoval(c) = d
    BY <1>3 DEF MutateConfigForPSPRemoval
  <2> HIDE DEF d
  <2> QED
    BY <2>1, <2>2, <2>3 DEF Sound
<1>4. CASE /\ provider # "other"
           /\ ~OutsideWorkloadClusters(c.request.app)
           /\ PspEntry(c.request.app) \notin Entries(c.request.app)
  <2> DEFINE d == Await(c, "ListClusters")
  <2>1. d \in ActiveCall
    BY DEF Await, RunningCall, ActiveCall, ApiCalls, Outcomes
  <2>2. d.pc = "ListClusters" /\ d.outcome = "none" /\ d.psp = "none" /\ d.request = c.request
    BY DEF Await, RunningCall
  <2>3. MutateConfigForPSPRemoval(c) = d
    BY <1>4 DEF MutateConfigForPSPRemoval
  <2>4. ClusterLabel(c.request.app) # None
    BY <1>4 DEF OutsideWorkloadClusters
  <2> HIDE DEF d
  <2> QED
    BY <2>1, <2>2, <2>3, <2>4 DEF Sound
<1> QED
  BY <1>1, <1>2, <1>3, <1>4

\* From the version label on.
LEMMA VersionKnownSound ==
  ASSUME NEW c \in RunningCall, c.psp = "none", NEW v \in VersionLabels \cup {None}
  PROVE  LET d == VersionKnown(c, v)
         IN  /\ Sound(d)
             /\ d.psp # "none" => d.pc = "GetConfigMap" /\ d.psp = "label"
             /\ d.request = c.request
<1> DEFINE e == [c EXCEPT !.version = v]
<1>1. e \in RunningCall /\ e.psp = "none" /\ e.request = c.request
  BY DEF RunningCall
<1>2. VersionKnown(c, v) \in {Answer(e, "nothing"), Answer(e, "labels"),
                              MutateConfigForPSPRemoval(e)}
  BY DEF VersionKnown
<1> HIDE DEF e
<1>3. CASE VersionKnown(c, v) = MutateConfigForPSPRemoval(e)
  BY <1>1, <1>3, MutateConfigSound
<1>4. ASSUME NEW o \in {"nothing", "labels"}, VersionKnown(c, v) = Answer(e, o)
      PROVE  Sound(Answer(e, o)) /\ Answer(e, o).psp = "none" /\ Answer(e, o).request = c.request
  BY <1>1, AnswerSound DEF Outcomes
<1> QED
  BY <1>2, <1>3, <1>4

\* A request from its receipt to its first API call.
LEMMA MutateSound ==
  ASSUME NEW r \in Request
  PROVE  LET d == Mutate(r)
         IN  /\ Sound(d)
             /\ d.psp # "none" => d.pc = "GetConfigMap" /\ d.psp = "label"
             /\ d.request = r
<1> DEFINE c == Received(r)
<1>1. c \in RunningCall /\ c.psp = "none" /\ c.request = r
  BY DEF Received, RunningCall, MaxAttempts
<1>2. Mutate(r) \in {Answer(c, "nothing"), MutateApplication(c)}
  BY DEF Mutate
<1> HIDE DEF c
<1>3. VersionLabel(r.app) \in VersionLabels \cup {None}
  BY RequestFields
<1>4. CASE Mutate(r) = Answer(c, "nothing")
  <2>1. "nothing" \in Outcomes \ {"none"}
    BY DEF Outcomes
  <2> QED
    BY <1>1, <1>4, <2>1, AnswerSound
<1>5. CASE Mutate(r) = MutateApplication(c) /\ DefaultsVersion(r.app)
  <2> DEFINE d == Await(c, "GetChartOperatorApp")
  <2>1. d \in ActiveCall
    BY <1>1 DEF Await, RunningCall, ActiveCall, ApiCalls, Outcomes
  <2>2. d.pc = "GetChartOperatorApp" /\ d.outcome = "none" /\ d.psp = "none" /\ d.request = r
    BY <1>1 DEF Await, RunningCall
  <2>3. Mutate(r) = d
    BY <1>1, <1>5 DEF MutateApplication
  <2> HIDE DEF d
  <2> QED
    BY <2>1, <2>2, <2>3 DEF Sound
<1>6. CASE Mutate(r) = MutateApplication(c) /\ ~DefaultsVersion(r.app)
  BY <1>1, <1>3, <1>6, VersionKnownSound DEF MutateApplication
<1> QED
  BY <1>2, <1>4, <1>5, <1>6

-----------------------------------------------------------------------------
(* Type correctness.                                                       *)

\* A request waiting for an API call is running, and sound.
LEMMA WaitingCall ==
  ASSUME IInv, NEW w \in Workers, call[w].pc \in ApiCalls
  PROVE  /\ call[w] \in RunningCall
         /\ Sound(call[w])
         /\ call[w].request \in Request
<1>1. call[w] # Idle /\ Sound(call[w])
  BY DEF IInv, CallsSound, Idle, ApiCalls
<1>2. call[w] \in ActiveCall /\ call[w].outcome = "none"
  BY <1>1 DEF Sound, ApiCalls
<1> QED
  BY <1>1, <1>2 DEF ActiveCall, RunningCall, ApiCalls

\* Replacing one request by a sound one keeps what is known of all of them.
LEMMA StepSound ==
  ASSUME IInv, NEW w \in Workers, NEW c, c = Idle \/ Sound(c), Step(w, c)
  PROVE  /\ CallsSound'
         /\ call' \in [Workers -> {Idle} \cup ActiveCall]
         /\ \A v \in Workers :
              call'[v] # Idle =>
                (call'[v].pc = "answered" <=> call'[v].outcome # "none")
<1>1. call \in [Workers -> {Idle} \cup ActiveCall]
  BY DEF IInv, TypeOK
<1>2. c \in {Idle} \cup ActiveCall
  BY DEF Sound
<1>3. call' \in [Workers -> {Idle} \cup ActiveCall]
  BY <1>1, <1>2 DEF Step
<1>4. \A v \in Workers : call'[v] = IF v = w THEN c ELSE call[v]
  BY <1>1 DEF Step
<1>5. \A v \in Workers : call'[v] = Idle \/ Sound(call'[v])
  BY <1>4 DEF IInv, CallsSound
<1> QED
  BY <1>3, <1>5 DEF CallsSound, Sound

\* Every call of the API server leaves the request sound.
LEMMA ServeSound ==
  ASSUME IInv, NEW w \in Workers, Serve(w)
  PROVE  \E c : Sound(c) /\ Step(w, c)
<1> USE DEF ApiCalls
<1>0. TypeOK
  BY DEF IInv
<1>1. CASE GetChartOperatorAppVersion(w)
  <2>1. call[w] \in RunningCall /\ Sound(call[w]) /\ call[w].request \in Request
    BY <1>1, WaitingCall DEF GetChartOperatorAppVersion
  <2>2. call[w].psp = "none"
    BY <1>1, <2>1 DEF GetChartOperatorAppVersion, Sound
  <2> DEFINE v == chartOperator[call[w].request.app.ns]
  <2>3. v \in VersionLabels \cup {None}
    BY <1>0, <2>1, RequestFields DEF TypeOK
  <2>4. Step(w, IF v = None THEN Answer(call[w], "nothing") ELSE VersionKnown(call[w], v))
    BY <1>1 DEF GetChartOperatorAppVersion
  <2> HIDE DEF v
  <2>5. Sound(Answer(call[w], "nothing"))
    BY <2>1, AnswerSound DEF Outcomes
  <2>6. Sound(VersionKnown(call[w], v))
    BY <2>1, <2>2, <2>3, VersionKnownSound
  <2> QED
    BY <2>4, <2>5, <2>6
<1>2. CASE ListClusters(w)
  <2>1. call[w] \in RunningCall /\ Sound(call[w])
    BY <1>2, WaitingCall DEF ListClusters
  <2> DEFINE e == [call[w] EXCEPT !.psp = "entry"]
             d == Await(e, "GetConfigMap")
  <2>2. d \in ActiveCall /\ d.pc = "GetConfigMap" /\ d.outcome = "none" /\ d.psp = "entry"
    BY <2>1 DEF Await, RunningCall, ActiveCall, Outcomes
  <2>3. \/ Step(w, Answer(call[w], "psp undecided"))
        \/ Step(w, d)
        \/ Step(w, MutateKubeConfig(call[w]))
    BY <1>2 DEF ListClusters
  <2> HIDE DEF d
  <2>4. Sound(d)
    BY <2>2 DEF Sound
  <2>5. Sound(Answer(call[w], "psp undecided"))
    BY <2>1, AnswerSound DEF Outcomes
  <2>6. Sound(MutateKubeConfig(call[w]))
    BY <2>1, MutateKubeConfigSound
  <2> QED
    BY <2>3, <2>4, <2>5, <2>6
<1>3. CASE GetConfigMap(w)
  <2>1. call[w] \in RunningCall /\ Sound(call[w])
    BY <1>3, WaitingCall DEF GetConfigMap
  <2>2. call[w].psp # "none"
    BY <1>3, <2>1 DEF GetConfigMap, Sound
  <2>3. \/ Step(w, MutateKubeConfig(call[w]))
        \/ Step(w, Await(call[w], "CreateConfigMap"))
        \/ Step(w, Await(call[w], "UpdateConfigMap"))
    BY <1>3 DEF GetConfigMap
  <2>4. ASSUME NEW p \in {"CreateConfigMap", "UpdateConfigMap"}
        PROVE  Sound(Await(call[w], p))
    <3>1. Await(call[w], p) \in ActiveCall
      BY <2>1 DEF Await, RunningCall, ActiveCall, Outcomes
    <3>2. Await(call[w], p).pc = p /\ Await(call[w], p).outcome = "none"
          /\ Await(call[w], p).psp = call[w].psp
      BY <2>1 DEF Await, RunningCall
    <3> QED
      BY <2>2, <3>1, <3>2 DEF Sound
  <2>5. Sound(MutateKubeConfig(call[w]))
    BY <2>1, MutateKubeConfigSound
  <2> QED
    BY <2>3, <2>4, <2>5
<1>4. CASE CreateConfigMap(w)
  <2>1. call[w] \in RunningCall
    BY <1>4, WaitingCall DEF CreateConfigMap
  <2>2. Sound(MutateKubeConfig(call[w]))
    BY <2>1, MutateKubeConfigSound
  <2>3. Sound(Answer(call[w], "already exists"))
    BY <2>1, AnswerSound DEF Outcomes
  <2> QED
    BY <1>4, <2>2, <2>3 DEF CreateConfigMap
<1>5. CASE UpdateConfigMap(w)
  <2>1. call[w] \in RunningCall
    BY <1>5, WaitingCall DEF UpdateConfigMap
  <2> QED
    BY <1>5, <2>1, MutateKubeConfigSound DEF UpdateConfigMap
<1>6. CASE GetSecret(w)
  <2>1. call[w] \in RunningCall /\ call[w].request \in Request
    BY <1>6, WaitingCall DEF GetSecret
  <2> DEFINE ns == call[w].request.app.ns
             d == Await(call[w], "ListSecrets")
  <2>2. ns \in Namespaces \cup {None}
    BY <2>1, RequestFields
  <2>3. Step(w, KubeConfigFound(call[w], ns)) \/ Step(w, d)
    BY <1>6 DEF GetSecret
  <2>4. d \in ActiveCall /\ d.pc = "ListSecrets" /\ d.outcome = "none"
    BY <2>1 DEF Await, RunningCall, ActiveCall, Outcomes
  <2> HIDE DEF d, ns
  <2>5. Sound(d)
    BY <2>4 DEF Sound
  <2>6. Sound(KubeConfigFound(call[w], ns))
    BY <2>1, <2>2, KubeConfigFoundSound
  <2> QED
    BY <2>3, <2>5, <2>6
<1>7. CASE ListSecrets(w)
  <2>1. call[w] \in RunningCall
    BY <1>7, WaitingCall DEF ListSecrets
  <2>2. \E ns \in Namespaces \cup {None} : Step(w, KubeConfigFound(call[w], ns))
    BY <1>0, <1>7 DEF ListSecrets, KubeConfigCandidates, TypeOK, Secret
  <2> QED
    BY <2>1, <2>2, KubeConfigFoundSound
<1>8. CASE GetUserValues(w)
  <2>1. /\ call[w] \in RunningCall /\ Sound(call[w])
        /\ call[w].request \in Request /\ IsClusterApp(call[w].request.app)
    BY <1>8, WaitingCall DEF GetUserValues, Sound
  <2> DEFINE values == userValues[call[w].request.app.name]
             e == [call[w] EXCEPT !.release = values]
             d == Await(e, "GetRelease")
  <2>2. values \in UserValues
    BY <1>0, <2>1, RequestFields DEF TypeOK
  <2>3. \/ Step(w, RetryUserValues(call[w]))
        \/ Step(w, Answer(call[w], "full"))
        \/ Step(w, Answer(call[w], "invalid user values"))
        \/ /\ values \in ReleaseNames
           /\ Step(w, d)
    BY <1>8, <2>2 DEF GetUserValues, UserValues, NoReleaseNamed
  <2> HIDE DEF values
  <2>4. ASSUME values \in ReleaseNames PROVE Sound(d)
    <3>1. d \in ActiveCall
      BY <2>1, <2>4 DEF Await, RunningCall, ActiveCall, Outcomes
    <3>2. /\ d.pc = "GetRelease" /\ d.outcome = "none"
          /\ d.release = values /\ d.request = call[w].request
      BY <2>1, <2>4 DEF Await, RunningCall
    <3> HIDE DEF d
    <3> QED
      BY <2>1, <2>4, <3>1, <3>2 DEF Sound
  <2>5. Sound(Answer(call[w], "full")) /\ Sound(Answer(call[w], "invalid user values"))
    BY <2>1, AnswerSound DEF Outcomes
  <2>6. Sound(RetryUserValues(call[w]))
    BY <1>8, <2>1, RetrySound DEF GetUserValues
  <2> QED
    BY <2>3, <2>4, <2>5, <2>6
<1>9. CASE GetRelease(w)
  <2>1. /\ call[w] \in RunningCall /\ Sound(call[w])
        /\ call[w].request.app.specName \in ClusterAppNames
        /\ call[w].release \in ReleaseNames
    BY <1>9, WaitingCall DEF GetRelease, Sound, IsClusterApp
  <2> DEFINE component == Releases[<<call[w].request.app.specName, call[w].release>>]
             e == [call[w] EXCEPT !.component = component]
  <2>2. component \in Component \cup {None}
    BY <2>1, MutatorAssumption
  <2>3. \/ Step(w, Answer(call[w], "no release"))
        \/ Step(w, Answer(call[w], "no cluster app version"))
        \/ Step(w, Answer(e, "full"))
    BY <1>9 DEF GetRelease
  <2> HIDE DEF component
  <2>4. e \in RunningCall
    BY <2>1, <2>2 DEF RunningCall
  <2> HIDE DEF e
  <2>5. /\ Sound(Answer(call[w], "no release"))
        /\ Sound(Answer(call[w], "no cluster app version"))
        /\ Sound(Answer(e, "full"))
    BY <2>1, <2>4, AnswerSound DEF Outcomes
  <2> QED
    BY <2>3, <2>5
<1> QED
  BY <1>1, <1>2, <1>3, <1>4, <1>5, <1>6, <1>7, <1>8, <1>9 DEF Serve

\* So does every failure of one.
LEMMA FailSound ==
  ASSUME IInv, NEW w \in Workers, Fail(w)
  PROVE  \E c : Sound(c) /\ Step(w, c)
<1>1. call[w] \in RunningCall /\ Sound(call[w])
  BY WaitingCall DEF Fail, CallFails, WriteAnswerLost, GetSecretFails, GetUserValuesFails, ApiCalls
<1>2. \/ Step(w, Answer(call[w], "API error"))
      \/ Step(w, KubeConfigFound(call[w], None))
      \/ call[w].pc = "GetUserValues" /\ Step(w, RetryUserValues(call[w]))
  BY DEF Fail, CallFails, WriteAnswerLost, GetSecretFails, GetUserValuesFails
<1>3. Sound(Answer(call[w], "API error"))
  BY <1>1, AnswerSound DEF Outcomes
<1>4. Sound(KubeConfigFound(call[w], None))
  BY <1>1, KubeConfigFoundSound
<1>5. call[w].pc = "GetUserValues" => Sound(RetryUserValues(call[w]))
  BY <1>1, RetrySound
<1> QED
  BY <1>2, <1>3, <1>4, <1>5

\* The ConfigMap a request ensures, and the values it ensures there.
LEMMA ConfigMapOfCall ==
  ASSUME NEW c, c.request \in Request
  PROVE  /\ ConfigMapKey(c) \in Namespaces \X PspNames
         /\ ConfigMapValues(c) \in PspValues
<1>1. c.request.app.ns \in Namespaces /\ c.request.app.specName \in SpecNames
  BY RequestFields
<1> QED
  BY <1>1 DEF ConfigMapKey, ConfigMapValues, PspNames, PspValues

\* The variables besides the requests keep their types in a webhook step.
LEMMA WebhookTypes ==
  ASSUME IInv, NEW w \in Workers, Serve(w) \/ Fail(w)
  PROVE  /\ UNCHANGED <<provider, environment>>
         /\ faults' \in 0..MaxFaults
         /\ configMaps' = configMaps
              \/ (/\ call[w].pc \in {"CreateConfigMap", "UpdateConfigMap"}
                  /\ configMaps' = [configMaps EXCEPT
                                      ![ConfigMapKey(call[w])] = ConfigMapValues(call[w])])
<1>1. MaxFaults \in Nat /\ faults \in 0..MaxFaults
  BY MutatorAssumption DEF IInv, TypeOK
<1>2. CASE Serve(w)
  <2>1. CASE Reads
    BY <1>1, <2>1 DEF Reads
  <2>2. CASE /\ call[w].pc \in {"CreateConfigMap", "UpdateConfigMap"}
             /\ WriteConfigMap(w)
             /\ UNCHANGED faults
    BY <1>1, <2>2 DEF WriteConfigMap
  <2> QED
    BY <1>2, <2>1, <2>2 DEF Serve, GetChartOperatorAppVersion, ListClusters, GetConfigMap,
       CreateConfigMap, UpdateConfigMap, GetSecret, ListSecrets, GetUserValues, GetRelease
<1>3. CASE Fail(w)
  <2>1. Fault
    BY <1>3 DEF Fail, CallFails, WriteAnswerLost, GetSecretFails, GetUserValuesFails
  <2>2. /\ UNCHANGED <<provider, environment>>
        /\ faults' \in 0..MaxFaults
    BY <1>1, <2>1 DEF Fault
  <2>3. \/ configMaps' = configMaps
        \/ WriteAnswerLost(w)
    BY <1>3 DEF Fail, CallFails, GetSecretFails, GetUserValuesFails
  <2> QED
    BY <2>2, <2>3 DEF WriteAnswerLost
<1> QED
  BY <1>2, <1>3

\* The other controllers keep the types of what they change.
LEMMA EnvironmentTypes ==
  ASSUME IInv, EnvironmentNext
  PROVE  /\ UNCHANGED <<provider, configMaps, faults, call>>
         /\ clusters' \in [ClusterIds -> ClusterCR \cup {None}]
         /\ chartOperator' \in [Namespaces -> VersionLabels \cup {None}]
         /\ secrets' \in SUBSET Secret
         /\ userValues' \in [AppNames -> UserValues]
<1>0. TypeOK
  BY DEF IInv
<1>1. \A e \in Environments :
        /\ e.clusters \in [ClusterIds -> ClusterCR \cup {None}]
        /\ e.chartOperator \in [Namespaces -> VersionLabels \cup {None}]
        /\ e.secrets \in SUBSET Secret
        /\ e.userValues \in [AppNames -> UserValues]
  BY MutatorAssumption DEF Environment
<1>2. UNCHANGED <<provider, configMaps, faults, call>>
  BY DEF EnvironmentNext
<1>3. ASSUME NEW id \in ClusterIds, NEW e \in Environments, ClusterAppears(id, e)
      PROVE  /\ clusters' \in [ClusterIds -> ClusterCR \cup {None}]
             /\ UNCHANGED <<chartOperator, secrets, userValues>>
  BY <1>0, <1>1, <1>3 DEF ClusterAppears, TypeOK
<1>4. ASSUME NEW id \in ClusterIds, ClusterStopsPsps(id)
      PROVE  /\ clusters' \in [ClusterIds -> ClusterCR \cup {None}]
             /\ UNCHANGED <<chartOperator, secrets, userValues>>
  <2>1. clusters[id] \in ClusterCR
    BY <1>0, <1>4 DEF ClusterStopsPsps, TypeOK
  <2>2. /\ [clusters[id] EXCEPT !.release = PssCutoffVersion] \in ClusterCR
        /\ [clusters[id] EXCEPT !.psp = "disabled"] \in ClusterCR
    BY <2>1, ReleasesAssumption DEF ClusterCR
  <2>3. \/ clusters' = [clusters EXCEPT ![id] = [clusters[id] EXCEPT !.release = PssCutoffVersion]]
        \/ clusters' = [clusters EXCEPT ![id] = [clusters[id] EXCEPT !.psp = "disabled"]]
    BY <1>4 DEF ClusterStopsPsps
  <2> QED
    BY <1>0, <1>4, <2>2, <2>3 DEF ClusterStopsPsps, TypeOK
<1>5. ASSUME NEW ns \in Namespaces, NEW e \in Environments, ChartOperatorInstalled(ns, e)
      PROVE  /\ chartOperator' \in [Namespaces -> VersionLabels \cup {None}]
             /\ UNCHANGED <<clusters, secrets, userValues>>
  BY <1>0, <1>1, <1>5 DEF ChartOperatorInstalled, TypeOK
<1>6. ASSUME NEW e \in Environments, SecretCreated(e)
      PROVE  /\ secrets' \in SUBSET Secret
             /\ UNCHANGED <<clusters, chartOperator, userValues>>
  BY <1>0, <1>1, <1>6 DEF SecretCreated, TypeOK
<1>7. ASSUME NEW n \in AppNames, NEW e \in Environments, UserValuesApplied(n, e)
      PROVE  /\ userValues' \in [AppNames -> UserValues]
             /\ UNCHANGED <<clusters, chartOperator, secrets>>
  BY <1>0, <1>1, <1>7 DEF UserValuesApplied, TypeOK
<1> QED
  BY <1>0, <1>2, <1>3, <1>4, <1>5, <1>6, <1>7 DEF EnvironmentNext, TypeOK

\* The invariant holds initially.
LEMMA InitIInv == Init => IInv
<1> SUFFICES ASSUME Init PROVE IInv
  OBVIOUS
<1>1. PICK e \in Environment :
        /\ provider = e.provider
        /\ configMaps = e.configMaps
        /\ clusters = e.clusters
        /\ chartOperator = e.chartOperator
        /\ secrets = e.secrets
        /\ userValues = e.userValues
  BY MutatorAssumption DEF Init
<1>2. faults \in 0..MaxFaults
  BY MutatorAssumption DEF Init
<1>3. \A w \in Workers : call[w] = Idle
  BY DEF Init
<1>4. call \in [Workers -> {Idle} \cup ActiveCall]
  BY DEF Init
<1> QED
  BY <1>1, <1>2, <1>3, <1>4 DEF IInv, TypeOK, CallsSound, Environment

(***************************************************************************)
(* What the webhook may do wherever it runs, alone or behind an API server *)
(* (modules Admission and Webhooks): requests of any kind come in, and are *)
(* given up at any time.  The lemmas about steps are proved for AnyStep,   *)
(* and so hold for the steps of Mutator and of the modules around it.      *)
(***************************************************************************)
Drop(w) ==
  /\ Step(w, Idle)
  /\ faults' \in 0..MaxFaults
  /\ UNCHANGED <<provider, configMaps, environment>>

Disturb ==
  /\ faults' \in 0..MaxFaults
  /\ UNCHANGED <<provider, configMaps, environment, call>>

AnyStep ==
  \/ \E w \in Workers : \/ \E r \in Request : Receive(w, r)
                        \/ Serve(w)
                        \/ Fail(w)
                        \/ Drop(w)
  \/ Disturb
  \/ EnvironmentNext

LEMMA NextIsAnyStep == IInv /\ [Next]_vars => AnyStep
<1> SUFFICES ASSUME IInv, [Next]_vars PROVE AnyStep
  OBVIOUS
<1>1. faults \in 0..MaxFaults
  BY DEF IInv, TypeOK
<1>2. ASSUME NEW w \in Workers, NEW r \in Requests, Receive(w, r) PROVE AnyStep
  BY <1>2, MutatorAssumption DEF AnyStep
<1>3. ASSUME NEW w \in Workers, Respond(w) PROVE AnyStep
  BY <1>1, <1>3 DEF AnyStep, Drop, Respond, Reads
<1>4. CASE UNCHANGED vars
  BY <1>1, <1>4 DEF AnyStep, Disturb, vars
<1> QED
  BY <1>2, <1>3, <1>4 DEF Next, AnyStep

\* Every step preserves the invariant.
LEMMA AnyStepIInv == IInv /\ AnyStep => IInv'
<1> SUFFICES ASSUME IInv, AnyStep PROVE IInv'
  OBVIOUS
<1>0. TypeOK
  BY DEF IInv
<1>1. ASSUME NEW w \in Workers, NEW r \in Request, Receive(w, r) PROVE IInv'
  <2>1. Sound(Mutate(r))
    BY MutateSound
  <2>2. Step(w, Mutate(r)) /\ Reads
    BY <1>1 DEF Receive
  <2> QED
    BY <1>0, <2>1, <2>2, StepSound DEF IInv, TypeOK, Reads, environment
<1>2. ASSUME NEW w \in Workers, Serve(w) \/ Fail(w) PROVE IInv'
  <2>1. PICK c : Sound(c) /\ Step(w, c)
    BY <1>2, ServeSound, FailSound
  <2>2. /\ UNCHANGED <<provider, environment>>
        /\ faults' \in 0..MaxFaults
    BY <1>2, WebhookTypes
  <2>3. configMaps' \in [Namespaces \X PspNames -> PspValues \cup {None, "stale"}]
    <3>1. CASE configMaps' = configMaps
      BY <1>0, <3>1 DEF TypeOK
    <3>2. CASE /\ call[w].pc \in {"CreateConfigMap", "UpdateConfigMap"}
               /\ configMaps' = [configMaps EXCEPT
                                   ![ConfigMapKey(call[w])] = ConfigMapValues(call[w])]
      <4>1. call[w].request \in Request
        BY <3>2, WaitingCall DEF ApiCalls
      <4>2. ConfigMapValues(call[w]) \in PspValues
        BY <4>1, ConfigMapOfCall
      <4> QED
        BY <1>0, <3>2, <4>2 DEF TypeOK
    <3> QED
      BY <1>2, <3>1, <3>2, WebhookTypes
  <2> QED
    BY <1>0, <2>1, <2>2, <2>3, StepSound DEF IInv, TypeOK, environment
<1>3. ASSUME NEW w \in Workers, Drop(w) PROVE IInv'
  BY <1>0, <1>3, StepSound DEF Drop, IInv, TypeOK, environment
<1>4. CASE EnvironmentNext
  BY <1>0, <1>4, EnvironmentTypes DEF IInv, TypeOK, CallsSound
<1>5. CASE Disturb
  BY <1>5 DEF Disturb, environment, IInv, TypeOK, CallsSound
<1> QED
  BY <1>1, <1>2, <1>3, <1>4, <1>5 DEF AnyStep

LEMMA NextIInv == IInv /\ [Next]_vars => IInv'
BY NextIsAnyStep, AnyStepIInv

\* Type correctness: in particular a request never makes a fifth attempt at
\* reading user values, never looks a Release up without a release name, and
\* is answered exactly when it has an outcome.
THEOREM TypeCorrect == Spec => []TypeOK
<1>1. IInv => TypeOK
  BY DEF IInv
<1> QED
  BY <1>1, InitIInv, NextIInv, PTL DEF Spec

-----------------------------------------------------------------------------
(* Apps are made to refer to ConfigMaps that hold their own values.  The   *)
(* property speaks of answered requests; what is inductive is that it has  *)
(* held since the ConfigMap was ensured, through the API calls that follow,*)
(* while other requests write ConfigMaps of the same name.                 *)

PastEnsure(c) ==
  c.psp # "none" /\ (c.pc \in AfterEnsure \/ (c.pc = "answered" /\ c.outcome = "full"))

Ensured ==
  \A w \in Workers :
    call[w] # Idle /\ PastEnsure(call[w]) =>
      configMaps[ConfigMapKey(call[w])] = ConfigMapValues(call[w])

\* A step of one request that, when it ends past the ConfigMap, ends with the
\* ConfigMap there.
Ensures(w, c) ==
  /\ Step(w, c)
  /\ c.request = call[w].request
  /\ PastEnsure(c) => configMaps'[ConfigMapKey(call[w])] = ConfigMapValues(call[w])

\* The ways a step does: it is not past the ConfigMap, it rejects the App, it
\* goes on from past the ConfigMap, or the ConfigMap is known to be there.
LEMMA NotPast ==
  ASSUME NEW w, NEW c, Step(w, c), c.request = call[w].request,
         c.psp = "none" \/ c.pc \in {"GetConfigMap", "CreateConfigMap", "UpdateConfigMap"}
  PROVE  Ensures(w, c)
BY DEF Ensures, PastEnsure, AfterEnsure

LEMMA AnswerEnsures ==
  ASSUME NEW w, call[w] \in RunningCall, NEW o \in Outcomes \ {"none", "full"},
         Step(w, Answer(call[w], o))
  PROVE  Ensures(w, Answer(call[w], o))
<1>1. /\ Answer(call[w], o).request = call[w].request
      /\ Answer(call[w], o).pc = "answered"
      /\ Answer(call[w], o).outcome = o
  BY AnswerSound
<1> QED
  BY <1>1 DEF Ensures, PastEnsure, AfterEnsure

LEMMA StaysEnsured ==
  ASSUME Ensured, NEW w \in Workers, call[w] # Idle, NEW c, Step(w, c),
         c.request = call[w].request, c.psp = call[w].psp,
         call[w].pc \in AfterEnsure, UNCHANGED configMaps
  PROVE  Ensures(w, c)
BY DEF Ensures, Ensured, PastEnsure

LEMMA NowEnsured ==
  ASSUME NEW w, NEW c, Step(w, c), c.request = call[w].request,
         configMaps'[ConfigMapKey(call[w])] = ConfigMapValues(call[w])
  PROVE  Ensures(w, c)
BY DEF Ensures

\* A webhook step by one request gets past the ConfigMap only with the
\* ConfigMap there.
LEMMA OwnStepEnsures ==
  ASSUME IInv, Ensured, NEW w \in Workers, Serve(w) \/ Fail(w)
  PROVE  \E c : Ensures(w, c)
<1> USE DEF ApiCalls
<1>0. /\ call[w] \in RunningCall /\ Sound(call[w]) /\ call[w].request \in Request
      /\ call[w] # Idle
  <2>1. call[w].pc \in ApiCalls
    BY DEF Serve, Fail, GetChartOperatorAppVersion, ListClusters, GetConfigMap,
       CreateConfigMap, UpdateConfigMap, GetSecret, ListSecrets, GetUserValues, GetRelease,
       CallFails, WriteAnswerLost, GetSecretFails, GetUserValuesFails
  <2> QED
    BY <2>1, WaitingCall DEF Idle
<1>1. ASSUME NEW o \in Outcomes \ {"none", "full"}, Step(w, Answer(call[w], o))
      PROVE  \E c : Ensures(w, c)
  BY <1>0, <1>1, AnswerEnsures
<1>2. CASE GetChartOperatorAppVersion(w)
  <2>1. call[w].psp = "none"
    BY <1>0, <1>2 DEF GetChartOperatorAppVersion, Sound
  <2> DEFINE v == chartOperator[call[w].request.app.ns]
             d == VersionKnown(call[w], v)
  <2>2. v \in VersionLabels \cup {None}
    BY <1>0, RequestFields DEF IInv, TypeOK
  <2>3. Step(w, Answer(call[w], "nothing")) \/ Step(w, d)
    BY <1>2 DEF GetChartOperatorAppVersion
  <2> HIDE DEF v
  <2>4. /\ d.request = call[w].request
        /\ d.psp = "none" \/ d.pc = "GetConfigMap"
    BY <1>0, <2>1, <2>2, VersionKnownSound
  <2> HIDE DEF d
  <2>5. Step(w, d) => Ensures(w, d)
    BY <2>4, NotPast
  <2> QED
    BY <1>1, <2>3, <2>5 DEF Outcomes
<1>3. CASE ListClusters(w)
  <2>1. call[w].psp = "none"
    BY <1>0, <1>3 DEF ListClusters, Sound
  <2> DEFINE d == Await([call[w] EXCEPT !.psp = "entry"], "GetConfigMap")
  <2>2. d.request = call[w].request /\ d.pc = "GetConfigMap"
    BY <1>0 DEF Await, RunningCall
  <2>3. \/ Step(w, Answer(call[w], "psp undecided"))
        \/ Step(w, d)
        \/ Step(w, MutateKubeConfig(call[w]))
    BY <1>3 DEF ListClusters
  <2> HIDE DEF d
  <2>4. Step(w, d) => Ensures(w, d)
    BY <2>2, NotPast
  <2>5. /\ MutateKubeConfig(call[w]).request = call[w].request
        /\ MutateKubeConfig(call[w]).psp = "none"
    BY <1>0, <2>1, MutateKubeConfigSound
  <2>6. Step(w, MutateKubeConfig(call[w])) => Ensures(w, MutateKubeConfig(call[w]))
    BY <2>5, NotPast
  <2> QED
    BY <1>1, <2>3, <2>4, <2>6 DEF Outcomes
<1>4. CASE GetConfigMap(w)
  <2>1. \/ /\ Step(w, MutateKubeConfig(call[w]))
           /\ configMaps[ConfigMapKey(call[w])] = ConfigMapValues(call[w])
        \/ \E p \in {"CreateConfigMap", "UpdateConfigMap"} : Step(w, Await(call[w], p))
    BY <1>4 DEF GetConfigMap
  <2>2. configMaps' = configMaps
    BY <1>4 DEF GetConfigMap, Reads
  <2>3. ASSUME NEW p \in {"CreateConfigMap", "UpdateConfigMap"}, Step(w, Await(call[w], p))
        PROVE  Ensures(w, Await(call[w], p))
    <3>1. Await(call[w], p).request = call[w].request /\ Await(call[w], p).pc = p
      BY <1>0 DEF Await, RunningCall
    <3> QED
      BY <2>3, <3>1, NotPast
  <2>4. MutateKubeConfig(call[w]).request = call[w].request
    BY <1>0, MutateKubeConfigSound
  <2>5. CASE /\ Step(w, MutateKubeConfig(call[w]))
             /\ configMaps[ConfigMapKey(call[w])] = ConfigMapValues(call[w])
    <3>1. Ensures(w, MutateKubeConfig(call[w]))
      BY <2>2, <2>4, <2>5, NowEnsured
    <3> QED
      BY <3>1
  <2> QED
    BY <2>1, <2>3, <2>5
<1>5. CASE CreateConfigMap(w) \/ UpdateConfigMap(w)
  <2>1. \/ Step(w, MutateKubeConfig(call[w])) /\ WriteConfigMap(w)
        \/ Step(w, Answer(call[w], "already exists"))
    BY <1>5 DEF CreateConfigMap, UpdateConfigMap
  <2>2. WriteConfigMap(w) => configMaps'[ConfigMapKey(call[w])] = ConfigMapValues(call[w])
    BY <1>0, ConfigMapOfCall DEF WriteConfigMap, IInv, TypeOK
  <2>3. MutateKubeConfig(call[w]).request = call[w].request
    BY <1>0, MutateKubeConfigSound
  <2>4. CASE Step(w, MutateKubeConfig(call[w])) /\ WriteConfigMap(w)
    <3>1. Ensures(w, MutateKubeConfig(call[w]))
      BY <2>2, <2>3, <2>4, NowEnsured
    <3> QED
      BY <3>1
  <2> QED
    BY <1>1, <2>1, <2>4 DEF Outcomes
<1>6. CASE GetSecret(w)
  <2>1. call[w].request.app.ns \in Namespaces \cup {None}
    BY <1>0, RequestFields
  <2> DEFINE d == Await(call[w], "ListSecrets")
             e == KubeConfigFound(call[w], call[w].request.app.ns)
  <2>2. Step(w, e) \/ Step(w, d)
    BY <1>6 DEF GetSecret
  <2>3. d.request = call[w].request /\ d.psp = call[w].psp
    BY <1>0 DEF Await, RunningCall
  <2>4. e.request = call[w].request /\ e.psp = call[w].psp
    BY <1>0, <2>1, KubeConfigFoundSound
  <2>5. call[w].pc \in AfterEnsure /\ UNCHANGED configMaps
    BY <1>6 DEF GetSecret, AfterEnsure, Reads
  <2> HIDE DEF d, e
  <2>6. /\ Step(w, d) => Ensures(w, d)
        /\ Step(w, e) => Ensures(w, e)
    BY <1>0, <2>3, <2>4, <2>5, StaysEnsured
  <2> QED
    BY <2>2, <2>6
<1>7. CASE ListSecrets(w)
  <2>1. \E ns \in Namespaces \cup {None} : Step(w, KubeConfigFound(call[w], ns))
    BY <1>7 DEF ListSecrets, KubeConfigCandidates, IInv, TypeOK, Secret
  <2>2. call[w].pc \in AfterEnsure /\ UNCHANGED configMaps
    BY <1>7 DEF ListSecrets, AfterEnsure, Reads
  <2>3. \A ns \in Namespaces \cup {None} :
          /\ KubeConfigFound(call[w], ns).request = call[w].request
          /\ KubeConfigFound(call[w], ns).psp = call[w].psp
    BY <1>0, KubeConfigFoundSound
  <2>4. \A ns \in Namespaces \cup {None} :
          Step(w, KubeConfigFound(call[w], ns)) => Ensures(w, KubeConfigFound(call[w], ns))
    BY <1>0, <2>2, <2>3, StaysEnsured
  <2> QED
    BY <2>1, <2>4
<1>8. CASE GetUserValues(w)
  <2> DEFINE values == userValues[call[w].request.app.name]
             d == Await([call[w] EXCEPT !.release = values], "GetRelease")
  <2>1. \/ Step(w, RetryUserValues(call[w]))
        \/ Step(w, Answer(call[w], "full"))
        \/ Step(w, Answer(call[w], "invalid user values"))
        \/ Step(w, d)
    BY <1>8 DEF GetUserValues
  <2>2. call[w].pc \in AfterEnsure /\ UNCHANGED configMaps
    BY <1>8 DEF GetUserValues, AfterEnsure, Reads
  <2>3. d.request = call[w].request /\ d.psp = call[w].psp
    BY <1>0 DEF Await, RunningCall
  <2>4. /\ RetryUserValues(call[w]).request = call[w].request
        /\ RetryUserValues(call[w]).psp = call[w].psp
    BY <1>0, <1>8, RetrySound DEF GetUserValues
  <2>5. /\ Answer(call[w], "full").request = call[w].request
        /\ Answer(call[w], "full").psp = call[w].psp
    BY <1>0, AnswerSound DEF Outcomes
  <2> HIDE DEF d
  <2>6. /\ Step(w, d) => Ensures(w, d)
        /\ Step(w, RetryUserValues(call[w])) => Ensures(w, RetryUserValues(call[w]))
        /\ Step(w, Answer(call[w], "full")) => Ensures(w, Answer(call[w], "full"))
    BY <1>0, <2>2, <2>3, <2>4, <2>5, StaysEnsured
  <2> QED
    BY <1>1, <2>1, <2>6 DEF Outcomes
<1>9. CASE GetRelease(w)
  <2> DEFINE component == Releases[<<call[w].request.app.specName, call[w].release>>]
             d == Answer([call[w] EXCEPT !.component = component], "full")
  <2>1. \/ Step(w, Answer(call[w], "no release"))
        \/ Step(w, Answer(call[w], "no cluster app version"))
        \/ Step(w, d)
    BY <1>9 DEF GetRelease
  <2>2. call[w].pc \in AfterEnsure /\ UNCHANGED configMaps
    BY <1>9 DEF GetRelease, AfterEnsure, Reads
  <2>3. d.request = call[w].request /\ d.psp = call[w].psp
    BY <1>0 DEF Answer, RunningCall
  <2> HIDE DEF d
  <2>4. Step(w, d) => Ensures(w, d)
    BY <1>0, <2>2, <2>3, StaysEnsured
  <2> QED
    BY <1>1, <2>1, <2>4 DEF Outcomes
<1>10. CASE CallFails(w) \/ WriteAnswerLost(w)
  BY <1>1, <1>10 DEF CallFails, WriteAnswerLost, Outcomes
<1>11. CASE GetSecretFails(w)
  <2>1. Step(w, KubeConfigFound(call[w], None))
    BY <1>11 DEF GetSecretFails
  <2>2. call[w].pc \in AfterEnsure /\ UNCHANGED configMaps
    BY <1>11 DEF GetSecretFails, AfterEnsure
  <2>3. /\ KubeConfigFound(call[w], None).request = call[w].request
        /\ KubeConfigFound(call[w], None).psp = call[w].psp
    BY <1>0, KubeConfigFoundSound
  <2>4. Ensures(w, KubeConfigFound(call[w], None))
    BY <1>0, <2>1, <2>2, <2>3, StaysEnsured
  <2> QED
    BY <2>4
<1>12. CASE GetUserValuesFails(w)
  <2>1. Step(w, RetryUserValues(call[w]))
    BY <1>12 DEF GetUserValuesFails
  <2>2. call[w].pc \in AfterEnsure /\ UNCHANGED configMaps
    BY <1>12 DEF GetUserValuesFails, AfterEnsure
  <2>3. /\ RetryUserValues(call[w]).request = call[w].request
        /\ RetryUserValues(call[w]).psp = call[w].psp
    BY <1>0, <1>12, RetrySound DEF GetUserValuesFails
  <2>4. Ensures(w, RetryUserValues(call[w]))
    BY <1>0, <2>1, <2>2, <2>3, StaysEnsured
  <2> QED
    BY <2>4
<1> QED
  BY <1>2, <1>3, <1>4, <1>5, <1>6, <1>7, <1>8, <1>9, <1>10, <1>11, <1>12 DEF Serve, Fail

\* A step by one request leaves the ConfigMap of another as it was, or writes
\* the values the other expects: they share the name, and so the values.
LEMMA OthersStayEnsured ==
  ASSUME SharedNamesShareValues, IInv, NEW w \in Workers, Serve(w) \/ Fail(w),
         NEW v \in Workers, call[v] # Idle,
         configMaps[ConfigMapKey(call[v])] = ConfigMapValues(call[v])
  PROVE  configMaps'[ConfigMapKey(call[v])] = ConfigMapValues(call[v])
<1>1. CASE configMaps' = configMaps
  BY <1>1
<1>2. CASE /\ call[w].pc \in {"CreateConfigMap", "UpdateConfigMap"}
           /\ configMaps' = [configMaps EXCEPT
                               ![ConfigMapKey(call[w])] = ConfigMapValues(call[w])]
  <2>1. call[w].request \in Request /\ call[v].request \in Request
    BY <1>2, WaitingCall DEF ApiCalls, IInv, CallsSound, Sound, ActiveCall
  <2>2. /\ call[w].request.app.specName \in SpecNames
        /\ call[v].request.app.specName \in SpecNames
    BY <2>1, RequestFields
  <2>3. ConfigMapKey(call[v]) = ConfigMapKey(call[w]) =>
          ConfigMapValues(call[v]) = ConfigMapValues(call[w])
    BY <2>2 DEF ConfigMapKey, ConfigMapValues, SharedNamesShareValues
  <2>4. /\ ConfigMapKey(call[v]) \in Namespaces \X PspNames
        /\ DOMAIN configMaps = Namespaces \X PspNames
    BY <2>1, ConfigMapOfCall DEF IInv, TypeOK
  <2> QED
    BY <1>2, <2>3, <2>4
<1> QED
  BY <1>1, <1>2, WebhookTypes

\* Every step preserves Ensured.
LEMMA AnyStepEnsured ==
  SharedNamesShareValues /\ IInv /\ Ensured /\ AnyStep => Ensured'
<1> SUFFICES ASSUME SharedNamesShareValues, IInv, Ensured, AnyStep,
                    NEW v \in Workers, (call[v] # Idle)', PastEnsure(call'[v])
             PROVE  configMaps'[ConfigMapKey(call'[v])] = ConfigMapValues(call'[v])
  BY DEF Ensured
<1>0. call \in [Workers -> {Idle} \cup ActiveCall]
  BY DEF IInv, TypeOK
<1>1. ASSUME call'[v] = call[v], configMaps' = configMaps
      PROVE  configMaps'[ConfigMapKey(call'[v])] = ConfigMapValues(call'[v])
  BY <1>1 DEF Ensured
<1>2. ASSUME NEW w \in Workers, NEW r \in Request, Receive(w, r)
      PROVE  configMaps'[ConfigMapKey(call'[v])] = ConfigMapValues(call'[v])
  <2>1. configMaps' = configMaps
    BY <1>2 DEF Receive, Reads
  <2>2. call'[v] = IF v = w THEN Mutate(r) ELSE call[v]
    BY <1>0, <1>2 DEF Receive, Step
  <2>3. ~PastEnsure(Mutate(r))
    BY MutateSound DEF PastEnsure, AfterEnsure
  <2> QED
    BY <1>1, <2>1, <2>2, <2>3
<1>3. ASSUME NEW w \in Workers, Serve(w) \/ Fail(w)
      PROVE  configMaps'[ConfigMapKey(call'[v])] = ConfigMapValues(call'[v])
  <2>1. PICK c : Ensures(w, c)
    BY <1>3, OwnStepEnsures
  <2>2. call'[v] = IF v = w THEN c ELSE call[v]
    BY <1>0, <2>1 DEF Ensures, Step
  <2>3. CASE v = w
    BY <2>1, <2>2, <2>3 DEF Ensures, ConfigMapKey, ConfigMapValues
  <2>4. CASE v # w
    BY <1>3, <2>2, <2>4, OthersStayEnsured DEF Ensured
  <2> QED
    BY <2>3, <2>4
<1>4. ASSUME NEW w \in Workers, Drop(w)
      PROVE  configMaps'[ConfigMapKey(call'[v])] = ConfigMapValues(call'[v])
  <2>1. configMaps' = configMaps
    BY <1>4 DEF Drop
  <2>2. call'[v] = IF v = w THEN Idle ELSE call[v]
    BY <1>0, <1>4 DEF Drop, Step
  <2> QED
    BY <1>1, <2>1, <2>2
<1>5. CASE EnvironmentNext
  BY <1>1, <1>5 DEF EnvironmentNext
<1>6. CASE Disturb
  BY <1>1, <1>6 DEF Disturb
<1> QED
  BY <1>2, <1>3, <1>4, <1>5, <1>6 DEF AnyStep

\* When charts that share a ConfigMap share its values, an App admitted with
\* the psp-removal entry refers to a ConfigMap that exists and holds the values
\* of its own chart, however many requests are creating and updating ConfigMaps
\* meanwhile (ensureConfigMap, mutate_app_psp_removal.go:210).
THEOREM EnsuredBeforeReferencedHolds ==
  ASSUME SharedNamesShareValues
  PROVE  Spec => []EnsuredBeforeReferenced
<1>1. Init => Ensured
  BY DEF Init, Ensured
<1>2. IInv /\ Ensured /\ [Next]_vars => Ensured'
  BY NextIsAnyStep, AnyStepEnsured
<1>3. Ensured => EnsuredBeforeReferenced
  BY DEF Ensured, PastEnsure, EnsuredBeforeReferenced, Fully, Idle
<1> QED
  BY <1>1, <1>2, <1>3, InitIInv, NextIInv, PTL DEF Spec

=============================================================================
