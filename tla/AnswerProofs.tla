---------------------------- MODULE AnswerProofs ----------------------------
(***************************************************************************)
(* Theorems about the answers of the mutating webhook: what the patches an *)
(* App is admitted with make of it, and for what it is rejected.           *)
(***************************************************************************)
EXTENDS PspRemovalProofs, PatchProofs, FiniteSetTheorems

-----------------------------------------------------------------------------
(* What an answer makes of the App.                                        *)

\* An App is a document the lemmas about patches are about.
LEMMA AppIsDocument ==
  ASSUME NEW app \in App
  PROVE  IsDocument(app)
<1>1. app = [f \in Fields |-> app[f]]
  BY DEF App, Fields
<1>2. app.labels \in AppLabels
  BY DEF App
<1>3. app.labels = [k \in LabelKeys |-> app.labels[k]]
  BY <1>2 DEF AppLabels
<1> QED
  BY <1>1, <1>3 DEF IsDocument

\* What a call's answer makes of the App, by its outcome.
Outcome(c) ==
  LET app == c.request.app
  IN  IF c.outcome = "full"
      THEN FullyDefaulted(app, c.version, c.psp, c.kubeNs, c.component)
      ELSE IF c.outcome = "labels" THEN LabelledOnly(app, c.version) ELSE app

LEMMA MutatedIsOutcome ==
  ASSUME NEW c, c.request.app \in App
  PROVE  Mutated(c) = Outcome(c)
<1>1. IsDocument(c.request.app)
  BY AppIsDocument
<1>2. CASE c.outcome = "full"
  <2>1. Patches(c) = FullMutation(c.request.app, c.version, c.psp, c.kubeNs, c.component)
    BY <1>2 DEF Patches
  <2> QED
    BY <1>1, <1>2, <2>1, FullMutationApplied DEF Mutated, Outcome
<1>3. CASE c.outcome = "labels"
  <2>1. Patches(c) = MetadataOnly(c.request.app, c.version)
    BY <1>3 DEF Patches
  <2> QED
    BY <1>1, <1>3, <2>1, MetadataOnlyApplied DEF Mutated, Outcome
<1>4. CASE c.outcome \notin {"full", "labels"}
  <2>1. Patches(c) = <<>>
    BY <1>4 DEF Patches
  <2> QED
    BY <1>4, <2>1, ApplyNothing DEF Mutated, Outcome
<1> QED
  BY <1>2, <1>3, <1>4

\* The fields of an App after a full mutation.
LEMMA FullyDefaultedFields ==
  ASSUME NEW app \in App, NEW version, NEW psp, NEW ns, NEW component
  PROVE  LET new == FullyDefaulted(app, version, psp, ns, component)
         IN  /\ new.ns = app.ns
             /\ new.config = app.config
             /\ new.userConfig = app.userConfig
             /\ new.annotations = DefaultedAnnotations(app)
             /\ new.labels = DefaultedLabels(app, version, psp)
             /\ new.extraConfigs = DefaultedConfigs(app, psp)
             /\ new.context = DefaultedContext(app, ns)
             /\ new.secret = DefaultedSecret(app, ns)
             /\ new.version = DefaultedVersion(app, component)
             /\ new.catalog = DefaultedCatalog(app, component)
BY AppIsDocument DEF IsDocument, Fields, FullyDefaulted

\* A request that is being served is one the webhook may receive.
LEMMA ServedRequest ==
  ASSUME IInv, NEW w \in Workers, call[w] # Idle
  PROVE  /\ call[w].request \in Request
         /\ call[w].request.app \in App
         /\ Sound(call[w])
<1>1. Sound(call[w])
  BY DEF IInv, CallsSound
<1>2. call[w].request \in Request
  BY <1>1 DEF Sound, ActiveCall
<1> QED
  BY <1>1, <1>2 DEF Request

\* Every patch the webhook answers with can be applied to the App it was asked
\* about: no operation adds below a container that is neither in the document
\* nor opened by an earlier operation (the comments at mutate_app.go:120, :187).
THEOREM PatchAppliesHolds == Spec => []PatchApplies
<1>1. ASSUME NEW c PROVE Applicable(c.request.app, Patches(c))
  BY NothingApplies, MetadataOnlyApplies, FullMutationApplies DEF Patches
<1>2. PatchApplies
  BY <1>1 DEF PatchApplies
<1> QED
  BY <1>2, PTL

-----------------------------------------------------------------------------
(* What the submitter wrote.                                               *)

LEMMA PrefixOfItself ==
  ASSUME NEW S, NEW s \in Seq(S)
  PROVE  IsPrefix(s, s)
BY LenProperties DEF IsPrefix

LEMMA PrefixOfAppend ==
  ASSUME NEW S, NEW s \in Seq(S), NEW t \in Seq(S), NEW e \in S, IsPrefix(s, t)
  PROVE  IsPrefix(s, Append(t, e))
<1> DEFINE u == Append(t, e)
<1>1. u \in Seq(S) /\ Len(u) = Len(t) + 1 /\ \A i \in 1..Len(t) : u[i] = t[i]
  BY AppendProperties
<1>2. Len(s) \in Nat /\ Len(t) \in Nat /\ Len(s) <= Len(t)
  BY LenProperties DEF IsPrefix
<1> HIDE DEF u
<1>3. SubSeq(u, 1, Len(s)) = [i \in 1..Len(s) |-> u[i]]
      /\ SubSeq(t, 1, Len(s)) = [i \in 1..Len(s) |-> t[i]]
  BY <1>1, <1>2
<1>4. SubSeq(u, 1, Len(s)) = SubSeq(t, 1, Len(s))
  BY <1>1, <1>2, <1>3
<1> QED
  BY <1>1, <1>2, <1>4 DEF IsPrefix, u

\* What a mutation keeps of an App.
Kept(app, new) ==
  /\ app.annotations = "user" => new.annotations = "user"
  /\ \A k \in LabelKeys \ {"psp"} :
       app.labels[k] \notin {None, LegacyVersion} => new.labels[k] = app.labels[k]
  /\ IsPrefix(app.extraConfigs, new.extraConfigs)
  /\ app.context # None => new.context = app.context
  /\ app.secret # NoRef => new.secret = app.secret
  /\ ~IsClusterApp(app) => /\ new.version = app.version
                           /\ new.catalog = app.catalog

\* The extra configs of an App are a sequence, to which entries are added.
LEMMA ExtraConfigsGrow ==
  ASSUME NEW app \in App, NEW psp
  PROVE  IsPrefix(app.extraConfigs, DefaultedConfigs(app, psp))
<1> DEFINE values == ClusterValuesEntry(app)
           entry == PspEntry(app)
<1>1. PICK S : app.extraConfigs \in Seq(S)
  BY DEF App
<1> DEFINE T == S \cup {values, entry}
<1>2. app.extraConfigs \in Seq(T)
  <2>1. S \subseteq T
    OBVIOUS
  <2> QED
    BY <1>1, <2>1, SeqMonotonic
<1>3. values \in T /\ entry \in T
  OBVIOUS
<1> HIDE DEF T
<1>4. IsPrefix(app.extraConfigs, app.extraConfigs)
  BY <1>2, PrefixOfItself
<1>5. /\ WithClusterValues(app) \in Seq(T)
      /\ IsPrefix(app.extraConfigs, WithClusterValues(app))
  BY <1>2, <1>3, <1>4, PrefixOfAppend, AppendProperties DEF WithClusterValues
<1> QED
  BY <1>2, <1>3, <1>5, PrefixOfAppend DEF DefaultedConfigs

\* The names and versions a mutation adds replace nothing but "1.0.0".
LEMMA LabelsKept ==
  ASSUME NEW app, NEW version, NEW psp, NEW k \in LabelKeys \ {"psp"},
         app.labels[k] \notin {None, LegacyVersion}
  PROVE  /\ NamedAndVersioned(app, version, app.labels)[k] = app.labels[k]
         /\ DefaultedLabels(app, version, psp)[k] = app.labels[k]
<1>1. NamedAndVersioned(app, version, app.labels)[k] = app.labels[k]
  BY DEF NamedAndVersioned, NamesNothing, TakesVersion, VersionLabel
<1> QED
  BY <1>1 DEF DefaultedLabels, PspLabelled

LEMMA FullyDefaultedKeeps ==
  ASSUME NEW app \in App, NEW version, NEW psp, NEW ns, NEW component,
         ns # None => ~KeepsKubeConfig(app),
         component # None => IsClusterApp(app)
  PROVE  Kept(app, FullyDefaulted(app, version, psp, ns, component))
<1> DEFINE new == FullyDefaulted(app, version, psp, ns, component)
<1>1. /\ new.annotations = DefaultedAnnotations(app)
      /\ new.labels = DefaultedLabels(app, version, psp)
      /\ new.extraConfigs = DefaultedConfigs(app, psp)
      /\ new.context = DefaultedContext(app, ns)
      /\ new.secret = DefaultedSecret(app, ns)
      /\ new.version = DefaultedVersion(app, component)
      /\ new.catalog = DefaultedCatalog(app, component)
  BY FullyDefaultedFields
<1> HIDE DEF new
<1>2. app.annotations = "user" => new.annotations = "user"
  <2>1. app.annotations \in {None, "empty"} => app.annotations # "user"
    BY NamesAssumption
  <2> QED
    BY <1>1, <2>1 DEF DefaultedAnnotations
<1>3. \A k \in LabelKeys \ {"psp"} :
        app.labels[k] \notin {None, LegacyVersion} => new.labels[k] = app.labels[k]
  BY <1>1, LabelsKept
<1>4. IsPrefix(app.extraConfigs, new.extraConfigs)
  BY <1>1, ExtraConfigsGrow
<1>5. app.context # None => new.context = app.context
  BY <1>1 DEF DefaultedContext
<1>6. app.secret # NoRef => new.secret = app.secret
  <2>1. app.secret # NoRef => KeepsKubeConfig(app)
    BY DEF App, NoRef, Ref, KeepsKubeConfig
  <2> QED
    BY <1>1, <2>1 DEF DefaultedSecret
<1>7. ~IsClusterApp(app) => new.version = app.version /\ new.catalog = app.catalog
  BY <1>1 DEF DefaultedVersion, DefaultedCatalog
<1> QED
  BY <1>2, <1>3, <1>4, <1>5, <1>6, <1>7 DEF Kept, new

LEMMA LabelledOnlyKeeps ==
  ASSUME NEW app \in App, NEW version
  PROVE  Kept(app, LabelledOnly(app, version)) /\ Kept(app, app)
<1>1. IsPrefix(app.extraConfigs, app.extraConfigs)
  BY PrefixOfItself DEF App
<1>2. Kept(app, app)
  BY <1>1 DEF Kept
<1> DEFINE new == [app EXCEPT !.annotations = DefaultedAnnotations(app),
                              !.labels = NamedAndVersioned(app, version, app.labels)]
<1>3. /\ new.annotations = DefaultedAnnotations(app)
      /\ new.labels = NamedAndVersioned(app, version, app.labels)
      /\ new.extraConfigs = app.extraConfigs
      /\ new.context = app.context /\ new.secret = app.secret
      /\ new.version = app.version /\ new.catalog = app.catalog
  BY AppIsDocument DEF IsDocument, Fields
<1>4. LabelledOnly(app, version) \in {app, new}
  BY DEF LabelledOnly
<1> HIDE DEF new
<1>5. app.annotations = "user" => new.annotations = "user"
  <2>1. app.annotations \in {None, "empty"} => app.annotations # "user"
    BY NamesAssumption
  <2> QED
    BY <1>3, <2>1 DEF DefaultedAnnotations
<1>6. \A k \in LabelKeys \ {"psp"} :
        app.labels[k] \notin {None, LegacyVersion} => new.labels[k] = app.labels[k]
  BY <1>3, LabelsKept
<1>7. Kept(app, new)
  BY <1>1, <1>3, <1>5, <1>6 DEF Kept
<1> QED
  BY <1>2, <1>4, <1>7

-----------------------------------------------------------------------------
(* References to the cluster's values.                                     *)

LEMMA OwnValuesStay ==
  ASSUME NEW app \in App, NEW version, NEW psp, NEW ns, NEW component
  PROVE  LET new == FullyDefaulted(app, version, psp, ns, component)
         IN  /\ ClusterLabel(new) = ClusterLabel(app)
             /\ ClusterConfigMapName(new) = ClusterConfigMapName(app)
             /\ new.ns = app.ns
             /\ new.config = app.config
             /\ new.userConfig = app.userConfig
             /\ new.extraConfigs = DefaultedConfigs(app, psp)
<1> DEFINE new == FullyDefaulted(app, version, psp, ns, component)
<1>1. /\ new.ns = app.ns
      /\ new.config = app.config
      /\ new.userConfig = app.userConfig
      /\ new.labels = DefaultedLabels(app, version, psp)
      /\ new.extraConfigs = DefaultedConfigs(app, psp)
  BY FullyDefaultedFields
<1> HIDE DEF new
<1>2. ClusterLabel(new) = ClusterLabel(app)
  BY <1>1 DEF ClusterLabel, DefaultedLabels, PspLabelled, NamedAndVersioned, LabelKeys
<1>3. ClusterConfigMapName(new) = ClusterConfigMapName(app)
  BY <1>1, <1>2 DEF ClusterConfigMapName, Owner, InOrgNamespace
<1> QED
  BY <1>1, <1>2, <1>3 DEF new

\* The references of a document with given levels.
Levels(ref, config, userConfig, list) ==
  {<<"config">> : r \in {config} \cap {ref}}
    \cup {<<"userConfig">> : r \in {userConfig} \cap {ref}}
    \cup {<<"extraConfigs", i>> : i \in
            {j \in DOMAIN list : Ref(list[j].name, list[j].ns) = ref}}
OwnRef(app) == Ref(ClusterConfigMapName(app), app.ns)

LEMMA ReferencesAreLevels ==
  ASSUME NEW app
  PROVE  References(app) = Levels(OwnRef(app), app.config, app.userConfig, app.extraConfigs)
BY DEF References, Levels, OwnRef

\* An App refers to its cluster's values exactly when it has a reference.
LEMMA ReferencesWhenReferred ==
  ASSUME NEW app \in App
  PROVE  ReferencesClusterValues(app) <=> References(app) # {}
<1>1. PICK S : app.extraConfigs \in Seq(S)
  BY DEF App
<1> DEFINE list == app.extraConfigs
<1>2. Entries(app) = {list[i] : i \in DOMAIN list}
  BY <1>1 DEF Entries, ToSet
<1> HIDE DEF list
<1>3. (\E e \in Entries(app) : Ref(e.name, e.ns) = OwnRef(app)) <=>
        (\E i \in DOMAIN list : Ref(list[i].name, list[i].ns) = OwnRef(app))
  BY <1>2
<1>4. Levels(OwnRef(app), app.config, app.userConfig, list) # {} <=>
        \/ app.config = OwnRef(app)
        \/ app.userConfig = OwnRef(app)
        \/ \E i \in DOMAIN list : Ref(list[i].name, list[i].ns) = OwnRef(app)
  BY DEF Levels
<1>5. ReferencesClusterValues(app) <=>
        \/ app.config = OwnRef(app)
        \/ app.userConfig = OwnRef(app)
        \/ \E e \in Entries(app) : Ref(e.name, e.ns) = OwnRef(app)
  BY DEF ReferencesClusterValues, OwnRef
<1> QED
  BY <1>3, <1>4, <1>5, ReferencesAreLevels DEF list

LEMMA ReferencesFinite ==
  ASSUME NEW app \in App
  PROVE  IsFiniteSet(References(app))
<1> DEFINE list == app.extraConfigs
           numbers == {j \in DOMAIN list : Ref(list[j].name, list[j].ns) = OwnRef(app)}
           numbered == {<<"extraConfigs", i>> : i \in numbers}
<1>1. PICK S : list \in Seq(S)
  BY DEF App
<1>2. IsFiniteSet(1..Len(list)) /\ DOMAIN list = 1..Len(list)
  BY <1>1, LenProperties, FS_Interval
<1>3. IsFiniteSet(numbers)
  <2>1. numbers \subseteq 1..Len(list)
    BY <1>2
  <2> QED
    BY <1>2, <2>1, FS_Subset
<1> HIDE DEF numbers
<1>4. IsFiniteSet(numbered)
  <2> DEFINE numbering == [i \in numbers |-> <<"extraConfigs", i>>]
  <2>1. numbering \in Surjection(numbers, numbered)
    BY DEF Surjection
  <2> QED
    BY <1>3, <2>1, FS_Surjection
<1> HIDE DEF numbered
<1>5. IsFiniteSet({<<"config">>, <<"userConfig">>} \cup numbered)
  <2>1. IsFiniteSet({<<"config">>}) /\ IsFiniteSet({<<"userConfig">>})
    BY FS_Singleton
  <2>2. IsFiniteSet({<<"config">>} \cup {<<"userConfig">>})
    BY <2>1, FS_Union
  <2>3. {<<"config">>} \cup {<<"userConfig">>} = {<<"config">>, <<"userConfig">>}
    OBVIOUS
  <2> QED
    BY <2>2, <2>3, <1>4, FS_Union
<1>6. References(app) \subseteq {<<"config">>, <<"userConfig">>} \cup numbered
  BY ReferencesAreLevels DEF Levels, numbered, numbers
<1> QED
  BY <1>5, <1>6, FS_Subset

\* An entry for something else adds no reference, and one for the cluster's
\* values adds one.
LEMMA LevelsOfAppend ==
  ASSUME NEW S, NEW list \in Seq(S), NEW e \in S, NEW ref, NEW config, NEW userConfig
  PROVE  LET before == Levels(ref, config, userConfig, list)
             after == Levels(ref, config, userConfig, Append(list, e))
         IN  /\ Ref(e.name, e.ns) # ref => after = before
             /\ Ref(e.name, e.ns) = ref =>
                  after = before \cup {<<"extraConfigs", Len(list) + 1>>}
<1> DEFINE longer == Append(list, e)
           Hits(l) == {j \in DOMAIN l : Ref(l[j].name, l[j].ns) = ref}
<1>1. /\ Len(list) \in Nat /\ DOMAIN list = 1..Len(list)
      /\ DOMAIN longer = 1..(Len(list) + 1)
      /\ \A i \in 1..Len(list) : longer[i] = list[i]
      /\ longer[Len(list) + 1] = e
  BY AppendProperties, LenProperties
<1> HIDE DEF longer
<1>2. DOMAIN longer = DOMAIN list \cup {Len(list) + 1}
  BY <1>1
<1>3. Ref(e.name, e.ns) # ref => Hits(longer) = Hits(list)
  BY <1>1, <1>2
<1>4. Ref(e.name, e.ns) = ref => Hits(longer) = Hits(list) \cup {Len(list) + 1}
  BY <1>1, <1>2
<1>5. \A l : Levels(ref, config, userConfig, l) =
        {<<"config">> : r \in {config} \cap {ref}}
          \cup {<<"userConfig">> : r \in {userConfig} \cap {ref}}
          \cup {<<"extraConfigs", i>> : i \in Hits(l)}
  BY DEF Levels
<1> HIDE DEF Hits
<1>6. Ref(e.name, e.ns) # ref =>
        Levels(ref, config, userConfig, longer) = Levels(ref, config, userConfig, list)
  BY <1>3, <1>5
<1>7. Ref(e.name, e.ns) = ref =>
        Levels(ref, config, userConfig, longer) =
          Levels(ref, config, userConfig, list) \cup {<<"extraConfigs", Len(list) + 1>>}
  BY <1>4, <1>5
<1> QED
  BY <1>6, <1>7 DEF longer

\* A full mutation leaves the references there are, or adds the only one.
LEMMA ReferencesDefaulted ==
  ASSUME NEW app \in App, NEW version, NEW psp, NEW ns, NEW component,
         VersionLabel(app) # UniqueVersion
  PROVE  LET new == FullyDefaulted(app, version, psp, ns, component)
         IN  /\ References(app) = {} => \E x : References(new) = {x}
             /\ References(app) # {} => References(new) = References(app)
<1> DEFINE new == FullyDefaulted(app, version, psp, ns, component)
           values == ClusterValuesEntry(app)
           entry == PspEntry(app)
           list == app.extraConfigs
           At(l) == Levels(OwnRef(app), app.config, app.userConfig, l)
<1>1. PICK S : list \in Seq(S)
  BY DEF App
<1> DEFINE T == S \cup {values, entry}
<1>2. list \in Seq(T)
  <2>1. S \subseteq T
    OBVIOUS
  <2> QED
    BY <1>1, <2>1, SeqMonotonic
<1>3. values \in T /\ entry \in T
  OBVIOUS
<1>4. /\ Ref(values.name, values.ns) = OwnRef(app)
      /\ Ref(entry.name, entry.ns) # OwnRef(app)
  BY DEF ClusterValuesEntry, PspEntry, ConfigMapEntry, Ref, OwnRef, ClusterConfigMapName,
     ClusterValues, ExtraConfigName, PspRemovalPatch
<1>5. References(app) = At(list)
  BY ReferencesAreLevels
<1>6. References(new) = At(DefaultedConfigs(app, psp))
  BY OwnValuesStay, ReferencesAreLevels DEF OwnRef
<1>7. LacksClusterValues(app) <=> References(app) = {}
  BY ReferencesWhenReferred DEF LacksClusterValues
<1> HIDE DEF new, values, entry, list, T
<1>8. /\ WithClusterValues(app) \in Seq(T)
      /\ IF References(app) = {} THEN \E x : At(WithClusterValues(app)) = {x}
         ELSE At(WithClusterValues(app)) = References(app)
  <2>1. CASE LacksClusterValues(app)
    <3>1. WithClusterValues(app) = Append(list, values)
      BY <2>1 DEF WithClusterValues, list, values
    <3>2. Append(list, values) \in Seq(T)
      BY <1>2, <1>3, AppendProperties
    <3>3. At(Append(list, values)) = At(list) \cup {<<"extraConfigs", Len(list) + 1>>}
      BY <1>2, <1>3, <1>4, LevelsOfAppend
    <3>4. At(list) = {} /\ References(app) = {}
      BY <2>1, <1>5, <1>7
    <3>5. At(Append(list, values)) = {<<"extraConfigs", Len(list) + 1>>}
      BY <3>3, <3>4
    <3>6. \E x : At(WithClusterValues(app)) = {x}
      BY <3>1, <3>5
    <3> QED
      BY <3>1, <3>2, <3>4, <3>6
  <2>2. CASE ~LacksClusterValues(app)
    BY <2>2, <1>2, <1>5, <1>7 DEF WithClusterValues, list
  <2> QED
    BY <2>1, <2>2
<1>9. At(DefaultedConfigs(app, psp)) = At(WithClusterValues(app))
  <2>1. At(Append(WithClusterValues(app), entry)) = At(WithClusterValues(app))
    BY <1>3, <1>4, <1>8, LevelsOfAppend
  <2> QED
    BY <2>1 DEF DefaultedConfigs, entry
<1> QED
  BY <1>6, <1>8, <1>9 DEF new

\* A fully mutated App that is not a management cluster app refers to its
\* cluster's values through exactly one level, unless it was submitted with
\* more: the one patch that adds the reference is left out exactly when there
\* is one already (mutateConfig, mutate_app.go:249 and :266).
THEOREM ClusterValuesReferencedOnceHolds == Spec => []ClusterValuesReferencedOnce
<1>1. IInv => ClusterValuesReferencedOnce
  <2> SUFFICES ASSUME IInv, NEW w \in Workers, Fully(call[w]),
                      VersionLabel(call[w].request.app) # UniqueVersion
               PROVE  LET before == Cardinality(References(call[w].request.app))
                          after == Cardinality(References(Mutated(call[w])))
                      IN  after = IF before = 0 THEN 1 ELSE before
    BY DEF ClusterValuesReferencedOnce
  <2> DEFINE c == call[w]
             app == c.request.app
             new == FullyDefaulted(app, c.version, c.psp, c.kubeNs, c.component)
  <2>1. app \in App
    BY ServedRequest DEF Fully, Idle
  <2>2. Mutated(c) = new
    BY <2>1, MutatedIsOutcome DEF Fully, Outcome
  <2>3. IsFiniteSet(References(app))
    BY <2>1, ReferencesFinite
  <2>4. Cardinality(References(app)) = 0 <=> References(app) = {}
    BY <2>3, FS_EmptySet
  <2>5. /\ References(app) = {} => \E x : References(new) = {x}
        /\ References(app) # {} => References(new) = References(app)
    <3>1. VersionLabel(app) # UniqueVersion
      OBVIOUS
    <3> HIDE DEF c, app
    <3>2. \A version, psp, ns, component :
            LET d == FullyDefaulted(app, version, psp, ns, component)
            IN  /\ References(app) = {} => \E x : References(d) = {x}
                /\ References(app) # {} => References(d) = References(app)
      BY <2>1, <3>1, ReferencesDefaulted
    <3> QED
      BY <3>2
  <2> HIDE DEF c, app, new
  <2>6. References(app) = {} => Cardinality(References(new)) = 1
    BY <2>5, FS_Singleton
  <2>7. CASE References(app) = {}
    BY <2>2, <2>4, <2>6, <2>7 DEF c, app
  <2>8. CASE References(app) # {}
    <3>1. References(Mutated(c)) = References(app)
      BY <2>2, <2>5, <2>8
    <3> QED
      BY <3>1, <2>4, <2>8 DEF c, app
  <2> QED
    BY <2>7, <2>8
<1>2. Spec => []IInv
  BY InitIInv, NextIInv, PTL DEF Spec
<1> QED
  BY <1>1, <1>2, PTL

-----------------------------------------------------------------------------
(* What a request learns from the API server, and keeps until it answers.  *)

\* Where the kubeconfig of an App is: in a Secret of its own namespace, or in
\* one labelled with it.
HasKubeConfig(app, ns, ss) ==
  \E s \in ss : /\ s.ns = ns
                /\ s.name = ClusterKubeConfigSecretName(app)
                /\ s.ns = app.ns \/ s.cluster = app.ns

KubeConfigLearned(c, ss) ==
  c.kubeNs # None => /\ ~KeepsKubeConfig(c.request.app)
                     /\ HasKubeConfig(c.request.app, c.kubeNs, ss)

\* The component is the one the user values lead to, as they are now.
ComponentLearned(c, uv) ==
  LET app == c.request.app
  IN  /\ c.pc # "answered" => c.component = None
      /\ c.pc = "GetRelease" => c.release = uv[app.name]
      /\ c.component # None =>
           /\ IsClusterApp(app)
           /\ uv[app.name] \in ReleaseNames
           /\ c.component = Releases[<<app.specName, uv[app.name]>>]
           /\ c.component.version # None
      /\ Fully(c) /\ IsClusterApp(app) /\ c.component = None =>
           uv[app.name] = "noRelease"

Learned(c, ss, uv) ==
  /\ c.pc \in {"GetSecret", "ListSecrets"} => ~KeepsKubeConfig(c.request.app)
  /\ KubeConfigLearned(c, ss)
  /\ ComponentLearned(c, uv)

AllLearned == \A w \in Workers : call[w] # Idle => Learned(call[w], secrets, userValues)

\* A rejection, or an answer that changes labels at most, claims nothing more.
LEMMA AnswerLearns ==
  ASSUME NEW c \in RunningCall, NEW ss, NEW uv, NEW o \in Outcomes \ {"none", "full"},
         c.component = None, KubeConfigLearned(c, ss)
  PROVE  Learned(Answer(c, o), ss, uv)
<1> DEFINE d == Answer(c, o)
<1>1. /\ d.pc = "answered" /\ d.outcome = o /\ d.request = c.request
      /\ d.kubeNs = c.kubeNs /\ d.component = c.component
  BY DEF Answer, RunningCall
<1> HIDE DEF d
<1>2. Learned(d, ss, uv)
  BY <1>1 DEF Learned, KubeConfigLearned, ComponentLearned, Fully
<1> QED
  BY <1>2 DEF d

LEMMA MutateClusterAppLearns ==
  ASSUME NEW c \in RunningCall, NEW ss, NEW uv,
         c.component = None, KubeConfigLearned(c, ss)
  PROVE  Learned(MutateClusterApp(c), ss, uv)
<1> DEFINE d == MutateClusterApp(c)
<1>1. /\ d.request = c.request /\ d.kubeNs = c.kubeNs /\ d.component = c.component
      /\ \/ d.pc = "GetUserValues"
         \/ d.pc = "answered" /\ ~IsClusterApp(c.request.app)
  BY DEF MutateClusterApp, Answer, Await, RunningCall
<1> HIDE DEF d
<1>2. Learned(d, ss, uv)
  BY <1>1 DEF Learned, KubeConfigLearned, ComponentLearned, Fully
<1> QED
  BY <1>2 DEF d

LEMMA MutateKubeConfigLearns ==
  ASSUME NEW c \in RunningCall, NEW ss, NEW uv,
         c.component = None, KubeConfigLearned(c, ss)
  PROVE  Learned(MutateKubeConfig(c), ss, uv)
<1>1. CASE KeepsKubeConfig(c.request.app)
  BY <1>1, MutateClusterAppLearns DEF MutateKubeConfig
<1>2. CASE ~KeepsKubeConfig(c.request.app)
  <2> DEFINE d == Await(c, "GetSecret")
  <2>1. /\ d.pc = "GetSecret" /\ d.request = c.request
        /\ d.kubeNs = c.kubeNs /\ d.component = c.component
    BY DEF Await, RunningCall
  <2>2. MutateKubeConfig(c) = d
    BY <1>2 DEF MutateKubeConfig
  <2> HIDE DEF d
  <2> QED
    BY <1>2, <2>1, <2>2 DEF Learned, KubeConfigLearned, ComponentLearned, Fully
<1> QED
  BY <1>1, <1>2

LEMMA KubeConfigFoundLearns ==
  ASSUME NEW c \in RunningCall, NEW ss, NEW uv, NEW ns \in Namespaces \cup {None},
         c.component = None, ~KeepsKubeConfig(c.request.app),
         ns # None => HasKubeConfig(c.request.app, ns, ss)
  PROVE  Learned(KubeConfigFound(c, ns), ss, uv)
<1> DEFINE e == [c EXCEPT !.kubeNs = ns]
<1>1. /\ e \in RunningCall /\ e.kubeNs = ns
      /\ e.request = c.request /\ e.component = None
  BY DEF RunningCall
<1>2. KubeConfigFound(c, ns) = MutateClusterApp(e)
  BY DEF KubeConfigFound
<1> HIDE DEF e
<1>3. KubeConfigLearned(e, ss)
  BY <1>1 DEF KubeConfigLearned
<1> QED
  BY <1>1, <1>2, <1>3, MutateClusterAppLearns

\* Waiting for another call, or asking again, claims nothing more.
LEMMA WaitingLearns ==
  ASSUME NEW c, NEW d, NEW ss, NEW uv, Learned(c, ss, uv), c.pc # "answered",
         d.pc \in ApiCalls \ {"GetRelease"},
         d.request = c.request, d.kubeNs = c.kubeNs, d.component = c.component,
         d.pc \in {"GetSecret", "ListSecrets"} => ~KeepsKubeConfig(c.request.app)
  PROVE  Learned(d, ss, uv)
BY DEF Learned, KubeConfigLearned, ComponentLearned, Fully, ApiCalls

LEMMA MutateConfigLearns ==
  ASSUME NEW c \in RunningCall, NEW ss, NEW uv, Learned(c, ss, uv)
  PROVE  Learned(MutateConfigForPSPRemoval(c), ss, uv)
<1>1. c.component = None /\ KubeConfigLearned(c, ss) /\ c.pc # "answered"
  BY DEF Learned, ComponentLearned, RunningCall, ApiCalls
<1> DEFINE d == Await([c EXCEPT !.psp = "label"], "GetConfigMap")
           e == Await(c, "ListClusters")
<1>2. /\ d.pc = "GetConfigMap" /\ d.request = c.request
      /\ d.kubeNs = c.kubeNs /\ d.component = c.component
  BY DEF Await, RunningCall
<1>3. /\ e.pc = "ListClusters" /\ e.request = c.request
      /\ e.kubeNs = c.kubeNs /\ e.component = c.component
  BY DEF Await, RunningCall
<1>4. MutateConfigForPSPRemoval(c) \in
        {Answer(c, "unsupported provider"), MutateKubeConfig(c), d, e}
  BY DEF MutateConfigForPSPRemoval
<1> HIDE DEF d, e
<1>5. Learned(d, ss, uv) /\ Learned(e, ss, uv)
  BY <1>1, <1>2, <1>3, WaitingLearns DEF ApiCalls
<1>6. Learned(Answer(c, "unsupported provider"), ss, uv)
  BY <1>1, AnswerLearns DEF Outcomes
<1>7. Learned(MutateKubeConfig(c), ss, uv)
  BY <1>1, MutateKubeConfigLearns
<1> QED
  BY <1>4, <1>5, <1>6, <1>7

LEMMA VersionKnownLearns ==
  ASSUME NEW c \in RunningCall, NEW ss, NEW uv, NEW v \in VersionLabels \cup {None},
         Learned(c, ss, uv)
  PROVE  Learned(VersionKnown(c, v), ss, uv)
<1> DEFINE e == [c EXCEPT !.version = v]
<1>1. e \in RunningCall
  BY DEF RunningCall
<1>2. /\ e.request = c.request /\ e.pc = c.pc /\ e.kubeNs = c.kubeNs
      /\ e.component = c.component /\ e.outcome = c.outcome /\ e.release = c.release
  BY DEF RunningCall
<1>3. VersionKnown(c, v) \in {Answer(e, "nothing"), Answer(e, "labels"),
                              MutateConfigForPSPRemoval(e)}
  BY DEF VersionKnown
<1> HIDE DEF e
<1>4. Learned(e, ss, uv)
  BY <1>2 DEF Learned, KubeConfigLearned, ComponentLearned, Fully
<1>5. e.component = None /\ KubeConfigLearned(e, ss)
  BY <1>1, <1>4 DEF Learned, ComponentLearned, RunningCall, ApiCalls
<1>6. Learned(Answer(e, "nothing"), ss, uv) /\ Learned(Answer(e, "labels"), ss, uv)
  BY <1>1, <1>5, AnswerLearns DEF Outcomes
<1>7. Learned(MutateConfigForPSPRemoval(e), ss, uv)
  BY <1>1, <1>4, MutateConfigLearns
<1> QED
  BY <1>3, <1>6, <1>7

LEMMA MutateLearns ==
  ASSUME NEW r \in Request, NEW ss, NEW uv
  PROVE  Learned(Mutate(r), ss, uv)
<1> DEFINE c == Received(r)
           d == Await(c, "GetChartOperatorApp")
<1>1. /\ c \in RunningCall /\ c.request = r /\ c.pc = "received"
      /\ c.kubeNs = None /\ c.component = None
  BY DEF Received, RunningCall, MaxAttempts
<1>2. /\ d.pc = "GetChartOperatorApp" /\ d.request = c.request
      /\ d.kubeNs = c.kubeNs /\ d.component = c.component
  BY DEF Await, Received
<1>3. Mutate(r) \in {Answer(c, "nothing"), d, VersionKnown(c, VersionLabel(r.app))}
  BY <1>1 DEF Mutate, MutateApplication
<1> HIDE DEF c, d
<1>4. Learned(c, ss, uv)
  BY <1>1 DEF Learned, KubeConfigLearned, ComponentLearned, Fully
<1>5. Learned(d, ss, uv)
  BY <1>1, <1>2, <1>4, WaitingLearns DEF ApiCalls
<1>6. Learned(Answer(c, "nothing"), ss, uv)
  BY <1>1, <1>4, AnswerLearns DEF Learned, Outcomes
<1>7. Learned(VersionKnown(c, VersionLabel(r.app)), ss, uv)
  BY <1>1, <1>4, RequestFields, VersionKnownLearns
<1> QED
  BY <1>3, <1>5, <1>6, <1>7

\* Only a request that waits for an API call is served.
LEMMA ServedWaits ==
  ASSUME NEW w \in Workers, Serve(w) \/ Fail(w)
  PROVE  call[w].pc \in ApiCalls /\ call[w] # Idle
<1>1. call[w].pc \in ApiCalls
  BY DEF Serve, Fail, GetChartOperatorAppVersion, ListClusters, GetConfigMap,
     CreateConfigMap, UpdateConfigMap, GetSecret, ListSecrets, GetUserValues, GetRelease,
     CallFails, WriteAnswerLost, GetSecretFails, GetUserValuesFails, ApiCalls
<1> QED
  BY <1>1 DEF Idle, ApiCalls

\* An API call, answered or failed, adds to what its request has learned.
LEMMA CallLearns ==
  ASSUME IInv, NEW w \in Workers, Serve(w) \/ Fail(w),
         Learned(call[w], secrets, userValues)
  PROVE  \E c : Step(w, c) /\ Learned(c, secrets, userValues)
<1> DEFINE Goal == \E c : Step(w, c) /\ Learned(c, secrets, userValues)
           app == call[w].request.app
<1> USE DEF ApiCalls
<1>0. /\ call[w] \in RunningCall /\ Sound(call[w]) /\ call[w].request \in Request
      /\ call[w].component = None
      /\ KubeConfigLearned(call[w], secrets)
  <2>1. call[w].pc \in ApiCalls
    BY ServedWaits
  <2> QED
    BY <2>1, WaitingCall DEF Learned, ComponentLearned
<1>1. ASSUME NEW o \in Outcomes \ {"none", "full"}, Step(w, Answer(call[w], o))
      PROVE  Goal
  BY <1>0, <1>1, AnswerLearns
<1>2. ASSUME Step(w, MutateKubeConfig(call[w])) PROVE Goal
  BY <1>0, <1>2, MutateKubeConfigLearns
<1>3. ASSUME NEW p \in {"CreateConfigMap", "UpdateConfigMap"}, Step(w, Await(call[w], p))
      PROVE  Goal
  <2> DEFINE d == Await(call[w], p)
  <2>1. /\ d.pc = p /\ d.request = call[w].request
        /\ d.kubeNs = call[w].kubeNs /\ d.component = call[w].component
    BY <1>0 DEF Await, RunningCall
  <2>2. call[w].pc # "answered"
    BY <1>0 DEF RunningCall
  <2> HIDE DEF d
  <2>3. Learned(d, secrets, userValues)
    BY <2>1, <2>2, WaitingLearns
  <2> QED
    BY <1>3, <2>3 DEF d
<1>4. ASSUME call[w].pc = "GetUserValues", Step(w, RetryUserValues(call[w])) PROVE Goal
  <2> DEFINE d == [call[w] EXCEPT !.attempts = @ + 1]
  <2>1. /\ d.pc = "GetUserValues" /\ d.request = call[w].request
        /\ d.kubeNs = call[w].kubeNs /\ d.component = call[w].component
    BY <1>0, <1>4 DEF RunningCall
  <2>2. RetryUserValues(call[w]) \in {Answer(call[w], "no user values"), d}
    BY DEF RetryUserValues
  <2> HIDE DEF d
  <2>3. Learned(d, secrets, userValues)
    BY <1>4, <2>1, WaitingLearns
  <2>4. Learned(Answer(call[w], "no user values"), secrets, userValues)
    BY <1>0, AnswerLearns DEF Outcomes
  <2> QED
    BY <1>4, <2>2, <2>3, <2>4
<1>5. ASSUME NEW ns \in Namespaces \cup {None}, Step(w, KubeConfigFound(call[w], ns)),
             call[w].pc \in {"GetSecret", "ListSecrets"},
             ns # None => HasKubeConfig(app, ns, secrets)
      PROVE  Goal
  <2>1. ~KeepsKubeConfig(app)
    BY <1>5 DEF Learned
  <2> QED
    BY <1>0, <1>5, <2>1, KubeConfigFoundLearns
<1>6. CASE GetChartOperatorAppVersion(w)
  <2> DEFINE v == chartOperator[app.ns]
  <2>1. v \in VersionLabels \cup {None}
    BY <1>0, RequestFields DEF IInv, TypeOK
  <2>2. Step(w, Answer(call[w], "nothing")) \/ Step(w, VersionKnown(call[w], v))
    BY <1>6 DEF GetChartOperatorAppVersion
  <2> HIDE DEF v
  <2>3. Learned(VersionKnown(call[w], v), secrets, userValues)
    BY <1>0, <2>1, VersionKnownLearns
  <2>4. CASE Step(w, Answer(call[w], "nothing"))
    BY <1>1, <2>4 DEF Outcomes
  <2> QED
    BY <2>2, <2>3, <2>4
<1>7. CASE ListClusters(w)
  <2> DEFINE d == Await([call[w] EXCEPT !.psp = "entry"], "GetConfigMap")
  <2>1. /\ d.pc = "GetConfigMap" /\ d.request = call[w].request
        /\ d.kubeNs = call[w].kubeNs /\ d.component = call[w].component
    BY <1>0 DEF Await, RunningCall
  <2>2. /\ call[w].pc = "ListClusters"
        /\ \/ Step(w, Answer(call[w], "psp undecided"))
           \/ Step(w, d)
           \/ Step(w, MutateKubeConfig(call[w]))
    BY <1>7 DEF ListClusters
  <2> HIDE DEF d
  <2>3. Learned(d, secrets, userValues)
    BY <2>1, <2>2, WaitingLearns
  <2>4. CASE Step(w, Answer(call[w], "psp undecided"))
    BY <1>1, <2>4 DEF Outcomes
  <2> QED
    BY <1>2, <2>2, <2>3, <2>4
<1>8. CASE GetConfigMap(w)
  BY <1>2, <1>3, <1>8 DEF GetConfigMap
<1>9. CASE CreateConfigMap(w) \/ UpdateConfigMap(w)
  BY <1>1, <1>2, <1>9 DEF CreateConfigMap, UpdateConfigMap, Outcomes
<1>10. CASE GetSecret(w)
  <2> DEFINE d == Await(call[w], "ListSecrets")
  <2>1. /\ d.pc = "ListSecrets" /\ d.request = call[w].request
        /\ d.kubeNs = call[w].kubeNs /\ d.component = call[w].component
    BY <1>0 DEF Await, RunningCall
  <2>2. call[w].pc = "GetSecret" /\ ~KeepsKubeConfig(app)
    BY <1>10 DEF GetSecret, Learned
  <2>3. \/ Step(w, KubeConfigFound(call[w], app.ns)) /\ HasKubeConfig(app, app.ns, secrets)
        \/ Step(w, d)
    BY <1>10 DEF GetSecret, HasKubeConfig
  <2> HIDE DEF d
  <2>4. Learned(d, secrets, userValues)
    BY <2>1, <2>2, WaitingLearns
  <2>5. app.ns \in Namespaces \cup {None}
    BY <1>0, RequestFields
  <2> QED
    BY <1>5, <2>2, <2>3, <2>4, <2>5
<1>11. CASE ListSecrets(w)
  <2>1. call[w].pc = "ListSecrets"
    BY <1>11 DEF ListSecrets
  <2>2. ASSUME NEW s \in KubeConfigCandidates(app), Step(w, KubeConfigFound(call[w], s.ns))
        PROVE  Goal
    <3>1. HasKubeConfig(app, s.ns, secrets)
      BY <2>2 DEF KubeConfigCandidates, HasKubeConfig
    <3>2. s.ns \in Namespaces \cup {None}
      BY <2>2 DEF KubeConfigCandidates, IInv, TypeOK, Secret
    <3> QED
      BY <1>5, <2>1, <2>2, <3>1, <3>2
  <2>3. CASE Step(w, KubeConfigFound(call[w], None))
    BY <1>5, <2>1, <2>3
  <2> QED
    BY <1>11, <2>2, <2>3 DEF ListSecrets
<1>12. CASE GetUserValues(w)
  <2> DEFINE values == userValues[app.name]
             d == Await([call[w] EXCEPT !.release = values], "GetRelease")
             e == Answer(call[w], "full")
  <2>1. /\ d.pc = "GetRelease" /\ d.request = call[w].request /\ d.release = values
        /\ d.kubeNs = call[w].kubeNs /\ d.component = call[w].component
        /\ d.outcome = "none"
    BY <1>0 DEF Await, RunningCall
  <2>2. /\ e.pc = "answered" /\ e.outcome = "full" /\ e.request = call[w].request
        /\ e.kubeNs = call[w].kubeNs /\ e.component = call[w].component
    BY <1>0 DEF Answer, RunningCall
  <2>3. /\ call[w].pc = "GetUserValues"
        /\ \/ Step(w, RetryUserValues(call[w]))
           \/ values = "noRelease" /\ Step(w, e)
           \/ Step(w, Answer(call[w], "invalid user values"))
           \/ Step(w, d)
    BY <1>12 DEF GetUserValues
  <2> HIDE DEF d, e
  <2>4. Learned(d, secrets, userValues)
    BY <1>0, <2>1 DEF Learned, KubeConfigLearned, ComponentLearned, Fully
  <2>5. values = "noRelease" => Learned(e, secrets, userValues)
    BY <1>0, <2>2 DEF Learned, KubeConfigLearned, ComponentLearned, Fully
  <2>6. CASE Step(w, Answer(call[w], "invalid user values"))
    BY <1>1, <2>6 DEF Outcomes
  <2> QED
    BY <1>4, <2>3, <2>4, <2>5, <2>6
<1>13. CASE GetRelease(w)
  <2> DEFINE component == Releases[<<app.specName, call[w].release>>]
             d == Answer([call[w] EXCEPT !.component = component], "full")
  <2>1. /\ d.pc = "answered" /\ d.request = call[w].request
        /\ d.kubeNs = call[w].kubeNs /\ d.component = component
    BY <1>0 DEF Answer, RunningCall
  <2>2. /\ call[w].pc = "GetRelease"
        /\ \/ Step(w, Answer(call[w], "no release"))
           \/ Step(w, Answer(call[w], "no cluster app version"))
           \/ component # None /\ component.version # None /\ Step(w, d)
    BY <1>13 DEF GetRelease
  <2>3. /\ call[w].release = userValues[app.name]
        /\ call[w].release \in ReleaseNames
        /\ IsClusterApp(app)
    BY <1>0, <2>2 DEF Learned, ComponentLearned, Sound
  <2> HIDE DEF d
  <2>4. component # None /\ component.version # None => Learned(d, secrets, userValues)
    BY <1>0, <2>1, <2>3 DEF Learned, KubeConfigLearned, ComponentLearned, Fully
  <2>5. CASE \/ Step(w, Answer(call[w], "no release"))
             \/ Step(w, Answer(call[w], "no cluster app version"))
    BY <1>1, <2>5 DEF Outcomes
  <2> QED
    BY <2>2, <2>4, <2>5
<1>14. CASE Fail(w)
  <2>1. \/ Step(w, Answer(call[w], "API error"))
        \/ call[w].pc = "GetSecret" /\ Step(w, KubeConfigFound(call[w], None))
        \/ call[w].pc = "GetUserValues" /\ Step(w, RetryUserValues(call[w]))
    BY <1>14 DEF Fail, CallFails, WriteAnswerLost, GetSecretFails, GetUserValuesFails
  <2>2. CASE Step(w, Answer(call[w], "API error"))
    BY <1>1, <2>2 DEF Outcomes
  <2> QED
    BY <1>4, <1>5, <2>1, <2>2
<1> QED
  BY <1>6, <1>7, <1>8, <1>9, <1>10, <1>11, <1>12, <1>13, <1>14 DEF Serve

\* What has been learned stays true while other controllers go on: no Secret
\* disappears, and user values that are there do not change.
LEMMA LearnedStays ==
  ASSUME IInv, EnvironmentNext, NEW c, c.request \in Request,
         Sound(c), Learned(c, secrets, userValues)
  PROVE  Learned(c, secrets', userValues')
<1>1. secrets \subseteq secrets'
  BY DEF EnvironmentNext, ClusterAppears, ClusterStopsPsps, ChartOperatorInstalled,
     SecretCreated, UserValuesApplied
<1>2. \A n \in AppNames : userValues[n] # "missing" => userValues'[n] = userValues[n]
  <2>1. DOMAIN userValues = AppNames
    BY DEF IInv, TypeOK
  <2>2. \/ userValues' = userValues
        \/ \E n \in AppNames, e \in Environments : UserValuesApplied(n, e)
    BY DEF EnvironmentNext, ClusterAppears, ClusterStopsPsps, ChartOperatorInstalled,
       SecretCreated
  <2> QED
    BY <2>1, <2>2 DEF UserValuesApplied
<1>3. c.request.app.name \in AppNames
  BY RequestFields
<1>4. \A v \in ReleaseNames : v # "missing"
  BY MutatorAssumption DEF NoReleaseNamed
<1>5. KubeConfigLearned(c, secrets')
  BY <1>1 DEF Learned, KubeConfigLearned, HasKubeConfig
<1>6. ComponentLearned(c, userValues')
  <2>1. c.pc = "GetRelease" => c.release \in ReleaseNames
    BY DEF Sound
  <2> QED
    BY <1>2, <1>3, <1>4, <2>1 DEF Learned, ComponentLearned
<1> QED
  BY <1>5, <1>6 DEF Learned

LEMMA AnyStepLearned == IInv /\ AllLearned /\ AnyStep => AllLearned'
<1> SUFFICES ASSUME IInv, AllLearned, AnyStep, NEW v \in Workers, (call[v] # Idle)'
             PROVE  Learned(call'[v], secrets', userValues')
  BY DEF AllLearned
<1>0. call \in [Workers -> {Idle} \cup ActiveCall]
  BY DEF IInv, TypeOK
<1>1. ASSUME NEW w \in Workers, NEW c, Step(w, c), UNCHANGED <<secrets, userValues>>,
             c = Idle \/ Learned(c, secrets, userValues)
      PROVE  Learned(call'[v], secrets', userValues')
  <2>1. call'[v] = IF v = w THEN c ELSE call[v]
    BY <1>0, <1>1 DEF Step
  <2>2. Learned(call'[v], secrets, userValues)
    BY <1>1, <2>1 DEF AllLearned
  <2> QED
    BY <1>1, <2>2
<1>2. ASSUME NEW w \in Workers, NEW r \in Request, Receive(w, r)
      PROVE  Learned(call'[v], secrets', userValues')
  <2>1. Learned(Mutate(r), secrets, userValues)
    BY MutateLearns
  <2> QED
    BY <1>1, <1>2, <2>1 DEF Receive, Reads, environment
<1>3. ASSUME NEW w \in Workers, Serve(w) \/ Fail(w)
      PROVE  Learned(call'[v], secrets', userValues')
  <2>1. UNCHANGED <<secrets, userValues>>
    BY <1>3, WebhookTypes DEF environment
  <2>2. call[w] # Idle
    BY <1>3, ServedWaits
  <2>3. PICK c : Step(w, c) /\ Learned(c, secrets, userValues)
    BY <1>3, <2>2, CallLearns DEF AllLearned
  <2> QED
    BY <1>1, <2>1, <2>3
<1>4. ASSUME NEW w \in Workers, Drop(w)
      PROVE  Learned(call'[v], secrets', userValues')
  BY <1>1, <1>4 DEF Drop, environment
<1>5. CASE EnvironmentNext
  <2>1. call' = call
    BY <1>5 DEF EnvironmentNext
  <2>2. /\ call[v].request \in Request /\ Sound(call[v])
        /\ Learned(call[v], secrets, userValues)
    BY <2>1, ServedRequest DEF AllLearned
  <2> QED
    BY <1>5, <2>1, <2>2, LearnedStays
<1>6. CASE Disturb
  BY <1>6 DEF Disturb, environment, AllLearned
<1> QED
  BY <1>2, <1>3, <1>4, <1>5, <1>6 DEF AnyStep

LEMMA LearnedHolds == Spec => [](IInv /\ AllLearned)
<1>1. Init => AllLearned
  BY DEF Init, AllLearned
<1>2. IInv /\ AllLearned /\ [Next]_vars => AllLearned'
  BY NextIsAnyStep, AnyStepLearned
<1> QED
  BY <1>1, <1>2, InitIInv, NextIInv, PTL DEF Spec

\* Defaulting overrides nothing the submitter wrote, whichever patches the
\* App is answered with and whatever was learned on the way: a kubeconfig is
\* looked up, and a version taken from a release, only where none was written
\* or the App is a cluster app (mutateKubeConfig, mutateClusterApp).
THEOREM SubmittedContentKeptHolds == Spec => []SubmittedContentKept
<1>1. IInv /\ AllLearned => SubmittedContentKept
  <2> SUFFICES ASSUME IInv, AllLearned, NEW w \in Workers, Allowed(call[w])
               PROVE  Kept(call[w].request.app, Mutated(call[w]))
    BY DEF SubmittedContentKept, Kept
  <2>1. call[w] # Idle
    BY DEF Allowed, Idle
  <2>2. call[w].request.app \in App
    BY <2>1, ServedRequest
  <2>3. /\ call[w].kubeNs # None => ~KeepsKubeConfig(call[w].request.app)
        /\ call[w].component # None => IsClusterApp(call[w].request.app)
    BY <2>1 DEF AllLearned, Learned, KubeConfigLearned, ComponentLearned
  <2>4. Mutated(call[w]) = Outcome(call[w])
    BY <2>2, MutatedIsOutcome
  <2> QED
    BY <2>2, <2>3, <2>4, FullyDefaultedKeeps, LabelledOnlyKeeps DEF Outcome
<1> QED
  BY <1>1, LearnedHolds, PTL

\* A kubeconfig reference the webhook adds names a Secret that exists and
\* belongs to the App's own cluster, also when the answer arrives after other
\* controllers have gone on (mutateKubeConfig and its two lookups).
THEOREM AddedKubeConfigExistsHolds == Spec => []AddedKubeConfigExists
<1>1. IInv /\ AllLearned => AddedKubeConfigExists
  <2> SUFFICES ASSUME IInv, AllLearned, NEW w \in Workers, Fully(call[w]),
                      Mutated(call[w]).secret # call[w].request.app.secret
               PROVE  LET app == call[w].request.app
                      IN  \E s \in secrets : /\ Ref(s.name, s.ns) = Mutated(call[w]).secret
                                             /\ s.name = KubeConfig(Owner(app))
                                             /\ s.ns = app.ns \/ s.cluster = app.ns
    BY DEF AddedKubeConfigExists
  <2> DEFINE c == call[w]
             app == c.request.app
  <2>1. c # Idle
    BY DEF Fully, Idle
  <2>2. app \in App
    BY <2>1, ServedRequest
  <2>3. Mutated(c) = FullyDefaulted(app, c.version, c.psp, c.kubeNs, c.component)
    BY <2>2, MutatedIsOutcome DEF Fully, Outcome
  <2>4. Mutated(c).secret = DefaultedSecret(app, c.kubeNs)
    BY <2>2, <2>3, FullyDefaultedFields
  <2>5. c.kubeNs # None /\ Mutated(c).secret = Ref(ClusterKubeConfigSecretName(app), c.kubeNs)
    BY <2>4 DEF DefaultedSecret
  <2>6. HasKubeConfig(app, c.kubeNs, secrets)
    BY <2>1, <2>5 DEF AllLearned, Learned, KubeConfigLearned
  <2>7. PICK s \in secrets : /\ s.ns = c.kubeNs
                             /\ s.name = ClusterKubeConfigSecretName(app)
                             /\ s.ns = app.ns \/ s.cluster = app.ns
    BY <2>6 DEF HasKubeConfig
  <2>8. Ref(s.name, s.ns) = Mutated(c).secret /\ s.name = KubeConfig(Owner(app))
    BY <2>5, <2>7 DEF ClusterKubeConfigSecretName
  <2> QED
    BY <2>7, <2>8
<1> QED
  BY <1>1, LearnedHolds, PTL

\* A cluster app whose user values name a release is admitted at the version
\* and from the catalog that release lists, and never without a version: the
\* values read are still those that count when the answer arrives
\* (mutateClusterApp).
THEOREM ClusterAppFollowsReleaseHolds == Spec => []ClusterAppFollowsRelease
<1>1. IInv /\ AllLearned => ClusterAppFollowsRelease
  <2> SUFFICES ASSUME IInv, AllLearned, NEW w \in Workers, Fully(call[w]),
                      IsClusterApp(call[w].request.app),
                      userValues[call[w].request.app.name] \in ReleaseNames
               PROVE  LET app == call[w].request.app
                          component == Releases[<<app.specName, userValues[app.name]>>]
                      IN  /\ component # None /\ component.version # None
                          /\ Mutated(call[w]).version = component.version
                          /\ Mutated(call[w]).catalog = component.catalog
    BY DEF ClusterAppFollowsRelease
  <2> DEFINE c == call[w]
             app == c.request.app
  <2>1. c # Idle
    BY DEF Fully, Idle
  <2>2. app \in App
    BY <2>1, ServedRequest
  <2>3. userValues[app.name] # "noRelease"
    BY MutatorAssumption DEF NoReleaseNamed
  <2>4. /\ c.component # None
        /\ c.component = Releases[<<app.specName, userValues[app.name]>>]
        /\ c.component.version # None
    BY <2>1, <2>3 DEF AllLearned, Learned, ComponentLearned
  <2>5. Mutated(c) = FullyDefaulted(app, c.version, c.psp, c.kubeNs, c.component)
    BY <2>2, MutatedIsOutcome DEF Fully, Outcome
  <2>6. /\ Mutated(c).version = DefaultedVersion(app, c.component)
        /\ Mutated(c).catalog = DefaultedCatalog(app, c.component)
    BY <2>2, <2>5, FullyDefaultedFields
  <2> QED
    BY <2>4, <2>6 DEF DefaultedVersion, DefaultedCatalog
<1> QED
  BY <1>1, LearnedHolds, PTL
=============================================================================
