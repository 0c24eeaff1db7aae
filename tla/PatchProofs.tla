---------------------------- MODULE PatchProofs ----------------------------
(***************************************************************************)
(* What the patches of the mutating webhook make of an App: theorems about *)
(* the operators of JSONPatch and MutateApp.  A patch is applied operation *)
(* by operation; the induction this calls for is done by looking at the    *)
(* first operation after which a claim fails (WFMin).                      *)
(***************************************************************************)
EXTENDS MutateApp, SequenceTheorems, WellFoundedInduction, TLAPS

LEMMA Smallest ==
  ASSUME NEW T, T \subseteq Nat, T # {}
  PROVE  \E n \in T : \A m \in T : ~(m < n)
<1>1. \E n \in T : \A m \in T : ~(<<m, n>> \in OpToRel(<, Nat))
  BY WFMin, NatLessThanWellFounded
<1>2. PICK n \in T : \A m \in T : ~(<<m, n>> \in OpToRel(<, Nat))
  BY <1>1
<1>3. ASSUME NEW m \in T PROVE ~(m < n)
  BY <1>2 DEF OpToRel
<1> QED
  BY <1>3

-----------------------------------------------------------------------------
(* Applying a patch.                                                       *)

\* There is a document after each number of operations.
LEMMA DocumentsExist ==
  ASSUME NEW app, NEW ops, Len(ops) \in Nat
  PROVE  \E doc : doc = [i \in 0..Len(ops) |->
                           IF i = 0 THEN app ELSE ApplyOp(doc[i - 1], ops[i])]
<1> DEFINE IsDocs(doc, n) ==
             doc = [i \in 0..n |->
                      IF i = 0 THEN app ELSE ApplyOp(doc[i - 1], ops[i])]
           T == {n \in Nat : ~\E doc : IsDocs(doc, n)}
<1>1. SUFFICES ASSUME T # {} PROVE FALSE
  OBVIOUS
<1>2. PICK n \in T : \A m \in T : ~(m < n)
  BY <1>1, Smallest
<1>3. CASE n = 0
  <2>1. IsDocs([i \in 0..0 |-> app], 0)
    OBVIOUS
  <2> QED
    BY <1>3, <2>1
<1>4. CASE n # 0
  <2>0. n \in Nat
    OBVIOUS
  <2>1. n - 1 \in Nat /\ n - 1 < n
    BY <2>0, <1>4
  <2>11. n - 1 \notin T
    BY <2>1, <1>2
  <2>2. PICK doc : IsDocs(doc, n - 1)
    BY <2>1, <2>11
  <2> DEFINE next == [i \in 0..n |->
                        IF i < n THEN doc[i] ELSE ApplyOp(doc[n - 1], ops[n])]
  <2>3. ASSUME NEW i \in 0..n
        PROVE  next[i] = IF i = 0 THEN app ELSE ApplyOp(next[i - 1], ops[i])
    BY <2>2, <1>4
  <2>4. IsDocs(next, n)
    BY <2>3
  <2> QED
    BY <2>4
<1> QED
  BY <1>3, <1>4

LEMMA DocumentsStep ==
  ASSUME NEW app, NEW ops, Len(ops) \in Nat
  PROVE  /\ Documents(app, ops)[0] = app
         /\ \A i \in 1..Len(ops) :
              Documents(app, ops)[i] = ApplyOp(Documents(app, ops)[i - 1], ops[i])
<1> DEFINE doc == Documents(app, ops)
<1>1. doc = [i \in 0..Len(ops) |->
               IF i = 0 THEN app ELSE ApplyOp(doc[i - 1], ops[i])]
  BY DocumentsExist DEF Documents
<1> QED
  BY <1>1

LEMMA ApplyNothing ==
  ASSUME NEW app
  PROVE  ApplyPatch(app, <<>>) = app
<1>1. Len(<<>>) = 0
  OBVIOUS
<1> QED
  BY <1>1, DocumentsStep DEF ApplyPatch

LEMMA ApplyOne ==
  ASSUME NEW app, NEW op
  PROVE  ApplyPatch(app, <<op>>) = ApplyOp(app, op)
<1>1. Len(<<op>>) = 1 /\ <<op>>[1] = op
  OBVIOUS
<1> QED
  BY <1>1, DocumentsStep DEF ApplyPatch

\* The documents in the middle of a patch of two parts.
LEMMA DocumentsOfConcat ==
  ASSUME NEW app, NEW S, NEW s \in Seq(S), NEW t \in Seq(S)
  PROVE  /\ \A i \in 0..Len(s) : Documents(app, s \o t)[i] = Documents(app, s)[i]
         /\ \A i \in 0..Len(t) : Documents(app, s \o t)[Len(s) + i]
                                   = Documents(ApplyPatch(app, s), t)[i]
<1> DEFINE whole == Documents(app, s \o t)
           first == Documents(app, s)
           second == Documents(ApplyPatch(app, s), t)
           T1 == {i \in 0..Len(s) : whole[i] # first[i]}
           T2 == {i \in 0..Len(t) : whole[Len(s) + i] # second[i]}
<1>1. /\ Len(s) \in Nat /\ Len(t) \in Nat
      /\ Len(s \o t) = Len(s) + Len(t)
      /\ \A i \in 1..Len(s) : (s \o t)[i] = s[i]
      /\ \A i \in 1..Len(t) : (s \o t)[Len(s) + i] = t[i]
  BY ConcatProperties, LenProperties
<1>2. /\ whole[0] = app
      /\ \A i \in 1..(Len(s) + Len(t)) : whole[i] = ApplyOp(whole[i - 1], (s \o t)[i])
  <2> DEFINE both == s \o t
  <2>1. Len(both) \in Nat
    BY <1>1
  <2> HIDE DEF both
  <2>2. /\ Documents(app, both)[0] = app
        /\ \A i \in 1..Len(both) :
             Documents(app, both)[i] = ApplyOp(Documents(app, both)[i - 1], both[i])
    BY <2>1, DocumentsStep
  <2> QED
    BY <2>2, <1>1 DEF both
<1>3. /\ first[0] = app
      /\ \A i \in 1..Len(s) : first[i] = ApplyOp(first[i - 1], s[i])
  BY <1>1, DocumentsStep
<1>4. /\ second[0] = first[Len(s)]
      /\ \A i \in 1..Len(t) : second[i] = ApplyOp(second[i - 1], t[i])
  BY <1>1, DocumentsStep DEF ApplyPatch
<1> HIDE DEF whole, first, second
<1>5. T1 = {}
  <2>1. SUFFICES ASSUME T1 # {} PROVE FALSE
    OBVIOUS
  <2>2. T1 \subseteq Nat
    BY <1>1
  <2>3. PICK i \in T1 : \A m \in T1 : ~(m < i)
    BY <2>1, <2>2, Smallest
  <2>4. i \in Nat /\ i <= Len(s) /\ i # 0
    BY <1>1, <1>2, <1>3
  <2>5. i - 1 \in 0..Len(s) /\ i - 1 < i /\ i \in 1..Len(s) /\ i \in 1..(Len(s) + Len(t))
    BY <2>4, <1>1
  <2>6. whole[i - 1] = first[i - 1]
    BY <2>5, <2>3
  <2>7. whole[i] = first[i]
    BY <2>5, <2>6, <1>1, <1>2, <1>3
  <2> QED
    BY <2>7
<1>6. T2 = {}
  <2>1. SUFFICES ASSUME T2 # {} PROVE FALSE
    OBVIOUS
  <2>2. T2 \subseteq Nat
    BY <1>1
  <2>3. PICK i \in T2 : \A m \in T2 : ~(m < i)
    BY <2>1, <2>2, Smallest
  <2>4. i # 0
    <3>1. Len(s) \in 0..Len(s)
      BY <1>1
    <3>2. whole[Len(s)] = first[Len(s)]
      BY <3>1, <1>5
    <3> QED
      BY <3>2, <1>1, <1>4
  <2>5. i \in Nat /\ i <= Len(t)
    BY <1>1
  <2>6. i - 1 \in 0..Len(t) /\ i - 1 < i /\ i \in 1..Len(t)
    BY <2>4, <2>5, <1>1
  <2>7. whole[Len(s) + (i - 1)] = second[i - 1]
    BY <2>6, <2>3
  <2>8. Len(s) + i \in 1..(Len(s) + Len(t)) /\ (Len(s) + i) - 1 = Len(s) + (i - 1)
    BY <2>6, <1>1
  <2>9. whole[Len(s) + i] = ApplyOp(whole[Len(s) + (i - 1)], (s \o t)[Len(s) + i])
    BY <2>8, <1>2
  <2>10. whole[Len(s) + i] = second[i]
    BY <2>6, <2>7, <2>9, <1>1, <1>4
  <2> QED
    BY <2>10
<1> QED
  BY <1>5, <1>6 DEF whole, first, second

\* A patch of two parts applies the second to what the first has made.
LEMMA ApplyConcat ==
  ASSUME NEW app, NEW S, NEW s \in Seq(S), NEW t \in Seq(S)
  PROVE  ApplyPatch(app, s \o t) = ApplyPatch(ApplyPatch(app, s), t)
<1>1. /\ Len(s) \in Nat /\ Len(t) \in Nat
      /\ Len(s \o t) = Len(s) + Len(t)
  BY ConcatProperties, LenProperties
<1>2. Len(t) \in 0..Len(t)
  BY <1>1
<1> QED
  BY <1>1, <1>2, DocumentsOfConcat DEF ApplyPatch

-----------------------------------------------------------------------------
(* Patches, and those of one operation that is left out or not.            *)

IsPatch(s) == \E S : s \in Seq(S)
AtMost(op, s) == s \in {<<>>, <<op>>}

LEMMA ApplyOptional ==
  ASSUME NEW doc, NEW op, NEW s, AtMost(op, s)
  PROVE  /\ IsPatch(s)
         /\ ApplyPatch(doc, s) = IF s = <<>> THEN doc ELSE ApplyOp(doc, op)
<1>1. <<>> \in Seq({op}) /\ <<op>> \in Seq({op})
  OBVIOUS
<1>2. s \in Seq({op})
  BY <1>1 DEF AtMost
<1> QED
  BY <1>2, ApplyNothing, ApplyOne DEF AtMost, IsPatch

LEMMA ApplyParts ==
  ASSUME NEW doc, NEW s, NEW t, IsPatch(s), IsPatch(t)
  PROVE  /\ IsPatch(s \o t)
         /\ ApplyPatch(doc, s \o t) = ApplyPatch(ApplyPatch(doc, s), t)
<1>1. PICK S : s \in Seq(S)
  BY DEF IsPatch
<1>2. PICK T : t \in Seq(T)
  BY DEF IsPatch
<1>3. S \subseteq S \cup T /\ T \subseteq S \cup T
  OBVIOUS
<1>4. s \in Seq(S \cup T) /\ t \in Seq(S \cup T)
  BY <1>1, <1>2, <1>3, SeqMonotonic
<1>5. s \o t \in Seq(S \cup T)
  BY <1>4, ConcatProperties
<1> QED
  BY <1>4, <1>5, ApplyConcat DEF IsPatch

-----------------------------------------------------------------------------
(* What the parts of a mutation make of a document.                        *)

Fields == {"ns", "name", "deleting", "annotations", "labels", "specName",
           "catalog", "version", "config", "userConfig", "extraConfigs",
           "configSecret", "userSecret", "target", "inCluster", "context",
           "secret"}

\* A record with the fields of an App and its labels.
IsDocument(doc) ==
  /\ doc = [f \in Fields |-> doc[f]]
  /\ doc.labels = [k \in LabelKeys |-> doc.labels[k]]

DefaultedAnnotations(app) ==
  IF app.annotations \in {None, "empty"} THEN "empty" ELSE app.annotations

NamesNothing(app) ==
  app.labels["app.kubernetes.io/name"] = None /\ app.labels["app"] = None
TakesVersion(app, version) ==
  VersionLabel(app) \in {None, LegacyVersion} /\ version # None

LEMMA MetadataApplied ==
  ASSUME NEW app, IsDocument(app)
  PROVE  /\ IsPatch(MetadataPatches(app))
         /\ ApplyPatch(app, MetadataPatches(app)) =
              [app EXCEPT !.annotations = DefaultedAnnotations(app)]
<1> DEFINE annotate == PatchAdd("/metadata", "annotations", "empty")
           label == PatchAdd("/metadata", "labels", NoLabels)
           one == IF app.annotations \in {None, "empty"} THEN <<annotate>> ELSE <<>>
           two == IF ~HasLabels(app) THEN <<label>> ELSE <<>>
           first == [app EXCEPT !.annotations = DefaultedAnnotations(app)]
<1>1. MetadataPatches(app) = one \o two
  BY DEF MetadataPatches
<1>2. \A d : ApplyOp(d, annotate) = [d EXCEPT !.annotations = "empty"]
  BY DEF ApplyOp, PatchAdd
<1>3. \A d : ApplyOp(d, label) = [d EXCEPT !.labels = NoLabels]
  BY DEF ApplyOp, PatchAdd
<1>4. ~HasLabels(app) => app.labels = NoLabels
  BY DEF HasLabels, NoLabels, IsDocument
<1> HIDE DEF annotate, label
<1>5. AtMost(annotate, one) /\ AtMost(label, two)
  BY DEF AtMost
<1>6. ApplyPatch(app, one) = first
  <2>1. ApplyPatch(app, one) =
          IF app.annotations \in {None, "empty"} THEN ApplyOp(app, annotate) ELSE app
    BY <1>5, ApplyOptional
  <2> QED
    BY <2>1, <1>2 DEF IsDocument, DefaultedAnnotations, Fields
<1>7. ApplyPatch(first, two) = first
  <2>1. ApplyPatch(first, two) = IF ~HasLabels(app) THEN ApplyOp(first, label) ELSE first
    BY <1>5, ApplyOptional
  <2>2. ~HasLabels(app) => ApplyOp(first, label) = first
    BY <1>3, <1>4 DEF IsDocument, Fields
  <2> QED
    BY <2>1, <2>2
<1> HIDE DEF one, two
<1>8. /\ IsPatch(one \o two)
      /\ ApplyPatch(app, one \o two) = ApplyPatch(ApplyPatch(app, one), two)
  BY <1>5, ApplyOptional, ApplyParts
<1> QED
  BY <1>1, <1>6, <1>7, <1>8

NamedAndVersioned(app, version, labels) ==
  [k \in LabelKeys |->
     IF k = "app.kubernetes.io/name" /\ NamesNothing(app) THEN app.specName
     ELSE IF k = "version" /\ TakesVersion(app, version) THEN version
     ELSE labels[k]]

LEMMA LabelsApplied ==
  ASSUME NEW app, NEW version, NEW d, IsDocument(d)
  PROVE  /\ IsPatch(LabelPatches(app, version))
         /\ ApplyPatch(d, LabelPatches(app, version)) =
              [d EXCEPT !.labels = NamedAndVersioned(app, version, d.labels)]
<1> DEFINE name == PatchAdd("/metadata/labels", "app.kubernetes.io/name", app.specName)
           versioned == PatchAdd("/metadata/labels", "version", version)
           one == IF NamesNothing(app) THEN <<name>> ELSE <<>>
           two == IF TakesVersion(app, version) THEN <<versioned>> ELSE <<>>
           named == [k \in LabelKeys |->
                       IF k = "app.kubernetes.io/name" /\ NamesNothing(app)
                       THEN app.specName ELSE d.labels[k]]
           first == [d EXCEPT !.labels = named]
<1>1. LabelPatches(app, version) = one \o two
  BY DEF LabelPatches, NamesNothing, TakesVersion
<1>2. \A e : ApplyOp(e, name) = [e EXCEPT !.labels["app.kubernetes.io/name"] = app.specName]
  BY DEF ApplyOp, PatchAdd
<1>3. \A e : ApplyOp(e, versioned) = [e EXCEPT !.labels["version"] = version]
  BY DEF ApplyOp, PatchAdd
<1> HIDE DEF name, versioned
<1>5. AtMost(name, one) /\ AtMost(versioned, two)
  BY DEF AtMost
<1>6. ApplyPatch(d, one) = first
  <2>1. ApplyPatch(d, one) = IF NamesNothing(app) THEN ApplyOp(d, name) ELSE d
    BY <1>5, ApplyOptional
  <2>2. CASE NamesNothing(app)
    <3>1. named = [d.labels EXCEPT !["app.kubernetes.io/name"] = app.specName]
      BY <2>2 DEF IsDocument, LabelKeys
    <3> QED
      BY <3>1, <2>1, <2>2, <1>2
  <2>3. CASE ~NamesNothing(app)
    <3>1. named = d.labels
      BY <2>3 DEF IsDocument
    <3> QED
      BY <3>1, <2>1, <2>3 DEF IsDocument
  <2> QED
    BY <2>2, <2>3
<1>7. ApplyPatch(first, two) =
        [d EXCEPT !.labels = NamedAndVersioned(app, version, d.labels)]
  <2>1. ApplyPatch(first, two) =
          IF TakesVersion(app, version) THEN ApplyOp(first, versioned) ELSE first
    BY <1>5, ApplyOptional
  <2>2. first.labels = named
    BY DEF IsDocument, Fields
  <2>3. CASE TakesVersion(app, version)
    <3>1. NamedAndVersioned(app, version, d.labels) = [named EXCEPT !["version"] = version]
      BY <2>3 DEF NamedAndVersioned, LabelKeys
    <3>2. ApplyOp(first, versioned) = [first EXCEPT !.labels = [named EXCEPT !["version"] = version]]
      BY <1>3, <2>2
    <3> QED
      BY <3>1, <3>2, <2>1, <2>3
  <2>4. CASE ~TakesVersion(app, version)
    <3>1. named = NamedAndVersioned(app, version, d.labels)
      BY <2>4 DEF NamedAndVersioned
    <3> QED
      BY <3>1, <2>1, <2>4
  <2> QED
    BY <2>3, <2>4
<1> HIDE DEF one, two
<1>8. /\ IsPatch(one \o two)
      /\ ApplyPatch(d, one \o two) = ApplyPatch(ApplyPatch(d, one), two)
  BY <1>5, ApplyOptional, ApplyParts
<1> QED
  BY <1>1, <1>6, <1>7, <1>8

\* The extra configs of an App with the entries a mutation adds to them.
ClusterValuesEntry(app) ==
  ConfigMapEntry(ClusterConfigMapName(app), app.ns, BottomPriority)
LacksClusterValues(app) ==
  ~(VersionLabel(app) = UniqueVersion \/ ReferencesClusterValues(app))
WithClusterValues(app) ==
  IF LacksClusterValues(app) THEN Append(app.extraConfigs, ClusterValuesEntry(app))
  ELSE app.extraConfigs
DefaultedConfigs(app, psp) ==
  IF psp = "entry" THEN Append(WithClusterValues(app), PspEntry(app))
  ELSE WithClusterValues(app)

PspLabelled(psp, labels) ==
  [k \in LabelKeys |-> IF k = "psp" /\ psp # "none" THEN "disabled" ELSE labels[k]]

WithPsp(app, psp, doc) ==
  [doc EXCEPT !.labels = PspLabelled(psp, doc.labels),
              !.extraConfigs = IF psp = "entry" THEN Append(@, PspEntry(app)) ELSE @]

LEMMA PspApplied ==
  ASSUME NEW app, NEW psp, NEW d, IsDocument(d)
  PROVE  /\ IsPatch(PspPatches(app, psp))
         /\ ApplyPatch(d, PspPatches(app, psp)) = WithPsp(app, psp, d)
<1> DEFINE label == PatchAdd("/metadata/labels", "psp", "disabled")
           entry == PatchAdd("/spec/extraConfigs", "-", PspEntry(app))
           one == IF psp = "none" THEN <<>> ELSE <<label>>
           two == IF psp = "entry" THEN <<entry>> ELSE <<>>
           first == [d EXCEPT !.labels = PspLabelled(psp, d.labels)]
<1>1. PspPatches(app, psp) = one \o two
  BY DEF PspPatches
<1>2. \A e : ApplyOp(e, label) = [e EXCEPT !.labels["psp"] = "disabled"]
  BY DEF ApplyOp, PatchAdd
<1>3. \A e : ApplyOp(e, entry) = [e EXCEPT !.extraConfigs = Append(@, PspEntry(app))]
  BY DEF ApplyOp, PatchAdd
<1> HIDE DEF label, entry
<1>4. AtMost(label, one) /\ AtMost(entry, two)
  BY DEF AtMost
<1>5. ApplyPatch(d, one) = first
  <2>1. ApplyPatch(d, one) = IF psp = "none" THEN d ELSE ApplyOp(d, label)
    BY <1>4, ApplyOptional
  <2>2. CASE psp = "none"
    <3>1. PspLabelled(psp, d.labels) = d.labels
      BY <2>2 DEF PspLabelled, IsDocument
    <3> QED
      BY <3>1, <2>1, <2>2 DEF IsDocument
  <2>3. CASE psp # "none"
    <3>1. PspLabelled(psp, d.labels) = [d.labels EXCEPT !["psp"] = "disabled"]
      BY <2>3 DEF PspLabelled, IsDocument, LabelKeys
    <3> QED
      BY <3>1, <2>1, <2>3, <1>2
  <2> QED
    BY <2>2, <2>3
<1>6. ApplyPatch(first, two) = WithPsp(app, psp, d)
  <2>1. ApplyPatch(first, two) = IF psp = "entry" THEN ApplyOp(first, entry) ELSE first
    BY <1>4, ApplyOptional
  <2>2. first.extraConfigs = d.extraConfigs
    BY DEF IsDocument, Fields
  <2>3. CASE psp = "entry"
    BY <2>3, <2>1, <2>2, <1>3 DEF WithPsp
  <2>4. CASE psp # "entry"
    BY <2>4, <2>1 DEF IsDocument, Fields, WithPsp
  <2> QED
    BY <2>3, <2>4
<1> HIDE DEF one, two
<1>7. /\ IsPatch(one \o two)
      /\ ApplyPatch(d, one \o two) = ApplyPatch(ApplyPatch(d, one), two)
  BY <1>4, ApplyOptional, ApplyParts
<1> QED
  BY <1>1, <1>5, <1>6, <1>7

LEMMA ExtraConfigsApplied ==
  ASSUME NEW app, NEW psp, NEW d, IsDocument(d), d.extraConfigs = app.extraConfigs
  PROVE  /\ IsPatch(ExtraConfigsPatches(app, psp))
         /\ ApplyPatch(d, ExtraConfigsPatches(app, psp)) =
              [d EXCEPT !.labels = PspLabelled(psp, d.labels),
                        !.extraConfigs = DefaultedConfigs(app, psp)]
<1> DEFINE prepare == PatchAdd("/spec", "extraConfigs", <<>>)
           values == PatchAdd("/spec/extraConfigs", "-", ClusterValuesEntry(app))
           label == PatchAdd("/metadata/labels", "psp", "disabled")
           entry == PatchAdd("/spec/extraConfigs", "-", PspEntry(app))
           one == IF NeedsExtraConfigsSet(app, psp) THEN <<prepare>> ELSE <<>>
           two == ClusterValuesPatches(app)
           three == PspPatches(app, psp)
           second == [d EXCEPT !.extraConfigs = WithClusterValues(app)]
<1>1. ExtraConfigsPatches(app, psp) = one \o two \o three
  BY DEF ExtraConfigsPatches
<1>2. \A e : ApplyOp(e, prepare) = [e EXCEPT !.extraConfigs = <<>>]
  BY DEF ApplyOp, PatchAdd
<1>3. \A e : ApplyOp(e, values) = [e EXCEPT !.extraConfigs = Append(@, ClusterValuesEntry(app))]
  BY DEF ApplyOp, PatchAdd
<1>4. NeedsExtraConfigsSet(app, psp) => app.extraConfigs = <<>>
  BY DEF NeedsExtraConfigsSet
<1>5. two = IF LacksClusterValues(app) THEN <<values>> ELSE <<>>
  BY DEF ClusterValuesPatches, LacksClusterValues, ClusterValuesEntry
<1>6. IsPatch(three)
  BY PspApplied
<1> HIDE DEF prepare, values, label, entry, three
<1>7. AtMost(prepare, one) /\ AtMost(values, two)
  BY <1>5 DEF AtMost
<1>8. ApplyPatch(d, one) = d
  <2>1. ApplyPatch(d, one) = IF NeedsExtraConfigsSet(app, psp) THEN ApplyOp(d, prepare) ELSE d
    BY <1>7, ApplyOptional
  <2>2. NeedsExtraConfigsSet(app, psp) => ApplyOp(d, prepare) = d
    BY <1>2, <1>4 DEF IsDocument, Fields
  <2> QED
    BY <2>1, <2>2
<1>9. ApplyPatch(d, two) = second
  <2>1. ApplyPatch(d, two) = IF LacksClusterValues(app) THEN ApplyOp(d, values) ELSE d
    BY <1>5, <1>7, ApplyOptional DEF AtMost
  <2>2. CASE LacksClusterValues(app)
    BY <2>1, <2>2, <1>3 DEF WithClusterValues
  <2>3. CASE ~LacksClusterValues(app)
    BY <2>1, <2>3 DEF WithClusterValues, IsDocument, Fields
  <2> QED
    BY <2>2, <2>3
<1>10. ApplyPatch(second, three) =
         [d EXCEPT !.labels = PspLabelled(psp, d.labels),
                   !.extraConfigs = DefaultedConfigs(app, psp)]
  <2>1. /\ IsDocument(second)
        /\ second.labels = d.labels
        /\ second.extraConfigs = WithClusterValues(app)
    BY DEF IsDocument, Fields
  <2> HIDE DEF second
  <2>2. ApplyPatch(second, three) = WithPsp(app, psp, second)
    BY <2>1, PspApplied DEF three
  <2>3. DefaultedConfigs(app, psp) =
          IF psp = "entry" THEN Append(second.extraConfigs, PspEntry(app))
          ELSE second.extraConfigs
    BY <2>1 DEF DefaultedConfigs
  <2>4. ApplyPatch(second, three) =
          [second EXCEPT !.labels = PspLabelled(psp, d.labels),
                         !.extraConfigs = DefaultedConfigs(app, psp)]
    BY <2>1, <2>2, <2>3 DEF WithPsp
  <2> QED
    BY <2>4 DEF IsDocument, Fields, second
<1> HIDE DEF one, two, second
<1>11. IsPatch(one \o two) /\ ApplyPatch(d, one \o two) = second
  BY <1>7, <1>8, <1>9, ApplyOptional, ApplyParts
<1> DEFINE pair == one \o two
<1> HIDE DEF pair
<1>12. IsPatch(pair) /\ ApplyPatch(d, pair) = second
  BY <1>11 DEF pair
<1>13. IsPatch(pair \o three) /\ ApplyPatch(d, pair \o three) = ApplyPatch(second, three)
  BY <1>6, <1>12, ApplyParts
<1> QED
  BY <1>1, <1>10, <1>13 DEF pair

DefaultedContext(app, ns) ==
  IF ns # None /\ app.context = None
  THEN IF IsManagedInOrg(app) THEN ClusterLabel(app) ELSE app.ns
  ELSE app.context
DefaultedSecret(app, ns) ==
  IF ns # None THEN Ref(ClusterKubeConfigSecretName(app), ns) ELSE app.secret

LEMMA KubeConfigApplied ==
  ASSUME NEW app, NEW ns, NEW d, IsDocument(d),
         d.context = app.context, d.secret = app.secret
  PROVE  /\ IsPatch(KubeConfigPatches(app, ns))
         /\ ApplyPatch(d, KubeConfigPatches(app, ns)) =
              [d EXCEPT !.context = DefaultedContext(app, ns),
                        !.secret = DefaultedSecret(app, ns)]
<1> DEFINE context == PatchAdd("/spec/kubeConfig", "context",
                        IF IsManagedInOrg(app) THEN ClusterLabel(app) ELSE app.ns)
           secret == PatchAdd("/spec/kubeConfig", "secret",
                       Ref(ClusterKubeConfigSecretName(app), ns))
           one == IF app.context = None THEN <<context>> ELSE <<>>
           two == <<secret>>
           first == [d EXCEPT !.context = DefaultedContext(app, ns)]
<1>1. \A e : ApplyOp(e, context) =
               [e EXCEPT !.context = IF IsManagedInOrg(app) THEN ClusterLabel(app) ELSE app.ns]
  BY DEF ApplyOp, PatchAdd
<1>2. \A e : ApplyOp(e, secret) =
               [e EXCEPT !.secret = Ref(ClusterKubeConfigSecretName(app), ns)]
  BY DEF ApplyOp, PatchAdd
<1>3. CASE ns = None
  <2>1. KubeConfigPatches(app, ns) = <<>>
    BY <1>3 DEF KubeConfigPatches
  <2>2. AtMost(context, <<>>)
    BY DEF AtMost
  <2>3. IsPatch(<<>>)
    BY <2>2, ApplyOptional
  <2>4. d = [d EXCEPT !.context = DefaultedContext(app, ns), !.secret = DefaultedSecret(app, ns)]
    BY <1>3 DEF DefaultedContext, DefaultedSecret, IsDocument, Fields
  <2> QED
    BY <2>1, <2>3, <2>4, ApplyNothing
<1>4. CASE ns # None
  <2>1. KubeConfigPatches(app, ns) = one \o two
    BY <1>4 DEF KubeConfigPatches
  <2> HIDE DEF context, secret
  <2>2. AtMost(context, one) /\ AtMost(secret, two) /\ two # <<>>
    BY DEF AtMost
  <2>3. ApplyPatch(d, one) = first
    <3>1. ApplyPatch(d, one) = IF app.context = None THEN ApplyOp(d, context) ELSE d
      BY <2>2, ApplyOptional
    <3> QED
      BY <3>1, <1>1, <1>4 DEF DefaultedContext, IsDocument, Fields
  <2>4. ApplyPatch(first, two) = ApplyOp(first, secret)
    BY ApplyOne
  <2>5. ApplyOp(first, secret) =
          [d EXCEPT !.context = DefaultedContext(app, ns), !.secret = DefaultedSecret(app, ns)]
    BY <1>2, <1>4 DEF DefaultedSecret
  <2> HIDE DEF one, two, first
  <2>6. IsPatch(one \o two) /\ ApplyPatch(d, one \o two) = ApplyPatch(ApplyPatch(d, one), two)
    BY <2>2, ApplyOptional, ApplyParts
  <2> QED
    BY <2>1, <2>3, <2>4, <2>5, <2>6
<1> QED
  BY <1>3, <1>4

DefaultedVersion(app, component) ==
  IF component = None THEN app.version ELSE component.version
DefaultedCatalog(app, component) ==
  IF component = None THEN app.catalog ELSE component.catalog

LEMMA ClusterAppApplied ==
  ASSUME NEW app, NEW component, NEW d, IsDocument(d),
         d.version = app.version, d.catalog = app.catalog
  PROVE  /\ IsPatch(ClusterAppPatches(app, component))
         /\ ApplyPatch(d, ClusterAppPatches(app, component)) =
              [d EXCEPT !.version = DefaultedVersion(app, component),
                        !.catalog = DefaultedCatalog(app, component)]
<1> DEFINE version == PatchAdd("/spec", "version", component.version)
           catalog == PatchAdd("/spec", "catalog", component.catalog)
           one == IF app.version # component.version THEN <<version>> ELSE <<>>
           two == IF app.catalog # component.catalog THEN <<catalog>> ELSE <<>>
           first == [d EXCEPT !.version = DefaultedVersion(app, component)]
<1>1. \A e : ApplyOp(e, version) = [e EXCEPT !.version = component.version]
  BY DEF ApplyOp, PatchAdd
<1>2. \A e : ApplyOp(e, catalog) = [e EXCEPT !.catalog = component.catalog]
  BY DEF ApplyOp, PatchAdd
<1>3. CASE component = None
  <2>1. ClusterAppPatches(app, component) = <<>>
    BY <1>3 DEF ClusterAppPatches
  <2>2. AtMost(version, <<>>)
    BY DEF AtMost
  <2>3. IsPatch(<<>>)
    BY <2>2, ApplyOptional
  <2>4. d = [d EXCEPT !.version = DefaultedVersion(app, component),
                      !.catalog = DefaultedCatalog(app, component)]
    BY <1>3 DEF DefaultedVersion, DefaultedCatalog, IsDocument, Fields
  <2> QED
    BY <2>1, <2>3, <2>4, ApplyNothing
<1>4. CASE component # None
  <2>1. ClusterAppPatches(app, component) = one \o two
    BY <1>4 DEF ClusterAppPatches
  <2> HIDE DEF version, catalog
  <2>2. AtMost(version, one) /\ AtMost(catalog, two)
    BY DEF AtMost
  <2>3. ApplyPatch(d, one) = first
    <3>1. ApplyPatch(d, one) =
            IF app.version # component.version THEN ApplyOp(d, version) ELSE d
      BY <2>2, ApplyOptional
    <3> QED
      BY <3>1, <1>1, <1>4 DEF DefaultedVersion, IsDocument, Fields
  <2>4. ApplyPatch(first, two) =
          [d EXCEPT !.version = DefaultedVersion(app, component),
                    !.catalog = DefaultedCatalog(app, component)]
    <3>1. ApplyPatch(first, two) =
            IF app.catalog # component.catalog THEN ApplyOp(first, catalog) ELSE first
      BY <2>2, ApplyOptional
    <3> QED
      BY <3>1, <1>2, <1>4 DEF DefaultedCatalog, IsDocument, Fields
  <2> HIDE DEF one, two, first
  <2>5. IsPatch(one \o two) /\ ApplyPatch(d, one \o two) = ApplyPatch(ApplyPatch(d, one), two)
    BY <2>2, ApplyOptional, ApplyParts
  <2> QED
    BY <2>1, <2>3, <2>4, <2>5
<1> QED
  BY <1>3, <1>4

-----------------------------------------------------------------------------
(* What a mutation makes of a document.                                    *)

DefaultedLabels(app, version, psp) ==
  PspLabelled(psp, NamedAndVersioned(app, version, app.labels))

LabelledOnly(app, version) ==
  IF LabelPatches(app, version) = <<>> THEN app
  ELSE [app EXCEPT !.annotations = DefaultedAnnotations(app),
                   !.labels = NamedAndVersioned(app, version, app.labels)]

FullyDefaulted(app, version, psp, ns, component) ==
  [app EXCEPT !.annotations = DefaultedAnnotations(app),
              !.labels = DefaultedLabels(app, version, psp),
              !.extraConfigs = DefaultedConfigs(app, psp),
              !.context = DefaultedContext(app, ns),
              !.secret = DefaultedSecret(app, ns),
              !.version = DefaultedVersion(app, component),
              !.catalog = DefaultedCatalog(app, component)]

\* Annotations and labels, which both kinds of mutation begin with.
LEMMA MetadataAndLabelsApplied ==
  ASSUME NEW app, NEW version, IsDocument(app)
  PROVE  LET patch == MetadataPatches(app) \o LabelPatches(app, version)
             doc == [app EXCEPT !.annotations = DefaultedAnnotations(app),
                                !.labels = NamedAndVersioned(app, version, app.labels)]
         IN  IsPatch(patch) /\ ApplyPatch(app, patch) = doc /\ IsDocument(doc)
<1> DEFINE metadata == MetadataPatches(app)
           labels == LabelPatches(app, version)
           first == [app EXCEPT !.annotations = DefaultedAnnotations(app)]
           doc == [app EXCEPT !.annotations = DefaultedAnnotations(app),
                              !.labels = NamedAndVersioned(app, version, app.labels)]
<1>1. IsPatch(metadata) /\ ApplyPatch(app, metadata) = first
  BY MetadataApplied
<1>2. IsDocument(first) /\ first.labels = app.labels
  BY DEF IsDocument, Fields
<1>3. IsPatch(labels) /\ ApplyPatch(first, labels) = doc
  <2> HIDE DEF first
  <2>1. /\ IsPatch(labels)
        /\ ApplyPatch(first, labels) =
             [first EXCEPT !.labels = NamedAndVersioned(app, version, first.labels)]
    BY <1>2, LabelsApplied
  <2>2. [first EXCEPT !.labels = NamedAndVersioned(app, version, first.labels)] = doc
    BY <1>2 DEF first
  <2> QED
    BY <2>1, <2>2
<1>4. IsDocument(doc)
  <2>1. doc.labels = NamedAndVersioned(app, version, app.labels)
    BY DEF IsDocument, Fields
  <2>2. doc.labels = [k \in LabelKeys |-> doc.labels[k]]
    BY <2>1 DEF NamedAndVersioned
  <2> QED
    BY <2>2 DEF IsDocument
<1> HIDE DEF metadata, labels, first, doc
<1>5. /\ IsPatch(metadata \o labels)
      /\ ApplyPatch(app, metadata \o labels) = doc
  BY <1>1, <1>3, ApplyParts
<1> QED
  BY <1>4, <1>5 DEF metadata, labels, doc

LEMMA MetadataOnlyApplied ==
  ASSUME NEW app, NEW version, IsDocument(app)
  PROVE  ApplyPatch(app, MetadataOnly(app, version)) = LabelledOnly(app, version)
BY MetadataAndLabelsApplied, ApplyNothing DEF MetadataOnly, LabelledOnly

LEMMA FullMutationApplied ==
  ASSUME NEW app, NEW version, NEW psp, NEW ns, NEW component, IsDocument(app)
  PROVE  ApplyPatch(app, FullMutation(app, version, psp, ns, component))
           = FullyDefaulted(app, version, psp, ns, component)
<1> DEFINE p1 == MetadataPatches(app) \o LabelPatches(app, version)
           p2 == ExtraConfigsPatches(app, psp)
           p3 == KubeConfigPatches(app, ns)
           p4 == ClusterAppPatches(app, component)
           d1 == [app EXCEPT !.annotations = DefaultedAnnotations(app),
                             !.labels = NamedAndVersioned(app, version, app.labels)]
           d2 == [app EXCEPT !.annotations = DefaultedAnnotations(app),
                             !.labels = DefaultedLabels(app, version, psp),
                             !.extraConfigs = DefaultedConfigs(app, psp)]
           d3 == [app EXCEPT !.annotations = DefaultedAnnotations(app),
                             !.labels = DefaultedLabels(app, version, psp),
                             !.extraConfigs = DefaultedConfigs(app, psp),
                             !.context = DefaultedContext(app, ns),
                             !.secret = DefaultedSecret(app, ns)]
           d4 == FullyDefaulted(app, version, psp, ns, component)
<1>1. IsPatch(p1) /\ ApplyPatch(app, p1) = d1 /\ IsDocument(d1)
  BY MetadataAndLabelsApplied
<1>2. IsPatch(p2) /\ ApplyPatch(d1, p2) = d2
  <2>1. /\ d1.labels = NamedAndVersioned(app, version, app.labels)
        /\ d1.extraConfigs = app.extraConfigs
    BY DEF IsDocument, Fields
  <2> HIDE DEF d1
  <2>2. /\ IsPatch(p2)
        /\ ApplyPatch(d1, p2) = [d1 EXCEPT !.labels = PspLabelled(psp, d1.labels),
                                           !.extraConfigs = DefaultedConfigs(app, psp)]
    BY <1>1, <2>1, ExtraConfigsApplied
  <2>3. [d1 EXCEPT !.labels = PspLabelled(psp, d1.labels),
                   !.extraConfigs = DefaultedConfigs(app, psp)] = d2
    BY <2>1 DEF d1, DefaultedLabels
  <2> QED
    BY <2>2, <2>3
<1>3. IsDocument(d2)
  <2>1. d2.labels = DefaultedLabels(app, version, psp)
    BY DEF IsDocument, Fields
  <2>2. d2.labels = [k \in LabelKeys |-> d2.labels[k]]
    BY <2>1 DEF DefaultedLabels, PspLabelled
  <2> QED
    BY <2>2 DEF IsDocument
<1>4. IsPatch(p3) /\ ApplyPatch(d2, p3) = d3
  <2>1. d2.context = app.context /\ d2.secret = app.secret
    BY DEF IsDocument, Fields
  <2> HIDE DEF d2
  <2>2. /\ IsPatch(p3)
        /\ ApplyPatch(d2, p3) = [d2 EXCEPT !.context = DefaultedContext(app, ns),
                                           !.secret = DefaultedSecret(app, ns)]
    BY <1>3, <2>1, KubeConfigApplied
  <2>3. [d2 EXCEPT !.context = DefaultedContext(app, ns),
                   !.secret = DefaultedSecret(app, ns)] = d3
    BY DEF d2
  <2> QED
    BY <2>2, <2>3
<1>5. IsDocument(d3)
  <2>1. d3.labels = DefaultedLabels(app, version, psp)
    BY DEF IsDocument, Fields
  <2>2. d3.labels = [k \in LabelKeys |-> d3.labels[k]]
    BY <2>1 DEF DefaultedLabels, PspLabelled
  <2> QED
    BY <2>2 DEF IsDocument
<1>6. IsPatch(p4) /\ ApplyPatch(d3, p4) = d4
  <2>1. d3.version = app.version /\ d3.catalog = app.catalog
    BY DEF IsDocument, Fields
  <2> HIDE DEF d3
  <2>2. /\ IsPatch(p4)
        /\ ApplyPatch(d3, p4) = [d3 EXCEPT !.version = DefaultedVersion(app, component),
                                           !.catalog = DefaultedCatalog(app, component)]
    BY <1>5, <2>1, ClusterAppApplied
  <2>3. [d3 EXCEPT !.version = DefaultedVersion(app, component),
                   !.catalog = DefaultedCatalog(app, component)] = d4
    BY DEF d3, FullyDefaulted
  <2> QED
    BY <2>2, <2>3
<1> HIDE DEF p1, p2, p3, p4, d1, d2, d3, d4
<1> DEFINE p12 == p1 \o p2
           p123 == p12 \o p3
<1>7. IsPatch(p12) /\ ApplyPatch(app, p12) = d2
  BY <1>1, <1>2, ApplyParts
<1> HIDE DEF p12
<1>8. IsPatch(p123) /\ ApplyPatch(app, p123) = d3
  BY <1>4, <1>7, ApplyParts
<1> HIDE DEF p123
<1>9. ApplyPatch(app, p123 \o p4) = d4
  BY <1>6, <1>8, ApplyParts
<1>10. FullMutation(app, version, psp, ns, component) = p123 \o p4
  BY DEF FullMutation, p123, p12, p1, p2, p3, p4
<1> QED
  BY <1>9, <1>10 DEF d4

-----------------------------------------------------------------------------
(* That a mutation can be applied.                                         *)

\* Where the containers "before" are there, every operation of a patch finds
\* its container, and the containers "after" are there in the end.
Opened(s, n) == UNION {Opens(s[j]) : j \in 1..n}
Chains(before, s, after) ==
  /\ IsPatch(s)
  /\ \A i \in DOMAIN s : s[i].container \in before \cup Opened(s, i - 1)
  /\ after \subseteq before \cup Opened(s, Len(s))

LEMMA ChainsOptional ==
  ASSUME NEW X, NEW op, NEW s, AtMost(op, s), s # <<>> => op.container \in X
  PROVE  Chains(X, s, X) /\ (s # <<>> => Chains(X, s, X \cup Opens(op)))
<1>1. IsPatch(s)
  BY ApplyOptional
<1>2. CASE s = <<>>
  BY <1>1, <1>2 DEF Chains
<1>3. CASE s = <<op>>
  <2>1. Len(s) = 1 /\ DOMAIN s = {1} /\ s[1] = op
    BY <1>3
  <2>2. Opens(op) \subseteq Opened(s, Len(s))
    BY <2>1 DEF Opened
  <2>3. s # <<>>
    BY <2>1
  <2>4. op.container \in X
    BY <2>3
  <2> QED
    BY <1>1, <2>1, <2>2, <2>4 DEF Chains
<1> QED
  BY <1>2, <1>3 DEF AtMost

LEMMA ChainsParts ==
  ASSUME NEW X, NEW Y, NEW Z, NEW s, NEW t, Chains(X, s, Y), Chains(Y, t, Z)
  PROVE  Chains(X, s \o t, Z)
<1>1. PICK S : s \in Seq(S)
  BY DEF Chains, IsPatch
<1>2. PICK T : t \in Seq(T)
  BY DEF Chains, IsPatch
<1>3. S \subseteq S \cup T /\ T \subseteq S \cup T
  OBVIOUS
<1>4. s \in Seq(S \cup T) /\ t \in Seq(S \cup T)
  BY <1>1, <1>2, <1>3, SeqMonotonic
<1> DEFINE u == s \o t
<1>5. /\ Len(s) \in Nat /\ Len(t) \in Nat
      /\ DOMAIN s = 1..Len(s) /\ DOMAIN t = 1..Len(t)
      /\ Len(u) = Len(s) + Len(t) /\ DOMAIN u = 1..(Len(s) + Len(t))
      /\ \A i \in 1..Len(s) : u[i] = s[i]
      /\ \A i \in 1..Len(t) : u[Len(s) + i] = t[i]
  BY <1>4, ConcatProperties, LenProperties
<1>6. IsPatch(u)
  BY ApplyParts DEF Chains
<1> HIDE DEF u
<1>7. \A n \in 0..Len(s) : Opened(s, n) \subseteq Opened(u, n)
  BY <1>5 DEF Opened
<1>8. \A n \in 0..Len(t) : /\ Opened(s, Len(s)) \subseteq Opened(u, Len(s) + n)
                           /\ Opened(t, n) \subseteq Opened(u, Len(s) + n)
  <2> TAKE n \in 0..Len(t)
  <2>1. ASSUME NEW j \in 1..Len(s) PROVE Opens(s[j]) \subseteq Opened(u, Len(s) + n)
    <3>1. j \in 1..(Len(s) + n) /\ u[j] = s[j]
      BY <1>5
    <3> QED
      BY <3>1 DEF Opened
  <2>2. ASSUME NEW j \in 1..n PROVE Opens(t[j]) \subseteq Opened(u, Len(s) + n)
    <3>1. Len(s) + j \in 1..(Len(s) + n) /\ u[Len(s) + j] = t[j]
      BY <1>5
    <3> QED
      BY <3>1 DEF Opened
  <2> QED
    BY <2>1, <2>2 DEF Opened
<1>9. ASSUME NEW i \in DOMAIN u PROVE u[i].container \in X \cup Opened(u, i - 1)
  <2>1. CASE i <= Len(s)
    <3>1. i \in DOMAIN s /\ u[i] = s[i] /\ i - 1 \in 0..Len(s)
      BY <1>5, <2>1
    <3>2. s[i].container \in X \cup Opened(s, i - 1)
      BY <3>1 DEF Chains
    <3> QED
      BY <3>1, <3>2, <1>7
  <2>2. CASE i > Len(s)
    <3>1. PICK k \in 1..Len(t) : i = Len(s) + k
      <4>1. i - Len(s) \in 1..Len(t) /\ i = Len(s) + (i - Len(s))
        BY <1>5, <2>2
      <4> QED
        BY <4>1
    <3>2. k \in DOMAIN t /\ u[i] = t[k] /\ k - 1 \in 0..Len(t) /\ i - 1 = Len(s) + (k - 1)
      BY <1>5, <3>1
    <3>3. t[k].container \in Y \cup Opened(t, k - 1)
      BY <3>2 DEF Chains
    <3>4. Y \subseteq X \cup Opened(s, Len(s))
      BY DEF Chains
    <3>5. /\ Opened(s, Len(s)) \subseteq Opened(u, i - 1)
          /\ Opened(t, k - 1) \subseteq Opened(u, i - 1)
      BY <3>2, <1>8
    <3> QED
      BY <3>2, <3>3, <3>4, <3>5
  <2> QED
    BY <1>5, <2>1, <2>2
<1>10. Z \subseteq X \cup Opened(u, Len(u))
  <2>1. Len(t) \in 0..Len(t)
    BY <1>5
  <2>2. /\ Opened(s, Len(s)) \subseteq Opened(u, Len(u))
        /\ Opened(t, Len(t)) \subseteq Opened(u, Len(u))
    BY <2>1, <1>5, <1>8
  <2> QED
    BY <2>2 DEF Chains
<1> QED
  BY <1>6, <1>9, <1>10 DEF Chains, u

\* The labels a mutation adds to are there or opened by it.
LEMMA MetadataChains ==
  ASSUME NEW app, NEW version
  PROVE  Chains(Containers(app), MetadataPatches(app) \o LabelPatches(app, version),
                Containers(app) \cup {"/metadata/labels"})
<1> DEFINE annotate == PatchAdd("/metadata", "annotations", "empty")
           label == PatchAdd("/metadata", "labels", NoLabels)
           name == PatchAdd("/metadata/labels", "app.kubernetes.io/name", app.specName)
           versioned == PatchAdd("/metadata/labels", "version", version)
           one == IF app.annotations \in {None, "empty"} THEN <<annotate>> ELSE <<>>
           two == IF ~HasLabels(app) THEN <<label>> ELSE <<>>
           three == IF NamesNothing(app) THEN <<name>> ELSE <<>>
           four == IF TakesVersion(app, version) THEN <<versioned>> ELSE <<>>
           X == Containers(app)
           Y == Containers(app) \cup {"/metadata/labels"}
<1>1. MetadataPatches(app) = one \o two /\ LabelPatches(app, version) = three \o four
  BY DEF MetadataPatches, LabelPatches, NamesNothing, TakesVersion
<1>2. /\ AtMost(annotate, one) /\ AtMost(label, two)
      /\ AtMost(name, three) /\ AtMost(versioned, four)
  BY DEF AtMost
<1>3. /\ "/metadata" \in X /\ "/metadata/labels" \in Y
      /\ HasLabels(app) => X = Y
      /\ X \cup Opens(label) = Y
  BY DEF Containers, Opens, PatchAdd
<1>4. two = <<>> => HasLabels(app)
  <2>1. <<label>> # <<>>
    OBVIOUS
  <2> QED
    BY <2>1
<1>5. /\ annotate.container \in X /\ label.container \in X
      /\ name.container \in Y /\ versioned.container \in Y
  BY <1>3 DEF PatchAdd
<1> HIDE DEF annotate, label, name, versioned, one, two, three, four, X, Y
<1>6. Chains(X, one, X)
  BY <1>2, <1>5, ChainsOptional
<1>7. Chains(X, two, Y)
  <2>1. Chains(X, two, X) /\ (two # <<>> => Chains(X, two, X \cup Opens(label)))
    BY <1>2, <1>5, ChainsOptional
  <2> QED
    BY <2>1, <1>3, <1>4
<1>8. Chains(Y, three, Y) /\ Chains(Y, four, Y)
  BY <1>2, <1>5, ChainsOptional
<1>9. Chains(X, one \o two, Y)
  BY <1>6, <1>7, ChainsParts
<1>10. Chains(Y, three \o four, Y)
  BY <1>8, ChainsParts
<1>11. Chains(X, MetadataPatches(app), Y) /\ Chains(Y, LabelPatches(app, version), Y)
  BY <1>1, <1>9, <1>10
<1>12. Chains(X, MetadataPatches(app) \o LabelPatches(app, version), Y)
  BY <1>11, ChainsParts
<1> QED
  BY <1>12 DEF X, Y

\* The list of extra configs a mutation adds to is there or opened by it: the
\* list is prepared for whichever of the two parts adds to it.
LEMMA ExtraConfigsChains ==
  ASSUME NEW app, NEW psp, NEW X,
         Containers(app) \cup {"/metadata/labels"} \subseteq X
  PROVE  \E Y : X \subseteq Y /\ Chains(X, ExtraConfigsPatches(app, psp), Y)
<1> DEFINE prepare == PatchAdd("/spec", "extraConfigs", <<>>)
           values == PatchAdd("/spec/extraConfigs", "-", ClusterValuesEntry(app))
           label == PatchAdd("/metadata/labels", "psp", "disabled")
           entry == PatchAdd("/spec/extraConfigs", "-", PspEntry(app))
           one == IF NeedsExtraConfigsSet(app, psp) THEN <<prepare>> ELSE <<>>
           two == IF LacksClusterValues(app) THEN <<values>> ELSE <<>>
           three == IF psp = "none" THEN <<>> ELSE <<label>>
           four == IF psp = "entry" THEN <<entry>> ELSE <<>>
           Y == X \cup {"/spec/extraConfigs"}
           adds == LacksClusterValues(app) \/ psp = "entry"
<1>1. /\ ClusterValuesPatches(app) = two
      /\ PspPatches(app, psp) = three \o four
      /\ ExtraConfigsPatches(app, psp) = one \o ClusterValuesPatches(app) \o PspPatches(app, psp)
  BY DEF ClusterValuesPatches, LacksClusterValues, ClusterValuesEntry, PspPatches, ExtraConfigsPatches
<1>2. /\ AtMost(prepare, one) /\ AtMost(values, two)
      /\ AtMost(label, three) /\ AtMost(entry, four)
  BY DEF AtMost
<1>3. adds => app.extraConfigs # <<>> \/ NeedsExtraConfigsSet(app, psp)
  <2>1. ASSUME LacksClusterValues(app)
        PROVE  HasPatchAddToExtraConfigs(ClusterValuesPatches(app))
    <3>1. ClusterValuesPatches(app) = <<values>>
      BY <1>1, <2>1
    <3>2. 1 \in DOMAIN <<values>> /\ <<values>>[1].container = "/spec/extraConfigs"
      BY DEF PatchAdd
    <3> QED
      BY <3>1, <3>2 DEF HasPatchAddToExtraConfigs
  <2>2. ASSUME psp = "entry"
        PROVE  HasPatchAddToExtraConfigs(PspPatches(app, psp))
    <3>1. three = <<label>> /\ four = <<entry>>
      BY <2>2
    <3>2. PspPatches(app, psp) = <<label>> \o <<entry>>
      BY <1>1, <3>1
    <3>3. 2 \in DOMAIN (<<label>> \o <<entry>>) /\ (<<label>> \o <<entry>>)[2] = entry
      <4> HIDE DEF label, entry
      <4>1. /\ <<label>> \in Seq({label, entry}) /\ <<entry>> \in Seq({label, entry})
            /\ Len(<<label>>) = 1 /\ Len(<<entry>>) = 1 /\ <<entry>>[1] = entry
        OBVIOUS
      <4>2. /\ <<label>> \o <<entry>> \in Seq({label, entry})
            /\ Len(<<label>> \o <<entry>>) = 2
            /\ (<<label>> \o <<entry>>)[2] = <<entry>>[1]
        BY <4>1, ConcatProperties
      <4> QED
        BY <4>1, <4>2, LenProperties
    <3>4. entry.container = "/spec/extraConfigs"
      BY DEF PatchAdd
    <3> QED
      BY <3>2, <3>3, <3>4 DEF HasPatchAddToExtraConfigs
  <2> QED
    BY <2>1, <2>2 DEF NeedsExtraConfigsSet
<1>4. /\ "/spec" \in X /\ "/metadata/labels" \in X
      /\ app.extraConfigs # <<>> => X = Y
      /\ X \cup Opens(prepare) = Y
  BY DEF Containers, Opens, PatchAdd
<1>5. /\ one # <<>> <=> NeedsExtraConfigsSet(app, psp)
      /\ two # <<>> => adds
      /\ four # <<>> => adds
  <2>1. <<prepare>> # <<>>
    OBVIOUS
  <2> QED
    BY <2>1
<1>6. /\ prepare.container = "/spec" /\ values.container = "/spec/extraConfigs"
      /\ label.container = "/metadata/labels" /\ entry.container = "/spec/extraConfigs"
  BY DEF PatchAdd
<1> DEFINE Z == IF adds THEN Y ELSE IF NeedsExtraConfigsSet(app, psp) THEN Y ELSE X
<1>7. X \subseteq Z /\ (adds => "/spec/extraConfigs" \in Z)
  OBVIOUS
<1>8. /\ ~NeedsExtraConfigsSet(app, psp) => Z = X
      /\ NeedsExtraConfigsSet(app, psp) => Z = X \cup Opens(prepare)
  BY <1>3, <1>4
<1> HIDE DEF prepare, values, label, entry, one, two, three, four, Y, Z, adds
<1>9. Chains(X, one, Z)
  <2>1. Chains(X, one, X) /\ (one # <<>> => Chains(X, one, X \cup Opens(prepare)))
    BY <1>2, <1>4, <1>6, ChainsOptional
  <2> QED
    BY <2>1, <1>5, <1>8
<1>10. Chains(Z, two, Z)
  BY <1>2, <1>5, <1>6, <1>7, ChainsOptional
<1>11. Chains(Z, three, Z)
  <2>1. label.container \in Z
    BY <1>4, <1>6, <1>7
  <2> QED
    BY <2>1, <1>2, ChainsOptional
<1>12. Chains(Z, four, Z)
  BY <1>2, <1>5, <1>6, <1>7, ChainsOptional
<1>13. Chains(Z, PspPatches(app, psp), Z)
  BY <1>1, <1>11, <1>12, ChainsParts
<1>14. Chains(X, one \o two, Z)
  BY <1>9, <1>10, ChainsParts
<1> DEFINE pair == one \o two
<1> HIDE DEF pair
<1>15. Chains(X, pair \o PspPatches(app, psp), Z)
  BY <1>13, <1>14, ChainsParts DEF pair
<1>16. ExtraConfigsPatches(app, psp) = pair \o PspPatches(app, psp)
  BY <1>1 DEF pair
<1> QED
  BY <1>7, <1>15, <1>16

LEMMA KubeConfigChains ==
  ASSUME NEW app, NEW ns, NEW X, "/spec/kubeConfig" \in X
  PROVE  Chains(X, KubeConfigPatches(app, ns), X)
<1> DEFINE context == PatchAdd("/spec/kubeConfig", "context",
                        IF IsManagedInOrg(app) THEN ClusterLabel(app) ELSE app.ns)
           secret == PatchAdd("/spec/kubeConfig", "secret",
                       Ref(ClusterKubeConfigSecretName(app), ns))
           one == IF app.context = None THEN <<context>> ELSE <<>>
           two == <<secret>>
<1>1. KubeConfigPatches(app, ns) \in {<<>>, one \o two}
  BY DEF KubeConfigPatches
<1>2. AtMost(context, one) /\ AtMost(secret, two) /\ AtMost(context, <<>>)
  BY DEF AtMost
<1>3. context.container \in X /\ secret.container \in X
  BY DEF PatchAdd
<1> HIDE DEF context, secret, one, two
<1>4. Chains(X, one, X) /\ Chains(X, two, X) /\ Chains(X, <<>>, X)
  BY <1>2, <1>3, ChainsOptional
<1>5. Chains(X, one \o two, X)
  BY <1>4, ChainsParts
<1> QED
  BY <1>1, <1>4, <1>5

LEMMA ClusterAppChains ==
  ASSUME NEW app, NEW component, NEW X, "/spec" \in X
  PROVE  Chains(X, ClusterAppPatches(app, component), X)
<1> DEFINE version == PatchAdd("/spec", "version", component.version)
           catalog == PatchAdd("/spec", "catalog", component.catalog)
           one == IF app.version # component.version THEN <<version>> ELSE <<>>
           two == IF app.catalog # component.catalog THEN <<catalog>> ELSE <<>>
<1>1. ClusterAppPatches(app, component) \in {<<>>, one \o two}
  BY DEF ClusterAppPatches
<1>2. AtMost(version, one) /\ AtMost(catalog, two) /\ AtMost(version, <<>>)
  BY DEF AtMost
<1>3. version.container \in X /\ catalog.container \in X
  BY DEF PatchAdd
<1> HIDE DEF version, catalog, one, two
<1>4. Chains(X, one, X) /\ Chains(X, two, X) /\ Chains(X, <<>>, X)
  BY <1>2, <1>3, ChainsOptional
<1>5. Chains(X, one \o two, X)
  BY <1>4, ChainsParts
<1> QED
  BY <1>1, <1>4, <1>5

LEMMA ChainsApply ==
  ASSUME NEW app, NEW s, NEW Y, Chains(Containers(app), s, Y)
  PROVE  Applicable(app, s)
BY DEF Chains, Applicable, Opened

LEMMA NothingApplies ==
  ASSUME NEW app
  PROVE  Applicable(app, <<>>)
BY DEF Applicable

\* Both kinds of patches can be applied to every document, and whatever the
\* webhook has learned on the way.
LEMMA MetadataOnlyApplies ==
  ASSUME NEW app, NEW version
  PROVE  Applicable(app, MetadataOnly(app, version))
BY MetadataChains, ChainsApply, NothingApplies DEF MetadataOnly

LEMMA FullMutationApplies ==
  ASSUME NEW app, NEW version, NEW psp, NEW ns, NEW component
  PROVE  Applicable(app, FullMutation(app, version, psp, ns, component))
<1> DEFINE p1 == MetadataPatches(app) \o LabelPatches(app, version)
           p2 == ExtraConfigsPatches(app, psp)
           p3 == KubeConfigPatches(app, ns)
           p4 == ClusterAppPatches(app, component)
           X == Containers(app)
           Y == Containers(app) \cup {"/metadata/labels"}
<1>1. Chains(X, p1, Y)
  BY MetadataChains
<1>2. PICK Z : Y \subseteq Z /\ Chains(Y, p2, Z)
  BY ExtraConfigsChains
<1>3. "/spec" \in Z /\ "/spec/kubeConfig" \in Z
  BY <1>2 DEF Containers
<1>4. Chains(Z, p3, Z) /\ Chains(Z, p4, Z)
  BY <1>3, KubeConfigChains, ClusterAppChains
<1> HIDE DEF p1, p2, p3, p4, X, Y
<1> DEFINE p12 == p1 \o p2
           p123 == p12 \o p3
<1>5. Chains(X, p12, Z)
  BY <1>1, <1>2, ChainsParts
<1> HIDE DEF p12
<1>6. Chains(X, p123, Z)
  BY <1>4, <1>5, ChainsParts
<1> HIDE DEF p123
<1>7. Chains(X, p123 \o p4, Z)
  BY <1>4, <1>6, ChainsParts
<1>8. FullMutation(app, version, psp, ns, component) = p123 \o p4
  BY DEF FullMutation, p123, p12, p1, p2, p3, p4
<1> QED
  BY <1>7, <1>8, ChainsApply DEF X
=============================================================================
