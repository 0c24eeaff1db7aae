----------------------------- MODULE JSONPatch -----------------------------
(***************************************************************************)
(* The JSON patches the controller answers with (pkg/mutator/patch.go) and *)
(* what the API server makes of them (RFC 6902): an "add" below an object  *)
(* or array the document does not hold fails, and an "add" of a member the *)
(* document already holds replaces it.                                     *)
(***************************************************************************)
EXTENDS AppCR

\* An operation is the container it adds to, the member it adds, and the value.
PatchAdd(container, member, value) ==
  [container |-> container, member |-> member, value |-> value]

\* The container that a member of "/metadata" or "/spec" opens.
Opens(op) ==
  CASE op.container = "/metadata" /\ op.member = "labels" -> {"/metadata/labels"}
    [] op.container = "/spec" /\ op.member = "extraConfigs" -> {"/spec/extraConfigs"}
    [] OTHER -> {}

\* The containers a submitted document always holds (kubeConfig.inCluster is
\* a required field), and those it holds when they are not empty.
Containers(app) ==
  {"/metadata", "/spec", "/spec/kubeConfig"}
    \cup (IF HasLabels(app) THEN {"/metadata/labels"} ELSE {})
    \cup (IF app.extraConfigs # <<>> THEN {"/spec/extraConfigs"} ELSE {})

NoLabels == [k \in LabelKeys |-> None]

\* The document after one operation.
ApplyOp(app, op) ==
  CASE op.container = "/metadata/labels" ->
         [app EXCEPT !.labels[op.member] = op.value]
    [] op.container = "/metadata" /\ op.member = "labels" ->
         [app EXCEPT !.labels = NoLabels]
    [] op.container = "/metadata" /\ op.member = "annotations" ->
         [app EXCEPT !.annotations = op.value]
    [] op.container = "/spec" /\ op.member = "extraConfigs" ->
         [app EXCEPT !.extraConfigs = op.value]
    [] op.container = "/spec/extraConfigs" ->
         [app EXCEPT !.extraConfigs = Append(@, op.value)]
    [] op.container = "/spec/kubeConfig" /\ op.member = "context" ->
         [app EXCEPT !.context = op.value]
    [] op.container = "/spec/kubeConfig" /\ op.member = "secret" ->
         [app EXCEPT !.secret = op.value]
    [] op.container = "/spec" /\ op.member = "version" ->
         [app EXCEPT !.version = op.value]
    [] op.container = "/spec" /\ op.member = "catalog" ->
         [app EXCEPT !.catalog = op.value]

\* The document after each number of operations.
Documents(app, ops) ==
  LET document[i \in 0..Len(ops)] ==
        IF i = 0 THEN app ELSE ApplyOp(document[i - 1], ops[i])
  IN  document

ApplyPatch(app, ops) == Documents(app, ops)[Len(ops)]

\* No operation adds below a container that is not there yet.
Applicable(app, ops) ==
  \A i \in DOMAIN ops :
     ops[i].container \in
       Containers(app) \cup UNION {Opens(ops[j]) : j \in 1..(i - 1)}
=============================================================================
