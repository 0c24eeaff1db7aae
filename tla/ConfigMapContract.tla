------------------------- MODULE ConfigMapContract -------------------------
(***************************************************************************)
(* What PSP removal promises to those who use it, without any of the how.  *)
(* A chart's values are ready before anything relies on them, and stay     *)
(* ready: an App whose ConfigMap is missing is not installed, and one with *)
(* other values is installed with PSPs that its cluster does not serve.    *)
(* What relies on values goes on doing so until it is gone.                *)
(***************************************************************************)

CONSTANT
  Dependents          \* Apps, or answers that will make an App rely on values

VARIABLES
  ready,              \* the charts, each in a namespace, whose values are ready
  present,            \* the dependents there are
  relies              \* dependent -> the charts, one or none, it relies on

Provide == ready \subseteq ready'

\* A dependent appears, and relies on nothing.
Admit(d) ==
  /\ relies[d] = {}
  /\ present' = present \cup {d}
  /\ UNCHANGED <<ready, relies>>

\* Values may become ready in the step that relies on them, not later.
Rely(d) ==
  /\ Provide
  /\ present' = present \cup {d}
  /\ \E chart \in ready' : relies' = [relies EXCEPT ![d] = {chart}]

Remove(d) ==
  /\ present' = present \ {d}
  /\ relies' = [relies EXCEPT ![d] = {}]
  /\ UNCHANGED ready

Init ==
  /\ present = {}
  /\ relies = [d \in Dependents |-> {}]

Next ==
  \/ Provide /\ UNCHANGED <<present, relies>>
  \/ \E d \in Dependents : Admit(d) \/ Rely(d) \/ Remove(d)

Spec == Init /\ [][Next]_<<ready, present, relies>>
=============================================================================
