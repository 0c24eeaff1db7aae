--------------------------- MODULE ServingProofs ---------------------------
(***************************************************************************)
(* Theorems about Serving, for any number of rotations, any number of      *)
(* calls at a time, and any failure threshold of the liveness probe.       *)
(***************************************************************************)
EXTENDS Serving, TLAPS

\* Certificates move on from the Secret to the files and from the files to
\* memory, and are never older than the one the process has started with.
Ordered ==
  /\ volume <= secret
  /\ process # "stopped" =>
       /\ loaded # NotRead
       /\ loaded <= volume
  /\ process = "running" =>
       /\ loaded <= memory /\ memory <= volume
       /\ memRead # NotRead => loaded <= memRead /\ memRead <= volume
       /\ crtRead # NotRead => loaded <= crtRead /\ crtRead <= volume

\* What is left of a probe, and of the failures, in each phase of the process.
Probing ==
  /\ process = "stopped" => failures = 0 /\ memRead = NotRead
  /\ process = "closing" => memRead = NotRead /\ crtRead = NotRead
  /\ process = "running" /\ crtRead # NotRead => memRead # NotRead
  /\ memRead # NotRead => failures < FailureThreshold

\* The inductive invariant.
IInv == TypeOK /\ Ordered /\ Probing /\ FailsOnlyAfterRotation

LEMMA InitIInv == Init => IInv
BY ServingAssumption DEF Init, IInv, TypeOK, Ordered, Probing, FailsOnlyAfterRotation, Certificates

\* The types element by element, certificates being natural numbers.
Typed ==
  /\ secret \in Nat /\ secret <= MaxRotations
  /\ trusted \in Nat /\ trusted <= MaxRotations
  /\ volume \in Nat /\ volume <= MaxRotations
  /\ process \in {"stopped", "running", "closing"}
  /\ memory = NotRead \/ (memory \in Nat /\ memory <= MaxRotations)
  /\ loaded = NotRead \/ (loaded \in Nat /\ loaded <= MaxRotations)
  /\ memRead = NotRead \/ (memRead \in Nat /\ memRead <= MaxRotations)
  /\ crtRead = NotRead \/ (crtRead \in Nat /\ crtRead <= MaxRotations)
  /\ process = "running" <=> memory # NotRead /\ process # "closing"
  /\ failures \in Nat /\ failures <= FailureThreshold
  /\ calls \in Nat /\ calls <= MaxCalls

LEMMA TypeOKIsTyped == TypeOK <=> Typed
BY ServingAssumption DEF TypeOK, Typed, Certificates

LEMMA TypeOKIsTypedNext == TypeOK' <=> Typed'
BY TypeOKIsTyped, PTL

\* "Not read" is no certificate.
LEMMA NotReadIsNoCertificate ==
  \A c \in Nat : c <= MaxRotations => c # NotRead
BY ServingAssumption

LEMMA NextIInv == IInv /\ [Next]_vars => IInv'
<1> SUFFICES ASSUME Typed, Ordered, Probing, FailsOnlyAfterRotation, [Next]_vars
             PROVE  Typed' /\ Ordered' /\ Probing' /\ FailsOnlyAfterRotation'
  BY TypeOKIsTyped, TypeOKIsTypedNext DEF IInv
<1> USE NotReadIsNoCertificate, ServingAssumption
        DEF Typed, Ordered, Probing, FailsOnlyAfterRotation, certificates, reading
<1>1. CASE Rotate
  BY <1>1 DEF Rotate
<1>2. CASE InjectCA
  BY <1>2 DEF InjectCA
<1>3. CASE SyncVolume
  <2> USE <1>3 DEF SyncVolume
  <2>1. Typed'
    OBVIOUS
  <2>2. volume <= volume' /\ volume' <= secret'
    OBVIOUS
  <2>3. Ordered'
    BY <2>2
  <2>4. Probing'
    OBVIOUS
  <2>5. FailsOnlyAfterRotation'
    BY <2>2
  <2> QED
    BY <2>1, <2>3, <2>4, <2>5
<1>4. CASE LoadCrt
  BY <1>4 DEF LoadCrt
<1>5. CASE LoadKey
  <2> USE <1>5 DEF LoadKey
  <2>1. CASE crtRead = volume
    BY <2>1
  <2>2. CASE crtRead # volume
    BY <2>2
  <2> QED
    BY <2>1, <2>2
<1>6. CASE Reload
  <2> USE <1>6 DEF Reload
  <2>1. Typed'
    OBVIOUS
  <2>2. Ordered'
    OBVIOUS
  <2>3. Probing' /\ FailsOnlyAfterRotation'
    OBVIOUS
  <2> QED
    BY <2>1, <2>2, <2>3
<1>7. CASE BeginCall
  BY <1>7 DEF BeginCall
<1>8. CASE EndCall
  BY <1>8 DEF EndCall
<1>9. CASE Terminate
  BY <1>9 DEF Terminate
<1>10. CASE Exit
  BY <1>10 DEF Exit
<1>11. CASE GetCertificate
  BY <1>11 DEF GetCertificate
<1>12. CASE ReadCrt
  <2> USE <1>12 DEF ReadCrt
  <2>1. Typed'
    OBVIOUS
  <2>2. Ordered'
    OBVIOUS
  <2>3. Probing' /\ FailsOnlyAfterRotation'
    OBVIOUS
  <2> QED
    BY <2>1, <2>2, <2>3
<1>13. CASE ReadKey
  <2> USE <1>13 DEF ReadKey, Healthy
  <2>1. CASE crtRead = volume /\ memRead = crtRead
    BY <2>1
  <2>2. CASE ~(crtRead = volume /\ memRead = crtRead)
    \* memory or the file read is older than the files: there was a rotation.
    <3>1. loaded < volume
      BY <2>2
    <3> QED
      BY <2>2, <3>1
  <2> QED
    BY <2>1, <2>2
<1>14. CASE UNCHANGED vars
  BY <1>14 DEF vars
<1> QED
  BY <1>1, <1>2, <1>3, <1>4, <1>5, <1>6, <1>7, <1>8, <1>9, <1>10, <1>11, <1>12, <1>13, <1>14
     DEF Next, Start, HealthCheck

\* Type correctness: in particular the failures the liveness probe counts never
\* exceed its threshold, and a process serves exactly when it has a certificate
\* and has not been told to terminate.
THEOREM TypeCorrect == Spec => []TypeOK
<1>1. IInv => TypeOK
  BY DEF IInv
<1> QED
  BY <1>1, InitIInv, NextIInv, PTL DEF Spec

\* Probes fail only after a rotation: however the file watcher, the two reads
\* of the health check and the switch of the mounted files interleave, a pod
\* whose files are those it has started with is healthy (healthCheck, main.go).
THEOREM FailsOnlyAfterRotationHolds == Spec => []FailsOnlyAfterRotation
<1>1. IInv => FailsOnlyAfterRotation
  BY DEF IInv
<1> QED
  BY <1>1, InitIInv, NextIInv, PTL DEF Spec

=============================================================================
