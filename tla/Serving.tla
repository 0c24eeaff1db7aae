------------------------------ MODULE Serving ------------------------------
(***************************************************************************)
(* One pod of the Deployment (main.go): it loads its certificate, serves   *)
(* requests with it, and is watched by the kubelet through /healthz while  *)
(* cert-manager rotates the certificate.  Certificates are numbered in the *)
(* order they are issued.  The certificate is self-signed, so the API      *)
(* server trusts exactly the one cert-manager has injected.                *)
(*                                                                         *)
(* The kubelet switches the mounted files at once, but the program reads   *)
(* the certificate and the key one after the other.                        *)
(***************************************************************************)
EXTENDS Naturals

CONSTANTS
  NotRead,              \* no certificate
  FailureThreshold,     \* failed probes in a row after which a pod restarts
  MaxRotations,         \* bound: certificates issued after the first
  MaxCalls              \* bound: webhook calls served at the same time

ASSUME ServingAssumption ==
  /\ FailureThreshold \in Nat \ {0}
  /\ MaxRotations \in Nat
  /\ MaxCalls \in Nat
  /\ NotRead \notin 0..MaxRotations

VARIABLES
  secret,       \* the certificate in the Secret
  trusted,      \* the one in the caBundle of the webhook configurations
  volume,       \* the one in the files of the pod
  process,      \* "stopped", "running", or "closing": after SIGTERM
  memory,       \* the one the process serves with, loaded when it started...
  loaded,       \* ...and the one it started with (nothing depends on it)
  memRead,      \* /healthz: the one it has seen in memory
  crtRead,      \* the one whose file was read, its key not yet
  failures,     \* failed probes in a row
  calls         \* webhook calls being served

certificates == <<secret, trusted, volume>>
reading == <<memRead, crtRead>>
vars == <<certificates, process, memory, loaded, reading, failures, calls>>

Certificates == 0..MaxRotations

-----------------------------------------------------------------------------
(* Around the process: cert-manager, its CA injector, the kubelet.         *)

Rotate ==
  /\ secret < MaxRotations
  /\ secret' = secret + 1
  /\ UNCHANGED <<trusted, volume, process, memory, loaded, reading, failures, calls>>

InjectCA ==
  /\ trusted' = secret
  /\ UNCHANGED <<secret, volume, process, memory, loaded, reading, failures, calls>>

SyncVolume ==
  /\ volume' = secret
  /\ UNCHANGED <<secret, trusted, process, memory, loaded, reading, failures, calls>>

-----------------------------------------------------------------------------
(* The process.                                                            *)

LoadCrt ==
  /\ process = "stopped" /\ crtRead = NotRead
  /\ crtRead' = volume
  /\ UNCHANGED <<certificates, process, memory, loaded, memRead, failures, calls>>

\* A mistake to rule out: the error is not looked at.
LoadKeyOrNot ==
  /\ process = "stopped" /\ crtRead # NotRead
  /\ crtRead' = NotRead
  /\ process' = "running"
  /\ memory' = IF crtRead = volume THEN volume ELSE NotRead
  /\ loaded' = volume
  /\ UNCHANGED <<certificates, memRead, failures, calls>>
\* A pair that does not match makes main panic; the kubelet starts it again.
LoadKey ==
  /\ process = "stopped" /\ crtRead # NotRead
  /\ crtRead' = NotRead
  /\ IF crtRead = volume
     THEN process' = "running" /\ memory' = volume /\ loaded' = volume
     ELSE UNCHANGED <<process, memory, loaded>>
  /\ UNCHANGED <<certificates, memRead, failures, calls>>

\* The file watcher, which may miss what happens to the files.  A pair that
\* does not match is not taken.
Reload ==
  /\ process = "running"
  /\ memory' = volume
  /\ UNCHANGED <<certificates, process, loaded, reading, failures, calls>>

BeginCall ==
  /\ process = "running" /\ calls < MaxCalls
  /\ calls' = calls + 1
  /\ UNCHANGED <<certificates, process, memory, loaded, reading, failures>>

EndCall ==
  /\ calls > 0
  /\ calls' = calls - 1
  /\ UNCHANGED <<certificates, process, memory, loaded, reading, failures>>

\* SIGTERM (a probe's, a rollout's, an eviction's) closes the listener.
Terminate ==
  /\ process = "running"
  /\ process' = "closing"
  /\ memRead' = NotRead /\ crtRead' = NotRead
  /\ UNCHANGED <<certificates, memory, loaded, failures, calls>>

\* A mistake to rule out: calls are waited for, however long they take.
ExitWhenDrained ==
  /\ process = "closing" /\ calls = 0
  /\ process' = "stopped"
  /\ memory' = NotRead /\ loaded' = NotRead
  /\ failures' = 0 /\ calls' = 0
  /\ UNCHANGED <<certificates, reading>>
\* ListenAndServeTLS returns as soon as the listener is closed, and main with
\* it: the calls being served are lost.
Exit ==
  /\ process = "closing"
  /\ process' = "stopped"
  /\ memory' = NotRead /\ loaded' = NotRead
  /\ failures' = 0 /\ calls' = 0
  /\ UNCHANGED <<certificates, reading>>

-----------------------------------------------------------------------------
(* healthCheck.                                                            *)

GetCertificate ==
  /\ process = "running" /\ failures < FailureThreshold
  /\ memRead = NotRead
  /\ memRead' = memory
  /\ UNCHANGED <<certificates, process, memory, loaded, crtRead, failures, calls>>

ReadCrt ==
  /\ process = "running"
  /\ memRead # NotRead /\ crtRead = NotRead
  /\ crtRead' = volume
  /\ UNCHANGED <<certificates, process, memory, loaded, memRead, failures, calls>>

\* Mistakes to rule out: any certificate is good; the answers are swapped.
HealthyAlways(inMemCrt, inDirCrt) == TRUE
HealthySwapped(inMemCrt, inDirCrt) == inMemCrt # inDirCrt
Healthy(inMemCrt, inDirCrt) == inMemCrt = inDirCrt

\* A pair that does not match panics: the probe gets no answer and fails.
ReadKey ==
  /\ process = "running" /\ crtRead # NotRead
  /\ failures' = IF crtRead = volume /\ Healthy(memRead, crtRead) THEN 0
                  ELSE failures + 1
  /\ memRead' = NotRead /\ crtRead' = NotRead
  /\ UNCHANGED <<certificates, process, memory, loaded, calls>>

\* The liveness probe has failed too often.
Restart == failures >= FailureThreshold /\ Terminate

-----------------------------------------------------------------------------
Init ==
  /\ secret = 0 /\ trusted = 0 /\ volume = 0
  /\ process = "stopped"
  /\ memory = NotRead /\ loaded = NotRead
  /\ memRead = NotRead /\ crtRead = NotRead
  /\ failures = 0 /\ calls = 0

HealthCheck == GetCertificate \/ ReadCrt \/ ReadKey
Start == LoadCrt \/ LoadKey

Next ==
  \/ Rotate \/ InjectCA \/ SyncVolume
  \/ Start \/ Reload \/ BeginCall \/ EndCall \/ Terminate \/ Exit
  \/ HealthCheck

\* cert-manager and the kubelet go on: volumes are synchronised, pods probed,
\* restarted and started.  The watcher need not see anything, and a call may
\* take for ever: the handlers have no deadline.
Spec == Init /\ [][Next]_vars
FairSpec ==
  /\ Spec
  /\ WF_vars(InjectCA) /\ WF_vars(SyncVolume)
  /\ WF_vars(Start) /\ WF_vars(Exit)
  /\ WF_vars(HealthCheck) /\ WF_vars(Restart)

-----------------------------------------------------------------------------
(* Properties.                                                             *)

\* The types of all variables; failures are counted up to the threshold.
TypeOK ==
  /\ {secret, trusted, volume} \subseteq Certificates
  /\ process \in {"stopped", "running", "closing"}
  /\ {memory, loaded, memRead, crtRead} \subseteq Certificates \cup {NotRead}
  /\ process = "running" <=> memory # NotRead /\ process # "closing"
  /\ failures \in 0..FailureThreshold
  /\ calls \in 0..MaxCalls

\* A pod fails a probe only when its certificate was rotated since it started,
\* so pods do not restart for ever, and starting again is a cure
\* (main.go:152).
FailsOnlyAfterRotation == failures > 0 => volume > loaded

\* The API server can set up a connection to the pod.
Reachable == process = "running" /\ memory = trusted

\* Rotation makes every pod unreachable at once, and ends: the health check
\* finds the stale certificate even when the watcher has missed the change, and
\* the pod it restarts comes back even when a call it is serving never ends
\* ("Extend the /healthz endpoint to check for a valid certificate and let
\* Kubernetes liveness probes handle restarts", CHANGELOG.md:60).
AdmissionResumes == ~Reachable ~> Reachable
=============================================================================
