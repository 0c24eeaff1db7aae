------------------------------ MODULE Handlers ------------------------------
(***************************************************************************)
(* The HTTP handlers of both webhooks (pkg/mutator, pkg/validator) and the *)
(* counters they keep in one process (pkg/metrics).  Requests are served   *)
(* concurrently; a counter is incremented atomically, but a handler        *)
(* increments several, some before and some after the answer is written.   *)
(* What a webhook decides is arbitrary here: modules Mutator and Validator *)
(* tell.                                                                   *)
(***************************************************************************)
EXTENDS Naturals, FiniteSets

CONSTANTS
  Workers,      \* requests that may be served at the same time
  MaxRequests   \* bound: requests of one webhook between two restarts

ASSUME HandlersAssumption == MaxRequests \in Nat

Webhooks == {"mutating", "validating"}
Metrics == {"total", "invalid", "errors", "rejected", "successful", "duration"}

VARIABLES
  counters,     \* by webhook and metric
  serving,      \* the requests being served
  begun,        \* requests since the process started, by webhook
  answered      \* answers received since then: [webhook -> [verdict -> Nat]]

vars == <<counters, serving, begun, answered>>

Verdicts == {"admitted", "rejected", "status"}
Idle == [pc |-> "idle"]

-----------------------------------------------------------------------------
Inc(hook, metric) == counters' = [counters EXCEPT ![hook][metric] = @ + 1]
Goto(w, pc) == serving' = [serving EXCEPT ![w].pc = pc]
At(w, pc) == serving[w].pc = pc
Hook(w) == serving[w].hook

\* Only the mutating handler counts what arrives.
Begin(w, hook) ==
  /\ At(w, "idle") /\ begun[hook] < MaxRequests
  /\ serving' = [serving EXCEPT ![w] = [pc |-> "received", hook |-> hook]]
  /\ begun' = [begun EXCEPT ![hook] = @ + 1]
  /\ IF hook = "mutating" THEN Inc(hook, "total") ELSE UNCHANGED counters
  /\ UNCHANGED answered

\* A mistake to rule out: the request is handled all the same.
InvalidGoingOn(w) ==
  /\ At(w, "received")
  /\ Inc(Hook(w), "invalid")
  /\ UNCHANGED <<serving, begun, answered>>
\* A content type other than JSON, or a review that does not decode.
Invalid(w) ==
  /\ At(w, "received")
  /\ Inc(Hook(w), "invalid")
  /\ Goto(w, "status")
  /\ UNCHANGED <<begun, answered>>

ReadingFails(w) ==
  /\ At(w, "received")
  /\ Inc(Hook(w), "errors")
  /\ Goto(w, "status")
  /\ UNCHANGED <<begun, answered>>

\* An admitted App is counted before the answer is written.
Admit(w) ==
  /\ At(w, "received")
  /\ Inc(Hook(w), "successful")
  /\ Goto(w, "admitted")
  /\ UNCHANGED <<begun, answered>>

\* A rejected one is counted after it.
Reject(w) ==
  /\ At(w, "received")
  /\ Goto(w, "rejected")
  /\ UNCHANGED <<counters, begun, answered>>

\* Mistakes to rule out: the handler goes on after a rejection; it returns
\* before it has counted it.
AfterAnswerFallingThrough(verdict) == IF verdict = "rejected" THEN "received" ELSE "return"
AfterAnswerReturning(verdict) == "return"
AfterAnswer(verdict) == IF verdict = "rejected" THEN "count" ELSE "return"

\* The answer arrives, or the connection is gone and only a log line tells.
WriteResponse(w) ==
  /\ serving[w].pc \in Verdicts
  /\ \/ answered' = [answered EXCEPT ![Hook(w)][serving[w].pc] = @ + 1]
     \/ UNCHANGED answered
  /\ Goto(w, AfterAnswer(serving[w].pc))
  /\ UNCHANGED <<counters, begun>>

CountRejected(w) ==
  /\ At(w, "count")
  /\ Inc(Hook(w), "rejected")
  /\ Goto(w, "return")
  /\ UNCHANGED <<begun, answered>>

\* The deferred observation of the duration.
Return(w) ==
  /\ At(w, "return")
  /\ Inc(Hook(w), "duration")
  /\ serving' = [serving EXCEPT ![w] = Idle]
  /\ UNCHANGED <<begun, answered>>

-----------------------------------------------------------------------------
NoCounts == [hook \in Webhooks |-> [metric \in Metrics |-> 0]]
NoAnswers == [hook \in Webhooks |-> [verdict \in Verdicts |-> 0]]

Init ==
  /\ counters = NoCounts
  /\ serving = [w \in Workers |-> Idle]
  /\ begun = [hook \in Webhooks |-> 0]
  /\ answered = NoAnswers

\* The process dies and starts again: counters are not kept.
Restart ==
  /\ counters' = NoCounts
  /\ serving' = [w \in Workers |-> Idle]
  /\ begun' = [hook \in Webhooks |-> 0]
  /\ answered' = NoAnswers

Handle(w) ==
  \/ Invalid(w)
  \/ ReadingFails(w)
  \/ Admit(w)
  \/ Reject(w)
  \/ WriteResponse(w)
  \/ CountRejected(w)
  \/ Return(w)

Next ==
  \/ \E w \in Workers : Handle(w) \/ \E hook \in Webhooks : Begin(w, hook)
  \/ Restart

Spec == Init /\ [][Next]_vars

-----------------------------------------------------------------------------
(* Properties.                                                             *)

Busy(hook) == {w \in Workers : serving[w] # Idle /\ serving[w].hook = hook}
Undecided(hook) == {w \in Busy(hook) : serving[w].pc \in {"received", "rejected", "count"}}

TypeOK ==
  /\ counters \in [Webhooks -> [Metrics -> 0..MaxRequests]]
  /\ serving \in [Workers -> {Idle} \cup
       [pc : Verdicts \cup {"received", "count", "return"}, hook : Webhooks]]
  /\ begun \in [Webhooks -> 0..MaxRequests]
  /\ answered \in [Webhooks -> [Verdicts -> 0..MaxRequests]]

\* Whatever has happened to the connections, every request counts in exactly
\* one outcome, except those that are not decided or counted yet; it has a
\* duration when it is over.
OutcomesAddUp ==
  \A hook \in Webhooks :
    LET count == counters[hook]
    IN  /\ begun[hook] = count["invalid"] + count["errors"] + count["rejected"]
                           + count["successful"] + Cardinality(Undecided(hook))
        /\ begun[hook] = count["duration"] + Cardinality(Busy(hook))
        /\ hook = "mutating" => count["total"] = begun[hook]

\* No App is admitted that is not counted as successful when its answer
\* arrives; a rejection may arrive before it is counted.
AnswersCounted ==
  \A hook \in Webhooks :
    /\ answered[hook]["admitted"] <= counters[hook]["successful"]
    /\ answered[hook]["rejected"] <= counters[hook]["rejected"]
         + Cardinality({w \in Busy(hook) : serving[w].pc = "count"})
    /\ answered[hook]["status"] <= counters[hook]["invalid"] + counters[hook]["errors"]

=============================================================================
