-------------------------- MODULE HandlersProofs --------------------------
(***************************************************************************)
(* Theorems about Handlers, for any set of requests that may be served at  *)
(* the same time, even an infinite one: at most MaxRequests are.           *)
(***************************************************************************)
EXTENDS Handlers, FiniteSetTheorems, TLAPS

Pcs == Verdicts \cup {"received", "count", "return"}
Call == [pc : Pcs, hook : Webhooks]

\* The requests of a webhook that are at one of some points of the handler, and
\* how many they are.
In(c, hook, pcs) == c # Idle /\ c.hook = hook /\ c.pc \in pcs
Where(s, hook, pcs) == {w \in Workers : In(s[w], hook, pcs)}
N(s, hook, pcs) == Cardinality(Where(s, hook, pcs))

UndecidedPcs == {"received", "rejected", "count"}

Typed ==
  /\ counters \in [Webhooks -> [Metrics -> Nat]]
  /\ serving \in [Workers -> {Idle} \cup Call]
  /\ begun \in [Webhooks -> 0..MaxRequests]
  /\ answered \in [Webhooks -> [Verdicts -> Nat]]
  /\ \A hook \in Webhooks : IsFiniteSet(Where(serving, hook, Pcs))

\* What is counted of the requests of one webhook.  It speaks of the requests
\* that are counted and not yet answered, which the properties do not.
Counted(hook, count, given, s, n) ==
  /\ n = count["invalid"] + count["errors"] + count["rejected"] + count["successful"]
           + N(s, hook, UndecidedPcs)
  /\ n = count["duration"] + N(s, hook, Pcs)
  /\ given["admitted"] + N(s, hook, {"admitted"}) <= count["successful"]
  /\ given["rejected"] <= count["rejected"] + N(s, hook, {"count"})
  /\ given["status"] + N(s, hook, {"status"}) <= count["invalid"] + count["errors"]
  /\ count["total"] = IF hook = "mutating" THEN n ELSE 0

\* The inductive invariant.
IInv ==
  /\ Typed
  /\ \A hook \in Webhooks :
       Counted(hook, counters[hook], answered[hook], serving, begun[hook])

-----------------------------------------------------------------------------
(* How many requests are where.                                            *)

\* Some of finitely many requests are finitely many.
LEMMA FewerRequests ==
  ASSUME Typed, NEW hook \in Webhooks, NEW pcs \in SUBSET Pcs
  PROVE  /\ IsFiniteSet(Where(serving, hook, pcs))
         /\ N(serving, hook, pcs) \in Nat
         /\ N(serving, hook, pcs) <= N(serving, hook, Pcs)
<1>1. IsFiniteSet(Where(serving, hook, Pcs))
  BY DEF Typed
<1>2. Where(serving, hook, pcs) \in SUBSET Where(serving, hook, Pcs)
  BY DEF Where, In
<1>3. /\ IsFiniteSet(Where(serving, hook, pcs))
      /\ Cardinality(Where(serving, hook, pcs)) <= Cardinality(Where(serving, hook, Pcs))
  BY <1>1, <1>2, FS_Subset
<1> QED
  BY <1>3, FS_CardinalityType DEF N

\* When one request moves, it leaves the points it was at for those it is at.
LEMMA Moved ==
  ASSUME Typed, NEW w \in Workers, NEW c \in {Idle} \cup Call,
         serving' = [serving EXCEPT ![w] = c],
         NEW hook \in Webhooks, NEW pcs \in SUBSET Pcs
  PROVE  /\ IsFiniteSet(Where(serving', hook, pcs))
         /\ N(serving', hook, pcs) =
              N(serving, hook, pcs)
                + (IF In(c, hook, pcs) THEN 1 ELSE 0)
                - (IF In(serving[w], hook, pcs) THEN 1 ELSE 0)
<1> DEFINE S == Where(serving, hook, pcs)
<1>1. IsFiniteSet(S) /\ Cardinality(S) \in Nat
  BY FewerRequests DEF N
<1>2. w \in S <=> In(serving[w], hook, pcs)
  BY DEF Where
<1>3. Where(serving', hook, pcs) = IF In(c, hook, pcs) THEN S \cup {w} ELSE S \ {w}
  BY DEF Where, Typed
<1> HIDE DEF S
<1>4. /\ IsFiniteSet(S \cup {w})
      /\ Cardinality(S \cup {w}) = IF w \in S THEN Cardinality(S) ELSE Cardinality(S) + 1
      /\ IsFiniteSet(S \ {w})
      /\ Cardinality(S \ {w}) = IF w \in S THEN Cardinality(S) - 1 ELSE Cardinality(S)
  BY <1>1, FS_AddElement, FS_RemoveElement
<1> QED
  BY <1>1, <1>2, <1>3, <1>4 DEF N, S

\* The moves of a handler: from one point to another of the same request.
LEMMA WentTo ==
  ASSUME Typed, NEW w \in Workers, NEW from \in Pcs, At(w, from), NEW to \in Pcs, Goto(w, to)
  PROVE  /\ Hook(w) \in Webhooks
         /\ serving' \in [Workers -> {Idle} \cup Call]
         /\ \A hook \in Webhooks : IsFiniteSet(Where(serving', hook, Pcs))
         /\ \A hook \in Webhooks, pcs \in SUBSET Pcs :
              N(serving', hook, pcs) =
                N(serving, hook, pcs)
                  + (IF hook = Hook(w) /\ to \in pcs THEN 1 ELSE 0)
                  - (IF hook = Hook(w) /\ from \in pcs THEN 1 ELSE 0)
<1> DEFINE c == [pc |-> to, hook |-> Hook(w)]
<1>1. serving[w] \in Call /\ serving[w] # Idle
  BY DEF Typed, At, Idle, Pcs, Verdicts, Call
<1>2. serving[w].pc = from /\ serving[w].hook = Hook(w) /\ Hook(w) \in Webhooks
  BY <1>1 DEF At, Hook, Call
<1>3. c \in Call /\ c # Idle /\ c.pc = to /\ c.hook = Hook(w)
  BY <1>2 DEF Call, Idle
<1>4. serving' = [serving EXCEPT ![w] = c]
  <2>1. [serving[w] EXCEPT !.pc = to] = c
    BY <1>1, <1>2 DEF Call
  <2> QED
    BY <2>1 DEF Goto
<1> HIDE DEF c
<1>5. serving' \in [Workers -> {Idle} \cup Call]
  BY <1>3, <1>4 DEF Typed
<1>6. ASSUME NEW hook \in Webhooks, NEW pcs \in SUBSET Pcs
      PROVE  /\ In(c, hook, pcs) <=> hook = Hook(w) /\ to \in pcs
             /\ In(serving[w], hook, pcs) <=> hook = Hook(w) /\ from \in pcs
  BY <1>1, <1>2, <1>3 DEF In
<1>7. ASSUME NEW hook \in Webhooks, NEW pcs \in SUBSET Pcs
      PROVE  /\ IsFiniteSet(Where(serving', hook, pcs))
             /\ N(serving', hook, pcs) =
                  N(serving, hook, pcs)
                    + (IF hook = Hook(w) /\ to \in pcs THEN 1 ELSE 0)
                    - (IF hook = Hook(w) /\ from \in pcs THEN 1 ELSE 0)
  BY <1>3, <1>4, <1>6, Moved
<1> QED
  BY <1>2, <1>5, <1>7

\* A counter is incremented, and no other.
LEMMA Incremented ==
  ASSUME Typed, NEW hook \in Webhooks, NEW metric \in Metrics, Inc(hook, metric)
  PROVE  /\ counters' \in [Webhooks -> [Metrics -> Nat]]
         /\ \A h \in Webhooks, m \in Metrics :
              counters'[h][m] = counters[h][m] + (IF h = hook /\ m = metric THEN 1 ELSE 0)
BY DEF Typed, Inc

-----------------------------------------------------------------------------
(* The inductive invariant.                                                *)

\* The counters are sums of numbers of requests, so they are bounded too.
LEMMA Bounded ==
  ASSUME IInv
  PROVE  TypeOK /\ OutcomesAddUp /\ AnswersCounted
<1> USE DEF Webhooks, Metrics, Verdicts
<1>1. ASSUME NEW hook \in Webhooks
      PROVE  /\ Busy(hook) = Where(serving, hook, Pcs)
             /\ Undecided(hook) = Where(serving, hook, UndecidedPcs)
             /\ {w \in Busy(hook) : serving[w].pc = "count"} = Where(serving, hook, {"count"})
  BY DEF IInv, Typed, Busy, Undecided, Where, In, Pcs, UndecidedPcs, Call
<1>2. ASSUME NEW hook \in Webhooks
      PROVE  /\ N(serving, hook, Pcs) \in Nat
             /\ N(serving, hook, UndecidedPcs) \in Nat
             /\ N(serving, hook, {"admitted"}) \in Nat
             /\ N(serving, hook, {"status"}) \in Nat
             /\ N(serving, hook, {"count"}) \in Nat
  BY FewerRequests DEF IInv, Pcs, UndecidedPcs
<1>3. ASSUME NEW hook \in Webhooks
      PROVE  N(serving, hook, {"count"}) <= N(serving, hook, UndecidedPcs)
  <2>1. IsFiniteSet(Where(serving, hook, UndecidedPcs))
    BY FewerRequests DEF IInv, Pcs, UndecidedPcs
  <2>2. Where(serving, hook, {"count"}) \in SUBSET Where(serving, hook, UndecidedPcs)
    BY DEF Where, In, UndecidedPcs
  <2> QED
    BY <2>1, <2>2, FS_Subset DEF N
<1>4. ASSUME NEW hook \in Webhooks
      PROVE  /\ \A m \in Metrics : counters[hook][m] \in 0..MaxRequests
             /\ \A v \in Verdicts : answered[hook][v] \in 0..MaxRequests
  <2>1. /\ counters[hook] \in [Metrics -> Nat]
        /\ answered[hook] \in [Verdicts -> Nat]
        /\ begun[hook] \in 0..MaxRequests
        /\ Counted(hook, counters[hook], answered[hook], serving, begun[hook])
    BY DEF IInv, Typed
  <2> QED
    BY <1>2, <1>3, <2>1, HandlersAssumption DEF Counted
<1>5. TypeOK
  BY <1>4 DEF TypeOK, IInv, Typed, Pcs, Call
<1>6. ASSUME NEW hook \in Webhooks
      PROVE  /\ Cardinality(Busy(hook)) = N(serving, hook, Pcs)
             /\ Cardinality(Undecided(hook)) = N(serving, hook, UndecidedPcs)
             /\ Cardinality({w \in Busy(hook) : serving[w].pc = "count"})
                  = N(serving, hook, {"count"})
  BY <1>1 DEF N
<1>7. ASSUME NEW hook \in Webhooks
      PROVE  Counted(hook, counters[hook], answered[hook], serving, begun[hook])
  BY DEF IInv
<1>8. OutcomesAddUp
  BY <1>6, <1>7 DEF OutcomesAddUp, Counted
<1>9. AnswersCounted
  <2> SUFFICES ASSUME NEW hook \in Webhooks
      PROVE  /\ answered[hook]["admitted"] <= counters[hook]["successful"]
             /\ answered[hook]["rejected"] <= counters[hook]["rejected"]
                  + Cardinality({w \in Busy(hook) : serving[w].pc = "count"})
             /\ answered[hook]["status"] <= counters[hook]["invalid"] + counters[hook]["errors"]
    BY DEF AnswersCounted
  <2>1. answered[hook] \in [Verdicts -> Nat] /\ counters[hook] \in [Metrics -> Nat]
    BY DEF IInv, Typed
  <2>2. Cardinality({w \in Busy(hook) : serving[w].pc = "count"}) = N(serving, hook, {"count"})
    BY <1>6
  <2>3. /\ answered[hook]["admitted"] <= counters[hook]["successful"]
        /\ answered[hook]["rejected"] <= counters[hook]["rejected"] + N(serving, hook, {"count"})
        /\ answered[hook]["status"] <= counters[hook]["invalid"] + counters[hook]["errors"]
    BY <1>2, <1>7, <2>1 DEF Counted
  <2> QED
    BY <2>2, <2>3
<1> QED
  BY <1>5, <1>8, <1>9

\* A process that has just started has counted nothing.
LEMMA InitIInv == Init => IInv
<1> SUFFICES ASSUME Init PROVE IInv
  OBVIOUS
<1>1. \A hook \in Webhooks, pcs \in SUBSET Pcs : Where(serving, hook, pcs) = {}
  BY DEF Where, In, Init
<1>2. \A hook \in Webhooks, pcs \in SUBSET Pcs : N(serving, hook, pcs) = 0
  BY <1>1, FS_EmptySet DEF N
<1>3. Typed
  <2>1. \A hook \in Webhooks : IsFiniteSet(Where(serving, hook, Pcs))
    <3>1. \A hook \in Webhooks : Where(serving, hook, Pcs) = {}
      BY <1>1
    <3> QED
      BY <3>1, FS_EmptySet
  <2>2. serving \in [Workers -> {Idle} \cup Call]
    BY DEF Init
  <2>3. counters \in [Webhooks -> [Metrics -> Nat]] /\ answered \in [Webhooks -> [Verdicts -> Nat]]
    BY DEF Init, NoCounts, NoAnswers
  <2>4. begun \in [Webhooks -> 0..MaxRequests]
    BY HandlersAssumption DEF Init
  <2> QED
    BY <2>1, <2>2, <2>3, <2>4 DEF Typed
<1>4. ASSUME NEW hook \in Webhooks
      PROVE  Counted(hook, counters[hook], answered[hook], serving, begun[hook])
  <2>1. /\ N(serving, hook, Pcs) = 0
        /\ N(serving, hook, UndecidedPcs) = 0
        /\ N(serving, hook, {"admitted"}) = 0
        /\ N(serving, hook, {"status"}) = 0
        /\ N(serving, hook, {"count"}) = 0
    BY <1>2 DEF Pcs, UndecidedPcs, Verdicts
  <2>2. /\ \A m \in Metrics : counters[hook][m] = 0
        /\ \A v \in Verdicts : answered[hook][v] = 0
        /\ begun[hook] = 0
    BY DEF Init, NoCounts, NoAnswers
  <2> QED
    BY <2>1, <2>2 DEF Counted, Metrics, Verdicts
<1> QED
  BY <1>3, <1>4 DEF IInv

LEMMA RestartIInv == Init' => IInv'
BY InitIInv, PTL

-----------------------------------------------------------------------------
(* The steps of a handler.                                                 *)

\* A handler that counts one metric and moves on.  Whatever it does to the
\* counters of its own webhook, it leaves those of the other alone.
LEMMA CountAndGo ==
  ASSUME IInv, NEW w \in Workers, NEW from \in Pcs, At(w, from), NEW to \in Pcs, Goto(w, to),
         NEW metric \in Metrics, Inc(Hook(w), metric), UNCHANGED <<begun, answered>>,
         \/ from = "received" /\ metric \in {"invalid", "errors"} /\ to = "status"
         \/ from = "received" /\ metric = "successful" /\ to = "admitted"
         \/ from = "count" /\ metric = "rejected" /\ to = "return"
  PROVE  IInv'
<1> USE DEF Pcs, UndecidedPcs, Verdicts, Metrics
<1>1. Typed
  BY DEF IInv
<1>2. /\ Hook(w) \in Webhooks
      /\ serving' \in [Workers -> {Idle} \cup Call]
      /\ \A hook \in Webhooks : IsFiniteSet(Where(serving', hook, Pcs))
      /\ \A hook \in Webhooks, pcs \in SUBSET Pcs :
           N(serving', hook, pcs) =
             N(serving, hook, pcs)
               + (IF hook = Hook(w) /\ to \in pcs THEN 1 ELSE 0)
               - (IF hook = Hook(w) /\ from \in pcs THEN 1 ELSE 0)
  BY <1>1, WentTo
<1>3. /\ counters' \in [Webhooks -> [Metrics -> Nat]]
      /\ \A h \in Webhooks, m \in Metrics :
           counters'[h][m] = counters[h][m] + (IF h = Hook(w) /\ m = metric THEN 1 ELSE 0)
  BY <1>1, <1>2, Incremented
<1>4. Typed'
  BY <1>1, <1>2, <1>3 DEF Typed
<1>5. ASSUME NEW hook \in Webhooks
      PROVE  Counted(hook, counters'[hook], answered'[hook], serving', begun'[hook])
  <2>1. /\ Counted(hook, counters[hook], answered[hook], serving, begun[hook])
        /\ answered' = answered /\ begun' = begun
        /\ counters[hook] \in [Metrics -> Nat]
        /\ answered[hook] \in [Verdicts -> Nat]
    BY DEF IInv, Typed
  <2>2. ASSUME NEW pcs \in {Pcs, UndecidedPcs, {"admitted"}, {"count"}, {"status"}}
        PROVE  /\ N(serving, hook, pcs) \in Nat
               /\ N(serving', hook, pcs) =
                    N(serving, hook, pcs)
                      + (IF hook = Hook(w) /\ to \in pcs THEN 1 ELSE 0)
                      - (IF hook = Hook(w) /\ from \in pcs THEN 1 ELSE 0)
    <3>1. pcs \in SUBSET Pcs
      OBVIOUS
    <3> QED
      BY <1>1, <1>2, <3>1, FewerRequests
  <2>3. ASSUME NEW pcs \in {Pcs, UndecidedPcs, {"admitted"}, {"count"}, {"status"}}, hook # Hook(w)
        PROVE  N(serving', hook, pcs) = N(serving, hook, pcs)
    BY <2>2, <2>3
  <2>4. CASE hook # Hook(w)
    <3>1. \A m \in Metrics : counters'[hook][m] = counters[hook][m]
      BY <1>3, <2>1, <2>4
    <3> QED
      BY <2>1, <2>3, <2>4, <3>1 DEF Counted
  <2>5. CASE hook = Hook(w)
    <3>1. \A m \in Metrics :
            counters'[hook][m] = counters[hook][m] + (IF m = metric THEN 1 ELSE 0)
      BY <1>3, <2>5
    <3>2. /\ N(serving', hook, Pcs) = N(serving, hook, Pcs)
          /\ N(serving', hook, UndecidedPcs) = N(serving, hook, UndecidedPcs) - 1
          /\ N(serving', hook, {"admitted"})
               = N(serving, hook, {"admitted"}) + (IF to = "admitted" THEN 1 ELSE 0)
          /\ N(serving', hook, {"status"})
               = N(serving, hook, {"status"}) + (IF to = "status" THEN 1 ELSE 0)
          /\ N(serving', hook, {"count"})
               = N(serving, hook, {"count"}) - (IF from = "count" THEN 1 ELSE 0)
      BY <2>2, <2>5
    <3> QED
      BY <2>1, <2>2, <3>1, <3>2 DEF Counted
  <2> QED
    BY <2>4, <2>5
<1> QED
  BY <1>4, <1>5 DEF IInv

\* A rejected App is not counted yet.
LEMMA RejectIInv ==
  ASSUME IInv, NEW w \in Workers, Reject(w)
  PROVE  IInv'
<1> USE DEF Pcs, UndecidedPcs, Verdicts
<1>1. /\ Typed /\ At(w, "received") /\ Goto(w, "rejected")
      /\ UNCHANGED <<counters, begun, answered>>
  BY DEF IInv, Reject
<1>2. /\ serving' \in [Workers -> {Idle} \cup Call]
      /\ \A hook \in Webhooks : IsFiniteSet(Where(serving', hook, Pcs))
      /\ \A hook \in Webhooks, pcs \in SUBSET Pcs :
           N(serving', hook, pcs) =
             N(serving, hook, pcs)
               + (IF hook = Hook(w) /\ "rejected" \in pcs THEN 1 ELSE 0)
               - (IF hook = Hook(w) /\ "received" \in pcs THEN 1 ELSE 0)
  BY <1>1, WentTo
<1>3. Typed'
  BY <1>1, <1>2 DEF Typed
<1>4. ASSUME NEW hook \in Webhooks
      PROVE  Counted(hook, counters[hook], answered[hook], serving', begun[hook])
  <2>1. Counted(hook, counters[hook], answered[hook], serving, begun[hook])
    BY DEF IInv
  <2>2. ASSUME NEW pcs \in {Pcs, UndecidedPcs, {"admitted"}, {"count"}, {"status"}}
        PROVE  N(serving', hook, pcs) = N(serving, hook, pcs)
    <3>1. pcs \in SUBSET Pcs /\ ("rejected" \in pcs <=> "received" \in pcs)
      OBVIOUS
    <3>2. N(serving, hook, pcs) \in Nat
      BY <1>1, <3>1, FewerRequests
    <3> QED
      BY <1>2, <3>1, <3>2
  <2> QED
    BY <2>1, <2>2 DEF Counted
<1> QED
  BY <1>1, <1>3, <1>4 DEF IInv

\* An answer is received when it has been counted, unless it is a rejection.
LEMMA WriteResponseIInv ==
  ASSUME IInv, NEW w \in Workers, WriteResponse(w)
  PROVE  IInv'
<1> USE DEF Pcs, UndecidedPcs, Verdicts
<1> DEFINE from == serving[w].pc
           to == AfterAnswer(from)
<1>1. /\ Typed /\ from \in Verdicts /\ At(w, from) /\ Goto(w, to)
      /\ UNCHANGED <<counters, begun>>
      /\ \/ answered' = [answered EXCEPT ![Hook(w)][from] = @ + 1]
         \/ UNCHANGED answered
  BY DEF IInv, WriteResponse, At
<1>2. to = (IF from = "rejected" THEN "count" ELSE "return") /\ from \in Pcs /\ to \in Pcs
  BY <1>1 DEF AfterAnswer
<1> HIDE DEF from, to
<1>3. /\ Hook(w) \in Webhooks
      /\ serving' \in [Workers -> {Idle} \cup Call]
      /\ \A hook \in Webhooks : IsFiniteSet(Where(serving', hook, Pcs))
      /\ \A hook \in Webhooks, pcs \in SUBSET Pcs :
           N(serving', hook, pcs) =
             N(serving, hook, pcs)
               + (IF hook = Hook(w) /\ to \in pcs THEN 1 ELSE 0)
               - (IF hook = Hook(w) /\ from \in pcs THEN 1 ELSE 0)
  BY <1>1, <1>2, WentTo
<1>4. /\ answered' \in [Webhooks -> [Verdicts -> Nat]]
      /\ \A hook \in Webhooks, v \in Verdicts :
           /\ answered'[hook][v] >= answered[hook][v]
           /\ answered'[hook][v] <=
                answered[hook][v] + (IF hook = Hook(w) /\ v = from THEN 1 ELSE 0)
  <2>1. CASE UNCHANGED answered
    BY <1>1, <2>1 DEF Typed
  <2>2. CASE answered' = [answered EXCEPT ![Hook(w)][from] = @ + 1]
    <3>1. /\ answered[Hook(w)] \in [Verdicts -> Nat]
          /\ answered' = [answered EXCEPT ![Hook(w)] =
                            [answered[Hook(w)] EXCEPT ![from] = answered[Hook(w)][from] + 1]]
      BY <1>1, <1>3, <2>2 DEF Typed
    <3>2. /\ answered' \in [Webhooks -> [Verdicts -> Nat]]
          /\ \A hook \in Webhooks, v \in Verdicts :
               answered'[hook][v] =
                 answered[hook][v] + (IF hook = Hook(w) /\ v = from THEN 1 ELSE 0)
      BY <1>1, <1>3, <3>1 DEF Typed
    <3>3. \A hook \in Webhooks, v \in Verdicts : answered[hook][v] \in Nat
      BY <1>1 DEF Typed
    <3> QED
      BY <3>2, <3>3
  <2> QED
    BY <1>1, <2>1, <2>2
<1>5. Typed'
  BY <1>1, <1>3, <1>4 DEF Typed
<1>6. ASSUME NEW hook \in Webhooks
      PROVE  Counted(hook, counters[hook], answered'[hook], serving', begun[hook])
  <2>1. /\ Counted(hook, counters[hook], answered[hook], serving, begun[hook])
        /\ counters[hook] \in [Metrics -> Nat]
        /\ answered[hook] \in [Verdicts -> Nat]
        /\ answered'[hook] \in [Verdicts -> Nat]
    BY <1>1, <1>4 DEF IInv, Typed
  <2>2. ASSUME NEW pcs \in {Pcs, UndecidedPcs, {"admitted"}, {"count"}, {"status"}}
        PROVE  /\ N(serving, hook, pcs) \in Nat
               /\ N(serving', hook, pcs) =
                    N(serving, hook, pcs)
                      + (IF hook = Hook(w) /\ to \in pcs THEN 1 ELSE 0)
                      - (IF hook = Hook(w) /\ from \in pcs THEN 1 ELSE 0)
    <3>1. pcs \in SUBSET Pcs
      OBVIOUS
    <3> QED
      BY <1>1, <1>3, <3>1, FewerRequests
  <2>3. \A v \in Verdicts :
          answered'[hook][v] <= answered[hook][v] + (IF hook = Hook(w) /\ v = from THEN 1 ELSE 0)
    BY <1>4
  <2>4. /\ N(serving', hook, Pcs) = N(serving, hook, Pcs)
        /\ N(serving', hook, UndecidedPcs) = N(serving, hook, UndecidedPcs)
        /\ N(serving', hook, {"admitted"}) = N(serving, hook, {"admitted"})
             - (IF hook = Hook(w) /\ from = "admitted" THEN 1 ELSE 0)
        /\ N(serving', hook, {"status"}) = N(serving, hook, {"status"})
             - (IF hook = Hook(w) /\ from = "status" THEN 1 ELSE 0)
        /\ N(serving', hook, {"count"}) = N(serving, hook, {"count"})
             + (IF hook = Hook(w) /\ from = "rejected" THEN 1 ELSE 0)
    BY <1>1, <1>2, <2>2
  <2> QED
    BY <2>1, <2>2, <2>3, <2>4 DEF Counted, Metrics
<1> QED
  BY <1>1, <1>5, <1>6 DEF IInv

\* A request that is over has a duration.
LEMMA ReturnIInv ==
  ASSUME IInv, NEW w \in Workers, Return(w)
  PROVE  IInv'
<1> USE DEF Pcs, UndecidedPcs, Verdicts, Metrics
<1>1. /\ Typed /\ At(w, "return") /\ Inc(Hook(w), "duration")
      /\ serving' = [serving EXCEPT ![w] = Idle]
      /\ UNCHANGED <<begun, answered>>
  BY DEF IInv, Return
<1>2. /\ serving[w] \in Call /\ serving[w] # Idle
      /\ Hook(w) \in Webhooks /\ serving[w].pc = "return" /\ serving[w].hook = Hook(w)
  BY <1>1 DEF Typed, At, Idle, Call, Hook
<1>3. /\ counters' \in [Webhooks -> [Metrics -> Nat]]
      /\ \A h \in Webhooks, m \in Metrics :
           counters'[h][m] = counters[h][m] + (IF h = Hook(w) /\ m = "duration" THEN 1 ELSE 0)
  BY <1>1, <1>2, Incremented
<1>4. ASSUME NEW hook \in Webhooks, NEW pcs \in SUBSET Pcs
      PROVE  /\ IsFiniteSet(Where(serving', hook, pcs))
             /\ N(serving', hook, pcs) =
                  N(serving, hook, pcs) - (IF hook = Hook(w) /\ "return" \in pcs THEN 1 ELSE 0)
  <2>1. ~In(Idle, hook, pcs) /\ (In(serving[w], hook, pcs) <=> hook = Hook(w) /\ "return" \in pcs)
    BY <1>2 DEF In
  <2>2. N(serving, hook, pcs) \in Nat
    BY <1>1, FewerRequests
  <2>3. /\ IsFiniteSet(Where(serving', hook, pcs))
        /\ N(serving', hook, pcs) =
             N(serving, hook, pcs)
               + (IF In(Idle, hook, pcs) THEN 1 ELSE 0)
               - (IF In(serving[w], hook, pcs) THEN 1 ELSE 0)
    BY <1>1, Moved
  <2> QED
    BY <2>1, <2>2, <2>3
<1>5. Typed'
  BY <1>1, <1>3, <1>4 DEF Typed
<1>6. ASSUME NEW hook \in Webhooks
      PROVE  Counted(hook, counters'[hook], answered[hook], serving', begun[hook])
  <2>1. /\ Counted(hook, counters[hook], answered[hook], serving, begun[hook])
        /\ counters[hook] \in [Metrics -> Nat]
    BY DEF IInv, Typed
  <2>2. /\ N(serving', hook, Pcs) = N(serving, hook, Pcs) - (IF hook = Hook(w) THEN 1 ELSE 0)
        /\ N(serving, hook, Pcs) \in Nat
    BY <1>1, <1>4, FewerRequests
  <2>3. ASSUME NEW pcs \in {UndecidedPcs, {"admitted"}, {"count"}, {"status"}}
        PROVE  N(serving', hook, pcs) = N(serving, hook, pcs)
    <3>1. pcs \in SUBSET Pcs /\ "return" \notin pcs
      OBVIOUS
    <3>2. N(serving, hook, pcs) \in Nat
      BY <1>1, <3>1, FewerRequests
    <3>3. N(serving', hook, pcs) =
            N(serving, hook, pcs) - (IF hook = Hook(w) /\ "return" \in pcs THEN 1 ELSE 0)
      BY <1>4, <3>1
    <3> QED
      BY <3>1, <3>2, <3>3
  <2>4. \A m \in Metrics :
          counters'[hook][m] = counters[hook][m] + (IF hook = Hook(w) /\ m = "duration" THEN 1 ELSE 0)
    BY <1>3
  <2> QED
    BY <2>1, <2>2, <2>3, <2>4 DEF Counted
<1> QED
  BY <1>1, <1>5, <1>6 DEF IInv

\* A request that arrives is undecided.
LEMMA BeginIInv ==
  ASSUME IInv, NEW w \in Workers, NEW h \in Webhooks, Begin(w, h)
  PROVE  IInv'
<1> USE DEF Pcs, UndecidedPcs, Verdicts, Metrics
<1> DEFINE c == [pc |-> "received", hook |-> h]
<1>1. /\ Typed /\ At(w, "idle") /\ begun[h] < MaxRequests
      /\ serving' = [serving EXCEPT ![w] = c]
      /\ begun' = [begun EXCEPT ![h] = begun[h] + 1]
      /\ IF h = "mutating" THEN Inc(h, "total") ELSE UNCHANGED counters
      /\ UNCHANGED answered
  BY DEF IInv, Begin
<1>2. c \in Call /\ c # Idle /\ c.pc = "received" /\ c.hook = h
  BY DEF Call, Idle
<1> HIDE DEF c
<1>3. serving[w] = Idle
  BY <1>1 DEF Typed, At, Call
<1>4. /\ counters' \in [Webhooks -> [Metrics -> Nat]]
      /\ \A k \in Webhooks, m \in Metrics :
           counters'[k][m] =
             counters[k][m] + (IF k = h /\ h = "mutating" /\ m = "total" THEN 1 ELSE 0)
  <2>1. CASE h = "mutating"
    <3>1. Inc(h, "total")
      BY <1>1, <2>1
    <3>2. /\ counters' \in [Webhooks -> [Metrics -> Nat]]
          /\ \A k \in Webhooks, m \in Metrics :
               counters'[k][m] = counters[k][m] + (IF k = h /\ m = "total" THEN 1 ELSE 0)
      BY <1>1, <3>1, Incremented
    <3> QED
      BY <2>1, <3>2
  <2>2. CASE h # "mutating"
    BY <1>1, <2>2 DEF Typed
  <2> QED
    BY <2>1, <2>2
<1>5. ASSUME NEW hook \in Webhooks, NEW pcs \in SUBSET Pcs
      PROVE  /\ IsFiniteSet(Where(serving', hook, pcs))
             /\ N(serving, hook, pcs) \in Nat
             /\ N(serving', hook, pcs) =
                  N(serving, hook, pcs) + (IF hook = h /\ "received" \in pcs THEN 1 ELSE 0)
  <2>1. ~In(serving[w], hook, pcs) /\ (In(c, hook, pcs) <=> hook = h /\ "received" \in pcs)
    BY <1>2, <1>3 DEF In
  <2>2. N(serving, hook, pcs) \in Nat
    BY <1>1, FewerRequests
  <2>3. /\ IsFiniteSet(Where(serving', hook, pcs))
        /\ N(serving', hook, pcs) =
             N(serving, hook, pcs)
               + (IF In(c, hook, pcs) THEN 1 ELSE 0)
               - (IF In(serving[w], hook, pcs) THEN 1 ELSE 0)
    BY <1>1, <1>2, Moved
  <2> QED
    BY <2>1, <2>2, <2>3
<1>6. begun' \in [Webhooks -> 0..MaxRequests]
  BY <1>1, HandlersAssumption DEF Typed
<1>7. Typed'
  BY <1>1, <1>2, <1>4, <1>5, <1>6 DEF Typed
<1>8. ASSUME NEW hook \in Webhooks
      PROVE  Counted(hook, counters'[hook], answered[hook], serving', begun'[hook])
  <2>1. /\ Counted(hook, counters[hook], answered[hook], serving, begun[hook])
        /\ counters[hook] \in [Metrics -> Nat]
        /\ begun[hook] \in Nat
        /\ begun'[hook] = begun[hook] + (IF hook = h THEN 1 ELSE 0)
    BY <1>1, HandlersAssumption DEF IInv, Typed
  <2>2. ASSUME NEW pcs \in {Pcs, UndecidedPcs}
        PROVE  /\ N(serving', hook, pcs) = N(serving, hook, pcs) + (IF hook = h THEN 1 ELSE 0)
               /\ N(serving, hook, pcs) \in Nat
    <3>1. pcs \in SUBSET Pcs /\ "received" \in pcs
      OBVIOUS
    <3> QED
      BY <1>5, <3>1
  <2>3. ASSUME NEW pcs \in {{"admitted"}, {"count"}, {"status"}}
        PROVE  N(serving', hook, pcs) = N(serving, hook, pcs)
    <3>1. pcs \in SUBSET Pcs /\ "received" \notin pcs
      OBVIOUS
    <3> QED
      BY <1>5, <3>1
  <2>4. \A m \in Metrics :
          counters'[hook][m] =
            counters[hook][m] + (IF hook = h /\ h = "mutating" /\ m = "total" THEN 1 ELSE 0)
    BY <1>4
  <2>5. CASE hook = h
    BY <2>1, <2>2, <2>3, <2>4, <2>5 DEF Counted
  <2>6. CASE hook # h
    BY <2>1, <2>2, <2>3, <2>4, <2>6 DEF Counted
  <2> QED
    BY <2>5, <2>6
<1> QED
  BY <1>1, <1>7, <1>8 DEF IInv

\* Every step preserves the invariant.
LEMMA NextIInv == IInv /\ [Next]_vars => IInv'
<1> SUFFICES ASSUME IInv, [Next]_vars PROVE IInv'
  OBVIOUS
<1> USE DEF Pcs, Verdicts, Metrics
<1>1. ASSUME NEW w \in Workers, NEW hook \in Webhooks, Begin(w, hook) PROVE IInv'
  BY <1>1, BeginIInv
<1>2. ASSUME NEW w \in Workers, Invalid(w) PROVE IInv'
  BY <1>2, CountAndGo DEF Invalid
<1>3. ASSUME NEW w \in Workers, ReadingFails(w) PROVE IInv'
  BY <1>3, CountAndGo DEF ReadingFails
<1>4. ASSUME NEW w \in Workers, Admit(w) PROVE IInv'
  BY <1>4, CountAndGo DEF Admit
<1>5. ASSUME NEW w \in Workers, Reject(w) PROVE IInv'
  BY <1>5, RejectIInv
<1>6. ASSUME NEW w \in Workers, WriteResponse(w) PROVE IInv'
  BY <1>6, WriteResponseIInv
<1>7. ASSUME NEW w \in Workers, CountRejected(w) PROVE IInv'
  BY <1>7, CountAndGo DEF CountRejected
<1>8. ASSUME NEW w \in Workers, Return(w) PROVE IInv'
  BY <1>8, ReturnIInv
<1>9. CASE Restart
  BY <1>9, RestartIInv DEF Restart, Init
<1>10. CASE UNCHANGED vars
  BY <1>10 DEF vars, IInv, Typed
<1> QED
  BY <1>1, <1>2, <1>3, <1>4, <1>5, <1>6, <1>7, <1>8, <1>9, <1>10 DEF Next, Handle

LEMMA IInvHolds == Spec => []IInv
BY InitIInv, NextIInv, PTL DEF Spec

\* Type correctness: no counter ever exceeds the number of requests of its
\* webhook, so none is incremented twice for one request.
THEOREM TypeCorrect == Spec => []TypeOK
BY IInvHolds, Bounded, PTL

\* Every request of a webhook counts in exactly one outcome or is not decided
\* yet, and has a duration or is being served, whatever the interleaving of
\* the handlers, lost connections and restarts (pkg/metrics).
THEOREM OutcomesAddUpHolds == Spec => []OutcomesAddUp
BY IInvHolds, Bounded, PTL

\* No answer is received that is not counted, but for rejections, which may be
\* received just before (handler.go of both webhooks).
THEOREM AnswersCountedHolds == Spec => []AnswersCounted
BY IInvHolds, Bounded, PTL

=============================================================================
