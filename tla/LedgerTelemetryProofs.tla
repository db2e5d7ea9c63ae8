------------------------ MODULE LedgerTelemetryProofs ------------------------
(***************************************************************************)
(* The counters of the ledger process agree with the answers it gives and  *)
(* with what it has committed, for any number of calls.  A handler that    *)
(* panics keeps IndInv too: it ends as one that fails does.                *)
(*                                                                         *)
(* Four lemmas show what a kind of step does to the counted sets; which    *)
(* kind each action is of is all that is then left to say.                 *)
(***************************************************************************)
EXTENDS LedgerTelemetry, LedgerRefinementProofs

-----------------------------------------------------------------------------
(* Counting.                                                               *)

\* One more element counts one more.
LEMMA OneMore ==
    ASSUME IsFiniteSet(Call), NEW S \in SUBSET Call, NEW x, x \notin S
    PROVE  /\ Cardinality(S) \in Nat
           /\ Cardinality(S \cup {x}) = Cardinality(S) + 1
BY FS_Subset, FS_AddElement, FS_CardinalityType

\* A set of calls has a size, and a larger set no smaller one.
LEMMA Sizes ==
    ASSUME IsFiniteSet(Call), NEW S \in SUBSET Call, NEW T \in SUBSET S
    PROVE  /\ Cardinality(S) \in Nat /\ Cardinality(T) \in Nat
           /\ Cardinality(T) <= Cardinality(S)
BY FS_Subset, FS_CardinalityType

\* Disjoint sets count apart.
LEMMA Apart ==
    ASSUME IsFiniteSet(Call), NEW S \in SUBSET Call, NEW T \in SUBSET Call,
           S \cap T = {}
    PROVE  Cardinality(S \cup T) = Cardinality(S) + Cardinality(T)
<1>1. IsFiniteSet(S) /\ IsFiniteSet(T)
  BY FS_Subset
<1>2. /\ Cardinality(S \cup T) =
            Cardinality(S) + Cardinality(T) - Cardinality(S \cap T)
      /\ Cardinality(S) \in Nat /\ Cardinality(T) \in Nat
  BY <1>1, FS_Union, FS_CardinalityType
<1>3. Cardinality(S \cap T) = 0
  BY FS_EmptySet
<1>4. QED
  BY <1>2, <1>3

\* The counted sets are sets of calls.
LEMMA CountedSets ==
    /\ \A code : Sent(code) \in SUBSET Call /\ Answered(code) \in SUBSET Call
    /\ Posted \in SUBSET Call /\ Replayed \in SUBSET Call
    /\ Recovered \in SUBSET Call
BY DEF Sent, Answered, Posted, Replayed, Recovered

-----------------------------------------------------------------------------
(* What the steps of a call do to the counted sets.                        *)

\* A step of handlers that have not returned counts nothing.
LEMMA QuietCounts ==
    ASSUME StageInv, CountInv, stage' = stage, metrics' = metrics,
           \A d \in Call : stage[d] # "handler" =>
              answer'[d] = answer[d] /\ (d \in Committed' <=> d \in Committed)
    PROVE  CountInv'
<1>1. \A code : Sent(code)' = Sent(code) /\ Answered(code)' = Answered(code)
  BY DEF Sent, Answered
<1>2. Posted' = Posted /\ Replayed' = Replayed
  <2>1. \A d \in Answered("OK") : answer'[d] = answer[d]
    BY DEF Answered
  <2>2. QED
    BY <1>1, <2>1 DEF Posted, Replayed
<1>3. /\ (Recovered \cap Committed)' = Recovered \cap Committed
      /\ (Recovered \ Committed)' = Recovered \ Committed
  BY DEF Recovered
<1>4. QED
  BY <1>1, <1>2, <1>3 DEF CountInv

\* A handler returns an answer: a success is a posting or a replay and is
\* counted as that, an error of the database is counted once or twice.
LEMMA ReturnCounts ==
    ASSUME IsFiniteSet(Call), StageInv, CountInv,
           NEW c \in Call, NEW a \in Answer, stage[c] = "handler",
           a.code \in Counted,
           stage' = [stage EXCEPT ![c] = "returned"],
           answer \in [Call -> Answer],
           answer' = [answer EXCEPT ![c] = a],
           transactions' = transactions,
           metrics' \in Metrics,
           metrics'.RequestTotal = metrics.RequestTotal,
           metrics'.TxPostedTotal = metrics.TxPostedTotal
              + (IF a.code = "OK" /\ a.tx = c THEN 1 ELSE 0),
           metrics'.IdempotencyReplay = metrics.IdempotencyReplay
              + (IF a.code = "OK" /\ a.tx # c THEN 1 ELSE 0),
           IF a.code = "Internal"
           THEN metrics'.DBErrorTotal \in {metrics.DBErrorTotal + 1,
                                           metrics.DBErrorTotal + 2}
           ELSE metrics'.DBErrorTotal = metrics.DBErrorTotal
    PROVE  CountInv'
<1>1. \A code : /\ c \notin Sent(code) /\ c \notin Answered(code)
  BY DEF Sent, Answered
<1>2. c \notin Posted /\ c \notin Replayed /\ c \notin Recovered
  BY <1>1 DEF Posted, Replayed, Recovered
<1>3. /\ stage'[c] = "returned" /\ answer'[c] = a
      /\ \A d \in Call \ {c} : stage'[d] = stage[d] /\ answer'[d] = answer[d]
  BY DEF StageInv
<1>4. \A code : Sent(code)' = Sent(code)
  BY <1>1, <1>3 DEF Sent
<1>5. \A code : Answered(code)' = IF a.code = code THEN Answered(code) \cup {c}
                                                  ELSE Answered(code)
  BY <1>1, <1>3 DEF Answered
<1>6. Posted' = IF a.code = "OK" /\ a.tx = c THEN Posted \cup {c} ELSE Posted
  BY <1>1, <1>3, <1>5 DEF Posted, Answered
<1>7. Replayed' = IF a.code = "OK" /\ a.tx # c THEN Replayed \cup {c}
                                               ELSE Replayed
  BY <1>1, <1>3, <1>5 DEF Replayed, Answered
<1>8. Recovered' = Recovered /\ Committed' = Committed
  BY <1>3 DEF Recovered, Committed
<1> DEFINE PR == Posted \cup (Recovered \cap Committed)
           RR == Replayed \cup (Recovered \ Committed)
           ER == Answered("Internal") \cup Recovered
<1>9. /\ PR \in SUBSET Call /\ RR \in SUBSET Call /\ ER \in SUBSET Call
      /\ c \notin PR /\ c \notin RR /\ c \notin ER
  BY <1>1, <1>2, CountedSets
<1>10. /\ PR' = IF a.code = "OK" /\ a.tx = c THEN PR \cup {c} ELSE PR
       /\ RR' = IF a.code = "OK" /\ a.tx # c THEN RR \cup {c} ELSE RR
       /\ ER' = IF a.code = "Internal" THEN ER \cup {c} ELSE ER
  BY <1>5, <1>6, <1>7, <1>8
<1>11. /\ metrics \in Metrics
       /\ Cardinality(Posted) <= metrics.TxPostedTotal
       /\ metrics.TxPostedTotal <= Cardinality(PR)
       /\ Cardinality(Replayed) <= metrics.IdempotencyReplay
       /\ metrics.IdempotencyReplay <= Cardinality(RR)
       /\ Cardinality(Answered("Internal")) <= metrics.DBErrorTotal
       /\ metrics.DBErrorTotal <= 2 * Cardinality(ER)
  BY DEF CountInv
<1>12. SUFFICES
       /\ Cardinality(Posted') <= metrics'.TxPostedTotal
       /\ metrics'.TxPostedTotal <= Cardinality(PR')
       /\ Cardinality(Replayed') <= metrics'.IdempotencyReplay
       /\ metrics'.IdempotencyReplay <= Cardinality(RR')
       /\ Cardinality(Answered("Internal")') <= metrics'.DBErrorTotal
       /\ metrics'.DBErrorTotal <= 2 * Cardinality(ER')
  BY <1>4 DEF CountInv
<1> HIDE DEF PR, RR, ER
<1>13. /\ Cardinality(Posted) \in Nat /\ Cardinality(Replayed) \in Nat
       /\ Cardinality(PR) \in Nat /\ Cardinality(RR) \in Nat
       /\ Cardinality(Answered("Internal")) \in Nat
       /\ Cardinality(ER) \in Nat
       /\ Cardinality(ER \cup {c}) = Cardinality(ER) + 1
       /\ Cardinality(Posted \cup {c}) = Cardinality(Posted) + 1
       /\ Cardinality(Replayed \cup {c}) = Cardinality(Replayed) + 1
       /\ Cardinality(PR \cup {c}) = Cardinality(PR) + 1
       /\ Cardinality(RR \cup {c}) = Cardinality(RR) + 1
       /\ Cardinality(Answered("Internal") \cup {c}) =
             Cardinality(Answered("Internal")) + 1
  BY <1>1, <1>2, <1>9, CountedSets, OneMore
<1>14. /\ metrics.TxPostedTotal \in Nat /\ metrics.IdempotencyReplay \in Nat
       /\ metrics.DBErrorTotal \in Nat
  BY <1>11 DEF Metrics
<1>15. /\ Cardinality(Posted') <= metrics'.TxPostedTotal
       /\ metrics'.TxPostedTotal <= Cardinality(PR')
  BY <1>6, <1>10, <1>11, <1>13, <1>14
<1>16. /\ Cardinality(Replayed') <= metrics'.IdempotencyReplay
       /\ metrics'.IdempotencyReplay <= Cardinality(RR')
  BY <1>7, <1>10, <1>11, <1>13, <1>14
<1>17. /\ Cardinality(Answered("Internal")') <= metrics'.DBErrorTotal
       /\ metrics'.DBErrorTotal <= 2 * Cardinality(ER')
  <2>1. CASE a.code = "Internal"
    <3>1. /\ Answered("Internal")' = Answered("Internal") \cup {c}
          /\ ER' = ER \cup {c}
      BY <1>5, <1>10, <2>1
    <3>2. /\ Cardinality(Answered("Internal")') =
                Cardinality(Answered("Internal")) + 1
          /\ Cardinality(ER') = Cardinality(ER) + 1
      BY <1>13, <3>1
    <3>3. \/ metrics'.DBErrorTotal = metrics.DBErrorTotal + 1
          \/ metrics'.DBErrorTotal = metrics.DBErrorTotal + 2
      BY <2>1
    <3>4. ASSUME NEW n \in Nat, NEW m \in Nat, NEW e \in Nat, NEW f \in Nat,
                 n <= e, e <= 2 * m, f = e + 1 \/ f = e + 2
          PROVE  n + 1 <= f /\ f <= 2 * (m + 1)
      BY <3>4
    <3>5. metrics'.DBErrorTotal \in Nat
      BY DEF Metrics
    <3>6. QED
      BY <1>11, <1>13, <1>14, <3>2, <3>3, <3>4, <3>5
  <2>2. CASE a.code # "Internal"
    <3>1. Answered("Internal")' = Answered("Internal") /\ ER' = ER
      BY <1>5, <1>10, <2>2
    <3>2. QED
      BY <1>11, <2>2, <3>1
  <2>3. QED
    BY <2>1, <2>2
<1>18. QED
  BY <1>15, <1>16, <1>17

\* A handler panics: a success it has counted has been committed, a replay
\* it has counted has not been committed by itself, and an error it has counted
\* is one of at most two.
LEMMA PanicCounts ==
    ASSUME IsFiniteSet(Call), StageInv, CountInv,
           NEW c \in Call, stage[c] = "handler",
           stage' = [stage EXCEPT ![c] = "recovered"],
           \A d \in Call \ {c} : answer'[d] = answer[d],
           transactions' = transactions,
           metrics' \in Metrics,
           metrics'.RequestTotal = metrics.RequestTotal,
           metrics'.DBErrorTotal \in metrics.DBErrorTotal ..
                                      metrics.DBErrorTotal + 2,
           metrics'.TxPostedTotal = metrics.TxPostedTotal
              \/ /\ metrics'.TxPostedTotal = metrics.TxPostedTotal + 1
                 /\ c \in Committed,
           metrics'.IdempotencyReplay = metrics.IdempotencyReplay
              \/ /\ metrics'.IdempotencyReplay = metrics.IdempotencyReplay + 1
                 /\ c \notin Committed
    PROVE  CountInv'
<1>1. \A code : /\ c \notin Sent(code) /\ c \notin Answered(code)
  BY DEF Sent, Answered
<1>2. c \notin Posted /\ c \notin Replayed /\ c \notin Recovered
  BY <1>1 DEF Posted, Replayed, Recovered
<1>3. stage'[c] = "recovered" /\ \A d \in Call \ {c} : stage'[d] = stage[d]
  BY DEF StageInv
<1>4. \A code : Sent(code)' = Sent(code) /\ Answered(code)' = Answered(code)
  BY <1>1, <1>3 DEF Sent, Answered
<1>5. Posted' = Posted /\ Replayed' = Replayed
  <2>1. \A d \in Answered("OK") : answer'[d] = answer[d]
    BY <1>1 DEF Answered
  <2>2. QED
    BY <1>4, <2>1 DEF Posted, Replayed
<1>6. Recovered' = Recovered \cup {c} /\ Committed' = Committed
  BY <1>3 DEF Recovered, Committed
<1> DEFINE PR == Posted \cup (Recovered \cap Committed)
           RR == Replayed \cup (Recovered \ Committed)
           ER == Answered("Internal") \cup Recovered
<1>7. /\ PR \in SUBSET Call /\ RR \in SUBSET Call /\ ER \in SUBSET Call
      /\ c \notin PR /\ c \notin RR /\ c \notin ER
  BY <1>1, <1>2, CountedSets
<1>8. /\ PR' = IF c \in Committed THEN PR \cup {c} ELSE PR
      /\ RR' = IF c \notin Committed THEN RR \cup {c} ELSE RR
      /\ ER' = ER \cup {c}
  BY <1>4, <1>5, <1>6
<1>9. /\ metrics \in Metrics
      /\ Cardinality(Posted) <= metrics.TxPostedTotal
      /\ metrics.TxPostedTotal <= Cardinality(PR)
      /\ Cardinality(Replayed) <= metrics.IdempotencyReplay
      /\ metrics.IdempotencyReplay <= Cardinality(RR)
      /\ Cardinality(Answered("Internal")) <= metrics.DBErrorTotal
      /\ metrics.DBErrorTotal <= 2 * Cardinality(ER)
  BY DEF CountInv
<1>10. SUFFICES /\ Cardinality(Posted) <= metrics'.TxPostedTotal
                /\ metrics'.TxPostedTotal <= Cardinality(PR')
                /\ Cardinality(Replayed) <= metrics'.IdempotencyReplay
                /\ metrics'.IdempotencyReplay <= Cardinality(RR')
                /\ Cardinality(Answered("Internal")) <= metrics'.DBErrorTotal
                /\ metrics'.DBErrorTotal <= 2 * Cardinality(ER')
  BY <1>4, <1>5 DEF CountInv
<1> HIDE DEF PR, RR, ER
<1>11. /\ Cardinality(Posted) \in Nat /\ Cardinality(Replayed) \in Nat
       /\ Cardinality(PR) \in Nat /\ Cardinality(RR) \in Nat
       /\ Cardinality(ER) \in Nat /\ Cardinality(Answered("Internal")) \in Nat
       /\ Cardinality(PR \cup {c}) = Cardinality(PR) + 1
       /\ Cardinality(RR \cup {c}) = Cardinality(RR) + 1
       /\ Cardinality(ER \cup {c}) = Cardinality(ER) + 1
  BY <1>2, <1>7, CountedSets, OneMore
<1>12. /\ metrics.TxPostedTotal \in Nat /\ metrics.IdempotencyReplay \in Nat
       /\ metrics.DBErrorTotal \in Nat
  BY <1>9 DEF Metrics
<1>13. /\ Cardinality(Posted) <= metrics'.TxPostedTotal
       /\ metrics'.TxPostedTotal <= Cardinality(PR')
       /\ Cardinality(Replayed) <= metrics'.IdempotencyReplay
       /\ metrics'.IdempotencyReplay <= Cardinality(RR')
  BY <1>8, <1>9, <1>11, <1>12
<1>14. /\ Cardinality(Answered("Internal")) <= metrics'.DBErrorTotal
       /\ metrics'.DBErrorTotal <= 2 * Cardinality(ER')
  <2>1. ASSUME NEW n \in Nat, NEW m \in Nat, NEW e \in Nat,
               NEW f \in e .. e + 2, n <= e, e <= 2 * m
        PROVE  n <= f /\ f <= 2 * (m + 1)
    BY <2>1
  <2>2. Cardinality(ER') = Cardinality(ER) + 1
    BY <1>8, <1>11
  <2>3. QED
    BY <1>9, <1>11, <1>12, <2>1, <2>2
<1>15. QED
  BY <1>13, <1>14

\* The interceptors send an answer and count it under its code.
LEMMA SentCounts ==
    ASSUME IsFiniteSet(Call), StageInv, CountInv, NEW c \in Call, Intercept(c)
    PROVE  CountInv'
<1>1. /\ stage[c] = "returned" /\ stage'[c] = "sent"
      /\ \A d \in Call \ {c} : stage'[d] = stage[d]
      /\ answer' = answer /\ transactions' = transactions
      /\ answer[c].code \in Counted
  BY DEF Intercept, StageInv, vars, tables
<1>2. /\ metrics \in Metrics
      /\ metrics' = [metrics EXCEPT !.RequestTotal[answer[c].code] = @ + 1]
  BY DEF Intercept, CountInv
<1>3. /\ metrics' \in Metrics
      /\ metrics'.TxPostedTotal = metrics.TxPostedTotal
      /\ metrics'.IdempotencyReplay = metrics.IdempotencyReplay
      /\ metrics'.DBErrorTotal = metrics.DBErrorTotal
      /\ \A code \in Counted : metrics'.RequestTotal[code] =
            metrics.RequestTotal[code] + (IF code = answer[c].code THEN 1 ELSE 0)
  BY <1>1, <1>2 DEF Metrics
<1>4. \A code : Answered(code)' = Answered(code)
  BY <1>1 DEF Answered
<1>5. Posted' = Posted /\ Replayed' = Replayed
  BY <1>1, <1>4 DEF Posted, Replayed
<1>6. Recovered' = Recovered /\ Committed' = Committed
  BY <1>1 DEF Recovered, Committed
<1>7. ASSUME NEW code \in Counted
      PROVE  metrics'.RequestTotal[code] = Cardinality(Sent(code)')
  <2>1. Sent(code)' = IF code = answer[c].code THEN Sent(code) \cup {c}
                                               ELSE Sent(code)
    BY <1>1 DEF Sent
  <2>2. c \notin Sent(code)
    BY <1>1 DEF Sent
  <2>3. metrics.RequestTotal[code] = Cardinality(Sent(code))
    BY DEF CountInv
  <2>4. Cardinality(Sent(code) \cup {c}) = Cardinality(Sent(code)) + 1
        /\ Cardinality(Sent(code)) \in Nat
    BY <2>2, CountedSets, OneMore
  <2>5. QED
    BY <1>3, <2>1, <2>3, <2>4
<1>8. QED
  BY <1>3, <1>4, <1>5, <1>6, <1>7 DEF CountInv

\* A new process has counted nothing, and nothing is left for it to count.
NothingCounted ==
    /\ \A c \in Call : stage[c] \in {"handler", "gone"}
    /\ metrics = NewMetrics

\* The counters of a new process are right.
LEMMA FreshCounts == NothingCounted => CountInv
<1> SUFFICES ASSUME NothingCounted PROVE CountInv
  OBVIOUS
<1>1. /\ \A code : Sent(code) = {} /\ Answered(code) = {}
      /\ Recovered = {}
  BY DEF NothingCounted, Sent, Answered, Recovered
<1>2. Posted = {} /\ Replayed = {}
  BY <1>1 DEF Posted, Replayed
<1>3. Cardinality({}) = 0
  BY FS_EmptySet
<1>4. metrics \in Metrics
  BY DEF NothingCounted, NewMetrics, Metrics
<1>5. QED
  BY <1>1, <1>2, <1>3, <1>4 DEF NothingCounted, CountInv, NewMetrics

-----------------------------------------------------------------------------
(* The actions.                                                            *)

\* A call that has not returned goes on: only a COMMIT of its own may show.
LEMMA OpenKeepsCounters ==
    ASSUME IndInv, CountersMatchAnswers, NEW c \in Call,
           pc[c] # "done", pc'[c] # "done", Advance(c), UNCHANGED metrics,
           \A d \in Call \ {c} : pc'[d] = pc[d],
           answer' = answer,
           transactions' \in {transactions, transactions \cup
                                 {[id |-> c, key |-> request[c].key]}}
    PROVE  CountersMatchAnswers'
<1>1. StageInv /\ CountInv /\ stage[c] = "handler"
  BY DEF CountersMatchAnswers, StageInv
<1>2. stage' = stage
  BY <1>1 DEF Advance, StageInv
<1>3. \A d \in Call \ {c} : d \in Committed' <=> d \in Committed
  BY DEF Committed
<1>4. answer[c].code # "OK"
  BY DEF IndInv, RequestInv, NoAnswer
<1>5. StageInv'
  BY <1>1, <1>2, <1>3, <1>4 DEF StageInv
<1>6. CountInv'
  BY <1>1, <1>2, <1>3, QuietCounts
<1>7. QED
  BY <1>5, <1>6 DEF CountersMatchAnswers

\* A call is answered with a, and what that says is counted.
LEMMA AnswerKeepsCounters ==
    ASSUME IsFiniteSet(Call), IndInv, CountersMatchAnswers,
           NEW c \in Call, NEW a \in Answer, pc[c] # "done", Advance(c),
           pc' = [pc EXCEPT ![c] = "done"],
           answer' = [answer EXCEPT ![c] = a],
           transactions' = transactions,
           a.code \in Counted,
           a.code = "OK" /\ c \in Committed => a.tx = c,
           metrics' \in Metrics,
           metrics'.RequestTotal = metrics.RequestTotal,
           metrics'.TxPostedTotal = metrics.TxPostedTotal
              + (IF a.code = "OK" /\ a.tx = c THEN 1 ELSE 0),
           metrics'.IdempotencyReplay = metrics.IdempotencyReplay
              + (IF a.code = "OK" /\ a.tx # c THEN 1 ELSE 0),
           IF a.code = "Internal"
           THEN metrics'.DBErrorTotal \in {metrics.DBErrorTotal + 1,
                                           metrics.DBErrorTotal + 2}
           ELSE metrics'.DBErrorTotal = metrics.DBErrorTotal
    PROVE  CountersMatchAnswers'
<1>1. StageInv /\ CountInv /\ stage[c] = "handler"
  BY DEF CountersMatchAnswers, StageInv
<1>2. answer \in [Call -> Answer] /\ pc \in [Call -> Statements \cup
                                                   {"new", "begin", "done"}]
  BY DEF IndInv, TypeOK
<1>3. stage' = [stage EXCEPT ![c] = "returned"]
  BY <1>2 DEF Advance
<1>4. /\ pc'[c] = "done" /\ answer'[c] = a /\ stage'[c] = "returned"
      /\ \A d \in Call \ {c} : /\ pc'[d] = pc[d] /\ answer'[d] = answer[d]
                               /\ stage'[d] = stage[d]
      /\ stage' \in [Call -> Stages]
  BY <1>1, <1>2, <1>3 DEF StageInv, Stages
<1>5. Committed' = Committed
  BY DEF Committed
<1>6. StageInv'
  BY <1>1, <1>4, <1>5 DEF StageInv
<1>7. CountInv'
  BY <1>1, <1>2, <1>3, ReturnCounts
<1>8. QED
  BY <1>6, <1>7 DEF CountersMatchAnswers

\* An error of the database, counted n times.
LEMMA ErrorKeepsCounters ==
    ASSUME IsFiniteSet(Call), IndInv, CountersMatchAnswers,
           NEW c \in Call, NEW n \in {1, 2}, pc[c] # "done",
           Return(c, Err("Internal")), Advance(c), CountError(n)
    PROVE  CountersMatchAnswers'
<1> DEFINE a == Err("Internal")
<1>1. /\ a \in Answer /\ a.code = "Internal" /\ a.code \in Counted
      /\ a.code # "OK"
  BY DEF Answer, Err, Codes, Counted
<1>2. /\ pc' = [pc EXCEPT ![c] = "done"]
      /\ answer' = [answer EXCEPT ![c] = a]
      /\ transactions' = transactions
  BY DEF Return, tables
<1>3. metrics \in Metrics
  BY DEF CountersMatchAnswers, CountInv
<1>4. /\ metrics' \in Metrics
      /\ metrics'.RequestTotal = metrics.RequestTotal
      /\ metrics'.TxPostedTotal = metrics.TxPostedTotal
      /\ metrics'.IdempotencyReplay = metrics.IdempotencyReplay
      /\ metrics'.DBErrorTotal = metrics.DBErrorTotal + n
  BY <1>3 DEF CountError, Metrics
<1>5. metrics.TxPostedTotal \in Nat /\ metrics.IdempotencyReplay \in Nat
  BY <1>3 DEF Metrics
<1> HIDE DEF a
<1>6. /\ metrics'.TxPostedTotal = metrics.TxPostedTotal
            + (IF a.code = "OK" /\ a.tx = c THEN 1 ELSE 0)
      /\ metrics'.IdempotencyReplay = metrics.IdempotencyReplay
            + (IF a.code = "OK" /\ a.tx # c THEN 1 ELSE 0)
  BY <1>1, <1>4, <1>5
<1>7. metrics'.DBErrorTotal \in {metrics.DBErrorTotal + 1,
                                 metrics.DBErrorTotal + 2}
  BY <1>4
<1>8. QED
  BY <1>1, <1>2, <1>4, <1>6, <1>7, AnswerKeepsCounters

\* A success counted as a posting, when it names its own transaction, or as
\* a replay.
LEMMA SuccessKeepsCounters ==
    ASSUME IsFiniteSet(Call), IndInv, CountersMatchAnswers,
           NEW c \in Call, NEW t \in Call, pc[c] # "done",
           Return(c, Ok(t)), Advance(c), c \in Committed => t = c,
           IF t = c
           THEN metrics' = [metrics EXCEPT !.TxPostedTotal = @ + 1]
           ELSE metrics' = [metrics EXCEPT !.IdempotencyReplay = @ + 1]
    PROVE  CountersMatchAnswers'
<1> DEFINE a == Ok(t)
<1>1. a \in Answer /\ a.code = "OK" /\ a.code \in Counted /\ a.tx = t
  BY DEF Answer, Ok, Counted
<1>2. /\ pc' = [pc EXCEPT ![c] = "done"]
      /\ answer' = [answer EXCEPT ![c] = a]
      /\ transactions' = transactions
  BY DEF Return, tables
<1>3. metrics \in Metrics
  BY DEF CountersMatchAnswers, CountInv
<1>4. metrics.TxPostedTotal \in Nat /\ metrics.IdempotencyReplay \in Nat
  BY <1>3 DEF Metrics
<1>5. /\ metrics' \in Metrics
      /\ metrics'.RequestTotal = metrics.RequestTotal
      /\ metrics'.DBErrorTotal = metrics.DBErrorTotal
      /\ metrics'.TxPostedTotal =
            metrics.TxPostedTotal + (IF t = c THEN 1 ELSE 0)
      /\ metrics'.IdempotencyReplay =
            metrics.IdempotencyReplay + (IF t # c THEN 1 ELSE 0)
  <2>1. CASE t = c
    BY <1>3, <1>4, <2>1 DEF Metrics
  <2>2. CASE t # c
    BY <1>3, <1>4, <2>2 DEF Metrics
  <2>3. QED
    BY <2>1, <2>2
<1> HIDE DEF a
<1>6. /\ metrics'.TxPostedTotal = metrics.TxPostedTotal
            + (IF a.code = "OK" /\ a.tx = c THEN 1 ELSE 0)
      /\ metrics'.IdempotencyReplay = metrics.IdempotencyReplay
            + (IF a.code = "OK" /\ a.tx # c THEN 1 ELSE 0)
  BY <1>1, <1>5
<1>7. a.code # "Internal"
  BY <1>1
<1>8. QED
  BY <1>1, <1>2, <1>5, <1>6, <1>7, AnswerKeepsCounters

\* A refusal counts nothing.
LEMMA RefusalKeepsCounters ==
    ASSUME IsFiniteSet(Call), IndInv, CountersMatchAnswers,
           NEW c \in Call,
           NEW code \in {"InvalidArgument", "FailedPrecondition"},
           pc[c] # "done", Advance(c), UNCHANGED <<metrics, transactions>>,
           pc' = [pc EXCEPT ![c] = "done"],
           answer' = [answer EXCEPT ![c] = Err(code)]
    PROVE  CountersMatchAnswers'
<1> DEFINE a == Err(code)
<1>1. /\ a \in Answer /\ a.code \in Counted
      /\ a.code # "OK" /\ a.code # "Internal"
  BY DEF Answer, Err, Codes, Counted
<1>2. metrics \in Metrics
  BY DEF CountersMatchAnswers, CountInv
<1>3. metrics.TxPostedTotal \in Nat /\ metrics.IdempotencyReplay \in Nat
  BY <1>2 DEF Metrics
<1> HIDE DEF a
<1>4. /\ metrics'.TxPostedTotal = metrics.TxPostedTotal
            + (IF a.code = "OK" /\ a.tx = c THEN 1 ELSE 0)
      /\ metrics'.IdempotencyReplay = metrics.IdempotencyReplay
            + (IF a.code = "OK" /\ a.tx # c THEN 1 ELSE 0)
  BY <1>1, <1>3
<1>5. answer' = [answer EXCEPT ![c] = a]
  BY DEF a
<1>6. QED
  BY <1>1, <1>2, <1>4, <1>5, AnswerKeepsCounters

\* A panic keeps the counters, whether it has counted a success, an error or
\* nothing.
LEMMA PanicKeepsCounters ==
    ASSUME IsFiniteSet(Call), IndInv, CountersMatchAnswers,
           NEW c \in Call, Panic(c)
    PROVE  CountersMatchAnswers'
<1>1. /\ pc[c] \in Statements \cup {"begin"} /\ Return(c, Err("Internal"))
      /\ stage' = [stage EXCEPT ![c] = "recovered"]
  BY DEF Panic
<1>2. pc[c] # "done"
  BY <1>1 DEF Statements
<1>3. StageInv /\ CountInv /\ stage[c] = "handler"
  BY <1>2 DEF CountersMatchAnswers, StageInv
<1>4. /\ answer \in [Call -> Answer]
      /\ pc \in [Call -> Statements \cup {"new", "begin", "done"}]
  BY DEF IndInv, TypeOK
<1>5. /\ answer'[c].code = "Internal" /\ pc'[c] = "done"
      /\ \A d \in Call \ {c} : /\ answer'[d] = answer[d] /\ pc'[d] = pc[d]
                               /\ stage'[d] = stage[d]
      /\ transactions' = transactions
      /\ stage'[c] = "recovered" /\ stage' \in [Call -> Stages]
  BY <1>1, <1>3, <1>4 DEF Return, Err, tables, StageInv, Stages
<1>6. Committed' = Committed
  BY <1>5 DEF Committed
<1>7. StageInv'
  BY <1>3, <1>5, <1>6 DEF StageInv
<1>8. /\ metrics \in Metrics
      /\ metrics.DBErrorTotal \in metrics.DBErrorTotal ..
                                  metrics.DBErrorTotal + 2
  BY <1>3 DEF CountInv, Metrics
<1>9. CASE UNCHANGED metrics
  <2>1. CountInv'
    BY <1>1, <1>3, <1>5, <1>8, <1>9, PanicCounts
  <2>2. QED
    BY <1>7, <2>1 DEF CountersMatchAnswers
<1>10. CASE /\ pc[c] = "reply"
            /\ metrics' = [metrics EXCEPT !.TxPostedTotal = @ + 1]
  <2>1. [id |-> c, key |-> request[c].key] \in transactions
    BY <1>10 DEF IndInv, TransactionInv
  <2>2. c \in Committed
    BY <2>1 DEF Committed
  <2>3. /\ metrics' \in Metrics
        /\ metrics'.RequestTotal = metrics.RequestTotal
        /\ metrics'.DBErrorTotal = metrics.DBErrorTotal
        /\ metrics'.TxPostedTotal = metrics.TxPostedTotal + 1
        /\ metrics'.IdempotencyReplay = metrics.IdempotencyReplay
    BY <1>8, <1>10 DEF Metrics
  <2>4. CountInv'
    BY <1>1, <1>3, <1>5, <1>8, <2>2, <2>3, PanicCounts
  <2>5. QED
    BY <1>7, <2>4 DEF CountersMatchAnswers
<1>11. CASE /\ pc[c] = "find"
            /\ metrics' = [metrics EXCEPT !.IdempotencyReplay = @ + 1]
  <2>1. c \notin Committed
    BY <1>11 DEF IndInv, TransactionInv, Committed
  <2>2. /\ metrics' \in Metrics
        /\ metrics'.RequestTotal = metrics.RequestTotal
        /\ metrics'.DBErrorTotal = metrics.DBErrorTotal
        /\ metrics'.TxPostedTotal = metrics.TxPostedTotal
        /\ metrics'.IdempotencyReplay = metrics.IdempotencyReplay + 1
    BY <1>8, <1>11 DEF Metrics
  <2>3. CountInv'
    BY <1>1, <1>3, <1>5, <1>8, <2>1, <2>2, PanicCounts
  <2>4. QED
    BY <1>7, <2>3 DEF CountersMatchAnswers
<1>12. CASE \E n \in 1 .. ErrorsCounted(c) : CountError(n)
  <2>1. PICK n \in 1 .. 2 : CountError(n)
    BY <1>12 DEF ErrorsCounted
  <2>2. /\ metrics' \in Metrics
        /\ metrics'.RequestTotal = metrics.RequestTotal
        /\ metrics'.DBErrorTotal = metrics.DBErrorTotal + n
        /\ metrics'.TxPostedTotal = metrics.TxPostedTotal
        /\ metrics'.IdempotencyReplay = metrics.IdempotencyReplay
    BY <1>8, <2>1 DEF CountError, Metrics
  <2>3. metrics'.DBErrorTotal \in metrics.DBErrorTotal ..
                                   metrics.DBErrorTotal + 2
    BY <1>8, <2>2 DEF Metrics
  <2>4. CountInv'
    BY <1>1, <1>3, <1>5, <2>2, <2>3, PanicCounts
  <2>5. QED
    BY <1>7, <2>4 DEF CountersMatchAnswers
<1>13. QED
  BY <1>9, <1>10, <1>11, <1>12 DEF Panic

\* The process dies or is stopped: its counters go with it.
LEMMA RestartKeepsCounters ==
    ASSUME IndInv, CountersMatchAnswers, Restart
    PROVE  CountersMatchAnswers'
<1>1. /\ stage' = [c \in Call |-> IF pc[c] = "new" THEN "handler" ELSE "gone"]
      /\ metrics' = NewMetrics /\ transactions' = transactions
  BY DEF Restart, Crash, vars, tables
<1>2. CountInv'
  <2>1. NothingCounted'
    BY <1>1 DEF NothingCounted
  <2>2. NothingCounted' => CountInv'
    BY FreshCounts, PTL
  <2>3. QED
    BY <2>1, <2>2
<1>3. ASSUME NEW c \in Call
      PROVE  /\ pc'[c] = "done" <=> pc[c] # "new"
             /\ answer'[c].code = "OK" => answer'[c] = answer[c]
  <2>1. pc[c] \in Statements \cup {"new", "begin", "done"}
    BY DEF IndInv, TypeOK
  <2>2. CASE Crash
    BY <2>1, <2>2 DEF Crash, Err
  <2>3. CASE (\A d \in Call : pc[d] \in {"new", "done"}) /\ UNCHANGED vars
    BY <2>3 DEF vars
  <2>4. QED
    BY <2>2, <2>3 DEF Restart
<1>4. Committed' = Committed
  BY <1>1 DEF Committed
<1>5. StageInv'
  <2>1. stage' \in [Call -> Stages]
    BY <1>1 DEF Stages
  <2>2. \A c \in Call : stage'[c] = "handler" <=> pc'[c] # "done"
    BY <1>1, <1>3
  <2>3. \A c \in Call : stage'[c] \notin {"returned", "sent", "recovered"}
    BY <1>1
  <2>4. \A c \in Call :
           c \in Committed' /\ answer'[c].code = "OK" => answer'[c].tx = c
    BY <1>3, <1>4 DEF CountersMatchAnswers, StageInv
  <2>5. QED
    BY <2>1, <2>2, <2>3, <2>4 DEF StageInv
<1>6. QED
  BY <1>2, <1>5 DEF CountersMatchAnswers

\* A statement that counts nothing.
LEMMA UncountedKeepsCounters ==
    ASSUME IsFiniteSet(Call), IndInv, CountersMatchAnswers,
           NEW c \in Call, Uncounted(c)
    PROVE  CountersMatchAnswers'
<1>1. Advance(c) /\ metrics' = metrics
  BY DEF Uncounted
<1>2. pc \in [Call -> Statements \cup {"new", "begin", "done"}]
  BY DEF IndInv, TypeOK
<1>3. CASE RejectOverdraft(c)
  <2>1. /\ pc[c] = "check" /\ transactions' = transactions
        /\ pc' = [pc EXCEPT ![c] = "done"]
        /\ answer' = [answer EXCEPT ![c] = Err("FailedPrecondition")]
    BY <1>3 DEF RejectOverdraft, Return, tables
  <2>2. QED
    BY <1>1, <2>1, RefusalKeepsCounters
<1>4. CASE Commit(c)
  <2>1. /\ pc[c] # "done" /\ pc'[c] # "done" /\ answer' = answer
        /\ \A d \in Call \ {c} : pc'[d] = pc[d]
        /\ transactions' = transactions \cup
                              {[id |-> c, key |-> request[c].key]}
    BY <1>2, <1>4 DEF Commit
  <2>2. QED
    BY <1>1, <2>1, OpenKeepsCounters
<1>5. CASE \/ Begin(c)
           \/ NotPosted(c)
           \/ \E p \in Pair : \/ SelectForUpdate(c, p)
                              \/ SelectMissing(c, p)
                              \/ InsertBalanceRow(c, p)
                              \/ UpdateBalance(c, p)
           \/ InsertTransaction(c)
           \/ InsertEntry(c)
  <2>1. /\ pc[c] # "done" /\ pc'[c] # "done" /\ answer' = answer
        /\ \A d \in Call \ {c} : pc'[d] = pc[d]
        /\ transactions' = transactions
    <3>1. CASE Begin(c) \/ NotPosted(c) \/ InsertTransaction(c)
      BY <1>2, <3>1 DEF Begin, NotPosted, InsertTransaction, tables
    <3>2. CASE InsertEntry(c)
      BY <1>2, <3>2 DEF InsertEntry, tables
    <3>3. CASE \E p \in Pair : SelectForUpdate(c, p) \/ InsertBalanceRow(c, p)
      BY <1>2, <3>3 DEF SelectForUpdate, InsertBalanceRow, LockedPair, tables
    <3>4. CASE \E p \in Pair : SelectMissing(c, p) \/ UpdateBalance(c, p)
      BY <1>2, <3>4 DEF SelectMissing, UpdateBalance, tables
    <3>5. QED
      BY <1>5, <3>1, <3>2, <3>3, <3>4
  <2>2. QED
    BY <1>1, <2>1, OpenKeepsCounters
<1>6. QED
  BY <1>3, <1>4, <1>5 DEF Uncounted

\* A request arrives: it is refused, or its call begins.
LEMMA ReceiveKeepsCounters ==
    ASSUME IsFiniteSet(Call), IndInv, CountersMatchAnswers,
           NEW c \in Call, ReceiveCall(c)
    PROVE  CountersMatchAnswers'
<1>1. PICK r \in Request : Receive(c, r)
  BY DEF ReceiveCall
<1>2. /\ Advance(c) /\ metrics' = metrics /\ transactions' = transactions
      /\ pc[c] # "done" /\ pc \in [Call -> Statements \cup
                                             {"new", "begin", "done"}]
  BY <1>1 DEF ReceiveCall, Receive, IndInv, TypeOK, tables
<1>3. CASE r.key # "" /\ Validate(r.postings)
  <2>1. /\ pc'[c] # "done" /\ answer' = answer
        /\ \A d \in Call \ {c} : pc'[d] = pc[d]
    BY <1>1, <1>2, <1>3 DEF Receive
  <2>2. QED
    BY <1>2, <2>1, OpenKeepsCounters
<1>4. CASE ~(r.key # "" /\ Validate(r.postings))
  <2>1. /\ pc' = [pc EXCEPT ![c] = "done"]
        /\ answer' = [answer EXCEPT ![c] = Err("InvalidArgument")]
    BY <1>1, <1>4 DEF Receive
  <2>2. QED
    BY <1>2, <2>1, RefusalKeepsCounters
<1>5. QED
  BY <1>3, <1>4

\* A step of a handler, counted or failing.
LEMMA HandlerKeepsCounters ==
    ASSUME IsFiniteSet(Call), IndInv, CountersMatchAnswers,
           NEW c \in Call, StepCounted(c) \/ CountedFail(c)
    PROVE  CountersMatchAnswers'
<1>1. CASE Uncounted(c)
  BY <1>1, UncountedKeepsCounters
<1>2. CASE CountedReplay(c)
  <2>1. PICK t \in transactions : Return(c, Ok(t.id))
    BY <1>2 DEF CountedReplay, Replay
  <2>2. pc[c] = "find" /\ Advance(c)
        /\ metrics' = [metrics EXCEPT !.IdempotencyReplay = @ + 1]
    BY <1>2 DEF CountedReplay, Replay
  <2>3. c \notin Committed
    BY <2>2 DEF IndInv, TransactionInv, Committed
  <2>4. t.id \in Call /\ t.id # c
    BY <2>3 DEF IndInv, TypeOK, Transaction, Committed
  <2>5. QED
    BY <2>1, <2>2, <2>3, <2>4, SuccessKeepsCounters
<1>3. CASE CountedReply(c)
  BY <1>3, SuccessKeepsCounters DEF CountedReply, Reply
<1>4. CASE CountedError(c)
  <2>1. Advance(c) /\ CountError(1) /\ Return(c, Err("Internal"))
    BY <1>4 DEF CountedError, DuplicateKey, UpdateOutOfRange, DeadlockVictim
  <2>2. pc[c] # "done"
    <3>1. CASE DuplicateKey(c) \/ \E p \in Pair : UpdateOutOfRange(c, p)
      BY <3>1 DEF DuplicateKey, UpdateOutOfRange
    <3>2. CASE DeadlockVictim(c)
      <4>1. PICK S \in SUBSET Call : c \in S /\ WaitsInCycle(S)
        BY <3>2 DEF DeadlockVictim, Deadlocked
      <4>2. \E d : d \in WaitsFor(c)
        BY <4>1 DEF WaitsInCycle
      <4>3. QED
        BY <4>2 DEF WaitsFor
    <3>3. QED
      BY <1>4, <3>1, <3>2 DEF CountedError
  <2>3. QED
    BY <2>1, <2>2, ErrorKeepsCounters
<1>5. CASE CountedFail(c)
  <2>1. /\ Advance(c) /\ CountError(ErrorsCounted(c))
        /\ Return(c, Err("Internal")) /\ ErrorsCounted(c) \in {1, 2}
        /\ pc[c] # "done"
    BY <1>5 DEF CountedFail, Fail, ErrorsCounted, Open, Statements
  <2>2. QED
    BY <2>1, ErrorKeepsCounters
<1>6. QED
  BY <1>1, <1>2, <1>3, <1>4, <1>5 DEF StepCounted

\* The interceptors' step.
LEMMA InterceptKeepsCounters ==
    ASSUME IsFiniteSet(Call), CountersMatchAnswers, NEW c \in Call, Intercept(c)
    PROVE  CountersMatchAnswers'
<1>1. StageInv /\ CountInv
  BY DEF CountersMatchAnswers
<1>2. UNCHANGED <<pc, answer, transactions>>
  BY DEF Intercept, vars, tables
<1>3. /\ stage[c] = "returned" /\ stage'[c] = "sent"
      /\ \A d \in Call \ {c} : stage'[d] = stage[d]
      /\ stage' \in [Call -> Stages]
  BY <1>1 DEF Intercept, StageInv, Stages
<1>4. Committed' = Committed
  BY <1>2 DEF Committed
<1>5. StageInv'
  BY <1>1, <1>2, <1>3, <1>4 DEF StageInv
<1>6. QED
  BY <1>1, <1>5, SentCounts DEF CountersMatchAnswers

\* A step that changes nothing.
LEMMA StutterKeepsCounters ==
    ASSUME CountersMatchAnswers, UNCHANGED allVars
    PROVE  CountersMatchAnswers'
<1>1. UNCHANGED <<pc, answer, transactions, stage, metrics>>
  BY DEF allVars, telemetry, vars, tables
<1>2. Committed' = Committed
  BY <1>1 DEF Committed
<1>3. StageInv'
  BY <1>1, <1>2 DEF CountersMatchAnswers, StageInv
<1>4. CountInv'
  BY <1>1, <1>2, QuietCounts DEF CountersMatchAnswers
<1>5. QED
  BY <1>3, <1>4 DEF CountersMatchAnswers

\* The counters are right at every step.
LEMMA NextKeepsCounters ==
    ASSUME IsFiniteSet(Call), IndInv, CountersMatchAnswers, [NextCounted]_allVars
    PROVE  CountersMatchAnswers'
<1>1. ASSUME NEW c \in Call, StepCounted(c) \/ CountedFail(c)
      PROVE  CountersMatchAnswers'
  BY <1>1, HandlerKeepsCounters
<1>2. ASSUME NEW c \in Call, ReceiveCall(c) PROVE CountersMatchAnswers'
  BY <1>2, ReceiveKeepsCounters
<1>3. ASSUME NEW c \in Call, Intercept(c) PROVE CountersMatchAnswers'
  BY <1>3, InterceptKeepsCounters
<1>4. ASSUME NEW c \in Call, Panic(c) PROVE CountersMatchAnswers'
  BY <1>4, PanicKeepsCounters
<1>5. CASE Restart
  BY <1>5, RestartKeepsCounters
<1>6. CASE FinishedCounting \/ UNCHANGED allVars
  BY <1>6, StutterKeepsCounters DEF FinishedCounting, Finished, allVars
<1>7. QED
  BY <1>1, <1>2, <1>3, <1>4, <1>5, <1>6 DEF NextCounted

\* The process starts with nothing counted.
LEMMA InitCounters == InitTelemetry => CountersMatchAnswers
<1> SUFFICES ASSUME InitTelemetry PROVE CountersMatchAnswers
  OBVIOUS
<1>1. /\ stage = [c \in Call |-> "handler"] /\ metrics = NewMetrics
      /\ pc = [c \in Call |-> "new"] /\ transactions = {}
  BY DEF InitTelemetry, Init
<1>2. StageInv
  BY <1>1 DEF StageInv, Stages, Committed
<1>3. CountInv
  BY <1>1, FreshCounts DEF NothingCounted
<1>4. QED
  BY <1>2, <1>3 DEF CountersMatchAnswers

\* Call c panics: as for the tables and the locks, it ends with an error.
Unwinds(c) == pc[c] \notin {"new", "done"} /\ Return(c, Err("Internal"))

\* To the ledger's own state a step with counters is a step without, or the end
\* of a call that panics.
LEMMA CountedStep ==
    ASSUME [NextCounted]_allVars
    PROVE  [Next]_vars \/ \E c \in Call : Unwinds(c)
<1>1. ASSUME NEW c \in Call, Panic(c) PROVE Unwinds(c)
  BY <1>1 DEF Panic, Unwinds, Statements
<1>2. ASSUME NEW c \in Call, StepCounted(c) \/ CountedFail(c) \/ ReceiveCall(c)
      PROVE  Next
  <2>1. Step(c) \/ Disturb(c)
    BY <1>2 DEF StepCounted, Uncounted, CountedReplay, CountedReply,
       CountedError, CountedFail, ReceiveCall, Step, Disturb
  <2>2. QED
    BY <2>1 DEF Next
<1>3. CASE \/ Restart
           \/ \E c \in Call : Intercept(c)
           \/ FinishedCounting
           \/ UNCHANGED allVars
  <2>1. Crash \/ UNCHANGED vars
    BY <1>3 DEF Restart, Intercept, FinishedCounting, Finished, allVars
  <2>2. QED
    BY <2>1 DEF Next
<1>4. QED
  BY <1>1, <1>2, <1>3 DEF NextCounted

\* Neither counting nor a panic breaks what PostTransaction relies on.
LEMMA NextCountedIndInv == ASSUME IndInv, [NextCounted]_allVars PROVE IndInv'
<1>1. ASSUME NEW c \in Call, Unwinds(c) PROVE IndInv'
  BY <1>1, ErrorStep DEF Unwinds
<1>2. QED
  BY <1>1, CountedStep, NextIndInv

\* Only a COMMIT changes the tables, whatever else panics or is counted.
LEMMA NextCountedPublishes == ASSUME [NextCounted]_allVars PROVE Publishes
<1>1. ASSUME NEW c \in Call, Unwinds(c) PROVE UNCHANGED tables
  BY <1>1 DEF Unwinds, Return
<1>2. QED
  BY <1>1, CountedStep, OnlyCommitPublishes DEF Publishes

\* Nor do they break what the tables owe to it.
LEMMA NextCountedBalances ==
    ASSUME IndInv, RecordInv, BalanceInv, [NextCounted]_allVars
    PROVE  IndInv' /\ RecordInv' /\ BalanceInv'
<1>1. ASSUME NEW c \in Call, Unwinds(c) PROVE RecordInv' /\ BalanceInv'
  BY <1>1, ReturnRecords, ReturnKeepsBalances DEF Unwinds
<1>2. QED
  BY <1>1, CountedStep, NextCountedIndInv, NextRecordInv, NextBalanceInv

-----------------------------------------------------------------------------
(* What follows for every reachable state.                                 *)

\* The guarantees of PostTransaction survive the recovery of a panic at any
\* statement: the deferred Rollback does what an error's does.
THEOREM PanicsKeepLedger ==
    FairCounted => [](TypeOK /\ ReadsStayCurrent /\ AnswersAreTrue)
<1>1. InitTelemetry => IndInv
  BY InitIndInv DEF InitTelemetry
<1>2. IndInv /\ [NextCounted]_allVars => IndInv'
  BY NextCountedIndInv
<1>3. IndInv => TypeOK /\ ReadsStayCurrent /\ AnswersAreTrue
  BY DEF IndInv, ReadsStayCurrent, ReadInv, PairsLocked, Locked
<1>4. QED
  BY <1>1, <1>2, <1>3, PTL DEF FairCounted

\* The tables: whatever panics and whenever the process is started again, a
\* key is posted at most once, a transaction has all of its entries and a
\* balance is the sum of its entries.
THEOREM PanicsKeepTables ==
    FairCounted => [](/\ OneTransactionPerKey
                      /\ EntriesMatchTransactions
                      /\ BalancesMatchEntries)
<1>1. InitTelemetry => /\ IndInv /\ RecordInv /\ BalanceInv
                       /\ OneTransactionPerKey
  BY InitIndInv, InitRecordInv, InitBalanceInv
  DEF InitTelemetry, Init, OneTransactionPerKey
<1>2. IndInv /\ RecordInv /\ BalanceInv /\ [NextCounted]_allVars
         => IndInv' /\ RecordInv' /\ BalanceInv'
  BY NextCountedBalances
<1>3. IndInv /\ OneTransactionPerKey /\ [NextCounted]_allVars
         => OneTransactionPerKey'
  BY CommitsKeepKeys, NextCountedPublishes
<1>4. IndInv /\ RecordInv /\ BalanceInv
         => EntriesMatchTransactions /\ BalancesMatchEntries
  BY RecordInvMatches, BalanceInvMatches
<1>5. QED
  BY <1>1, <1>2, <1>3, <1>4, PTL DEF FairCounted

\* BooksBalance, NoOverdraft: no panic creates or destroys money, and none
\* overdraws an account whose owner's requests name it once.
THEOREM PanicsKeepMoney ==
    ASSUME IsFiniteSet(Account), \A r \in Request : NamesOnce(r.postings)
    PROVE  FairCounted => [](BooksBalance /\ NoOverdraft)
<1>1. InitTelemetry => /\ IndInv /\ RecordInv /\ BalanceInv
                       /\ BooksBalance /\ NoOverdraft
  BY InitIndInv, InitRecordInv, InitBalanceInv, InitBooks
  DEF InitTelemetry, Init, NoOverdraft, GetBalance
<1>2. IndInv /\ RecordInv /\ BalanceInv /\ [NextCounted]_allVars
         => IndInv' /\ RecordInv' /\ BalanceInv'
  BY NextCountedBalances
<1>3. IndInv /\ IndInv' /\ BalanceInv /\ BooksBalance /\ [NextCounted]_allVars
         => BooksBalance'
  BY CommitsKeepBooks, NextCountedPublishes
<1>4. IndInv /\ NoOverdraft /\ [NextCounted]_allVars => NoOverdraft'
  BY CommitsKeepFunds, NextCountedPublishes
<1>5. QED
  BY <1>1, <1>2, <1>3, <1>4, PTL DEF FairCounted

\* EntriesAppearInOrder: nor can a panic let an entry appear before a page
\* cursor that has passed it.
THEOREM PanicsKeepOrder == FairCounted => EntriesAppearInOrder
<1>1. InitTelemetry => IndInv
  BY InitIndInv DEF InitTelemetry
<1>2. IndInv /\ [NextCounted]_allVars => IndInv'
  BY NextCountedIndInv
<1>3. IndInv /\ [NextCounted]_allVars => [NewEntriesLast]_vars
  BY CommitsKeepOrder, NextCountedPublishes
<1>4. QED
  BY <1>1, <1>2, <1>3, PTL
  DEF FairCounted, EntriesAppearInOrder, NewEntriesLast

\* ImplementsAtomicLedger: the ledger process with its interceptors, panics and
\* restarts keeps the promises of the atomic ledger.  A panic is an answer that
\* leaves the caller not knowing, and never a posting in part.
THEOREM PanicsImplementLedger == FairCounted => ImplementsAtomicLedger
<1>1. InitTelemetry => IndInv /\ RecordInv /\ BalanceInv /\ Atomic!Init
  BY InitIndInv, InitRecordInv, InitBalanceInv, InitImplements DEF InitTelemetry
<1>2. IndInv /\ RecordInv /\ BalanceInv /\ [NextCounted]_allVars
         => IndInv' /\ RecordInv' /\ BalanceInv'
  BY NextCountedBalances
<1>3. ASSUME IndInv, IndInv', BalanceInv, [NextCounted]_allVars
      PROVE  [Atomic!Next]_(Atomic!vars)
  <2>1. CASE [Next]_vars
    BY <1>3, <2>1, NextImplements
  <2>2. ASSUME NEW c \in Call, Unwinds(c) PROVE Atomic!Next
    <3>1. Atomic!Unsure(c)
      BY <1>3, <2>2, ErrorIsUnsure DEF Unwinds
    <3>2. QED
      BY <3>1 DEF Atomic!Next
  <2>3. QED
    BY <1>3, <2>1, <2>2, CountedStep
<1>4. IndInv /\ IndInv' /\ BalanceInv /\ [NextCounted]_allVars
         => [Atomic!Next]_(Atomic!vars)
  BY <1>3
<1>5. QED
  BY <1>1, <1>2, <1>4, PTL
  DEF FairCounted, ImplementsAtomicLedger, Atomic!Spec

\* What the calls wait for survives panics and restarts as well.
LEMMA NextCountedWaits ==
    ASSUME IndInv, OrderInv, WaitInv, [NextCounted]_allVars
    PROVE  OrderInv' /\ WaitInv'
<1>1. CASE [Next]_vars
  BY <1>1, NextOrderInv, NextWaitInv
<1>2. ASSUME NEW c \in Call, Unwinds(c) PROVE OrderInv' /\ WaitInv'
  <2>1. Return(c, Err("Internal"))
    BY <1>2 DEF Unwinds
  <2>2. OrderInv'
    BY <2>1, ReturnKeepsOrder
  <2>3. /\ Rollback({c}) /\ Forget({c}) /\ UNCHANGED balance
        /\ pc' = [pc EXCEPT ![c] = "done"]
    BY <2>1 DEF Return, tables
  <2>4. pc \in [Call -> Statements \cup {"new", "begin", "done"}]
    BY DEF IndInv, TypeOK
  <2>5. \A p \in Pair : Present(p)' => Present(p)
    BY <2>3 DEF Present, Rollback
  <2>6. WaitInv'
    BY <2>3, <2>4, <2>5, RollbackKeepsGaps
  <2>7. QED
    BY <2>2, <2>6
<1>3. QED
  BY <1>1, <1>2, CountedStep

\* NoStandstill, LockOrderAvoidsCycles: no handler that panics, at whatever
\* statement and with whatever locks, and no restart leaves the calls in
\* progress waiting for what nobody will release, or for each other's rows.
THEOREM PanicsNeverStopService ==
    ASSUME IsFiniteSet(Call)
    PROVE  FairCounted => [](NoStandstill /\ LockOrderAvoidsCycles)
<1>1. InitTelemetry => IndInv /\ OrderInv /\ WaitInv
  BY InitIndInv, InitOrderInv, InitWaitInv DEF InitTelemetry
<1>2. IndInv /\ OrderInv /\ WaitInv /\ [NextCounted]_allVars
         => IndInv' /\ OrderInv' /\ WaitInv'
  BY NextCountedIndInv, NextCountedWaits
<1>3. IndInv /\ OrderInv /\ WaitInv => NoStandstill /\ LockOrderAvoidsCycles
  BY SomeoneGoesOn, OrderAvoidsCycles
<1>4. QED
  BY <1>1, <1>2, <1>3, PTL DEF FairCounted

\* StatementsRunOut: a panic ends a call and starts nothing over.
THEOREM PanicsStartNothingOver == FairCounted => StatementsRunOut
<1>1. InitTelemetry => IndInv
  BY InitIndInv DEF InitTelemetry
<1>2. IndInv /\ [NextCounted]_allVars => IndInv'
  BY NextCountedIndInv
<1>3. ASSUME IndInv, [NextCounted]_allVars, vars' # vars PROVE RunsDown
  <2>1. CASE [Next]_vars
    BY <1>3, <2>1, NextRunsDown
  <2>2. ASSUME NEW c \in Call, Unwinds(c) PROVE RunsDown
    BY <1>3, <2>2, ReturnRunsDown, OneRunsDown DEF Unwinds
  <2>3. QED
    BY <1>3, <2>1, <2>2, CountedStep
<1>4. IndInv /\ [NextCounted]_allVars => [RunsDown]_vars
  BY <1>3
<1>5. QED
  BY <1>1, <1>2, <1>4, PTL DEF FairCounted, StatementsRunOut, RunsDown

\* CountersMatchAnswers: each counter equals the answers it stands for, give
\* or take the calls that panicked in between.
THEOREM CountersAreInvariant ==
    ASSUME IsFiniteSet(Call)
    PROVE  FairCounted => []CountersMatchAnswers
<1>1. InitTelemetry => IndInv /\ CountersMatchAnswers
  BY InitIndInv, InitCounters DEF InitTelemetry
<1>2. IndInv /\ CountersMatchAnswers /\ [NextCounted]_allVars
         => IndInv' /\ CountersMatchAnswers'
  BY NextCountedIndInv, NextKeepsCounters
<1>3. QED
  BY <1>1, <1>2, PTL DEF FairCounted

\* What MetricsInterceptor has counted or will count are the answers given.
LEMMA RequestsAreAnswered ==
    ASSUME IsFiniteSet(Call), CountersMatchAnswers, NEW code \in Counted
    PROVE  Requests(code) = Cardinality(Answered(code))
<1> DEFINE R == {c \in Call : stage[c] = "returned" /\ answer[c].code = code}
<1>1. Answered(code) = Sent(code) \cup R /\ Sent(code) \cap R = {}
  BY DEF Answered, Sent
<1>2. R \in SUBSET Call /\ Sent(code) \in SUBSET Call
  BY DEF Sent
<1>3. Cardinality(Answered(code)) = Cardinality(Sent(code)) + Cardinality(R)
  BY <1>1, <1>2, Apart
<1>4. metrics.RequestTotal[code] = Cardinality(Sent(code))
  BY DEF CountersMatchAnswers, CountInv
<1>5. QED
  BY <1>3, <1>4 DEF Requests

\* OkIsPostedOrReplayed: every OK is counted as a posting or as a replay, and
\* no other call is, unless its handler panicked.
THEOREM SuccessesAddUp ==
    ASSUME IsFiniteSet(Call)
    PROVE  FairCounted => []OkIsPostedOrReplayed
<1>1. ASSUME CountersMatchAnswers PROVE OkIsPostedOrReplayed
  <2> DEFINE P == metrics.TxPostedTotal
             I == metrics.IdempotencyReplay
             PR == Posted \cup (Recovered \cap Committed)
             RR == Replayed \cup (Recovered \ Committed)
  <2>1. /\ P \in Nat /\ I \in Nat
        /\ Cardinality(Posted) <= P /\ P <= Cardinality(PR)
        /\ Cardinality(Replayed) <= I /\ I <= Cardinality(RR)
    BY <1>1 DEF CountersMatchAnswers, CountInv, Metrics
  <2>2. Requests("OK") = Cardinality(Answered("OK"))
    BY <1>1, RequestsAreAnswered DEF Counted
  <2>3. /\ Answered("OK") = Posted \cup Replayed /\ Posted \cap Replayed = {}
        /\ Answered("OK") \cap Recovered = {}
    BY DEF Posted, Replayed, Answered, Recovered
  <2>4. Cardinality(Answered("OK")) = Cardinality(Posted) + Cardinality(Replayed)
    BY <2>3, CountedSets, Apart
  <2>5. PR \cup RR = Answered("OK") \cup Recovered /\ PR \cap RR = {}
    BY <2>3
  <2>6. PR \in SUBSET Call /\ RR \in SUBSET Call
    BY CountedSets
  <2>7. Cardinality(PR \cup RR) = Cardinality(PR) + Cardinality(RR)
    BY <2>5, <2>6, Apart
  <2>8. Cardinality(Answered("OK") \cup Recovered) =
           Cardinality(Answered("OK")) + Cardinality(Recovered)
    BY <2>3, CountedSets, Apart
  <2>9. /\ Cardinality(Posted) \in Nat /\ Cardinality(Replayed) \in Nat
        /\ Cardinality(PR) \in Nat /\ Cardinality(RR) \in Nat
        /\ Cardinality(Recovered) \in Nat
    BY <2>6, CountedSets, Sizes
  <2>10. Cardinality(PR) + Cardinality(RR) =
            Cardinality(Answered("OK")) + Cardinality(Recovered)
    BY <2>5, <2>7, <2>8
  <2> HIDE DEF PR, RR
  <2>11. Cardinality(Answered("OK")) <= P + I
    BY <2>1, <2>4, <2>9
  <2>12. P + I <= Cardinality(Answered("OK")) + Cardinality(Recovered)
    BY <2>1, <2>9, <2>10
  <2>13. QED
    BY <2>2, <2>11, <2>12 DEF OkIsPostedOrReplayed
<1>2. QED
  BY <1>1, CountersAreInvariant, PTL

\* PostedIsCommitted: the counter of committed transactions is at most their
\* number, and at least that of those whose callers know.
THEOREM CommitsAreCounted ==
    ASSUME IsFiniteSet(Call)
    PROVE  FairCounted => []PostedIsCommitted
<1>1. ASSUME IndInv, CountersMatchAnswers PROVE PostedIsCommitted
  <2> DEFINE committed == {t.id : t \in transactions} \cap Mine
             known == {c \in committed : answer[c].code = "OK"}
             PR == Posted \cup (Recovered \cap Committed)
  <2>1. /\ Cardinality(Posted) <= metrics.TxPostedTotal
        /\ metrics.TxPostedTotal <= Cardinality(PR)
        /\ metrics.TxPostedTotal \in Nat
    BY <1>1 DEF CountersMatchAnswers, CountInv, Metrics
  <2>2. committed \in SUBSET Call /\ PR \in SUBSET Call
    BY CountedSets DEF Mine
  <2>3. known \subseteq Posted
    <3>1. SUFFICES ASSUME NEW c \in known PROVE c \in Posted
      OBVIOUS
    <3>2. /\ c \in Committed /\ c \in Call /\ stage[c] # "gone"
          /\ answer[c].code = "OK"
      BY DEF Committed, Mine
    <3>3. pc[c] = "done" /\ answer[c].tx = c
      BY <1>1, <3>2 DEF IndInv, RequestInv, NoAnswer, CountersMatchAnswers,
                        StageInv
    <3>4. stage[c] \in {"returned", "sent"}
      BY <1>1, <3>2, <3>3 DEF CountersMatchAnswers, StageInv, Stages
    <3>5. QED
      BY <3>2, <3>3, <3>4 DEF Posted, Answered
  <2>4. PR \subseteq committed
    <3>1. SUFFICES ASSUME NEW c \in PR PROVE c \in committed
      OBVIOUS
    <3>2. c \in Call /\ stage[c] \in {"returned", "sent", "recovered"}
      BY DEF Posted, Answered, Recovered
    <3>3. pc[c] = "done"
      BY <1>1, <3>2 DEF CountersMatchAnswers, StageInv
    <3>4. c \in Mine
      BY <3>2, <3>3 DEF Mine
    <3>5. c \in Committed
      <4>1. CASE c \in Posted
        <5>1. answer[c].code = "OK" /\ answer[c].tx = c
          BY <4>1 DEF Posted, Answered
        <5>2. [id |-> c, key |-> request[c].key] \in transactions
          BY <1>1, <3>2, <5>1 DEF IndInv, AnswersAreTrue
        <5>3. QED
          BY <5>2 DEF Committed
      <4>2. QED
        BY <4>1
    <3>6. QED
      BY <3>4, <3>5 DEF Committed
  <2> HIDE DEF PR
  <2>5. Cardinality(known) <= Cardinality(Posted)
        /\ Cardinality(known) \in Nat /\ Cardinality(Posted) \in Nat
    BY <2>3, CountedSets, Sizes
  <2>6. Cardinality(PR) <= Cardinality(committed)
        /\ Cardinality(PR) \in Nat /\ Cardinality(committed) \in Nat
    BY <2>2, <2>4, Sizes
  <2>7. Cardinality(known) <= metrics.TxPostedTotal
        /\ metrics.TxPostedTotal <= Cardinality(committed)
    BY <2>1, <2>5, <2>6
  <2>8. QED
    BY <2>7 DEF PostedIsCommitted
<1>2. InitTelemetry => IndInv
  BY InitIndInv DEF InitTelemetry
<1>3. IndInv /\ [NextCounted]_allVars => IndInv'
  BY NextCountedIndInv
<1>4. QED
  BY <1>1, <1>2, <1>3, CountersAreInvariant, PTL DEF FairCounted

\* InternalIsDatabaseError: an Internal answer that no panic made has a database
\* error counted for it, and the database errors counted are at most two for
\* each call that answered Internal or panicked.
THEOREM OutagesAreCounted ==
    ASSUME IsFiniteSet(Call)
    PROVE  FairCounted => []InternalIsDatabaseError
<1>1. ASSUME CountersMatchAnswers PROVE InternalIsDatabaseError
  <2>1. Requests("Internal") = Cardinality(Answered("Internal"))
    BY <1>1, RequestsAreAnswered DEF Counted
  <2>2. Answered("Internal") \cap Recovered = {}
    BY DEF Answered, Recovered
  <2>3. Cardinality(Answered("Internal") \cup Recovered) =
           Cardinality(Answered("Internal")) + Cardinality(Recovered)
    BY <2>2, CountedSets, Apart
  <2>4. QED
    BY <1>1, <2>1, <2>3
       DEF InternalIsDatabaseError, CountersMatchAnswers, CountInv
<1>2. QED
  BY <1>1, CountersAreInvariant, PTL

=============================================================================
