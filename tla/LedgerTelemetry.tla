--------------------------- MODULE LedgerTelemetry ---------------------------
(***************************************************************************)
(* The interceptors around PostTransaction (internal/platform/grpc) and    *)
(* the Prometheus counters they and the repository keep in the memory of   *)
(* the ledger process (internal/platform/observability/metrics.go).        *)
(*                                                                         *)
(* NewServer chains recovery, logging and metrics, in this order from the  *)
(* outside in: an answer passes metrics and then logging on its way to the *)
(* client, a panic unwinds through both of them up to recovery.            *)
(***************************************************************************)
EXTENDS Ledger

VARIABLES
    metrics,      \* the process's counters, a Metrics
    stage         \* how far each call's answer has got on its way out

telemetry == <<metrics, stage>>
allVars == <<vars, telemetry>>

\* "handler": called or not, the handler has not returned; "returned": its
\* answer is in the interceptors; "sent": past them; "recovered": it
\* panicked; "gone": the process that handled it is dead.
Stages == {"handler", "returned", "sent", "recovered", "gone"}

Counted == {"OK", "InvalidArgument", "FailedPrecondition", "Internal"}

\* What a process starts with: requests by status, committed transactions,
\* replays of a key, and database errors.
NewMetrics ==
    [RequestTotal      |-> [code \in Counted |-> 0],
     TxPostedTotal     |-> 0,
     IdempotencyReplay |-> 0,
     DBErrorTotal      |-> 0]

InitTelemetry ==
    /\ Init
    /\ stage = [c \in Call |-> "handler"]
    /\ metrics = NewMetrics

-----------------------------------------------------------------------------

\* A step that leaves the counters alone may end the call all the same.
Advance(c) ==
    stage' = [stage EXCEPT ![c] = IF pc'[c] = "done" THEN "returned" ELSE @]

CountError(n) == metrics' = [metrics EXCEPT !.DBErrorTotal = @ + n]

\* The statements that count nothing.
Uncounted(c) ==
    /\ \/ Begin(c)
       \/ NotPosted(c)
       \/ \E p \in Pair : \/ SelectForUpdate(c, p)
                          \/ SelectMissing(c, p)
                          \/ InsertBalanceRow(c, p)
                          \/ UpdateBalance(c, p)
       \/ RejectOverdraft(c)
       \/ InsertTransaction(c)
       \/ InsertEntry(c)
       \/ Commit(c)
    /\ Advance(c)
    /\ UNCHANGED metrics

CountedReplay(c) ==
    /\ Replay(c)
    /\ Advance(c)
    /\ metrics' = [metrics EXCEPT !.IdempotencyReplay = @ + 1]

CountedReply(c) ==
    /\ Reply(c)
    /\ Advance(c)
    /\ metrics' = [metrics EXCEPT !.TxPostedTotal = @ + 1]

\* The errors MySQL answers with.
CountedError(c) ==
    /\ \/ DuplicateKey(c)
       \/ \E p \in Pair : UpdateOutOfRange(c, p)
       \/ DeadlockVictim(c)
    /\ Advance(c)
    /\ CountError(1)

\* Mutant: the error of BeginTx is returned without dbErr.
ErrorsAfterBegin(c) ==
    IF pc[c] = "begin" THEN 0 ELSE IF pc[c] = "find" THEN 2 ELSE 1

\* dbErr is called where the error arises and, by the caller of
\* findByIdempotencyKey, once more.
ErrorsCounted(c) == IF pc[c] = "find" THEN 2 ELSE 1

\* Mutant: TxPostedTotal is counted just before Commit.
CountedFailAtCommit(c) ==
    /\ Fail(c)
    /\ Advance(c)
    /\ metrics' = [metrics EXCEPT
                       !.DBErrorTotal = @ + ErrorsCounted(c),
                       !.TxPostedTotal = IF pc[c] = "commit" THEN @ + 1 ELSE @]

CountedFail(c) ==
    /\ Fail(c)
    /\ Advance(c)
    /\ CountError(ErrorsCounted(c))

ReceiveCall(c) ==
    /\ \E r \in Request : Receive(c, r)
    /\ Advance(c)
    /\ UNCHANGED metrics

\* MetricsInterceptor counts the answer, LoggingInterceptor writes a line,
\* and the answer is sent.
Intercept(c) ==
    /\ stage[c] = "returned"
    /\ metrics' = [metrics EXCEPT !.RequestTotal[answer[c].code] = @ + 1]
    /\ stage' = [stage EXCEPT ![c] = "sent"]
    /\ UNCHANGED vars

\* Mutant: MetricsInterceptor counts in a deferred function, where err is nil.
PanicCounted(c) ==
    /\ pc[c] \in Statements \cup {"begin"}
    /\ Return(c, Err("Internal"))
    /\ stage' = [stage EXCEPT ![c] = "recovered"]
    /\ metrics' = [metrics EXCEPT !.RequestTotal["OK"] = @ + 1]

\* The handler panics, before or after it has counted a success or an error: the
\* deferred Rollback, the server's log line and the inner interceptors still run
\* after dbErr has counted.  RecoveryInterceptor answers.
Panic(c) ==
    /\ pc[c] \in Statements \cup {"begin"}
    /\ Return(c, Err("Internal"))
    /\ stage' = [stage EXCEPT ![c] = "recovered"]
    /\ \/ UNCHANGED metrics
       \/ /\ pc[c] = "reply"
          /\ metrics' = [metrics EXCEPT !.TxPostedTotal = @ + 1]
       \/ /\ pc[c] = "find"
          /\ \E t \in transactions : t.key = request[c].key
          /\ metrics' = [metrics EXCEPT !.IdempotencyReplay = @ + 1]
       \/ /\ pc[c] = "check" => CheckOverdraft(request[c].postings, balances[c])
          /\ \E n \in 1 .. ErrorsCounted(c) : CountError(n)

\* The process dies, whatever its handlers are doing, and another starts.
Restart ==
    /\ \/ Crash
       \/ (\A c \in Call : pc[c] \in {"new", "done"}) /\ UNCHANGED vars
    /\ stage' = [c \in Call |-> IF pc[c] = "new" THEN "handler" ELSE "gone"]
    /\ metrics' = NewMetrics

-----------------------------------------------------------------------------

StepCounted(c) ==
    \/ Uncounted(c)
    \/ CountedReplay(c)
    \/ CountedReply(c)
    \/ CountedError(c)

FinishedCounting ==
    /\ Finished
    /\ \A c \in Call : stage[c] # "returned"
    /\ UNCHANGED telemetry

NextCounted ==
    \/ \E c \in Call : \/ StepCounted(c)
                       \/ Intercept(c)
                       \/ ReceiveCall(c)
                       \/ CountedFail(c)
                       \/ Panic(c)
    \/ Restart
    \/ FinishedCounting

\* As Fairness of Ledger: StepCounted is Step, with what it counts.
FairCounted ==
    /\ InitTelemetry
    /\ [][NextCounted]_allVars
    /\ Fairness
    /\ \A c \in Call : WF_allVars(Intercept(c))

-----------------------------------------------------------------------------
(* Properties.  Mine are the calls that this process, and no process before *)
(* it, has taken.                                                           *)

Mine == {c \in Call : pc[c] # "new" /\ stage[c] # "gone"}
Recovered == {c \in Call : stage[c] = "recovered"}

\* The answers of a code that MetricsInterceptor has counted or will count.
Requests(code) ==
    metrics.RequestTotal[code] +
    Cardinality({c \in Call : stage[c] = "returned" /\ answer[c].code = code})

\* The dashboards agree: every OK is a posting or a replay that the repository
\* counted, never both, and it counts no other, unless the handler panicked.
OkIsPostedOrReplayed ==
    LET done == metrics.TxPostedTotal + metrics.IdempotencyReplay IN
    /\ Requests("OK") <= done
    /\ done <= Requests("OK") + Cardinality(Recovered)

\* "Total number of committed transactions": at most those this process has
\* committed, and short of them only by COMMITs whose callers do not know.
PostedIsCommitted ==
    LET committed == {t.id : t \in transactions} \cap Mine
        known     == {c \in committed : answer[c].code = "OK"}
    IN  /\ Cardinality(known) <= metrics.TxPostedTotal
        /\ metrics.TxPostedTotal <= Cardinality(committed)

\* Each Internal answer that no panic made has a database error counted for it,
\* so that an outage shows in ledger_db_errors_total, and a call counts two at
\* most, whether its error is answered or lost in a panic.
InternalIsDatabaseError ==
    /\ Requests("Internal") <= metrics.DBErrorTotal
    /\ metrics.DBErrorTotal <=
          2 * (Requests("Internal") + Cardinality(Recovered))

-----------------------------------------------------------------------------
(* The inductive invariant behind them: each counter against the answers it *)
(* counts, with the panics that may have been counted before they unwound.  *)

Metrics ==
    [RequestTotal : [Counted -> Nat],
     TxPostedTotal : Nat, IdempotencyReplay : Nat, DBErrorTotal : Nat]

Committed == {t.id : t \in transactions}

Sent(code) == {c \in Call : stage[c] = "sent" /\ answer[c].code = code}

\* What this process has answered and not recovered from.
Answered(code) ==
    {c \in Call : stage[c] \in {"returned", "sent"} /\ answer[c].code = code}

Posted   == {c \in Answered("OK") : answer[c].tx = c}
Replayed == {c \in Answered("OK") : answer[c].tx # c}

\* An answer is on its way out once the handler is done, and the caller of a
\* transaction is never told the id of another one.
StageInv ==
    /\ stage \in [Call -> Stages]
    /\ \A c \in Call :
          /\ stage[c] = "handler" <=> pc[c] # "done"
          /\ stage[c] \in {"returned", "sent"} => answer[c].code \in Counted
          /\ stage[c] = "recovered" => answer[c].code = "Internal"
          /\ c \in Committed /\ answer[c].code = "OK" => answer[c].tx = c

CountInv ==
    /\ metrics \in Metrics
    /\ \A code \in Counted :
          metrics.RequestTotal[code] = Cardinality(Sent(code))
    /\ Cardinality(Posted) <= metrics.TxPostedTotal
    /\ metrics.TxPostedTotal <=
          Cardinality(Posted \cup (Recovered \cap Committed))
    /\ Cardinality(Replayed) <= metrics.IdempotencyReplay
    /\ metrics.IdempotencyReplay <=
          Cardinality(Replayed \cup (Recovered \ Committed))
    /\ Cardinality(Answered("Internal")) <= metrics.DBErrorTotal
    /\ metrics.DBErrorTotal <=
          2 * Cardinality(Answered("Internal") \cup Recovered)

\* Each counter equals the answers it stands for, give or take the calls that
\* panicked in between, whatever the interleaving with posting and crashes.
CountersMatchAnswers == StageInv /\ CountInv

=============================================================================
