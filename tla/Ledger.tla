------------------------------- MODULE Ledger -------------------------------
(***************************************************************************)
(* PostTransaction of the ledger service, run by any number of concurrent  *)
(* gRPC handlers against one MySQL database.                               *)
(*                                                                         *)
(* One action is one statement the handler sends (internal/ledger/         *)
(* mysql_repository.go), with the local code between it and the next one.  *)
(* The database is external: it is modelled by the committed contents of   *)
(* the three tables, by each open transaction's uncommitted writes, and by *)
(* the locks InnoDB takes at its default isolation, REPEATABLE READ:       *)
(*   - SELECT ... FOR UPDATE locks the row it finds, and reads its latest  *)
(*     committed version; when it finds none it locks the gap around it;   *)
(*   - gap locks are compatible with each other, and an INSERT waits until *)
(*     nobody else has locked the gap it falls in;                         *)
(*   - an INSERT of a unique value waits for the open transaction that has *)
(*     inserted the same value, then fails if that one committed;          *)
(*   - locks are held until commit or rollback, and one transaction of a   *)
(*     cycle of waits is rolled back.                                      *)
(***************************************************************************)
EXTENDS LedgerDomain, FiniteSets

CONSTANTS
    Call,         \* PostTransaction calls; a retry is another call
    Key,          \* idempotency keys
    Request,      \* the requests clients may send
    PoolSize,     \* SetMaxOpenConns
    None          \* no row, no lock holder, no transaction

ASSUME LedgerAssumption ==
    /\ Request \subseteq [key : Key, postings : Seq(Posting)]
    /\ PoolSize \in Nat \ {0}
    /\ None \notin Int64
    /\ None \notin Call

VARIABLES
    transactions, \* committed rows of ledger_transactions
    entries,      \* committed rows of ledger_entries
    balance,      \* committed rows of ledger_balances, None where no row is
    nextEntry,    \* AUTO_INCREMENT counter of ledger_entries
    lock,         \* holder of each balance row's exclusive lock
    gaps,         \* absent pairs whose gap each call has locked
    pc,           \* next statement of each call
    request,      \* request each call carries
    todo,         \* pairs the handler's current loop has still to visit
    index,        \* posting whose entry the handler inserts next
    balances,     \* the handler's balances map
    deltas,       \* the handler's deltas map
    pending,      \* entries inserted and not committed
    written,      \* balance rows inserted or updated and not committed
    answer        \* what the caller was told

tables == <<transactions, entries, balance>>
locks  == <<lock, gaps>>
local  == <<todo, index, balances, deltas>>
vars   == <<tables, nextEntry, locks, pc, request, local, pending, written,
            answer>>

-----------------------------------------------------------------------------
(* Answers.                                                                *)

NoAnswer == [code |-> "none", tx |-> None]
Ok(t)    == [code |-> "OK", tx |-> t]
Err(e)   == [code |-> e, tx |-> None]

\* domainToStatus, and "Lost" when the process died before answering.
Codes == {"InvalidArgument", "FailedPrecondition", "Internal", "Lost"}

Answer == {NoAnswer} \cup {Ok(t) : t \in Call} \cup {Err(e) : e \in Codes}

-----------------------------------------------------------------------------
(* The rows and who is inside a database transaction.                      *)

Transaction == [id : Call, key : Key]
Entry == [id : Nat \ {0}, tx : Call, posting : Posting]

Statements == {"find", "lock", "insertRow", "check", "entries", "update",
               "commit", "reply"}

\* The calls holding a connection of the pool.
Open == {c \in Call : pc[c] \in Statements}

\* The calls with an uncommitted row in ledger_transactions.
HoldsKey(c) == pc[c] \in {"entries", "update", "commit"}

PairsOfCall(c) == PairsOf(request[c].postings)

\* A record of the primary key index of ledger_balances, committed or not.
Present(p) == balance[p] # None \/ \E c \in Call : written[c][p] # None

\* The gap a missing pair lies in: nothing present from p to q.
Gap(p) ==
    {q \in Pair : /\ ~Present(q)
                  /\ \A r \in Pair : (Before(p, r) /\ Before(r, q)) \/
                                     (Before(q, r) /\ Before(r, p))
                                     => ~Present(r)}

-----------------------------------------------------------------------------

Init ==
    /\ transactions = {}
    /\ entries = {}
    /\ balance = [p \in Pair |-> None]
    /\ nextEntry = 1
    /\ lock = [p \in Pair |-> None]
    /\ gaps = [c \in Call |-> {}]
    /\ pc = [c \in Call |-> "new"]
    /\ request = [c \in Call |-> None]
    /\ todo = [c \in Call |-> {}]
    /\ index = [c \in Call |-> 1]
    /\ balances = [c \in Call |-> [a \in Account |-> 0]]
    /\ deltas = [c \in Call |-> [p \in Pair |-> 0]]
    /\ pending = [c \in Call |-> {}]
    /\ written = [c \in Call |-> [p \in Pair |-> None]]
    /\ answer = [c \in Call |-> NoAnswer]

-----------------------------------------------------------------------------
(* The end of a call: the deferred Rollback (a no-op after Commit), the    *)
(* connection back in the pool, and the answer.                            *)

\* What the calls of C leave of their locks and their uncommitted writes.
Rollback(C) ==
    /\ lock' = [p \in Pair |-> IF lock[p] \in C THEN None ELSE lock[p]]
    /\ gaps' = [c \in Call |-> IF c \in C THEN {} ELSE gaps[c]]
    /\ pending' = [c \in Call |-> IF c \in C THEN {} ELSE pending[c]]
    /\ written' = [c \in Call |-> IF c \in C THEN [p \in Pair |-> None]
                                             ELSE written[c]]

\* The handler's variables go out of scope.
Forget(C) ==
    /\ todo' = [c \in Call |-> IF c \in C THEN {} ELSE todo[c]]
    /\ index' = [c \in Call |-> IF c \in C THEN 1 ELSE index[c]]
    /\ balances' = [c \in Call |-> IF c \in C THEN [a \in Account |-> 0]
                                              ELSE balances[c]]
    /\ deltas' = [c \in Call |-> IF c \in C THEN [p \in Pair |-> 0]
                                            ELSE deltas[c]]

Return(c, a) ==
    /\ pc' = [pc EXCEPT ![c] = "done"]
    /\ answer' = [answer EXCEPT ![c] = a]
    /\ Rollback({c})
    /\ Forget({c})
    /\ UNCHANGED <<tables, nextEntry, request>>

-----------------------------------------------------------------------------
(* The handler.                                                            *)

\* A request arrives: Server.PostTransaction and Transaction.Validate.
Receive(c, r) ==
    /\ pc[c] = "new"
    /\ request' = [request EXCEPT ![c] = r]
    /\ IF r.key # "" /\ Validate(r.postings)
       THEN /\ pc' = [pc EXCEPT ![c] = "begin"]
            /\ UNCHANGED answer
       ELSE /\ pc' = [pc EXCEPT ![c] = "done"]
            /\ answer' = [answer EXCEPT ![c] = Err("InvalidArgument")]
    /\ UNCHANGED <<tables, nextEntry, locks, local, pending, written>>

\* BeginTx waits for a free connection.
Begin(c) ==
    /\ pc[c] = "begin"
    /\ Cardinality(Open) < PoolSize
    /\ pc' = [pc EXCEPT ![c] = "find"]
    /\ UNCHANGED <<tables, nextEntry, locks, request, local, pending,
                   written, answer>>

\* findByIdempotencyKey finds a committed transaction: it is the answer.
Replay(c) ==
    /\ pc[c] = "find"
    /\ \E t \in transactions :
          /\ t.key = request[c].key
          /\ Return(c, Ok(t.id))

\* Mutant: the key is looked up through db instead of dbTx, which takes a
\* second connection.
NotPostedOnPool(c) ==
    /\ pc[c] = "find"
    /\ Cardinality(Open) < PoolSize
    /\ \A t \in transactions : t.key # request[c].key
    /\ pc' = [pc EXCEPT ![c] = "lock"]
    /\ todo' = [todo EXCEPT ![c] = PairsOfCall(c)]
    /\ UNCHANGED <<tables, nextEntry, locks, request, index, balances,
                   deltas, pending, written, answer>>

\* findByIdempotencyKey finds nothing: collect and sort the pairs.
NotPosted(c) ==
    /\ pc[c] = "find"
    /\ \A t \in transactions : t.key # request[c].key
    /\ pc' = [pc EXCEPT ![c] = "lock"]
    /\ todo' = [todo EXCEPT ![c] = PairsOfCall(c)]
    /\ UNCHANGED <<tables, nextEntry, locks, request, index, balances,
                   deltas, pending, written, answer>>

\* The loop moves past pair p, having read b there.
LockedPair(c, p, b) ==
    /\ todo' = [todo EXCEPT ![c] = @ \ {p}]
    /\ balances' = [balances EXCEPT ![c][p[1]] = b]
    /\ pc' = [pc EXCEPT ![c] = IF todo[c] = {p} THEN "check" ELSE "lock"]

\* Mutant: SELECT without FOR UPDATE.
SelectUnlocked(c, p) ==
    /\ pc[c] = "lock"
    /\ IsFirst(p, todo[c])
    /\ balance[p] # None
    /\ LockedPair(c, p, balance[p])
    /\ UNCHANGED <<tables, nextEntry, locks, request, index, deltas, pending,
                   written, answer>>

\* SELECT ... FOR UPDATE of a row that exists, once nobody else holds it.
SelectForUpdate(c, p) ==
    /\ pc[c] = "lock"
    /\ IsFirst(p, todo[c])
    /\ lock[p] = None
    /\ balance[p] # None
    /\ lock' = [lock EXCEPT ![p] = c]
    /\ LockedPair(c, p, balance[p])
    /\ UNCHANGED <<tables, nextEntry, gaps, request, index, deltas, pending,
                   written, answer>>

\* SELECT ... FOR UPDATE of a missing row: sql.ErrNoRows, and a gap lock.
SelectMissing(c, p) ==
    /\ pc[c] = "lock"
    /\ IsFirst(p, todo[c])
    /\ lock[p] = None
    /\ balance[p] = None
    /\ gaps' = [gaps EXCEPT ![c] = @ \cup Gap(p)]
    /\ pc' = [pc EXCEPT ![c] = "insertRow"]
    /\ UNCHANGED <<tables, nextEntry, lock, request, local, pending,
                   written, answer>>

\* INSERT of the zero balance row, once nobody else has locked its gap.
InsertBalanceRow(c, p) ==
    /\ pc[c] = "insertRow"
    /\ IsFirst(p, todo[c])
    /\ \A d \in Call \ {c} : p \notin gaps[d]
    /\ ~Present(p)
    /\ lock' = [lock EXCEPT ![p] = c]
    /\ written' = [written EXCEPT ![c][p] = 0]
    /\ LockedPair(c, p, 0)
    /\ UNCHANGED <<tables, nextEntry, gaps, request, index, deltas, pending,
                   answer>>

\* Mutant: the early return leaves the transaction open.
RejectStayingOpen(c) ==
    /\ pc[c] = "check"
    /\ ~CheckOverdraft(request[c].postings, balances[c])
    /\ pc' = [pc EXCEPT ![c] = "done"]
    /\ answer' = [answer EXCEPT ![c] = Err("FailedPrecondition")]
    /\ Forget({c})
    /\ UNCHANGED <<tables, nextEntry, locks, request, pending, written>>

\* CheckOverdraft fails, with every row of the request locked.
RejectOverdraft(c) ==
    /\ pc[c] = "check"
    /\ ~CheckOverdraft(request[c].postings, balances[c])
    /\ Return(c, Err("FailedPrecondition"))

\* Another open transaction has inserted the same idempotency key.
KeyBusy(c) ==
    \E d \in Call \ {c} : HoldsKey(d) /\ request[d].key = request[c].key

\* Mutant: no UNIQUE index on idempotency_key.
InsertAnyKey(c) ==
    /\ pc[c] = "check"
    /\ CheckOverdraft(request[c].postings, balances[c])
    /\ pc' = [pc EXCEPT ![c] = "entries"]
    /\ UNCHANGED <<tables, nextEntry, locks, request, local, pending,
                   written, answer>>

\* Mutant: the row is inserted with r.db, outside the database transaction.
InsertAutocommit(c) ==
    /\ pc[c] = "check"
    /\ CheckOverdraft(request[c].postings, balances[c])
    /\ ~KeyBusy(c)
    /\ \A t \in transactions : t.key # request[c].key
    /\ transactions' = transactions \cup
                         {[id |-> c, key |-> request[c].key]}
    /\ pc' = [pc EXCEPT ![c] = "entries"]
    /\ UNCHANGED <<entries, balance, nextEntry, locks, request, local,
                   pending, written, answer>>

\* CheckOverdraft passes and the ledger_transactions row goes in.  The id is
\* a fresh UUID: the call stands for it.
InsertTransaction(c) ==
    /\ pc[c] = "check"
    /\ CheckOverdraft(request[c].postings, balances[c])
    /\ ~KeyBusy(c)
    /\ \A t \in transactions : t.key # request[c].key
    /\ pc' = [pc EXCEPT ![c] = "entries"]
    /\ UNCHANGED <<tables, nextEntry, locks, request, local, pending,
                   written, answer>>

\* The unique key refuses the ledger_transactions row.
DuplicateKey(c) ==
    /\ pc[c] = "check"
    /\ CheckOverdraft(request[c].postings, balances[c])
    /\ ~KeyBusy(c)
    /\ \E t \in transactions : t.key = request[c].key
    /\ Return(c, Err("Internal"))

\* Mutant: deltas[pair] = amount.
Overwrite(delta, amount) == amount

\* deltas[pair] += amount.
Add(delta, amount) == Wrap(delta + amount)

\* INSERT of the next entry.  The loop that aggregates the deltas is local
\* and runs over the same postings, so it advances here too.
InsertEntry(c) ==
    LET postings == request[c].postings
        n        == index[c]
        p        == postings[n]
        e        == [id |-> nextEntry, tx |-> c, posting |-> p]
    IN
    /\ pc[c] = "entries"
    /\ nextEntry' = nextEntry + 1
    /\ index' = [index EXCEPT ![c] = @ + 1]
    /\ pending' = [pending EXCEPT ![c] = @ \cup {e}]
    /\ deltas' = [deltas EXCEPT ![c][PairOf(p)] = Add(@, p.amount)]
    /\ IF n = Len(postings)
       THEN /\ pc' = [pc EXCEPT ![c] = "update"]
            /\ todo' = [todo EXCEPT ![c] = PairsOfCall(c)]
       ELSE UNCHANGED <<pc, todo>>
    /\ UNCHANGED <<tables, locks, request, balances, written, answer>>

\* The version of balance row p that call c's UPDATE reads.
Current(c, p) == IF written[c][p] # None THEN written[c][p] ELSE balance[p]

\* Mutant: MySQL stores what does not fit.
AnySum(n) == TRUE

\* A sum a BIGINT column can hold; MySQL refuses others with error 1690.
Storable(n) == n \in Int64

\* UPDATE ledger_balances SET balance = balance + delta.
UpdateBalance(c, p) ==
    LET new == Current(c, p) + deltas[c][p] IN
    /\ pc[c] = "update"
    /\ IsFirst(p, todo[c])
    /\ lock[p] \in {None, c}
    /\ Storable(new)
    /\ lock' = [lock EXCEPT ![p] = c]
    /\ written' = [written EXCEPT ![c][p] = new]
    /\ todo' = [todo EXCEPT ![c] = @ \ {p}]
    /\ pc' = [pc EXCEPT ![c] = IF todo[c] = {p} THEN "commit" ELSE "update"]
    /\ UNCHANGED <<tables, nextEntry, gaps, request, index, balances,
                   deltas, pending, answer>>

\* The new balance does not fit.
UpdateOutOfRange(c, p) ==
    /\ pc[c] = "update"
    /\ IsFirst(p, todo[c])
    /\ lock[p] \in {None, c}
    /\ ~Storable(Current(c, p) + deltas[c][p])
    /\ Return(c, Err("Internal"))

\* COMMIT takes effect in MySQL.
Commit(c) ==
    /\ pc[c] = "commit"
    /\ transactions' = transactions \cup
                         {[id |-> c, key |-> request[c].key]}
    /\ entries' = entries \cup pending[c]
    /\ balance' = [p \in Pair |-> IF written[c][p] # None THEN written[c][p]
                                                          ELSE balance[p]]
    /\ pc' = [pc EXCEPT ![c] = "reply"]
    /\ Rollback({c})
    /\ Forget({c})
    /\ UNCHANGED <<nextEntry, request, answer>>

\* Commit returned nil.
Reply(c) ==
    /\ pc[c] = "reply"
    /\ Return(c, Ok(c))

-----------------------------------------------------------------------------
(* What goes wrong.                                                        *)

\* Mutant: the error of Commit is ignored.
FailIgnoredAtCommit(c) ==
    /\ c \in Open \/ pc[c] = "begin"
    /\ Return(c, IF pc[c] = "commit" THEN Ok(c) ELSE Err("Internal"))

\* A statement returns an error: a lost connection, a lock wait timeout, a
\* cancelled context.  At "reply" it is COMMIT that took effect and whose
\* acknowledgement was lost.  A refusal sends no statement that could fail.
Fail(c) ==
    /\ c \in Open \/ pc[c] = "begin"
    /\ pc[c] = "check" => CheckOverdraft(request[c].postings, balances[c])
    /\ Return(c, Err("Internal"))

\* Who call c waits for.
WaitsFor(c) ==
    {d \in Call \ {c} :
        \/ pc[c] = "lock" /\ \E p \in Pair : IsFirst(p, todo[c]) /\ lock[p] = d
        \/ pc[c] = "insertRow" /\ \E p \in gaps[d] : IsFirst(p, todo[c])
        \/ /\ pc[c] = "check" /\ HoldsKey(d) /\ request[d].key = request[c].key
           /\ CheckOverdraft(request[c].postings, balances[c])}

\* c is on a cycle of waits: some injection sends each call of a set with c
\* to one of the set that it waits for.
WaitsInCycle(S) ==
    \E next \in Injection(S, S) : \A d \in S : next[d] \in WaitsFor(d)

Deadlocked(c) ==
    \E S \in SUBSET {d \in Call : WaitsFor(d) # {}} : c \in S /\ WaitsInCycle(S)

\* Mutant: the victim of a deadlock starts over.
RestartVictim(c) ==
    /\ Deadlocked(c)
    /\ pc' = [pc EXCEPT ![c] = "begin"]
    /\ Rollback({c})
    /\ Forget({c})
    /\ UNCHANGED <<tables, nextEntry, request, answer>>

\* InnoDB breaks a cycle by rolling one of its transactions back.
DeadlockVictim(c) ==
    /\ Deadlocked(c)
    /\ Return(c, Err("Internal"))

\* The ledger process dies: MySQL rolls back what was open, and no call that
\* was in the process is ever answered.
Crash ==
    LET C == {c \in Call : pc[c] \notin {"new", "done"}} IN
    /\ C # {}
    /\ pc' = [c \in Call |-> IF c \in C THEN "done" ELSE pc[c]]
    /\ answer' = [c \in Call |-> IF c \in C THEN Err("Lost") ELSE answer[c]]
    /\ Rollback(C)
    /\ Forget(C)
    /\ UNCHANGED <<tables, nextEntry, request>>

-----------------------------------------------------------------------------

\* What the handler and MySQL do for a call by themselves.
Step(c) ==
    \/ Begin(c)
    \/ Replay(c)
    \/ NotPosted(c)
    \/ \E p \in Pair : SelectForUpdate(c, p)
    \/ \E p \in Pair : SelectMissing(c, p)
    \/ \E p \in Pair : InsertBalanceRow(c, p)
    \/ RejectOverdraft(c)
    \/ InsertTransaction(c)
    \/ DuplicateKey(c)
    \/ InsertEntry(c)
    \/ \E p \in Pair : UpdateBalance(c, p)
    \/ \E p \in Pair : UpdateOutOfRange(c, p)
    \/ Commit(c)
    \/ Reply(c)
    \/ DeadlockVictim(c)

\* The other steps.
Disturb(c) ==
    \/ \E r \in Request : Receive(c, r)
    \/ Fail(c)

AllDone == \A c \in Call : pc[c] = "done"

\* The bound on calls is reached: the model stops, the service would not.
Finished == AllDone /\ UNCHANGED vars

Next ==
    \/ \E c \in Call : Step(c) \/ Disturb(c)
    \/ Crash
    \/ Finished

Spec == Init /\ [][Next]_vars

\* The handler runs on and MySQL answers: each call keeps taking its steps.
Fairness == \A c \in Call : WF_vars(Step(c))

-----------------------------------------------------------------------------
(* Properties.                                                             *)

\* Every variable keeps to the values the code's types and tables allow.
TypeOK ==
    /\ transactions \subseteq Transaction
    /\ entries \subseteq Entry
    /\ balance \in [Pair -> Int64 \cup {None}]
    /\ nextEntry \in Nat \ {0}
    /\ lock \in [Pair -> Call \cup {None}]
    /\ gaps \in [Call -> SUBSET Pair]
    /\ pc \in [Call -> Statements \cup {"new", "begin", "done"}]
    /\ request \in [Call -> Request \cup {None}]
    /\ todo \in [Call -> SUBSET Pair]
    /\ index \in [Call -> Nat \ {0}]
    /\ balances \in [Call -> [Account -> Int64]]
    /\ deltas \in [Call -> [Pair -> Int64]]
    /\ pending \in [Call -> SUBSET Entry]
    /\ written \in [Call -> [Pair -> Int64 \cup {None}]]
    /\ answer \in [Call -> Answer]

\* GetBalance of the repository: no row counts as zero.
GetBalance(p) == IF balance[p] = None THEN 0 ELSE balance[p]

\* loadPostings: the postings of a transaction, ordered by entry id.
LoadPostings(t) ==
    LET rows == {e \in entries : e.tx = t}
        rank(e) == Cardinality({f \in rows : f.id <= e.id})
    IN  [i \in 1 .. Cardinality(rows) |->
            (CHOOSE e \in rows : rank(e) = i).posting]

\* An idempotency key is posted at most once, however many calls carry it
\* at the same time, fail, crash or are retried.
OneTransactionPerKey ==
    \A t, u \in transactions : t.key = u.key => t = u

\* PostTransaction is atomic: a committed transaction has the entries of its
\* postings, all of them, in the order in which loadPostings will give them
\* back to a replay, and no other entry is ever committed.
EntriesMatchTransactions ==
    /\ \A t \in transactions : LoadPostings(t.id) = request[t.id].postings
    /\ \A e \in entries : \E t \in transactions : t.id = e.tx

\* ledger_balances is the sum of ledger_entries: no update is lost and none
\* is applied twice.  The handler's int64 deltas may wrap, hence Wrap.
BalancesMatchEntries ==
    \A p \in Pair :
        GetBalance(p) =
        Wrap(SumFunction([e \in {f \in entries : PairOf(f.posting) = p} |->
                              e.posting.amount]))

\* Double entry: the balances of an asset add up to zero over all accounts, in
\* the code's int64 arithmetic, so that no posting, failure or crash creates or
\* destroys money.
BooksBalance ==
    \A a \in Asset :
        Wrap(SumFunction([x \in Account |-> GetBalance(<<x, a>>)])) = 0

\* "ErrOverdraft if applying the postings would cause any account balance to
\* go negative": no committed balance of a user account is below zero.
NoOverdraft ==
    \A p \in Pair : p[1] \notin Exempt => GetBalance(p) >= 0

\* What CheckOverdraft compares with is still the committed balance when the
\* verdict is used, although other calls commit in between.
ReadsStayCurrent ==
    \A c \in Call : pc[c] \in {"check", "entries", "update", "commit"} =>
        \A p \in PairsOfCall(c) : balances[c][p[1]] = GetBalance(p)

\* The answer tells the truth: OK names a committed transaction with the
\* caller's key, and a definite refusal means this call posted nothing.
AnswersAreTrue ==
    \A c \in Call :
        /\ answer[c].code = "OK" =>
              [id |-> answer[c].tx, key |-> request[c].key] \in transactions
        /\ answer[c].code \in {"InvalidArgument", "FailedPrecondition"} =>
              \A t \in transactions : t.id # c

\* The sorted lock order does its work: calls that wait for existing rows or
\* for a unique key never wait in a cycle.  (An INSERT waiting for a gap can.)
LockOrderAvoidsCycles ==
    \A S \in SUBSET {c \in Call : pc[c] # "insertRow"} :
        S # {} => ~WaitsInCycle(S)

\* Call c is not made to wait: its next statement returns when it is sent.  These
\* are the guards of Step, written out because the provers have no ENABLED.
CanGoOn(c) ==
    \/ pc[c] \in {"find", "entries", "commit", "reply"}
    \/ pc[c] = "begin" /\ Cardinality(Open) < PoolSize
    \/ /\ pc[c] = "check"
       /\ CheckOverdraft(request[c].postings, balances[c]) => ~KeyBusy(c)
    \/ \E p \in Pair :
          /\ IsFirst(p, todo[c])
          /\ \/ pc[c] = "lock" /\ lock[p] = None
             \/ /\ pc[c] = "insertRow" /\ ~Present(p)
                /\ \A d \in Call \ {c} : p \notin gaps[d]
             \/ pc[c] = "update" /\ lock[p] \in {None, c}

\* The service never stands still: while a call is in progress some call can go
\* on, or is on a cycle of waits, which InnoDB finds and breaks.  No call waits
\* for a lock, a gap, a key or a connection that nobody is left to release.
NoStandstill ==
    (\E c \in Call : pc[c] \notin {"new", "done"}) =>
        \E c \in Call : CanGoOn(c) \/ Deadlocked(c)

\* The statements call c still sends at most, its BEGIN and its answer included.
StatementsLeft(c) ==
    LET length == Len(request[c].postings)
        pairs  == Cardinality(PairsOfCall(c))
    IN
    CASE pc[c] = "begin"     -> 5 + 3 * pairs + length
      [] pc[c] = "find"      -> 4 + 3 * pairs + length
      [] pc[c] = "lock"      -> 3 + pairs + length + 2 * Cardinality(todo[c])
      [] pc[c] = "insertRow" -> 2 + pairs + length + 2 * Cardinality(todo[c])
      [] pc[c] = "check"     -> 3 + pairs + length
      [] pc[c] = "entries"   -> 3 + pairs + length - index[c]
      [] pc[c] = "update"    -> 2 + Cardinality(todo[c])
      [] pc[c] = "commit"    -> 2
      [] pc[c] = "reply"     -> 1
      [] OTHER               -> 0

\* No livelock: whatever the calls do to each other, a step that is not the
\* arrival of a request brings one of them closer to its end, and none sends
\* any of them back to statements it has done: losing a lock, a key or the
\* process ends a call and never starts it over.
StatementsRunOut ==
    [][/\ \E c \in Call : \/ pc[c] = "new" /\ pc'[c] # "new"
                          \/ StatementsLeft(c)' < StatementsLeft(c)
       /\ \A c \in Call : pc[c] # "new" =>
             StatementsLeft(c)' <= StatementsLeft(c)]_vars

\* Entries of an account become visible in entry id order, although ids are
\* allocated at INSERT and not at COMMIT: a page cursor never jumps over an
\* entry that is committed later.
EntriesAppearInOrder ==
    [][\A e \in entries' \ entries, f \in entries :
          PairOf(e.posting) = PairOf(f.posting) => f.id < e.id]_vars

\* Every call that reaches the handler is answered: waits end, and so do
\* cycles of waits.
EveryCallAnswered ==
    \A c \in Call : pc[c] = "begin" ~> pc[c] = "done"

-----------------------------------------------------------------------------
(* What comments of the repository say, and the code does not do.           *)

\* "posting amounts sum to exactly zero": so do those of what is posted.
PostingsSumToZero ==
    \A t \in transactions : ExactSum(request[t.id].postings) = 0

\* "This avoids INSERT IGNORE gap locks that cause deadlocks": no deadlock.
NoDeadlock == \A c \in Call : ~Deadlocked(c)

\* "If a transaction with the same idempotency key already exists, the
\* existing transaction is returned": nobody is refused for lack of funds
\* while the transaction with its own key is already posted.
PostedKeyIsReplayed ==
    [][\A c \in Call :
          answer'[c] # answer[c] /\ answer'[c].code = "FailedPrecondition" =>
              \A t \in transactions : t.key # request[c].key]_vars

=============================================================================
