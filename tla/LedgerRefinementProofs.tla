----------------------- MODULE LedgerRefinementProofs -----------------------
(***************************************************************************)
(* A committed transaction has the entries of its postings, all of them    *)
(* and in order; the balances are the sums of the committed entries; and   *)
(* the handlers over the database implement the atomic ledger.             *)
(***************************************************************************)
EXTENDS LedgerProofs, LedgerRefinement, SequenceTheorems

-----------------------------------------------------------------------------
(* Recorded entries.                                                       *)

\* The entry of posting i of call t, under entry id n.
Row(t, i, n) == [id |-> n, tx |-> t, posting |-> request[t].postings[i]]

\* Entry ids that are handed out one after the other.
Increasing(ids, n) ==
    /\ ids \in [1 .. n -> Nat]
    /\ \A i, j \in 1 .. n : i < j => ids[i] < ids[j]

RowsUpTo(t, ids, n) == {Row(t, i, ids[i]) : i \in 1 .. n}

\* E is the entries of the first n postings of call t, in order.
Recorded(E, t, n) == \E ids : Increasing(ids, n) /\ E = RowsUpTo(t, ids, n)

\* How many entries call c has inserted and not committed.
InsertedSoFar(c) ==
    IF pc[c] = "entries" THEN index[c] - 1
    ELSE IF pc[c] \in {"update", "commit"} THEN Len(request[c].postings)
    ELSE 0

EntriesOf(t) == {e \in entries : e.tx = t}

RecordInv ==
    /\ \A c \in Call : Recorded(pending[c], c, InsertedSoFar(c))
    /\ \A t \in transactions :
          /\ request[t.id] \in Request
          /\ Recorded(EntriesOf(t.id), t.id, Len(request[t.id].postings))
    /\ \A e \in entries : \E t \in transactions : t.id = e.tx

-----------------------------------------------------------------------------
(* What loadPostings makes of recorded entries.                            *)

\* The first k of n rows are k.
LEMMA CountRows ==
    ASSUME NEW t, NEW n \in Nat, NEW ids, Increasing(ids, n), NEW k \in 0 .. n
    PROVE  Cardinality(RowsUpTo(t, ids, k)) = k
<1> DEFINE f == [i \in 1 .. k |-> Row(t, i, ids[i])]
<1>1. \A i, j \in 1 .. k : ids[i] = ids[j] => i = j
  BY DEF Increasing
<1>2. \A i, j \in 1 .. k : Row(t, i, ids[i]) = Row(t, j, ids[j]) => ids[i] = ids[j]
  BY DEF Row
<1>3. f \in Bijection(1 .. k, RowsUpTo(t, ids, k))
  <2>1. f \in [1 .. k -> RowsUpTo(t, ids, k)]
    BY DEF RowsUpTo
  <2>2. \A i, j \in 1 .. k : f[i] = f[j] => i = j
    BY <1>1, <1>2
  <2>3. \A e \in RowsUpTo(t, ids, k) : \E i \in 1 .. k : f[i] = e
    BY DEF RowsUpTo
  <2> HIDE DEF f
  <2>4. f \in Injection(1 .. k, RowsUpTo(t, ids, k))
    BY <2>1, <2>2 DEF Injection, IsInjective
  <2>5. f \in Surjection(1 .. k, RowsUpTo(t, ids, k))
    BY <2>1, <2>3 DEF Surjection
  <2>6. QED
    BY <2>4, <2>5 DEF Bijection
<1>4. IsFiniteSet(1 .. k) /\ Cardinality(1 .. k) = k
  BY FS_Interval
<1> HIDE DEF f
<1>5. QED
  BY <1>3, <1>4, FS_Bijection DEF ExistsBijection

\* Ranked by id, the rows are in the order of the postings.
LEMMA LoadRecorded ==
    ASSUME NEW t, request[t].postings \in Seq(Posting),
           Recorded(EntriesOf(t), t, Len(request[t].postings))
    PROVE  LoadPostings(t) = request[t].postings
<1> DEFINE postings == request[t].postings
           n == Len(postings)
           rows == EntriesOf(t)
           rank(e) == Cardinality({f \in rows : f.id <= e.id})
<1>1. PICK ids : Increasing(ids, n) /\ rows = RowsUpTo(t, ids, n)
  BY DEF Recorded
<1>2. n \in Nat /\ postings = [i \in 1 .. n |-> postings[i]]
  OBVIOUS
<1>3. Cardinality(rows) = n
  BY <1>1, <1>2, CountRows
<1>4. ASSUME NEW i \in 1 .. n PROVE rank(Row(t, i, ids[i])) = i
  <2>1. {f \in rows : f.id <= Row(t, i, ids[i]).id} = RowsUpTo(t, ids, i)
    <3>1. \A j \in 1 .. n : Row(t, j, ids[j]).id = ids[j]
      BY DEF Row
    <3>2. \A j \in 1 .. n : ids[j] <= ids[i] <=> j <= i
      BY <1>1 DEF Increasing
    <3>3. QED
      BY <1>1, <1>2, <3>1, <3>2 DEF RowsUpTo
  <2>2. Cardinality(RowsUpTo(t, ids, i)) = i
    BY <1>1, <1>2, CountRows
  <2>3. QED
    BY <2>1, <2>2
<1>5. ASSUME NEW i \in 1 .. n
      PROVE  (CHOOSE e \in rows : rank(e) = i).posting = postings[i]
  <2>1. Row(t, i, ids[i]) \in rows
    BY <1>1 DEF RowsUpTo
  <2>2. \A e \in rows : rank(e) = i => e = Row(t, i, ids[i])
    BY <1>1, <1>4 DEF RowsUpTo
  <2>3. (CHOOSE e \in rows : rank(e) = i) = Row(t, i, ids[i])
    <3> HIDE DEF rank, rows
    <3>1. QED
      BY <1>4, <2>1, <2>2
  <2>4. Row(t, i, ids[i]).posting = postings[i]
    BY DEF Row
  <2> HIDE DEF rank, rows
  <2>5. QED
    BY <2>3, <2>4
<1>6. LoadPostings(t) =
        [i \in 1 .. Cardinality(rows) |->
            (CHOOSE e \in rows : rank(e) = i).posting]
  BY DEF LoadPostings, EntriesOf
<1>7. QED
  BY <1>2, <1>3, <1>5, <1>6

-----------------------------------------------------------------------------
(* Entries are recorded one by one, and published together.                *)

\* A call that has inserted nothing yet.
LEMMA NothingRecorded == ASSUME NEW t PROVE Recorded({}, t, 0)
<1> DEFINE ids == [i \in 1 .. 0 |-> 0]
<1>1. Increasing(ids, 0) /\ RowsUpTo(t, ids, 0) = {}
  BY DEF Increasing, RowsUpTo
<1> HIDE DEF ids
<1>2. QED
  BY <1>1 DEF Recorded

\* A row with a higher id than the others extends them.
LEMMA RecordNext ==
    ASSUME NEW t, NEW E, NEW n \in Nat, Recorded(E, t, n),
           NEW m \in Nat, \A e \in E : e.id < m
    PROVE  Recorded(E \cup {Row(t, n + 1, m)}, t, n + 1)
<1>1. PICK ids : Increasing(ids, n) /\ E = RowsUpTo(t, ids, n)
  BY DEF Recorded
<1> DEFINE ids2 == [i \in 1 .. n + 1 |-> IF i = n + 1 THEN m ELSE ids[i]]
<1>2. ASSUME NEW i \in 1 .. n PROVE ids[i] < m /\ ids2[i] = ids[i]
  <2>1. Row(t, i, ids[i]) \in E /\ Row(t, i, ids[i]).id = ids[i]
    BY <1>1 DEF RowsUpTo, Row
  <2>2. ids[i] < m
    BY <2>1
  <2>3. ids2[i] = ids[i]
    OBVIOUS
  <2>4. QED
    BY <2>2, <2>3
<1>3. Increasing(ids2, n + 1)
  <2>1. ids2 \in [1 .. n + 1 -> Nat]
    BY <1>1 DEF Increasing
  <2>2. ASSUME NEW i \in 1 .. n + 1, NEW j \in 1 .. n + 1, i < j
        PROVE  ids2[i] < ids2[j]
    <3>1. CASE j = n + 1
      <4>1. i \in 1 .. n /\ ids2[j] = m
        BY <2>2, <3>1
      <4>2. QED
        BY <1>2, <4>1
    <3>2. CASE j # n + 1
      <4>1. i \in 1 .. n /\ j \in 1 .. n
        BY <2>2, <3>2
      <4>2. QED
        BY <1>1, <1>2, <2>2, <4>1 DEF Increasing
    <3>3. QED
      BY <3>1, <3>2
  <2>3. QED
    BY <2>1, <2>2 DEF Increasing
<1>4. RowsUpTo(t, ids2, n + 1) = E \cup {Row(t, n + 1, m)}
  <2>1. \A i \in 1 .. n + 1 : i \in 1 .. n \/ i = n + 1
    OBVIOUS
  <2>2. 1 .. n \subseteq 1 .. n + 1 /\ n + 1 \in 1 .. n + 1 /\ ids2[n + 1] = m
    OBVIOUS
  <2> HIDE DEF ids2
  <2>3. QED
    BY <1>1, <1>2, <2>1, <2>2 DEF RowsUpTo
<1> HIDE DEF ids2
<1>5. QED
  BY <1>3, <1>4 DEF Recorded

\* What is recorded stays so while the request stays.
LEMMA RecordedStays ==
    ASSUME NEW E, NEW t, NEW n, Recorded(E, t, n), request'[t] = request[t]
    PROVE  Recorded(E, t, n)'
BY DEF Recorded, RowsUpTo, Row

\* The empty schema.
LEMMA InitRecordInv == Init => RecordInv
BY NothingRecorded DEF Init, RecordInv, InsertedSoFar

\* A step that leaves the tables, the requests past Receive and the pending
\* entries alone, but for calls that end.
LEMMA QuietStep ==
    ASSUME IndInv, RecordInv, NEW C \in SUBSET Call,
           UNCHANGED <<transactions, entries>>,
           \A d \in Call : pc[d] # "new" => request'[d] = request[d],
           \A d \in Call \ C :
               /\ pending'[d] = pending[d]
               /\ InsertedSoFar(d)' = InsertedSoFar(d)
               /\ request'[d] = request[d],
           \A d \in C : pending'[d] = {} /\ InsertedSoFar(d)' = 0
    PROVE  RecordInv'
<1>1. ASSUME NEW d \in Call
      PROVE  Recorded(pending[d], d, InsertedSoFar(d))'
  <2>1. CASE d \in C
    <3>1. Recorded({}, d, 0)'
      BY NothingRecorded, RecordedStays DEF Recorded, RowsUpTo, Row, Increasing
    <3>2. QED
      BY <2>1, <3>1
  <2>2. CASE d \notin C
    BY <2>2, RecordedStays DEF RecordInv
  <2>3. QED
    BY <2>1, <2>2
<1>2. ASSUME NEW t \in transactions
      PROVE  /\ request'[t.id] = request[t.id]
             /\ Recorded(EntriesOf(t.id), t.id, Len(request[t.id].postings))'
  <2>1. t.id \in Call /\ pc[t.id] # "new"
    BY DEF IndInv, TypeOK, Transaction, TransactionInv
  <2>2. request'[t.id] = request[t.id] /\ EntriesOf(t.id)' = EntriesOf(t.id)
    BY <2>1 DEF EntriesOf
  <2>3. QED
    BY <2>2, RecordedStays DEF RecordInv
<1>3. QED
  BY <1>1, <1>2 DEF RecordInv

\* A handler that returns without a COMMIT.
LEMMA ReturnRecords ==
    ASSUME IndInv, RecordInv, NEW c \in Call, NEW a, Return(c, a)
    PROVE  RecordInv'
<1>1. pc \in [Call -> Statements \cup {"new", "begin", "done"}]
  BY DEF IndInv, TypeOK
<1>2. UNCHANGED <<transactions, entries, request>>
  BY DEF Return, tables
<1>3. \A d \in Call \ {c} : /\ pending'[d] = pending[d]
                           /\ InsertedSoFar(d)' = InsertedSoFar(d)
  BY <1>1, <1>2 DEF Return, Rollback, Forget, InsertedSoFar
<1>4. pending'[c] = {} /\ InsertedSoFar(c)' = 0
  BY <1>1 DEF Return, Rollback, InsertedSoFar
<1>5. QED
  BY <1>2, <1>3, <1>4, QuietStep

\* The next posting's entry, under the highest id so far.
LEMMA InsertEntryRecords ==
    ASSUME IndInv, RecordInv, NEW c \in Call, InsertEntry(c)
    PROVE  RecordInv'
<1> DEFINE n == index[c]
<1>1. /\ pc[c] = "entries" /\ n \in Nat \ {0}
      /\ n \in DOMAIN request[c].postings
      /\ request[c].postings \in Seq(Posting)
      /\ nextEntry \in Nat
      /\ pc \in [Call -> Statements \cup {"new", "begin", "done"}]
      /\ index \in [Call -> Nat \ {0}]
      /\ pending \in [Call -> SUBSET Entry]
  BY RequestFacts DEF InsertEntry, IndInv, TypeOK, IndexInv, RequestInv
<1>2. /\ index' = [index EXCEPT ![c] = @ + 1]
      /\ pending' = [pending EXCEPT ![c] = @ \cup {Row(c, n, nextEntry)}]
      /\ UNCHANGED <<transactions, entries, request>>
      /\ IF n = Len(request[c].postings) THEN pc' = [pc EXCEPT ![c] = "update"]
                                         ELSE UNCHANGED pc
  BY DEF InsertEntry, tables, Row
<1>3. ASSUME NEW d \in Call \ {c}
      PROVE  Recorded(pending[d], d, InsertedSoFar(d))'
  <2>1. pending'[d] = pending[d] /\ InsertedSoFar(d)' = InsertedSoFar(d)
    BY <1>1, <1>2 DEF InsertedSoFar
  <2>2. QED
    BY <1>2, <2>1, RecordedStays DEF RecordInv
<1>4. Recorded(pending[c], c, InsertedSoFar(c))'
  <2>1. Recorded(pending[c], c, n - 1)
    BY <1>1 DEF RecordInv, InsertedSoFar
  <2>2. \A e \in pending[c] : e.id < nextEntry
    BY DEF IndInv, EntryInv
  <2>3. n - 1 \in Nat /\ (n - 1) + 1 = n
    BY <1>1
  <2>4. Recorded(pending[c] \cup {Row(c, n, nextEntry)}, c, n)
    <3> HIDE DEF n
    <3>1. Recorded(pending[c] \cup {Row(c, (n - 1) + 1, nextEntry)}, c,
                   (n - 1) + 1)
      BY <1>1, <2>1, <2>2, <2>3, RecordNext
    <3>2. QED
      BY <2>3, <3>1
  <2>5. pending'[c] = pending[c] \cup {Row(c, n, nextEntry)}
    BY <1>1, <1>2
  <2>6. InsertedSoFar(c)' = n
    BY <1>1, <1>2 DEF InsertedSoFar
  <2> HIDE DEF n
  <2>7. QED
    BY <1>2, <2>4, <2>5, <2>6, RecordedStays
<1>5. ASSUME NEW t \in transactions
      PROVE  /\ request'[t.id] \in Request
             /\ Recorded(EntriesOf(t.id), t.id, Len(request[t.id].postings))'
  <2>1. EntriesOf(t.id)' = EntriesOf(t.id)
    BY <1>2 DEF EntriesOf
  <2>2. QED
    BY <1>2, <2>1, RecordedStays DEF RecordInv
<1>6. QED
  BY <1>2, <1>3, <1>4, <1>5 DEF RecordInv

\* COMMIT publishes all of them, and no other entry of this transaction.
LEMMA CommitRecords ==
    ASSUME IndInv, RecordInv, NEW c \in Call, Commit(c)
    PROVE  RecordInv'
<1> DEFINE new == [id |-> c, key |-> request[c].key]
<1>1. /\ pc[c] = "commit"
      /\ transactions' = transactions \cup {new}
      /\ entries' = entries \cup pending[c]
      /\ UNCHANGED request
      /\ pc' = [pc EXCEPT ![c] = "reply"]
      /\ pc \in [Call -> Statements \cup {"new", "begin", "done"}]
  BY DEF Commit, IndInv, TypeOK
<1>2. ASSUME NEW d \in Call \ {c}
      PROVE  /\ pending'[d] = pending[d] /\ InsertedSoFar(d)' = InsertedSoFar(d)
  BY <1>1 DEF Commit, Rollback, Forget, InsertedSoFar
<1>3. pending'[c] = {} /\ InsertedSoFar(c)' = 0
  BY <1>1 DEF Commit, Rollback, InsertedSoFar
<1>4. ASSUME NEW d \in Call
      PROVE  Recorded(pending[d], d, InsertedSoFar(d))'
  <2>1. CASE d = c
    <3>1. Recorded({}, d, 0)'
      BY NothingRecorded, RecordedStays DEF Recorded, RowsUpTo, Row, Increasing
    <3>2. QED
      BY <1>3, <2>1, <3>1
  <2>2. CASE d # c
    BY <1>1, <1>2, <2>2, RecordedStays DEF RecordInv
  <2>3. QED
    BY <2>1, <2>2
<1>5. \A e \in pending[c] : e.tx = c
  BY DEF RecordInv, Recorded, RowsUpTo, Row
<1>6. \A t \in transactions : t.id # c
  BY <1>1 DEF IndInv, TransactionInv
<1>7. \A e \in entries : e.tx # c
  BY <1>6 DEF RecordInv
<1>8. /\ EntriesOf(c)' = pending[c]
      /\ \A t \in transactions : EntriesOf(t.id)' = EntriesOf(t.id)
  BY <1>1, <1>5, <1>6, <1>7 DEF EntriesOf
<1>9. request[c] \in Request /\ InsertedSoFar(c) = Len(request[c].postings)
  BY <1>1 DEF IndInv, RequestInv, InsertedSoFar
<1>10. ASSUME NEW t \in transactions'
       PROVE  /\ request'[t.id] \in Request
              /\ Recorded(EntriesOf(t.id), t.id, Len(request[t.id].postings))'
  <2>1. CASE t \in transactions
    BY <1>1, <1>8, <2>1, RecordedStays DEF RecordInv
  <2>2. CASE t = new
    <3>1. t.id = c
      BY <2>2
    <3>2. Recorded(pending[c], c, Len(request[c].postings))
      BY <1>9 DEF RecordInv
    <3>3. QED
      BY <1>1, <1>8, <1>9, <3>1, <3>2, RecordedStays
  <2>3. QED
    BY <1>1, <2>1, <2>2
<1>11. ASSUME NEW e \in entries' PROVE \E t \in transactions' : t.id = e.tx
  <2>1. CASE e \in entries
    BY <1>1, <2>1 DEF RecordInv
  <2>2. CASE e \in pending[c]
    <3>1. new \in transactions' /\ new.id = c
      BY <1>1
    <3>2. QED
      BY <1>5, <2>2, <3>1
  <2>3. QED
    BY <1>1, <2>1, <2>2
<1>12. QED
  BY <1>4, <1>10, <1>11 DEF RecordInv

\* The other statements.
LEMMA CallRecords ==
    ASSUME IndInv, RecordInv, NEW c \in Call, Step(c) \/ Disturb(c)
    PROVE  RecordInv'
<1>0. /\ pc \in [Call -> Statements \cup {"new", "begin", "done"}]
      /\ request \in [Call -> Request \cup {None}]
  BY DEF IndInv, TypeOK
<1>1. CASE InsertEntry(c)
  BY <1>1, InsertEntryRecords
<1>2. CASE Commit(c)
  BY <1>2, CommitRecords
<1>3. CASE \/ Replay(c) \/ RejectOverdraft(c) \/ DuplicateKey(c) \/ Reply(c)
           \/ DeadlockVictim(c) \/ Fail(c)
           \/ \E p \in Pair : UpdateOutOfRange(c, p)
  BY <1>3, ReturnRecords
  DEF Replay, RejectOverdraft, DuplicateKey, Reply, DeadlockVictim, Fail,
      UpdateOutOfRange
<1>4. CASE \/ Begin(c) \/ NotPosted(c)
           \/ \E p \in Pair : \/ SelectForUpdate(c, p) \/ SelectMissing(c, p)
                              \/ InsertBalanceRow(c, p)
  <2>1. PICK label \in {"find", "lock", "insertRow", "check"} :
           pc' = [pc EXCEPT ![c] = label]
    BY <1>4
    DEF Begin, NotPosted, SelectForUpdate, SelectMissing, InsertBalanceRow,
        LockedPair
  <2>2. /\ pc[c] \in {"begin", "find", "lock", "insertRow"}
        /\ UNCHANGED <<transactions, entries, request, pending, index>>
    BY <1>4
    DEF Begin, NotPosted, SelectForUpdate, SelectMissing, InsertBalanceRow,
        tables, local
  <2>3. \A d \in Call : InsertedSoFar(d)' = InsertedSoFar(d)
    BY <1>0, <2>1, <2>2 DEF InsertedSoFar
  <2>4. {} \in SUBSET Call
    OBVIOUS
  <2>5. QED
    BY <2>2, <2>3, <2>4, QuietStep
<1>5. CASE InsertTransaction(c)
  <2>1. /\ pc[c] = "check" /\ pc' = [pc EXCEPT ![c] = "entries"]
        /\ UNCHANGED <<transactions, entries, request, pending, index>>
    BY <1>5 DEF InsertTransaction, tables, local
  <2>2. index[c] = 1
    BY <2>1 DEF IndInv, LoopInv, Inserted
  <2>3. \A d \in Call : InsertedSoFar(d)' = InsertedSoFar(d)
    BY <1>0, <2>1, <2>2 DEF InsertedSoFar
  <2>4. {} \in SUBSET Call
    OBVIOUS
  <2>5. QED
    BY <2>1, <2>3, <2>4, QuietStep
<1>6. ASSUME NEW p \in Pair, UpdateBalance(c, p) PROVE RecordInv'
  <2>1. PICK label \in {"update", "commit"} : pc' = [pc EXCEPT ![c] = label]
    BY <1>6 DEF UpdateBalance
  <2>2. /\ pc[c] = "update"
        /\ UNCHANGED <<transactions, entries, request, pending, index>>
    BY <1>6 DEF UpdateBalance, tables
  <2>3. \A d \in Call : InsertedSoFar(d)' = InsertedSoFar(d)
    BY <1>0, <2>1, <2>2 DEF InsertedSoFar
  <2>4. {} \in SUBSET Call
    OBVIOUS
  <2>5. QED
    BY <2>2, <2>3, <2>4, QuietStep
<1>7. ASSUME NEW r \in Request, Receive(c, r) PROVE RecordInv'
  <2>1. /\ pc[c] = "new" /\ pc'[c] \in {"begin", "done"}
        /\ \A d \in Call \ {c} : pc'[d] = pc[d] /\ request'[d] = request[d]
        /\ UNCHANGED <<transactions, entries, pending, index>>
    BY <1>0, <1>7 DEF Receive, tables, local
  <2>2. \A d \in Call \ {c} : InsertedSoFar(d)' = InsertedSoFar(d)
    BY <2>1 DEF InsertedSoFar
  <2>3. pending'[c] = {} /\ InsertedSoFar(c)' = 0
    <3>1. InsertedSoFar(c) = 0
      BY <2>1 DEF InsertedSoFar
    <3>2. pending[c] = {}
      BY <3>1 DEF RecordInv, Recorded, RowsUpTo
    <3>3. QED
      BY <2>1, <3>2 DEF InsertedSoFar
  <2>4. \A d \in Call : pc[d] # "new" => request'[d] = request[d]
    BY <2>1
  <2>5. {c} \in SUBSET Call
    OBVIOUS
  <2>6. QED
    BY <2>1, <2>2, <2>3, <2>4, <2>5, QuietStep
<1>8. QED
  BY <1>1, <1>2, <1>3, <1>4, <1>5, <1>6, <1>7 DEF Step, Disturb

\* Every step keeps what is recorded of the transactions.
LEMMA NextRecordInv ==
    ASSUME IndInv, RecordInv, [Next]_vars PROVE RecordInv'
<1>1. CASE UNCHANGED vars
  <2>1. /\ UNCHANGED <<transactions, entries, request, pending>>
        /\ \A d \in Call : InsertedSoFar(d)' = InsertedSoFar(d)
    BY <1>1 DEF vars, tables, local, InsertedSoFar
  <2>2. {} \in SUBSET Call
    OBVIOUS
  <2>3. QED
    BY <2>1, <2>2, QuietStep
<1>2. CASE Crash
  <2> DEFINE C == {c \in Call : pc[c] \notin {"new", "done"}}
  <2>1. /\ pc' = [c \in Call |-> IF c \in C THEN "done" ELSE pc[c]]
        /\ Rollback(C) /\ Forget(C)
        /\ UNCHANGED <<transactions, entries, request>>
    BY <1>2 DEF Crash, tables
  <2>2. C \in SUBSET Call
    OBVIOUS
  <2> HIDE DEF C
  <2>3. /\ \A d \in Call \ C : /\ pending'[d] = pending[d]
                               /\ InsertedSoFar(d)' = InsertedSoFar(d)
        /\ \A d \in C : pending'[d] = {} /\ InsertedSoFar(d)' = 0
    BY <2>1, <2>2 DEF Rollback, Forget, InsertedSoFar
  <2>4. QED
    BY <2>1, <2>2, <2>3, QuietStep
<1>3. ASSUME NEW c \in Call, Step(c) \/ Disturb(c) PROVE RecordInv'
  BY <1>3, CallRecords
<1>4. QED
  BY <1>1, <1>2, <1>3 DEF Next, Finished

-----------------------------------------------------------------------------
(* Theorems.                                                               *)

\* Each committed transaction has the entries of its postings.
LEMMA RecordInvMatches == RecordInv => EntriesMatchTransactions
BY LoadRecorded, LedgerAssumption DEF RecordInv, EntriesMatchTransactions

\* EntriesMatchTransactions: whatever fails or crashes in between, a committed
\* transaction has the entries of its postings, all of them and in order.
THEOREM PostingsAreWhole == Spec => []EntriesMatchTransactions
<1>1. IndInv /\ RecordInv /\ [Next]_vars => RecordInv'
  BY NextRecordInv
<1>2. QED
  BY InitRecordInv, <1>1, RecordInvMatches, Invariance, PTL DEF Spec

-----------------------------------------------------------------------------
(* Wrapping sums.                                                          *)

\* Wrapping a part of a sum first makes no difference.
LEMMA WrapSum ==
    ASSUME NEW a \in Int, NEW b \in Int
    PROVE  /\ Wrap(Wrap(a) + b) = Wrap(a + b)
           /\ Wrap(a + Wrap(b)) = Wrap(a + b)
<1> DEFINE m == 2 * Half
<1>1. m \in Nat \ {0} /\ Half \in Int
  BY DomainAssumption
<1>2. ASSUME NEW c \in Int
      PROVE  Wrap(c) = ((c + Half) % m) - Half /\ (c + Half) % m \in Int
  <2>1. Wrap(c) = ((c + Half) % m) - Half
    BY DEF Wrap
  <2> HIDE DEF m
  <2>2. c + Half \in Int
    BY <1>1
  <2>3. (c + Half) % m \in Int
    <3>1. (c + Half) % m \in 0 .. m - 1
      BY <1>1, <2>2, Remainder, Zenon
    <3>2. QED
      BY <3>1
  <2>4. QED
    BY <2>1, <2>3
<1> HIDE DEF m
<1>3. ASSUME NEW c \in Int
      PROVE  \E k \in Int : m * k \in Int /\ Wrap(c) = c + m * k
  <2> DEFINE d == (c + Half) \div m
             k == -d
  <2>1. c + Half \in Int
    BY <1>1
  <2>2. /\ d \in Int
        /\ c + Half = m * d + ((c + Half) % m)
    BY <1>1, <2>1, Remainder
  <2> HIDE DEF d
  <2>3. m * k = -(m * d) /\ m * d \in Int
    BY <1>1, <2>2
  <2>4. Wrap(c) = c - m * d
    <3> DEFINE r == (c + Half) % m
               md == m * d
    <3>1. c + Half = md + r /\ Wrap(c) = r - Half /\ r \in Int /\ md \in Int
      BY <1>2, <2>2, <2>3
    <3> HIDE DEF r, md
    <3>2. Wrap(c) = c - md
      BY <1>1, <3>1
    <3>3. QED
      BY <3>2 DEF md
  <2>5. k \in Int /\ m * k \in Int /\ Wrap(c) = c + m * k
    BY <2>2, <2>3, <2>4
  <2>6. QED
    BY <2>5
<1>4. ASSUME NEW c \in Int, NEW d \in Int, NEW k \in Int, m * k \in Int,
             c = d + m * k
      PROVE  Wrap(c) = Wrap(d)
  <2>1. c + Half = (d + Half) + m * k /\ c + Half \in Int /\ d + Half \in Int
    BY <1>1, <1>4
  <2>2. (c + Half) % m = (d + Half) % m
    BY <1>1, <2>1, SameRemainder
  <2>3. QED
    BY <1>2, <2>2
<1>5. PICK k \in Int : m * k \in Int /\ Wrap(a) = a + m * k
  BY <1>3
<1>6. PICK l \in Int : m * l \in Int /\ Wrap(b) = b + m * l
  BY <1>3
<1>7. /\ Wrap(a) + b = (a + b) + m * k
      /\ a + Wrap(b) = (a + b) + m * l
      /\ a + b \in Int /\ Wrap(a) + b \in Int /\ a + Wrap(b) \in Int
  BY <1>5, <1>6
<1>8. QED
  BY <1>4, <1>5, <1>6, <1>7

\* The sums over entries and over postings.
AmountOf == [e \in Entry |-> e.posting.amount]
EntriesAt(E, p) == {e \in E : PairOf(e.posting) = p}
SumAt(E, p) == SumOver(AmountOf, EntriesAt(E, p))

Amounts(postings) == [i \in DOMAIN postings |-> postings[i].amount]
PostingsAt(postings, n, p) ==
    {i \in DOMAIN postings : i <= n /\ PairOf(postings[i]) = p}
SumUpTo(postings, n, p) == SumOver(Amounts(postings), PostingsAt(postings, n, p))

\* The amounts of the entries can be added up.
LEMMA EntryIntegers ==
    ASSUME NEW E \in SUBSET Entry, IsFiniteSet(E), NEW p
    PROVE  /\ IntegersOn(AmountOf, EntriesAt(E, p))
           /\ SumAt(E, p) \in Int
<1>1. \A e \in EntriesAt(E, p) : AmountOf[e] \in Int
  BY DomainAssumption DEF EntriesAt, AmountOf, Entry, Posting, Int64
<1>2. IsFiniteSet(EntriesAt(E, p))
  BY FS_Subset DEF EntriesAt
<1>3. QED
  BY <1>1, <1>2, SumOverInt DEF IntegersOn, SumAt

\* Adding up the entries of two disjoint sets.
LEMMA SumAtUnion ==
    ASSUME NEW E \in SUBSET Entry, IsFiniteSet(E),
           NEW F \in SUBSET Entry, IsFiniteSet(F), E \cap F = {}, NEW p
    PROVE  SumAt(E \cup F, p) = SumAt(E, p) + SumAt(F, p)
<1>1. EntriesAt(E \cup F, p) = EntriesAt(E, p) \cup EntriesAt(F, p)
  BY DEF EntriesAt
<1>2. EntriesAt(E, p) \cap EntriesAt(F, p) = {}
  BY DEF EntriesAt
<1>3. IntegersOn(AmountOf, EntriesAt(E, p) \cup EntriesAt(F, p))
  BY EntryIntegers, FS_Union DEF IntegersOn
<1>4. QED
  BY <1>1, <1>2, <1>3, SumOverUnion DEF SumAt

\* One entry more.
LEMMA SumAtInsert ==
    ASSUME NEW E \in SUBSET Entry, IsFiniteSet(E), NEW e \in Entry, e \notin E,
           NEW p
    PROVE  SumAt(E \cup {e}, p) =
              SumAt(E, p) + (IF PairOf(e.posting) = p THEN e.posting.amount ELSE 0)
<1>1. SumAt(E, p) \in Int
  BY EntryIntegers
<1>2. CASE PairOf(e.posting) = p
  <2>1. EntriesAt(E \cup {e}, p) = EntriesAt(E, p) \cup {e}
    BY <1>2 DEF EntriesAt
  <2>2. e \notin EntriesAt(E, p)
    BY DEF EntriesAt
  <2>3. IsFiniteSet(E \cup {e}) /\ E \cup {e} \in SUBSET Entry
    BY FS_AddElement
  <2>4. IntegersOn(AmountOf, EntriesAt(E, p) \cup {e})
    BY <2>1, <2>3, EntryIntegers
  <2>5. SumAt(E \cup {e}, p) = AmountOf[e] + SumAt(E, p)
    BY <2>1, <2>2, <2>4, SumOverInsert DEF SumAt
  <2>6. AmountOf[e] = e.posting.amount /\ AmountOf[e] \in Int
    BY <2>4 DEF AmountOf, IntegersOn
  <2>7. QED
    BY <1>1, <1>2, <2>5, <2>6
<1>3. CASE PairOf(e.posting) # p
  <2>1. EntriesAt(E \cup {e}, p) = EntriesAt(E, p)
    BY <1>3 DEF EntriesAt
  <2>2. QED
    BY <1>1, <1>3, <2>1 DEF SumAt
<1>4. QED
  BY <1>2, <1>3

\* So can those of the postings.
LEMMA PostingIntegers ==
    ASSUME NEW postings \in Seq(Posting), NEW n \in Nat, NEW p
    PROVE  /\ IntegersOn(Amounts(postings), PostingsAt(postings, n, p))
           /\ SumUpTo(postings, n, p) \in Int
<1>1. \A i \in DOMAIN postings : postings[i] \in Posting
  OBVIOUS
<1>2. \A i \in PostingsAt(postings, n, p) : Amounts(postings)[i] \in Int
  BY <1>1, DomainAssumption DEF PostingsAt, Amounts, Posting, Int64
<1>3. IsFiniteSet(PostingsAt(postings, n, p))
  <2>1. DOMAIN postings = 1 .. Len(postings) /\ Len(postings) \in Nat
    OBVIOUS
  <2>2. IsFiniteSet(DOMAIN postings)
    BY <2>1, FS_Interval
  <2>3. QED
    BY <2>2, FS_Subset DEF PostingsAt
<1>4. QED
  BY <1>2, <1>3, SumOverInt DEF IntegersOn, SumUpTo

\* One posting more.
LEMMA SumUpToNext ==
    ASSUME NEW postings \in Seq(Posting), NEW n \in DOMAIN postings, NEW p
    PROVE  SumUpTo(postings, n, p) =
              SumUpTo(postings, n - 1, p)
                + (IF PairOf(postings[n]) = p THEN postings[n].amount ELSE 0)
<1>0. n \in Nat /\ n - 1 \in Nat /\ DOMAIN postings \subseteq Nat
  OBVIOUS
<1>1. SumUpTo(postings, n - 1, p) \in Int
  BY <1>0, PostingIntegers
<1>2. CASE PairOf(postings[n]) = p
  <2>1. PostingsAt(postings, n, p) = PostingsAt(postings, n - 1, p) \cup {n}
    BY <1>0, <1>2 DEF PostingsAt
  <2>2. n \notin PostingsAt(postings, n - 1, p)
    BY <1>0 DEF PostingsAt
  <2>3. IntegersOn(Amounts(postings), PostingsAt(postings, n - 1, p) \cup {n})
    BY <1>0, <2>1, PostingIntegers
  <2>4. SumUpTo(postings, n, p) =
          Amounts(postings)[n] + SumUpTo(postings, n - 1, p)
    BY <2>1, <2>2, <2>3, SumOverInsert DEF SumUpTo
  <2>5. Amounts(postings)[n] = postings[n].amount /\ Amounts(postings)[n] \in Int
    BY <2>3 DEF Amounts, IntegersOn
  <2>6. QED
    BY <1>1, <1>2, <2>4, <2>5
<1>3. CASE PairOf(postings[n]) # p
  <2>1. PostingsAt(postings, n, p) = PostingsAt(postings, n - 1, p)
    BY <1>0, <1>3 DEF PostingsAt
  <2>2. QED
    BY <1>1, <1>3, <2>1 DEF SumUpTo
<1>4. QED
  BY <1>2, <1>3

-----------------------------------------------------------------------------
(* Balances and deltas are sums.                                           *)

\* The deltas of call c are the sums of the entries it has inserted, and of
\* the postings they come from.
SumsInv(c) ==
    \A p \in Pair :
        /\ deltas[c][p] = Wrap(SumAt(pending[c], p))
        /\ deltas[c][p] = Wrap(SumUpTo(request[c].postings, InsertedSoFar(c), p))

\* The update loop has written every pair it has passed.
UpdatedInv(c) ==
    pc[c] \in {"update", "commit"} =>
        \A p \in PairsOfCall(c) \ todo[c] : written[c][p] # None

BalanceInv ==
    /\ IsFiniteSet(entries)
    /\ \A p \in Pair : GetBalance(p) = Wrap(SumAt(entries, p))
    /\ \A c \in Call :
          /\ IsFiniteSet(pending[c])
          /\ pc[c] \in Inserted => SumsInv(c)
          /\ UpdatedInv(c)

\* Without entries the sum is zero.
LEMMA NoSum == ASSUME NEW p PROVE Wrap(SumAt({}, p)) = 0
<1>1. EntriesAt({}, p) = {}
  BY DEF EntriesAt
<1>2. SumAt({}, p) = 0
  BY <1>1, SumOverEmpty DEF SumAt
<1>3. QED
  BY <1>2, WrapIdentity, ZeroIsInt64

\* The empty schema.
LEMMA InitBalanceInv == Init => BalanceInv
BY NoSum, FS_EmptySet
DEF Init, BalanceInv, GetBalance, Inserted, UpdatedInv

\* A step that leaves the tables alone, and the calls between their INSERT and
\* their COMMIT.
LEMMA QuietBalances ==
    ASSUME BalanceInv, UNCHANGED <<entries, balance>>,
           \A c \in Call : IsFiniteSet(pending'[c]),
           \A c \in Call : pc'[c] \in Inserted =>
              /\ pc'[c] = pc[c]
              /\ request'[c] = request[c]
              /\ index'[c] = index[c]
              /\ todo'[c] = todo[c]
              /\ deltas'[c] = deltas[c]
              /\ pending'[c] = pending[c]
              /\ written'[c] = written[c]
    PROVE  BalanceInv'
<1>1. \A p \in Pair : GetBalance(p)' = Wrap(SumAt(entries, p))'
  BY DEF BalanceInv, GetBalance, SumAt, EntriesAt
<1>2. ASSUME NEW c \in Call, pc'[c] \in Inserted
      PROVE  SumsInv(c)' /\ UpdatedInv(c)'
  <2>1. InsertedSoFar(c)' = InsertedSoFar(c) /\ PairsOfCall(c)' = PairsOfCall(c)
    BY <1>2 DEF InsertedSoFar, PairsOfCall
  <2>2. SumsInv(c) /\ UpdatedInv(c)
    BY <1>2 DEF BalanceInv
  <2>3. QED
    BY <1>2, <2>1, <2>2 DEF SumsInv, UpdatedInv
<1>3. ASSUME NEW c \in Call, pc'[c] \notin Inserted PROVE UpdatedInv(c)'
  BY <1>3 DEF UpdatedInv, Inserted
<1>4. QED
  BY <1>1, <1>2, <1>3 DEF BalanceInv

\* The end of the calls of C.
LEMMA EndKeepsBalances ==
    ASSUME BalanceInv, NEW C \in SUBSET Call,
           pc' = [c \in Call |-> IF c \in C THEN "done" ELSE pc[c]],
           Rollback(C), Forget(C), UNCHANGED <<tables, request>>
    PROVE  BalanceInv'
<1>1. ASSUME NEW c \in C PROVE pc'[c] \notin Inserted /\ pending'[c] = {}
  BY DEF Rollback, Inserted
<1>2. ASSUME NEW c \in Call \ C
      PROVE  /\ pc'[c] = pc[c]
             /\ index'[c] = index[c]
             /\ todo'[c] = todo[c]
             /\ deltas'[c] = deltas[c]
             /\ pending'[c] = pending[c]
             /\ written'[c] = written[c]
  BY DEF Rollback, Forget
<1>3. \A c \in Call : IsFiniteSet(pending'[c])
  BY <1>1, <1>2, FS_EmptySet DEF BalanceInv
<1>4. UNCHANGED <<entries, balance>> /\ request' = request
  BY DEF tables
<1>5. QED
  BY <1>1, <1>2, <1>3, <1>4, QuietBalances

\* A handler that returns without a COMMIT.
LEMMA ReturnKeepsBalances ==
    ASSUME IndInv, BalanceInv, NEW c \in Call, NEW a, Return(c, a)
    PROVE  BalanceInv'
<1>1. pc' = [d \in Call |-> IF d \in {c} THEN "done" ELSE pc[d]]
  BY DEF Return, IndInv, TypeOK
<1>2. Rollback({c}) /\ Forget({c}) /\ UNCHANGED <<tables, request>>
  BY DEF Return
<1>3. QED
  BY <1>1, <1>2, EndKeepsBalances

\* The first entry is still to come.
LEMMA InsertTransactionKeepsBalances ==
    ASSUME IndInv, RecordInv, BalanceInv, NEW c \in Call, InsertTransaction(c)
    PROVE  BalanceInv'
<1>1. /\ pc[c] = "check" /\ pc' = [pc EXCEPT ![c] = "entries"]
      /\ UNCHANGED <<entries, balance, request, index, todo, deltas, pending,
                     written>>
      /\ pc \in [Call -> Statements \cup {"new", "begin", "done"}]
  BY DEF InsertTransaction, tables, local, IndInv, TypeOK
<1>2. pending[c] = {}
  <2>1. Recorded(pending[c], c, 0)
    BY <1>1 DEF RecordInv, InsertedSoFar
  <2>2. QED
    BY <2>1 DEF Recorded, RowsUpTo
<1>3. index[c] = 1 /\ \A p \in Pair : deltas[c][p] = 0
  BY <1>1 DEF IndInv, LoopInv, Inserted
<1>4. InsertedSoFar(c)' = 0
  BY <1>1, <1>3 DEF InsertedSoFar
<1>5. ASSUME NEW p \in Pair
      PROVE  Wrap(SumUpTo(request[c].postings, 0, p)) = 0
  <2>1. request[c].postings \in Seq(Posting)
    BY <1>1, RequestFacts DEF IndInv, RequestInv
  <2>2. PostingsAt(request[c].postings, 0, p) = {}
    BY <2>1 DEF PostingsAt
  <2>3. SumUpTo(request[c].postings, 0, p) = 0
    BY <2>2, SumOverEmpty DEF SumUpTo
  <2>4. QED
    BY <2>3, WrapIdentity, ZeroIsInt64
<1>6. SumsInv(c)'
  BY <1>1, <1>2, <1>3, <1>4, <1>5, NoSum DEF SumsInv
<1>7. ASSUME NEW d \in Call
      PROVE  /\ IsFiniteSet(pending'[d])
             /\ pc'[d] \in Inserted => SumsInv(d)'
             /\ UpdatedInv(d)'
  <2>1. CASE d = c
    BY <1>1, <1>6, <2>1 DEF BalanceInv, UpdatedInv
  <2>2. CASE d # c
    <3>1. pc'[d] = pc[d]
      BY <1>1, <2>2
    <3>2. InsertedSoFar(d)' = InsertedSoFar(d) /\ PairsOfCall(d)' = PairsOfCall(d)
      BY <1>1, <3>1 DEF InsertedSoFar, PairsOfCall
    <3>3. QED
      BY <1>1, <3>1, <3>2 DEF BalanceInv, SumsInv, UpdatedInv
  <2>3. QED
    BY <2>1, <2>2
<1>8. QED
  BY <1>1, <1>7 DEF BalanceInv, GetBalance, SumAt, EntriesAt

\* One entry more on both sides.
LEMMA InsertEntryKeepsBalances ==
    ASSUME IndInv, BalanceInv, NEW c \in Call, InsertEntry(c)
    PROVE  BalanceInv'
<1> DEFINE postings == request[c].postings
           n        == index[c]
           p        == postings[n]
           e        == [id |-> nextEntry, tx |-> c, posting |-> p]
<1>1. /\ pc[c] = "entries"
      /\ index' = [index EXCEPT ![c] = @ + 1]
      /\ pending' = [pending EXCEPT ![c] = @ \cup {e}]
      /\ deltas' = [deltas EXCEPT ![c][PairOf(p)] = Wrap(@ + p.amount)]
      /\ \/ /\ n = Len(postings)
            /\ pc' = [pc EXCEPT ![c] = "update"]
            /\ todo' = [todo EXCEPT ![c] = PairsOfCall(c)]
         \/ n # Len(postings) /\ UNCHANGED <<pc, todo>>
      /\ UNCHANGED <<entries, balance, request, written>>
  BY DEF InsertEntry, Add, tables, locks
<1>2. /\ request[c] \in Request
      /\ postings \in Seq(Posting)
      /\ n \in DOMAIN postings
  BY <1>1, RequestFacts DEF IndInv, RequestInv, IndexInv
<1>3. p \in Posting /\ PairOf(p) \in PairsOfCall(c) /\ PairOf(p) \in Pair
  BY <1>2, RequestFacts
<1>4. p.amount \in Int
  BY <1>3, DomainAssumption DEF Posting, Int64
<1>5. /\ pc \in [Call -> Statements \cup {"new", "begin", "done"}]
      /\ index \in [Call -> Nat \ {0}]
      /\ todo \in [Call -> SUBSET Pair]
      /\ deltas \in [Call -> [Pair -> Int64]]
      /\ pending \in [Call -> SUBSET Entry]
      /\ nextEntry \in Nat \ {0}
  BY DEF IndInv, TypeOK
<1>6. e \in Entry /\ e \notin pending[c]
  <2>1. e \in Entry
    BY <1>3, <1>5 DEF Entry
  <2>2. \A f \in pending[c] : f.id < nextEntry
    BY DEF IndInv, EntryInv
  <2>3. QED
    BY <1>5, <2>1, <2>2
<1>7. /\ pending'[c] = pending[c] \cup {e}
      /\ index'[c] = n + 1
      /\ \A d \in Call \ {c} : /\ pc'[d] = pc[d]
                               /\ index'[d] = index[d]
                               /\ todo'[d] = todo[d]
                               /\ deltas'[d] = deltas[d]
                               /\ pending'[d] = pending[d]
  BY <1>1, <1>5
<1>8. ASSUME NEW q \in Pair
      PROVE  deltas'[c][q] = IF PairOf(p) = q THEN Wrap(deltas[c][q] + p.amount)
                                              ELSE deltas[c][q]
  BY <1>1, <1>3, <1>5
<1>9. InsertedSoFar(c) = n - 1 /\ InsertedSoFar(c)' = n
  <2>1. InsertedSoFar(c) = n - 1
    BY <1>1 DEF InsertedSoFar
  <2>2. CASE n = Len(postings)
    BY <1>1, <1>5, <1>7, <2>2 DEF InsertedSoFar
  <2>3. CASE n # Len(postings)
    <3>1. pc'[c] = "entries" /\ index'[c] = n + 1 /\ n \in Int
      BY <1>1, <1>5, <1>7, <2>3
    <3> HIDE DEF n
    <3>2. QED
      BY <2>1, <3>1 DEF InsertedSoFar
  <2>4. QED
    BY <2>1, <2>2, <2>3
<1> HIDE DEF postings, n, p, e
<1>10. IsFiniteSet(pending[c]) /\ pending[c] \in SUBSET Entry /\ SumsInv(c)
  BY <1>1, <1>5 DEF BalanceInv, Inserted
<1>11. ASSUME NEW q \in Pair
       PROVE  /\ deltas'[c][q] = Wrap(SumAt(pending'[c], q))
              /\ deltas'[c][q] = Wrap(SumUpTo(postings, n, q))
  <2> DEFINE a == SumAt(pending[c], q)
             b == SumUpTo(postings, n - 1, q)
             x == IF PairOf(p) = q THEN p.amount ELSE 0
  <2>1. SumAt(pending'[c], q) = a + x
    BY <1>6, <1>7, <1>10, SumAtInsert DEF e
  <2>2. SumUpTo(postings, n, q) = b + x
    BY <1>2, SumUpToNext DEF p
  <2>3. a \in Int /\ b \in Int
    <3>1. n - 1 \in Nat
      BY <1>2
    <3>2. QED
      BY <1>2, <1>10, <3>1, EntryIntegers, PostingIntegers
  <2>4. deltas[c][q] = Wrap(a) /\ deltas[c][q] = Wrap(b)
    BY <1>9, <1>10 DEF SumsInv, postings
  <2> HIDE DEF a, b
  <2>5. CASE PairOf(p) = q
    BY <1>4, <1>8, <2>1, <2>2, <2>3, <2>4, <2>5, WrapSum
  <2>6. CASE PairOf(p) # q
    <3>1. x = 0 /\ deltas'[c][q] = deltas[c][q]
      BY <1>8, <2>6
    <3> HIDE DEF x
    <3>2. a + x = a /\ b + x = b
      BY <2>3, <3>1
    <3>3. QED
      BY <2>1, <2>2, <2>4, <3>1, <3>2
  <2>7. QED
    BY <2>5, <2>6
<1>12. SumsInv(c)'
  BY <1>1, <1>9, <1>11 DEF SumsInv, postings
<1>13. UpdatedInv(c)'
  <2>1. PairsOfCall(c)' = PairsOfCall(c)
    BY <1>1 DEF PairsOfCall
  <2>2. pc'[c] \in {"update", "commit"} => todo'[c] = PairsOfCall(c)
    BY <1>1, <1>5
  <2>3. QED
    BY <2>1, <2>2 DEF UpdatedInv
<1>14. ASSUME NEW d \in Call
       PROVE  /\ IsFiniteSet(pending'[d])
              /\ pc'[d] \in Inserted => SumsInv(d)'
              /\ UpdatedInv(d)'
  <2>1. CASE d = c
    BY <1>7, <1>10, <1>12, <1>13, <2>1, FS_AddElement
  <2>2. CASE d # c
    <3>1. InsertedSoFar(d)' = InsertedSoFar(d) /\ PairsOfCall(d)' = PairsOfCall(d)
      BY <1>1, <1>7, <2>2 DEF InsertedSoFar, PairsOfCall
    <3>2. QED
      BY <1>1, <1>7, <2>2, <3>1 DEF BalanceInv, SumsInv, UpdatedInv
  <2>3. QED
    BY <2>1, <2>2
<1>15. QED
  BY <1>1, <1>14 DEF BalanceInv, GetBalance, SumAt, EntriesAt

\* One pair of the update loop.
LEMMA UpdateBalanceKeepsBalances ==
    ASSUME IndInv, BalanceInv, NEW c \in Call, NEW p \in Pair, UpdateBalance(c, p)
    PROVE  BalanceInv'
<1> DEFINE new == Current(c, p) + deltas[c][p]
<1>1. /\ pc[c] = "update" /\ new \in Int64
      /\ written' = [written EXCEPT ![c][p] = new]
      /\ todo' = [todo EXCEPT ![c] = @ \ {p}]
      /\ pc' = [pc EXCEPT ![c] = IF todo[c] = {p} THEN "commit" ELSE "update"]
      /\ UNCHANGED <<entries, balance, request, index, deltas, pending>>
  BY DEF UpdateBalance, Storable, tables
<1>2. /\ pc \in [Call -> Statements \cup {"new", "begin", "done"}]
      /\ todo \in [Call -> SUBSET Pair]
      /\ written \in [Call -> [Pair -> Int64 \cup {None}]]
  BY DEF IndInv, TypeOK
<1> HIDE DEF new
<1>3. new # None
  BY <1>1, LedgerAssumption
<1>4. /\ pc'[c] \in {"update", "commit"}
      /\ todo'[c] = todo[c] \ {p}
      /\ \A q \in Pair : written'[c][q] = IF q = p THEN new ELSE written[c][q]
      /\ \A d \in Call \ {c} : /\ pc'[d] = pc[d] /\ todo'[d] = todo[d]
                               /\ written'[d] = written[d]
  BY <1>1, <1>2
<1>5. ASSUME NEW d \in Call
      PROVE  /\ InsertedSoFar(d)' = InsertedSoFar(d)
             /\ PairsOfCall(d)' = PairsOfCall(d)
             /\ pc'[d] \in Inserted <=> pc[d] \in Inserted
  BY <1>1, <1>4 DEF InsertedSoFar, PairsOfCall, Inserted
<1>6. PairsOfCall(c) \subseteq Pair
  BY <1>1, RequestFacts DEF IndInv, RequestInv
<1>7. UpdatedInv(c)'
  BY <1>1, <1>3, <1>4, <1>5, <1>6 DEF BalanceInv, UpdatedInv
<1>8. ASSUME NEW d \in Call
      PROVE  /\ IsFiniteSet(pending'[d])
             /\ pc'[d] \in Inserted => SumsInv(d)'
             /\ UpdatedInv(d)'
  <2>1. IsFiniteSet(pending'[d]) /\ (pc'[d] \in Inserted => SumsInv(d)')
    BY <1>1, <1>5 DEF BalanceInv, SumsInv
  <2>2. d # c => UpdatedInv(d)'
    BY <1>4, <1>5 DEF BalanceInv, UpdatedInv
  <2>3. QED
    BY <1>7, <2>1, <2>2
<1>9. QED
  BY <1>1, <1>8 DEF BalanceInv, GetBalance, SumAt, EntriesAt

\* COMMIT adds the deltas to the balances and the entries to the entries.
LEMMA CommitKeepsBalances ==
    ASSUME IndInv, BalanceInv, NEW c \in Call, Commit(c)
    PROVE  /\ BalanceInv'
           /\ \A p \in Pair : GetBalance(p)' = GetBalance(p) +
                 (IF p \in PairsOfCall(c) THEN deltas[c][p] ELSE 0)
<1>1. /\ pc[c] = "commit"
      /\ entries' = entries \cup pending[c]
      /\ balance' = [p \in Pair |-> IF written[c][p] # None THEN written[c][p]
                                                            ELSE balance[p]]
      /\ pc' = [pc EXCEPT ![c] = "reply"]
      /\ Rollback({c}) /\ Forget({c}) /\ UNCHANGED request
  BY DEF Commit
<1>2. /\ entries \in SUBSET Entry /\ pending[c] \in SUBSET Entry
      /\ pc \in [Call -> Statements \cup {"new", "begin", "done"}]
      /\ written \in [Call -> [Pair -> Int64 \cup {None}]]
      /\ balance \in [Pair -> Int64 \cup {None}]
  BY DEF IndInv, TypeOK
<1>3. /\ IsFiniteSet(entries) /\ IsFiniteSet(pending[c])
      /\ SumsInv(c) /\ UpdatedInv(c) /\ todo[c] = {}
  BY <1>1 DEF BalanceInv, Inserted, IndInv, TodoInv, Locking
<1>4. entries \cap pending[c] = {}
  <2>1. \A e \in pending[c], f \in entries :
           PairOf(e.posting) = PairOf(f.posting) => f.id < e.id
    BY DEF IndInv, EntryInv
  <2>2. \A e \in entries : ~(e.id < e.id)
    BY <1>2 DEF Entry
  <2>3. QED
    BY <2>1, <2>2
<1>5. ASSUME NEW p \in Pair
      PROVE  /\ GetBalance(p)' = GetBalance(p) +
                   (IF p \in PairsOfCall(c) THEN deltas[c][p] ELSE 0)
             /\ GetBalance(p)' = Wrap(SumAt(entries \cup pending[c], p))
  <2> DEFINE a == SumAt(entries, p)
             b == SumAt(pending[c], p)
  <2>1. SumAt(entries \cup pending[c], p) = a + b /\ a \in Int /\ b \in Int
    BY <1>2, <1>3, <1>4, SumAtUnion, EntryIntegers
  <2>2. GetBalance(p) = Wrap(a) /\ deltas[c][p] = Wrap(b)
    BY <1>3 DEF BalanceInv, SumsInv
  <2> HIDE DEF a, b
  <2>3. CASE written[c][p] # None
    <3>1. written[c][p] = GetBalance(p) + deltas[c][p] /\ written[c][p] \in Int64
      BY <1>1, <1>2, <1>3, <2>3 DEF IndInv, WrittenInv
    <3>2. GetBalance(p)' = written[c][p]
      BY <1>1, <2>3 DEF GetBalance
    <3>3. Wrap(Wrap(a) + Wrap(b)) = Wrap(a + b)
      <4>1. Wrap(b) \in Int
        BY <2>1, WrapInt64, ZeroIsInt64
      <4>2. QED
        BY <2>1, <4>1, WrapSum
    <3>4. written[c][p] = Wrap(a + b)
      BY <2>2, <3>1, <3>3, WrapIdentity
    <3>5. p \in PairsOfCall(c)
      BY <1>1, <2>3 DEF IndInv, LockInv, PairsLocked, Locked
    <3>6. QED
      BY <2>1, <3>1, <3>2, <3>4, <3>5
  <2>4. CASE written[c][p] = None
    <3>1. p \notin PairsOfCall(c)
      BY <1>1, <1>3, <2>4 DEF UpdatedInv
    <3>2. GetBalance(p)' = GetBalance(p)
      BY <1>1, <2>4 DEF GetBalance
    <3>3. b = 0
      <4>1. EntriesAt(pending[c], p) = {}
        BY <3>1 DEF EntriesAt, IndInv, EntryInv
      <4>2. QED
        BY <4>1, SumOverEmpty DEF b, SumAt
    <3>4. GetBalance(p) \in Int
      BY <1>2, ZeroIsInt64 DEF GetBalance
    <3>5. QED
      BY <2>1, <2>2, <3>1, <3>2, <3>3, <3>4
  <2>5. QED
    BY <2>3, <2>4
<1>6. ASSUME NEW d \in Call
      PROVE  /\ IsFiniteSet(pending'[d])
             /\ pc'[d] \in Inserted => SumsInv(d)'
             /\ UpdatedInv(d)'
  <2>1. CASE d = c
    <3>1. pc'[c] = "reply" /\ pending'[c] = {}
      BY <1>1, <1>2 DEF Rollback
    <3>2. QED
      BY <2>1, <3>1, FS_EmptySet DEF Inserted, UpdatedInv
  <2>2. CASE d # c
    <3>1. /\ pc'[d] = pc[d] /\ pending'[d] = pending[d] /\ index'[d] = index[d]
          /\ deltas'[d] = deltas[d] /\ todo'[d] = todo[d]
          /\ written'[d] = written[d]
      BY <1>1, <1>2, <2>2 DEF Rollback, Forget
    <3>2. InsertedSoFar(d)' = InsertedSoFar(d) /\ PairsOfCall(d)' = PairsOfCall(d)
      BY <1>1, <3>1 DEF InsertedSoFar, PairsOfCall
    <3>3. QED
      BY <1>1, <3>1, <3>2 DEF BalanceInv, SumsInv, UpdatedInv
  <2>3. QED
    BY <2>1, <2>2
<1>7. IsFiniteSet(entries')
  BY <1>1, <1>3, FS_Union
<1>8. \A p \in Pair : GetBalance(p)' = Wrap(SumAt(entries, p))'
  BY <1>1, <1>5 DEF SumAt, EntriesAt
<1>9. QED
  BY <1>5, <1>6, <1>7, <1>8 DEF BalanceInv

\* A step of one handler keeps the balances equal to the sums.
LEMMA CallKeepsBalances ==
    ASSUME IndInv, RecordInv, BalanceInv, NEW c \in Call, Step(c) \/ Disturb(c)
    PROVE  BalanceInv'
<1>0. /\ pc \in [Call -> Statements \cup {"new", "begin", "done"}]
      /\ request \in [Call -> Request \cup {None}]
      /\ written \in [Call -> [Pair -> Int64 \cup {None}]]
      /\ todo \in [Call -> SUBSET Pair]
  BY DEF IndInv, TypeOK
<1>1. CASE \/ Replay(c) \/ RejectOverdraft(c) \/ DuplicateKey(c) \/ Reply(c)
           \/ DeadlockVictim(c) \/ Fail(c)
           \/ \E p \in Pair : UpdateOutOfRange(c, p)
  BY <1>1, ReturnKeepsBalances
  DEF Replay, RejectOverdraft, DuplicateKey, Reply, DeadlockVictim, Fail,
      UpdateOutOfRange
<1>2. CASE \/ Begin(c) \/ NotPosted(c)
           \/ \E p \in Pair : \/ SelectForUpdate(c, p) \/ SelectMissing(c, p)
                              \/ InsertBalanceRow(c, p)
           \/ \E r \in Request : Receive(c, r)
  <2>1. PICK label \in {"begin", "done", "find", "lock", "insertRow", "check"} :
           pc' = [pc EXCEPT ![c] = label]
    BY <1>2
    DEF Begin, NotPosted, SelectForUpdate, SelectMissing, InsertBalanceRow,
        LockedPair, Receive
  <2>2. UNCHANGED <<entries, balance, pending, index, deltas>>
    BY <1>2
    DEF Begin, NotPosted, SelectForUpdate, SelectMissing, InsertBalanceRow,
        Receive, tables, local
  <2>3. \A d \in Call \ {c} : /\ request'[d] = request[d]
                              /\ todo'[d] = todo[d]
                              /\ written'[d] = written[d]
    BY <1>0, <1>2
    DEF Begin, NotPosted, SelectForUpdate, SelectMissing, InsertBalanceRow,
        Receive, LockedPair, local
  <2>4. \A d \in Call : pc'[d] \in Inserted => d # c /\ pc'[d] = pc[d]
    BY <1>0, <2>1 DEF Inserted
  <2>5. \A d \in Call : IsFiniteSet(pending'[d])
    BY <2>2 DEF BalanceInv
  <2>6. QED
    BY <2>2, <2>3, <2>4, <2>5, QuietBalances
<1>3. CASE InsertTransaction(c)
  BY <1>3, InsertTransactionKeepsBalances
<1>4. CASE InsertEntry(c)
  BY <1>4, InsertEntryKeepsBalances
<1>5. CASE \E p \in Pair : UpdateBalance(c, p)
  BY <1>5, UpdateBalanceKeepsBalances
<1>6. CASE Commit(c)
  BY <1>6, CommitKeepsBalances
<1>7. QED
  BY <1>1, <1>2, <1>3, <1>4, <1>5, <1>6 DEF Step, Disturb

\* Every step does.
LEMMA NextBalanceInv ==
    ASSUME IndInv, RecordInv, BalanceInv, [Next]_vars PROVE BalanceInv'
<1>1. CASE UNCHANGED vars
  <2>1. UNCHANGED <<entries, balance, pc, request, index, todo, deltas, pending,
                    written>>
    BY <1>1 DEF vars, tables, local
  <2>2. \A c \in Call : IsFiniteSet(pending'[c])
    BY <2>1 DEF BalanceInv
  <2>3. QED
    BY <2>1, <2>2, QuietBalances
<1>2. CASE Crash
  <2> DEFINE C == {c \in Call : pc[c] \notin {"new", "done"}}
  <2>1. /\ pc' = [c \in Call |-> IF c \in C THEN "done" ELSE pc[c]]
        /\ Rollback(C) /\ Forget(C) /\ UNCHANGED <<tables, request>>
    BY <1>2 DEF Crash
  <2>2. C \in SUBSET Call
    OBVIOUS
  <2> HIDE DEF C
  <2>3. QED
    BY <2>1, <2>2, EndKeepsBalances
<1>3. ASSUME NEW c \in Call, Step(c) \/ Disturb(c) PROVE BalanceInv'
  BY <1>3, CallKeepsBalances
<1>4. QED
  BY <1>1, <1>2, <1>3 DEF Next, Finished

\* What SumFunction says in BalancesMatchEntries is what SumAt says here.
LEMMA BalanceInvMatches == IndInv /\ BalanceInv => BalancesMatchEntries
<1> SUFFICES ASSUME IndInv, BalanceInv, NEW p \in Pair
             PROVE  GetBalance(p) =
                    Wrap(SumFunction([e \in {f \in entries :
                                                PairOf(f.posting) = p} |->
                                         e.posting.amount]))
  BY DEF BalancesMatchEntries
<1>1. entries \subseteq Entry
  BY DEF IndInv, TypeOK
<1>2. Part(AmountOf, EntriesAt(entries, p)) =
        [e \in {f \in entries : PairOf(f.posting) = p} |-> e.posting.amount]
  BY <1>1 DEF Part, AmountOf, EntriesAt
<1>3. GetBalance(p) = Wrap(SumFunction(Part(AmountOf, EntriesAt(entries, p))))
  BY DEF BalanceInv, SumAt, SumOver
<1>4. QED
  BY <1>2, <1>3

\* BalancesMatchEntries: every balance is the sum of the committed entries of
\* its pair: no update is lost and none is applied twice.
THEOREM BalancesAreSums == Spec => []BalancesMatchEntries
<1>1. Init => IndInv /\ RecordInv /\ BalanceInv
  BY InitIndInv, InitRecordInv, InitBalanceInv
<1>2. IndInv /\ RecordInv /\ BalanceInv /\ [Next]_vars
         => IndInv' /\ RecordInv' /\ BalanceInv'
  BY NextIndInv, NextRecordInv, NextBalanceInv
<1>3. QED
  BY <1>1, <1>2, BalanceInvMatches, PTL DEF Spec

-----------------------------------------------------------------------------
(* The handlers implement the atomic ledger.                               *)

\* Both modules add up with the same operator.
LEMMA SameSum == \A f : Atomic!SumFunction(f) = SumFunction(f)
BY DEF Atomic!SumFunction, SumFunction, Atomic!SumFunctionOnSet,
       SumFunctionOnSet, Atomic!FoldFunctionOnSet, FoldFunctionOnSet,
       Atomic!MapThenFoldSet, MapThenFoldSet

\* Both modules speak of the same domain.
LEMMA SameDomain ==
    /\ Atomic!Pair = Pair
    /\ Atomic!Int64 = Int64
    /\ \A n : Atomic!Wrap(n) = Wrap(n)
    /\ \A p : Atomic!PairOf(p) = PairOf(p)
    /\ \A s : Atomic!Validate(s) <=> Validate(s)
    /\ \A s, b : Atomic!CheckOverdraft(s, b) <=> CheckOverdraft(s, b)
<1>1. Atomic!Pair = Pair
  BY DEF Atomic!Pair, Pair
<1>2. Atomic!Int64 = Int64
  BY DEF Atomic!Int64, Int64
<1>3. \A n : Atomic!Wrap(n) = Wrap(n)
  BY DEF Atomic!Wrap, Wrap
<1>4. \A p : Atomic!PairOf(p) = PairOf(p)
  BY DEF Atomic!PairOf, PairOf
<1>5. \A s : Atomic!ExactSum(s) = ExactSum(s)
  BY SameSum DEF Atomic!ExactSum, ExactSum
<1>6. \A s : Atomic!Validate(s) <=> Validate(s)
  BY <1>3, <1>5 DEF Atomic!Validate, Validate
<1>7. \A s, b : Atomic!CheckOverdraft(s, b) <=> CheckOverdraft(s, b)
  BY <1>3 DEF Atomic!CheckOverdraft, CheckOverdraft
<1>8. QED
  BY <1>1, <1>2, <1>3, <1>4, <1>6, <1>7

\* The change a transaction makes, as both modules add it up.
LEMMA DeltaIsSum ==
    ASSUME NEW postings \in Seq(Posting), NEW p
    PROVE  Atomic!Delta(postings, p) = Wrap(SumUpTo(postings, Len(postings), p))
<1> DEFINE S == {j \in DOMAIN postings : PairOf(postings[j]) = p}
<1>1. PostingsAt(postings, Len(postings), p) = S
  BY DEF PostingsAt
<1>2. Part(Amounts(postings), S) = [i \in S |-> postings[i].amount]
  BY DEF Part, Amounts
<1> DEFINE T == {j \in DOMAIN postings : Atomic!PairOf(postings[j]) = p}
<1>3. T = S
  BY SameDomain
<1>4. Atomic!Delta(postings, p) =
        Wrap(SumFunction([i \in S |-> postings[i].amount]))
  <2>1. Atomic!Delta(postings, p) =
          Atomic!Wrap(Atomic!SumFunction([i \in T |-> postings[i].amount]))
    BY DEF Atomic!Delta
  <2> HIDE DEF S, T
  <2>2. [i \in T |-> postings[i].amount] = [i \in S |-> postings[i].amount]
    BY <1>3
  <2>3. QED
    BY <2>1, <2>2, SameDomain, SameSum
<1> HIDE DEF S
<1>5. QED
  BY <1>1, <1>2, <1>4 DEF SumUpTo, SumOver

\* The overdraft check reads what the atomic ledger reads.
LEMMA CoveredWhenChecked ==
    ASSUME IndInv, NEW c \in Call, pc[c] \in {"check", "commit"}
    PROVE  Atomic!Covered(request[c].postings)
              <=> CheckOverdraft(request[c].postings, balances[c])
<1> DEFINE postings == request[c].postings
           funds == [p \in Pair |-> GetBalance(p)]
           read == [a \in Account |-> funds[<<a, postings[1].asset>>]]
<1>1. /\ request[c] \in Request /\ Validate(postings)
      /\ PairsLocked(c) = PairsOfCall(c)
  BY DEF IndInv, RequestInv, PairsLocked, Locked
<1>2. ASSUME NEW i \in DOMAIN postings
      PROVE  read[postings[i].account] = balances[c][postings[i].account]
  <2>1. /\ postings[i] \in Posting /\ PairOf(postings[i]) \in PairsOfCall(c)
        /\ PairsOfCall(c) \subseteq Pair
    BY <1>1, RequestFacts
  <2>2. postings[i].asset = postings[1].asset
    BY <1>1 DEF Validate
  <2>3. balances[c][PairOf(postings[i])[1]] = GetBalance(PairOf(postings[i]))
    BY <1>1, <2>1 DEF IndInv, ReadInv
  <2>4. /\ PairOf(postings[i])[1] = postings[i].account
        /\ PairOf(postings[i]) = <<postings[i].account, postings[1].asset>>
        /\ postings[i].account \in Account
    BY <2>1, <2>2 DEF PairOf, Posting
  <2>5. funds[PairOf(postings[i])] = GetBalance(PairOf(postings[i]))
    BY <2>1
  <2> HIDE DEF funds, postings
  <2>6. QED
    BY <2>3, <2>4, <2>5
<1>3. Atomic!Covered(postings) <=> CheckOverdraft(postings, read)
  BY SameDomain DEF Atomic!Covered
<1> HIDE DEF read, postings
<1>4. CheckOverdraft(postings, read) <=> CheckOverdraft(postings, balances[c])
  BY <1>2 DEF CheckOverdraft
<1>5. QED
  BY <1>3, <1>4 DEF postings

\* The atomic ledger's view of a step that leaves the tables alone.
LEMMA SameTables ==
    ASSUME IndInv, UNCHANGED tables,
           \A c \in Call : pc[c] # "new" => request'[c] = request[c]
    PROVE  /\ PostedTransactions' = PostedTransactions
           /\ [p \in Pair |-> GetBalance(p)]' = [p \in Pair |-> GetBalance(p)]
<1>1. \A t \in transactions : request'[t.id] = request[t.id]
  BY DEF IndInv, TypeOK, Transaction, TransactionInv
<1>2. PostedTransactions' = PostedTransactions
  BY <1>1 DEF PostedTransactions, tables
<1>3. QED
  BY <1>2 DEF GetBalance, tables

\* The end of a call is its answer.
LEMMA ReturnFinishes ==
    ASSUME IndInv, NEW c \in Call, NEW a, Return(c, a),
           pc[c] \notin {"new", "done"}
    PROVE  Atomic!Finish(c, a)
<1>1. /\ pc' = [pc EXCEPT ![c] = "done"]
      /\ answer' = [answer EXCEPT ![c] = a]
      /\ UNCHANGED <<tables, request>>
      /\ pc \in [Call -> Statements \cup {"new", "begin", "done"}]
  BY DEF Return, IndInv, TypeOK
<1>2. [d \in Call |-> Status(d)]' =
        [[d \in Call |-> Status(d)] EXCEPT ![c] = "done"]
  BY <1>1 DEF Status
<1>3. [d \in Call |-> Status(d)][c] = "busy"
  BY DEF Status
<1>4. QED
  BY <1>1, <1>2, <1>3, SameTables DEF Atomic!Finish

\* An internal error.
LEMMA ErrorIsUnsure ==
    ASSUME IndInv, NEW c \in Call, Return(c, Err("Internal")),
           pc[c] \notin {"new", "done"}
    PROVE  Atomic!Unsure(c)
BY ReturnFinishes DEF Atomic!Unsure, Atomic!Err, Err

\* OK, when the transaction is there.
LEMMA OkIsAcknowledged ==
    ASSUME IndInv, NEW c \in Call, NEW t \in transactions,
           t.key = request[c].key, Return(c, Ok(t.id)),
           pc[c] \notin {"new", "done"}
    PROVE  Atomic!Acknowledge(c)
<1> DEFINE u == [id |-> t.id, key |-> t.key, postings |-> request[t.id].postings]
<1>1. u \in PostedTransactions /\ u.key = request[c].key /\ u.id = t.id
  BY DEF PostedTransactions
<1> HIDE DEF u
<1>2. Atomic!Finish(c, Atomic!Ok(u.id))
  BY <1>1, ReturnFinishes DEF Atomic!Ok, Ok
<1>3. [d \in Call |-> Status(d)][c] = "busy"
  BY DEF Status
<1>4. QED
  BY <1>1, <1>2, <1>3 DEF Atomic!Acknowledge

\* A request arrives.
LEMMA ReceiveAsks ==
    ASSUME IndInv, NEW c \in Call, NEW r \in Request, Receive(c, r)
    PROVE  Atomic!Ask(c, r) \/ Atomic!Invalid(c, r)
<1>1. /\ pc[c] = "new" /\ request' = [request EXCEPT ![c] = r]
      /\ UNCHANGED tables
      /\ pc \in [Call -> Statements \cup {"new", "begin", "done"}]
      /\ request \in [Call -> Request \cup {None}]
  BY DEF Receive, IndInv, TypeOK
<1>2. [d \in Call |-> Status(d)][c] = "idle"
  BY <1>1 DEF Status
<1>3. /\ PostedTransactions' = PostedTransactions
      /\ [p \in Pair |-> GetBalance(p)]' = [p \in Pair |-> GetBalance(p)]
  BY <1>1, SameTables
<1>4. CASE r.key # "" /\ Validate(r.postings)
  <2>1. pc' = [pc EXCEPT ![c] = "begin"] /\ UNCHANGED answer
    BY <1>4 DEF Receive
  <2>2. [d \in Call |-> Status(d)]' =
          [[d \in Call |-> Status(d)] EXCEPT ![c] = "busy"]
    BY <1>1, <2>1 DEF Status
  <2>3. QED
    BY <1>1, <1>2, <1>3, <2>1, <2>2 DEF Atomic!Ask
<1>5. CASE ~(r.key # "" /\ Validate(r.postings))
  <2>1. /\ pc' = [pc EXCEPT ![c] = "done"]
        /\ answer' = [answer EXCEPT ![c] = Err("InvalidArgument")]
    BY <1>5 DEF Receive
  <2>2. [d \in Call |-> Status(d)]' =
          [[d \in Call |-> Status(d)] EXCEPT ![c] = "done"]
    BY <1>1, <2>1 DEF Status
  <2>3. QED
    BY <1>1, <1>2, <1>3, <1>5, <2>1, <2>2, SameDomain
    DEF Atomic!Invalid, Atomic!Err, Err
<1>6. QED
  BY <1>4, <1>5

\* COMMIT is the instant of the posting.
LEMMA CommitPosts ==
    ASSUME IndInv, IndInv', BalanceInv, NEW c \in Call, Commit(c)
    PROVE  Atomic!Post(c)
<1> DEFINE postings == request[c].postings
<1>1. /\ pc[c] = "commit"
      /\ transactions' = transactions \cup {[id |-> c, key |-> request[c].key]}
      /\ pc' = [pc EXCEPT ![c] = "reply"]
      /\ UNCHANGED <<request, answer>>
      /\ pc \in [Call -> Statements \cup {"new", "begin", "done"}]
  BY DEF Commit, IndInv, TypeOK
<1>2. [d \in Call |-> Status(d)][c] = "busy"
  BY <1>1 DEF Status
<1>3. \A t \in PostedTransactions : t.key # request[c].key
  BY <1>1 DEF IndInv, KeyInv, HoldsKey, PostedTransactions
<1>4. Validate(postings) /\ Atomic!Covered(postings)
  <2>1. Validate(postings) /\ CheckOverdraft(postings, balances[c])
    BY <1>1 DEF IndInv, RequestInv, LoopInv, Inserted
  <2>2. QED
    BY <1>1, <2>1, CoveredWhenChecked
<1>5. PostedTransactions' = PostedTransactions \cup
        {[id |-> c, key |-> request[c].key, postings |-> postings]}
  <2> DEFINE posted(t) == [id |-> t.id, key |-> t.key,
                           postings |-> request[t.id].postings]
             new == [id |-> c, key |-> request[c].key]
  <2>1. posted(new) = [id |-> c, key |-> request[c].key, postings |-> postings]
    OBVIOUS
  <2>2. PostedTransactions = {posted(t) : t \in transactions}
    BY DEF PostedTransactions
  <2>3. PostedTransactions' = {posted(t) : t \in transactions \cup {new}}
    BY <1>1 DEF PostedTransactions
  <2> HIDE DEF posted, new
  <2>4. QED
    BY <2>1, <2>2, <2>3
<1>6. ASSUME NEW p \in Pair
      PROVE  /\ GetBalance(p)' = GetBalance(p) + Atomic!Delta(postings, p)
             /\ GetBalance(p)' \in Int64
  <2>1. GetBalance(p)' = GetBalance(p) +
            (IF p \in PairsOfCall(c) THEN deltas[c][p] ELSE 0)
    BY CommitKeepsBalances
  <2>2. postings \in Seq(Posting)
    BY <1>1, RequestFacts DEF IndInv, RequestInv
  <2>5. Atomic!Delta(postings, p) = Wrap(SumUpTo(postings, Len(postings), p))
    BY <2>2, DeltaIsSum
  <2>6. deltas[c][p] = Wrap(SumUpTo(postings, Len(postings), p))
    BY <1>1 DEF BalanceInv, SumsInv, InsertedSoFar, Inserted
  <2>7. p \notin PairsOfCall(c) => Atomic!Delta(postings, p) = 0
    <3>1. SUFFICES ASSUME p \notin PairsOfCall(c)
                   PROVE  Atomic!Delta(postings, p) = 0
      OBVIOUS
    <3>2. PostingsAt(postings, Len(postings), p) = {}
      BY <3>1 DEF PostingsAt, PairsOfCall, PairsOf
    <3>3. SumUpTo(postings, Len(postings), p) = 0
      BY <3>2, SumOverEmpty DEF SumUpTo
    <3>4. QED
      BY <2>5, <3>3, WrapIdentity, ZeroIsInt64
  <2>8. GetBalance(p)' \in Int64
    <3>1. balance' \in [Pair -> Int64 \cup {None}]
      BY DEF IndInv, TypeOK
    <3>2. QED
      BY <3>1, ZeroIsInt64 DEF GetBalance
  <2>9. QED
    BY <2>1, <2>5, <2>6, <2>7, <2>8
<1>7. [d \in Call |-> Status(d)]' = [d \in Call |-> Status(d)]
  BY <1>1 DEF Status
<1> DEFINE funds == [p \in Pair |-> GetBalance(p)]
<1>8. /\ funds' = [p \in Pair |-> funds[p] + Atomic!Delta(postings, p)]
      /\ \A p \in Pair : funds'[p] \in Int64
  BY <1>6
<1> HIDE DEF funds
<1>9. /\ [p \in Pair |-> GetBalance(p)] = funds
      /\ [p \in Pair |-> GetBalance(p)]' = funds'
  BY DEF funds
<1>10. QED
  BY <1>1, <1>2, <1>3, <1>4, <1>5, <1>7, <1>8, <1>9, SameDomain DEF Atomic!Post

\* The steps the atomic ledger does not see.
LEMMA HiddenStep ==
    ASSUME IndInv, UNCHANGED <<tables, request, answer>>,
           \A c \in Call : Status(c)' = Status(c)
    PROVE  UNCHANGED Atomic!vars
<1>1. [c \in Call |-> Status(c)]' = [c \in Call |-> Status(c)]
  OBVIOUS
<1>2. QED
  BY <1>1, SameTables DEF Atomic!vars

\* A step of a handler posts, answers or changes nothing of the atomic ledger.
LEMMA StepImplements ==
    ASSUME IndInv, IndInv', BalanceInv, NEW c \in Call, Step(c) \/ Fail(c)
    PROVE  \/ Atomic!Post(c)
           \/ Atomic!Acknowledge(c) \/ Atomic!Refuse(c) \/ Atomic!Unsure(c)
           \/ UNCHANGED Atomic!vars
<1>0. pc \in [Call -> Statements \cup {"new", "begin", "done"}]
  BY DEF IndInv, TypeOK
<1>1. CASE Replay(c)
  <2>1. pc[c] = "find" /\ \E t \in transactions :
           t.key = request[c].key /\ Return(c, Ok(t.id))
    BY <1>1 DEF Replay
  <2>2. Atomic!Acknowledge(c)
    BY <2>1, OkIsAcknowledged
  <2>3. QED
    BY <2>2
<1>2. CASE Reply(c)
  <2> DEFINE t == [id |-> c, key |-> request[c].key]
  <2>1. pc[c] = "reply" /\ Return(c, Ok(t.id)) /\ t.key = request[c].key
    BY <1>2 DEF Reply
  <2>2. t \in transactions
    BY <2>1 DEF IndInv, TransactionInv
  <2> HIDE DEF t
  <2>3. Atomic!Acknowledge(c)
    BY <2>1, <2>2, OkIsAcknowledged
  <2>4. QED
    BY <2>3
<1>3. CASE RejectOverdraft(c)
  <2>1. /\ pc[c] = "check" /\ Return(c, Err("FailedPrecondition"))
        /\ ~CheckOverdraft(request[c].postings, balances[c])
    BY <1>3 DEF RejectOverdraft
  <2>2. ~Atomic!Covered(request[c].postings)
    BY <2>1, CoveredWhenChecked
  <2>3. \A t \in PostedTransactions : t.id # c
    BY <2>1 DEF IndInv, TransactionInv, PostedTransactions
  <2>4. Atomic!Finish(c, Atomic!Err("FailedPrecondition"))
    BY <2>1, ReturnFinishes DEF Atomic!Err, Err
  <2>5. [d \in Call |-> Status(d)][c] = "busy"
    BY <2>1 DEF Status
  <2>6. Atomic!Refuse(c)
    BY <2>2, <2>3, <2>4, <2>5 DEF Atomic!Refuse
  <2>7. QED
    BY <2>6
<1>4. CASE \/ DuplicateKey(c) \/ DeadlockVictim(c) \/ Fail(c)
           \/ \E p \in Pair : UpdateOutOfRange(c, p)
  <2>1. Return(c, Err("Internal"))
    BY <1>4 DEF DuplicateKey, DeadlockVictim, Fail, UpdateOutOfRange
  <2>2. pc[c] \notin {"new", "done"}
    <3>1. CASE DeadlockVictim(c)
      <4>1. PICK S \in SUBSET Call : c \in S /\ WaitsInCycle(S)
        BY <3>1 DEF DeadlockVictim, Deadlocked
      <4>2. \E d : d \in WaitsFor(c)
        BY <4>1 DEF WaitsInCycle
      <4>3. QED
        BY <4>2 DEF WaitsFor
    <3>2. CASE ~DeadlockVictim(c)
      BY <1>4, <3>2 DEF DuplicateKey, Fail, UpdateOutOfRange, Open, Statements
    <3>3. QED
      BY <3>1, <3>2
  <2>3. QED
    BY <2>1, <2>2, ErrorIsUnsure
<1>5. CASE Commit(c)
  BY <1>5, CommitPosts
<1>6. CASE \/ Begin(c) \/ NotPosted(c) \/ InsertTransaction(c) \/ InsertEntry(c)
           \/ \E p \in Pair : \/ SelectForUpdate(c, p) \/ SelectMissing(c, p)
                              \/ InsertBalanceRow(c, p) \/ UpdateBalance(c, p)
  <2>1. /\ UNCHANGED <<tables, request, answer>>
        /\ pc[c] \notin {"new", "done"}
        /\ \/ UNCHANGED pc
           \/ \E label \in Statements : pc' = [pc EXCEPT ![c] = label]
    BY <1>6
    DEF Begin, NotPosted, InsertTransaction, InsertEntry, SelectForUpdate,
        SelectMissing, InsertBalanceRow, UpdateBalance, LockedPair, Statements
  <2>2. \A d \in Call : Status(d)' = Status(d)
    BY <1>0, <2>1 DEF Status, Statements
  <2>3. QED
    BY <2>1, <2>2, HiddenStep
<1>7. QED
  BY <1>1, <1>2, <1>3, <1>4, <1>5, <1>6 DEF Step

\* A crash stops the service.
LEMMA CrashStops ==
    ASSUME IndInv, Crash
    PROVE  \E C \in SUBSET Call : C # {} /\ Atomic!Stop(C)
<1> DEFINE C == {c \in Call : pc[c] \notin {"new", "done"}}
           status == [c \in Call |-> Status(c)]
<1>1. /\ pc' = [c \in Call |-> IF c \in C THEN "done" ELSE pc[c]]
      /\ answer' = [c \in Call |-> IF c \in C THEN Err("Lost") ELSE answer[c]]
      /\ UNCHANGED <<tables, request>>
      /\ C # {}
  BY DEF Crash
<1>2. \A c \in C : status[c] = "busy"
  BY DEF Status
<1>3. status' = [c \in Call |-> IF c \in C THEN "done" ELSE status[c]]
  BY <1>1 DEF Status
<1>4. C \in SUBSET Call
  OBVIOUS
<1> HIDE DEF C, status
<1>5. status = [c \in Call |-> Status(c)] /\ status' = [c \in Call |-> Status(c)]'
  BY DEF status
<1>6. Atomic!Stop(C)
  BY <1>1, <1>2, <1>3, <1>5, SameTables DEF Atomic!Stop, Atomic!Err, Err
<1>7. QED
  BY <1>1, <1>4, <1>6

\* The atomic ledger starts empty too.
LEMMA InitImplements == Init => Atomic!Init
<1> SUFFICES ASSUME Init PROVE Atomic!Init
  OBVIOUS
<1>1. PostedTransactions = {}
  BY DEF Init, PostedTransactions
<1>2. [p \in Pair |-> GetBalance(p)] = [p \in Pair |-> 0]
  BY DEF Init, GetBalance
<1>3. [c \in Call |-> Status(c)] = [c \in Call |-> "idle"]
  BY DEF Init, Status
<1>4. QED
  BY <1>1, <1>2, <1>3, SameDomain DEF Init, Atomic!Init, Atomic!Err, NoAnswer

\* Every step is one of the atomic ledger, or changes nothing it can see.
LEMMA NextImplements ==
    ASSUME IndInv, IndInv', BalanceInv, [Next]_vars
    PROVE  [Atomic!Next]_(Atomic!vars)
<1>1. CASE UNCHANGED vars
  <2>1. UNCHANGED <<tables, request, answer, pc>>
    BY <1>1 DEF vars
  <2>2. \A c \in Call : Status(c)' = Status(c)
    BY <2>1 DEF Status
  <2>3. QED
    BY <2>1, <2>2, HiddenStep
<1>2. CASE Crash
  BY <1>2, CrashStops DEF Atomic!Next
<1>3. ASSUME NEW c \in Call, Step(c) \/ Fail(c)
      PROVE  [Atomic!Next]_(Atomic!vars)
  BY <1>3, StepImplements DEF Atomic!Next
<1>4. ASSUME NEW c \in Call, NEW r \in Request, Receive(c, r)
      PROVE  Atomic!Next
  BY <1>4, ReceiveAsks DEF Atomic!Next
<1>5. QED
  BY <1>1, <1>2, <1>3, <1>4 DEF Next, Disturb, Finished

\* ImplementsAtomicLedger: each posting takes effect at its COMMIT, against the
\* balances of that instant, and every answer is one the atomic ledger gives.
THEOREM HandlersImplementLedger == Spec => ImplementsAtomicLedger
<1>1. Init => IndInv /\ RecordInv /\ BalanceInv
  BY InitIndInv, InitRecordInv, InitBalanceInv
<1>2. IndInv /\ RecordInv /\ BalanceInv /\ [Next]_vars
         => IndInv' /\ RecordInv' /\ BalanceInv'
  BY NextIndInv, NextRecordInv, NextBalanceInv
<1>3. IndInv /\ IndInv' /\ BalanceInv /\ [Next]_vars
         => [Atomic!Next]_(Atomic!vars)
  BY NextImplements
<1>4. QED
  BY <1>1, <1>2, <1>3, InitImplements, PTL
  DEF Spec, ImplementsAtomicLedger, Atomic!Spec

-----------------------------------------------------------------------------
(* Double entry: what one account gains, others lose.                      *)

\* Wrapping each part of a sum first makes no difference either.
LEMMA WrapParts ==
    ASSUME NEW f, NEW h, NEW S, IntegersOn(f, S),
           \A x \in S : h[x] = Wrap(f[x])
    PROVE  Wrap(SumOver(h, S)) = Wrap(SumOver(f, S))
<1> DEFINE Bad == {U \in SUBSET S : Wrap(SumOver(h, U)) # Wrap(SumOver(f, U))}
<1>1. \A x \in S : f[x] \in Int /\ h[x] \in Int
  BY WrapInt64, ZeroIsInt64 DEF IntegersOn
<1>2. \A U \in SUBSET S : IntegersOn(f, U) /\ IntegersOn(h, U)
  BY <1>1, FS_Subset DEF IntegersOn
<1>3. SUFFICES ASSUME Bad # {} PROVE FALSE
  OBVIOUS
<1>4. PICK U \in Bad : \A V \in Bad : V \subseteq U => V = U
  <2>1. \A V \in Bad : IsFiniteSet(V)
    BY <1>2 DEF IntegersOn
  <2> HIDE DEF Bad
  <2>2. QED
    BY <1>3, <2>1, SmallestSet
<1>5. U # {}
  BY SumOverEmpty
<1>6. PICK x \in U : TRUE
  BY <1>5
<1> DEFINE V == U \ {x}
<1>7. /\ U = V \cup {x} /\ x \notin V /\ V \in SUBSET S /\ U \in SUBSET S
      /\ x \in S
  BY <1>6
<1>8. Wrap(SumOver(h, V)) = Wrap(SumOver(f, V))
  BY <1>4, <1>7
<1> HIDE DEF V
<1>9. IntegersOn(f, V \cup {x}) /\ IntegersOn(h, V \cup {x})
  BY <1>2, <1>7
<1>10. /\ SumOver(f, V) \in Int /\ SumOver(f, U) = f[x] + SumOver(f, V)
       /\ SumOver(h, V) \in Int /\ SumOver(h, U) = h[x] + SumOver(h, V)
  BY <1>7, <1>9, SumOverInsert
<1>11. Wrap(SumOver(h, U)) # Wrap(SumOver(f, U))
  OBVIOUS
<1> DEFINE fv == SumOver(f, V)
           hv == SumOver(h, V)
           fx == f[x]
<1>12. fv \in Int /\ hv \in Int /\ fx \in Int /\ h[x] = Wrap(fx)
  BY <1>1, <1>7, <1>10
<1>13. Wrap(Wrap(fx) + hv) = Wrap(fx + hv)
  BY <1>12, WrapSum
<1>14. Wrap(fx + Wrap(hv)) = Wrap(fx + hv) /\ Wrap(fx + Wrap(fv)) = Wrap(fx + fv)
  BY <1>12, WrapSum
<1>15. Wrap(hv) = Wrap(fv)
  BY <1>8
<1>16. /\ Wrap(SumOver(h, U)) = Wrap(Wrap(fx) + hv)
       /\ Wrap(SumOver(f, U)) = Wrap(fx + fv)
  BY <1>10, <1>12
<1> HIDE DEF fv, hv, fx
<1>17. QED
  BY <1>11, <1>13, <1>14, <1>15, <1>16

\* Over all accounts, the amounts of a valid request add up to its exact sum in
\* its asset, and there are none in another.
LEMMA RequestSums ==
    ASSUME IsFiniteSet(Account), NEW postings \in Seq(Posting),
           Validate(postings), NEW a \in Asset, NEW g,
           \A x \in Account :
              g[x] = SumUpTo(postings, Len(postings), <<x, a>>)
    PROVE  SumOver(g, Account) \in {0, ExactSum(postings)}
<1> DEFINE f == Amounts(postings)
           D == {i \in DOMAIN postings : postings[i].asset = a}
           key == [i \in DOMAIN postings |-> postings[i].account]
<1>1. /\ DOMAIN postings = 1 .. Len(postings) /\ Len(postings) \in Nat
      /\ \A i \in DOMAIN postings :
            /\ postings[i] \in Posting /\ i <= Len(postings)
            /\ postings[i].account \in Account
            /\ postings[i].amount \in Int
  <2>1. DOMAIN postings = 1 .. Len(postings) /\ Len(postings) \in Nat
    OBVIOUS
  <2>2. \A i \in DOMAIN postings : postings[i] \in Posting
    OBVIOUS
  <2>3. QED
    BY <2>1, <2>2, DomainAssumption DEF Posting, Int64
<1>2. IntegersOn(f, D)
  <2>1. IsFiniteSet(1 .. Len(postings))
    <3>1. 1 \in Int /\ Len(postings) \in Int
      OBVIOUS
    <3>2. QED
      BY <3>1, FS_Interval
  <2>2. IsFiniteSet(D)
    BY <1>1, <2>1, FS_Subset
  <2>3. QED
    BY <1>1, <2>2 DEF IntegersOn, Amounts
<1>3. ASSUME NEW x \in Account
      PROVE  g[x] = SumOver(f, {i \in D : key[i] = x})
  <2>1. PostingsAt(postings, Len(postings), <<x, a>>) = {i \in D : key[i] = x}
    BY <1>1 DEF PostingsAt, PairOf
  <2> HIDE DEF f, D, key
  <2>2. QED
    BY <2>1 DEF SumUpTo, f
<1>4. \A i \in D : key[i] \in Account
  BY <1>1
<1>5. SumOver(g, Account) = SumOver(f, D)
  <2> HIDE DEF f, D, key
  <2>1. QED
    BY <1>2, <1>3, <1>4, SumOverKeys
<1>6. \A i \in DOMAIN postings : postings[i].asset = postings[1].asset
  BY DEF Validate
<1>7. CASE postings[1].asset = a
  <2>1. D = DOMAIN postings
    BY <1>6, <1>7
  <2>2. Part(f, DOMAIN postings) = [i \in DOMAIN postings |-> postings[i].amount]
    BY DEF Part, Amounts
  <2>3. SumOver(f, DOMAIN postings) = ExactSum(postings)
    BY <2>2 DEF SumOver, ExactSum
  <2> HIDE DEF f, D
  <2>4. QED
    BY <1>5, <2>1, <2>3
<1>8. CASE postings[1].asset # a
  <2>1. D = {}
    BY <1>6, <1>8
  <2> HIDE DEF D
  <2>2. QED
    BY <1>5, <2>1, SumOverEmpty
<1>9. QED
  BY <1>7, <1>8

\* The balances of an asset, added up.
Books(a) == SumFunction([x \in Account |-> GetBalance(<<x, a>>)])

\* A COMMIT adds what its postings add up to, account by account.
LEMMA CommitAddsUp ==
    ASSUME IsFiniteSet(Account), IndInv, IndInv', BalanceInv,
           NEW c \in Call, Commit(c), NEW a \in Asset, NEW E,
           E = [x \in Account |-> SumUpTo(request[c].postings,
                                         Len(request[c].postings), <<x, a>>)]
    PROVE  /\ IntegersOn(E, Account)
           /\ SumOver(E, Account) \in {0, ExactSum(request[c].postings)}
           /\ Books(a) \in Int
           /\ \E D : /\ \A x \in Account : D[x] = Wrap(E[x])
                    /\ SumOver(D, Account) \in Int
                    /\ Books(a)' = Books(a) + SumOver(D, Account)
<1> DEFINE postings == request[c].postings
           G == [x \in Account |-> GetBalance(<<x, a>>)]
           H == [x \in Account |-> GetBalance(<<x, a>>)']
           D == [x \in Account |-> Wrap(E[x])]
<1>1. /\ postings \in Seq(Posting) /\ Validate(postings)
      /\ Len(postings) \in Nat
  <2>1. request[c] \in Request /\ Validate(postings)
    BY DEF Commit, IndInv, RequestInv
  <2>2. postings \in Seq(Posting)
    BY <2>1, RequestFacts
  <2>3. QED
    BY <2>1, <2>2
<1>2. ASSUME NEW x \in Account
      PROVE  /\ H[x] = G[x] + D[x]
             /\ G[x] \in Int /\ D[x] \in Int /\ E[x] \in Int
  <2>1. <<x, a>> \in Pair
    BY DEF Pair
  <2> DEFINE funds == [p \in Pair |-> GetBalance(p)]
  <2>2. [p \in Pair |-> GetBalance(p)]' =
           [p \in Pair |-> funds[p] + Atomic!Delta(postings, p)]
    BY CommitPosts, SameDomain DEF Atomic!Post
  <2>3. GetBalance(<<x, a>>)' =
           GetBalance(<<x, a>>) + Atomic!Delta(postings, <<x, a>>)
    BY <2>1, <2>2
  <2>4. Atomic!Delta(postings, <<x, a>>) = D[x]
    BY <1>1, DeltaIsSum
  <2>5. E[x] \in Int
    BY <1>1, PostingIntegers
  <2>6. D[x] \in Int
    BY <2>5, WrapInt64, ZeroIsInt64
  <2>7. GetBalance(<<x, a>>) \in Int
    BY <2>1, ZeroIsInt64 DEF GetBalance, IndInv, TypeOK
  <2>8. QED
    BY <2>3, <2>4, <2>5, <2>6, <2>7
<1>3. /\ IntegersOn(G, Account) /\ IntegersOn(D, Account)
      /\ IntegersOn(E, Account)
  BY <1>2 DEF IntegersOn
<1>4. SumOver(E, Account) \in {0, ExactSum(postings)}
  <2>1. \A x \in Account : E[x] = SumUpTo(postings, Len(postings), <<x, a>>)
    OBVIOUS
  <2> HIDE DEF postings
  <2>2. QED
    BY <1>1, <2>1, RequestSums
<1>5. SumOver(H, Account) = SumOver(G, Account) + SumOver(D, Account)
  <2>1. \A x \in Account : H[x] = G[x] + D[x]
    BY <1>2
  <2> HIDE DEF G, D, H
  <2>2. QED
    BY <1>3, <2>1, SumOverPlus
<1>6. SumOver(G, Account) \in Int /\ SumOver(D, Account) \in Int
  BY <1>3, SumOverInt
<1>7. Books(a) = SumOver(G, Account) /\ Books(a)' = SumOver(H, Account)
  <2>1. Part(G, Account) = G /\ Part(H, Account) = H
    BY DEF Part
  <2>2. Books(a) = SumFunction(G) /\ Books(a)' = SumFunction(H)
    BY DEF Books
  <2> HIDE DEF G, H
  <2>3. QED
    BY <2>1, <2>2 DEF SumOver
<1>8. \A x \in Account : D[x] = Wrap(E[x])
  OBVIOUS
<1> HIDE DEF G, H, D
<1>9. QED
  BY <1>3, <1>4, <1>5, <1>6, <1>7, <1>8

\* A COMMIT keeps the books balanced.
LEMMA CommitKeepsBooks ==
    ASSUME IsFiniteSet(Account), IndInv, IndInv', BalanceInv, BooksBalance,
           NEW c \in Call, Commit(c)
    PROVE  BooksBalance'
<1> SUFFICES ASSUME NEW a \in Asset PROVE Wrap(Books(a)') = 0
  BY DEF BooksBalance, Books
<1> DEFINE postings == request[c].postings
           E == [x \in Account |->
                    SumUpTo(postings, Len(postings), <<x, a>>)]
<1>1. Wrap(Books(a)) = 0
  BY DEF BooksBalance, Books
<1>2. /\ IntegersOn(E, Account)
      /\ SumOver(E, Account) \in {0, ExactSum(postings)}
      /\ Books(a) \in Int
      /\ \E D : /\ \A x \in Account : D[x] = Wrap(E[x])
               /\ SumOver(D, Account) \in Int
               /\ Books(a)' = Books(a) + SumOver(D, Account)
  BY CommitAddsUp
<1> HIDE DEF E
<1>3. PICK D : /\ \A x \in Account : D[x] = Wrap(E[x])
               /\ SumOver(D, Account) \in Int
               /\ Books(a)' = Books(a) + SumOver(D, Account)
  BY <1>2
<1>4. Wrap(ExactSum(postings)) = 0 /\ Wrap(0) = 0
  BY WrapIdentity, ZeroIsInt64 DEF Commit, IndInv, RequestInv, Validate
<1>5. Wrap(SumOver(D, Account)) = 0
  <2>1. Wrap(SumOver(D, Account)) = Wrap(SumOver(E, Account))
    BY <1>2, <1>3, WrapParts
  <2>2. QED
    BY <1>2, <1>4, <2>1
<1>6. ASSUME NEW b \in Int, NEW d \in Int, Wrap(b) = 0, Wrap(d) = 0
      PROVE  Wrap(b + d) = 0
  <2>1. Wrap(b + d) = Wrap(0 + d)
    BY <1>6, WrapSum
  <2>2. QED
    BY <1>6, <2>1
<1>7. QED
  BY <1>1, <1>2, <1>3, <1>5, <1>6

\* Empty books balance.
LEMMA InitBooks ==
    ASSUME IsFiniteSet(Account), Init
    PROVE  BooksBalance /\ \A a \in Asset : Books(a) = 0
<1> SUFFICES ASSUME NEW a \in Asset PROVE Books(a) = 0
  BY WrapIdentity, ZeroIsInt64 DEF BooksBalance, Books
<1> DEFINE G == [x \in Account |-> GetBalance(<<x, a>>)]
<1>1. \A x \in Account : G[x] = 0
  BY DEF Init, GetBalance, Pair
<1>2. \A U \in SUBSET Account : IntegersOn(G, U)
  BY <1>1, FS_Subset DEF IntegersOn
<1> HIDE DEF G
<1>3. SumOver(G, Account) = SumOver(G, Account) + SumOver(G, Account)
  BY <1>1, <1>2, SumOverPlus
<1>4. SumOver(G, Account) \in Int
  BY <1>2, SumOverInt
<1>5. SumOver(G, Account) = 0
  <2>1. ASSUME NEW s \in Int, s = s + s PROVE s = 0
    BY <2>1
  <2>2. QED
    BY <1>3, <1>4, <2>1
<1>6. SumOver(G, Account) = SumFunction(G)
  <2>1. Part(G, Account) = G
    BY DEF Part, G
  <2>2. QED
    BY <2>1 DEF SumOver
<1>7. QED
  BY <1>5, <1>6 DEF G, Books

\* What a COMMIT publishes adds nothing to the books.
LEMMA CommitsKeepBooks ==
    ASSUME IsFiniteSet(Account), IndInv, IndInv', BalanceInv, BooksBalance,
           Publishes
    PROVE  BooksBalance'
<1>1. CASE UNCHANGED tables
  BY <1>1 DEF BooksBalance, GetBalance, tables
<1>2. ASSUME NEW c \in Call, Commit(c) PROVE BooksBalance'
  BY <1>2, CommitKeepsBooks
<1>3. QED
  BY <1>1, <1>2 DEF Publishes

\* BooksBalance: the balances of an asset add up to zero over all accounts,
\* whatever is posted, refused, failed or lost.
THEOREM MoneyIsConserved ==
    ASSUME IsFiniteSet(Account)
    PROVE  Spec => []BooksBalance
<1>1. Init => IndInv /\ RecordInv /\ BalanceInv /\ BooksBalance
  BY InitIndInv, InitRecordInv, InitBalanceInv, InitBooks
<1>2. IndInv /\ RecordInv /\ BalanceInv /\ [Next]_vars
         => IndInv' /\ RecordInv' /\ BalanceInv'
  BY NextIndInv, NextRecordInv, NextBalanceInv
<1>3. IndInv /\ IndInv' /\ BalanceInv /\ BooksBalance /\ [Next]_vars
         => BooksBalance'
  BY CommitsKeepBooks, OnlyCommitPublishes
<1>4. QED
  BY <1>1, <1>2, <1>3, PTL DEF Spec

\* No account's total of a request leaves int64, and neither does its sum: what
\* the code adds up never wraps.
TotalsFit ==
    /\ SumsFit
    /\ \A r \in Request, p \in Pair :
          SumUpTo(r.postings, Len(r.postings), p) \in Int64

\* The balances add up to zero as integers.
ExactBooks == \A a \in Asset : Books(a) = 0

\* Where nothing wraps a COMMIT adds nothing.
LEMMA CommitKeepsExactBooks ==
    ASSUME IsFiniteSet(Account), TotalsFit, IndInv, IndInv', BalanceInv,
           ExactBooks, NEW c \in Call, Commit(c)
    PROVE  ExactBooks'
<1> SUFFICES ASSUME NEW a \in Asset PROVE Books(a)' = 0
  BY DEF ExactBooks
<1> DEFINE postings == request[c].postings
           E == [x \in Account |->
                    SumUpTo(postings, Len(postings), <<x, a>>)]
<1>1. request[c] \in Request /\ Validate(postings)
  BY DEF Commit, IndInv, RequestInv
<1>2. ExactSum(postings) = 0
  BY <1>1, WrapIdentity DEF Validate, TotalsFit, SumsFit
<1>3. \A x \in Account : Wrap(E[x]) = E[x]
  <2>1. \A x \in Account : <<x, a>> \in Pair
    BY DEF Pair
  <2>2. \A x \in Account : E[x] \in Int64
    BY <1>1, <2>1 DEF TotalsFit
  <2> HIDE DEF E
  <2>3. QED
    BY <2>2, WrapIdentity
<1>4. /\ SumOver(E, Account) \in {0, ExactSum(postings)}
      /\ \E D : /\ \A x \in Account : D[x] = Wrap(E[x])
               /\ SumOver(D, Account) \in Int
               /\ Books(a)' = Books(a) + SumOver(D, Account)
  BY CommitAddsUp
<1> HIDE DEF E
<1>5. PICK D : /\ \A x \in Account : D[x] = Wrap(E[x])
               /\ Books(a)' = Books(a) + SumOver(D, Account)
  BY <1>4
<1>6. SumOver(D, Account) = SumOver(E, Account)
  <2>1. Part(D, Account) = Part(E, Account)
    BY <1>3, <1>5 DEF Part
  <2>2. QED
    BY <2>1 DEF SumOver
<1>7. SumOver(D, Account) = 0 /\ Books(a) = 0
  BY <1>2, <1>4, <1>6 DEF ExactBooks
<1>8. QED
  BY <1>5, <1>7

\* Double entry without the modulus: for requests whose totals fit int64 the
\* balances of an asset add up to zero exactly, and so does every posted
\* transaction. ledger_credits_only shows that it takes such a condition.
THEOREM MoneyIsConservedExactly ==
    ASSUME IsFiniteSet(Account), TotalsFit
    PROVE  Spec => [](ExactBooks /\ PostingsSumToZero)
<1>1. Init => IndInv /\ RecordInv /\ BalanceInv /\ ExactBooks
  BY InitIndInv, InitRecordInv, InitBalanceInv, InitBooks DEF ExactBooks, Books
<1>2. IndInv /\ RecordInv /\ BalanceInv /\ [Next]_vars
         => IndInv' /\ RecordInv' /\ BalanceInv'
  BY NextIndInv, NextRecordInv, NextBalanceInv
<1>3. ASSUME IndInv, IndInv', BalanceInv, ExactBooks, [Next]_vars
      PROVE  ExactBooks'
  <2>1. CASE UNCHANGED tables
    BY <1>3, <2>1 DEF ExactBooks, Books, GetBalance, tables
  <2>2. ASSUME NEW c \in Call, Commit(c) PROVE ExactBooks'
    BY <1>3, <2>2, CommitKeepsExactBooks
  <2>3. QED
    BY <1>3, <2>1, <2>2, OnlyCommitPublishes DEF Publishes
<1>4. IndInv /\ IndInv' /\ BalanceInv /\ ExactBooks /\ [Next]_vars
         => ExactBooks'
  BY <1>3
<1>5. Spec => []PostingsSumToZero
  BY PostedSumsAreZero DEF TotalsFit
<1>6. QED
  BY <1>1, <1>2, <1>4, <1>5, PTL DEF Spec

=============================================================================
