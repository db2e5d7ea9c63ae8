---------------------------- MODULE LedgerProofs ----------------------------
(***************************************************************************)
(* IndInv is an inductive invariant of Ledger, and with it the safety      *)
(* properties of PostTransaction hold for any number of concurrent calls,  *)
(* any accounts, any requests, any pool size and any width of integer.     *)
(*                                                                         *)
(* One lemma per action shows that it keeps IndInv, with one step per      *)
(* conjunct.  The calls that end (Replay, RejectOverdraft, Fail, Crash...) *)
(* share EndStep: they all release what the call holds.  At the end, the   *)
(* sorted lock order: calls that wait for rows or for a key never wait in  *)
(* a cycle, however many there are.                                        *)
(***************************************************************************)
EXTENDS LedgerInvariant, SumProofs

-----------------------------------------------------------------------------
(* Arithmetic and requests.                                                *)

\* int64 arithmetic always yields an int64 value ...
LEMMA WrapInt64 == ASSUME NEW n \in Int PROVE Wrap(n) \in Int64
BY DomainAssumption DEF Wrap, Int64

\* ... and is exact where the exact result is one.
LEMMA WrapIdentity == ASSUME NEW n \in Int64 PROVE Wrap(n) = n
BY DomainAssumption DEF Wrap, Int64

LEMMA ZeroIsInt64 == 0 \in Int64 /\ Int64 \subseteq Int /\ 0 # None
BY DomainAssumption, LedgerAssumption DEF Int64

\* What is known of the request of an open call.
LEMMA RequestFacts ==
    ASSUME NEW c \in Call, request[c] \in Request
    PROVE  /\ request[c].key \in Key
           /\ request[c].postings \in Seq(Posting)
           /\ PairsOfCall(c) \subseteq Pair
           /\ \A i \in DOMAIN request[c].postings :
                 /\ request[c].postings[i] \in Posting
                 /\ PairOf(request[c].postings[i]) \in PairsOfCall(c)
<1>1. request[c] \in [key : Key, postings : Seq(Posting)]
  BY LedgerAssumption
<1>2. request[c].key \in Key /\ request[c].postings \in Seq(Posting)
  BY <1>1
<1>3. ASSUME NEW i \in DOMAIN request[c].postings
      PROVE  /\ request[c].postings[i] \in Posting
             /\ PairOf(request[c].postings[i]) \in Pair
  <2>1. request[c].postings[i] \in Posting
    BY <1>2
  <2>2. QED
    BY <2>1 DEF Posting, PairOf, Pair
<1>4. QED
  BY <1>2, <1>3 DEF PairsOfCall, PairsOf

\* The postings of a valid request share one asset: an account names its pair.
LEMMA ValidFacts ==
    ASSUME NEW c \in Call, request[c] \in Request,
           Validate(request[c].postings)
    PROVE  /\ 1 \in DOMAIN request[c].postings
           /\ \A p, q \in PairsOfCall(c) : p[1] = q[1] => p = q
<1>1. request[c].postings \in Seq(Posting)
  BY RequestFacts
<1>2. \A i \in DOMAIN request[c].postings :
         request[c].postings[i].asset = request[c].postings[1].asset
  BY DEF Validate
<1>3. Len(request[c].postings) >= 2
  BY DEF Validate
<1>4. 1 \in DOMAIN request[c].postings
  BY <1>1, <1>3
<1>5. ASSUME NEW p \in PairsOfCall(c), NEW q \in PairsOfCall(c), p[1] = q[1]
      PROVE  p = q
  <2>1. PICK i \in DOMAIN request[c].postings :
           p = PairOf(request[c].postings[i])
    BY DEF PairsOfCall, PairsOf
  <2>2. PICK j \in DOMAIN request[c].postings :
           q = PairOf(request[c].postings[j])
    BY DEF PairsOfCall, PairsOf
  <2>3. QED
    BY <1>2, <1>5, <2>1, <2>2 DEF PairOf
<1>6. QED
  BY <1>4, <1>5

-----------------------------------------------------------------------------
(* The initial state.                                                      *)

LEMMA InitIndInv == Init => IndInv
<1> SUFFICES ASSUME Init PROVE IndInv
  OBVIOUS
<1> USE DEF Init
<1>1. TypeOK
  BY ZeroIsInt64 DEF TypeOK, Answer
<1>2. TransactionInv /\ EntryInv /\ AnswersAreTrue
  BY DEF TransactionInv, EntryInv, AnswersAreTrue, NoAnswer
<1>3. ASSUME NEW c \in Call
      PROVE  /\ RequestInv(c)
             /\ TodoInv(c)
             /\ LockInv(c)
             /\ ReadInv(c)
             /\ KeyInv(c)
             /\ IndexInv(c)
             /\ LoopInv(c)
             /\ ~(pc[c] \in Inserted)
             /\ WrittenInv(c)
  <2>1. pc[c] = "new" /\ PairsLocked(c) = {} /\ ~(pc[c] \in Inserted)
    BY DEF PairsLocked, Locking, Locked, Inserted
  <2>2. LockInv(c) /\ ReadInv(c)
    BY <2>1, LedgerAssumption DEF LockInv, ReadInv
  <2>3. KeyInv(c) /\ IndexInv(c) /\ LoopInv(c) /\ WrittenInv(c)
    BY <2>1 DEF KeyInv, HoldsKey, IndexInv, LoopInv, WrittenInv, Inserted
  <2>4. QED
    BY <2>1, <2>2, <2>3 DEF RequestInv, TodoInv, Locking
<1>4. QED
  BY <1>1, <1>2, <1>3 DEF IndInv

-----------------------------------------------------------------------------
(* The actions.                                                            *)

\* A request arrives, and is refused if it is not valid.
LEMMA ReceiveStep ==
    ASSUME IndInv, NEW c \in Call, NEW r \in Request, Receive(c, r)
    PROVE  IndInv'
<1> USE DEF Receive, tables, locks, local
<1>1. TypeOK'
  BY DEF IndInv, TypeOK, Statements, Answer, Err, Codes
<1>2. TransactionInv'
  BY DEF IndInv, TypeOK, TransactionInv, Transaction
<1>3. EntryInv'
  BY DEF IndInv, TypeOK, EntryInv, Inserted, PairsOfCall
<1>4. AnswersAreTrue'
  <2>1. \A t \in transactions : t.id # c
    BY DEF IndInv, TransactionInv
  <2>2. answer[c] = NoAnswer
    BY DEF IndInv, RequestInv
  <2>3. answer'[c] \in {NoAnswer, Err("InvalidArgument")}
    BY <2>2 DEF IndInv, TypeOK
  <2>4. NoAnswer.code # "OK" /\ Err("InvalidArgument").code # "OK"
    BY DEF NoAnswer, Err
  <2>5. \A d \in Call \ {c} : answer'[d] = answer[d] /\ request'[d] = request[d]
    BY DEF IndInv, TypeOK
  <2>6. QED
    <3>1. ASSUME NEW d \in Call, d # c
          PROVE  /\ answer'[d].code = "OK" =>
                       [id |-> answer'[d].tx, key |-> request'[d].key] \in transactions
                 /\ answer'[d].code \in {"InvalidArgument", "FailedPrecondition"} =>
                       \A t \in transactions : t.id # d
      BY <2>5, <3>1 DEF IndInv, AnswersAreTrue
    <3>2. QED
      BY <2>1, <2>3, <2>4, <3>1 DEF AnswersAreTrue
<1>5. ASSUME NEW d \in Call PROVE RequestInv(d)'
  BY DEF IndInv, TypeOK, RequestInv
<1>6. ASSUME NEW d \in Call PROVE TodoInv(d)'
  BY DEF IndInv, TypeOK, TodoInv, PairsOfCall, Locking
<1>7. ASSUME NEW d \in Call PROVE LockInv(d)'
  <2>1. PairsLocked(c)' = {} /\ PairsLocked(c) = {}
    BY DEF IndInv, TypeOK, PairsLocked, Locking, Locked
  <2>2. CASE d = c
    BY <2>1, <2>2 DEF IndInv, TypeOK, LockInv
  <2>3. CASE d # c
    <3>1. PairsLocked(d)' = PairsLocked(d)
      BY <2>3 DEF IndInv, TypeOK, PairsLocked, PairsOfCall
    <3>2. LockInv(d)
      BY DEF IndInv
    <3>3. QED
      BY <3>1, <3>2 DEF LockInv
  <2>4. QED
    BY <2>2, <2>3
<1>8. ASSUME NEW d \in Call PROVE ReadInv(d)'
  BY DEF IndInv, TypeOK, ReadInv, PairsLocked, Locking, Locked,
            PairsOfCall, GetBalance
<1>9. ASSUME NEW d \in Call PROVE KeyInv(d)'
  BY DEF IndInv, TypeOK, KeyInv, HoldsKey
<1>10. ASSUME NEW d \in Call PROVE IndexInv(d)'
  BY DEF IndInv, TypeOK, IndexInv
<1>11. ASSUME NEW d \in Call PROVE LoopInv(d)'
  BY DEF IndInv, TypeOK, LoopInv, Inserted
<1>12. ASSUME NEW d \in Call PROVE (pc[d] \in Inserted => DeltaInv(d))'
  BY DEF IndInv, TypeOK, DeltaInv, Inserted, Aggregated
<1>13. ASSUME NEW d \in Call PROVE WrittenInv(d)'
  BY DEF IndInv, TypeOK, WrittenInv, GetBalance
<1>14. QED
  BY <1>1, <1>2, <1>3, <1>4, <1>5, <1>6, <1>7, <1>8, <1>9, <1>10, <1>11,
     <1>12, <1>13 DEF IndInv

\* A database transaction begins.
LEMMA BeginStep ==
    ASSUME IndInv, NEW c \in Call, Begin(c)
    PROVE  IndInv'
<1> USE DEF Begin, tables, locks, local
<1>1. TypeOK'
  BY DEF IndInv, TypeOK, Statements
<1>2. TransactionInv'
  BY DEF IndInv, TypeOK, TransactionInv, Transaction
<1>3. EntryInv'
  BY DEF IndInv, TypeOK, EntryInv, Inserted, PairsOfCall
<1>4. AnswersAreTrue'
  BY DEF IndInv, TypeOK, AnswersAreTrue
<1>5. ASSUME NEW d \in Call PROVE RequestInv(d)'
  BY DEF IndInv, TypeOK, RequestInv
<1>6. ASSUME NEW d \in Call PROVE TodoInv(d)'
  BY DEF IndInv, TypeOK, TodoInv, PairsOfCall, Locking
<1>7. ASSUME NEW d \in Call PROVE LockInv(d)'
  BY DEF IndInv, TypeOK, LockInv, PairsLocked, Locking, Locked,
            PairsOfCall
<1>8. ASSUME NEW d \in Call PROVE ReadInv(d)'
  BY DEF IndInv, TypeOK, ReadInv, PairsLocked, Locking, Locked,
            PairsOfCall, GetBalance
<1>9. ASSUME NEW d \in Call PROVE KeyInv(d)'
  BY DEF IndInv, TypeOK, KeyInv, HoldsKey
<1>10. ASSUME NEW d \in Call PROVE IndexInv(d)'
  BY DEF IndInv, TypeOK, IndexInv
<1>11. ASSUME NEW d \in Call PROVE LoopInv(d)'
  BY DEF IndInv, TypeOK, LoopInv, Inserted
<1>12. ASSUME NEW d \in Call PROVE (pc[d] \in Inserted => DeltaInv(d))'
  BY DEF IndInv, TypeOK, DeltaInv, Inserted, Aggregated
<1>13. ASSUME NEW d \in Call PROVE WrittenInv(d)'
  BY DEF IndInv, TypeOK, WrittenInv, GetBalance
<1>14. QED
  BY <1>1, <1>2, <1>3, <1>4, <1>5, <1>6, <1>7, <1>8, <1>9, <1>10, <1>11,
     <1>12, <1>13 DEF IndInv

\* The key is not posted yet: the loop over the pairs begins.
LEMMA NotPostedStep ==
    ASSUME IndInv, NEW c \in Call, NotPosted(c)
    PROVE  IndInv'
<1> USE DEF NotPosted, tables, locks, local
<1>1. TypeOK'
  <2>1. PairsOfCall(c) \subseteq Pair
    BY RequestFacts DEF IndInv, RequestInv
  <2>2. QED
    BY <2>1 DEF IndInv, TypeOK, Statements
<1>2. TransactionInv'
  BY DEF IndInv, TypeOK, TransactionInv, Transaction
<1>3. EntryInv'
  BY DEF IndInv, TypeOK, EntryInv, Inserted, PairsOfCall
<1>4. AnswersAreTrue'
  BY DEF IndInv, TypeOK, AnswersAreTrue
<1>5. ASSUME NEW d \in Call PROVE RequestInv(d)'
  BY DEF IndInv, TypeOK, RequestInv
<1>6. ASSUME NEW d \in Call PROVE TodoInv(d)'
  BY DEF IndInv, TypeOK, TodoInv, PairsOfCall, Locking
<1>7. ASSUME NEW d \in Call PROVE LockInv(d)'
  BY DEF IndInv, TypeOK, LockInv, PairsLocked, Locking, Locked,
            PairsOfCall
<1>8. ASSUME NEW d \in Call PROVE ReadInv(d)'
  BY DEF IndInv, TypeOK, ReadInv, PairsLocked, Locking, Locked,
            PairsOfCall, GetBalance
<1>9. ASSUME NEW d \in Call PROVE KeyInv(d)'
  BY DEF IndInv, TypeOK, KeyInv, HoldsKey
<1>10. ASSUME NEW d \in Call PROVE IndexInv(d)'
  BY DEF IndInv, TypeOK, IndexInv
<1>11. ASSUME NEW d \in Call PROVE LoopInv(d)'
  BY DEF IndInv, TypeOK, LoopInv, Inserted
<1>12. ASSUME NEW d \in Call PROVE (pc[d] \in Inserted => DeltaInv(d))'
  BY DEF IndInv, TypeOK, DeltaInv, Inserted, Aggregated
<1>13. ASSUME NEW d \in Call PROVE WrittenInv(d)'
  BY DEF IndInv, TypeOK, WrittenInv, GetBalance
<1>14. QED
  BY <1>1, <1>2, <1>3, <1>4, <1>5, <1>6, <1>7, <1>8, <1>9, <1>10, <1>11,
     <1>12, <1>13 DEF IndInv

\* A row is locked and read.
LEMMA SelectForUpdateStep ==
    ASSUME IndInv, NEW c \in Call, NEW p \in Pair, SelectForUpdate(c, p)
    PROVE  IndInv'
<1> USE DEF SelectForUpdate, LockedPair, tables, locks, local
<1>0. /\ p \in PairsOfCall(c) /\ PairsLocked(c) \subseteq PairsOfCall(c)
      /\ \A d \in Call :
            PairsLocked(d)' = IF d = c THEN PairsLocked(d) \cup {p}
                                       ELSE PairsLocked(d)
  <2>1. p \in PairsOfCall(c) /\ PairsLocked(c) \subseteq PairsOfCall(c)
    BY DEF IndInv, TodoInv, PairsLocked, Locking, IsFirst
  <2>2. ASSUME NEW d \in Call
        PROVE  PairsLocked(d)' = IF d = c THEN PairsLocked(d) \cup {p}
                                          ELSE PairsLocked(d)
    <3>1. PairsOfCall(d)' = PairsOfCall(d)
      BY DEF PairsOfCall
    <3>2. CASE d # c
      BY <3>1, <3>2 DEF IndInv, TypeOK, PairsLocked
    <3>3. CASE d = c
      <4>1. todo[c] \subseteq PairsOfCall(c) /\ p \in todo[c]
        BY DEF IndInv, TodoInv, Locking, IsFirst
      <4>2. PairsLocked(c) = PairsOfCall(c) \ todo[c]
        BY DEF PairsLocked, Locking, Locked
      <4>3. todo'[c] = todo[c] \ {p}
        BY DEF IndInv, TypeOK
      <4>4. PairsLocked(c)' = PairsOfCall(c) \ (todo[c] \ {p})
        <5>1. CASE todo[c] = {p}
          BY <3>1, <3>3, <5>1 DEF IndInv, TypeOK, PairsLocked, Locked
        <5>2. CASE todo[c] # {p}
          BY <3>1, <3>3, <4>3, <5>2 DEF IndInv, TypeOK, PairsLocked, Locking, Locked
        <5>3. QED
          BY <5>1, <5>2
      <4>5. QED
        BY <3>3, <4>1, <4>2, <4>4
    <3>4. QED
      BY <3>2, <3>3
  <2>3. QED
    BY <2>1, <2>2
<1>1. TypeOK'
  BY DEF IndInv, TypeOK, Statements
<1>2. TransactionInv'
  BY DEF IndInv, TypeOK, TransactionInv, Transaction
<1>3. EntryInv'
  BY DEF IndInv, TypeOK, EntryInv, Inserted, PairsOfCall
<1>4. AnswersAreTrue'
  BY DEF IndInv, TypeOK, AnswersAreTrue
<1>5. ASSUME NEW d \in Call PROVE RequestInv(d)'
  BY DEF IndInv, TypeOK, RequestInv
<1>6. ASSUME NEW d \in Call PROVE TodoInv(d)'
  BY DEF IndInv, TypeOK, TodoInv, PairsOfCall, Locking
<1>7. ASSUME NEW d \in Call PROVE LockInv(d)'
  BY <1>0, LedgerAssumption DEF IndInv, TypeOK, LockInv
<1>8. ASSUME NEW d \in Call PROVE ReadInv(d)'
  <2>2. CASE d # c
    BY <1>0, <2>2 DEF IndInv, TypeOK, ReadInv, GetBalance
  <2>3. CASE d = c
    <3>2. \A q \in PairsLocked(c) : q[1] = p[1] => q = p
      BY <1>0, ValidFacts DEF IndInv, RequestInv
    <3>3. p[1] \in Account
      BY DEF Pair
    <3>4. \A q \in PairsLocked(c)' :
             balances'[c][q[1]] = IF q = p THEN balance[p] ELSE balances[c][q[1]]
      BY <1>0, <2>3, <3>2, <3>3 DEF IndInv, TypeOK
    <3>5. QED
      BY <1>0, <2>3, <3>4 DEF IndInv, ReadInv, GetBalance
  <2>4. QED
    BY <2>2, <2>3
<1>9. ASSUME NEW d \in Call PROVE KeyInv(d)'
  BY DEF IndInv, TypeOK, KeyInv, HoldsKey
<1>10. ASSUME NEW d \in Call PROVE IndexInv(d)'
  BY DEF IndInv, TypeOK, IndexInv
<1>11. ASSUME NEW d \in Call PROVE LoopInv(d)'
  BY DEF IndInv, TypeOK, LoopInv, Inserted
<1>12. ASSUME NEW d \in Call PROVE (pc[d] \in Inserted => DeltaInv(d))'
  BY DEF IndInv, TypeOK, DeltaInv, Inserted, Aggregated
<1>13. ASSUME NEW d \in Call PROVE WrittenInv(d)'
  BY DEF IndInv, TypeOK, WrittenInv, GetBalance
<1>14. QED
  BY <1>1, <1>2, <1>3, <1>4, <1>5, <1>6, <1>7, <1>8, <1>9, <1>10, <1>11,
     <1>12, <1>13 DEF IndInv

\* A missing row is not found, and its gap locked.
LEMMA SelectMissingStep ==
    ASSUME IndInv, NEW c \in Call, NEW p \in Pair, SelectMissing(c, p)
    PROVE  IndInv'
<1> USE DEF SelectMissing, tables, locks, local
<1>1. TypeOK'
  BY DEF IndInv, TypeOK, Statements, Gap
<1>2. TransactionInv'
  BY DEF IndInv, TypeOK, TransactionInv, Transaction
<1>3. EntryInv'
  BY DEF IndInv, TypeOK, EntryInv, Inserted, PairsOfCall
<1>4. AnswersAreTrue'
  BY DEF IndInv, TypeOK, AnswersAreTrue
<1>5. ASSUME NEW d \in Call PROVE RequestInv(d)'
  BY DEF IndInv, TypeOK, RequestInv
<1>6. ASSUME NEW d \in Call PROVE TodoInv(d)'
  BY DEF IndInv, TypeOK, TodoInv, PairsOfCall, Locking
<1>7. ASSUME NEW d \in Call PROVE LockInv(d)'
  BY DEF IndInv, TypeOK, LockInv, PairsLocked, Locking, Locked,
            PairsOfCall
<1>8. ASSUME NEW d \in Call PROVE ReadInv(d)'
  BY DEF IndInv, TypeOK, ReadInv, PairsLocked, Locking, Locked,
            PairsOfCall, GetBalance
<1>9. ASSUME NEW d \in Call PROVE KeyInv(d)'
  BY DEF IndInv, TypeOK, KeyInv, HoldsKey
<1>10. ASSUME NEW d \in Call PROVE IndexInv(d)'
  BY DEF IndInv, TypeOK, IndexInv
<1>11. ASSUME NEW d \in Call PROVE LoopInv(d)'
  BY DEF IndInv, TypeOK, LoopInv, Inserted
<1>12. ASSUME NEW d \in Call PROVE (pc[d] \in Inserted => DeltaInv(d))'
  BY DEF IndInv, TypeOK, DeltaInv, Inserted, Aggregated
<1>13. ASSUME NEW d \in Call PROVE WrittenInv(d)'
  BY DEF IndInv, TypeOK, WrittenInv, GetBalance
<1>14. QED
  BY <1>1, <1>2, <1>3, <1>4, <1>5, <1>6, <1>7, <1>8, <1>9, <1>10, <1>11,
     <1>12, <1>13 DEF IndInv

\* The missing row goes in, locked.
LEMMA InsertBalanceRowStep ==
    ASSUME IndInv, NEW c \in Call, NEW p \in Pair, InsertBalanceRow(c, p)
    PROVE  IndInv'
<1> USE DEF InsertBalanceRow, LockedPair, tables, locks, local
<1>0. /\ p \in PairsOfCall(c) /\ PairsLocked(c) \subseteq PairsOfCall(c)
      /\ balance[p] = None
      /\ \A d \in Call : written[d][p] = None /\ lock[p] # d
      /\ \A d \in Call :
            PairsLocked(d)' = IF d = c THEN PairsLocked(d) \cup {p}
                                       ELSE PairsLocked(d)
  <2>1. p \in PairsOfCall(c) /\ PairsLocked(c) \subseteq PairsOfCall(c)
    BY DEF IndInv, TodoInv, PairsLocked, Locking, IsFirst
  <2>2. balance[p] = None /\ \A d \in Call : written[d][p] = None
    BY DEF Present
  <2>3. \A d \in Call : lock[p] # d
    BY <2>2 DEF IndInv, LockInv
  <2>4. ASSUME NEW d \in Call
        PROVE  PairsLocked(d)' = IF d = c THEN PairsLocked(d) \cup {p}
                                          ELSE PairsLocked(d)
    <3>1. PairsOfCall(d)' = PairsOfCall(d)
      BY DEF PairsOfCall
    <3>2. CASE d # c
      BY <3>1, <3>2 DEF IndInv, TypeOK, PairsLocked
    <3>3. CASE d = c
      <4>1. todo[c] \subseteq PairsOfCall(c) /\ p \in todo[c]
        BY DEF IndInv, TodoInv, Locking, IsFirst
      <4>2. PairsLocked(c) = PairsOfCall(c) \ todo[c]
        BY DEF PairsLocked, Locking, Locked
      <4>3. todo'[c] = todo[c] \ {p}
        BY DEF IndInv, TypeOK
      <4>4. PairsLocked(c)' = PairsOfCall(c) \ (todo[c] \ {p})
        <5>1. CASE todo[c] = {p}
          BY <3>1, <3>3, <5>1 DEF IndInv, TypeOK, PairsLocked, Locked
        <5>2. CASE todo[c] # {p}
          BY <3>1, <3>3, <4>3, <5>2 DEF IndInv, TypeOK, PairsLocked, Locking, Locked
        <5>3. QED
          BY <5>1, <5>2
      <4>5. QED
        BY <3>3, <4>1, <4>2, <4>4
    <3>4. QED
      BY <3>2, <3>3
  <2>5. QED
    BY <2>1, <2>2, <2>3, <2>4
<1>1. TypeOK'
  BY ZeroIsInt64 DEF IndInv, TypeOK, Statements, Pair
<1>2. TransactionInv'
  BY DEF IndInv, TypeOK, TransactionInv, Transaction
<1>3. EntryInv'
  BY DEF IndInv, TypeOK, EntryInv, Inserted, PairsOfCall
<1>4. AnswersAreTrue'
  BY DEF IndInv, TypeOK, AnswersAreTrue
<1>5. ASSUME NEW d \in Call PROVE RequestInv(d)'
  BY DEF IndInv, TypeOK, RequestInv
<1>6. ASSUME NEW d \in Call PROVE TodoInv(d)'
  BY DEF IndInv, TypeOK, TodoInv, PairsOfCall, Locking
<1>7. ASSUME NEW d \in Call PROVE LockInv(d)'
  <2>1. written'[d] = IF d = c THEN [written[d] EXCEPT ![p] = 0] ELSE written[d]
    BY DEF IndInv, TypeOK
  <2>2. QED
    BY <1>0, <2>1, ZeroIsInt64 DEF IndInv, TypeOK, LockInv
<1>8. ASSUME NEW d \in Call PROVE ReadInv(d)'
  <2>2. CASE d # c
    BY <1>0, <2>2 DEF IndInv, TypeOK, ReadInv, GetBalance
  <2>3. CASE d = c
    <3>2. \A q \in PairsLocked(c) : q[1] = p[1] => q = p
      BY <1>0, ValidFacts DEF IndInv, RequestInv
    <3>3. p[1] \in Account
      BY DEF Pair
    <3>4. \A q \in PairsLocked(c)' :
             balances'[c][q[1]] = IF q = p THEN 0 ELSE balances[c][q[1]]
      BY <1>0, <2>3, <3>2, <3>3 DEF IndInv, TypeOK
    <3>5. QED
      BY <1>0, <2>3, <3>4 DEF IndInv, ReadInv, GetBalance
  <2>4. QED
    BY <2>2, <2>3
<1>9. ASSUME NEW d \in Call PROVE KeyInv(d)'
  BY DEF IndInv, TypeOK, KeyInv, HoldsKey
<1>10. ASSUME NEW d \in Call PROVE IndexInv(d)'
  BY DEF IndInv, TypeOK, IndexInv
<1>11. ASSUME NEW d \in Call PROVE LoopInv(d)'
  BY DEF IndInv, TypeOK, LoopInv, Inserted
<1>12. ASSUME NEW d \in Call PROVE (pc[d] \in Inserted => DeltaInv(d))'
  BY DEF IndInv, TypeOK, DeltaInv, Inserted, Aggregated
<1>13. ASSUME NEW d \in Call PROVE WrittenInv(d)'
  <2>1. written'[d] = IF d = c THEN [written[d] EXCEPT ![p] = 0] ELSE written[d]
    BY DEF IndInv, TypeOK
  <2>2. pc'[d] \in {"update", "commit"} => d # c
    BY DEF IndInv, TypeOK
  <2>3. QED
    BY <1>0, <2>1, <2>2 DEF IndInv, TypeOK, WrittenInv, GetBalance
<1>14. QED
  BY <1>1, <1>2, <1>3, <1>4, <1>5, <1>6, <1>7, <1>8, <1>9, <1>10, <1>11,
     <1>12, <1>13 DEF IndInv

\* The ledger_transactions row goes in.
LEMMA InsertTransactionStep ==
    ASSUME IndInv, NEW c \in Call, InsertTransaction(c)
    PROVE  IndInv'
<1> USE DEF InsertTransaction, tables, locks, local
<1>1. TypeOK'
  BY DEF IndInv, TypeOK, Statements
<1>2. TransactionInv'
  BY DEF IndInv, TypeOK, TransactionInv, Transaction
<1>3. EntryInv'
  BY DEF IndInv, TypeOK, EntryInv, Inserted, PairsOfCall
<1>4. AnswersAreTrue'
  BY DEF IndInv, TypeOK, AnswersAreTrue
<1>5. ASSUME NEW d \in Call PROVE RequestInv(d)'
  BY DEF IndInv, TypeOK, RequestInv
<1>6. ASSUME NEW d \in Call PROVE TodoInv(d)'
  BY DEF IndInv, TypeOK, TodoInv, PairsOfCall, Locking
<1>7. ASSUME NEW d \in Call PROVE LockInv(d)'
  BY DEF IndInv, TypeOK, LockInv, PairsLocked, Locking, Locked,
            PairsOfCall
<1>8. ASSUME NEW d \in Call PROVE ReadInv(d)'
  BY DEF IndInv, TypeOK, ReadInv, PairsLocked, Locking, Locked,
            PairsOfCall, GetBalance
<1>9. ASSUME NEW d \in Call PROVE KeyInv(d)'
  BY DEF IndInv, TypeOK, KeyInv, HoldsKey, KeyBusy
<1>10. ASSUME NEW d \in Call PROVE IndexInv(d)'
  BY ValidFacts DEF IndInv, TypeOK, IndexInv, LoopInv, RequestInv, Inserted
<1>11. ASSUME NEW d \in Call PROVE LoopInv(d)'
  BY DEF IndInv, TypeOK, LoopInv, Inserted
<1>12. ASSUME NEW d \in Call PROVE (pc[d] \in Inserted => DeltaInv(d))'
  <2>1. CASE d = c
    <3>1. index[c] = 1 /\ deltas[c] = [p \in Pair |-> 0]
      BY DEF IndInv, LoopInv, Inserted
    <3>2. Aggregated(c)' = {}
      BY <3>1 DEF IndInv, TypeOK, Aggregated
    <3>3. \A i \in DOMAIN request[c].postings :
             PairOf(request[c].postings[i]) \in Pair
      BY RequestFacts DEF IndInv, RequestInv
    <3>4. QED
      BY <2>1, <3>1, <3>2, <3>3 DEF DeltaInv
  <2>2. CASE d # c
    BY <2>2 DEF IndInv, TypeOK, DeltaInv, Inserted, Aggregated
  <2>3. QED
    BY <2>1, <2>2
<1>13. ASSUME NEW d \in Call PROVE WrittenInv(d)'
  BY DEF IndInv, TypeOK, WrittenInv, GetBalance
<1>14. QED
  BY <1>1, <1>2, <1>3, <1>4, <1>5, <1>6, <1>7, <1>8, <1>9, <1>10, <1>11,
     <1>12, <1>13 DEF IndInv

\* What is locked by one call is locked by no other, and nothing is written
\* outside the locks.
LEMMA LockFacts ==
    ASSUME IndInv, NEW c \in Call
    PROVE  /\ \A p \in PairsLocked(c) : lock[p] = c
           /\ \A p \in Pair : written[c][p] # None => lock[p] = c
           /\ \A d \in Call \ {c} : \A p \in Pair :
                 lock[p] = c => written[d][p] = None /\ p \notin PairsLocked(d)
<1>1. \A d \in Call : LockInv(d)
  BY DEF IndInv
<1>2. QED
  BY <1>1 DEF LockInv

\* An entry goes in.
LEMMA InsertEntryStep ==
    ASSUME IndInv, NEW c \in Call, InsertEntry(c)
    PROVE  IndInv'
<1> DEFINE postings == request[c].postings
           n        == index[c]
           p        == postings[n]
           e        == [id |-> nextEntry, tx |-> c, posting |-> p]
<1>a. /\ pc[c] = "entries"
      /\ nextEntry' = nextEntry + 1
      /\ index' = [index EXCEPT ![c] = @ + 1]
      /\ pending' = [pending EXCEPT ![c] = @ \cup {e}]
      /\ deltas' = [deltas EXCEPT ![c][PairOf(p)] = Wrap(@ + p.amount)]
      /\ \/ /\ n = Len(postings)
            /\ pc' = [pc EXCEPT ![c] = "update"]
            /\ todo' = [todo EXCEPT ![c] = PairsOfCall(c)]
         \/ n # Len(postings) /\ UNCHANGED <<pc, todo>>
      /\ UNCHANGED <<transactions, entries, balance, lock, gaps, request,
                     balances, written, answer>>
  BY DEF InsertEntry, Add, tables, locks
<1>b. /\ request[c] \in Request
      /\ Validate(postings)
      /\ postings \in Seq(Posting)
      /\ PairsOfCall(c) \subseteq Pair
      /\ n \in DOMAIN postings
  BY <1>a, RequestFacts DEF IndInv, RequestInv, IndexInv
<1>c. p \in Posting /\ PairOf(p) \in PairsOfCall(c)
  BY <1>b, RequestFacts
<1>d. p.amount \in Int64 /\ deltas[c][PairOf(p)] \in Int64
  BY <1>b, <1>c DEF IndInv, TypeOK, Posting
<1>e. \A d \in Call : PairsOfCall(d)' = PairsOfCall(d)
  BY <1>a DEF PairsOfCall
<1>f. \A d \in Call : /\ pc'[d] \in Inserted <=> pc[d] \in Inserted
                      /\ PairsLocked(d)' = PairsLocked(d)
  BY <1>a, <1>e DEF IndInv, TypeOK, Inserted, PairsLocked, Locked
<1>g. \A d \in Call \ {c} : /\ pc'[d] = pc[d]
                            /\ todo'[d] = todo[d]
                            /\ index'[d] = index[d]
                            /\ deltas'[d] = deltas[d]
                            /\ pending'[d] = pending[d]
  BY <1>a DEF IndInv, TypeOK
<1> HIDE DEF postings, n, p, e
<1>1. TypeOK'
  <2>1. e \in Entry
    BY <1>c DEF e, Entry, IndInv, TypeOK
  <2>2. Wrap(deltas[c][PairOf(p)] + p.amount) \in Int64
    BY <1>d, WrapInt64, ZeroIsInt64
  <2>3. pending' \in [Call -> SUBSET Entry]
    BY <1>a, <2>1 DEF IndInv, TypeOK
  <2>4. deltas' \in [Call -> [Pair -> Int64]]
    BY <1>a, <2>2 DEF IndInv, TypeOK
  <2>5. pc' \in [Call -> Statements \cup {"new", "begin", "done"}]
    BY <1>a DEF IndInv, TypeOK, Statements
  <2>6. todo' \in [Call -> SUBSET Pair]
    BY <1>a, <1>b DEF IndInv, TypeOK
  <2>7. nextEntry' \in Nat \ {0} /\ index' \in [Call -> Nat \ {0}]
    BY <1>a DEF IndInv, TypeOK
  <2>8. QED
    BY <1>a, <2>3, <2>4, <2>5, <2>6, <2>7 DEF IndInv, TypeOK
<1>2. TransactionInv'
  <2>1. \A t \in transactions : t.id \in Call \ {c}
    BY <1>a DEF IndInv, TypeOK, TransactionInv, Transaction
  <2>2. pc'[c] # "reply"
    BY <1>a DEF IndInv, TypeOK
  <2>3. QED
    BY <1>a, <1>g, <2>1, <2>2 DEF IndInv, TransactionInv
<1>3. EntryInv'
  <2>1. nextEntry \in Nat /\ \A f \in entries : f.id \in Nat /\ f.id < nextEntry
    BY DEF IndInv, TypeOK, EntryInv, Entry
  <2>2. \A f \in entries' : f.id < nextEntry'
    BY <1>a, <2>1
  <2>3. ASSUME NEW d \in Call, NEW g \in pending'[d]
        PROVE  /\ g.id < nextEntry'
               /\ pc'[d] \in Inserted
               /\ PairOf(g.posting) \in PairsOfCall(d)'
               /\ \A f \in entries' : PairOf(g.posting) = PairOf(f.posting)
                                        => f.id < g.id
    <3>1. CASE g \in pending[d]
      <4>1. g.id \in Nat
        BY <3>1 DEF IndInv, TypeOK, Entry
      <4>2. /\ g.id < nextEntry
            /\ pc[d] \in Inserted
            /\ PairOf(g.posting) \in PairsOfCall(d)
            /\ \A f \in entries : PairOf(g.posting) = PairOf(f.posting)
                                     => f.id < g.id
        BY <3>1 DEF IndInv, EntryInv
      <4>3. QED
        BY <1>a, <1>e, <1>f, <2>1, <4>1, <4>2
    <3>2. CASE d = c /\ g = e
      <4>1. g.id = nextEntry /\ g.posting = p
        BY <3>2 DEF e
      <4>2. QED
        BY <1>a, <1>c, <1>e, <1>f, <2>1, <3>2, <4>1 DEF Inserted
    <3>3. QED
      BY <1>a, <1>g, <3>1, <3>2 DEF IndInv, TypeOK
  <2>4. QED
    BY <2>2, <2>3 DEF EntryInv
<1>4. AnswersAreTrue'
  BY <1>a DEF IndInv, AnswersAreTrue
<1>5. ASSUME NEW d \in Call PROVE RequestInv(d)'
  BY <1>a DEF IndInv, TypeOK, RequestInv
<1>6. ASSUME NEW d \in Call PROVE TodoInv(d)'
  <2>1. CASE d = c
    BY <1>a, <1>e, <2>1 DEF IndInv, TypeOK, TodoInv, Locking
  <2>2. CASE d # c
    BY <1>e, <1>g, <2>2 DEF IndInv, TodoInv
  <2>3. QED
    BY <2>1, <2>2
<1>7. ASSUME NEW d \in Call PROVE LockInv(d)'
  <2>1. LockInv(d)
    BY DEF IndInv
  <2>2. QED
    BY <1>a, <1>f, <2>1 DEF LockInv
<1>8. ASSUME NEW d \in Call PROVE ReadInv(d)'
  <2>1. ReadInv(d)
    BY DEF IndInv
  <2>2. QED
    BY <1>a, <1>f, <2>1 DEF ReadInv, GetBalance
<1>9. ASSUME NEW d \in Call PROVE KeyInv(d)'
  BY <1>a DEF IndInv, TypeOK, KeyInv, HoldsKey
<1>10. ASSUME NEW d \in Call PROVE IndexInv(d)'
  <2>1. CASE d = c
    <3>1. n \in Nat /\ (pc'[c] = "entries" => n # Len(postings)) /\ index'[c] = n + 1
      BY <1>a DEF IndInv, TypeOK, n
    <3>2. pc'[c] = "entries" => n + 1 \in DOMAIN postings
      BY <1>b, <3>1
    <3>3. QED
      BY <1>a, <2>1, <3>1, <3>2 DEF IndexInv, postings
  <2>2. CASE d # c
    BY <1>a, <1>g, <2>2 DEF IndInv, IndexInv
  <2>3. QED
    BY <2>1, <2>2
<1>11. ASSUME NEW d \in Call PROVE LoopInv(d)'
  <2>1. CASE d = c
    BY <1>a, <1>f, <2>1 DEF IndInv, LoopInv, Inserted
  <2>2. CASE d # c
    BY <1>a, <1>f, <1>g, <2>2 DEF IndInv, LoopInv
  <2>3. QED
    BY <2>1, <2>2
<1>12. ASSUME NEW d \in Call PROVE (pc[d] \in Inserted => DeltaInv(d))'
  <2>1. CASE d # c
    BY <1>a, <1>f, <1>g, <2>1 DEF IndInv, DeltaInv, Aggregated
  <2>2. CASE d = c
    <3> SUFFICES ASSUME NamesOnce(postings) PROVE DeltaInv(c)'
      BY <1>a, <2>2 DEF DeltaInv, postings
    <3>1. \A i \in DOMAIN postings :
             /\ PairOf(postings[i]) \in Pair
             /\ i # n => PairOf(postings[i]) # PairOf(p)
      <4>1. \A i \in DOMAIN postings : PairOf(postings[i]) \in Pair
        BY <1>b, RequestFacts DEF postings
      <4>2. QED
        BY <1>b, <4>1 DEF NamesOnce, PairOf, p
    <3>2. /\ \A i \in 1 .. n - 1 :
                deltas[c][PairOf(postings[i])] = postings[i].amount
          /\ \A i \in DOMAIN postings \ 1 .. n - 1 :
                deltas[c][PairOf(postings[i])] = 0
      BY <1>a DEF IndInv, DeltaInv, Aggregated, Inserted, n, postings
    <3>3. deltas'[c][PairOf(p)] = p.amount
      <4>1. deltas[c][PairOf(p)] = 0
        BY <1>b, <3>2 DEF IndInv, TypeOK, p
      <4>2. p.amount \in Int /\ Wrap(p.amount) = p.amount
        BY <1>d, WrapIdentity, ZeroIsInt64
      <4>3. Wrap(deltas[c][PairOf(p)] + p.amount) = p.amount
        BY <4>1, <4>2
      <4>4. PairOf(p) \in Pair
        BY <1>b, <1>c
      <4>5. QED
        BY <1>a, <4>3, <4>4 DEF IndInv, TypeOK
    <3>4. \A i \in DOMAIN postings \ {n} :
             deltas'[c][PairOf(postings[i])] = deltas[c][PairOf(postings[i])]
      BY <1>a, <1>b, <1>c, <3>1 DEF IndInv, TypeOK
    <3>5. Aggregated(c)' = 1 .. n
      <4>1. n \in Nat \ {0} /\ DOMAIN postings = 1 .. Len(postings)
        BY <1>b DEF IndInv, TypeOK
      <4>2. CASE n = Len(postings)
        BY <1>a, <4>1, <4>2 DEF IndInv, TypeOK, Aggregated, postings
      <4>3. CASE n # Len(postings)
        BY <1>a, <4>1, <4>3 DEF IndInv, TypeOK, Aggregated, n
      <4>4. QED
        BY <4>2, <4>3
    <3>6. n \in Nat \ {0} /\ DOMAIN postings = 1 .. Len(postings) /\ Len(postings) \in Nat
      BY <1>b DEF IndInv, TypeOK, n
    <3>7. \A i \in 1 .. n : deltas'[c][PairOf(postings[i])] = postings[i].amount
      BY <1>b, <3>2, <3>3, <3>4, <3>6 DEF p
    <3>8. \A i \in DOMAIN postings \ 1 .. n : deltas'[c][PairOf(postings[i])] = 0
      BY <3>2, <3>4, <3>6
    <3>9. QED
      BY <1>a, <3>5, <3>7, <3>8 DEF DeltaInv, postings
  <2>3. QED
    BY <2>1, <2>2
<1>13. ASSUME NEW d \in Call PROVE WrittenInv(d)'
  <2>1. CASE d # c
    BY <1>a, <1>g, <2>1 DEF IndInv, WrittenInv, GetBalance
  <2>2. CASE d = c
    <3>1. ASSUME NEW q \in Pair, written[c][q] # None
          PROVE  /\ written[c][q] = 0 /\ balance[q] = None
                 /\ q \in PairsOfCall(c)
      BY <1>a, <3>1 DEF IndInv, WrittenInv, LockInv, PairsLocked, Locked
    <3>2. pc'[c] = "entries" \/ (pc'[c] = "update" /\ todo'[c] = PairsOfCall(c))
      BY <1>a DEF IndInv, TypeOK
    <3>3. QED
      BY <1>a, <2>2, <3>1, <3>2 DEF WrittenInv
  <2>3. QED
    BY <2>1, <2>2
<1>14. QED
  BY <1>1, <1>2, <1>3, <1>4, <1>5, <1>6, <1>7, <1>8, <1>9, <1>10, <1>11,
     <1>12, <1>13 DEF IndInv

\* A balance row is updated.
LEMMA UpdateBalanceStep ==
    ASSUME IndInv, NEW c \in Call, NEW p \in Pair, UpdateBalance(c, p)
    PROVE  IndInv'
<1> DEFINE new == Current(c, p) + deltas[c][p]
<1>a. /\ pc[c] = "update"
      /\ p \in todo[c]
      /\ new \in Int64
      /\ lock' = [lock EXCEPT ![p] = c]
      /\ written' = [written EXCEPT ![c][p] = new]
      /\ todo' = [todo EXCEPT ![c] = @ \ {p}]
      /\ pc' = [pc EXCEPT ![c] = IF todo[c] = {p} THEN "commit" ELSE "update"]
      /\ UNCHANGED <<transactions, entries, balance, nextEntry, gaps, request,
                     index, balances, deltas, pending, answer>>
  BY DEF UpdateBalance, Storable, IsFirst, tables
<1> HIDE DEF new
<1>b. todo[c] \subseteq PairsOfCall(c) /\ PairsLocked(c) = PairsOfCall(c)
  BY <1>a DEF IndInv, TodoInv, PairsLocked, Locking, Locked
<1>c. lock[p] = c /\ lock' = lock
  BY <1>a, <1>b, LockFacts DEF IndInv, TypeOK
<1>d. new = GetBalance(p) + deltas[c][p]
  <2>1. written[c][p] # None => written[c][p] = 0 /\ balance[p] = None
    BY <1>a DEF IndInv, WrittenInv
  <2>2. balance[p] # None \/ written[c][p] # None
    BY <1>c DEF IndInv, LockInv
  <2>3. Current(c, p) = GetBalance(p)
    BY <2>1, <2>2 DEF Current, GetBalance
  <2>4. QED
    BY <2>3 DEF new
<1>e. \A d \in Call : /\ PairsOfCall(d)' = PairsOfCall(d)
                      /\ pc'[d] \in Inserted <=> pc[d] \in Inserted
                      /\ PairsLocked(d)' = PairsLocked(d)
                      /\ Aggregated(d)' = Aggregated(d)
  <2>1. \A d \in Call : PairsOfCall(d)' = PairsOfCall(d)
    BY <1>a DEF PairsOfCall
  <2>2. QED
    BY <1>a, <2>1 DEF IndInv, TypeOK, Inserted, PairsLocked, Locked, Locking,
                      Aggregated
<1>f. \A d \in Call \ {c} : /\ pc'[d] = pc[d]
                            /\ todo'[d] = todo[d]
                            /\ written'[d] = written[d]
  BY <1>a DEF IndInv, TypeOK
<1>g. written'[c] = [written[c] EXCEPT ![p] = new] /\ new # None
  BY <1>a, LedgerAssumption DEF IndInv, TypeOK
<1>1. TypeOK'
  BY <1>a, <1>c DEF IndInv, TypeOK, Statements
<1>2. TransactionInv'
  BY <1>a DEF IndInv, TypeOK, TransactionInv, Transaction
<1>3. EntryInv'
  BY <1>a, <1>e DEF IndInv, EntryInv
<1>4. AnswersAreTrue'
  BY <1>a DEF IndInv, AnswersAreTrue
<1>5. ASSUME NEW d \in Call PROVE RequestInv(d)'
  BY <1>a DEF IndInv, TypeOK, RequestInv
<1>6. ASSUME NEW d \in Call PROVE TodoInv(d)'
  <2>1. CASE d = c
    BY <1>a, <1>b, <1>e, <2>1 DEF IndInv, TypeOK, TodoInv, Locking
  <2>2. CASE d # c
    BY <1>e, <1>f, <2>2 DEF IndInv, TodoInv
  <2>3. QED
    BY <2>1, <2>2
<1>7. ASSUME NEW d \in Call PROVE LockInv(d)'
  <2>1. LockInv(d)
    BY DEF IndInv
  <2>2. CASE d # c
    BY <1>a, <1>c, <1>e, <1>f, <2>1, <2>2 DEF LockInv
  <2>3. CASE d = c
    <3>1. \A q \in Pair :
             written'[c][q] # None <=> q = p \/ written[c][q] # None
      BY <1>g DEF IndInv, TypeOK
    <3>2. QED
      BY <1>a, <1>b, <1>c, <1>e, <2>1, <2>3, <3>1 DEF LockInv
  <2>4. QED
    BY <2>2, <2>3
<1>8. ASSUME NEW d \in Call PROVE ReadInv(d)'
  BY <1>a, <1>e DEF IndInv, ReadInv, GetBalance
<1>9. ASSUME NEW d \in Call PROVE KeyInv(d)'
  BY <1>a DEF IndInv, TypeOK, KeyInv, HoldsKey
<1>10. ASSUME NEW d \in Call PROVE IndexInv(d)'
  BY <1>a DEF IndInv, TypeOK, IndexInv
<1>11. ASSUME NEW d \in Call PROVE LoopInv(d)'
  BY <1>a, <1>e DEF IndInv, LoopInv
<1>12. ASSUME NEW d \in Call PROVE (pc[d] \in Inserted => DeltaInv(d))'
  <2>1. CASE d = c
    BY <1>a, <1>e, <2>1 DEF IndInv, TypeOK, DeltaInv
  <2>2. CASE d # c
    BY <1>a, <1>e, <1>f, <2>2 DEF IndInv, DeltaInv
  <2>3. QED
    BY <2>1, <2>2
<1>13. ASSUME NEW d \in Call PROVE WrittenInv(d)'
  <2>1. CASE d # c
    BY <1>a, <1>f, <2>1 DEF IndInv, WrittenInv, GetBalance
  <2>2. CASE d = c
    <3>1. pc'[c] \in {"update", "commit"} /\ todo'[c] = todo[c] \ {p}
      BY <1>a DEF IndInv, TypeOK
    <3>2. \A q \in Pair : written'[c][q] = IF q = p THEN new ELSE written[c][q]
      BY <1>g DEF IndInv, TypeOK
    <3>3. \A q \in Pair : GetBalance(q)' = GetBalance(q)
      BY <1>a DEF GetBalance
    <3>4. QED
      BY <1>a, <1>d, <2>2, <3>1, <3>2, <3>3 DEF IndInv, WrittenInv
  <2>3. QED
    BY <2>1, <2>2
<1>14. QED
  BY <1>1, <1>2, <1>3, <1>4, <1>5, <1>6, <1>7, <1>8, <1>9, <1>10, <1>11,
     <1>12, <1>13 DEF IndInv

\* COMMIT publishes what the call has written, all of it under its locks.
LEMMA CommitStep ==
    ASSUME IndInv, NEW c \in Call, Commit(c)
    PROVE  IndInv'
<1>a. /\ pc[c] = "commit"
      /\ transactions' = transactions \cup {[id |-> c, key |-> request[c].key]}
      /\ entries' = entries \cup pending[c]
      /\ balance' = [q \in Pair |-> IF written[c][q] # None THEN written[c][q]
                                                            ELSE balance[q]]
      /\ pc' = [pc EXCEPT ![c] = "reply"]
      /\ UNCHANGED <<nextEntry, request, answer>>
  BY DEF Commit
<1>b. /\ lock' = [q \in Pair |-> IF lock[q] = c THEN None ELSE lock[q]]
      /\ gaps' = [d \in Call |-> IF d = c THEN {} ELSE gaps[d]]
      /\ pending' = [d \in Call |-> IF d = c THEN {} ELSE pending[d]]
      /\ written' = [d \in Call |-> IF d = c THEN [q \in Pair |-> None]
                                             ELSE written[d]]
      /\ todo' = [d \in Call |-> IF d = c THEN {} ELSE todo[d]]
      /\ index' = [d \in Call |-> IF d = c THEN 1 ELSE index[d]]
      /\ balances' = [d \in Call |-> IF d = c THEN [a \in Account |-> 0]
                                              ELSE balances[d]]
      /\ deltas' = [d \in Call |-> IF d = c THEN [q \in Pair |-> 0]
                                            ELSE deltas[d]]
  BY DEF Commit, Rollback, Forget
<1>c. request[c] \in Request /\ request[c].key \in Key
  BY <1>a, RequestFacts DEF IndInv, RequestInv
<1>d. /\ PairsLocked(c) = PairsOfCall(c) /\ PairsLocked(c)' = {}
      /\ \A d \in Call : PairsOfCall(d)' = PairsOfCall(d)
      /\ \A d \in Call \ {c} : PairsLocked(d)' = PairsLocked(d)
  <2>1. \A d \in Call : PairsOfCall(d)' = PairsOfCall(d)
    BY <1>a DEF PairsOfCall
  <2>2. QED
    BY <1>a, <1>b, <2>1 DEF IndInv, TypeOK, PairsLocked, Locked, Locking
<1>e. ASSUME NEW d \in Call \ {c}, NEW q \in Pair,
             lock[q] = d \/ q \in PairsLocked(d) \/ written[d][q] # None
      PROVE  lock[q] = d /\ balance'[q] = balance[q]
  <2>1. lock[q] = d
    BY <1>e, LockFacts
  <2>2. written[c][q] = None
    BY <2>1, LockFacts
  <2>3. QED
    BY <1>a, <2>1, <2>2
<1>f. \A d \in Call \ {c} : /\ pc'[d] = pc[d]
                            /\ todo'[d] = todo[d]
                            /\ index'[d] = index[d]
                            /\ balances'[d] = balances[d]
                            /\ deltas'[d] = deltas[d]
                            /\ pending'[d] = pending[d]
                            /\ written'[d] = written[d]
  BY <1>a, <1>b DEF IndInv, TypeOK
<1>g. pc'[c] = "reply" /\ todo'[c] = {} /\ pending'[c] = {}
  BY <1>a, <1>b DEF IndInv, TypeOK
<1>1. TypeOK'
  <2>1. transactions' \subseteq Transaction
    BY <1>a, <1>c DEF IndInv, TypeOK, Transaction
  <2>2. entries' \subseteq Entry /\ balance' \in [Pair -> Int64 \cup {None}]
    BY <1>a DEF IndInv, TypeOK
  <2>3. pc' \in [Call -> Statements \cup {"new", "begin", "done"}]
    BY <1>a DEF IndInv, TypeOK, Statements
  <2>4. QED
    BY <1>a, <1>b, <2>1, <2>2, <2>3, ZeroIsInt64 DEF IndInv, TypeOK
<1>2. TransactionInv'
  <2>1. \A t \in transactions : t.id \in Call \ {c}
    BY <1>a DEF IndInv, TypeOK, TransactionInv, Transaction
  <2>2. QED
    BY <1>a, <1>f, <1>g, <2>1 DEF IndInv, TransactionInv
<1>3. EntryInv'
  <2>1. \A f \in entries' : f.id < nextEntry'
    BY <1>a DEF IndInv, EntryInv
  <2>2. ASSUME NEW d \in Call, NEW g \in pending'[d]
        PROVE  /\ g.id < nextEntry'
               /\ pc'[d] \in Inserted
               /\ PairOf(g.posting) \in PairsOfCall(d)'
               /\ \A f \in entries' : PairOf(g.posting) = PairOf(f.posting)
                                        => f.id < g.id
    <3>1. d # c /\ g \in pending[d]
      BY <1>f, <1>g, <2>2
    <3>2. /\ g.id < nextEntry
          /\ pc[d] \in Inserted
          /\ PairOf(g.posting) \in PairsOfCall(d)
          /\ \A f \in entries : PairOf(g.posting) = PairOf(f.posting)
                                   => f.id < g.id
      BY <3>1 DEF IndInv, EntryInv
    <3>3. PairOf(g.posting) \in PairsLocked(d)
      BY <3>2 DEF PairsLocked, Inserted, Locked
    <3>4. PairOf(g.posting) \in Pair
      BY <3>2, RequestFacts DEF IndInv, RequestInv, Inserted
    <3>5. ASSUME NEW f \in pending[c] PROVE PairOf(g.posting) # PairOf(f.posting)
      <4>1. PairOf(f.posting) \in PairsLocked(c)
        BY <1>d DEF IndInv, EntryInv
      <4>2. QED
        BY <3>1, <3>3, <3>4, <4>1, LockFacts
    <3>6. QED
      BY <1>a, <1>d, <1>f, <3>1, <3>2, <3>5
  <2>3. QED
    BY <2>1, <2>2 DEF EntryInv
<1>4. AnswersAreTrue'
  <2>1. answer[c] = NoAnswer
    BY <1>a DEF IndInv, RequestInv
  <2>2. ASSUME NEW d \in Call
        PROVE  /\ answer[d].code = "OK" =>
                     [id |-> answer[d].tx, key |-> request[d].key] \in transactions'
               /\ answer[d].code \in {"InvalidArgument", "FailedPrecondition"} =>
                     \A t \in transactions' : t.id # d
    <3>1. CASE d = c
      BY <2>1, <3>1 DEF NoAnswer
    <3>2. CASE d # c
      BY <1>a, <3>2 DEF IndInv, AnswersAreTrue
    <3>3. QED
      BY <3>1, <3>2
  <2>3. QED
    BY <1>a, <2>2 DEF AnswersAreTrue
<1>5. ASSUME NEW d \in Call PROVE RequestInv(d)'
  BY <1>a DEF IndInv, TypeOK, RequestInv
<1>6. ASSUME NEW d \in Call PROVE TodoInv(d)'
  <2>1. CASE d = c
    BY <1>g, <2>1 DEF TodoInv, Locking
  <2>2. CASE d # c
    BY <1>d, <1>f, <2>2 DEF IndInv, TodoInv
  <2>3. QED
    BY <2>1, <2>2
<1>7. ASSUME NEW d \in Call PROVE LockInv(d)'
  <2>1. CASE d = c
    BY <1>b, <1>d, <2>1, LedgerAssumption DEF LockInv
  <2>2. CASE d # c
    <3>1. LockInv(d)
      BY DEF IndInv
    <3>2. \A q \in Pair : lock'[q] = d <=> lock[q] = d
      BY <1>b, <2>2, LedgerAssumption
    <3>3. PairsLocked(d) \subseteq Pair
      BY RequestFacts DEF IndInv, RequestInv, PairsLocked, Locking, Locked
    <3>4. /\ \A q \in PairsLocked(d) : lock'[q] = d
          /\ \A q \in Pair : written'[d][q] # None => q \in PairsLocked(d)
      BY <1>f, <2>2, <3>1, <3>2, <3>3 DEF LockInv
    <3>5. \A q \in Pair : lock'[q] = d =>
                             balance'[q] # None \/ written'[d][q] # None
      BY <1>e, <1>f, <2>2, <3>1, <3>2 DEF LockInv
    <3>6. QED
      BY <1>d, <2>2, <3>4, <3>5 DEF LockInv
  <2>3. QED
    BY <2>1, <2>2
<1>8. ASSUME NEW d \in Call PROVE ReadInv(d)'
  <2>1. CASE d = c
    BY <1>d, <2>1 DEF ReadInv
  <2>2. CASE d # c
    <3>1. PairsLocked(d) \subseteq Pair
      BY RequestFacts DEF IndInv, RequestInv, PairsLocked, Locking, Locked
    <3>2. \A q \in PairsLocked(d) : balance'[q] = balance[q]
      BY <1>e, <2>2, <3>1
    <3>3. QED
      BY <1>d, <1>f, <2>2, <3>2 DEF IndInv, ReadInv, GetBalance
  <2>3. QED
    BY <2>1, <2>2
<1>9. ASSUME NEW d \in Call PROVE KeyInv(d)'
  BY <1>a DEF IndInv, TypeOK, KeyInv, HoldsKey
<1>10. ASSUME NEW d \in Call PROVE IndexInv(d)'
  BY <1>a, <1>f, <1>g DEF IndInv, IndexInv
<1>11. ASSUME NEW d \in Call PROVE LoopInv(d)'
  <2>1. CASE d = c
    BY <1>b, <1>g, <2>1 DEF LoopInv, Inserted
  <2>2. CASE d # c
    BY <1>a, <1>f, <2>2 DEF IndInv, LoopInv
  <2>3. QED
    BY <2>1, <2>2
<1>12. ASSUME NEW d \in Call PROVE (pc[d] \in Inserted => DeltaInv(d))'
  <2>1. CASE d = c
    BY <1>g, <2>1 DEF Inserted
  <2>2. CASE d # c
    BY <1>a, <1>f, <2>2 DEF IndInv, DeltaInv, Aggregated
  <2>3. QED
    BY <2>1, <2>2
<1>13. ASSUME NEW d \in Call PROVE WrittenInv(d)'
  <2>1. CASE d = c
    BY <1>b, <2>1 DEF WrittenInv
  <2>2. CASE d # c
    BY <1>a, <1>e, <1>f, <2>2 DEF IndInv, WrittenInv, GetBalance
  <2>3. QED
    BY <2>1, <2>2
<1>14. QED
  BY <1>1, <1>2, <1>3, <1>4, <1>5, <1>6, <1>7, <1>8, <1>9, <1>10, <1>11,
     <1>12, <1>13 DEF IndInv

\* The calls of C end: their locks and their uncommitted writes go, and what
\* they are told is true.
LEMMA EndStep ==
    ASSUME IndInv, NEW C \in SUBSET Call,
           pc' = [d \in Call |-> IF d \in C THEN "done" ELSE pc[d]],
           \A d \in C : pc[d] # "new",
           answer' \in [Call -> Answer],
           \A d \in Call \ C : answer'[d] = answer[d],
           \A d \in C :
              /\ answer'[d].code = "OK" =>
                    [id |-> answer'[d].tx, key |-> request[d].key] \in transactions
              /\ answer'[d].code \in {"InvalidArgument", "FailedPrecondition"} =>
                    \A t \in transactions : t.id # d,
           Rollback(C), Forget(C),
           UNCHANGED <<tables, nextEntry, request>>
    PROVE  IndInv'
<1>a. UNCHANGED <<transactions, entries, balance, nextEntry, request>>
  BY DEF tables
<1>b. /\ lock' = [q \in Pair |-> IF lock[q] \in C THEN None ELSE lock[q]]
      /\ gaps' = [d \in Call |-> IF d \in C THEN {} ELSE gaps[d]]
      /\ pending' = [d \in Call |-> IF d \in C THEN {} ELSE pending[d]]
      /\ written' = [d \in Call |-> IF d \in C THEN [q \in Pair |-> None]
                                               ELSE written[d]]
      /\ todo' = [d \in Call |-> IF d \in C THEN {} ELSE todo[d]]
      /\ index' = [d \in Call |-> IF d \in C THEN 1 ELSE index[d]]
      /\ balances' = [d \in Call |-> IF d \in C THEN [a \in Account |-> 0]
                                                ELSE balances[d]]
      /\ deltas' = [d \in Call |-> IF d \in C THEN [q \in Pair |-> 0]
                                              ELSE deltas[d]]
  BY DEF Rollback, Forget
<1>c. ASSUME NEW d \in C
      PROVE  /\ pc'[d] = "done"
             /\ todo'[d] = {}
             /\ index'[d] = 1
             /\ deltas'[d] = [q \in Pair |-> 0]
             /\ pending'[d] = {}
             /\ \A q \in Pair : written'[d][q] = None /\ lock'[q] # d
             /\ PairsLocked(d)' = {}
  <2>1. d \in Call /\ pc'[d] = "done"
    OBVIOUS
  <2>2. PairsLocked(d)' = {}
    BY <2>1 DEF PairsLocked, Locked, Locking
  <2>3. QED
    BY <1>b, <2>1, <2>2, LedgerAssumption
<1>d. ASSUME NEW d \in Call \ C
      PROVE  /\ pc'[d] = pc[d]
             /\ todo'[d] = todo[d]
             /\ index'[d] = index[d]
             /\ balances'[d] = balances[d]
             /\ deltas'[d] = deltas[d]
             /\ pending'[d] = pending[d]
             /\ written'[d] = written[d]
             /\ PairsOfCall(d)' = PairsOfCall(d)
             /\ PairsLocked(d)' = PairsLocked(d)
             /\ \A q \in Pair : lock'[q] = d <=> lock[q] = d
  <2>1. /\ pc'[d] = pc[d]
        /\ todo'[d] = todo[d]
        /\ index'[d] = index[d]
        /\ balances'[d] = balances[d]
        /\ deltas'[d] = deltas[d]
        /\ pending'[d] = pending[d]
        /\ written'[d] = written[d]
    BY <1>b
  <2>2. PairsOfCall(d)' = PairsOfCall(d)
    BY <1>a DEF PairsOfCall
  <2>3. \A q \in Pair : lock'[q] = d <=> lock[q] = d
    BY <1>b, LedgerAssumption
  <2>4. QED
    BY <2>1, <2>2, <2>3 DEF PairsLocked
<1>1. TypeOK'
  <2>1. pc' \in [Call -> Statements \cup {"new", "begin", "done"}]
    BY DEF IndInv, TypeOK
  <2>2. QED
    BY <1>a, <1>b, <2>1, ZeroIsInt64 DEF IndInv, TypeOK
<1>2. TransactionInv'
  <2>1. \A t \in transactions : t.id \in Call
    BY DEF IndInv, TypeOK, Transaction
  <2>2. QED
    BY <1>a, <1>c, <1>d, <2>1 DEF IndInv, TransactionInv
<1>3. EntryInv'
  <2>1. \A f \in entries' : f.id < nextEntry'
    BY <1>a DEF IndInv, EntryInv
  <2>2. ASSUME NEW d \in Call, NEW g \in pending'[d]
        PROVE  /\ g.id < nextEntry'
               /\ pc'[d] \in Inserted
               /\ PairOf(g.posting) \in PairsOfCall(d)'
               /\ \A f \in entries' : PairOf(g.posting) = PairOf(f.posting)
                                        => f.id < g.id
    <3>1. d \in Call \ C /\ g \in pending[d]
      BY <1>c, <1>d, <2>2
    <3>2. QED
      BY <1>a, <1>d, <3>1 DEF IndInv, EntryInv
  <2>3. QED
    BY <2>1, <2>2 DEF EntryInv
<1>4. AnswersAreTrue'
  <2>1. ASSUME NEW d \in Call
        PROVE  /\ answer'[d].code = "OK" =>
                     [id |-> answer'[d].tx, key |-> request[d].key] \in transactions
               /\ answer'[d].code \in {"InvalidArgument", "FailedPrecondition"} =>
                     \A t \in transactions : t.id # d
    <3>1. CASE d \in C
      BY <3>1
    <3>2. CASE d \notin C
      BY <3>2 DEF IndInv, AnswersAreTrue
    <3>3. QED
      BY <3>1, <3>2
  <2>2. QED
    BY <1>a, <2>1 DEF AnswersAreTrue
<1>5. ASSUME NEW d \in Call PROVE RequestInv(d)'
  BY <1>a DEF IndInv, RequestInv
<1>6. ASSUME NEW d \in Call PROVE TodoInv(d)'
  <2>1. CASE d \in C
    BY <1>c, <2>1 DEF TodoInv, Locking
  <2>2. CASE d \notin C
    BY <1>d, <2>2 DEF IndInv, TodoInv
  <2>3. QED
    BY <2>1, <2>2
<1>7. ASSUME NEW d \in Call PROVE LockInv(d)'
  <2>1. CASE d \in C
    BY <1>c, <2>1 DEF LockInv
  <2>2. CASE d \notin C
    <3>1. LockInv(d)
      BY DEF IndInv
    <3>2. PairsLocked(d) \subseteq Pair
      BY RequestFacts DEF IndInv, RequestInv, PairsLocked, Locking, Locked
    <3>3. QED
      BY <1>a, <1>d, <2>2, <3>1, <3>2 DEF LockInv
  <2>3. QED
    BY <2>1, <2>2
<1>8. ASSUME NEW d \in Call PROVE ReadInv(d)'
  <2>1. CASE d \in C
    BY <1>c, <2>1 DEF ReadInv
  <2>2. CASE d \notin C
    BY <1>a, <1>d, <2>2 DEF IndInv, ReadInv, GetBalance
  <2>3. QED
    BY <2>1, <2>2
<1>9. ASSUME NEW d \in Call PROVE KeyInv(d)'
  BY <1>a DEF IndInv, TypeOK, KeyInv, HoldsKey
<1>10. ASSUME NEW d \in Call PROVE IndexInv(d)'
  BY <1>a, <1>c, <1>d DEF IndInv, IndexInv
<1>11. ASSUME NEW d \in Call PROVE LoopInv(d)'
  <2>1. CASE d \in C
    BY <1>c, <2>1 DEF LoopInv, Inserted
  <2>2. CASE d \notin C
    BY <1>a, <1>d, <2>2 DEF IndInv, LoopInv
  <2>3. QED
    BY <2>1, <2>2
<1>12. ASSUME NEW d \in Call PROVE (pc[d] \in Inserted => DeltaInv(d))'
  <2>1. CASE d \in C
    BY <1>c, <2>1 DEF Inserted
  <2>2. CASE d \notin C
    BY <1>a, <1>d, <2>2 DEF IndInv, DeltaInv, Aggregated
  <2>3. QED
    BY <2>1, <2>2
<1>13. ASSUME NEW d \in Call PROVE WrittenInv(d)'
  <2>1. CASE d \in C
    BY <1>c, <2>1 DEF WrittenInv
  <2>2. CASE d \notin C
    BY <1>a, <1>d, <2>2 DEF IndInv, WrittenInv, GetBalance
  <2>3. QED
    BY <2>1, <2>2
<1>14. QED
  BY <1>1, <1>2, <1>3, <1>4, <1>5, <1>6, <1>7, <1>8, <1>9, <1>10, <1>11,
     <1>12, <1>13 DEF IndInv

\* One call ends, with an answer that is true.
LEMMA ReturnStep ==
    ASSUME IndInv, NEW c \in Call, NEW a \in Answer, pc[c] # "new",
           Return(c, a),
           a.code = "OK" => [id |-> a.tx, key |-> request[c].key] \in transactions,
           a.code \in {"InvalidArgument", "FailedPrecondition"} =>
              \A t \in transactions : t.id # c
    PROVE  IndInv'
<1>1. pc' = [d \in Call |-> IF d \in {c} THEN "done" ELSE pc[d]]
  BY DEF Return, IndInv, TypeOK
<1>2. answer' \in [Call -> Answer] /\ answer'[c] = a
      /\ \A d \in Call \ {c} : answer'[d] = answer[d]
  BY DEF Return, IndInv, TypeOK
<1>3. Rollback({c}) /\ Forget({c}) /\ UNCHANGED <<tables, nextEntry, request>>
  BY DEF Return
<1>4. {c} \in SUBSET Call
  OBVIOUS
<1>5. QED
  BY <1>1, <1>2, <1>3, <1>4, EndStep

\* An error that says nothing of what was posted is always true.
LEMMA ErrorStep ==
    ASSUME IndInv, NEW c \in Call, pc[c] # "new", Return(c, Err("Internal"))
    PROVE  IndInv'
<1>1. Err("Internal") \in Answer /\ Err("Internal").code = "Internal"
  BY DEF Answer, Err, Codes
<1>2. QED
  BY <1>1, ReturnStep

\* The process dies: every call it was running ends.
LEMMA CrashStep == ASSUME IndInv, Crash PROVE IndInv'
<1> DEFINE C == {c \in Call : pc[c] \notin {"new", "done"}}
<1>1. /\ pc' = [c \in Call |-> IF c \in C THEN "done" ELSE pc[c]]
      /\ answer' = [c \in Call |-> IF c \in C THEN Err("Lost") ELSE answer[c]]
      /\ Rollback(C) /\ Forget(C) /\ UNCHANGED <<tables, nextEntry, request>>
  BY DEF Crash
<1>2. C \in SUBSET Call /\ \A d \in C : pc[d] # "new"
  OBVIOUS
<1> HIDE DEF C
<1>3. Err("Lost") \in Answer /\ Err("Lost").code = "Lost"
  BY DEF Answer, Err, Codes
<1>4. answer' \in [Call -> Answer]
  BY <1>1, <1>3 DEF IndInv, TypeOK
<1>5. /\ \A d \in Call \ C : answer'[d] = answer[d]
      /\ \A d \in C : answer'[d].code = "Lost"
  BY <1>1, <1>2, <1>3
<1>6. QED
  BY <1>1, <1>2, <1>4, <1>5, EndStep

\* A handler's statement, and whatever disturbs it, keeps the invariant.
LEMMA CallStep ==
    ASSUME IndInv, NEW c \in Call, Step(c) \/ Disturb(c)
    PROVE  IndInv'
<1>1. CASE Begin(c)
  BY <1>1, BeginStep
<1>2. CASE Replay(c)
  <2>1. PICK t \in transactions : t.key = request[c].key /\ Return(c, Ok(t.id))
    BY <1>2 DEF Replay
  <2>2. t \in Transaction
    BY DEF IndInv, TypeOK
  <2>3. /\ Ok(t.id) \in Answer /\ Ok(t.id).code = "OK" /\ Ok(t.id).tx = t.id
        /\ t = [id |-> t.id, key |-> request[c].key]
    BY <2>1, <2>2 DEF Answer, Ok, Transaction
  <2>4. pc[c] # "new"
    BY <1>2 DEF Replay
  <2>5. QED
    BY <2>1, <2>3, <2>4, ReturnStep
<1>3. CASE NotPosted(c)
  BY <1>3, NotPostedStep
<1>4. CASE \E p \in Pair : SelectForUpdate(c, p)
  BY <1>4, SelectForUpdateStep
<1>5. CASE \E p \in Pair : SelectMissing(c, p)
  BY <1>5, SelectMissingStep
<1>6. CASE \E p \in Pair : InsertBalanceRow(c, p)
  BY <1>6, InsertBalanceRowStep
<1>7. CASE RejectOverdraft(c)
  <2>1. pc[c] = "check" /\ Return(c, Err("FailedPrecondition"))
    BY <1>7 DEF RejectOverdraft
  <2>2. \A t \in transactions : t.id # c
    BY <2>1 DEF IndInv, TransactionInv
  <2>3. /\ Err("FailedPrecondition") \in Answer
        /\ Err("FailedPrecondition").code = "FailedPrecondition"
    BY DEF Answer, Err, Codes
  <2>4. QED
    BY <2>1, <2>2, <2>3, ReturnStep
<1>8. CASE InsertTransaction(c)
  BY <1>8, InsertTransactionStep
<1>9. CASE DuplicateKey(c)
  BY <1>9, ErrorStep DEF DuplicateKey
<1>10. CASE InsertEntry(c)
  BY <1>10, InsertEntryStep
<1>11. CASE \E p \in Pair : UpdateBalance(c, p)
  BY <1>11, UpdateBalanceStep
<1>12. CASE \E p \in Pair : UpdateOutOfRange(c, p)
  BY <1>12, ErrorStep DEF UpdateOutOfRange
<1>13. CASE Commit(c)
  BY <1>13, CommitStep
<1>14. CASE Reply(c)
  <2>1. pc[c] = "reply" /\ Return(c, Ok(c))
    BY <1>14 DEF Reply
  <2>2. [id |-> c, key |-> request[c].key] \in transactions
    BY <2>1 DEF IndInv, TransactionInv
  <2>3. Ok(c) \in Answer /\ Ok(c).code = "OK" /\ Ok(c).tx = c
    BY DEF Answer, Ok
  <2>4. QED
    BY <2>1, <2>2, <2>3, ReturnStep
<1>15. CASE DeadlockVictim(c)
  <2>1. Return(c, Err("Internal"))
    BY <1>15 DEF DeadlockVictim
  <2>2. PICK S \in SUBSET Call : c \in S /\ WaitsInCycle(S)
    BY <1>15 DEF DeadlockVictim, Deadlocked
  <2>3. \E d : d \in WaitsFor(c)
    BY <2>2 DEF WaitsInCycle
  <2>4. pc[c] # "new"
    BY <2>3 DEF WaitsFor
  <2>5. QED
    BY <2>1, <2>4, ErrorStep
<1>16. CASE \E r \in Request : Receive(c, r)
  BY <1>16, ReceiveStep
<1>17. CASE Fail(c)
  BY <1>17, ErrorStep DEF Fail, Open, Statements
<1>18. QED
  BY <1>1, <1>2, <1>3, <1>4, <1>5, <1>6, <1>7, <1>8, <1>9, <1>10, <1>11,
     <1>12, <1>13, <1>14, <1>15, <1>16, <1>17 DEF Step, Disturb

\* IndInv is inductive.
LEMMA NextIndInv == ASSUME IndInv, [Next]_vars PROVE IndInv'
<1>1. CASE \E c \in Call : Step(c) \/ Disturb(c)
  BY <1>1, CallStep
<1>2. CASE Crash
  BY <1>2, CrashStep
<1>3. CASE UNCHANGED vars
  <2> USE DEF vars, tables, locks, local
  <2>1. TypeOK'
    BY <1>3 DEF IndInv, TypeOK
  <2>2. TransactionInv' /\ EntryInv' /\ AnswersAreTrue'
    BY <1>3 DEF IndInv, TransactionInv, EntryInv, AnswersAreTrue, PairsOfCall
  <2>3. ASSUME NEW c \in Call
        PROVE  /\ PairsOfCall(c)' = PairsOfCall(c)
               /\ PairsLocked(c)' = PairsLocked(c)
               /\ Aggregated(c)' = Aggregated(c)
               /\ HoldsKey(c)' <=> HoldsKey(c)
    BY <1>3 DEF PairsOfCall, PairsLocked, Aggregated, HoldsKey
  <2>4. ASSUME NEW c \in Call
        PROVE  (RequestInv(c) /\ TodoInv(c) /\ LockInv(c) /\ ReadInv(c))'
    BY <1>3, <2>3 DEF IndInv, RequestInv, TodoInv, LockInv, ReadInv, GetBalance
  <2>5. ASSUME NEW c \in Call
        PROVE  (/\ KeyInv(c) /\ IndexInv(c) /\ LoopInv(c) /\ WrittenInv(c)
                /\ pc[c] \in Inserted => DeltaInv(c))'
    BY <1>3, <2>3 DEF IndInv, KeyInv, IndexInv, LoopInv, DeltaInv, WrittenInv,
                      GetBalance
  <2>6. QED
    BY <2>1, <2>2, <2>4, <2>5 DEF IndInv
<1>4. QED
  BY <1>1, <1>2, <1>3 DEF Next, Finished

-----------------------------------------------------------------------------
(* What follows for every reachable state.                                 *)

\* IndInv holds in every state PostTransaction's handlers can reach.
THEOREM Invariance == Spec => []IndInv
<1>1. Init => IndInv
  BY InitIndInv
<1>2. IndInv /\ [Next]_vars => IndInv'
  BY NextIndInv
<1>3. QED
  BY <1>1, <1>2, PTL DEF Spec

\* TypeOK: every variable keeps to its type, the balances inside BIGINT.
THEOREM TypeCorrect == Spec => []TypeOK
<1>1. IndInv => TypeOK
  BY DEF IndInv
<1>2. QED
  BY <1>1, Invariance, PTL

\* ReadsStayCurrent: what a handler has read stays the committed balance as
\* long as it acts on it.
THEOREM LocksProtectReads == Spec => []ReadsStayCurrent
<1>1. IndInv => ReadsStayCurrent
  BY DEF IndInv, ReadsStayCurrent, ReadInv, PairsLocked, Locked
<1>2. QED
  BY <1>1, Invariance, PTL

\* AnswersAreTrue: OK names a committed transaction with the caller's key,
\* and a definite refusal means that the call posted nothing.
THEOREM TruthfulAnswers == Spec => []AnswersAreTrue
<1>1. IndInv => AnswersAreTrue
  BY DEF IndInv
<1>2. QED
  BY <1>1, Invariance, PTL

\* The committed tables stay as they are, or a COMMIT changes them.
Publishes == UNCHANGED tables \/ \E c \in Call : Commit(c)

\* Only COMMIT changes the committed tables.
LEMMA OnlyCommitPublishes == ASSUME [Next]_vars PROVE Publishes
<1>1. CASE UNCHANGED vars
  BY <1>1 DEF vars, Publishes
<1>2. CASE Crash \/ Finished
  BY <1>2 DEF Crash, Finished, vars, Publishes
<1>3. ASSUME NEW c \in Call, Step(c) PROVE UNCHANGED tables \/ Commit(c)
  BY <1>3 DEF Step, Begin, Replay, NotPosted, SelectForUpdate, SelectMissing,
     InsertBalanceRow, RejectOverdraft, InsertTransaction, DuplicateKey,
     InsertEntry, UpdateBalance, UpdateOutOfRange, Reply, DeadlockVictim, Return
<1>4. ASSUME NEW c \in Call, Disturb(c) PROVE UNCHANGED tables
  BY <1>4 DEF Disturb, Receive, Fail, Return
<1>5. QED
  BY <1>1, <1>2, <1>3, <1>4 DEF Next, Publishes

\* From its INSERT to its COMMIT a call is the only one with its key.
LEMMA CommitsKeepKeys ==
    ASSUME IndInv, OneTransactionPerKey, Publishes
    PROVE  OneTransactionPerKey'
<1>1. CASE UNCHANGED tables
  BY <1>1 DEF OneTransactionPerKey, tables
<1>2. ASSUME NEW c \in Call, Commit(c) PROVE OneTransactionPerKey'
  <2>1. pc[c] = "commit" /\ transactions' = transactions \cup
                              {[id |-> c, key |-> request[c].key]}
    BY <1>2 DEF Commit
  <2>2. \A t \in transactions : t.key # request[c].key
    BY <2>1 DEF IndInv, KeyInv, HoldsKey
  <2>3. QED
    BY <2>1, <2>2 DEF OneTransactionPerKey
<1>3. QED
  BY <1>1, <1>2 DEF Publishes

\* OneTransactionPerKey: the UNIQUE index lets one call per key through, and
\* from its INSERT to its COMMIT no other can.
THEOREM KeysPostedOnce == Spec => []OneTransactionPerKey
<1>1. Init => OneTransactionPerKey
  BY DEF Init, OneTransactionPerKey
<1>2. IndInv /\ OneTransactionPerKey /\ [Next]_vars => OneTransactionPerKey'
  BY CommitsKeepKeys, OnlyCommitPublishes
<1>3. QED
  BY <1>1, <1>2, Invariance, PTL DEF Spec

\* The entries a step makes visible come after those of their pair.
NewEntriesLast ==
    \A e \in entries' \ entries, f \in entries :
       PairOf(e.posting) = PairOf(f.posting) => f.id < e.id

\* The entries a COMMIT publishes have the ids its locks kept for it.
LEMMA CommitsKeepOrder == ASSUME IndInv, Publishes PROVE NewEntriesLast
<1>1. CASE UNCHANGED tables
  BY <1>1 DEF tables, NewEntriesLast
<1>2. ASSUME NEW c \in Call, Commit(c) PROVE NewEntriesLast
  <2>1. entries' = entries \cup pending[c]
    BY <1>2 DEF Commit
  <2>2. \A e \in pending[c], f \in entries :
           PairOf(e.posting) = PairOf(f.posting) => f.id < e.id
    BY DEF IndInv, EntryInv
  <2>3. QED
    BY <2>1, <2>2 DEF NewEntriesLast
<1>3. QED
  BY <1>1, <1>2 DEF Publishes

\* EntriesAppearInOrder: the locks a handler holds from before its first
\* entry to its COMMIT keep the entries of a pair in id order.
THEOREM EntriesInOrder == Spec => EntriesAppearInOrder
<1>1. IndInv /\ [Next]_vars => [NewEntriesLast]_vars
  BY CommitsKeepOrder, OnlyCommitPublishes
<1>2. QED
  BY <1>1, Invariance, PTL DEF Spec, EntriesAppearInOrder, NewEntriesLast

\* A COMMIT leaves no account below zero whose owner names it once.
LEMMA CommitsKeepFunds ==
    ASSUME \A r \in Request : NamesOnce(r.postings),
           IndInv, NoOverdraft, Publishes
    PROVE  NoOverdraft'
<1>1. CASE UNCHANGED tables
  BY <1>1 DEF NoOverdraft, GetBalance, tables
<1>2. ASSUME NEW c \in Call, Commit(c), NEW p \in Pair, p[1] \notin Exempt
      PROVE  GetBalance(p)' >= 0
  <2>1. /\ pc[c] = "commit"
        /\ balance'[p] = IF written[c][p] # None THEN written[c][p]
                                                 ELSE balance[p]
    BY <1>2 DEF Commit
  <2>2. CASE written[c][p] = None
    BY <1>2, <2>1, <2>2 DEF NoOverdraft, GetBalance
  <2>3. CASE written[c][p] # None
    <3> DEFINE postings == request[c].postings
    <3>1. /\ written[c][p] \in Int64
          /\ written[c][p] = GetBalance(p) + deltas[c][p]
      <4>1. written[c][p] \in Int64
        BY <2>3 DEF IndInv, TypeOK
      <4>2. todo[c] = {}
        BY <2>1 DEF IndInv, TodoInv, Locking
      <4>3. QED
        BY <2>1, <2>3, <4>1, <4>2 DEF IndInv, WrittenInv
    <3>2. p \in PairsOfCall(c) /\ p \in PairsLocked(c)
      BY <2>1, <2>3 DEF IndInv, LockInv, PairsLocked, Locked
    <3>3. PICK i \in DOMAIN postings : p = PairOf(postings[i])
      BY <3>2 DEF PairsOfCall, PairsOf
    <3>4. NamesOnce(postings)
      BY <2>1 DEF IndInv, RequestInv
    <3>5. deltas[c][p] = postings[i].amount
      BY <2>1, <3>3, <3>4 DEF IndInv, DeltaInv, Aggregated, Inserted
    <3>6. balances[c][p[1]] = GetBalance(p)
      BY <3>2 DEF IndInv, ReadInv
    <3>7. Wrap(balances[c][p[1]] + postings[i].amount) >= 0
      <4>1. CheckOverdraft(postings, balances[c])
        BY <2>1 DEF IndInv, LoopInv, Inserted
      <4>2. p[1] = postings[i].account
        BY <3>3 DEF PairOf
      <4>3. QED
        BY <1>2, <4>1, <4>2 DEF CheckOverdraft
    <3>8. Wrap(written[c][p]) >= 0
      BY <3>1, <3>5, <3>6, <3>7
    <3>9. written[c][p] >= 0
      BY <3>1, <3>8, WrapIdentity
    <3>10. QED
      BY <2>1, <2>3, <3>9, LedgerAssumption DEF GetBalance
  <2>4. QED
    BY <2>2, <2>3
<1>3. QED
  BY <1>1, <1>2 DEF NoOverdraft, Publishes

\* NoOverdraft, provided no request names an account twice.
THEOREM NoAccountOverdrawn ==
    ASSUME \A r \in Request : NamesOnce(r.postings)
    PROVE  Spec => []NoOverdraft
<1>1. Init => NoOverdraft
  BY DEF Init, NoOverdraft, GetBalance
<1>2. IndInv /\ NoOverdraft /\ [Next]_vars => NoOverdraft'
  BY CommitsKeepFunds, OnlyCommitPublishes
<1>3. QED
  BY <1>1, <1>2, Invariance, PTL DEF Spec

\* The exact sums of the amounts of a request are integers of the code.
SumsFit == \A r \in Request : ExactSum(r.postings) \in Int64

\* A request is received once and never changes.
LEMMA RequestsStay ==
    ASSUME IndInv, [Next]_vars, NEW c \in Call, pc[c] # "new"
    PROVE  request'[c] = request[c]
<1>1. request \in [Call -> Request \cup {None}]
  BY DEF IndInv, TypeOK
<1>2. CASE UNCHANGED vars
  BY <1>2 DEF vars
<1>3. CASE Crash \/ Finished
  BY <1>3 DEF Crash, Finished, vars
<1>4. ASSUME NEW d \in Call, Step(d) \/ Fail(d) PROVE request' = request
  BY <1>4 DEF Step, Fail, Begin, Replay, NotPosted, SelectForUpdate,
     SelectMissing, InsertBalanceRow, RejectOverdraft, InsertTransaction,
     DuplicateKey, InsertEntry, UpdateBalance, UpdateOutOfRange, Commit, Reply,
     DeadlockVictim, Return
<1>5. ASSUME NEW d \in Call, NEW r \in Request, Receive(d, r)
      PROVE  request'[c] = request[c]
  <2>1. d # c /\ request' = [request EXCEPT ![d] = r]
    BY <1>5 DEF Receive
  <2>2. QED
    BY <1>1, <2>1
<1>6. QED
  BY <1>2, <1>3, <1>4, <1>5 DEF Next, Disturb

\* PostingsSumToZero: "posting amounts sum to exactly zero" is true of every
\* posted transaction when no request has an exact sum outside int64.
\* ledger_credits_only shows that the condition is needed.
THEOREM PostedSumsAreZero ==
    ASSUME SumsFit PROVE Spec => []PostingsSumToZero
<1>1. Init => PostingsSumToZero
  BY DEF Init, PostingsSumToZero
<1>2. ASSUME IndInv, PostingsSumToZero, [Next]_vars PROVE PostingsSumToZero'
  <2>1. ASSUME NEW t \in transactions PROVE ExactSum(request'[t.id].postings) = 0
    <3>1. t.id \in Call /\ pc[t.id] # "new"
      BY <1>2 DEF IndInv, TypeOK, Transaction, TransactionInv
    <3>2. request'[t.id] = request[t.id]
      BY <1>2, <3>1, RequestsStay
    <3>3. QED
      BY <1>2, <3>2 DEF PostingsSumToZero
  <2>2. CASE UNCHANGED tables
    BY <2>1, <2>2 DEF PostingsSumToZero, tables
  <2>3. ASSUME NEW c \in Call, Commit(c) PROVE PostingsSumToZero'
    <3>1. /\ pc[c] = "commit" /\ request' = request
          /\ transactions' = transactions \cup
                               {[id |-> c, key |-> request[c].key]}
      BY <2>3 DEF Commit
    <3>2. request[c] \in Request /\ Validate(request[c].postings)
      BY <1>2, <3>1 DEF IndInv, RequestInv
    <3>3. ExactSum(request[c].postings) = 0
      BY <3>2, WrapIdentity DEF SumsFit, Validate
    <3>4. QED
      BY <2>1, <3>1, <3>3 DEF PostingsSumToZero
  <2>4. QED
    BY <1>2, <2>2, <2>3, OnlyCommitPublishes DEF Publishes
<1>3. QED
  BY <1>1, <1>2, Invariance, PTL DEF Spec

-----------------------------------------------------------------------------
(* The order of the pairs.                                                 *)

\* The pairs are in a strict order.
LEMMA BeforeIsOrder ==
    ASSUME NEW p \in Int \X Int, NEW q \in Int \X Int, NEW r \in Int \X Int
    PROVE  /\ ~Before(p, p)
           /\ Before(p, q) /\ Before(q, r) => Before(p, r)
           /\ Before(p, q) => ~Before(q, p)
BY DEF Before

\* Pairs are compared as integers.
LEMMA PairIsInt == Pair \subseteq Int \X Int
BY DomainAssumption DEF Pair

\* A finite set has an element whose pair comes before no other's.
LEMMA LastInOrder ==
    ASSUME NEW S, IsFiniteSet(S), S # {}, NEW f \in [S -> Int \X Int]
    PROVE  \E x \in S : \A y \in S : ~Before(f[x], f[y])
<1> DEFINE HasLast(U) == \E x \in U : \A y \in U : ~Before(f[x], f[y])
           Bad == {U \in FiniteSubsetsOf(S) : U # {} /\ ~HasLast(U)}
<1>1. SUFFICES ASSUME Bad # {} PROVE FALSE
  <2>1. S \in FiniteSubsetsOf(S)
    BY DEF FiniteSubsetsOf
  <2>2. QED
    BY <1>1, <2>1
<1>2. PICK U \in Bad : \A V \in Bad : <<V, U>> \notin StrictSubsetOrdering(S)
  <2>1. IsWellFoundedOn(StrictSubsetOrdering(S), FiniteSubsetsOf(S))
    BY FS_StrictSubsetOrderingWellFounded
  <2>2. Bad \subseteq FiniteSubsetsOf(S)
    OBVIOUS
  <2> HIDE DEF Bad
  <2>3. QED
    BY <1>1, <2>1, <2>2, WFMin
<1>3. PICK x \in U : TRUE
  OBVIOUS
<1> DEFINE V == U \ {x}
<1>4. V \in FiniteSubsetsOf(S) /\ <<V, U>> \in StrictSubsetOrdering(S)
  <2>1. U \in SUBSET S /\ IsFiniteSet(U)
    BY DEF FiniteSubsetsOf
  <2>2. IsFiniteSet(V)
    BY <2>1, FS_RemoveElement
  <2>3. QED
    BY <1>3, <2>1, <2>2 DEF FiniteSubsetsOf, StrictSubsetOrdering
<1>5. V \notin Bad
  BY <1>2, <1>4
<1>6. U \subseteq S
  BY DEF FiniteSubsetsOf
<1>7. CASE V = {}
  <2>1. U = {x}
    BY <1>3, <1>7
  <2>2. ~Before(f[x], f[x])
    BY <1>3, <1>6, BeforeIsOrder
  <2>3. QED
    BY <2>1, <2>2
<1>8. CASE V # {}
  <2>1. PICK y \in V : \A z \in V : ~Before(f[y], f[z])
    BY <1>4, <1>5, <1>8
  <2>2. CASE Before(f[y], f[x])
    <3>1. ASSUME NEW z \in U, Before(f[x], f[z]) PROVE FALSE
      <4>1. f[x] \in Int \X Int /\ f[y] \in Int \X Int /\ f[z] \in Int \X Int
        BY <1>3, <1>6
      <4>2. z # x
        BY <3>1, <4>1, BeforeIsOrder
      <4>3. Before(f[y], f[z])
        BY <2>2, <3>1, <4>1, BeforeIsOrder
      <4>4. QED
        BY <2>1, <4>2, <4>3
    <3>2. QED
      BY <1>3, <3>1
  <2>3. CASE ~Before(f[y], f[x])
    BY <2>1, <2>3
  <2>4. QED
    BY <2>2, <2>3
<1>9. QED
  BY <1>7, <1>8

-----------------------------------------------------------------------------
(* The loop over the sorted pairs.                                         *)

\* No loop has begun.
LEMMA InitOrderInv == Init => OrderInv
BY LedgerAssumption DEF Init, OrderInv, SortedInv, HeldInv, Locking

\* The step of another call leaves the loop and the locks of call d alone.
LEMMA OthersKeepOrder ==
    ASSUME OrderInv, NEW d \in Call,
           pc'[d] = pc[d], todo'[d] = todo[d], request'[d] = request[d],
           \A p \in Pair : lock'[p] = d => lock[p] = d
    PROVE  SortedInv(d)' /\ HeldInv(d)'
<1>1. PairsOfCall(d)' = PairsOfCall(d) /\ PairsLocked(d)' = PairsLocked(d)
  BY DEF PairsOfCall, PairsLocked
<1>2. QED
  BY <1>1 DEF OrderInv, SortedInv, HeldInv

\* Calls that end release every lock.
LEMMA RollbackKeepsOrder ==
    ASSUME IndInv, OrderInv, NEW C \in SUBSET Call,
           Rollback(C), Forget(C), UNCHANGED request,
           \A d \in Call \ C : pc'[d] = pc[d],
           \A d \in C : pc'[d] \in {"reply", "done"}
    PROVE  OrderInv'
<1>1. \A p \in Pair, d \in Call :
         lock'[p] = d => lock[p] = d /\ d \notin C
  BY LedgerAssumption DEF Rollback
<1>2. ASSUME NEW d \in Call \ C PROVE SortedInv(d)' /\ HeldInv(d)'
  <2>1. todo'[d] = todo[d]
    BY DEF Forget
  <2>2. QED
    BY <1>1, <2>1, OthersKeepOrder
<1>3. ASSUME NEW d \in C PROVE SortedInv(d)' /\ HeldInv(d)'
  BY <1>1 DEF SortedInv, HeldInv, Locking
<1>4. QED
  BY <1>2, <1>3 DEF OrderInv

\* The loop moves past the first pair it has left, having locked it.
LEMMA LockedPairKeepsOrder ==
    ASSUME IndInv, OrderInv, NEW c \in Call, NEW p \in Pair, NEW b,
           pc[c] \in Locking, IsFirst(p, todo[c]), LockedPair(c, p, b),
           lock' = [lock EXCEPT ![p] = c], UNCHANGED request
    PROVE  OrderInv'
<1>1. /\ pc' = [pc EXCEPT ![c] = IF todo[c] = {p} THEN "check" ELSE "lock"]
      /\ todo' = [todo EXCEPT ![c] = @ \ {p}]
  BY DEF LockedPair
<1>2. /\ pc \in [Call -> Statements \cup {"new", "begin", "done"}]
      /\ todo \in [Call -> SUBSET Pair]
      /\ lock \in [Pair -> Call \cup {None}]
  BY DEF IndInv, TypeOK
<1>3. p \in todo[c] /\ todo[c] \subseteq PairsOfCall(c)
  BY DEF IsFirst, IndInv, TodoInv
<1>4. PairsOfCall(c)' = PairsOfCall(c)
  BY DEF PairsOfCall
<1>5. PairsLocked(c)' = PairsLocked(c) \cup {p}
  BY <1>1, <1>2, <1>3, <1>4 DEF PairsLocked, Locking, Locked
<1>6. SortedInv(c)'
  BY <1>1, <1>2, <1>3, <1>4 DEF OrderInv, SortedInv, IsFirst
<1>7. HeldInv(c)'
  BY <1>2, <1>5 DEF OrderInv, HeldInv
<1>8. ASSUME NEW d \in Call \ {c} PROVE SortedInv(d)' /\ HeldInv(d)'
  <2>1. /\ pc'[d] = pc[d] /\ todo'[d] = todo[d]
        /\ \A q \in Pair : lock'[q] = d => lock[q] = d
    BY <1>1, <1>2
  <2>2. QED
    BY <2>1, OthersKeepOrder
<1>9. QED
  BY <1>6, <1>7, <1>8 DEF OrderInv

\* The other statements lock nothing new, or only what the loop has passed.
LEMMA StatementKeepsOrder ==
    ASSUME IndInv, OrderInv, NEW c \in Call, NEW label, NEW T,
           pc' = [pc EXCEPT ![c] = label],
           todo' = [todo EXCEPT ![c] = T],
           \A d \in Call \ {c} : request'[d] = request[d],
           \/ label \in Locked /\ pc[c] \in Locked /\ UNCHANGED request
           \/ pc[c] \in {"new", "begin", "find"} /\ label \notin Locking
           \/ /\ label \in Locking /\ UNCHANGED request
              /\ T = PairsOfCall(c) /\ pc[c] = "find"
           \/ /\ label = "insertRow" /\ UNCHANGED request
              /\ T = todo[c] /\ pc[c] = "lock",
           \A p \in Pair : /\ lock'[p] # lock[p] => lock'[p] = c
                           /\ lock'[p] = c => \/ lock[p] = c
                                              \/ p \in PairsLocked(c)
    PROVE  OrderInv'
<1>1. /\ pc \in [Call -> Statements \cup {"new", "begin", "done"}]
      /\ todo \in [Call -> SUBSET Pair]
  BY DEF IndInv, TypeOK
<1>2. \A p \in Pair : lock'[p] = c => p \in PairsLocked(c)
  BY DEF OrderInv, HeldInv
<1>3. SortedInv(c)'
  BY <1>1 DEF OrderInv, SortedInv, Locking, Locked, PairsOfCall
<1>4. HeldInv(c)'
  <2>1. CASE label \in Locked /\ pc[c] \in Locked /\ UNCHANGED request
    BY <1>1, <1>2, <2>1 DEF HeldInv, PairsLocked, PairsOfCall, Locked
  <2>2. CASE pc[c] \in {"new", "begin", "find"}
    BY <1>2, <2>2 DEF HeldInv, PairsLocked, Locked, Locking
  <2>3. CASE label = "insertRow" /\ UNCHANGED request /\ T = todo[c]
             /\ pc[c] = "lock"
    BY <1>1, <1>2, <2>3 DEF HeldInv, PairsLocked, PairsOfCall, Locked, Locking
  <2>4. QED
    BY <2>1, <2>2, <2>3
<1>5. ASSUME NEW d \in Call \ {c} PROVE SortedInv(d)' /\ HeldInv(d)'
  <2>1. /\ pc'[d] = pc[d] /\ todo'[d] = todo[d]
        /\ \A p \in Pair : lock'[p] = d => lock[p] = d
    BY <1>1
  <2>2. QED
    BY <2>1, OthersKeepOrder
<1>6. QED
  BY <1>3, <1>4, <1>5 DEF OrderInv

\* A handler that returns leaves its loops.
LEMMA ReturnKeepsOrder ==
    ASSUME IndInv, OrderInv, NEW c \in Call, NEW a, Return(c, a)
    PROVE  OrderInv'
<1>1. pc \in [Call -> Statements \cup {"new", "begin", "done"}]
  BY DEF IndInv, TypeOK
<1>2. QED
  BY <1>1, RollbackKeepsOrder DEF Return

\* A step of one handler keeps its loops in order.
LEMMA CallKeepsOrder ==
    ASSUME IndInv, OrderInv, NEW c \in Call, Step(c) \/ Disturb(c)
    PROVE  OrderInv'
<1>0. /\ pc \in [Call -> Statements \cup {"new", "begin", "done"}]
      /\ todo \in [Call -> SUBSET Pair]
      /\ lock \in [Pair -> Call \cup {None}]
      /\ request \in [Call -> Request \cup {None}]
  BY DEF IndInv, TypeOK
<1>1. CASE Begin(c)
  <2>1. /\ pc' = [pc EXCEPT ![c] = "find"] /\ todo' = [todo EXCEPT ![c] = todo[c]]
        /\ UNCHANGED <<request, lock>> /\ pc[c] = "begin" /\ "find" \notin Locking
    BY <1>0, <1>1 DEF Begin, locks, local, Locking
  <2>2. QED
    BY <2>1, StatementKeepsOrder
<1>2. CASE NotPosted(c)
  <2>1. /\ pc' = [pc EXCEPT ![c] = "lock"]
        /\ todo' = [todo EXCEPT ![c] = PairsOfCall(c)]
        /\ UNCHANGED <<request, lock>> /\ pc[c] = "find" /\ "lock" \in Locking
    BY <1>2 DEF NotPosted, locks, Locking
  <2>2. QED
    BY <2>1, StatementKeepsOrder
<1>3. ASSUME NEW p \in Pair, SelectForUpdate(c, p) PROVE OrderInv'
  <2>1. /\ pc[c] \in Locking /\ IsFirst(p, todo[c])
        /\ LockedPair(c, p, balance[p])
        /\ lock' = [lock EXCEPT ![p] = c] /\ UNCHANGED request
    BY <1>3 DEF SelectForUpdate, Locking
  <2>2. QED
    BY <2>1, LockedPairKeepsOrder
<1>4. ASSUME NEW p \in Pair, SelectMissing(c, p) PROVE OrderInv'
  <2>1. /\ pc' = [pc EXCEPT ![c] = "insertRow"]
        /\ todo' = [todo EXCEPT ![c] = todo[c]]
        /\ UNCHANGED <<request, lock>> /\ pc[c] = "lock"
    BY <1>0, <1>4 DEF SelectMissing, local
  <2>2. QED
    BY <2>1, StatementKeepsOrder
<1>5. ASSUME NEW p \in Pair, InsertBalanceRow(c, p) PROVE OrderInv'
  <2>1. /\ pc[c] \in Locking /\ IsFirst(p, todo[c])
        /\ LockedPair(c, p, 0)
        /\ lock' = [lock EXCEPT ![p] = c] /\ UNCHANGED request
    BY <1>5 DEF InsertBalanceRow, Locking
  <2>2. QED
    BY <2>1, LockedPairKeepsOrder
<1>6. CASE InsertTransaction(c)
  <2>1. /\ pc' = [pc EXCEPT ![c] = "entries"]
        /\ todo' = [todo EXCEPT ![c] = todo[c]]
        /\ UNCHANGED <<request, lock>> /\ pc[c] \in Locked /\ "entries" \in Locked
    BY <1>0, <1>6 DEF InsertTransaction, locks, local, Locked
  <2>2. QED
    BY <2>1, StatementKeepsOrder
<1>7. CASE InsertEntry(c)
  <2> DEFINE last == index[c] = Len(request[c].postings)
             label == IF last THEN "update" ELSE "entries"
             T == IF last THEN PairsOfCall(c) ELSE todo[c]
  <2>1. /\ pc' = [pc EXCEPT ![c] = label] /\ todo' = [todo EXCEPT ![c] = T]
        /\ UNCHANGED <<request, lock>> /\ pc[c] \in Locked /\ label \in Locked
    BY <1>0, <1>7 DEF InsertEntry, locks, Locked
  <2> HIDE DEF label, T
  <2>2. QED
    BY <2>1, StatementKeepsOrder
<1>8. ASSUME NEW p \in Pair, UpdateBalance(c, p) PROVE OrderInv'
  <2> DEFINE label == IF todo[c] = {p} THEN "commit" ELSE "update"
             T == todo[c] \ {p}
  <2>1. /\ pc' = [pc EXCEPT ![c] = label] /\ todo' = [todo EXCEPT ![c] = T]
        /\ UNCHANGED request /\ pc[c] \in Locked /\ label \in Locked
        /\ lock' = [lock EXCEPT ![p] = c] /\ pc[c] = "update"
    BY <1>0, <1>8 DEF UpdateBalance, Locked
  <2>2. p \in PairsLocked(c)
    BY <1>8, <2>1
    DEF UpdateBalance, IsFirst, IndInv, TodoInv, PairsLocked, Locked
  <2>3. \A q \in Pair : /\ lock'[q] # lock[q] => lock'[q] = c
                        /\ lock'[q] = c => \/ lock[q] = c
                                           \/ q \in PairsLocked(c)
    BY <1>0, <2>1, <2>2
  <2> HIDE DEF label, T
  <2>4. QED
    BY <2>1, <2>3, StatementKeepsOrder
<1>9. CASE Commit(c)
  BY <1>0, <1>9, RollbackKeepsOrder DEF Commit
<1>10. ASSUME NEW r \in Request, Receive(c, r) PROVE OrderInv'
  <2>1. PICK label \in {"begin", "done"} : pc' = [pc EXCEPT ![c] = label]
    BY <1>10 DEF Receive
  <2>2. /\ todo' = [todo EXCEPT ![c] = todo[c]]
        /\ UNCHANGED lock /\ pc[c] = "new" /\ label \notin Locking
        /\ \A d \in Call \ {c} : request'[d] = request[d]
    BY <1>0, <1>10 DEF Receive, locks, local, Locking
  <2>3. QED
    BY <2>1, <2>2, StatementKeepsOrder
<1>11. CASE \/ Replay(c) \/ RejectOverdraft(c) \/ DuplicateKey(c) \/ Reply(c)
            \/ DeadlockVictim(c) \/ Fail(c)
            \/ \E p \in Pair : UpdateOutOfRange(c, p)
  BY <1>11, ReturnKeepsOrder
  DEF Replay, RejectOverdraft, DuplicateKey, Reply, DeadlockVictim, Fail,
      UpdateOutOfRange
<1>12. QED
  BY <1>1, <1>2, <1>3, <1>4, <1>5, <1>6, <1>7, <1>8, <1>9, <1>10, <1>11
  DEF Step, Disturb

\* Every step does.
LEMMA NextOrderInv ==
    ASSUME IndInv, OrderInv, [Next]_vars PROVE OrderInv'
<1>1. CASE UNCHANGED vars
  BY <1>1
  DEF vars, locks, local, OrderInv, SortedInv, HeldInv, PairsOfCall, PairsLocked
<1>2. CASE Crash
  <2> DEFINE C == {c \in Call : pc[c] \notin {"new", "done"}}
  <2>1. /\ pc' = [c \in Call |-> IF c \in C THEN "done" ELSE pc[c]]
        /\ Rollback(C) /\ Forget(C) /\ UNCHANGED request
    BY <1>2 DEF Crash
  <2>2. C \in SUBSET Call
    OBVIOUS
  <2> HIDE DEF C
  <2>3. QED
    BY <2>1, <2>2, RollbackKeepsOrder
<1>3. ASSUME NEW c \in Call, Step(c) \/ Disturb(c) PROVE OrderInv'
  BY <1>3, CallKeepsOrder
<1>4. QED
  BY <1>1, <1>2, <1>3 DEF Next, Finished

\* OrderInv: a handler that locks the rows of its request has passed only pairs
\* that come before those still ahead, and holds no row it has not passed.
THEOREM LoopsKeepOrder == Spec => []OrderInv
<1>1. IndInv /\ OrderInv /\ [Next]_vars => OrderInv'
  BY NextOrderInv
<1>2. QED
  BY InitOrderInv, <1>1, Invariance, PTL DEF Spec

-----------------------------------------------------------------------------
(* No cycle.                                                               *)

\* A call that waits for a key waits for one that waits for nobody; so on a
\* cycle everybody would wait for a row, each for one that comes after the
\* one before, in an order that has no cycles.
LEMMA OrderAvoidsCycles ==
    ASSUME IsFiniteSet(Call), IndInv, OrderInv PROVE LockOrderAvoidsCycles
<1> SUFFICES ASSUME NEW S \in SUBSET {c \in Call : pc[c] # "insertRow"},
                    S # {}, WaitsInCycle(S)
             PROVE  FALSE
  BY DEF LockOrderAvoidsCycles
<1>1. PICK next \in Injection(S, S) : \A d \in S : next[d] \in WaitsFor(d)
  BY DEF WaitsInCycle
<1>2. next \in [S -> S]
  BY <1>1 DEF Injection
<1>3. ASSUME NEW d \in S
      PROVE  /\ pc[d] = "lock"
             /\ \E p \in Pair : IsFirst(p, todo[d]) /\ lock[p] = next[d]
  <2>1. next[d] \in S /\ next[d] \in WaitsFor(d)
        /\ next[next[d]] \in WaitsFor(next[d])
    BY <1>1, <1>2
  <2>2. CASE HoldsKey(next[d])
    <3>1. WaitsFor(next[d]) = {}
      BY <2>2 DEF HoldsKey, WaitsFor
    <3>2. QED
      BY <2>1, <3>1
  <2>3. CASE ~HoldsKey(next[d])
    BY <2>1, <2>3 DEF WaitsFor
  <2>4. QED
    BY <2>2, <2>3
<1> DEFINE first == [d \in S |-> CHOOSE p \in Pair : IsFirst(p, todo[d])
                                                    /\ lock[p] = next[d]]
<1>4. ASSUME NEW d \in S
      PROVE  /\ first[d] \in Pair /\ first[d] \in todo[d]
             /\ lock[first[d]] = next[d]
  BY <1>3 DEF IsFirst
<1>5. first \in [S -> Int \X Int] /\ IsFiniteSet(S)
  BY <1>4, PairIsInt, FS_Subset
<1>6. PICK d \in S : \A e \in S : ~Before(first[d], first[e])
  <2> HIDE DEF first
  <2>1. QED
    BY <1>5, LastInOrder
<1>7. first[d] \in PairsOfCall(next[d]) \ todo[next[d]]
  <2>1. first[d] \in PairsLocked(next[d])
    BY <1>2, <1>4 DEF OrderInv, HeldInv
  <2>2. QED
    BY <1>2, <1>3, <2>1 DEF PairsLocked, Locked, Locking
<1>8. Before(first[d], first[next[d]])
  <2>1. pc[next[d]] \in Locking /\ first[next[d]] \in todo[next[d]]
        /\ SortedInv(next[d])
    BY <1>2, <1>3, <1>4 DEF OrderInv, Locking
  <2>2. QED
    BY <1>7, <2>1 DEF SortedInv
<1>9. QED
  BY <1>2, <1>6, <1>8

\* LockOrderAvoidsCycles: the order in which PostTransaction locks existing
\* rows keeps any number of calls from waiting for each other in a cycle.
THEOREM WaitsAreAcyclic ==
    ASSUME IsFiniteSet(Call)
    PROVE  Spec => []LockOrderAvoidsCycles
<1>1. IndInv /\ OrderInv => LockOrderAvoidsCycles
  BY OrderAvoidsCycles
<1>2. QED
  BY <1>1, LoopsKeepOrder, Invariance, PTL

-----------------------------------------------------------------------------
(* No standstill.                                                          *)

\* A loop that has pairs left has one to visit next.
LEMMA FirstInOrder ==
    ASSUME NEW S \in SUBSET Pair, IsFiniteSet(S), S # {}
    PROVE  \E p \in S : IsFirst(p, S)
<1> DEFINE back == [p \in S |-> <<-p[1], -p[2]>>]
<1>1. S \subseteq Int \X Int
  BY PairIsInt
<1>2. back \in [S -> Int \X Int]
  BY <1>1
<1>3. PICK p \in S : \A q \in S : ~Before(back[p], back[q])
  <2> HIDE DEF back
  <2>1. QED
    BY <1>2, LastInOrder
<1>4. ASSUME NEW q \in S \ {p} PROVE Before(p, q)
  <2>1. p \in Int \X Int /\ q \in Int \X Int /\ p # q
    BY <1>1
  <2>2. p[1] # q[1] \/ p[2] # q[2]
    BY <2>1
  <2>3. ~Before(<<-p[1], -p[2]>>, <<-q[1], -q[2]>>)
    BY <1>3
  <2>4. p[1] \in Int /\ p[2] \in Int /\ q[1] \in Int /\ q[2] \in Int
    BY <2>1
  <2>5. QED
    BY <2>2, <2>3, <2>4 DEF Before
<1>5. QED
  BY <1>4 DEF IsFirst

\* A request that is being handled has finitely many pairs, and some.
LEMMA PairsFacts ==
    ASSUME IndInv, NEW c \in Call, pc[c] \notin {"new", "done"}
    PROVE  /\ PairsOfCall(c) \subseteq Pair
           /\ PairsOfCall(c) # {} /\ IsFiniteSet(PairsOfCall(c))
<1> DEFINE postings == request[c].postings
           pairs == PairsOf(postings)
<1>1. request[c] \in Request /\ Validate(postings)
  BY DEF IndInv, RequestInv
<1>2. postings \in Seq(Posting)
  BY <1>1, LedgerAssumption
<1>3. DOMAIN postings = 1 .. Len(postings) /\ Len(postings) \in Nat
  BY <1>2
<1>4. Len(postings) >= 2
  BY <1>1 DEF Validate
<1>5. ASSUME NEW i \in DOMAIN postings PROVE PairOf(postings[i]) \in Pair
  <2>1. postings[i] \in Posting
    BY <1>2, <1>3
  <2>2. QED
    BY <2>1 DEF PairOf, Pair, Posting
<1>6. pairs \subseteq Pair /\ pairs # {}
  BY <1>3, <1>4, <1>5 DEF PairsOf
<1>7. IsFiniteSet(pairs)
  <2> DEFINE visit == [i \in 1 .. Len(postings) |-> PairOf(postings[i])]
  <2>1. visit \in Surjection(1 .. Len(postings), pairs)
    BY <1>3 DEF Surjection, PairsOf
  <2>2. Len(postings) \in Nat
    BY <1>3
  <2> HIDE DEF visit, pairs, postings
  <2>3. IsFiniteSet(1 .. Len(postings))
    BY <2>2, FS_Interval
  <2>4. QED
    BY <2>1, <2>3, FS_Surjection
<1>8. QED
  BY <1>6, <1>7 DEF PairsOfCall

\* No loop has begun, and no gap is locked.
LEMMA InitWaitInv == Init => WaitInv
BY DEF Init, WaitInv, GapInv, Locking

\* The steps of other calls leave a call's gaps alone: rows appear in them
\* only when nobody has locked them.
LEMMA OthersKeepGaps ==
    ASSUME NEW d \in Call, WaitInv, pc'[d] = pc[d], todo'[d] = todo[d],
           gaps'[d] = gaps[d],
           \A p \in gaps[d] : Present(p)' => Present(p)
    PROVE  GapInv(d)'
BY DEF WaitInv, GapInv

\* A row that is missing stays missing, but for an INSERT.
LEMMA RowsAppear ==
    ASSUME IndInv, NEW c \in Call, Step(c) \/ Disturb(c),
           NEW p \in Pair, Present(p)', ~Present(p)
    PROVE  \E q \in Pair : InsertBalanceRow(c, q) /\ p = q
<1>1. balance[p] = None /\ \A d \in Call : written[d][p] = None
  BY DEF Present
<1>2. /\ balance \in [Pair -> Int64 \cup {None}]
      /\ written \in [Call -> [Pair -> Int64 \cup {None}]]
  BY DEF IndInv, TypeOK
<1>3. CASE UNCHANGED <<balance, written>>
  BY <1>1, <1>3 DEF Present
<1>4. CASE balance' = balance /\ Rollback({c})
  BY <1>1, <1>4 DEF Present, Rollback
<1>5. CASE Commit(c)
  BY <1>1, <1>5 DEF Commit, Present, Rollback
<1>6. ASSUME NEW q \in Pair, UpdateBalance(c, q) PROVE FALSE
  <2>1. q \in PairsLocked(c)
    BY <1>6 DEF UpdateBalance, IsFirst, IndInv, TodoInv, PairsLocked, Locked
  <2>2. balance[q] # None \/ written[c][q] # None
    BY <2>1 DEF IndInv, LockInv
  <2>3. q # p
    BY <1>1, <2>2
  <2>4. balance' = balance /\ \A d \in Call : written'[d][p] = written[d][p]
    BY <1>2, <1>6, <2>3 DEF UpdateBalance, tables
  <2>5. QED
    BY <1>1, <2>4 DEF Present
<1>7. ASSUME NEW q \in Pair, InsertBalanceRow(c, q), p # q PROVE FALSE
  <2>1. balance' = balance /\ \A d \in Call : written'[d][p] = written[d][p]
    BY <1>2, <1>7 DEF InsertBalanceRow, tables
  <2>2. QED
    BY <1>1, <2>1 DEF Present
<1>8. CASE \/ Begin(c) \/ NotPosted(c) \/ InsertTransaction(c) \/ InsertEntry(c)
           \/ \E q \in Pair : SelectForUpdate(c, q) \/ SelectMissing(c, q)
           \/ \E r \in Request : Receive(c, r)
  <2>1. UNCHANGED <<balance, written>>
    BY <1>8 DEF Begin, NotPosted, InsertTransaction, InsertEntry,
       SelectForUpdate, SelectMissing, Receive, tables
  <2>2. QED
    BY <1>3, <2>1
<1>9. CASE \/ Replay(c) \/ RejectOverdraft(c) \/ DuplicateKey(c) \/ Reply(c)
           \/ DeadlockVictim(c) \/ Fail(c)
           \/ \E q \in Pair : UpdateOutOfRange(c, q)
  BY <1>4, <1>9
  DEF Replay, RejectOverdraft, DuplicateKey, Reply, DeadlockVictim, Fail,
      UpdateOutOfRange, Return, tables
<1>10. QED
  BY <1>5, <1>6, <1>7, <1>8, <1>9 DEF Step, Disturb

\* Calls that end leave their gaps.
LEMMA RollbackKeepsGaps ==
    ASSUME IndInv, NEW C \in SUBSET Call, WaitInv,
           Rollback(C), Forget(C), \A p \in Pair : Present(p)' => Present(p),
           \A d \in Call \ C : pc'[d] = pc[d],
           \A d \in C : pc'[d] \in {"reply", "done"}
    PROVE  WaitInv'
<1>1. ASSUME NEW d \in C PROVE GapInv(d)'
  BY DEF Rollback, GapInv, Locking
<1>2. ASSUME NEW d \in Call \ C PROVE GapInv(d)'
  <2>1. todo'[d] = todo[d] /\ gaps'[d] = gaps[d]
    BY DEF Rollback, Forget
  <2>2. gaps[d] \subseteq Pair
    BY DEF IndInv, TypeOK
  <2>3. QED
    BY <2>1, <2>2, OthersKeepGaps
<1>3. QED
  BY <1>1, <1>2 DEF WaitInv

\* A statement of a call that takes no gap and keeps all rows keeps the gaps.
LEMMA StatementKeepsGaps ==
    ASSUME IndInv, WaitInv, NEW c \in Call,
           NEW label, NEW T,
           pc' = [pc EXCEPT ![c] = label],
           todo' = [todo EXCEPT ![c] = T], UNCHANGED gaps,
           \A d \in Call \ {c} : \A p \in gaps[d] : Present(p)' => Present(p),
           label # "insertRow",
           label \in {"lock", "update"} => T # {},
           \/ label \in Locking \cup Locked
           \/ pc[c] \notin Locking \cup Locked
    PROVE  WaitInv'
<1>1. /\ pc \in [Call -> Statements \cup {"new", "begin", "done"}]
      /\ todo \in [Call -> SUBSET Pair]
  BY DEF IndInv, TypeOK
<1>2. GapInv(c)'
  BY <1>1 DEF WaitInv, GapInv, Locking
<1>3. ASSUME NEW d \in Call \ {c} PROVE GapInv(d)'
  BY <1>1, OthersKeepGaps
<1>4. QED
  BY <1>2, <1>3 DEF WaitInv

\* The SELECT that finds no row locks the gap it would have been in.
LEMMA SelectMissingKeepsGaps ==
    ASSUME IndInv, WaitInv,
           NEW c \in Call, NEW p \in Pair, SelectMissing(c, p)
    PROVE  WaitInv'
<1>1. /\ pc \in [Call -> Statements \cup {"new", "begin", "done"}]
      /\ gaps \in [Call -> SUBSET Pair]
  BY DEF IndInv, TypeOK
<1>2. /\ lock[p] = None /\ balance[p] = None /\ IsFirst(p, todo[c])
      /\ pc' = [pc EXCEPT ![c] = "insertRow"]
      /\ gaps' = [gaps EXCEPT ![c] = @ \cup Gap(p)]
      /\ UNCHANGED <<todo, balance, written>>
  BY DEF SelectMissing, tables, local
<1>3. ~Present(p)
  <2>1. \A d \in Call : written[d][p] = None
    BY <1>2, LockFacts, LedgerAssumption
  <2>2. QED
    BY <1>2, <2>1 DEF Present
<1>4. p \in Gap(p)
  <2>1. \A r \in Pair : ~(Before(p, r) /\ Before(r, p))
    BY PairIsInt, BeforeIsOrder
  <2>2. QED
    BY <1>3, <2>1 DEF Gap
<1>5. \A q : Present(q)' <=> Present(q)
  BY <1>2 DEF Present
<1>6. GapInv(c)'
  <2>1. pc'[c] = "insertRow" /\ p \in gaps'[c] /\ todo'[c] = todo[c]
    BY <1>1, <1>2, <1>4
  <2>2. ASSUME NEW q \in todo[c], IsFirst(q, todo[c]) PROVE q = p
    <3>1. CASE q # p
      <4>1. Before(p, q) /\ Before(q, p)
        BY <1>2, <2>2, <3>1 DEF IsFirst
      <4>2. todo[c] \subseteq Pair
        BY DEF IndInv, TypeOK
      <4>3. QED
        BY <2>2, <4>1, <4>2, PairIsInt, BeforeIsOrder
    <3>2. QED
      BY <3>1
  <2>3. p \in todo[c]
    BY <1>2 DEF IsFirst
  <2>4. QED
    BY <1>3, <1>5, <2>1, <2>2, <2>3 DEF GapInv, Locking
<1>7. ASSUME NEW d \in Call \ {c} PROVE GapInv(d)'
  BY <1>1, <1>2, <1>5, OthersKeepGaps
<1>8. QED
  BY <1>6, <1>7 DEF WaitInv

\* A step of one handler keeps the gaps.
LEMMA CallKeepsGaps ==
    ASSUME IndInv, WaitInv,
           NEW c \in Call, Step(c) \/ Disturb(c)
    PROVE  WaitInv'
<1>0. /\ pc \in [Call -> Statements \cup {"new", "begin", "done"}]
      /\ todo \in [Call -> SUBSET Pair]
      /\ gaps \in [Call -> SUBSET Pair]
  BY DEF IndInv, TypeOK
<1> DEFINE Rows == \A d \in Call \ {c} : \A p \in gaps[d] :
                      Present(p)' => Present(p)
<1>1. Rows
  <2> SUFFICES ASSUME NEW d \in Call \ {c}, NEW p \in gaps[d],
                      Present(p)', ~Present(p)
               PROVE  FALSE
    OBVIOUS
  <2>1. p \in Pair
    BY <1>0
  <2>2. PICK q \in Pair : InsertBalanceRow(c, q) /\ p = q
    BY <2>1, RowsAppear
  <2>3. QED
    BY <2>2 DEF InsertBalanceRow
<1> HIDE DEF Rows
<1>2. ASSUME NEW label, NEW T,
             pc' = [pc EXCEPT ![c] = label],
             todo' = [todo EXCEPT ![c] = T], UNCHANGED gaps,
             label # "insertRow",
             label \in {"lock", "update"} => T # {},
             \/ label \in Locking \cup Locked
             \/ pc[c] \notin Locking \cup Locked
      PROVE  WaitInv'
  BY <1>1, <1>2, StatementKeepsGaps DEF Rows
<1>3. CASE Begin(c)
  <2>1. /\ pc' = [pc EXCEPT ![c] = "find"] /\ UNCHANGED gaps
        /\ todo' = [todo EXCEPT ![c] = todo[c]] /\ pc[c] = "begin"
    BY <1>0, <1>3 DEF Begin, locks, local
  <2>2. QED
    BY <1>2, <2>1 DEF Locking, Locked
<1>4. CASE NotPosted(c)
  <2>1. /\ pc' = [pc EXCEPT ![c] = "lock"] /\ UNCHANGED gaps
        /\ todo' = [todo EXCEPT ![c] = PairsOfCall(c)] /\ pc[c] = "find"
    BY <1>4 DEF NotPosted, locks
  <2>2. PairsOfCall(c) # {}
    BY <2>1, PairsFacts
  <2>3. QED
    BY <1>2, <2>1, <2>2 DEF Locking
<1>5. ASSUME NEW p \in Pair, NEW b, LockedPair(c, p, b), UNCHANGED gaps,
             p \in todo[c]
      PROVE  WaitInv'
  <2> DEFINE label == IF todo[c] = {p} THEN "check" ELSE "lock"
             T == todo[c] \ {p}
  <2>1. pc' = [pc EXCEPT ![c] = label] /\ todo' = [todo EXCEPT ![c] = T]
    BY <1>5 DEF LockedPair
  <2>2. label \in Locking \cup Locked /\ label # "insertRow"
        /\ (label \in {"lock", "update"} => T # {})
    BY <1>5 DEF Locking, Locked
  <2> HIDE DEF label, T
  <2>3. QED
    BY <1>2, <1>5, <2>1, <2>2
<1>6. ASSUME NEW p \in Pair, SelectForUpdate(c, p) \/ InsertBalanceRow(c, p)
      PROVE  WaitInv'
  <2>1. UNCHANGED gaps /\ p \in todo[c] /\ \E b : LockedPair(c, p, b)
    BY <1>6 DEF SelectForUpdate, InsertBalanceRow, IsFirst
  <2>2. QED
    BY <1>5, <2>1
<1>7. CASE InsertTransaction(c)
  <2>1. /\ pc' = [pc EXCEPT ![c] = "entries"] /\ UNCHANGED gaps
        /\ todo' = [todo EXCEPT ![c] = todo[c]]
    BY <1>0, <1>7 DEF InsertTransaction, locks, local
  <2>2. QED
    BY <1>2, <2>1 DEF Locking, Locked
<1>8. CASE InsertEntry(c)
  <2> DEFINE last == index[c] = Len(request[c].postings)
             label == IF last THEN "update" ELSE "entries"
             T == IF last THEN PairsOfCall(c) ELSE todo[c]
  <2>1. /\ pc' = [pc EXCEPT ![c] = label] /\ todo' = [todo EXCEPT ![c] = T]
        /\ UNCHANGED gaps /\ pc[c] = "entries"
    BY <1>0, <1>8 DEF InsertEntry, locks
  <2>2. PairsOfCall(c) # {}
    BY <2>1, PairsFacts
  <2>3. label \in Locked /\ label # "insertRow" /\ label # "lock"
        /\ (label = "update" => T # {})
    BY <2>2 DEF Locked
  <2> HIDE DEF label, T
  <2>4. QED
    BY <1>2, <2>1, <2>3
<1>9. ASSUME NEW p \in Pair, UpdateBalance(c, p)
      PROVE  WaitInv'
  <2> DEFINE label == IF todo[c] = {p} THEN "commit" ELSE "update"
             T == todo[c] \ {p}
  <2>1. /\ pc' = [pc EXCEPT ![c] = label] /\ todo' = [todo EXCEPT ![c] = T]
        /\ UNCHANGED gaps /\ p \in todo[c]
    BY <1>9 DEF UpdateBalance, IsFirst
  <2>2. label \in Locked /\ label # "insertRow" /\ label # "lock"
        /\ (label = "update" => T # {})
    BY <2>1 DEF Locked
  <2> HIDE DEF label, T
  <2>3. QED
    BY <1>2, <2>1, <2>2
<1>10. ASSUME NEW r \in Request, Receive(c, r)
       PROVE  WaitInv'
  <2>1. PICK label \in {"begin", "done"} : pc' = [pc EXCEPT ![c] = label]
    BY <1>10 DEF Receive
  <2>2. /\ todo' = [todo EXCEPT ![c] = todo[c]] /\ UNCHANGED gaps
        /\ pc[c] = "new"
    BY <1>0, <1>10 DEF Receive, locks, local
  <2>3. QED
    BY <1>2, <2>1, <2>2 DEF Locking, Locked
<1>11. ASSUME NEW p \in Pair, SelectMissing(c, p)
       PROVE  WaitInv'
  BY <1>11, SelectMissingKeepsGaps
<1>12. ASSUME NEW label \in {"reply", "done"}, pc' = [pc EXCEPT ![c] = label],
              Rollback({c}), Forget({c}), \A p \in Pair : ~InsertBalanceRow(c, p)
       PROVE  WaitInv'
  <2>1. \A p \in Pair : Present(p)' => Present(p)
    BY <1>12, RowsAppear
  <2>2. QED
    BY <1>0, <1>12, <2>1, RollbackKeepsGaps
<1>13. CASE Commit(c)
  BY <1>12, <1>13 DEF Commit, InsertBalanceRow
<1>14. ASSUME NEW a, Return(c, a) PROVE WaitInv'
  <2>1. pc'[c] = "done"
    BY <1>0, <1>14 DEF Return
  <2>2. \A p \in Pair : ~InsertBalanceRow(c, p)
    BY <1>0, <2>1 DEF InsertBalanceRow, LockedPair
  <2>3. QED
    BY <1>12, <1>14, <2>2 DEF Return
<1>15. CASE \/ Replay(c) \/ RejectOverdraft(c) \/ DuplicateKey(c) \/ Reply(c)
            \/ DeadlockVictim(c) \/ Fail(c)
            \/ \E p \in Pair : UpdateOutOfRange(c, p)
  BY <1>14, <1>15
  DEF Replay, RejectOverdraft, DuplicateKey, Reply, DeadlockVictim, Fail,
      UpdateOutOfRange
<1>16. QED
  BY <1>3, <1>4, <1>6, <1>7, <1>8, <1>9, <1>10, <1>11, <1>13, <1>15
  DEF Step, Disturb

\* Every step does.
LEMMA NextWaitInv ==
    ASSUME IndInv, WaitInv, [Next]_vars PROVE WaitInv'
<1>1. CASE UNCHANGED vars
  BY <1>1 DEF vars, tables, locks, local, WaitInv, GapInv, Present
<1>2. CASE Crash
  <2> DEFINE C == {c \in Call : pc[c] \notin {"new", "done"}}
  <2>1. /\ pc' = [c \in Call |-> IF c \in C THEN "done" ELSE pc[c]]
        /\ Rollback(C) /\ Forget(C) /\ UNCHANGED balance
    BY <1>2 DEF Crash, tables
  <2>2. C \in SUBSET Call
    OBVIOUS
  <2> HIDE DEF C
  <2>3. \A p \in Pair : Present(p)' => Present(p)
    BY <2>1 DEF Present, Rollback
  <2>4. QED
    BY <2>1, <2>2, <2>3, RollbackKeepsGaps
<1>3. ASSUME NEW c \in Call, Step(c) \/ Disturb(c) PROVE WaitInv'
  BY <1>3, CallKeepsGaps
<1>4. QED
  BY <1>1, <1>2, <1>3 DEF Next, Finished

\* A call that cannot go on waits for another that is open.
LEMMA WaitsForOpen ==
    ASSUME IndInv, OrderInv, WaitInv, NEW c \in Open, ~CanGoOn(c)
    PROVE  \E d \in Open : d \in WaitsFor(c)
<1>1. c \in Call /\ pc[c] \in Statements
  BY DEF Open
<1>2. ASSUME NEW p \in Pair, NEW d \in Call, lock[p] = d PROVE d \in Open
  BY <1>2 DEF OrderInv, HeldInv, PairsLocked, Locking, Locked, Open, Statements
<1>3. CASE pc[c] \in Locking \cup {"update"}
  <2>1. PICK p \in todo[c] : IsFirst(p, todo[c])
    <3>1. todo[c] # {} /\ todo[c] \subseteq PairsOfCall(c)
      BY <1>1, <1>3 DEF WaitInv, GapInv, IndInv, TodoInv
    <3>2. PairsOfCall(c) \subseteq Pair /\ IsFiniteSet(PairsOfCall(c))
      BY <1>1, <1>3, PairsFacts DEF Locking
    <3>3. IsFiniteSet(todo[c])
      BY <3>1, <3>2, FS_Subset
    <3>4. QED
      BY <3>1, <3>2, <3>3, FirstInOrder
  <2>2. p \in Pair /\ p \in PairsOfCall(c)
    BY <1>1, <1>3, PairsFacts DEF Locking, IndInv, TodoInv
  <2>3. CASE pc[c] = "lock"
    <3>1. lock[p] # None
      BY <2>1, <2>2, <2>3 DEF CanGoOn
    <3>2. lock[p] \in Call
      BY <2>2, <3>1 DEF IndInv, TypeOK
    <3>3. lock[p] # c
      BY <1>1, <2>1, <2>2, <2>3
      DEF OrderInv, HeldInv, PairsLocked, Locking, Locked
    <3>4. lock[p] \in Open
      BY <1>2, <2>2, <3>2
    <3>5. lock[p] \in WaitsFor(c)
      BY <2>1, <2>2, <2>3, <3>2, <3>3 DEF WaitsFor
    <3>6. QED
      BY <3>4, <3>5
  <2>4. CASE pc[c] = "insertRow"
    <3>1. ~Present(p)
      BY <1>1, <2>1, <2>4 DEF WaitInv, GapInv
    <3>2. PICK d \in Call \ {c} : p \in gaps[d]
      BY <2>1, <2>2, <2>4, <3>1 DEF CanGoOn
    <3>3. d \in Open
      BY <3>2 DEF WaitInv, GapInv, Open, Locking, Locked, Statements
    <3>4. d \in WaitsFor(c)
      BY <2>1, <2>4, <3>2 DEF WaitsFor
    <3>5. QED
      BY <3>3, <3>4
  <2>5. CASE pc[c] = "update"
    <3>1. lock[p] = c
      BY <1>1, <2>2, <2>5 DEF IndInv, LockInv, PairsLocked, Locked
    <3>2. QED
      BY <2>1, <2>2, <2>5, <3>1 DEF CanGoOn
  <2>6. QED
    BY <1>3, <2>3, <2>4, <2>5 DEF Locking
<1>4. CASE pc[c] = "check"
  <2>1. CheckOverdraft(request[c].postings, balances[c]) /\ KeyBusy(c)
    BY <1>4 DEF CanGoOn
  <2>2. PICK d \in Call \ {c} : HoldsKey(d) /\ request[d].key = request[c].key
    BY <2>1 DEF KeyBusy
  <2>3. d \in Open
    BY <2>2 DEF HoldsKey, Open, Statements
  <2>4. QED
    BY <1>4, <2>1, <2>2, <2>3 DEF WaitsFor
<1>5. QED
  BY <1>1, <1>3, <1>4 DEF CanGoOn, Statements, Locking

\* Where each of finitely many waits for another there is a cycle: the calls of
\* a smallest set that is closed under waiting.
LEMMA WaitsEndInCycle ==
    ASSUME IsFiniteSet(Call), NEW W \in SUBSET Call, W # {},
           \A c \in W : \E d \in W : d \in WaitsFor(c)
    PROVE  \E c \in W : Deadlocked(c)
<1> DEFINE next == [c \in W |-> CHOOSE d \in W : d \in WaitsFor(c)]
           B == {S \in SUBSET W : S # {} /\ \A c \in S : next[c] \in S}
<1>1. \A c \in W : next[c] \in W /\ next[c] \in WaitsFor(c)
  OBVIOUS
<1>2. W \in B /\ \A S \in B : IsFiniteSet(S)
  <2>1. W \in B
    BY <1>1
  <2>2. QED
    BY <2>1, FS_Subset
<1>3. PICK S \in B : \A T \in B : T \subseteq S => T = S
  <2> HIDE DEF B
  <2>1. QED
    BY <1>2, SmallestSet
<1> DEFINE T == {next[c] : c \in S}
           turn == [c \in S |-> next[c]]
<1>4. S \subseteq W /\ S # {} /\ \A c \in S : next[c] \in S
  OBVIOUS
<1> HIDE DEF next
<1>5. T = S
  <2>1. T \subseteq S /\ T # {} /\ \A c \in T : next[c] \in T
    BY <1>4
  <2>2. T \in B
    BY <1>4, <2>1
  <2>3. QED
    BY <1>3, <2>1, <2>2
<1>6. turn \in Surjection(S, S)
  BY <1>4, <1>5 DEF Surjection
<1>7. turn \in Injection(S, S)
  <2>1. IsFiniteSet(S)
    BY <1>2
  <2> HIDE DEF turn
  <2>2. QED
    BY <1>6, <2>1, FS_SurjSameCardinalityImpliesInj
<1>8. \A c \in S : turn[c] \in WaitsFor(c)
  BY <1>1, <1>4
<1> HIDE DEF turn, T, B
<1>9. WaitsInCycle(S) /\ S \in SUBSET {c \in Call : WaitsFor(c) # {}}
  BY <1>4, <1>7, <1>8 DEF WaitsInCycle
<1>10. QED
  BY <1>4, <1>9 DEF Deadlocked

\* Of the calls in progress some can go on: one that waits for a connection
\* waits for open calls, and these do not all wait for each other without a
\* cycle, which InnoDB breaks.
LEMMA SomeoneGoesOn ==
    ASSUME IsFiniteSet(Call), IndInv, OrderInv, WaitInv PROVE NoStandstill
<1> SUFFICES ASSUME NEW c \in Call, pc[c] \notin {"new", "done"},
                    \A d \in Call : ~CanGoOn(d)
             PROVE  \E d \in Call : Deadlocked(d)
  BY DEF NoStandstill
<1>1. Open # {}
  <2>1. CASE pc[c] = "begin" /\ Open = {}
    <3>1. Cardinality(Open) = 0
      BY <2>1, FS_EmptySet
    <3>2. Cardinality(Open) < PoolSize
      BY <3>1, LedgerAssumption
    <3>3. QED
      BY <2>1, <3>2 DEF CanGoOn
  <2>2. CASE pc[c] # "begin"
    BY <2>2 DEF IndInv, TypeOK, Open
  <2>3. QED
    BY <2>1, <2>2
<1>2. Open \in SUBSET Call
  BY DEF Open
<1>3. \A d \in Open : \E e \in Open : e \in WaitsFor(d)
  BY <1>2, WaitsForOpen
<1>4. QED
  BY <1>1, <1>2, <1>3, WaitsEndInCycle

\* NoStandstill: while a call is in progress some call can go on, or is on a
\* cycle of waits, for any number of calls and any pool.
THEOREM ServiceNeverStandsStill ==
    ASSUME IsFiniteSet(Call) PROVE Spec => []NoStandstill
<1>1. IndInv /\ OrderInv /\ WaitInv => NoStandstill
  BY SomeoneGoesOn
<1>2. IndInv /\ WaitInv /\ [Next]_vars => WaitInv'
  BY NextWaitInv
<1>3. Spec => []WaitInv
  BY InitWaitInv, <1>2, Invariance, PTL DEF Spec
<1>4. QED
  BY <1>1, <1>3, LoopsKeepOrder, Invariance, PTL

-----------------------------------------------------------------------------
(* No livelock.                                                            *)

\* A request has finitely many postings, and pairs.
LEMMA RequestIsFinite ==
    ASSUME IndInv, NEW c \in Call, pc[c] \notin {"new", "done"}
    PROVE  /\ Len(request[c].postings) \in Nat
           /\ DOMAIN request[c].postings = 1 .. Len(request[c].postings)
           /\ IsFiniteSet(PairsOfCall(c))
           /\ Cardinality(PairsOfCall(c)) \in Nat
<1>1. request[c].postings \in Seq(Posting)
  BY LedgerAssumption DEF IndInv, RequestInv
<1>2. QED
  BY <1>1, PairsFacts, FS_CardinalityType

\* Where a call is in progress it has a statement left, and otherwise none.
LEMMA StatementsLeftType ==
    ASSUME IndInv, NEW c \in Call
    PROVE  /\ StatementsLeft(c) \in Nat
           /\ pc[c] \in {"new", "done"} => StatementsLeft(c) = 0
           /\ pc[c] \notin {"new", "done"} => StatementsLeft(c) > 0
<1>1. CASE pc[c] \in {"new", "done"}
  BY <1>1 DEF StatementsLeft
<1>2. CASE pc[c] \notin {"new", "done"}
  <2> DEFINE length == Len(request[c].postings)
             pairs == Cardinality(PairsOfCall(c))
             left == Cardinality(todo[c])
  <2>1. length \in Nat /\ pairs \in Nat /\ IsFiniteSet(PairsOfCall(c))
    BY <1>2, RequestIsFinite
  <2>2. left \in Nat
    <3>1. todo[c] \subseteq PairsOfCall(c)
      BY DEF IndInv, TodoInv
    <3>2. QED
      BY <2>1, <3>1, FS_Subset, FS_CardinalityType
  <2>3. pc[c] = "entries" => index[c] \in 1 .. length
    BY <1>2, RequestIsFinite DEF IndInv, IndexInv
  <2> HIDE DEF length, pairs, left
  <2>4. CASE pc[c] = "begin"
    BY <2>1, <2>4 DEF StatementsLeft, length, pairs
  <2>5. CASE pc[c] = "find"
    BY <2>1, <2>5 DEF StatementsLeft, length, pairs
  <2>6. CASE pc[c] = "lock"
    BY <2>1, <2>2, <2>6 DEF StatementsLeft, length, pairs, left
  <2>7. CASE pc[c] = "insertRow"
    BY <2>1, <2>2, <2>7 DEF StatementsLeft, length, pairs, left
  <2>8. CASE pc[c] = "check"
    BY <2>1, <2>8 DEF StatementsLeft, length, pairs
  <2>9. CASE pc[c] = "entries"
    BY <2>1, <2>3, <2>9 DEF StatementsLeft, length, pairs
  <2>10. CASE pc[c] = "update"
    BY <2>2, <2>10 DEF StatementsLeft, left
  <2>11. CASE pc[c] \in {"commit", "reply"}
    BY <2>11 DEF StatementsLeft
  <2>12. QED
    BY <1>2, <2>4, <2>5, <2>6, <2>7, <2>8, <2>9, <2>10, <2>11
    DEF IndInv, TypeOK, Statements
<1>3. QED
  BY <1>1, <1>2

\* A call that nothing happens to has as many left as before.
LEMMA SameStatementsLeft ==
    ASSUME NEW c \in Call, pc'[c] = pc[c], request'[c] = request[c],
           todo'[c] = todo[c], index'[c] = index[c]
    PROVE  StatementsLeft(c)' = StatementsLeft(c)
BY DEF StatementsLeft, PairsOfCall

\* A loop that visits a pair has one less to visit.
LEMMA OnePairLess ==
    ASSUME IndInv, NEW c \in Call, pc[c] \notin {"new", "done"},
           NEW p \in todo[c]
    PROVE  /\ Cardinality(todo[c]) \in Nat
           /\ Cardinality(todo[c] \ {p}) = Cardinality(todo[c]) - 1
           /\ todo[c] = {p} => Cardinality(todo[c]) = 1
<1>1. IsFiniteSet(PairsOfCall(c)) /\ todo[c] \subseteq PairsOfCall(c)
  BY RequestIsFinite DEF IndInv, TodoInv
<1>2. IsFiniteSet(todo[c])
  BY <1>1, FS_Subset
<1>3. QED
  BY <1>2, FS_CardinalityType, FS_RemoveElement, FS_Singleton

\* What a statement leaves alone at the other calls.
OthersStay(c) ==
    \A d \in Call \ {c} : /\ pc'[d] = pc[d] /\ request'[d] = request[d]
                          /\ todo'[d] = todo[d] /\ index'[d] = index[d]

\* Call c has fewer statements left than before.
GoesDown(c) ==
    StatementsLeft(c)' \in Int /\ StatementsLeft(c)' < StatementsLeft(c)

\* A call that returns has none.
LEMMA ReturnRunsDown ==
    ASSUME IndInv, NEW c \in Call, pc[c] \notin {"new", "done"},
           NEW a, Return(c, a)
    PROVE  GoesDown(c) /\ OthersStay(c)
<1>1. /\ pc'[c] = "done" /\ request' = request
      /\ \A d \in Call \ {c} : /\ pc'[d] = pc[d] /\ todo'[d] = todo[d]
                               /\ index'[d] = index[d]
  BY DEF Return, Forget, IndInv, TypeOK
<1>2. StatementsLeft(c)' = 0
  BY <1>1 DEF StatementsLeft
<1>3. StatementsLeft(c) \in Nat /\ StatementsLeft(c) > 0
  BY StatementsLeftType
<1>4. QED
  BY <1>1, <1>2, <1>3 DEF OthersStay, GoesDown

\* A statement is not sent again.
LEMMA StepRunsDown ==
    ASSUME IndInv, NEW c \in Call, Step(c) \/ Fail(c)
    PROVE  GoesDown(c) /\ OthersStay(c)
<1> DEFINE length == Len(request[c].postings)
           pairs == Cardinality(PairsOfCall(c))
           left == Cardinality(todo[c])
<1>1. /\ pc \in [Call -> Statements \cup {"new", "begin", "done"}]
      /\ todo \in [Call -> SUBSET Pair] /\ index \in [Call -> Nat \ {0}]
  BY DEF IndInv, TypeOK
<1>2. CASE \/ Replay(c) \/ RejectOverdraft(c) \/ DuplicateKey(c) \/ Reply(c)
           \/ Fail(c) \/ \E p \in Pair : UpdateOutOfRange(c, p)
  BY <1>2, ReturnRunsDown
  DEF Replay, RejectOverdraft, DuplicateKey, Reply, Fail, UpdateOutOfRange,
      Open, Statements
<1>3. CASE DeadlockVictim(c)
  <2>1. WaitsFor(c) # {}
    BY <1>3 DEF DeadlockVictim, Deadlocked
  <2>2. pc[c] \notin {"new", "done"}
    BY <2>1 DEF WaitsFor
  <2>3. QED
    BY <1>3, <2>2, ReturnRunsDown DEF DeadlockVictim
<1>4. ASSUME \/ Begin(c) \/ NotPosted(c) \/ InsertTransaction(c)
             \/ InsertEntry(c) \/ Commit(c)
             \/ \E p \in Pair : \/ SelectForUpdate(c, p)
                                \/ SelectMissing(c, p)
                                \/ InsertBalanceRow(c, p)
                                \/ UpdateBalance(c, p)
      PROVE  GoesDown(c) /\ OthersStay(c)
  <2>1. pc[c] \notin {"new", "done"} /\ request' = request
    BY <1>4 DEF Begin, NotPosted, SelectForUpdate, SelectMissing,
       InsertBalanceRow, InsertTransaction, InsertEntry, UpdateBalance, Commit
  <2>2. OthersStay(c)
    BY <1>1, <1>4, <2>1 DEF OthersStay, Begin, NotPosted, SelectForUpdate,
       SelectMissing, InsertBalanceRow, InsertTransaction, InsertEntry,
       UpdateBalance, Commit, LockedPair, Forget, local
  <2> SUFFICES GoesDown(c)
    BY <2>2
  <2>3. length \in Nat /\ pairs \in Nat
    BY <2>1, RequestIsFinite
  <2>4. length' = length /\ PairsOfCall(c)' = PairsOfCall(c) /\ pairs' = pairs
    BY <2>1 DEF PairsOfCall
  <2>5. index[c] \in Nat \ {0} /\ todo[c] \in SUBSET Pair
    BY <1>1
  <2> HIDE DEF length, pairs
  <2>6. CASE Begin(c)
    <3>1. pc[c] = "begin" /\ pc'[c] = "find"
      BY <1>1, <2>6 DEF Begin
    <3>2. StatementsLeft(c) = 5 + 3 * pairs + length
      BY <3>1 DEF StatementsLeft, length, pairs
    <3>3. StatementsLeft(c)' = 4 + 3 * pairs + length
      BY <2>4, <3>1 DEF StatementsLeft, length, pairs
    <3>4. QED
      BY <2>3, <3>2, <3>3 DEF GoesDown
  <2>7. CASE NotPosted(c)
    <3>1. pc[c] = "find" /\ pc'[c] = "lock" /\ todo'[c] = PairsOfCall(c)
      BY <1>1, <2>7 DEF NotPosted
    <3>2. StatementsLeft(c) = 4 + 3 * pairs + length
      BY <3>1 DEF StatementsLeft, length, pairs
    <3>3. StatementsLeft(c)' = 3 + pairs + length + 2 * pairs
      BY <2>4, <3>1 DEF StatementsLeft, length, pairs
    <3>4. QED
      BY <2>3, <3>2, <3>3 DEF GoesDown
  <2>8. CASE InsertEntry(c)
    <3>1. CASE index[c] = length
      <4>1. /\ pc[c] = "entries" /\ pc'[c] = "update"
            /\ todo'[c] = PairsOfCall(c)
        BY <1>1, <2>8, <3>1 DEF InsertEntry, length
      <4>2. StatementsLeft(c) = 3 + pairs + length - index[c]
        BY <4>1 DEF StatementsLeft, length, pairs
      <4>3. StatementsLeft(c)' = 2 + pairs
        BY <2>4, <4>1 DEF StatementsLeft, length, pairs
      <4>4. QED
        BY <2>3, <3>1, <4>2, <4>3 DEF GoesDown
    <3>2. CASE index[c] # length
      <4>1. /\ pc[c] = "entries" /\ pc'[c] = "entries"
            /\ index'[c] = index[c] + 1
        BY <1>1, <2>8, <3>2 DEF InsertEntry, length
      <4>2. StatementsLeft(c) = 3 + pairs + length - index[c]
        BY <4>1 DEF StatementsLeft, length, pairs
      <4>3. StatementsLeft(c)' = 3 + pairs + length - (index[c] + 1)
        BY <2>4, <4>1 DEF StatementsLeft, length, pairs
      <4>4. QED
        BY <2>3, <2>5, <4>2, <4>3 DEF GoesDown
    <3>3. QED
      BY <3>1, <3>2
  <2>9. ASSUME NEW p \in Pair, SelectMissing(c, p)
        PROVE  GoesDown(c)
    <3>1. /\ pc[c] = "lock" /\ pc'[c] = "insertRow" /\ todo'[c] = todo[c]
          /\ p \in todo[c]
      BY <1>1, <2>9 DEF SelectMissing, local, IsFirst
    <3>2. StatementsLeft(c) = 3 + pairs + length + 2 * Cardinality(todo[c])
      BY <3>1 DEF StatementsLeft, length, pairs
    <3>3. StatementsLeft(c)' = 2 + pairs + length + 2 * Cardinality(todo[c])
      BY <2>4, <3>1 DEF StatementsLeft, length, pairs
    <3>4. Cardinality(todo[c]) \in Nat
      BY <2>1, <3>1, OnePairLess
    <3>5. QED
      BY <2>3, <3>2, <3>3, <3>4 DEF GoesDown
  <2>10. ASSUME NEW p \in Pair, SelectForUpdate(c, p) \/ InsertBalanceRow(c, p)
         PROVE  GoesDown(c)
    <3>1. /\ pc[c] \in {"lock", "insertRow"}
          /\ pc'[c] = IF todo[c] = {p} THEN "check" ELSE "lock"
          /\ todo'[c] = todo[c] \ {p} /\ p \in todo[c]
      BY <1>1, <2>10
      DEF SelectForUpdate, InsertBalanceRow, LockedPair, IsFirst
    <3>2. /\ Cardinality(todo[c]) \in Nat
          /\ Cardinality(todo'[c]) = Cardinality(todo[c]) - 1
          /\ todo[c] = {p} => Cardinality(todo[c]) = 1
      BY <2>1, <3>1, OnePairLess
    <3>3. StatementsLeft(c) \in {2 + pairs + length + 2 * Cardinality(todo[c]),
                                 3 + pairs + length + 2 * Cardinality(todo[c])}
      BY <3>1 DEF StatementsLeft, length, pairs
    <3>4. CASE todo[c] = {p}
      <4>1. StatementsLeft(c)' = 3 + pairs + length
        BY <2>4, <3>1, <3>4 DEF StatementsLeft, length, pairs
      <4>2. QED
        BY <2>3, <3>2, <3>3, <3>4, <4>1 DEF GoesDown
    <3>5. CASE todo[c] # {p}
      <4>1. StatementsLeft(c)' =
               3 + pairs + length + 2 * Cardinality(todo'[c])
        BY <2>4, <3>1, <3>5 DEF StatementsLeft, length, pairs
      <4>2. QED
        BY <2>3, <3>2, <3>3, <4>1 DEF GoesDown
    <3>6. QED
      BY <3>4, <3>5
  <2>11. ASSUME NEW p \in Pair, UpdateBalance(c, p)
         PROVE  GoesDown(c)
    <3>1. /\ pc[c] = "update"
          /\ pc'[c] = IF todo[c] = {p} THEN "commit" ELSE "update"
          /\ todo'[c] = todo[c] \ {p} /\ p \in todo[c]
      BY <1>1, <2>11 DEF UpdateBalance, IsFirst
    <3>2. /\ Cardinality(todo[c]) \in Nat
          /\ Cardinality(todo'[c]) = Cardinality(todo[c]) - 1
          /\ todo[c] = {p} => Cardinality(todo[c]) = 1
      BY <2>1, <3>1, OnePairLess
    <3>3. QED
      BY <3>1, <3>2 DEF StatementsLeft, GoesDown
  <2>12. CASE InsertTransaction(c)
    <3>1. pc[c] = "check" /\ pc'[c] = "entries" /\ index'[c] = 1
      BY <1>1, <2>12 DEF InsertTransaction, local, IndInv, LoopInv, Inserted
    <3>2. StatementsLeft(c) = 3 + pairs + length
      BY <3>1 DEF StatementsLeft, length, pairs
    <3>3. StatementsLeft(c)' = 3 + pairs + length - 1
      BY <2>4, <3>1 DEF StatementsLeft, length, pairs
    <3>4. QED
      BY <2>3, <3>2, <3>3 DEF GoesDown
  <2>13. CASE Commit(c)
    <3>1. pc[c] = "commit" /\ pc'[c] = "reply"
      BY <1>1, <2>13 DEF Commit
    <3>2. QED
      BY <3>1 DEF StatementsLeft, GoesDown
  <2>14. QED
    BY <1>4, <2>6, <2>7, <2>8, <2>9, <2>10, <2>11, <2>12, <2>13
<1>5. QED
  BY <1>2, <1>3, <1>4 DEF Step

\* A request arrives or some call goes down, and none goes up.
RunsDown ==
    /\ \E c \in Call : \/ pc[c] = "new" /\ pc'[c] # "new"
                       \/ StatementsLeft(c)' < StatementsLeft(c)
    /\ \A c \in Call : pc[c] # "new" => StatementsLeft(c)' <= StatementsLeft(c)

\* One call goes down, and nothing happens to the others.
LEMMA OneRunsDown ==
    ASSUME IndInv, NEW c \in Call, GoesDown(c), OthersStay(c) PROVE RunsDown
<1>1. \A d \in Call : StatementsLeft(d) \in Nat
  BY StatementsLeftType
<1>2. \A d \in Call \ {c} : StatementsLeft(d)' = StatementsLeft(d)
  BY SameStatementsLeft DEF OthersStay
<1>3. StatementsLeft(c)' < StatementsLeft(c)
      /\ StatementsLeft(c)' <= StatementsLeft(c)
  BY <1>1 DEF GoesDown
<1>4. QED
  BY <1>1, <1>2, <1>3 DEF RunsDown

\* No step sends a call back.
LEMMA NextRunsDown ==
    ASSUME IndInv, [Next]_vars, vars' # vars PROVE RunsDown
<1>1. ASSUME NEW c \in Call, Step(c) \/ Fail(c) PROVE RunsDown
  BY <1>1, StepRunsDown, OneRunsDown
<1>2. \A c \in Call : StatementsLeft(c) \in Nat
  BY StatementsLeftType
<1>3. ASSUME NEW c \in Call, NEW r \in Request, Receive(c, r) PROVE RunsDown
  <2>1. pc[c] = "new" /\ pc'[c] # "new" /\ OthersStay(c)
    BY <1>3 DEF Receive, local, OthersStay, IndInv, TypeOK
  <2>2. \A d \in Call \ {c} : StatementsLeft(d)' = StatementsLeft(d)
    BY <2>1, SameStatementsLeft DEF OthersStay
  <2>3. QED
    BY <1>2, <2>1, <2>2 DEF RunsDown
<1>4. CASE Crash
  <2> DEFINE C == {c \in Call : pc[c] \notin {"new", "done"}}
  <2>0. C \subseteq Call
    OBVIOUS
  <2>1. /\ C # {} /\ \A c \in C : pc'[c] = "done"
        /\ \A c \in Call \ C : /\ pc'[c] = pc[c] /\ request'[c] = request[c]
                               /\ todo'[c] = todo[c] /\ index'[c] = index[c]
    BY <1>4 DEF Crash, Forget
  <2>2. \A c \in C : StatementsLeft(c)' = 0 /\ StatementsLeft(c) > 0
    BY <2>1, StatementsLeftType DEF StatementsLeft
  <2>3. \A c \in Call \ C : StatementsLeft(c)' = StatementsLeft(c)
    BY <2>1, SameStatementsLeft
  <2> HIDE DEF C
  <2>4. QED
    BY <1>2, <2>0, <2>1, <2>2, <2>3 DEF RunsDown
<1>5. QED
  BY <1>1, <1>3, <1>4 DEF Next, Disturb, Finished

\* StatementsRunOut: whatever waits, fails, is rolled back or dies, no call is
\* sent back to statements it has done. With NoStandstill it leaves a finite
\* number of calls no way to go on forever, nor to stop before they are done.
THEOREM NoLivelock == Spec => StatementsRunOut
<1>1. IndInv /\ [Next]_vars => [RunsDown]_vars
  BY NextRunsDown
<1>2. QED
  BY <1>1, Invariance, PTL DEF Spec, StatementsRunOut, RunsDown

=============================================================================
