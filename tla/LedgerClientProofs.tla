------------------------- MODULE LedgerClientProofs -------------------------
(***************************************************************************)
(* What the clients of the ledger service rely on.  Its readers:           *)
(* GetTransaction returns a transaction whole, and paging through the      *)
(* entries of a pair skips and repeats none while postings go on.  The     *)
(* wallet: it cannot tell the handlers from the atomic ledger.             *)
(***************************************************************************)
EXTENDS LedgerRefinementProofs, LedgerReads, WalletOnLedger

\* What WalletProofs proves of Wallet, over the handlers of Ledger.
WP == INSTANCE WalletProofs WITH
    posted <- PostedTransactions,
    funds  <- [p \in Pair |-> GetBalance(p)],
    status <- [c \in Call |-> Status(c)],
    pc     <- handler

-----------------------------------------------------------------------------
(* GetTransaction.                                                         *)

\* What GetTransaction has read.
ReadsInv ==
    /\ found # None => found \in transactions
    /\ loaded # None => found # None
    /\ TransactionsReadWhole

\* TransactionsReadWhole: between the two queries a transaction that is there
\* does not change.
THEOREM GetTransactionIsAtomic == SpecReads => []TransactionsReadWhole
<1>1. InitReads => Init /\ ReadsInv
  BY DEF InitReads, ReadsInv, TransactionsReadWhole
<1>2. [NextReads]_allVars => [Next]_vars
  BY DEF NextReads, Post, ListEntries, FindTransaction, FindPostings, Over,
         Next, allVars
<1>3. ASSUME IndInv, RecordInv, ReadsInv, [NextReads]_allVars
      PROVE  ReadsInv'
  <2>1. transactions \subseteq transactions'
    BY <1>2, <1>3, OnlyCommitPublishes DEF tables, Commit, Publishes
  <2>2. ASSUME NEW t \in transactions PROVE request'[t.id] = request[t.id]
    <3>1. t.id \in Call /\ pc[t.id] # "new"
      BY <1>3 DEF IndInv, TypeOK, Transaction, TransactionInv
    <3>2. \A c \in Call : pc[c] # "new" => request'[c] = request[c]
      BY <1>2, <1>3, RequestsStay
    <3>3. QED
      BY <3>1, <3>2
  <2>3. CASE UNCHANGED <<found, loaded>>
    BY <1>3, <2>1, <2>2, <2>3 DEF ReadsInv, TransactionsReadWhole
  <2>4. ASSUME NEW k \in Key, FindTransaction(k) PROVE ReadsInv'
    BY <1>3, <2>1, <2>4
    DEF FindTransaction, ReadsInv, TransactionsReadWhole
  <2>5. CASE FindPostings
    <3>1. LoadPostings(found.id) = request[found.id].postings
      BY <1>3, <2>5, RecordInvMatches
      DEF FindPostings, ReadsInv, EntriesMatchTransactions
    <3>2. QED
      BY <1>3, <2>1, <2>2, <2>5, <3>1
      DEF FindPostings, ReadsInv, TransactionsReadWhole
  <2>6. QED
    BY <1>3, <2>3, <2>4, <2>5
    DEF NextReads, Post, ListEntries, Over, allVars, readVars
<1>4. IndInv /\ RecordInv /\ [Next]_vars => IndInv' /\ RecordInv'
  BY NextIndInv, NextRecordInv
<1>5. Init => IndInv /\ RecordInv
  BY InitIndInv, InitRecordInv
<1>6. ReadsInv => TransactionsReadWhole
  BY DEF ReadsInv
<1>7. QED
  BY <1>1, <1>2, <1>3, <1>4, <1>5, <1>6, PTL DEF SpecReads

-----------------------------------------------------------------------------
(* InOrder(S) is the one sequence that lists S in increasing order.        *)

Ordered(s) ==
    /\ s \in Seq(Nat)
    /\ \A i, j \in 1 .. Len(s) : i < j => s[i] < s[j]

Elements(s) == {s[i] : i \in 1 .. Len(s)}

\* The first k of n increasing numbers are k.
LEMMA CountFirst ==
    ASSUME NEW s, Ordered(s), NEW k \in 0 .. Len(s)
    PROVE  /\ IsFiniteSet({s[i] : i \in 1 .. k})
           /\ Cardinality({s[i] : i \in 1 .. k}) = k
<1> DEFINE f == [i \in 1 .. k |-> s[i]]
           T == {s[i] : i \in 1 .. k}
<1>0. Len(s) \in Nat /\ \A i \in 1 .. Len(s) : s[i] \in Nat
  BY LenProperties, ElementOfSeq DEF Ordered
<1>1. ASSUME NEW i \in 1 .. k, NEW j \in 1 .. k, s[i] = s[j] PROVE i = j
  <2>1. i \in 1 .. Len(s) /\ j \in 1 .. Len(s)
    BY <1>0
  <2>2. ~(s[i] < s[j]) /\ ~(s[j] < s[i])
    BY <1>0, <1>1, <2>1
  <2>3. ~(i < j) /\ ~(j < i)
    BY <2>1, <2>2 DEF Ordered
  <2>4. QED
    BY <2>1, <2>3
<1>2. f \in [1 .. k -> T]
  OBVIOUS
<1>3. \A i, j \in 1 .. k : f[i] = f[j] => i = j
  BY <1>1
<1>4. \A x \in T : \E i \in 1 .. k : f[i] = x
  OBVIOUS
<1> HIDE DEF f, T
<1>5. f \in Injection(1 .. k, T)
  BY <1>2, <1>3 DEF Injection, IsInjective
<1>6. f \in Surjection(1 .. k, T)
  BY <1>2, <1>4 DEF Surjection
<1>7. IsFiniteSet(1 .. k) /\ Cardinality(1 .. k) = k
  BY <1>0, FS_Interval
<1>8. QED
  BY <1>5, <1>6, <1>7, FS_Bijection DEF ExistsBijection, Bijection, T

\* An ordered sequence is its elements put in order.
LEMMA OrderedIsInOrder ==
    ASSUME NEW s, Ordered(s)
    PROVE  s = InOrder(Elements(s))
<1> DEFINE S == Elements(s)
           rank(n) == Cardinality({m \in S : m <= n})
<1>0. /\ Len(s) \in Nat /\ s \in Seq(Nat) /\ \A i \in 1 .. Len(s) : s[i] \in Nat
      /\ s = [i \in 1 .. Len(s) |-> s[i]]
  BY LenProperties, ElementOfSeq DEF Ordered
<1>1. Cardinality(S) = Len(s)
  <2>1. Len(s) \in 0 .. Len(s)
    BY <1>0
  <2>2. QED
    BY <2>1, CountFirst DEF Elements
<1>2. ASSUME NEW i \in 1 .. Len(s) PROVE rank(s[i]) = i
  <2>1. ASSUME NEW j \in 1 .. Len(s) PROVE s[j] <= s[i] <=> j <= i
    <3>1. i < j => s[i] < s[j]
      BY DEF Ordered
    <3>2. j < i => s[j] < s[i]
      BY DEF Ordered
    <3>3. s[i] \in Nat /\ s[j] \in Nat /\ i \in Int /\ j \in Int
      BY <1>0
    <3>4. i = j => s[i] = s[j]
      OBVIOUS
    <3>5. QED
      BY <3>1, <3>2, <3>3, <3>4
  <2>2. {m \in S : m <= s[i]} = {s[j] : j \in 1 .. i}
    BY <1>0, <2>1 DEF Elements
  <2>3. Cardinality({s[j] : j \in 1 .. i}) = i
    <3>1. i \in 0 .. Len(s)
      BY <1>0
    <3>2. QED
      BY <3>1, CountFirst
  <2>4. QED
    BY <2>2, <2>3
<1>3. ASSUME NEW i \in 1 .. Len(s)
      PROVE  (CHOOSE n \in S : rank(n) = i) = s[i]
  <2>1. s[i] \in S
    BY DEF Elements
  <2>2. \A n \in S : rank(n) = i => n = s[i]
    BY <1>2 DEF Elements
  <2> HIDE DEF rank, S
  <2>3. QED
    BY <1>2, <2>1, <2>2
<1>4. InOrder(S) = [i \in 1 .. Cardinality(S) |-> CHOOSE n \in S : rank(n) = i]
  BY DEF InOrder
<1> HIDE DEF rank, S
<1>5. QED
  BY <1>0, <1>1, <1>3, <1>4 DEF S

\* A larger number at the end.
LEMMA AppendOrdered ==
    ASSUME NEW s, Ordered(s), NEW t, Ordered(t),
           \A m \in Elements(s), n \in Elements(t) : m < n
    PROVE  Ordered(s \o t) /\ Elements(s \o t) = Elements(s) \cup Elements(t)
<1>0. /\ s \in Seq(Nat) /\ t \in Seq(Nat) /\ Len(s) \in Nat /\ Len(t) \in Nat
      /\ \A i \in 1 .. Len(s) : s[i] \in Nat
      /\ \A i \in 1 .. Len(t) : t[i] \in Nat
  BY LenProperties, ElementOfSeq DEF Ordered
<1>1. /\ s \o t \in Seq(Nat) /\ Len(s \o t) = Len(s) + Len(t)
      /\ \A i \in 1 .. Len(s) + Len(t) :
            (s \o t)[i] = IF i <= Len(s) THEN s[i] ELSE t[i - Len(s)]
  BY <1>0, ConcatProperties
<1>2. ASSUME NEW i \in 1 .. Len(s \o t), NEW j \in 1 .. Len(s \o t), i < j
      PROVE  (s \o t)[i] < (s \o t)[j]
  <2>1. CASE j <= Len(s)
    BY <1>0, <1>1, <1>2, <2>1 DEF Ordered
  <2>2. CASE i <= Len(s) /\ j > Len(s)
    <3>1. (s \o t)[i] \in Elements(s) /\ (s \o t)[j] \in Elements(t)
      BY <1>0, <1>1, <2>2 DEF Elements
    <3>2. QED
      BY <3>1, Zenon
  <2>3. CASE i > Len(s)
    <3>1. /\ i - Len(s) \in 1 .. Len(t) /\ j - Len(s) \in 1 .. Len(t)
          /\ i - Len(s) < j - Len(s)
      BY <1>0, <1>1, <1>2, <2>3
    <3>2. t[i - Len(s)] < t[j - Len(s)]
      BY <3>1, Zenon DEF Ordered
    <3>3. /\ (s \o t)[i] = t[i - Len(s)]
          /\ (s \o t)[j] = t[j - Len(s)]
      BY <1>0, <1>1, <1>2, <2>3
    <3>4. QED
      BY <3>2, <3>3
  <2>4. QED
    BY <1>0, <1>1, <2>1, <2>2, <2>3
<1>3. Elements(s \o t) = Elements(s) \cup Elements(t)
  <2>1. ASSUME NEW i \in 1 .. Len(s \o t)
        PROVE  (s \o t)[i] \in Elements(s) \cup Elements(t)
    <3>1. CASE i <= Len(s)
      BY <1>0, <1>1, <3>1 DEF Elements
    <3>2. CASE i > Len(s)
      <4>1. i - Len(s) \in 1 .. Len(t)
        BY <1>0, <1>1, <3>2
      <4>2. QED
        BY <1>0, <1>1, <3>2, <4>1 DEF Elements
    <3>3. QED
      BY <1>0, <1>1, <3>1, <3>2
  <2>2. ASSUME NEW i \in 1 .. Len(s) PROVE s[i] \in Elements(s \o t)
    <3>1. i \in 1 .. Len(s \o t) /\ (s \o t)[i] = s[i]
      BY <1>0, <1>1
    <3>2. QED
      BY <3>1 DEF Elements
  <2>3. ASSUME NEW i \in 1 .. Len(t) PROVE t[i] \in Elements(s \o t)
    <3>1. /\ i + Len(s) \in 1 .. Len(s \o t)
          /\ (s \o t)[i + Len(s)] = t[i]
      BY <1>0, <1>1
    <3>2. QED
      BY <3>1 DEF Elements
  <2>4. QED
    BY <2>1, <2>2, <2>3 DEF Elements
<1>4. QED
  BY <1>1, <1>2, <1>3 DEF Ordered

\* A larger number at the end.
LEMMA AppendOne ==
    ASSUME NEW s, Ordered(s), NEW n \in Nat, \A m \in Elements(s) : m < n
    PROVE  Ordered(s \o <<n>>) /\ Elements(s \o <<n>>) = Elements(s) \cup {n}
<1>1. Ordered(<<n>>) /\ Elements(<<n>>) = {n}
  BY DEF Ordered, Elements
<1>2. QED
  BY <1>1, AppendOrdered

\* Every bounded set of numbers is listed by InOrder.
LEMMA InOrderLists ==
    ASSUME NEW S \in SUBSET Nat, NEW bound \in Nat, \A n \in S : n < bound
    PROVE  Ordered(InOrder(S)) /\ Elements(InOrder(S)) = S
<1> DEFINE Below(k) == {n \in S : n < k}
           IsListed(k) == \E s : Ordered(s) /\ Elements(s) = Below(k)
           Bad == {k \in Nat : ~IsListed(k)}
<1>0. \A n \in S : n \in Nat
  OBVIOUS
<1>1. Bad = {}
  <2>1. SUFFICES ASSUME Bad # {} PROVE FALSE
    OBVIOUS
  <2>2. PICK k \in Bad : \A j \in Bad : <<j, k>> \notin OpToRel(<, Nat)
    <3>1. Bad \subseteq Nat
      OBVIOUS
    <3> HIDE DEF Bad
    <3>2. QED
      BY <2>1, <3>1, NatLessThanWellFounded, WFMin
  <2>3. \A j \in Nat : j < k => IsListed(j)
    BY <2>2 DEF OpToRel
  <2>4. CASE k = 0
    <3>1. Ordered(<<>>) /\ Elements(<<>>) = {}
      BY DEF Ordered, Elements
    <3>2. Below(0) = {}
      <4>1. \A n \in S : ~(n < 0)
        BY <1>0
      <4>2. QED
        BY <4>1
    <3>3. QED
      BY <2>4, <3>1, <3>2
  <2>5. CASE k # 0
    <3>1. k - 1 \in Nat /\ k - 1 < k
      BY <2>5
    <3>2. PICK s : Ordered(s) /\ Elements(s) = Below(k - 1)
      BY <2>3, <3>1
    <3>3. CASE k - 1 \notin S
      <4>1. Below(k) = Below(k - 1)
        <5>1. \A n \in S : n < k <=> n < k - 1
          BY <1>0, <3>1, <3>3
        <5>2. QED
          BY <5>1
      <4>2. QED
        BY <3>2, <4>1
    <3>4. CASE k - 1 \in S
      <4>1. Below(k) = Below(k - 1) \cup {k - 1}
        <5>1. \A n \in S : n < k <=> n < k - 1 \/ n = k - 1
          BY <1>0, <3>1
        <5>2. QED
          BY <3>4, <5>1
      <4>2. \A m \in Elements(s) : m < k - 1
        BY <3>2
      <4>3. Ordered(s \o <<k - 1>>) /\ Elements(s \o <<k - 1>>) = Below(k)
        BY <3>1, <3>2, <4>1, <4>2, AppendOne
      <4>4. QED
        BY <4>3
    <3>5. QED
      BY <3>3, <3>4
  <2>6. QED
    BY <2>4, <2>5
<1>2. PICK s : Ordered(s) /\ Elements(s) = Below(bound)
  BY <1>1
<1>3. Below(bound) = S
  OBVIOUS
<1>4. QED
  BY <1>2, <1>3, OrderedIsInOrder

-----------------------------------------------------------------------------
(* The pages.                                                              *)

\* What has been delivered is what the pair's entries are up to the last one.
DeliveredUpTo(last) ==
    /\ Ordered(delivered)
    /\ Elements(delivered) = {n \in IdsAfter(0) : n <= last}
    /\ last = 0 \/ last \in Elements(delivered)
    /\ listing = "more" => token = last

PageInv == \E last \in Nat : DeliveredUpTo(last)

\* The ids of the pair's entries are positive and bounded.
LEMMA IdsAreBounded ==
    ASSUME IndInv, NEW cursor \in Nat
    PROVE  /\ IdsAfter(cursor) \in SUBSET Nat
           /\ nextEntry \in Nat
           /\ \A n \in IdsAfter(cursor) : n < nextEntry
           /\ IdsAfter(cursor) = {n \in IdsAfter(0) : n > cursor}
<1>1. entries \subseteq Entry /\ nextEntry \in Nat
  BY DEF IndInv, TypeOK
<1>2. \A e \in entries : e.id \in Nat /\ e.id < nextEntry
  BY <1>1 DEF IndInv, EntryInv, Entry
<1>3. QED
  BY <1>1, <1>2 DEF IdsAfter

\* No page has been read yet.
LEMMA InitPageInv == InitReads => PageInv
<1> SUFFICES ASSUME InitReads PROVE DeliveredUpTo(0)
  BY DEF PageInv
<1>1. Ordered(<<>>) /\ Elements(<<>>) = {}
  BY DEF Ordered, Elements
<1>2. IdsAfter(0) = {}
  BY DEF InitReads, Init, IdsAfter
<1>3. QED
  BY <1>1, <1>2 DEF InitReads, DeliveredUpTo

\* A page of the first k ids after the last one delivered.
LEMMA TakePage ==
    ASSUME IndInv, NEW last \in Nat, DeliveredUpTo(last),
           NEW ids, Ordered(ids), Elements(ids) = IdsAfter(last),
           NEW k \in 0 .. Len(ids), UNCHANGED entries,
           delivered' = delivered \o SubSeq(ids, 1, k),
           listing' = "more" => k > 0 /\ token' = ids[k]
    PROVE  PageInv'
<1> DEFINE page == SubSeq(ids, 1, k)
           upTo == IF k = 0 THEN last ELSE ids[k]
<1>1. /\ Len(ids) \in Nat /\ \A i \in 1 .. Len(ids) : ids[i] \in Nat
  BY LenProperties, ElementOfSeq DEF Ordered
<1>2. /\ page \in Seq(Nat) /\ Len(page) = k
      /\ \A i \in 1 .. k : page[i] = ids[i]
  <2>1. \A i \in 1 .. k : ids[i] \in Nat
    BY <1>1
  <2>2. k \in Int /\ 1 \in Int
    BY <1>1
  <2>3. /\ page \in Seq(Nat) /\ Len(page) = IF 1 <= k THEN k - 1 + 1 ELSE 0
        /\ \A i \in 1 .. k - 1 + 1 : page[i] = ids[1 + i - 1]
    BY <2>1, <2>2, SubSeqProperties
  <2> HIDE DEF page
  <2>4. k - 1 + 1 = k /\ \A i \in 1 .. k : 1 + i - 1 = i
    BY <1>1
  <2>5. Len(page) = k
    BY <1>1, <2>3
  <2>6. ASSUME NEW i \in 1 .. k PROVE page[i] = ids[i]
    BY <2>3, <2>4
  <2>7. QED
    BY <2>3, <2>5, <2>6
<1> HIDE DEF page
<1>3. /\ Ordered(page)
      /\ Elements(page) = {ids[i] : i \in 1 .. k}
  <2>1. ASSUME NEW i \in 1 .. k, NEW j \in 1 .. k, i < j PROVE page[i] < page[j]
    <3>1. i \in 1 .. Len(ids) /\ j \in 1 .. Len(ids)
      BY <1>1
    <3>2. ids[i] < ids[j]
      BY <2>1, <3>1 DEF Ordered
    <3>3. QED
      BY <1>2, <3>2
  <2>2. QED
    BY <1>2, <2>1 DEF Ordered, Elements
<1>4. /\ IdsAfter(0) \subseteq Nat
      /\ Elements(ids) = {n \in IdsAfter(0) : n > last}
      /\ Elements(delivered) = {n \in IdsAfter(0) : n <= last}
  BY IdsAreBounded DEF DeliveredUpTo
<1>5. Ordered(delivered \o page)
      /\ Elements(delivered \o page) = Elements(delivered) \cup Elements(page)
  <2>1. Elements(page) \subseteq Elements(ids)
    <3>1. 1 .. k \subseteq 1 .. Len(ids)
      BY <1>1
    <3>2. QED
      BY <1>3, <3>1 DEF Elements
  <2>2. \A m \in Elements(delivered), n \in Elements(page) : m < n
    BY <1>4, <2>1
  <2>3. QED
    BY <1>3, <2>2, AppendOrdered DEF DeliveredUpTo
<1>6. /\ upTo \in Nat /\ upTo >= last
      /\ upTo = 0 \/ upTo \in Elements(delivered) \cup Elements(page)
      /\ Elements(page) = {n \in Elements(ids) : n <= upTo}
  <2>1. CASE k = 0
    BY <1>1, <1>3, <1>4, <2>1 DEF DeliveredUpTo
  <2>2. CASE k # 0
    <3>1. k \in 1 .. k /\ k \in 1 .. Len(ids)
      BY <1>1, <2>2
    <3>2. ids[k] \in Elements(page) /\ ids[k] \in Elements(ids)
      BY <1>3, <3>1 DEF Elements
    <3>3. ASSUME NEW i \in 1 .. Len(ids) PROVE ids[i] <= ids[k] <=> i <= k
      <4>1. /\ i < k => ids[i] < ids[k]
            /\ k < i => ids[k] < ids[i]
        BY <3>1 DEF Ordered
      <4>2. ids[i] \in Nat /\ ids[k] \in Nat /\ i \in Int /\ k \in Int
        BY <1>1, <3>1
      <4>3. QED
        BY <4>1, <4>2
    <3>4. Elements(page) = {n \in Elements(ids) : n <= ids[k]}
      <4>1. \A i \in 1 .. k : i \in 1 .. Len(ids) /\ i <= k
        BY <1>1
      <4>2. \A i \in 1 .. Len(ids) : i <= k => i \in 1 .. k
        BY <1>1
      <4>3. QED
        BY <1>3, <3>3, <4>1, <4>2 DEF Elements
    <3>5. QED
      BY <1>4, <2>2, <3>2, <3>4
  <2>3. QED
    BY <2>1, <2>2
<1>7. Elements(delivered \o page) = {n \in IdsAfter(0) : n <= upTo}
  BY <1>4, <1>5, <1>6
<1>8. IdsAfter(0)' = IdsAfter(0)
  BY DEF IdsAfter
<1>9. delivered' = delivered \o page
  BY DEF page
<1>10. listing' = "more" => token' = upTo
  BY <1>1
<1> HIDE DEF upTo
<1>11. DeliveredUpTo(upTo)'
  <2>1. Ordered(delivered) ' /\ Elements(delivered)' = Elements(delivered \o page)
    BY <1>5, <1>9 DEF Ordered, Elements
  <2>2. QED
    BY <1>5, <1>6, <1>7, <1>8, <1>10, <2>1 DEF DeliveredUpTo
<1>12. QED
  BY <1>6, <1>11 DEF PageInv

\* ListEntries.
LEMMA ListKeepsPages ==
    ASSUME IndInv, PageInv, NEW size \in PageSizes, ListEntries(size)
    PROVE  PageInv'
<1>1. PICK last \in Nat : DeliveredUpTo(last)
  BY DEF PageInv
<1> DEFINE n == ClampPageSize(size)
           ids == InOrder(IdsAfter(token))
           fetched == IF Len(ids) > n + 1 THEN n + 1 ELSE Len(ids)
           rows == SubSeq(ids, 1, fetched)
<1>2. token = last /\ listing = "more"
  BY <1>1 DEF ListEntries, DeliveredUpTo
<1>3. Ordered(ids) /\ Elements(ids) = IdsAfter(last)
  BY <1>2, IdsAreBounded, InOrderLists
<1>4. n \in Nat \ {0}
  BY ReadsAssumption DEF ClampPageSize
<1>5. /\ IF Len(rows) > n
         THEN /\ delivered' = delivered \o SubSeq(rows, 1, n)
              /\ token' = rows[n]
              /\ UNCHANGED listing
         ELSE /\ delivered' = delivered \o rows
              /\ token' = 0
              /\ listing' = "end"
      /\ UNCHANGED entries
  BY DEF ListEntries, vars, tables
<1> HIDE DEF n, ids
<1>6. Len(ids) \in Nat /\ \A i \in 1 .. Len(ids) : ids[i] \in Nat
  BY <1>3, LenProperties, ElementOfSeq DEF Ordered
<1>7. /\ Len(rows) = fetched
      /\ \A i \in 1 .. fetched : rows[i] = ids[i]
  <2>1. fetched \in Nat /\ fetched <= Len(ids)
    BY <1>4, <1>6
  <2> HIDE DEF fetched
  <2>2. \A i \in 1 .. fetched : ids[i] \in Nat
    BY <1>6, <2>1
  <2>3. fetched \in Int /\ 1 \in Int
    BY <2>1
  <2>4. /\ Len(rows) = IF 1 <= fetched THEN fetched - 1 + 1 ELSE 0
        /\ \A i \in 1 .. fetched - 1 + 1 : rows[i] = ids[1 + i - 1]
    BY <2>2, <2>3, SubSeqProperties
  <2> HIDE DEF rows
  <2>5. fetched - 1 + 1 = fetched /\ \A i \in 1 .. fetched : 1 + i - 1 = i
    BY <2>1
  <2>6. ASSUME NEW i \in 1 .. fetched PROVE rows[i] = ids[i]
    BY <2>4, <2>5
  <2>7. QED
    BY <2>1, <2>4, <2>6
<1>8. CASE Len(ids) > n
  <2>1. Len(rows) > n
    BY <1>4, <1>6, <1>7, <1>8
  <2>2. /\ delivered' = delivered \o SubSeq(rows, 1, n)
        /\ token' = rows[n]
    BY <1>5, <2>1
  <2>3. rows[n] = ids[n]
    BY <1>4, <1>6, <1>7, <1>8
  <2>4. SubSeq(rows, 1, n) = SubSeq(ids, 1, n)
    <3>1. \A i \in 1 .. n : rows[i] = ids[i]
      BY <1>4, <1>6, <1>7, <1>8
    <3>2. ASSUME NEW s PROVE SubSeq(s, 1, n) = [i \in 1 .. n |-> s[i]]
      BY <1>4
    <3> HIDE DEF rows
    <3>3. QED
      BY <3>1, <3>2
  <2>5. n \in 0 .. Len(ids) /\ n > 0
    BY <1>4, <1>6, <1>8
  <2>6. QED
    BY <1>1, <1>3, <1>5, <2>2, <2>3, <2>4, <2>5, TakePage
<1>9. CASE ~(Len(ids) > n)
  <2>1. fetched = Len(ids)
    BY <1>4, <1>6, <1>9
  <2>2. ~(Len(rows) > n)
    BY <1>7, <1>9, <2>1
  <2>3. /\ delivered' = delivered \o SubSeq(ids, 1, Len(ids))
        /\ listing' # "more"
    BY <1>5, <2>1, <2>2
  <2>4. Len(ids) \in 0 .. Len(ids)
    BY <1>6
  <2>5. QED
    BY <1>1, <1>3, <1>5, <2>3, <2>4, TakePage
<1>10. QED
  BY <1>8, <1>9

\* Entries that become visible come after all that were.
LEMMA PostsKeepPages ==
    ASSUME IndInv, IndInv', PageInv, [Next]_vars, UNCHANGED readVars
    PROVE  PageInv'
<1>1. PICK last \in Nat : DeliveredUpTo(last)
  BY DEF PageInv
<1>2. delivered' = delivered /\ listing' = listing /\ token' = token
  BY DEF readVars
<1>3. CASE UNCHANGED tables
  BY <1>1, <1>2, <1>3
  DEF PageInv, DeliveredUpTo, Ordered, Elements, IdsAfter, tables
<1>4. ASSUME NEW c \in Call, Commit(c) PROVE PageInv'
  <2>1. entries' = entries \cup pending[c]
    BY <1>4 DEF Commit
  <2>2. \A e \in pending[c], f \in entries :
           PairOf(e.posting) = PairOf(f.posting) => f.id < e.id
    BY DEF IndInv, EntryInv
  <2>3. /\ IdsAfter(0) \subseteq IdsAfter(0)'
        /\ \A n \in IdsAfter(0)' : n \in Nat /\ n > 0
    <3>1. entries' \subseteq Entry'
      BY DEF IndInv, TypeOK
    <3>2. QED
      BY <2>1, <3>1 DEF IdsAfter, Entry
  <2>4. ASSUME NEW n \in IdsAfter(0)', n <= last PROVE n \in IdsAfter(0)
    <3>1. last \in IdsAfter(0)
      BY <1>1, <2>3, <2>4 DEF DeliveredUpTo
    <3>2. PICK f \in entries : PairOf(f.posting) = Listed /\ f.id = last
      BY <3>1 DEF IdsAfter
    <3>3. PICK e \in entries' : PairOf(e.posting) = Listed /\ e.id = n /\ e.id > 0
      BY DEF IdsAfter, PairOf
    <3>4. e \notin pending[c]
      BY <2>2, <2>3, <2>4, <3>2, <3>3
    <3>5. QED
      BY <2>1, <3>3, <3>4 DEF IdsAfter
  <2>5. {n \in IdsAfter(0)' : n <= last} = {n \in IdsAfter(0) : n <= last}
    BY <2>3, <2>4
  <2>6. DeliveredUpTo(last)'
    BY <1>1, <1>2, <2>5 DEF DeliveredUpTo, Ordered, Elements
  <2>7. QED
    BY <2>6 DEF PageInv
<1>5. QED
  BY <1>3, <1>4, OnlyCommitPublishes DEF Publishes

\* With the invariant no page skips or repeats an entry.
LEMMA PageInvSkipsNothing == IndInv /\ PageInv => PagesSkipNothing
<1> SUFFICES ASSUME IndInv, PageInv PROVE PagesSkipNothing
  OBVIOUS
<1>1. PICK last \in Nat : DeliveredUpTo(last)
  BY DEF PageInv
<1> DEFINE seen == {delivered[i] : i \in DOMAIN delivered}
<1>2. seen = Elements(delivered)
  <2>1. DOMAIN delivered = 1 .. Len(delivered)
    BY <1>1, LenProperties DEF DeliveredUpTo, Ordered
  <2>2. QED
    BY <2>1 DEF Elements
<1>3. {n \in IdsAfter(0) : \E m \in seen : n <= m} = Elements(delivered)
  BY <1>1, <1>2, IdsAreBounded DEF DeliveredUpTo
<1>4. delivered = InOrder(Elements(delivered))
  BY <1>1, OrderedIsInOrder DEF DeliveredUpTo
<1>5. QED
  BY <1>3, <1>4 DEF PagesSkipNothing

\* PagesSkipNothing: a page starts after the last id of the page before, and
\* whatever is committed in between has a higher id than what it showed.
THEOREM PagingIsComplete == SpecReads => []PagesSkipNothing
<1>1. InitReads => Init
  BY DEF InitReads
<1>2. [NextReads]_allVars => [Next]_vars
  BY DEF NextReads, Post, ListEntries, FindTransaction, FindPostings, Over,
         Next, allVars
<1>3. ASSUME IndInv, PageInv, [NextReads]_allVars PROVE PageInv'
  <2>1. IndInv' /\ [Next]_vars
    BY <1>2, <1>3, NextIndInv
  <2>2. CASE UNCHANGED readVars
    BY <1>3, <2>1, <2>2, PostsKeepPages
  <2>3. ASSUME NEW n \in PageSizes, ListEntries(n) PROVE PageInv'
    BY <1>3, <2>3, ListKeepsPages
  <2>4. CASE (\E k \in Key : FindTransaction(k)) \/ FindPostings
    <3>1. UNCHANGED <<entries, token, delivered, listing>>
      BY <2>4 DEF FindTransaction, FindPostings, vars, tables
    <3>2. QED
      BY <1>3, <3>1
      DEF PageInv, DeliveredUpTo, Ordered, Elements, IdsAfter
  <2>5. QED
    BY <1>3, <2>2, <2>3, <2>4 DEF NextReads, Post, Over, allVars
<1>4. QED
  BY <1>1, <1>2, <1>3, InitIndInv, NextIndInv, InitPageInv,
     PageInvSkipsNothing, PTL DEF SpecReads

-----------------------------------------------------------------------------
(* Deposits over the handlers.                                             *)

\* The ledger of Wallet is the one that LedgerRefinement maps to.
LEMMA SameLedger ==
    /\ Atomic!Init <=> W!LedgerService!Init
    /\ \A c, r : /\ Atomic!Ask(c, r) <=> W!LedgerService!Ask(c, r)
                 /\ Atomic!Invalid(c, r) <=> W!LedgerService!Invalid(c, r)
    /\ \A c : /\ Atomic!Post(c) <=> W!LedgerService!Post(c)
              /\ Atomic!Acknowledge(c) <=> W!LedgerService!Acknowledge(c)
              /\ Atomic!Refuse(c) <=> W!LedgerService!Refuse(c)
              /\ Atomic!Unsure(c) <=> W!LedgerService!Unsure(c)
    /\ \A C : Atomic!Stop(C) <=> W!LedgerService!Stop(C)
<1>1. \A f : W!LedgerService!SumFunction(f) = Atomic!SumFunction(f)
  BY DEF W!LedgerService!SumFunction, Atomic!SumFunction,
         W!LedgerService!SumFunctionOnSet, Atomic!SumFunctionOnSet,
         W!LedgerService!FoldFunctionOnSet, Atomic!FoldFunctionOnSet,
         W!LedgerService!MapThenFoldSet, Atomic!MapThenFoldSet
<1>2. /\ W!LedgerService!Pair = Atomic!Pair
      /\ W!LedgerService!Int64 = Atomic!Int64
      /\ \A n : W!LedgerService!Wrap(n) = Atomic!Wrap(n)
      /\ \A p : W!LedgerService!PairOf(p) = Atomic!PairOf(p)
  BY DEF W!LedgerService!Pair, Atomic!Pair, W!LedgerService!Int64, Atomic!Int64,
         W!LedgerService!Wrap, Atomic!Wrap, W!LedgerService!PairOf, Atomic!PairOf
<1>3. \A s : W!LedgerService!ExactSum(s) = Atomic!ExactSum(s)
  BY <1>1 DEF W!LedgerService!ExactSum, Atomic!ExactSum
<1>4. \A s : W!LedgerService!Validate(s) <=> Atomic!Validate(s)
  BY <1>2, <1>3 DEF W!LedgerService!Validate, Atomic!Validate
<1>5. \A s, b : W!LedgerService!CheckOverdraft(s, b) <=> Atomic!CheckOverdraft(s, b)
  BY <1>2 DEF W!LedgerService!CheckOverdraft, Atomic!CheckOverdraft
<1>6. \A s, p : W!LedgerService!Delta(s, p) = Atomic!Delta(s, p)
  BY <1>1, <1>2 DEF W!LedgerService!Delta, Atomic!Delta
<1>7. \A s : W!LedgerService!Covered(s) <=> Atomic!Covered(s)
  BY <1>5 DEF W!LedgerService!Covered, Atomic!Covered
<1>8. \A c, a : W!LedgerService!Finish(c, a) <=> Atomic!Finish(c, a)
  BY DEF W!LedgerService!Finish, Atomic!Finish
<1>9. /\ \A t : W!LedgerService!Ok(t) = Atomic!Ok(t)
      /\ \A e : W!LedgerService!Err(e) = Atomic!Err(e)
  BY DEF W!LedgerService!Ok, Atomic!Ok, W!LedgerService!Err, Atomic!Err
<1>10. Atomic!Init <=> W!LedgerService!Init
  BY <1>2, <1>9 DEF W!LedgerService!Init, Atomic!Init
<1>11. \A c, r : /\ Atomic!Ask(c, r) <=> W!LedgerService!Ask(c, r)
                 /\ Atomic!Invalid(c, r) <=> W!LedgerService!Invalid(c, r)
  BY <1>4, <1>9
  DEF W!LedgerService!Ask, Atomic!Ask, W!LedgerService!Invalid, Atomic!Invalid
<1>12. \A c : Atomic!Post(c) <=> W!LedgerService!Post(c)
  BY <1>2, <1>4, <1>6, <1>7 DEF W!LedgerService!Post, Atomic!Post
<1>13. \A c : /\ Atomic!Acknowledge(c) <=> W!LedgerService!Acknowledge(c)
              /\ Atomic!Refuse(c) <=> W!LedgerService!Refuse(c)
              /\ Atomic!Unsure(c) <=> W!LedgerService!Unsure(c)
  BY <1>7, <1>8, <1>9
  DEF W!LedgerService!Acknowledge, Atomic!Acknowledge, W!LedgerService!Refuse,
      Atomic!Refuse, W!LedgerService!Unsure, Atomic!Unsure
<1>14. \A C : Atomic!Stop(C) <=> W!LedgerService!Stop(C)
  BY <1>9 DEF W!LedgerService!Stop, Atomic!Stop
<1>15. QED
  BY <1>10, <1>11, <1>12, <1>13, <1>14

\* What the wallet's handlers sent on was asked for by a client.
HandlerInv ==
    /\ handler \in [Call -> {"new", "resolve", "post", "wait", "done"}]
    /\ deposit \in [Call -> Deposits \cup {None}]
    /\ \A c \in Call :
          handler[c] \in {"resolve", "post"} => deposit[c] \in W!ValidDeposits

\* The steps that could disturb it.
LEMMA NextHandlerInv ==
    ASSUME HandlerInv, [NextBoth]_bothVars
    PROVE  HandlerInv'
<1>1. CASE UNCHANGED walletVars
  BY <1>1 DEF HandlerInv, walletVars
<1>2. ASSUME NEW c \in Call, CallLedger(c)
      PROVE  HandlerInv'
  BY <1>2 DEF CallLedger, HandlerInv, DepositRequests
<1>3. ASSUME NEW c \in Call, NEW d \in Deposits, W!Receive(c, d)
      PROVE  HandlerInv'
  BY <1>3 DEF W!Receive, W!Return, HandlerInv, W!ValidDeposits
<1>4. ASSUME NEW c \in Call,
             W!Resolve(c) \/ W!UnknownUser(c) \/ W!Deliver(c) \/ W!Broken(c)
      PROVE  HandlerInv'
  BY <1>4 DEF W!Resolve, W!UnknownUser, W!Deliver, W!Broken, W!Return, HandlerInv
<1>5. CASE W!Crash
  BY <1>5 DEF W!Crash, HandlerInv
<1>6. CASE \E u \in User : W!Link(u)
  BY <1>6 DEF W!Link, HandlerInv
<1>7. QED
  BY <1>1, <1>2, <1>3, <1>4, <1>5, <1>6
  DEF NextBoth, WalletStep, LedgerStep, FinishedBoth, bothVars

\* The ledger receives one of the requests it is made for.
LEMMA AskedByDeposit ==
    ASSUME Request = DepositRequests, HandlerInv, NEW c \in Call, CallLedger(c)
    PROVE  /\ W!LedgerRequest(c, deposit[c]) \in Request
           /\ Receive(c, W!LedgerRequest(c, deposit[c]))
<1>1. deposit[c] \in W!ValidDeposits
  BY DEF CallLedger, HandlerInv
<1>2. W!LedgerRequest(c, deposit[c]) \in Request
  BY <1>1 DEF DepositRequests
<1>3. QED
  BY <1>2 DEF CallLedger

\* A step of either service is one of the wallet over the atomic ledger, or
\* changes nothing that can be seen of it.
LEMMA BothImplement ==
    ASSUME Request = DepositRequests,
           IndInv, IndInv', BalanceInv, HandlerInv, [NextBoth]_bothVars
    PROVE  [W!Next]_(W!vars)
<1> DEFINE SameWallet == linked' = linked /\ handler' = handler
                         /\ deposit' = deposit /\ result' = result
<1>1. CASE WalletStep
  BY <1>1 DEF WalletStep, W!Next
<1>2. ASSUME NEW c \in Call, CallLedger(c)
      PROVE  W!Next
  <2> DEFINE r == W!LedgerRequest(c, deposit[c])
  <2>1. r \in Request /\ Receive(c, r)
    BY <1>2, AskedByDeposit
  <2>2. W!LedgerService!Ask(c, r) \/ W!LedgerService!Invalid(c, r)
    BY <2>1, ReceiveAsks, SameLedger
  <2>3. W!CallLedger(c)
    BY <1>2, <2>2 DEF CallLedger, W!CallLedger
  <2>4. QED
    BY <2>3 DEF W!Next
<1>3. ASSUME NEW c \in Call, Step(c) \/ Fail(c), SameWallet
      PROVE  [W!Next]_(W!vars)
  <2>1. UNCHANGED W!walletVars
    BY <1>3 DEF W!walletVars
  <2>2. CASE UNCHANGED Atomic!vars
    BY <2>1, <2>2 DEF Atomic!vars, W!vars, W!ledgerVars
  <2>3. CASE Atomic!Post(c)
    BY <2>1, <2>3, SameLedger DEF W!LedgerStep, W!Next
  <2>4. CASE Atomic!Acknowledge(c) \/ Atomic!Refuse(c) \/ Atomic!Unsure(c)
    BY <2>1, <2>4, SameLedger DEF W!LedgerAnswers, W!Next
  <2>5. QED
    BY <1>3, <2>2, <2>3, <2>4, StepImplements
<1>4. CASE Crash /\ SameWallet
  <2>1. UNCHANGED W!walletVars
    BY <1>4 DEF W!walletVars
  <2>2. PICK C \in SUBSET Call : C # {} /\ W!LedgerService!Stop(C)
    BY <1>4, CrashStops, SameLedger
  <2>3. QED
    BY <2>1, <2>2 DEF W!LedgerStep, W!Next
<1>5. CASE UNCHANGED bothVars
  <2>1. UNCHANGED Atomic!vars
    BY <1>5, NextImplements, HiddenStep DEF bothVars, vars, Status
  <2>2. QED
    BY <1>5, <2>1
    DEF bothVars, walletVars, Atomic!vars, W!vars, W!ledgerVars, W!walletVars
<1>6. QED
  BY <1>1, <1>2, <1>3, <1>4, <1>5
  DEF NextBoth, LedgerStep, FinishedBoth, walletVars

\* Of the two services, the ledger does what it does alone.
LEMMA BothRunLedger ==
    ASSUME Request = DepositRequests
    PROVE  SpecBoth => Spec /\ []HandlerInv
<1>1. InitBoth => Init /\ HandlerInv
  BY DEF InitBoth, HandlerInv
<1>2. ASSUME HandlerInv, [NextBoth]_bothVars PROVE [Next]_vars
  <2>1. ASSUME NEW c \in Call, CallLedger(c)
        PROVE  Next
    BY <1>2, <2>1, AskedByDeposit DEF Next, Disturb
  <2>2. QED
    BY <1>2, <2>1
    DEF NextBoth, WalletStep, LedgerStep, FinishedBoth, bothVars, Next, Disturb
<1>3. QED
  BY <1>1, <1>2, NextHandlerInv, PTL DEF SpecBoth, Spec

\* ImplementsWallet: what holds of deposits over the atomic ledger (Wallet and
\* WalletProofs) holds of them over the statements, locks, failures and crashes
\* of the handlers.
THEOREM DepositsRunOnLedger ==
    ASSUME Request = DepositRequests
    PROVE  SpecBoth => ImplementsWallet
<1>1. InitBoth => Init /\ W!Init
  <2> SUFFICES ASSUME InitBoth PROVE Init /\ W!Init
    OBVIOUS
  <2>1. W!LedgerService!Init
    BY InitImplements, SameLedger DEF InitBoth
  <2>2. QED
    BY <2>1 DEF InitBoth, W!Init
<1>2. Init => IndInv /\ RecordInv /\ BalanceInv
  BY InitIndInv, InitRecordInv, InitBalanceInv
<1>3. IndInv /\ RecordInv /\ BalanceInv /\ [Next]_vars
         => IndInv' /\ RecordInv' /\ BalanceInv'
  BY NextIndInv, NextRecordInv, NextBalanceInv
<1>4. IndInv /\ IndInv' /\ BalanceInv /\ HandlerInv /\ [NextBoth]_bothVars
         => [W!Next]_(W!vars)
  BY BothImplement
<1>5. SpecBoth => Spec /\ []HandlerInv
  BY BothRunLedger
<1>6. QED
  BY <1>1, <1>2, <1>3, <1>4, <1>5, PTL
  DEF SpecBoth, Spec, ImplementsWallet, W!Spec

\* WalletProofs speaks of the same wallet, and of the same ledger.
LEMMA SameWalletLedger ==
    /\ W!LedgerService!Init <=> WP!LedgerService!Init
    /\ \A c, r : /\ W!LedgerService!Ask(c, r) <=> WP!LedgerService!Ask(c, r)
                 /\ W!LedgerService!Invalid(c, r) <=> WP!LedgerService!Invalid(c, r)
    /\ \A c : /\ W!LedgerService!Post(c) <=> WP!LedgerService!Post(c)
              /\ W!LedgerService!Acknowledge(c) <=> WP!LedgerService!Acknowledge(c)
              /\ W!LedgerService!Refuse(c) <=> WP!LedgerService!Refuse(c)
              /\ W!LedgerService!Unsure(c) <=> WP!LedgerService!Unsure(c)
    /\ \A C : W!LedgerService!Stop(C) <=> WP!LedgerService!Stop(C)
BY DEF
      W!LedgerService!Pair, WP!LedgerService!Pair, W!LedgerService!Int64,
      WP!LedgerService!Int64, W!LedgerService!Wrap, WP!LedgerService!Wrap,
      W!LedgerService!PairOf, WP!LedgerService!PairOf,
      W!LedgerService!ExactSum, WP!LedgerService!ExactSum,
      W!LedgerService!Validate, WP!LedgerService!Validate,
      W!LedgerService!CheckOverdraft, WP!LedgerService!CheckOverdraft,
      W!LedgerService!Delta, WP!LedgerService!Delta, W!LedgerService!Covered,
      WP!LedgerService!Covered, W!LedgerService!SumFunction,
      WP!LedgerService!SumFunction, W!LedgerService!SumFunctionOnSet,
      WP!LedgerService!SumFunctionOnSet, W!LedgerService!FoldFunctionOnSet,
      WP!LedgerService!FoldFunctionOnSet, W!LedgerService!MapThenFoldSet,
      WP!LedgerService!MapThenFoldSet, W!LedgerService!Ok, WP!LedgerService!Ok,
      W!LedgerService!Err, WP!LedgerService!Err, W!LedgerService!Finish,
      WP!LedgerService!Finish, W!LedgerService!Init, WP!LedgerService!Init,
      W!LedgerService!Ask, WP!LedgerService!Ask, W!LedgerService!Invalid,
      WP!LedgerService!Invalid, W!LedgerService!Post, WP!LedgerService!Post,
      W!LedgerService!Acknowledge, WP!LedgerService!Acknowledge,
      W!LedgerService!Refuse, WP!LedgerService!Refuse, W!LedgerService!Unsure,
      WP!LedgerService!Unsure, W!LedgerService!Stop, WP!LedgerService!Stop

\* The steps of both are the same.
LEMMA SameWallet ==
    /\ W!Init => WP!Init
    /\ [W!Next]_(W!vars) => [WP!Next]_(WP!vars)
<1>1. W!Init => WP!Init
  BY SameWalletLedger DEF W!Init, WP!Init, W!NoResult, WP!NoResult
<1>2. [W!Next]_(W!vars) => [WP!Next]_(WP!vars)
  BY SameWalletLedger DEF
      W!LedgerRequest, WP!LedgerRequest, W!Postings, WP!Postings, W!NoResult,
      WP!NoResult, W!Result, WP!Result, W!Return, WP!Return, W!Link, WP!Link,
      W!ValidDeposits, WP!ValidDeposits, W!Receive, WP!Receive, W!Resolve, WP!Resolve, W!UnknownUser,
      WP!UnknownUser, W!CallLedger, WP!CallLedger, W!MapDownstreamError,
      WP!MapDownstreamError, W!Deliver, WP!Deliver, W!Broken, WP!Broken,
      W!Crash, WP!Crash, W!LedgerAnswers, WP!LedgerAnswers, W!LedgerStep,
      WP!LedgerStep, W!Finished, WP!Finished, W!Next, WP!Next, W!ledgerVars,
      WP!ledgerVars, W!walletVars, WP!walletVars, W!vars, WP!vars
<1>3. QED
  BY <1>1, <1>2

\* The wallet is the ledger's only client.
DepositsOnly ==
    /\ W!WalletAssumption
    /\ Request = DepositRequests

\* Each deposit has a key of its own.
OwnKeys == \A d, e \in Deposits : d.key = e.key => d = e

\* Deposits over the handlers of both services are deposits of WalletProofs.
LEMMA DepositsAreProved == ASSUME DepositsOnly PROVE SpecBoth => WP!Spec
<1>1. W!Init => WP!Init
  BY SameWallet
<1>2. [W!Next]_(W!vars) => [WP!Next]_(WP!vars)
  BY SameWallet
<1>3. SpecBoth => ImplementsWallet
  BY DepositsRunOnLedger DEF DepositsOnly
<1>4. QED
  BY <1>1, <1>2, <1>3, PTL DEF ImplementsWallet, W!Spec, WP!Spec

\* OnlyLinkedUsersAreCredited, over the statements of the ledger: no balance row
\* of a user is written before the user is linked.
THEOREM LedgerCreditsFollowRegistration ==
    ASSUME DepositsOnly PROVE SpecBoth => []W!OnlyLinkedUsersAreCredited
<1>1. WP!DomainAssumption /\ WP!WalletAssumption
  BY DomainAssumption
  DEF DepositsOnly, WP!DomainAssumption, W!WalletAssumption, WP!WalletAssumption,
      W!Int64, WP!Int64
<1>2. WP!Spec => []WP!OnlyLinkedUsersAreCredited
  BY <1>1, WP!CreditsFollowRegistration
<1>3. WP!OnlyLinkedUsersAreCredited => W!OnlyLinkedUsersAreCredited
  BY DEF WP!OnlyLinkedUsersAreCredited, W!OnlyLinkedUsersAreCredited
<1>4. SpecBoth => WP!Spec
  BY DepositsAreProved
<1>5. QED
  BY <1>2, <1>3, <1>4, PTL

\* EachDepositCreditedOnce, over the statements of the ledger: what MySQL holds
\* for a user is at least the deposits confirmed and at most those asked for,
\* whatever failed, crashed, raced or was retried on the way.
THEOREM LedgerCreditsEachDepositOnce ==
    ASSUME DepositsOnly, OwnKeys, IsFiniteSet(Call)
    PROVE  SpecBoth => []W!EachDepositCreditedOnce
<1>1. /\ WP!DomainAssumption /\ WP!WalletAssumption
      /\ WP!UniqueKeys /\ WP!IsFiniteSet(Call)
  BY DomainAssumption
  DEF DepositsOnly, WP!DomainAssumption, W!WalletAssumption, WP!WalletAssumption,
      W!Int64, WP!Int64, OwnKeys, WP!UniqueKeys, WP!IsFiniteSet, IsFiniteSet
<1>2. WP!Spec => []WP!EachDepositCreditedOnce
  BY <1>1, WP!DepositsAreCreditedOnce
<1>3. WP!EachDepositCreditedOnce => W!EachDepositCreditedOnce
  BY DEF WP!EachDepositCreditedOnce, W!EachDepositCreditedOnce,
         WP!Total, W!Total, WP!Confirmed, W!Confirmed, WP!Asked, W!Asked,
         WP!SumFunction, W!SumFunction, WP!SumFunctionOnSet, W!SumFunctionOnSet,
         WP!FoldFunctionOnSet, W!FoldFunctionOnSet,
         WP!MapThenFoldSet, W!MapThenFoldSet
<1>4. SpecBoth => WP!Spec
  BY DepositsAreProved
<1>5. QED
  BY <1>2, <1>3, <1>4, PTL

\* ConfirmedDepositIsPosted, over the statements of the ledger, when keys are not
\* shared.
THEOREM LedgerPostsConfirmedDeposits ==
    ASSUME DepositsOnly, OwnKeys
    PROVE  SpecBoth => []ConfirmedDepositIsPosted
<1>1. WP!DomainAssumption /\ WP!WalletAssumption /\ WP!UniqueKeys
  BY DomainAssumption
  DEF DepositsOnly, WP!DomainAssumption, W!WalletAssumption, WP!WalletAssumption,
      W!Int64, WP!Int64, OwnKeys, WP!UniqueKeys
<1>2. WP!Spec => []WP!ConfirmedDepositIsPosted
  BY <1>1, WP!ConfirmedDepositsArePosted
<1>3. WP!ConfirmedDepositIsPosted => ConfirmedDepositIsPosted
  BY DEF ConfirmedDepositIsPosted, WP!ConfirmedDepositIsPosted,
         W!ConfirmedDepositIsPosted, WP!Postings, W!Postings
<1>4. SpecBoth => WP!Spec
  BY DepositsAreProved
<1>5. QED
  BY <1>2, <1>3, <1>4, PTL

\* What a deposit posts: an amount taken from one account and given to another.
LEMMA DepositPostings ==
    ASSUME DepositsOnly, NEW r \in Request
    PROVE  \E from \in Account, to \in Account, n \in Int64 :
              /\ from # to /\ n > 0 /\ -n \in Int64
              /\ r.postings = <<[account |-> from, asset |-> BTC, amount |-> -n],
                                [account |-> to, asset |-> BTC, amount |-> n]>>
<1>1. PICK c \in Call, d \in W!ValidDeposits : r = W!LedgerRequest(c, d)
  BY DEF DepositsOnly, DepositRequests
<1>2. /\ d.user \in User /\ d.amount \in Int64 /\ d.amount > 0
      /\ User \subseteq Account \ Exempt /\ External \in Exempt
      /\ Exempt \subseteq Account
  BY <1>1, DomainAssumption
  DEF DepositsOnly, W!WalletAssumption, W!ValidDeposits, W!Int64, Int64
<1>3. -d.amount \in Int64
  BY <1>2, DomainAssumption DEF Int64
<1>4. r.postings = <<[account |-> External, asset |-> BTC, amount |-> -d.amount],
                     [account |-> d.user, asset |-> BTC, amount |-> d.amount]>>
  BY <1>1 DEF W!LedgerRequest, W!Postings
<1>5. External # d.user /\ External \in Account /\ d.user \in Account
  BY <1>2
<1>6. QED
  BY <1>2, <1>3, <1>4, <1>5

\* The sum over two elements.
LEMMA SumOverTwo ==
    ASSUME NEW f, f[1] \in Int, f[2] \in Int
    PROVE  SumOver(f, {1, 2}) = f[1] + f[2]
<1>1. IntegersOn(f, {} \cup {1})
  BY FS_EmptySet, FS_AddElement DEF IntegersOn
<1>2. IntegersOn(f, {1} \cup {2})
  BY <1>1, FS_AddElement DEF IntegersOn
<1>3. SumOver(f, {} \cup {1}) = f[1] + SumOver(f, {})
  BY <1>1, SumOverInsert
<1>4. 2 \notin {1}
  OBVIOUS
<1>5. SumOver(f, {1} \cup {2}) = f[2] + SumOver(f, {1})
  BY <1>2, <1>4, SumOverInsert
<1>6. SumOver(f, {}) = 0
  BY SumOverEmpty
<1>7. {} \cup {1} = {1} /\ {1} \cup {2} = {1, 2}
  OBVIOUS
<1>8. QED
  BY <1>3, <1>5, <1>6, <1>7

\* No sum over such a pair of postings leaves int64.
LEMMA DepositsFit == ASSUME DepositsOnly PROVE TotalsFit
<1> SUFFICES ASSUME NEW r \in Request
             PROVE  /\ ExactSum(r.postings) \in Int64
                    /\ \A p \in Pair :
                          SumUpTo(r.postings, Len(r.postings), p) \in Int64
  BY DEF TotalsFit, SumsFit
<1>1. PICK from \in Account, to \in Account, n \in Int64 :
        /\ from # to /\ n > 0 /\ -n \in Int64
        /\ r.postings = <<[account |-> from, asset |-> BTC, amount |-> -n],
                          [account |-> to, asset |-> BTC, amount |-> n]>>
  BY DepositPostings
<1> DEFINE s == r.postings
<1>2. /\ s \in Seq(Posting) /\ Len(s) = 2 /\ DOMAIN s = {1, 2}
      /\ s[1].amount = -n /\ s[2].amount = n
      /\ PairOf(s[1]) # PairOf(s[2])
      /\ n \in Int
  <2>1. r \in [key : Key, postings : Seq(Posting)]
    BY LedgerAssumption
  <2>2. n \in Int
    BY DomainAssumption DEF Int64
  <2>3. /\ s[1] = [account |-> from, asset |-> BTC, amount |-> -n]
        /\ s[2] = [account |-> to, asset |-> BTC, amount |-> n]
        /\ Len(s) = 2
    BY <1>1
  <2>4. PairOf(s[1]) # PairOf(s[2])
    BY <1>1, <2>3 DEF PairOf
  <2>5. s \in Seq(Posting)
    BY <2>1
  <2> HIDE DEF s
  <2>6. DOMAIN s = {1, 2}
    BY <2>3, <2>5
  <2>7. QED
    BY <2>2, <2>3, <2>4, <2>5, <2>6
<1> HIDE DEF s
<1>3. ExactSum(s) = 0
  <2> DEFINE f == Amounts(s)
  <2>1. f[1] = -n /\ f[2] = n /\ f = [i \in {1, 2} |-> s[i].amount]
    BY <1>2 DEF Amounts
  <2>2. ExactSum(s) = SumOver(f, {1, 2})
    BY <1>2, <2>1 DEF ExactSum, SumOver, Part
  <2> HIDE DEF f
  <2>3. SumOver(f, {1, 2}) = f[1] + f[2]
    BY <1>2, <2>1, SumOverTwo
  <2>4. QED
    BY <1>2, <2>1, <2>2, <2>3
<1>4. ASSUME NEW p \in Pair PROVE SumUpTo(s, 2, p) \in {0, -n, n}
  <2>1. SumUpTo(s, 0, p) = 0
    <3>1. PostingsAt(s, 0, p) = {}
      BY <1>2 DEF PostingsAt
    <3>2. QED
      BY <3>1, SumOverEmpty DEF SumUpTo
  <2>2. SumUpTo(s, 1, p) = SumUpTo(s, 1 - 1, p)
                             + (IF PairOf(s[1]) = p THEN s[1].amount ELSE 0)
    BY <1>2, SumUpToNext
  <2>3. SumUpTo(s, 2, p) = SumUpTo(s, 2 - 1, p)
                             + (IF PairOf(s[2]) = p THEN s[2].amount ELSE 0)
    BY <1>2, SumUpToNext
  <2>4. QED
    BY <1>2, <2>1, <2>2, <2>3
<1>5. QED
  BY <1>1, <1>2, <1>3, <1>4, ZeroIsInt64 DEF s

\* With the wallet as its only client the ledger keeps its books exactly: no
\* balance of a user is negative, the balances add up to zero as integers, and so
\* does each transaction. What ledger_debited_twice and ledger_credits_only find
\* takes other requests.
THEOREM DepositsKeepBooks ==
    ASSUME DepositsOnly, IsFiniteSet(Account)
    PROVE  SpecBoth => [](NoOverdraft /\ ExactBooks /\ PostingsSumToZero)
<1>1. SpecBoth => Spec
  BY BothRunLedger DEF DepositsOnly
<1>2. \A r \in Request : NamesOnce(r.postings)
  <2> SUFFICES ASSUME NEW r \in Request PROVE NamesOnce(r.postings)
    OBVIOUS
  <2>1. PICK from \in Account, to \in Account, n \in Int64 :
        /\ from # to
        /\ r.postings = <<[account |-> from, asset |-> BTC, amount |-> -n],
                          [account |-> to, asset |-> BTC, amount |-> n]>>
    BY DepositPostings
  <2>2. DOMAIN r.postings = 1 .. 2
    BY <2>1
  <2>3. QED
    BY <2>1, <2>2 DEF NamesOnce
<1>3. Spec => []NoOverdraft
  BY <1>2, NoAccountOverdrawn
<1>4. Spec => [](ExactBooks /\ PostingsSumToZero)
  BY DepositsFit, MoneyIsConservedExactly
<1>5. QED
  BY <1>1, <1>3, <1>4, PTL

=============================================================================
