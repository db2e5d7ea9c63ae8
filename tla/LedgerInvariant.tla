-------------------------- MODULE LedgerInvariant --------------------------
(***************************************************************************)
(* The inductive invariant behind the safety properties of Ledger: what    *)
(* holds at every statement of every handler, whatever the others do.      *)
(***************************************************************************)
EXTENDS Ledger

\* The statements between the first SELECT ... FOR UPDATE and COMMIT.
Locking  == {"lock", "insertRow"}
Locked   == {"check", "entries", "update", "commit"}
Inserted == {"entries", "update", "commit"}

\* The pairs of its request that call c has locked.
PairsLocked(c) ==
    IF pc[c] \in Locked THEN PairsOfCall(c)
    ELSE IF pc[c] \in Locking THEN PairsOfCall(c) \ todo[c]
    ELSE {}

\* A call past Receive carries a request, a valid one while it is open, and
\* has no answer before it is done.
RequestInv(c) ==
    /\ pc[c] # "new" => request[c] \in Request
    /\ pc[c] # "done" => answer[c] = NoAnswer
    /\ pc[c] \notin {"new", "done"} => Validate(request[c].postings)

\* What is left of a loop over the pairs.
TodoInv(c) ==
    IF pc[c] \in Locking \cup {"update"} THEN todo[c] \subseteq PairsOfCall(c)
                                         ELSE todo[c] = {}

\* A handler holds the locks it has taken until the end, and has written
\* nothing outside them.
LockInv(c) ==
    /\ \A p \in PairsLocked(c) : lock[p] = c
    /\ \A p \in Pair : written[c][p] # None => p \in PairsLocked(c)
    /\ \A p \in Pair : lock[p] = c => balance[p] # None \/ written[c][p] # None

\* The balances read are the committed ones.
ReadInv(c) == \A p \in PairsLocked(c) : balances[c][p[1]] = GetBalance(p)

\* From its INSERT to its COMMIT a transaction's key belongs to it alone.
KeyInv(c) ==
    HoldsKey(c) =>
        /\ \A t \in transactions : t.key # request[c].key
        /\ \A d \in Call \ {c} : HoldsKey(d) => request[d].key # request[c].key

\* A committed transaction was posted by the call it is named after, and a
\* call past its COMMIT has one.
TransactionInv ==
    /\ \A t \in transactions :
          /\ pc[t.id] \in {"reply", "done"}
          /\ t.key = request[t.id].key
    /\ \A c \in Call : pc[c] = "reply" =>
          [id |-> c, key |-> request[c].key] \in transactions

\* Entry ids are handed out in order, to entries of locked pairs.
EntryInv ==
    /\ \A f \in entries : f.id < nextEntry
    /\ \A c \in Call : \A e \in pending[c] :
          /\ e.id < nextEntry
          /\ pc[c] \in Inserted
          /\ PairOf(e.posting) \in PairsOfCall(c)
          /\ \A f \in entries : PairOf(e.posting) = PairOf(f.posting)
                                   => f.id < e.id

\* The loop over the postings stays inside them.
IndexInv(c) == pc[c] = "entries" => index[c] \in DOMAIN request[c].postings

\* Entries are inserted for approved postings only, from the first one on.
LoopInv(c) ==
    IF pc[c] \in Inserted
    THEN CheckOverdraft(request[c].postings, balances[c])
    ELSE index[c] = 1 /\ deltas[c] = [p \in Pair |-> 0]

\* Each account is named by one posting.
NamesOnce(postings) ==
    \A i, j \in DOMAIN postings :
        postings[i].account = postings[j].account => i = j

\* The postings of call c whose entries are inserted.
Aggregated(c) ==
    IF pc[c] = "entries" THEN 1 .. index[c] - 1
    ELSE IF pc[c] \in {"update", "commit"} THEN DOMAIN request[c].postings
    ELSE {}

\* With each account named once, a delta is the amount of the one posting,
\* and what is written is the balance the overdraft check has approved.
DeltaInv(c) ==
    NamesOnce(request[c].postings) =>
        /\ \A i \in Aggregated(c) :
              deltas[c][PairOf(request[c].postings[i])] =
                  request[c].postings[i].amount
        /\ pc[c] = "entries" =>
              \A i \in DOMAIN request[c].postings \ Aggregated(c) :
                 deltas[c][PairOf(request[c].postings[i])] = 0

WrittenInv(c) ==
    \A p \in Pair : written[c][p] # None =>
        IF pc[c] \in {"update", "commit"} /\ p \notin todo[c]
        THEN written[c][p] = GetBalance(p) + deltas[c][p]
        ELSE written[c][p] = 0 /\ balance[p] = None

IndInv ==
    /\ TypeOK
    /\ TransactionInv
    /\ EntryInv
    /\ AnswersAreTrue
    /\ \A c \in Call :
          /\ RequestInv(c)
          /\ TodoInv(c)
          /\ LockInv(c)
          /\ ReadInv(c)
          /\ KeyInv(c)
          /\ IndexInv(c)
          /\ LoopInv(c)
          /\ pc[c] \in Inserted => DeltaInv(c)
          /\ WrittenInv(c)

-----------------------------------------------------------------------------
(* What the waiting calls wait for.                                        *)

\* What the loop over the pairs has passed comes before what it has not.
SortedInv(c) ==
    pc[c] \in Locking =>
        \A p \in PairsOfCall(c) \ todo[c], q \in todo[c] : Before(p, q)

\* A call holds no lock but those of the pairs it has passed.
HeldInv(c) == \A p \in Pair : lock[p] = c => p \in PairsLocked(c)

OrderInv == \A c \in Call : SortedInv(c) /\ HeldInv(c)

\* Gaps are held inside the database transaction only, a loop over the pairs
\* has one to visit, and the row a call is about to insert stays missing: the
\* call has locked its gap.
GapInv(c) ==
    /\ gaps[c] # {} => pc[c] \in Locking \cup Locked
    /\ pc[c] \in Locking \cup {"update"} => todo[c] # {}
    /\ pc[c] = "insertRow" =>
          \A p \in todo[c] : IsFirst(p, todo[c]) => p \in gaps[c] /\ ~Present(p)

WaitInv == \A c \in Call : GapInv(c)

=============================================================================
