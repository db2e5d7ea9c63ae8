---------------------------- MODULE AtomicLedger ----------------------------
(***************************************************************************)
(* What the ledger service promises its clients (proto/ledger/v1 and the   *)
(* comments of internal/ledger/repository.go), without transactions, locks *)
(* or statements: a posting happens at one instant between its request and *)
(* its answer, against the balances of that instant.                       *)
(***************************************************************************)
EXTENDS LedgerDomain

CONSTANTS Call, Key, Request, None

VARIABLES
    posted,       \* transactions: [id, key, postings]
    funds,        \* balance of every pair
    status,       \* "idle", "busy" or "done" for each call
    request,
    answer

vars == <<posted, funds, status, request, answer>>

Ok(t)  == [code |-> "OK", tx |-> t]
Err(e) == [code |-> e, tx |-> None]

\* The change a transaction makes to the balance of a pair.
Delta(postings, p) ==
    Wrap(SumFunction([i \in {j \in DOMAIN postings : PairOf(postings[j]) = p}
                          |-> postings[i].amount]))

\* The postings pass CheckOverdraft against the balances of this instant.
Covered(postings) ==
    CheckOverdraft(postings, [a \in Account |->
                                  funds[<<a, postings[1].asset>>]])

-----------------------------------------------------------------------------

Init ==
    /\ posted = {}
    /\ funds = [p \in Pair |-> 0]
    /\ status = [c \in Call |-> "idle"]
    /\ request = [c \in Call |-> None]
    /\ answer = [c \in Call |-> Err("none")]

Ask(c, r) ==
    /\ status[c] = "idle"
    /\ request' = [request EXCEPT ![c] = r]
    /\ status' = [status EXCEPT ![c] = "busy"]
    /\ UNCHANGED <<posted, funds, answer>>

\* A request that is not a balanced transaction is refused on the spot.
Invalid(c, r) ==
    /\ status[c] = "idle"
    /\ r.key = "" \/ ~Validate(r.postings)
    /\ request' = [request EXCEPT ![c] = r]
    /\ status' = [status EXCEPT ![c] = "done"]
    /\ answer' = [answer EXCEPT ![c] = Err("InvalidArgument")]
    /\ UNCHANGED <<posted, funds>>

\* The instant of the posting: a new key, and every posting covered.
Post(c) ==
    LET r == request[c] IN
    /\ status[c] = "busy"
    /\ \A t \in posted : t.key # r.key
    /\ Validate(r.postings)
    /\ Covered(r.postings)
    /\ posted' = posted \cup
                   {[id |-> c, key |-> r.key, postings |-> r.postings]}
    /\ funds' = [p \in Pair |-> funds[p] + Delta(r.postings, p)]
    /\ \A p \in Pair : funds'[p] \in Int64
    /\ UNCHANGED <<status, request, answer>>

Finish(c, a) ==
    /\ status[c] = "busy"
    /\ status' = [status EXCEPT ![c] = "done"]
    /\ answer' = [answer EXCEPT ![c] = a]
    /\ UNCHANGED <<posted, funds, request>>

\* OK names the one transaction that has the key, the caller's or not.
Acknowledge(c) ==
    /\ status[c] = "busy"
    /\ \E t \in posted : t.key = request[c].key /\ Finish(c, Ok(t.id))

\* A refusal is justified by the balances of this instant, and posts nothing.
Refuse(c) ==
    /\ status[c] = "busy"
    /\ ~Covered(request[c].postings)
    /\ \A t \in posted : t.id # c
    /\ Finish(c, Err("FailedPrecondition"))

\* An internal error leaves the caller not knowing whether it was posted.
Unsure(c) == Finish(c, Err("Internal"))

\* The service stops: some calls are never answered.
Stop(C) ==
    /\ \A c \in C : status[c] = "busy"
    /\ status' = [c \in Call |-> IF c \in C THEN "done" ELSE status[c]]
    /\ answer' = [c \in Call |-> IF c \in C THEN Err("Lost") ELSE answer[c]]
    /\ UNCHANGED <<posted, funds, request>>

Next ==
    \/ \E c \in Call :
          \/ \E r \in Request : Ask(c, r) \/ Invalid(c, r)
          \/ Post(c)
          \/ Acknowledge(c)
          \/ Refuse(c)
          \/ Unsure(c)
    \/ \E C \in SUBSET Call : Stop(C)

Spec == Init /\ [][Next]_vars

=============================================================================
