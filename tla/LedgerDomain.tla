---------------------------- MODULE LedgerDomain ----------------------------
(***************************************************************************)
(* The ledger's domain: accounts, amounts, postings and the two pure       *)
(* checks of internal/ledger/validate.go.  Nothing here has state.         *)
(*                                                                         *)
(* Accounts and assets are integers standing for the strings of the code:  *)
(* their order is the byte order in which Go sorts the strings.            *)
(***************************************************************************)
EXTENDS Integers, Sequences, Functions

CONSTANTS
    Account,      \* account ids, as positions in Go's string order
    Exempt,       \* the accounts whose id starts with "external:"
    Asset,        \* asset codes, as positions in Go's string order
    Half          \* 2^63 in the code: amounts are -Half .. Half-1

ASSUME DomainAssumption ==
    /\ Account \subseteq Int
    /\ Exempt \subseteq Account
    /\ Asset \subseteq Int
    /\ Half \in Nat \ {0}

-----------------------------------------------------------------------------

\* The values of Go's int64, of Amount and of MySQL's BIGINT.
Int64 == -Half .. Half - 1

\* Go's int64 arithmetic keeps the low 64 bits.
Wrap(n) == ((n + Half) % (2 * Half)) - Half

Posting == [account : Account, asset : Asset, amount : Int64]

\* ledger_balances has one row per (account, asset).
Pair == Account \X Asset

PairOf(p) == <<p.account, p.asset>>

PairsOf(postings) == {PairOf(postings[i]) : i \in DOMAIN postings}

\* The order sort.Slice puts the pairs in.
Before(p, q) == p[1] < q[1] \/ (p[1] = q[1] /\ p[2] < q[2])

\* Mutant: the loop goes through the pairs in no particular order.
IsAny(p, S) == p \in S

\* p is the pair a loop over the sorted pairs reaches next.
IsFirst(p, S) == p \in S /\ \A q \in S \ {p} : Before(p, q)

\* The sum of the amounts, before it is cut to 64 bits.
ExactSum(postings) ==
    SumFunction([i \in DOMAIN postings |-> postings[i].amount])

\* Transaction.Validate: `sum += p.Amount` is an int64 addition.
Validate(postings) ==
    /\ Len(postings) >= 2
    /\ \A i \in DOMAIN postings : postings[i].amount # 0
    /\ \A i \in DOMAIN postings : postings[i].asset = postings[1].asset
    /\ Wrap(ExactSum(postings)) = 0

\* Transaction.CheckOverdraft, with balances covering every account of the
\* postings: each posting alone is compared with the balance read.
CheckOverdraft(postings, balances) ==
    \A i \in DOMAIN postings :
        LET p == postings[i] IN
        p.account \in Exempt \/ Wrap(balances[p.account] + p.amount) >= 0

=============================================================================
