-------------------------- MODULE LedgerRefinement --------------------------
(***************************************************************************)
(* Ledger implements AtomicLedger: a call posts when its COMMIT takes      *)
(* effect, and is refused when CheckOverdraft runs, with its rows locked.  *)
(***************************************************************************)
EXTENDS Ledger

\* A committed transaction with the postings of the request it came from.
PostedTransactions ==
    {[id |-> t.id, key |-> t.key, postings |-> request[t.id].postings] :
        t \in transactions}

Status(c) ==
    IF pc[c] = "new" THEN "idle" ELSE IF pc[c] = "done" THEN "done" ELSE "busy"

Atomic == INSTANCE AtomicLedger WITH
    posted <- PostedTransactions,
    funds  <- [p \in Pair |-> GetBalance(p)],
    status <- [c \in Call |-> Status(c)]

\* Every behaviour of the handlers and the database is one of the atomic
\* ledger's: concurrent postings take effect one at a time, each against the
\* balances the ones before it left, and no answer contradicts that order.
ImplementsAtomicLedger == Atomic!Spec

=============================================================================
