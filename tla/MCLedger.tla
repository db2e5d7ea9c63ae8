------------------------------ MODULE MCLedger ------------------------------
(***************************************************************************)
(* Instances of Ledger for TLC.                                            *)
(***************************************************************************)
EXTENDS LedgerRefinement, LedgerInvariant, MCRequests, TLC

CONSTANTS c1, c2, c3

Symmetry == Permutations(Call)

\* Deposits, payments and withdrawals, none debiting an account twice.  Three
\* keys are shared by two or three requests each; two withdrawals of 2 race for
\* Alice's 3.  With Half = 4 a second deposit takes "external:deposits" below
\* the smallest balance.  The transfer of "external:deposits" to itself shares
\* its key, but no row, with a payment: one INSERT waits for the other's key.
Transfers ==
    {Move("k1", 0, 1, 3), Move("k1", 1, 2, 3), Move("k2", 1, 0, 2),
     Parts("k2", 0, 2), Move("k3", 2, 1, 2), Move("k3", 1, 0, 2),
     Move("", 0, 1, 1), Move("k3", 0, 0, 1)}

\* Opposite payments and deposits that start with no balance row at all: gaps
\* and rows are locked in every order the handlers can reach.
Crossing == {Move("k1", 0, 1, 1), Move("k2", 1, 2, 1), Move("k2", 2, 1, 1)}

\* A deposit of 3, and a payment of 3 twice over by the same account.
DebitedTwice ==
    {Move("k1", 0, 1, 3),
     [key      |-> "k2",
      postings |-> <<[account |-> 1, asset |-> 1, amount |-> -3],
                     [account |-> 1, asset |-> 1, amount |-> -3],
                     [account |-> 2, asset |-> 1, amount |-> 6]>>]}

\* Credits only: with Half = 4 the sum 8 of these postings is 2^w.
CreditsOnly ==
    {[key      |-> "k1",
      postings |-> [a \in 1 .. 4 |-> [account |-> a, asset |-> 1,
                                      amount |-> 2]]],
     Move("k2", 0, 1, 1)}

\* A deposit, and a payment that empties the account and is retried.
Retried == {Move("k1", 0, 1, 3), Move("k2", 1, 2, 3)}

=============================================================================
