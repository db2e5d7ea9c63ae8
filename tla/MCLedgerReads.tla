---------------------------- MODULE MCLedgerReads ----------------------------
(***************************************************************************)
(* An instance of LedgerReads for TLC: deposits to account 1 raced by a    *)
(* client that lists its entries.                                          *)
(***************************************************************************)
EXTENDS LedgerReads, TLC

CONSTANTS c1, c2, c3

Symmetry == Permutations(Call)

\* Moves n from account a to account b in asset 1.
Move(key, a, b, n) ==
    [key      |-> key,
     postings |-> <<[account |-> a, asset |-> 1, amount |-> -n],
                    [account |-> b, asset |-> 1, amount |-> n]>>]

Deposits == {Move("k1", 0, 1, 1), Move("k2", 0, 1, 2), Move("k3", 0, 1, 1)}

AccountOne == <<1, 1>>

\* Nobody pages in sizes of the code's 50 and 100 here: 1 and 2 stand for them.
Sizes == {0, 1, 5}

=============================================================================
