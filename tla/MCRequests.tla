----------------------------- MODULE MCRequests -----------------------------
(***************************************************************************)
(* Requests for the instances of Ledger: account 0 is "external:deposits"  *)
(* (it sorts before the users' ids here), accounts 1 and 2 are Alice and   *)
(* Bob.                                                                    *)
(***************************************************************************)
EXTENDS Integers

\* A request moving amount n from account a to account b in asset 1.
Move(key, a, b, n) ==
    [key      |-> key,
     postings |-> <<[account |-> a, asset |-> 1, amount |-> -n],
                    [account |-> b, asset |-> 1, amount |-> n]>>]

\* A deposit of 2 from a to b in two postings of one.
Parts(key, a, b) ==
    [key      |-> key,
     postings |-> <<[account |-> b, asset |-> 1, amount |-> 1],
                    [account |-> a, asset |-> 1, amount |-> -2],
                    [account |-> b, asset |-> 1, amount |-> 1]>>]

=============================================================================
