------------------------------ MODULE MCAccounts ------------------------------
(***************************************************************************)
(* Instances of Accounts for TLC.                                          *)
(***************************************************************************)
EXTENDS AccountsInvariant

CONSTANTS c1, c2, c3

\* Retries, two keys for one email, two emails for one key, and a request
\* that does not validate.
Registrations ==
    {[key |-> "k1", email |-> "a"], [key |-> "k2", email |-> "a"],
     [key |-> "k1", email |-> "b"], [key |-> "k2", email |-> "b"],
     [key |-> "", email |-> "a"], [key |-> "k1", email |-> "no at"]}

\* One registration and its retries.
Retries == {[key |-> "k1", email |-> "a"]}

=============================================================================
