--------------------------- MODULE MCWalletOnLedger ---------------------------
(***************************************************************************)
(* Instances of WalletOnLedger for TLC.                                    *)
(***************************************************************************)
EXTENDS WalletOnLedger, TLC

CONSTANTS c1, c2, c3

Symmetry == Permutations(Call)

Ask(key, user, amount) == [key |-> key, user |-> user, amount |-> amount]

\* One key for deposits to two users.
SharedKey == {Ask("k1", 1, 2), Ask("k1", 2, 2)}

=============================================================================
