------------------------------- MODULE MCWallet -------------------------------
(***************************************************************************)
(* Instances of Wallet for TLC.                                            *)
(***************************************************************************)
EXTENDS Wallet, TLC

CONSTANTS c1, c2, c3

Symmetry == Permutations(Call)

Ask(key, user, amount) == [key |-> key, user |-> user, amount |-> amount]

\* A deposit with a key of its own for each user, and two that are refused.  With
\* Half = 8 both together take "external:deposits" below the smallest balance.
OneKeyEach ==
    {Ask("k1", 1, 3), Ask("k2", 2, 6), Ask("", 1, 1), Ask("k3", None, 1)}

=============================================================================
