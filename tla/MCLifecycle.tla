----------------------------- MODULE MCLifecycle -----------------------------
(***************************************************************************)
(* An instance of Lifecycle for TLC: more handlers than connections.       *)
(***************************************************************************)
EXTENDS Lifecycle

CONSTANTS r1, r2, r3

=============================================================================
