-------------------------- MODULE MCLedgerTelemetry --------------------------
(***************************************************************************)
(* An instance of LedgerTelemetry for TLC.                                 *)
(***************************************************************************)
EXTENDS LedgerTelemetry, MCRequests

CONSTANTS c1, c2, c3

\* Two deposits that name their accounts in opposite orders, over rows that do
\* not exist yet.  With Half = 3 the smaller one is refused after the larger
\* one, because 2 + 1 wraps; the larger one after the smaller one passes the
\* check and fails in its UPDATE.
Opposite == {Move("k1", 0, 1, 1), Parts("k2", 0, 1)}

=============================================================================
