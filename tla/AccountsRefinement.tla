-------------------------- MODULE AccountsRefinement --------------------------
(***************************************************************************)
(* Accounts implements AccountRegistry: a user is created when its COMMIT  *)
(* takes effect, and linked when LinkAssetAccount's INSERT does.           *)
(***************************************************************************)
EXTENDS Accounts

Status(c) ==
    IF pc[c] = "new" THEN "idle" ELSE IF pc[c] = "done" THEN "done" ELSE "busy"

Registry == INSTANCE AccountRegistry WITH
    linked <- {l.user : l \in links},
    status <- [c \in Call |-> Status(c)]

\* Every behaviour of the handlers is one of the registry's: a transaction and
\* two autocommit queries act as one creation and at most one link, however
\* they interleave with others, and each answer is true when it is given.
ImplementsRegistry == Registry!Spec

=============================================================================
