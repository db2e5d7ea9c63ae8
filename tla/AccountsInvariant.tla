-------------------------- MODULE AccountsInvariant --------------------------
(***************************************************************************)
(* The inductive invariant behind the properties of Accounts: what holds   *)
(* at every statement of every registration, whatever the others do.       *)
(***************************************************************************)
EXTENDS AccountsRefinement

\* A call past Receive carries a request, and has no answer before it is done.
RequestInv(c) ==
    /\ pc[c] # "new" => request[c] \in Request
    /\ pc[c] # "done" => answer[c] = NoAnswer

\* A user was created by the call it is named after, from that call's request,
\* and that call is past its COMMIT.
UserInv(u) ==
    /\ pc[u.id] \in {"linkSelect", "linkInsert", "reply", "done"}
    /\ u.email = request[u.id].email
    /\ u.key = request[u.id].key

\* An uncommitted row clashes with no other.
InsertInv(c) ==
    pc[c] = "commit" =>
        /\ \A u \in users : ~Clashes(c, u)
        /\ \A d \in Call \ {c} : pc[d] = "commit" => ~Clashes(c, request[d])

\* The row of user u is there, under the key of call c.
HasUser(c, u) == \E v \in users : v.id = u /\ v.key = request[c].key

\* User u has a ledger account.
IsLinked(u) == \E l \in links : l.user = u

\* What the handler has found or created is in the tables, and stays there.
LinkingInv(c) ==
    /\ pc[c] \in {"linkSelect", "linkInsert", "reply"} => HasUser(c, user[c])
    /\ pc[c] = "reply" => IsLinked(user[c])

\* So does what the caller has been told.
AnswerInv(c) ==
    answer[c].code = "OK" =>
        HasUser(c, answer[c].user) /\ IsLinked(answer[c].user)

RegistrationInv ==
    /\ TypeOK
    /\ UsersAreUnique
    /\ \A u \in users : UserInv(u)
    /\ \A l \in links : l.ledger = LedgerAccountID(l.user)
    /\ \A c \in Call : /\ RequestInv(c)
                       /\ InsertInv(c)
                       /\ LinkingInv(c)
                       /\ AnswerInv(c)

=============================================================================
