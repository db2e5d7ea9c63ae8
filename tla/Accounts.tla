------------------------------ MODULE Accounts ------------------------------
(***************************************************************************)
(* CreateUser of the account service, run by concurrent gRPC handlers:     *)
(* Server.CreateUser first has the repository commit the user in one       *)
(* database transaction, then links the user's default asset account with  *)
(* two autocommit queries of their own.                                    *)
(*                                                                         *)
(* The database is external: unique indexes on users.email and on          *)
(* users.idempotency_key, a primary key (user, asset) on                   *)
(* user_asset_accounts, and an INSERT that waits for an open transaction   *)
(* which has inserted the same unique value.                               *)
(***************************************************************************)
EXTENDS Integers, FiniteSets

CONSTANTS
    Call,         \* CreateUser calls; a retry is another call
    Key,          \* idempotency keys
    Email,        \* email addresses, the valid and the invalid ones
    ValidEmail,   \* those that contain "@"
    Request,      \* the requests clients may send
    PoolSize,     \* SetMaxOpenConns
    None          \* no user

ASSUME AccountsAssumption ==
    /\ Request \subseteq [key : Key, email : Email]
    /\ ValidEmail \subseteq Email
    /\ PoolSize \in Nat \ {0}
    /\ None \notin Call

VARIABLES
    users,        \* committed rows of users; a user id is the creating call
    links,        \* committed rows of user_asset_accounts (asset "BTC")
    pc,           \* next statement of each call
    request,      \* request each call carries
    user,         \* user id the repository returned to each call
    answer        \* what the caller was told

vars == <<users, links, pc, request, user, answer>>

User == [id : Call, email : Email, key : Key]

\* The ledger account of user u is "user:" + u: u stands for it.
LedgerAccountID(u) == u

Link == [user : Call, ledger : {LedgerAccountID(u) : u \in Call}]

NoAnswer == [code |-> "none", user |-> None]
Ok(u)    == [code |-> "OK", user |-> u]
Err(e)   == [code |-> e, user |-> None]

Codes == {"InvalidArgument", "AlreadyExists", "Internal", "Lost"}

Answer == {NoAnswer} \cup {Ok(u) : u \in Call} \cup {Err(e) : e \in Codes}

InTransaction == {"find", "insert", "commit"}

\* Mutant: the links are made before the deferred Rollback frees the
\* connection.
OpenWhileLinking ==
    {c \in Call : pc[c] \in InTransaction \cup {"linkSelect", "linkInsert"}}

\* Connections in use: a database transaction keeps one.
Open == {c \in Call : pc[c] \in InTransaction}

PoolFree == Cardinality(Open) < PoolSize

-----------------------------------------------------------------------------

Init ==
    /\ users = {}
    /\ links = {}
    /\ pc = [c \in Call |-> "new"]
    /\ request = [c \in Call |-> None]
    /\ user = [c \in Call |-> None]
    /\ answer = [c \in Call |-> NoAnswer]

Return(c, a) ==
    /\ pc' = [pc EXCEPT ![c] = "done"]
    /\ answer' = [answer EXCEPT ![c] = a]
    /\ UNCHANGED <<request, user>>

Goto(c, label) ==
    /\ pc' = [pc EXCEPT ![c] = label]
    /\ UNCHANGED <<request, answer>>

\* User.Validate.
Validate(r) == r.email \in ValidEmail /\ r.key # ""

\* A request arrives.
Receive(c, r) ==
    /\ pc[c] = "new"
    /\ request' = [request EXCEPT ![c] = r]
    /\ IF Validate(r)
       THEN /\ pc' = [pc EXCEPT ![c] = "begin"]
            /\ UNCHANGED answer
       ELSE /\ pc' = [pc EXCEPT ![c] = "done"]
            /\ answer' = [answer EXCEPT ![c] = Err("InvalidArgument")]
    /\ UNCHANGED <<users, links, user>>

\* BeginTx waits for a free connection.
Begin(c) ==
    /\ pc[c] = "begin"
    /\ PoolFree
    /\ Goto(c, "find")
    /\ UNCHANGED <<users, links, user>>

\* Mutant: a replayed user is returned to the caller at once, unlinked.
ReplayUnlinked(c) ==
    /\ pc[c] = "find"
    /\ \E u \in users :
          /\ u.key = request[c].key
          /\ Return(c, Ok(u.id))
    /\ UNCHANGED <<users, links>>

\* findByIdempotencyKey finds a committed user: go on to link it.
Replay(c) ==
    /\ pc[c] = "find"
    /\ \E u \in users :
          /\ u.key = request[c].key
          /\ user' = [user EXCEPT ![c] = u.id]
    /\ Goto(c, "linkSelect")
    /\ UNCHANGED <<users, links>>

NotCreated(c) ==
    /\ pc[c] = "find"
    /\ \A u \in users : u.key # request[c].key
    /\ Goto(c, "insert")
    /\ UNCHANGED <<users, links, user>>

\* The row of call c cannot go in beside a row with r's email and key.
Clashes(c, r) == r.email = request[c].email \/ r.key = request[c].key

\* Another open transaction has inserted the same email or the same key.
UniqueBusy(c) ==
    \E d \in Call \ {c} : pc[d] = "commit" /\ Clashes(c, request[d])

\* Mutant: the users table has no UNIQUE index on idempotency_key.
InsertAnyKey(c) ==
    /\ pc[c] = "insert"
    /\ ~UniqueBusy(c)
    /\ \A u \in users : u.email # request[c].email
    /\ Goto(c, "commit")
    /\ UNCHANGED <<users, links, user>>

\* INSERT INTO users, once nobody else's uncommitted row stands in the way.
InsertUser(c) ==
    /\ pc[c] = "insert"
    /\ ~UniqueBusy(c)
    /\ \A u \in users : ~Clashes(c, u)
    /\ Goto(c, "commit")
    /\ UNCHANGED <<users, links, user>>

\* Mutant: the owner of the email is taken for the user of a racing retry.
DuplicateReturnsOwner(c) ==
    /\ pc[c] = "insert"
    /\ ~UniqueBusy(c)
    /\ \E u \in users : Clashes(c, u) /\ user' = [user EXCEPT ![c] = u.id]
    /\ Goto(c, "linkSelect")
    /\ UNCHANGED <<users, links>>

\* Error 1062 is reported as a taken email, whichever index raised it.
DuplicateEntry(c) ==
    /\ pc[c] = "insert"
    /\ ~UniqueBusy(c)
    /\ \E u \in users : Clashes(c, u)
    /\ Return(c, Err("AlreadyExists"))
    /\ UNCHANGED <<users, links>>

\* Mutant: the user returned is the request's, with no id in it.
CommitWithoutID(c) ==
    /\ pc[c] = "commit"
    /\ users' = users \cup
          {[id |-> c, email |-> request[c].email, key |-> request[c].key]}
    /\ Goto(c, "linkSelect")
    /\ UNCHANGED <<links, user>>

\* COMMIT takes effect, and the connection goes back to the pool.
Commit(c) ==
    /\ pc[c] = "commit"
    /\ users' = users \cup
          {[id |-> c, email |-> request[c].email, key |-> request[c].key]}
    /\ user' = [user EXCEPT ![c] = c]
    /\ Goto(c, "linkSelect")
    /\ UNCHANGED links

\* LinkAssetAccount, first query: is there a mapping already?
LinkSelect(c) ==
    /\ pc[c] = "linkSelect"
    /\ PoolFree
    /\ Goto(c, IF \E l \in links : l.user = user[c] THEN "reply"
                                                    ELSE "linkInsert")
    /\ UNCHANGED <<users, links, user>>

\* LinkAssetAccount, second query: no mapping was there, insert it.
LinkInsert(c) ==
    /\ pc[c] = "linkInsert"
    /\ PoolFree
    /\ \A l \in links : l.user # user[c]
    /\ links' = links \cup
          {[user |-> user[c], ledger |-> LedgerAccountID(user[c])]}
    /\ Goto(c, "reply")
    /\ UNCHANGED <<users, user>>

\* The mapping came in between the two queries: the primary key refuses the
\* second one, and the handler reports that it failed to link.
LinkDuplicate(c) ==
    /\ pc[c] = "linkInsert"
    /\ PoolFree
    /\ \E l \in links : l.user = user[c]
    /\ Return(c, Err("Internal"))
    /\ UNCHANGED <<users, links>>

Reply(c) ==
    /\ pc[c] = "reply"
    /\ Return(c, Ok(user[c]))
    /\ UNCHANGED <<users, links>>

\* A statement fails before it has any effect, or (at "linkSelect" and
\* "reply") after a COMMIT or an INSERT whose acknowledgement was lost.
Fail(c) ==
    /\ pc[c] \notin {"new", "done"}
    /\ Return(c, Err("Internal"))
    /\ UNCHANGED <<users, links>>

\* The account process dies, between any two statements.
Crash ==
    LET C == {c \in Call : pc[c] \notin {"new", "done"}} IN
    /\ C # {}
    /\ pc' = [c \in Call |-> IF c \in C THEN "done" ELSE pc[c]]
    /\ answer' = [c \in Call |-> IF c \in C THEN Err("Lost") ELSE answer[c]]
    /\ UNCHANGED <<users, links, request, user>>

Step(c) ==
    \/ Begin(c)
    \/ Replay(c)
    \/ NotCreated(c)
    \/ InsertUser(c)
    \/ DuplicateEntry(c)
    \/ Commit(c)
    \/ LinkSelect(c)
    \/ LinkInsert(c)
    \/ LinkDuplicate(c)
    \/ Reply(c)

Disturb(c) ==
    \/ \E r \in Request : Receive(c, r)
    \/ Fail(c)

\* The bound on calls is reached: the model stops, the service would not.
Finished == (\A c \in Call : pc[c] = "done") /\ UNCHANGED vars

Next ==
    \/ \E c \in Call : Step(c) \/ Disturb(c)
    \/ Crash
    \/ Finished

Spec == Init /\ [][Next]_vars

\* The handlers run on, and the database answers each of them.
Fairness == \A c \in Call : WF_vars(Step(c))

FairSpec == Spec /\ Fairness

-----------------------------------------------------------------------------
(* The lookups: each is one query, and changes nothing.                    *)

NotFound == [code |-> "NotFound"]

\* QueryRowContext: the first of the rows, or sql.ErrNoRows.
QueryRow(rows) == IF rows = {} THEN NotFound ELSE CHOOSE r \in rows : TRUE

GetUser(id) == QueryRow({u \in users : u.id = id})

GetUserByEmail(email) == QueryRow({u \in users : u.email = email})

GetLedgerAccount(id) == QueryRow({l.ledger : l \in {m \in links : m.user = id}})

-----------------------------------------------------------------------------
(* Properties.                                                             *)

\* Every variable keeps to the values the code's types and tables allow.
TypeOK ==
    /\ users \subseteq User
    /\ links \subseteq Link
    /\ pc \in [Call -> {"new", "begin", "linkSelect", "linkInsert", "reply",
                        "done"} \cup InTransaction]
    /\ request \in [Call -> Request \cup {None}]
    /\ user \in [Call -> Call \cup {None}]
    /\ answer \in [Call -> Answer]

\* CreateUser's idempotency: concurrent registrations never give a key or an
\* email to two users.
UsersAreUnique ==
    \A u, v \in users : u.key = v.key \/ u.email = v.email => u = v

\* A caller told OK has a user that every lookup finds, under its key and its
\* email, and that can be deposited to: the ledger account is linked, also when
\* an earlier call died between creating the user and linking it, and this one
\* only replayed the creation.
OkMeansLinked ==
    \A c \in Call : answer[c].code = "OK" =>
        LET u == GetUser(answer[c].user) IN
        /\ u # NotFound
        /\ u.key = request[c].key
        /\ GetUserByEmail(u.email) = u
        /\ GetLedgerAccount(u.id) = LedgerAccountID(u.id)

\* Call c is not made to wait: its next statement returns when it is sent.
CanGoOn(c) ==
    \/ pc[c] \in {"find", "commit", "reply"}
    \/ pc[c] \in {"begin", "linkSelect", "linkInsert"} /\ PoolFree
    \/ pc[c] = "insert" /\ ~UniqueBusy(c)

\* The service never stands still: while a registration is in progress some
\* call can go on.  A handler links after its database transaction and not
\* inside it, so none keeps a connection while it waits for another; and who
\* waits for a unique value waits for a call that only has to COMMIT.
NoStandstill ==
    (\E c \in Call : pc[c] \notin {"new", "done"}) => \E c \in Call : CanGoOn(c)

\* Every call that reaches the repository is answered.
EveryCallAnswered ==
    \A c \in Call : pc[c] = "begin" ~> pc[c] = "done"

\* "Returns ErrEmailExists if the email is already taken by a different
\* user": whoever is told so has not itself created the owner of the email.
EmailTakenByAnother ==
    \A c \in Call : answer[c].code = "AlreadyExists" =>
        \E u \in users : u.email = request[c].email /\ u.key # request[c].key

=============================================================================
