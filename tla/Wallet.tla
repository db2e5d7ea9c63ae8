------------------------------- MODULE Wallet -------------------------------
(***************************************************************************)
(* Deposit of the wallet service over the account and ledger services:     *)
(* resolve the user's ledger account, then post from "external:deposits"   *)
(* under the client's idempotency key.                                     *)
(*                                                                         *)
(* The ledger is the atomic one (which Ledger implements), composed with   *)
(* the wallet's handlers: each deposit attempt makes at most one ledger    *)
(* call of the same name.  A connection may break while the ledger is      *)
(* still at work, so the ledger can post after the wallet has answered.    *)
(* The account service is seen through GetLedgerAccount: a user is found   *)
(* once its registration has linked it (AccountRegistry: linked).          *)
(***************************************************************************)
EXTENDS LedgerDomain, FiniteSets

CONSTANTS
    Call,         \* deposit attempts; a client's retry is another attempt
    Key,          \* idempotency keys
    User,         \* users: the account "user:" + u is u itself
    External,     \* the account "external:deposits"
    BTC,          \* the default asset
    Deposits,     \* what clients may ask for, the user None being an empty id
    None

ASSUME WalletAssumption ==
    /\ User \subseteq Account \ Exempt
    /\ External \in Exempt
    /\ BTC \in Asset
    /\ Deposits \subseteq [key : Key, user : User \cup {None}, amount : Int64]
    /\ None \notin Call

VARIABLES
    posted, funds, status, request, answer,  \* the ledger service
    linked,       \* users whose ledger account can be resolved
    pc,           \* where each Deposit handler is
    deposit,      \* the deposit each attempt asks for
    result        \* what the client was told

ledgerVars == <<posted, funds, status, request, answer>>
walletVars == <<linked, pc, deposit, result>>
vars == <<ledgerVars, walletVars>>

\* The transaction a deposit is translated to.
Postings(d) ==
    <<[account |-> External, asset |-> BTC, amount |-> -d.amount],
      [account |-> d.user, asset |-> BTC, amount |-> d.amount]>>

\* Mutant: each attempt posts under a key of its own.
OwnKeyRequest(c, d) == [key |-> c, postings |-> Postings(d)]

\* Deposit passes the client's idempotency key through to the ledger.
LedgerRequest(c, d) == [key |-> d.key, postings |-> Postings(d)]

\* What Deposit accepts: a key, a user and a positive amount.
ValidDeposits ==
    {d \in Deposits : d.key # "" /\ d.user # None /\ d.amount > 0}

LedgerService == INSTANCE AtomicLedger WITH
    Request <- {LedgerRequest(c, d) : c \in Call, d \in ValidDeposits}

NoResult == [code |-> "none", tx |-> None]
Result(code, tx) == [code |-> code, tx |-> tx]

Init ==
    /\ LedgerService!Init
    /\ linked = {}
    /\ pc = [c \in Call |-> "new"]
    /\ deposit = [c \in Call |-> None]
    /\ result = [c \in Call |-> NoResult]

Return(c, r) ==
    /\ pc' = [pc EXCEPT ![c] = "done"]
    /\ result' = [result EXCEPT ![c] = r]

\* A registration is completed in the account service (AccountRegistry: Link).
Link(u) ==
    /\ u \notin linked
    /\ linked' = linked \cup {u}
    /\ UNCHANGED <<ledgerVars, pc, deposit, result>>

\* A deposit arrives, and is validated.
Receive(c, d) ==
    /\ pc[c] = "new"
    /\ deposit' = [deposit EXCEPT ![c] = d]
    /\ IF d \in ValidDeposits
       THEN pc' = [pc EXCEPT ![c] = "resolve"] /\ UNCHANGED result
       ELSE Return(c, Result("InvalidArgument", None))
    /\ UNCHANGED <<ledgerVars, linked>>

\* Mutant: the answer of GetLedgerAccount is not looked at.
ResolveAnyone(c) ==
    /\ pc[c] = "resolve"
    /\ pc' = [pc EXCEPT ![c] = "post"]
    /\ UNCHANGED <<ledgerVars, linked, deposit, result>>

\* GetLedgerAccount finds the user's account.
Resolve(c) ==
    /\ pc[c] = "resolve"
    /\ deposit[c].user \in linked
    /\ pc' = [pc EXCEPT ![c] = "post"]
    /\ UNCHANGED <<ledgerVars, linked, deposit, result>>

\* GetLedgerAccount answers NotFound.
UnknownUser(c) ==
    /\ pc[c] = "resolve"
    /\ deposit[c].user \notin linked
    /\ Return(c, Result("NotFound", None))
    /\ UNCHANGED <<ledgerVars, linked, deposit>>

\* The PostTransaction request reaches the ledger service.
CallLedger(c) ==
    /\ pc[c] = "post"
    /\ pc' = [pc EXCEPT ![c] = "wait"]
    /\ \/ LedgerService!Ask(c, LedgerRequest(c, deposit[c]))
       \/ LedgerService!Invalid(c, LedgerRequest(c, deposit[c]))
    /\ UNCHANGED <<linked, deposit, result>>

\* Mutant: every downstream code is passed on.
PassOn(code) == code

\* mapDownstreamError.
MapDownstreamError(code) ==
    IF code \in {"NotFound", "InvalidArgument", "FailedPrecondition"}
    THEN code ELSE "Internal"

\* Mutant: an error is taken for no answer yet.
DeliverOk(c) ==
    /\ pc[c] = "wait"
    /\ status[c] = "done"
    /\ answer[c].code = "OK"
    /\ Return(c, Result("OK", answer[c].tx))
    /\ UNCHANGED <<ledgerVars, linked, deposit>>

\* The ledger's answer, or the end of its process, reaches the wallet, which passes it on.
Deliver(c) ==
    /\ pc[c] = "wait"
    /\ status[c] = "done"
    /\ Return(c, IF answer[c].code = "OK"
                 THEN Result("OK", answer[c].tx)
                 ELSE Result(MapDownstreamError(answer[c].code), None))
    /\ UNCHANGED <<ledgerVars, linked, deposit>>

\* A downstream call breaks off: the account service's, the ledger's before
\* it received the request, or its answer on the way back.
Broken(c) ==
    /\ pc[c] \in {"resolve", "post", "wait"}
    /\ Return(c, Result("Internal", None))
    /\ UNCHANGED <<ledgerVars, linked, deposit>>

\* The wallet process dies: it keeps no state, its clients get no answer.
Crash ==
    LET C == {c \in Call : pc[c] \in {"resolve", "post", "wait"}} IN
    /\ C # {}
    /\ pc' = [c \in Call |-> IF c \in C THEN "done" ELSE pc[c]]
    /\ result' = [c \in Call |-> IF c \in C THEN Result("Unanswered", None)
                                            ELSE result[c]]
    /\ UNCHANGED <<ledgerVars, linked, deposit>>

\* The ledger service answers a call it has received.
LedgerAnswers(c) ==
    /\ \/ LedgerService!Acknowledge(c)
       \/ LedgerService!Refuse(c)
       \/ LedgerService!Unsure(c)
    /\ UNCHANGED walletVars

\* What else the ledger service does with them.
LedgerStep ==
    /\ \/ \E c \in Call : LedgerService!Post(c)
       \/ \E C \in SUBSET Call : C # {} /\ LedgerService!Stop(C)
    /\ UNCHANGED walletVars

\* The bound on attempts is reached: the model stops, the service would not.
Finished ==
    /\ \A c \in Call : pc[c] = "done" /\ status[c] # "busy"
    /\ linked = User
    /\ UNCHANGED vars

Next ==
    \/ \E u \in User : Link(u)
    \/ \E c \in Call :
          \/ \E d \in Deposits : Receive(c, d)
          \/ Resolve(c)
          \/ UnknownUser(c)
          \/ CallLedger(c)
          \/ Deliver(c)
          \/ Broken(c)
          \/ LedgerAnswers(c)
    \/ Crash
    \/ LedgerStep
    \/ Finished

Spec == Init /\ [][Next]_vars

\* The handlers go on when they can, and the two services answer: the account
\* service at once, the ledger in the end (LedgerTelemetry: EveryCallAnswered).
\* Nothing breaks off by itself: the wallet sets no deadline.
Fairness ==
    \A c \in Call :
        /\ WF_vars(Resolve(c) \/ UnknownUser(c) \/ CallLedger(c) \/ Deliver(c))
        /\ WF_vars(LedgerAnswers(c))

FairSpec == Spec /\ Fairness

-----------------------------------------------------------------------------

\* Every variable keeps to the values the code allows; clients are told only
\* the codes that mapDownstreamError lets through.
TypeOK ==
    /\ \A t \in posted : t.id \in Call /\ t.postings \in Seq(Posting)
    /\ funds \in [Pair -> Int64]
    /\ status \in [Call -> {"idle", "busy", "done"}]
    /\ linked \subseteq User
    /\ pc \in [Call -> {"new", "resolve", "post", "wait", "done"}]
    /\ deposit \in [Call -> Deposits \cup {None}]
    /\ \A c \in Call :
          /\ result[c].code \in {"none", "OK", "InvalidArgument", "NotFound",
                                 "FailedPrecondition", "Internal",
                                 "Unanswered"}
          /\ result[c].tx \in Call \cup {None}

Total(D) == SumFunction([d \in D |-> d.amount])

\* Deposits to user u that some client was told are done, and all that were
\* asked for.  A client that retries asks for the same deposit.
Confirmed(u) ==
    {deposit[c] : c \in {a \in Call : result[a].code = "OK"
                                      /\ deposit[a].user = u}}
Asked(u) ==
    {deposit[c] : c \in {a \in Call : pc[a] # "new" /\ deposit[a].user = u
                                      /\ deposit[a].amount > 0}}

\* Clients give each deposit a key of its own: what a user owns is at least
\* every deposit confirmed and at most every deposit asked for, each counted
\* once however often it was tried, broken off, answered late or crashed.
EachDepositCreditedOnce ==
    \A u \in User :
        /\ Total(Confirmed(u)) <= funds[<<u, BTC>>]
        /\ funds[<<u, BTC>>] <= Total(Asked(u))

\* Users are credited only once their registration has been completed.
OnlyLinkedUsersAreCredited ==
    \A u \in User : funds[<<u, BTC>>] # 0 => u \in linked

\* Every deposit that is tried is answered, without a deadline of the wallet's.
EveryDepositAnswered ==
    \A c \in Call : pc[c] = "resolve" ~> pc[c] = "done"

\* "Deposit credits a user's account": a deposit answered OK has been posted
\* for this user and this amount.
\* An idempotency key already used for another deposit would have to be
\* answered AlreadyExists.
ConfirmedDepositIsPosted ==
    \A c \in Call : result[c].code = "OK" =>
        \E t \in posted : /\ t.id = result[c].tx
                          /\ t.postings = Postings(deposit[c])

=============================================================================
