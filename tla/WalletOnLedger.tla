--------------------------- MODULE WalletOnLedger ---------------------------
(***************************************************************************)
(* The wallet's Deposit handlers over the ledger's PostTransaction         *)
(* handlers and their database: Wallet, with Ledger in the place of the    *)
(* atomic ledger.                                                          *)
(*                                                                         *)
(* A deposit attempt and its ledger call have one name, and the wallet is  *)
(* the ledger's only client: Request is DepositRequests.                   *)
(***************************************************************************)
EXTENDS LedgerRefinement

CONSTANTS User, External, BTC, Deposits

VARIABLES
    linked,       \* users whose ledger account can be resolved
    handler,      \* where each Deposit handler is: pc of Wallet
    deposit,      \* the deposit each attempt asks for
    result        \* what the client was told

W == INSTANCE Wallet WITH
    posted <- PostedTransactions,
    funds  <- [p \in Pair |-> GetBalance(p)],
    status <- [c \in Call |-> Status(c)],
    pc     <- handler

\* What the wallet asks of the ledger.
DepositRequests == {W!LedgerRequest(c, d) : c \in Call, d \in W!ValidDeposits}

walletVars == <<linked, handler, deposit, result>>
bothVars == <<vars, walletVars>>

InitBoth ==
    /\ Init
    /\ linked = {}
    /\ handler = [c \in Call |-> "new"]
    /\ deposit = [c \in Call |-> None]
    /\ result = [c \in Call |-> W!NoResult]

\* What the wallet and the account service do without the ledger.
WalletStep ==
    /\ UNCHANGED vars
    /\ \/ \E u \in User : W!Link(u)
       \/ \E c \in Call :
             \/ \E d \in Deposits : W!Receive(c, d)
             \/ W!Resolve(c)
             \/ W!UnknownUser(c)
             \/ W!Deliver(c)
             \/ W!Broken(c)
       \/ W!Crash

\* The wallet's request reaches PostTransaction.
CallLedger(c) ==
    /\ handler[c] = "post"
    /\ Receive(c, W!LedgerRequest(c, deposit[c]))
    /\ handler' = [handler EXCEPT ![c] = "wait"]
    /\ UNCHANGED <<linked, deposit, result>>

\* The ledger's handlers and its database go on.
LedgerStep ==
    /\ \/ \E c \in Call : Step(c) \/ Fail(c)
       \/ Crash
    /\ UNCHANGED walletVars

\* The bound on attempts is reached: the model stops, the services would not.
FinishedBoth ==
    /\ \A c \in Call : handler[c] = "done" /\ Status(c) # "busy"
    /\ linked = User
    /\ UNCHANGED bothVars

NextBoth ==
    \/ WalletStep
    \/ \E c \in Call : CallLedger(c)
    \/ LedgerStep
    \/ FinishedBoth

SpecBoth == InitBoth /\ [][NextBoth]_bothVars

-----------------------------------------------------------------------------

\* What clients see of deposits over the statements and locks of the ledger,
\* they could see over the atomic one.
ImplementsWallet == W!Spec

\* "Deposit credits a user's account": a deposit answered OK has been posted
\* for this user and this amount, over the handlers of both services.
\* An idempotency key already used for another deposit would have to be
\* answered AlreadyExists.
ConfirmedDepositIsPosted == W!ConfirmedDepositIsPosted

=============================================================================
