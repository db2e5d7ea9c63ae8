----------------------------- MODULE WalletProofs -----------------------------
(***************************************************************************)
(* Theorems about Wallet, for any number of attempts, users and deposits.  *)
(*                                                                         *)
(* The invariant follows a deposit through the handler and the ledger:     *)
(* what the ledger service was asked is the deposit of an attempt whose    *)
(* user had been found, a posted transaction is one of these, and an OK    *)
(* names a transaction posted under the key of the attempt.  The balance   *)
(* of a user is then the total of the deposits posted for it.              *)
(***************************************************************************)
EXTENDS Wallet, SumProofs

\* The handler only goes on with a deposit that it has accepted, and its user.
DepositInv ==
    \A c \in Call :
        /\ pc[c] # "new" => deposit[c] \in Deposits
        /\ pc[c] \in {"new", "resolve", "post"} => status[c] = "idle"
        /\ pc[c] \in {"resolve", "post"} => deposit[c].amount > 0
        /\ pc[c] = "post" => deposit[c].user \in linked

\* What the ledger service has been asked.
CallInv ==
    /\ DOMAIN request = Call
    /\ \A c \in Call :
          status[c] # "idle" => /\ request[c] = LedgerRequest(c, deposit[c])
                                /\ deposit[c].amount > 0
                                /\ deposit[c].user \in linked

\* What it has posted, once for each key.
PostedInv ==
    /\ \A t \in posted :
          /\ t.id \in Call /\ status[t.id] # "idle"
          /\ t = [id |-> t.id, key |-> deposit[t.id].key,
                  postings |-> Postings(deposit[t.id])]
    /\ \A t, u \in posted : t.key = u.key => t = u

Answer ==
    [code : {"none", "OK", "InvalidArgument", "FailedPrecondition",
             "Internal", "Lost"},
     tx : Call \cup {None}]

\* OK names a transaction that has been posted under the deposit's key.
AnswerInv ==
    /\ answer \in [Call -> Answer]
    /\ DOMAIN result = Call
    /\ \A c \in Call :
          /\ answer[c].code = "OK" =>
                /\ status[c] = "done"
                /\ \E t \in posted :
                      t.id = answer[c].tx /\ t.key = request[c].key
          /\ result[c].code = "OK" =>
                /\ pc[c] = "done"
                /\ \E t \in posted :
                      t.id = result[c].tx /\ t.key = deposit[c].key

WalletInv == TypeOK /\ DepositInv /\ CallInv /\ PostedInv /\ AnswerInv

-----------------------------------------------------------------------------
(* What a deposit changes in the ledger.                                   *)

\* Both modules add up with the same operator.
LEMMA SameSum == \A f : LedgerService!SumFunction(f) = SumFunction(f)
BY DEF LedgerService!SumFunction, SumFunction,
       LedgerService!SumFunctionOnSet, SumFunctionOnSet,
       LedgerService!FoldFunctionOnSet, FoldFunctionOnSet,
       LedgerService!MapThenFoldSet, MapThenFoldSet

\* Both modules speak of the same domain.
LEMMA SameDomain ==
    /\ LedgerService!Pair = Pair
    /\ LedgerService!Int64 = Int64
    /\ \A n : LedgerService!Wrap(n) = Wrap(n)
    /\ \A p : LedgerService!PairOf(p) = PairOf(p)
<1>1. LedgerService!Pair = Pair
  BY DEF LedgerService!Pair, Pair
<1>2. LedgerService!Int64 = Int64
  BY DEF LedgerService!Int64, Int64
<1>3. \A n : LedgerService!Wrap(n) = Wrap(n)
  BY DEF LedgerService!Wrap, Wrap
<1>4. \A p : LedgerService!PairOf(p) = PairOf(p)
  BY DEF LedgerService!PairOf, PairOf
<1>5. QED
  BY <1>1, <1>2, <1>3, <1>4

\* A 64-bit integer is left as it is.
LEMMA WrapIdentity == ASSUME NEW n \in Int64 PROVE Wrap(n) = n
BY DomainAssumption DEF Wrap, Int64

\* The postings of a positive deposit are postings.
LEMMA PostingsFacts ==
    ASSUME NEW d \in Deposits, d.amount > 0, d.user \in User
    PROVE  /\ d.user \in User /\ d.amount \in Int64 /\ -d.amount \in Int64
           /\ Postings(d) \in Seq(Posting) /\ DOMAIN Postings(d) = 1 .. 2
           /\ Postings(d)[1].account = External
           /\ Postings(d)[2].account = d.user
           /\ Postings(d)[2].amount = d.amount
           /\ \A i \in 1 .. 2 : Postings(d)[i].asset = BTC
<1>1. /\ d.user \in User /\ d.amount \in Int64
      /\ External \in Account /\ BTC \in Asset /\ d.user \in Account
  BY WalletAssumption, DomainAssumption
<1>2. -d.amount \in Int64
  BY <1>1, DomainAssumption DEF Int64
<1>3. QED
  BY <1>1, <1>2 DEF Postings, Posting

\* A deposit adds its amount to the balance of its user and of no other.
LEMMA DeltaOfDeposit ==
    ASSUME NEW d \in Deposits, d.amount > 0, d.user \in User, NEW u \in User
    PROVE  LedgerService!Delta(Postings(d), <<u, BTC>>)
              = IF d.user = u THEN d.amount ELSE 0
<1> DEFINE postings == Postings(d)
           p == <<u, BTC>>
           S == {j \in DOMAIN postings : PairOf(postings[j]) = p}
           T == {j \in DOMAIN postings :
                    LedgerService!PairOf(postings[j]) = p}
           f == [i \in DOMAIN postings |-> postings[i].amount]
<1>1. T = S
  BY SameDomain
<1>2. LedgerService!Delta(postings, p) = Wrap(SumOver(f, S))
  <2>1. LedgerService!Delta(postings, p) =
          LedgerService!Wrap(LedgerService!SumFunction(
              [i \in T |-> postings[i].amount]))
    BY DEF LedgerService!Delta
  <2>2. [i \in T |-> postings[i].amount] = Part(f, S)
    BY <1>1 DEF Part
  <2> HIDE DEF S, T, f, postings, p
  <2>3. QED
    BY <2>1, <2>2, SameDomain, SameSum DEF SumOver
<1>3. External # u /\ DOMAIN postings = 1 .. 2
  BY PostingsFacts, WalletAssumption
<1>4. /\ PairOf(postings[1]) # p
      /\ PairOf(postings[2]) = p <=> d.user = u
  BY <1>3, PostingsFacts DEF PairOf
<1>5. CASE d.user = u
  <2>1. S = {} \cup {2}
    BY <1>3, <1>4, <1>5
  <2>2. IntegersOn(f, {} \cup {2}) /\ f[2] = d.amount
    <3>1. IsFiniteSet({} \cup {2})
      BY FS_EmptySet, FS_AddElement
    <3>2. f[2] = d.amount /\ d.amount \in Int /\ 2 \in DOMAIN f
      BY <1>3, PostingsFacts DEF Int64
    <3>3. QED
      BY <3>1, <3>2 DEF IntegersOn
  <2> HIDE DEF f
  <2>3. SumOver(f, {} \cup {2}) = f[2] + SumOver(f, {})
    BY <2>2, SumOverInsert
  <2>a. d.amount \in Int64 /\ d.amount \in Int
    BY PostingsFacts, DomainAssumption DEF Int64
  <2>b. SumOver(f, {}) = 0
    BY SumOverEmpty
  <2> HIDE DEF S, postings, p
  <2>4. SumOver(f, S) = d.amount
    BY <2>1, <2>2, <2>3, <2>a, <2>b
  <2>5. Wrap(d.amount) = d.amount
    BY <2>a, WrapIdentity
  <2>6. QED
    BY <1>2, <1>5, <2>4, <2>5 DEF postings, p
<1>6. CASE d.user # u
  <2>1. S = {}
    BY <1>3, <1>4, <1>6
  <2> HIDE DEF f, S
  <2>2. Wrap(SumOver(f, S)) = 0
    BY <2>1, SumOverEmpty, DomainAssumption DEF Wrap
  <2>3. QED
    BY <1>2, <1>6, <2>2
<1>7. QED
  BY <1>5, <1>6

-----------------------------------------------------------------------------
(* The invariant.                                                          *)

\* A deposit in the hands of the ledger has postings and a user.
LEMMA CallFacts ==
    ASSUME WalletInv, NEW c \in Call, status[c] # "idle"
    PROVE  /\ pc[c] \in {"wait", "done"} /\ deposit[c] \in Deposits
           /\ request[c].key = deposit[c].key
           /\ request[c].postings = Postings(deposit[c])
           /\ deposit[c].amount > 0 /\ deposit[c].user \in linked
<1>1. /\ pc[c] \in {"new", "resolve", "post", "wait", "done"}
      /\ pc[c] \in {"wait", "done"}
  BY DEF WalletInv, TypeOK, DepositInv
<1>2. deposit[c] \in Deposits
  BY <1>1 DEF WalletInv, DepositInv
<1>3. request[c] = LedgerRequest(c, deposit[c])
  BY DEF WalletInv, CallInv
<1>4. deposit[c].amount > 0 /\ deposit[c].user \in linked
  BY DEF WalletInv, CallInv
<1>5. QED
  BY <1>1, <1>2, <1>3, <1>4 DEF LedgerRequest

\* Nothing has been asked or posted.
LEMMA InitWalletInv == Init => WalletInv
<1> SUFFICES ASSUME Init PROVE WalletInv
  OBVIOUS
<1>1. /\ posted = {} /\ funds = [p \in Pair |-> 0]
      /\ status = [c \in Call |-> "idle"] /\ request = [c \in Call |-> None]
      /\ answer = [c \in Call |-> [code |-> "none", tx |-> None]]
  BY SameDomain DEF Init, LedgerService!Init, LedgerService!Err
<1>2. /\ linked = {} /\ pc = [c \in Call |-> "new"]
      /\ deposit = [c \in Call |-> None]
      /\ result = [c \in Call |-> [code |-> "none", tx |-> None]]
  BY DEF Init, NoResult
<1>3. 0 \in Int64
  BY DomainAssumption DEF Int64
<1>4. TypeOK
  BY <1>1, <1>2, <1>3 DEF TypeOK
<1>5. DepositInv /\ CallInv /\ PostedInv
  BY <1>1, <1>2 DEF DepositInv, CallInv, PostedInv
<1>6. AnswerInv
  <2>1. [code |-> "none", tx |-> None]
           \in Answer
    BY DEF Answer
  <2>2. \A c \in Call : answer[c].code = "none" /\ result[c].code = "none"
    BY <1>1, <1>2
  <2>3. QED
    BY <1>1, <1>2, <2>1, <2>2 DEF AnswerInv
<1>7. QED
  BY <1>4, <1>5, <1>6 DEF WalletInv

\* A handler that returns keeps the invariant.
LEMMA ReturnKeepsInv ==
    ASSUME WalletInv, NEW c \in Call, NEW code, NEW tx \in Call \cup {None},
           pc[c] \in {"resolve", "post", "wait"},
           Return(c, Result(code, tx)), UNCHANGED <<ledgerVars, linked, deposit>>,
           code \in {"OK", "InvalidArgument", "NotFound",
                     "FailedPrecondition", "Internal"},
           code = "OK" => \E t \in posted :
                             t.id = tx /\ t.key = deposit[c].key
    PROVE  WalletInv'
<1>1. /\ UNCHANGED <<posted, funds, status, request, answer, linked, deposit>>
      /\ pc' = [pc EXCEPT ![c] = "done"]
      /\ result' = [result EXCEPT ![c] = [code |-> code, tx |-> tx]]
  BY DEF Return, Result, ledgerVars
<1>2. TypeOK'
  BY <1>1 DEF WalletInv, TypeOK, AnswerInv
<1>3. DepositInv'
  BY <1>1 DEF WalletInv, TypeOK, DepositInv
<1>4. CallInv' /\ PostedInv'
  BY <1>1 DEF WalletInv, CallInv, PostedInv
<1>5. AnswerInv'
  BY <1>1 DEF WalletInv, TypeOK, AnswerInv
<1>6. QED
  BY <1>2, <1>3, <1>4, <1>5 DEF WalletInv

\* So does a deposit that arrives.
LEMMA ReceiveKeepsInv ==
    ASSUME WalletInv, NEW c \in Call, NEW d \in Deposits, Receive(c, d)
    PROVE  WalletInv'
<1>1. /\ UNCHANGED <<posted, funds, status, request, answer, linked>>
      /\ pc[c] = "new" /\ status[c] = "idle"
      /\ deposit' = [deposit EXCEPT ![c] = d]
      /\ \/ /\ d.amount > 0 /\ pc' = [pc EXCEPT ![c] = "resolve"]
            /\ result' = result
         \/ /\ pc' = [pc EXCEPT ![c] = "done"]
            /\ result' = [result EXCEPT ![c] =
                             [code |-> "InvalidArgument", tx |-> None]]
  BY DEF ValidDeposits, Receive, Return, Result, ledgerVars, WalletInv, DepositInv
<1>2. /\ \A a \in Call \ {c} : /\ deposit'[a] = deposit[a]
                              /\ pc'[a] = pc[a] /\ result'[a] = result[a]
      /\ deposit'[c] = d /\ pc'[c] \in {"resolve", "done"}
      /\ pc'[c] = "resolve" => d.amount > 0
      /\ result'[c].code # "OK"
  <2>1. deposit \in [Call -> Deposits \cup {None}]
        /\ pc \in [Call -> {"new", "resolve", "post", "wait", "done"}]
    BY DEF WalletInv, TypeOK
  <2>2. DOMAIN result = Call /\ result[c].code # "OK"
    BY <1>1 DEF WalletInv, AnswerInv
  <2>3. QED
    BY <1>1, <2>1, <2>2
<1>3. TypeOK'
  <2>1. DOMAIN result = Call
    BY DEF WalletInv, AnswerInv
  <2>2. \/ result'[c] = result[c]
        \/ result'[c] = [code |-> "InvalidArgument", tx |-> None]
    BY <1>1, <2>1
  <2>3. QED
    BY <1>1, <1>2, <2>2 DEF WalletInv, TypeOK
<1>4. DepositInv'
  BY <1>1, <1>2 DEF WalletInv, DepositInv
<1>5. CallInv' /\ PostedInv'
  BY <1>1, <1>2 DEF WalletInv, CallInv, PostedInv, LedgerRequest
<1>6. AnswerInv'
  <2>1. DOMAIN result' = Call
    BY <1>1 DEF WalletInv, AnswerInv
  <2>2. \A a \in Call \ {c} : deposit'[a] = deposit[a] /\ pc'[a] = pc[a]
                             /\ result'[a] = result[a]
    BY <1>2
  <2>3. QED
    BY <1>1, <1>2, <2>1, <2>2 DEF WalletInv, AnswerInv
<1>7. QED
  BY <1>3, <1>4, <1>5, <1>6 DEF WalletInv

\* Resolve goes on with a user that is linked.
LEMMA ResolveKeepsInv ==
    ASSUME WalletInv, NEW c \in Call, Resolve(c)
    PROVE  WalletInv'
<1>1. /\ UNCHANGED <<posted, funds, status, request, answer>>
      /\ UNCHANGED <<linked, deposit, result>>
      /\ pc[c] = "resolve" /\ deposit[c].user \in linked
      /\ pc' = [pc EXCEPT ![c] = "post"]
  BY DEF Resolve, ledgerVars
<1>2. TypeOK' /\ DepositInv' /\ CallInv' /\ PostedInv'
  BY <1>1 DEF WalletInv, TypeOK, DepositInv, CallInv, PostedInv
<1>3. AnswerInv'
  BY <1>1 DEF WalletInv, TypeOK, AnswerInv
<1>4. QED
  BY <1>2, <1>3 DEF WalletInv

\* The ledger service is asked what the deposit was translated to.
LEMMA CallKeepsInv ==
    ASSUME WalletInv, NEW c \in Call, CallLedger(c)
    PROVE  WalletInv'
<1> DEFINE r == LedgerRequest(c, deposit[c])
           lost == [code |-> "InvalidArgument", tx |-> None]
<1>1. /\ UNCHANGED <<posted, funds, linked, deposit, result>>
      /\ pc[c] = "post" /\ pc' = [pc EXCEPT ![c] = "wait"]
      /\ request' = [request EXCEPT ![c] = r]
      /\ \/ status' = [status EXCEPT ![c] = "busy"] /\ answer' = answer
         \/ /\ status' = [status EXCEPT ![c] = "done"]
            /\ answer' = [answer EXCEPT ![c] = lost]
  BY DEF CallLedger, LedgerService!Ask, LedgerService!Invalid,
         LedgerService!Err
<1>2. /\ status[c] = "idle" /\ deposit[c].amount > 0
      /\ deposit[c].user \in linked
  BY <1>1 DEF WalletInv, DepositInv
<1> HIDE DEF r
<1>3. TypeOK'
  BY <1>1 DEF WalletInv, TypeOK
<1>4. DepositInv'
  BY <1>1 DEF WalletInv, TypeOK, DepositInv
<1>5. /\ DOMAIN request' = Call /\ request'[c] = r
      /\ \A a \in Call \ {c} : /\ request'[a] = request[a]
                              /\ status'[a] = status[a]
                              /\ answer'[a] = answer[a]
      /\ status'[c] # "idle" /\ answer'[c].code # "OK"
      /\ answer' \in [Call -> Answer]
  <2>1. /\ DOMAIN request = Call /\ status \in [Call -> {"idle", "busy", "done"}]
        /\ answer \in [Call -> Answer]
        /\ answer[c].code # "OK"
    BY <1>2 DEF WalletInv, TypeOK, CallInv, AnswerInv
  <2>2. lost \in Answer /\ lost.code # "OK"
    BY DEF Answer
  <2> HIDE DEF lost
  <2>3. QED
    BY <1>1, <2>1, <2>2
<1>6. CallInv'
  BY <1>1, <1>2, <1>5 DEF WalletInv, CallInv, LedgerRequest, r
<1>7. PostedInv'
  BY <1>1, <1>5 DEF WalletInv, PostedInv
<1>8. AnswerInv'
  BY <1>1, <1>2, <1>5 DEF WalletInv, TypeOK, AnswerInv
<1>9. QED
  BY <1>3, <1>4, <1>6, <1>7, <1>8 DEF WalletInv

\* The ledger service posts the transaction of the deposit.
LEMMA PostFacts ==
    ASSUME WalletInv, NEW c \in Call, LedgerService!Post(c)
    PROVE  /\ status[c] = "busy" /\ deposit[c] \in Deposits
           /\ deposit[c].amount > 0 /\ deposit[c].user \in linked
           /\ \A t \in posted : t.key # deposit[c].key
           /\ posted' = posted \cup
                 {[id |-> c, key |-> deposit[c].key,
                   postings |-> Postings(deposit[c])]}
           /\ funds' = [p \in Pair |-> funds[p]
                           + LedgerService!Delta(Postings(deposit[c]), p)]
           /\ funds' \in [Pair -> Int64]
           /\ UNCHANGED <<status, request, answer>>
<1>1. /\ status[c] = "busy"
      /\ \A t \in posted : t.key # request[c].key
      /\ posted' = posted \cup
            {[id |-> c, key |-> request[c].key,
              postings |-> request[c].postings]}
      /\ funds' = [p \in Pair |-> funds[p]
                      + LedgerService!Delta(request[c].postings, p)]
      /\ \A p \in Pair : funds'[p] \in Int64
      /\ UNCHANGED <<status, request, answer>>
  BY SameDomain DEF LedgerService!Post
<1>2. /\ deposit[c] \in Deposits /\ request[c].key = deposit[c].key
      /\ request[c].postings = Postings(deposit[c])
      /\ deposit[c].amount > 0 /\ deposit[c].user \in linked
  BY <1>1, CallFacts
<1>3. QED
  BY <1>1, <1>2

\* A posting keeps the invariant.
LEMMA PostKeepsInv ==
    ASSUME WalletInv, NEW c \in Call, LedgerService!Post(c),
           UNCHANGED walletVars
    PROVE  WalletInv'
<1>1. UNCHANGED <<linked, pc, deposit, result, status, request, answer>>
  BY PostFacts DEF walletVars
<1>2. TypeOK'
  BY <1>1, PostFacts, PostingsFacts DEF WalletInv, TypeOK
<1>3. DepositInv' /\ CallInv' /\ AnswerInv'
  BY <1>1, PostFacts DEF WalletInv, DepositInv, CallInv, AnswerInv
<1>4. PostedInv'
  BY <1>1, PostFacts DEF WalletInv, PostedInv
<1>5. QED
  BY <1>2, <1>3, <1>4 DEF WalletInv

\* It answers a call, with OK when the key of the call has been posted.
LEMMA AnswerKeepsInv ==
    ASSUME WalletInv, NEW c \in Call, LedgerAnswers(c)
    PROVE  WalletInv'
<1>1. PICK a \in Answer :
         /\ status[c] = "busy"
         /\ status' = [status EXCEPT ![c] = "done"]
         /\ answer' = [answer EXCEPT ![c] = a]
         /\ UNCHANGED <<posted, funds, request>>
         /\ a.code = "OK" => \E t \in posted :
                                t.id = a.tx /\ t.key = request[c].key
  <2>1. CASE LedgerService!Acknowledge(c)
    <3>1. PICK t \in posted : t.key = request[c].key
                  /\ LedgerService!Finish(c, LedgerService!Ok(t.id))
      BY <2>1 DEF LedgerService!Acknowledge
    <3>2. [code |-> "OK", tx |-> t.id] \in Answer
      BY DEF WalletInv, PostedInv, Answer
    <3>3. QED
      BY <3>1, <3>2 DEF LedgerService!Finish, LedgerService!Ok
  <2>2. CASE LedgerService!Refuse(c) \/ LedgerService!Unsure(c)
    <3>1. PICK e \in {"FailedPrecondition", "Internal"} :
             LedgerService!Finish(c, LedgerService!Err(e))
      BY <2>2 DEF LedgerService!Refuse, LedgerService!Unsure
    <3>2. [code |-> e, tx |-> None] \in Answer
      BY DEF Answer
    <3>3. QED
      BY <3>1, <3>2 DEF LedgerService!Finish, LedgerService!Err
  <2>3. QED
    BY <2>1, <2>2 DEF LedgerAnswers
<1>2. UNCHANGED <<linked, pc, deposit, result>>
  BY DEF LedgerAnswers, walletVars
<1>3. TypeOK' /\ DepositInv' /\ CallInv' /\ PostedInv'
  BY <1>1, <1>2 DEF WalletInv, TypeOK, DepositInv, CallInv, PostedInv
<1>4. AnswerInv'
  BY <1>1, <1>2 DEF WalletInv, TypeOK, AnswerInv
<1>5. QED
  BY <1>3, <1>4 DEF WalletInv

\* It stops, and leaves some calls unanswered.
LEMMA StopKeepsInv ==
    ASSUME WalletInv, NEW C \in SUBSET Call, LedgerService!Stop(C),
           UNCHANGED walletVars
    PROVE  WalletInv'
<1> DEFINE lost == [code |-> "Lost", tx |-> None]
<1>1. /\ \A c \in C : status[c] = "busy"
      /\ status' = [c \in Call |-> IF c \in C THEN "done" ELSE status[c]]
      /\ answer' = [c \in Call |-> IF c \in C THEN lost ELSE answer[c]]
      /\ UNCHANGED <<posted, funds, request, linked, pc, deposit, result>>
  BY DEF LedgerService!Stop, LedgerService!Err, walletVars
<1>2. lost \in Answer /\ lost.code # "OK"
  BY DEF Answer
<1> HIDE DEF lost
<1>3. TypeOK' /\ DepositInv' /\ CallInv' /\ PostedInv'
  BY <1>1 DEF WalletInv, TypeOK, DepositInv, CallInv, PostedInv
<1>4. AnswerInv'
  BY <1>1, <1>2 DEF WalletInv, TypeOK, AnswerInv
<1>5. QED
  BY <1>3, <1>4 DEF WalletInv

\* The wallet process dies.
LEMMA CrashKeepsInv == ASSUME WalletInv, Crash PROVE WalletInv'
<1> DEFINE D == {c \in Call : pc[c] \in {"resolve", "post", "wait"}}
<1>1. PICK C \in SUBSET Call :
         /\ \A c \in C : pc[c] # "new"
         /\ pc' = [c \in Call |-> IF c \in C THEN "done" ELSE pc[c]]
         /\ result' = [c \in Call |->
                         IF c \in C THEN [code |-> "Unanswered", tx |-> None]
                         ELSE result[c]]
         /\ UNCHANGED <<posted, funds, status, request, answer>>
         /\ UNCHANGED <<linked, deposit>>
  <2>1. D \in SUBSET Call /\ \A c \in D : pc[c] # "new"
    OBVIOUS
  <2>2. /\ pc' = [c \in Call |-> IF c \in D THEN "done" ELSE pc[c]]
        /\ result' = [c \in Call |->
                        IF c \in D THEN [code |-> "Unanswered", tx |-> None]
                        ELSE result[c]]
        /\ UNCHANGED <<posted, funds, status, request, answer>>
        /\ UNCHANGED <<linked, deposit>>
    BY DEF Crash, Result, ledgerVars
  <2> HIDE DEF D
  <2>3. QED
    BY <2>1, <2>2
<1>2. TypeOK' /\ DepositInv' /\ CallInv' /\ PostedInv'
  BY <1>1 DEF WalletInv, TypeOK, DepositInv, CallInv, PostedInv
<1>3. AnswerInv'
  BY <1>1 DEF WalletInv, TypeOK, AnswerInv
<1>4. QED
  BY <1>2, <1>3 DEF WalletInv

\* Every step keeps the invariant.
LEMMA NextWalletInv == WalletInv /\ [Next]_vars => WalletInv'
<1> SUFFICES ASSUME WalletInv, [Next]_vars PROVE WalletInv'
  OBVIOUS
<1>1. CASE \E u \in User : Link(u)
  <2>1. PICK u \in User : /\ linked' = linked \cup {u}
                         /\ UNCHANGED <<posted, funds, status, request, answer>>
                         /\ UNCHANGED <<pc, deposit, result>>
    BY <1>1 DEF Link, ledgerVars
  <2>2. TypeOK' /\ DepositInv' /\ CallInv' /\ PostedInv'
    BY <2>1 DEF WalletInv, TypeOK, DepositInv, CallInv, PostedInv
  <2>3. AnswerInv'
    BY <2>1 DEF WalletInv, AnswerInv
  <2>4. QED
    BY <2>2, <2>3 DEF WalletInv
<1>2. ASSUME NEW c \in Call, \E d \in Deposits : Receive(c, d)
      PROVE  WalletInv'
  BY <1>2, ReceiveKeepsInv
<1>3. ASSUME NEW c \in Call, Resolve(c) PROVE WalletInv'
  BY <1>3, ResolveKeepsInv
<1>4. ASSUME NEW c \in Call, UnknownUser(c) PROVE WalletInv'
  BY <1>4, ReturnKeepsInv DEF UnknownUser
<1>5. ASSUME NEW c \in Call, CallLedger(c) PROVE WalletInv'
  BY <1>5, CallKeepsInv
<1>6. ASSUME NEW c \in Call, Deliver(c) PROVE WalletInv'
  <2>1. /\ pc[c] = "wait" /\ status[c] = "done"
        /\ UNCHANGED <<ledgerVars, linked, deposit>>
    BY <1>6 DEF Deliver
  <2>2. CASE answer[c].code = "OK"
    <3>1. Return(c, Result("OK", answer[c].tx))
      BY <1>6, <2>2 DEF Deliver
    <3>2. answer[c].tx \in Call \cup {None}
      BY DEF WalletInv, AnswerInv, Answer
    <3>3. \E t \in posted :
             t.id = answer[c].tx /\ t.key = deposit[c].key
      BY <2>1, <2>2, CallFacts DEF WalletInv, AnswerInv
    <3>4. QED
      BY <2>1, <3>1, <3>2, <3>3, ReturnKeepsInv
  <2>3. CASE answer[c].code # "OK"
    <3>1. PICK e \in {"NotFound", "InvalidArgument", "FailedPrecondition",
                     "Internal"} : Return(c, Result(e, None))
      BY <1>6, <2>3 DEF Deliver, MapDownstreamError
    <3>2. QED
      BY <2>1, <3>1, ReturnKeepsInv
  <2>4. QED
    BY <2>2, <2>3
<1>7. ASSUME NEW c \in Call, Broken(c) PROVE WalletInv'
  BY <1>7, ReturnKeepsInv DEF Broken
<1>8. ASSUME NEW c \in Call, LedgerAnswers(c) PROVE WalletInv'
  BY <1>8, AnswerKeepsInv
<1>9. CASE Crash
  BY <1>9, CrashKeepsInv
<1>10. CASE LedgerStep
  BY <1>10, PostKeepsInv, StopKeepsInv DEF LedgerStep
<1>11. CASE UNCHANGED vars
  <2>1. UNCHANGED <<posted, funds, status, request, answer>>
        /\ UNCHANGED <<linked, pc, deposit, result>>
    BY <1>11 DEF vars, ledgerVars, walletVars
  <2>2. TypeOK' /\ DepositInv' /\ CallInv' /\ PostedInv'
    BY <2>1 DEF WalletInv, TypeOK, DepositInv, CallInv, PostedInv
  <2>3. AnswerInv'
    BY <2>1 DEF WalletInv, AnswerInv
  <2>4. QED
    BY <2>2, <2>3 DEF WalletInv
<1>12. QED
  BY <1>1, <1>2, <1>3, <1>4, <1>5, <1>6, <1>7, <1>8, <1>9, <1>10, <1>11
     DEF Next, Finished

\* TypeOK: every variable keeps to the values the code allows, and clients are
\* told only the codes that mapDownstreamError lets through.
THEOREM WalletTypeCorrect == Spec => []TypeOK
<1>1. Spec => []WalletInv
  BY InitWalletInv, NextWalletInv, PTL DEF Spec
<1>2. QED
  BY <1>1, PTL DEF WalletInv

-----------------------------------------------------------------------------
(* Balances.                                                               *)

\* A step that changes the balances of users posts a deposit.
LEMMA BalancesChangeByPosting ==
    ASSUME [Next]_vars
    PROVE  \/ /\ UNCHANGED <<posted, funds>>
           \/ \E c \in Call : LedgerService!Post(c) /\ UNCHANGED walletVars
<1>1. CASE UNCHANGED ledgerVars
  BY <1>1 DEF ledgerVars
<1>2. ASSUME NEW c \in Call, CallLedger(c) \/ LedgerAnswers(c)
      PROVE  UNCHANGED <<posted, funds>>
  BY <1>2 DEF CallLedger, LedgerAnswers, LedgerService!Ask,
              LedgerService!Invalid, LedgerService!Acknowledge,
              LedgerService!Refuse, LedgerService!Unsure, LedgerService!Finish
<1>3. CASE LedgerStep
  BY <1>3 DEF LedgerStep, LedgerService!Stop
<1>4. QED
  BY <1>1, <1>2, <1>3 DEF Next, Link, Receive, Resolve, UnknownUser, Deliver,
                          Broken, Crash, Finished, vars

\* What a posting does to the balance of a user.
LEMMA PostChangesOneBalance ==
    ASSUME WalletInv, NEW c \in Call, LedgerService!Post(c), NEW u \in User
    PROVE  /\ funds[<<u, BTC>>] \in Int
           /\ funds'[<<u, BTC>>] = funds[<<u, BTC>>] +
                  IF deposit[c].user = u THEN deposit[c].amount ELSE 0
<1>1. <<u, BTC>> \in Pair
  BY WalletAssumption DEF Pair
<1>2. /\ deposit[c] \in Deposits /\ deposit[c].amount > 0
      /\ deposit[c].user \in User
      /\ funds'[<<u, BTC>>] = funds[<<u, BTC>>]
                + LedgerService!Delta(Postings(deposit[c]), <<u, BTC>>)
  BY <1>1, PostFacts DEF WalletInv, TypeOK
<1>3. funds[<<u, BTC>>] \in Int64 /\ Int64 \subseteq Int
  BY <1>1, DomainAssumption DEF WalletInv, TypeOK, Int64
<1>4. QED
  BY <1>2, <1>3, DeltaOfDeposit

\* OnlyLinkedUsersAreCredited: Deposit posts for a user only after
\* GetLedgerAccount found it, and no answer that comes late, no crash and no
\* retry posts for another one.
THEOREM CreditsFollowRegistration == Spec => []OnlyLinkedUsersAreCredited
<1>1. Init => OnlyLinkedUsersAreCredited
  <2>1. \A u \in User : <<u, BTC>> \in Pair
    BY WalletAssumption DEF Pair
  <2>2. Init => funds = [p \in Pair |-> 0]
    BY SameDomain DEF Init, LedgerService!Init
  <2>3. QED
    BY <2>1, <2>2 DEF OnlyLinkedUsersAreCredited
<1>2. WalletInv /\ OnlyLinkedUsersAreCredited /\ [Next]_vars
         => OnlyLinkedUsersAreCredited'
  <2> SUFFICES ASSUME WalletInv, OnlyLinkedUsersAreCredited, [Next]_vars,
                      NEW u \in User, funds'[<<u, BTC>>] # 0
               PROVE  u \in linked'
    BY DEF OnlyLinkedUsersAreCredited
  <2>1. linked \subseteq linked'
    BY DEF Next, Link, Receive, Resolve, UnknownUser, CallLedger, Deliver,
           Broken, Crash, LedgerAnswers, LedgerStep, Finished, vars, walletVars
  <2>2. CASE UNCHANGED <<posted, funds>>
    BY <2>1, <2>2 DEF OnlyLinkedUsersAreCredited
  <2>3. ASSUME NEW c \in Call, LedgerService!Post(c) PROVE u \in linked
    <3>1. deposit[c].user \in linked
      BY <2>3, PostFacts
    <3>2. CASE deposit[c].user = u
      BY <3>1, <3>2
    <3>3. CASE deposit[c].user # u
      <4>1. funds[<<u, BTC>>] # 0
        BY <2>3, <3>3, PostChangesOneBalance
      <4>2. QED
        BY <4>1 DEF OnlyLinkedUsersAreCredited
    <3>4. QED
      BY <3>2, <3>3
  <2>4. QED
    BY <2>1, <2>2, <2>3, BalancesChangeByPosting
<1>3. QED
  BY <1>1, <1>2, InitWalletInv, NextWalletInv, PTL DEF Spec

\* The deposits to user u that the ledger has posted.
Paid(u) == {deposit[t.id] : t \in {s \in posted : deposit[s.id].user = u}}

AmountOf == [d \in Deposits |-> d.amount]

PaidInv == \A u \in User : funds[<<u, BTC>>] = SumOver(AmountOf, Paid(u))

\* What clients promise: no two deposits have the same key.
UniqueKeys == \A d, e \in Deposits : d.key = e.key => d = e

\* ConfirmedDepositIsPosted: when clients give each deposit a key of its own, a
\* deposit that is answered OK has been posted for its user and its amount.
\* wallet_shared_key shows that the condition is needed.
THEOREM ConfirmedDepositsArePosted ==
    ASSUME UniqueKeys PROVE Spec => []ConfirmedDepositIsPosted
<1>1. WalletInv => ConfirmedDepositIsPosted
  <2> SUFFICES ASSUME WalletInv, NEW c \in Call, result[c].code = "OK"
               PROVE  \E t \in posted : /\ t.id = result[c].tx
                                        /\ t.postings = Postings(deposit[c])
    BY DEF ConfirmedDepositIsPosted
  <2>1. PICK t \in posted : t.id = result[c].tx /\ t.key = deposit[c].key
    BY DEF WalletInv, AnswerInv
  <2>2. /\ t = [id |-> t.id, key |-> deposit[t.id].key,
                postings |-> Postings(deposit[t.id])]
        /\ t.id \in Call /\ status[t.id] # "idle"
    BY DEF WalletInv, PostedInv
  <2>3. deposit[t.id] \in Deposits
    BY <2>2, CallFacts
  <2>4. deposit[c] \in Deposits
    <3>1. pc[c] = "done"
      BY DEF WalletInv, AnswerInv
    <3>2. QED
      BY <3>1 DEF WalletInv, DepositInv
  <2>5. deposit[t.id].key = deposit[c].key
    BY <2>1, <2>2
  <2>6. deposit[t.id] = deposit[c]
    BY <2>3, <2>4, <2>5 DEF UniqueKeys
  <2>7. QED
    BY <2>1, <2>2, <2>6
<1>2. QED
  BY <1>1, InitWalletInv, NextWalletInv, PTL DEF Spec

\* What is confirmed has been posted, what has been posted was asked for.
LEMMA ConfirmedPaidAsked ==
    ASSUME WalletInv, UniqueKeys, NEW u \in User
    PROVE  Confirmed(u) \subseteq Paid(u) /\ Paid(u) \subseteq Asked(u)
<1>1. ASSUME NEW t \in posted
      PROVE  /\ t.id \in Call /\ pc[t.id] # "new"
             /\ deposit[t.id] \in Deposits /\ deposit[t.id].amount > 0
             /\ t.key = deposit[t.id].key
  <2>1. /\ t.id \in Call /\ status[t.id] # "idle"
        /\ t = [id |-> t.id, key |-> deposit[t.id].key,
                postings |-> Postings(deposit[t.id])]
    BY DEF WalletInv, PostedInv
  <2>2. t.key = deposit[t.id].key
    BY <2>1
  <2>3. QED
    BY <2>1, <2>2, CallFacts
<1>2. ASSUME NEW c \in Call, result[c].code = "OK", deposit[c].user = u
      PROVE  deposit[c] \in Paid(u)
  <2>1. PICK t \in posted : t.key = deposit[c].key
    BY <1>2 DEF WalletInv, AnswerInv
  <2>2. deposit[c] \in Deposits
    BY <1>2 DEF WalletInv, AnswerInv, DepositInv
  <2>3. deposit[t.id] = deposit[c]
    BY <1>1, <2>1, <2>2 DEF UniqueKeys
  <2>4. QED
    BY <1>2, <2>3 DEF Paid
<1>3. Confirmed(u) \subseteq Paid(u)
  BY <1>2 DEF Confirmed
<1>4. Paid(u) \subseteq Asked(u)
  BY <1>1 DEF Paid, Asked
<1>5. QED
  BY <1>3, <1>4

\* What was asked for can be added up.
LEMMA AskedAddsUp ==
    ASSUME WalletInv, IsFiniteSet(Call), NEW u
    PROVE  /\ IntegersOn(AmountOf, Asked(u)) /\ Asked(u) \subseteq Deposits
           /\ \A d \in Asked(u) : AmountOf[d] >= 0
<1> DEFINE C == {a \in Call : pc[a] # "new" /\ deposit[a].user = u
                               /\ deposit[a].amount > 0}
<1>1. IsFiniteSet(C)
  BY FS_Subset
<1>2. Asked(u) = {deposit[c] : c \in C}
  BY DEF Asked
<1>3. IsFiniteSet(Asked(u))
  <2> DEFINE S == {deposit[c] : c \in C}
  <2>1. IsFiniteSet(S)
    <3> DEFINE of == [c \in C |-> deposit[c]]
    <3>1. of \in Surjection(C, S)
      BY DEF Surjection
    <3> HIDE DEF C, S, of
    <3>2. QED
      BY <1>1, <3>1, FS_Surjection
  <2>2. QED
    BY <1>2, <2>1
<1>4. Asked(u) \subseteq Deposits /\ \A d \in Asked(u) : d.amount > 0
  BY <1>2 DEF WalletInv, DepositInv
<1>5. \A d \in Deposits : d.amount \in Int
  BY WalletAssumption, DomainAssumption DEF Int64
<1>6. QED
  BY <1>3, <1>4, <1>5 DEF IntegersOn, AmountOf

\* Every step keeps the balances equal to what was posted.
LEMMA NextPaidInv ==
    ASSUME WalletInv, PaidInv, [Next]_vars, IsFiniteSet(Call), UniqueKeys
    PROVE  PaidInv'
<1>1. CASE UNCHANGED <<posted, funds>>
  <2>1. \A t \in posted : deposit'[t.id] = deposit[t.id]
    <3>1. ASSUME NEW t \in posted
          PROVE  t.id \in Call /\ pc[t.id] # "new"
      BY CallFacts DEF WalletInv, PostedInv
    <3>2. deposit \in [Call -> Deposits \cup {None}]
      BY DEF WalletInv, TypeOK
    <3>3. \/ deposit' = deposit
          \/ \E c \in Call : pc[c] = "new" /\ \E d \in Deposits :
                deposit' = [deposit EXCEPT ![c] = d]
      BY DEF Next, Link, Receive, Resolve, UnknownUser, CallLedger, Deliver,
             Broken, Crash, LedgerAnswers, LedgerStep, Finished, vars,
             walletVars
    <3>4. QED
      BY <3>1, <3>2, <3>3
  <2>2. \A u \in User : Paid(u)' = Paid(u)
    BY <1>1, <2>1 DEF Paid
  <2>3. QED
    BY <1>1, <2>2 DEF PaidInv
<1>2. ASSUME NEW c \in Call, LedgerService!Post(c), UNCHANGED walletVars,
             NEW u \in User
      PROVE  funds'[<<u, BTC>>] = SumOver(AmountOf, Paid(u)')
  <2> DEFINE d == deposit[c]
  <2>1. /\ d \in Deposits /\ UNCHANGED deposit
        /\ posted' = posted \cup {[id |-> c, key |-> d.key,
                                   postings |-> Postings(d)]}
        /\ \A t \in posted : t.key # d.key
    BY <1>2, PostFacts DEF walletVars
  <2>2. Paid(u)' = Paid(u) \cup (IF d.user = u THEN {d} ELSE {})
    <3> DEFINE new == [id |-> c, key |-> d.key, postings |-> Postings(d)]
    <3>1. new.id = c /\ posted' = posted \cup {new}
      BY <2>1
    <3> HIDE DEF new
    <3>2. Paid(u)' = {deposit[t.id] : t \in {s \in posted \cup {new} :
                                                deposit[s.id].user = u}}
      BY <2>1, <3>1 DEF Paid
    <3>3. QED
      BY <3>1, <3>2 DEF Paid
  <2>3. CASE d.user # u
    BY <1>2, <2>2, <2>3, PostChangesOneBalance DEF PaidInv
  <2>4. CASE d.user = u
    <3>1. d \notin Paid(u)
      <4>1. \A t \in posted : t.key = deposit[t.id].key
        <5>1. ASSUME NEW t \in posted
              PROVE  t = [id |-> t.id, key |-> deposit[t.id].key,
                          postings |-> Postings(deposit[t.id])]
          BY DEF WalletInv, PostedInv
        <5>2. QED
          BY <5>1
      <4>2. QED
        BY <2>1, <4>1 DEF Paid
    <3>2. Paid(u) \subseteq Asked(u) /\ d \in Asked(u)
      <4>1. pc[c] # "new" /\ d.amount > 0
        BY <1>2, PostFacts, CallFacts
      <4>2. QED
        BY <2>4, <4>1, ConfirmedPaidAsked DEF Asked
    <3>3. IntegersOn(AmountOf, Paid(u) \cup {d})
      BY <3>2, AskedAddsUp, FS_Subset DEF IntegersOn
    <3> HIDE DEF d
    <3>4. SumOver(AmountOf, Paid(u) \cup {d})
             = AmountOf[d] + SumOver(AmountOf, Paid(u))
      BY <3>1, <3>3, SumOverInsert
    <3>5. AmountOf[d] = d.amount /\ d.amount \in Int
      BY <2>1, <3>3 DEF AmountOf, IntegersOn
    <3>6. /\ funds[<<u, BTC>>] \in Int
          /\ funds'[<<u, BTC>>] = funds[<<u, BTC>>] + d.amount
      BY <1>2, <2>4, PostChangesOneBalance DEF d
    <3>7. funds[<<u, BTC>>] = SumOver(AmountOf, Paid(u))
      BY DEF PaidInv
    <3>8. QED
      BY <2>2, <2>4, <3>4, <3>5, <3>6, <3>7
  <2>5. QED
    BY <2>3, <2>4
<1>3. QED
  BY <1>1, <1>2, BalancesChangeByPosting DEF PaidInv

\* With it, the balances are between what was confirmed and what was asked for.
LEMMA PaidIsBetween ==
    ASSUME WalletInv, PaidInv, IsFiniteSet(Call), UniqueKeys
    PROVE  EachDepositCreditedOnce
<1> SUFFICES ASSUME NEW u \in User
             PROVE  /\ Total(Confirmed(u)) <= funds[<<u, BTC>>]
                    /\ funds[<<u, BTC>>] <= Total(Asked(u))
  BY DEF EachDepositCreditedOnce
<1>1. /\ Confirmed(u) \subseteq Paid(u) /\ Paid(u) \subseteq Asked(u)
      /\ Asked(u) \subseteq Deposits
      /\ IntegersOn(AmountOf, Asked(u)) /\ IntegersOn(AmountOf, Paid(u))
      /\ \A d \in Asked(u) : AmountOf[d] >= 0
  BY ConfirmedPaidAsked, AskedAddsUp, FS_Subset DEF IntegersOn
<1>2. ASSUME NEW D \in SUBSET Deposits
      PROVE  Total(D) = SumOver(AmountOf, D)
  <2>1. [d \in D |-> d.amount] = Part(AmountOf, D)
    BY DEF Part, AmountOf
  <2>2. QED
    BY <2>1 DEF Total, SumOver
<1>3. /\ SumOver(AmountOf, Confirmed(u)) <= SumOver(AmountOf, Paid(u))
      /\ SumOver(AmountOf, Paid(u)) <= SumOver(AmountOf, Asked(u))
  BY <1>1, SumOverPart
<1>4. QED
  BY <1>1, <1>2, <1>3 DEF PaidInv

\* EachDepositCreditedOnce: when clients give each deposit a key of its own, a
\* user owns every deposit that was confirmed to a client and none that was not
\* asked for, each once, whatever broke off, came late or was tried again.
THEOREM DepositsAreCreditedOnce ==
    ASSUME IsFiniteSet(Call), UniqueKeys
    PROVE  Spec => []EachDepositCreditedOnce
<1>1. Init => PaidInv
  <2> SUFFICES ASSUME Init, NEW u \in User
               PROVE  funds[<<u, BTC>>] = SumOver(AmountOf, Paid(u))
    BY DEF PaidInv
  <2>1. <<u, BTC>> \in Pair
    BY WalletAssumption DEF Pair
  <2>2. funds = [p \in Pair |-> 0] /\ posted = {}
    BY SameDomain DEF Init, LedgerService!Init
  <2>3. Paid(u) = {}
    BY <2>2 DEF Paid
  <2>4. QED
    BY <2>1, <2>2, <2>3, SumOverEmpty
<1>2. WalletInv /\ PaidInv /\ [Next]_vars => PaidInv'
  BY NextPaidInv
<1>3. WalletInv /\ PaidInv => EachDepositCreditedOnce
  BY PaidIsBetween
<1>4. QED
  BY <1>1, <1>2, <1>3, InitWalletInv, NextWalletInv, PTL DEF Spec

=============================================================================
