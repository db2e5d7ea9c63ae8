--------------------------- MODULE AccountsProofs ---------------------------
(***************************************************************************)
(* RegistrationInv is an inductive invariant of Accounts; with it the      *)
(* users are unique, OK means linked, and the handlers implement the       *)
(* registry, for any number of concurrent registrations.                   *)
(***************************************************************************)
EXTENDS AccountsInvariant, FiniteSetTheorems, TLAPS

-----------------------------------------------------------------------------
(* Steps that leave the tables alone.                                      *)

tables == <<users, links>>

\* What is known of the request of a call past Receive.
LEMMA RequestFacts ==
    ASSUME NEW r \in Request
    PROVE  r.key \in Key /\ r.email \in Email
BY AccountsAssumption

\* Strings that are labels of the code are never confused.
LEMMA AnswerFacts ==
    /\ NoAnswer \in Answer
    /\ NoAnswer.code # "OK"
    /\ \A e \in Codes : Err(e) \in Answer /\ Err(e).code # "OK" /\ Err(e).code = e
    /\ \A u \in Call : Ok(u) \in Answer /\ Ok(u).code = "OK" /\ Ok(u).user = u
BY DEF NoAnswer, Answer, Err, Ok, Codes

\* A call that ends with an error keeps the invariant, at whatever statement.
LEMMA EndStep ==
    ASSUME RegistrationInv, UNCHANGED <<tables, request, user>>,
           NEW C \in SUBSET Call,
           NEW e \in Codes,
           \A c \in C : pc[c] \notin {"new", "done"},
           pc' = [c \in Call |-> IF c \in C THEN "done" ELSE pc[c]],
           answer' = [c \in Call |-> IF c \in C THEN Err(e) ELSE answer[c]]
    PROVE  RegistrationInv'
<1>1. TypeOK'
  BY AnswerFacts DEF RegistrationInv, TypeOK, tables
<1>2. UsersAreUnique' /\ (\A l \in links : l.ledger = LedgerAccountID(l.user))'
  BY DEF RegistrationInv, UsersAreUnique, tables, LedgerAccountID
<1>3. (\A u \in users : UserInv(u))'
  BY DEF RegistrationInv, UserInv, tables, TypeOK, User
<1>4. ASSUME NEW c \in Call PROVE RequestInv(c)'
  BY DEF RegistrationInv, RequestInv
<1>5. ASSUME NEW c \in Call PROVE InsertInv(c)'
  BY DEF RegistrationInv, InsertInv, Clashes, tables
<1>6. ASSUME NEW c \in Call PROVE LinkingInv(c)'
  BY DEF RegistrationInv, LinkingInv, HasUser, IsLinked, tables
<1>7. ASSUME NEW c \in Call PROVE AnswerInv(c)'
  BY AnswerFacts DEF RegistrationInv, AnswerInv, HasUser, IsLinked, tables
<1>8. QED
  BY <1>1, <1>2, <1>3, <1>4, <1>5, <1>6, <1>7 DEF RegistrationInv

\* Return with an error is the case of one call.
LEMMA ReturnStep ==
    ASSUME RegistrationInv, NEW c \in Call, NEW e \in Codes,
           pc[c] \notin {"new", "done"}, Return(c, Err(e)),
           UNCHANGED <<users, links>>
    PROVE  RegistrationInv'
<1>1. /\ pc' = [d \in Call |-> IF d \in {c} THEN "done" ELSE pc[d]]
      /\ answer' = [d \in Call |-> IF d \in {c} THEN Err(e) ELSE answer[d]]
  BY DEF Return, RegistrationInv, TypeOK
<1>2. UNCHANGED <<tables, request, user>>
  BY DEF Return, tables
<1>3. QED
  BY <1>1, <1>2, EndStep

\* A statement that only moves on.
LEMMA GotoStep ==
    ASSUME RegistrationInv, NEW c \in Call, NEW label,
           label \in {"find", "insert", "commit", "linkInsert", "reply"},
           pc[c] \in {"begin", "find", "insert", "linkSelect", "linkInsert"},
           pc[c] \in {"linkSelect", "linkInsert"}
               <=> label \in {"linkInsert", "reply"},
           label = "commit" =>
               ~UniqueBusy(c) /\ \A u \in users : ~Clashes(c, u),
           label = "reply" => IsLinked(user[c]),
           Goto(c, label), UNCHANGED <<users, links, user>>
    PROVE  RegistrationInv'
<1>0. /\ \A d \in Call : pc'[d] = IF d = c THEN label ELSE pc[d]
      /\ pc \in [Call -> {"new", "begin", "linkSelect", "linkInsert", "reply",
                          "done"} \cup InTransaction]
  BY DEF Goto, RegistrationInv, TypeOK
<1>1. TypeOK'
  BY DEF RegistrationInv, TypeOK, Goto, InTransaction
<1>2. UsersAreUnique' /\ (\A l \in links : l.ledger = LedgerAccountID(l.user))'
  BY DEF RegistrationInv, UsersAreUnique, LedgerAccountID
<1>3. (\A u \in users : UserInv(u))'
  BY <1>0 DEF RegistrationInv, UserInv, TypeOK, User, Goto
<1>4. ASSUME NEW d \in Call PROVE RequestInv(d)'
  BY <1>0 DEF RegistrationInv, RequestInv, Goto
<1>5. ASSUME NEW d \in Call PROVE InsertInv(d)'
  BY <1>0 DEF RegistrationInv, InsertInv, UniqueBusy, Clashes, Goto
<1>6. ASSUME NEW d \in Call PROVE LinkingInv(d)'
  BY <1>0 DEF RegistrationInv, LinkingInv, HasUser, IsLinked, Goto
<1>7. ASSUME NEW d \in Call PROVE AnswerInv(d)'
  BY DEF RegistrationInv, AnswerInv, HasUser, IsLinked, Goto
<1>8. QED
  BY <1>1, <1>2, <1>3, <1>4, <1>5, <1>6, <1>7 DEF RegistrationInv

-----------------------------------------------------------------------------
(* The other actions.                                                      *)

\* A request arrives.
LEMMA ReceiveStep ==
    ASSUME RegistrationInv, NEW c \in Call, NEW r \in Request, Receive(c, r)
    PROVE  RegistrationInv'
<1>0. /\ request' = [request EXCEPT ![c] = r]
      /\ pc[c] = "new"
      /\ \/ pc' = [pc EXCEPT ![c] = "begin"] /\ UNCHANGED answer
         \/ /\ pc' = [pc EXCEPT ![c] = "done"]
            /\ answer' = [answer EXCEPT ![c] = Err("InvalidArgument")]
      /\ UNCHANGED <<users, links, user>>
  BY DEF Receive
<1>1. TypeOK'
  BY <1>0, AnswerFacts DEF RegistrationInv, TypeOK, Codes
<1>2. UsersAreUnique' /\ (\A l \in links : l.ledger = LedgerAccountID(l.user))'
  BY <1>0 DEF RegistrationInv, UsersAreUnique, LedgerAccountID
<1>3. (\A u \in users : UserInv(u))'
  BY <1>0 DEF RegistrationInv, UserInv, TypeOK, User
<1>4. ASSUME NEW d \in Call PROVE RequestInv(d)'
  BY <1>0 DEF RegistrationInv, RequestInv, TypeOK
<1>5. ASSUME NEW d \in Call PROVE InsertInv(d)'
  BY <1>0 DEF RegistrationInv, InsertInv, Clashes, TypeOK
<1>6. ASSUME NEW d \in Call PROVE LinkingInv(d)'
  BY <1>0 DEF RegistrationInv, LinkingInv, HasUser, IsLinked, TypeOK
<1>7. ASSUME NEW d \in Call PROVE AnswerInv(d)'
  BY <1>0, AnswerFacts
  DEF RegistrationInv, AnswerInv, RequestInv, HasUser, IsLinked, TypeOK, Codes
<1>8. QED
  BY <1>1, <1>2, <1>3, <1>4, <1>5, <1>6, <1>7 DEF RegistrationInv

\* The lookup of the key finds a user.
LEMMA ReplayStep ==
    ASSUME RegistrationInv, NEW c \in Call, Replay(c)
    PROVE  RegistrationInv'
<1>0. PICK v \in users : /\ v.key = request[c].key
                         /\ user' = [user EXCEPT ![c] = v.id]
  BY DEF Replay
<1>1. /\ pc[c] = "find"
      /\ pc' = [pc EXCEPT ![c] = "linkSelect"]
      /\ UNCHANGED <<users, links, request, answer>>
  BY DEF Replay, Goto
<1>2. TypeOK'
  BY <1>0, <1>1 DEF RegistrationInv, TypeOK, User
<1>3. UsersAreUnique' /\ (\A l \in links : l.ledger = LedgerAccountID(l.user))'
  BY <1>1 DEF RegistrationInv, UsersAreUnique, LedgerAccountID
<1>4. (\A u \in users : UserInv(u))'
  BY <1>1 DEF RegistrationInv, UserInv, TypeOK, User
<1>5. ASSUME NEW d \in Call PROVE RequestInv(d)'
  BY <1>1 DEF RegistrationInv, RequestInv, TypeOK
<1>6. ASSUME NEW d \in Call PROVE InsertInv(d)'
  BY <1>1 DEF RegistrationInv, InsertInv, Clashes, TypeOK
<1>7. ASSUME NEW d \in Call PROVE LinkingInv(d)'
  BY <1>0, <1>1 DEF RegistrationInv, LinkingInv, HasUser, IsLinked, TypeOK
<1>8. ASSUME NEW d \in Call PROVE AnswerInv(d)'
  BY <1>1 DEF RegistrationInv, AnswerInv, HasUser, IsLinked
<1>9. QED
  BY <1>2, <1>3, <1>4, <1>5, <1>6, <1>7, <1>8 DEF RegistrationInv

\* The new row has the email and the key of no other, committed or not.
LEMMA CommitStep ==
    ASSUME RegistrationInv, NEW c \in Call, Commit(c)
    PROVE  RegistrationInv'
<1> DEFINE v == [id |-> c, email |-> request[c].email, key |-> request[c].key]
<1>0. /\ pc[c] = "commit"
      /\ pc' = [pc EXCEPT ![c] = "linkSelect"]
      /\ users' = users \cup {v}
      /\ user' = [user EXCEPT ![c] = c]
      /\ UNCHANGED <<links, request, answer>>
  BY DEF Commit, Goto
<1>1. v \in User
  BY <1>0, RequestFacts DEF RegistrationInv, RequestInv, User
<1>2. TypeOK'
  BY <1>0, <1>1 DEF RegistrationInv, TypeOK
<1>3. /\ UsersAreUnique'
      /\ (\A l \in links : l.ledger = LedgerAccountID(l.user))'
  BY <1>0 DEF RegistrationInv, UsersAreUnique, InsertInv, Clashes, LedgerAccountID
<1>4. (\A u \in users : UserInv(u))'
  BY <1>0 DEF RegistrationInv, UserInv, TypeOK, User
<1>5. ASSUME NEW d \in Call PROVE RequestInv(d)'
  BY <1>0 DEF RegistrationInv, RequestInv, TypeOK
<1>6. ASSUME NEW d \in Call PROVE InsertInv(d)'
  BY <1>0 DEF RegistrationInv, InsertInv, Clashes, TypeOK
<1>7. ASSUME NEW d \in Call PROVE LinkingInv(d)'
  <2>1. v \in users' /\ v.id = c /\ v.key = request'[c].key
    BY <1>0
  <2>2. CASE d = c
    BY <1>0, <2>1, <2>2 DEF RegistrationInv, LinkingInv, HasUser, TypeOK
  <2>3. CASE d # c
    BY <1>0, <2>3 DEF RegistrationInv, LinkingInv, HasUser, IsLinked, TypeOK
  <2>4. QED
    BY <2>2, <2>3
<1>8. ASSUME NEW d \in Call PROVE AnswerInv(d)'
  BY <1>0 DEF RegistrationInv, AnswerInv, HasUser, IsLinked
<1>9. QED
  BY <1>2, <1>3, <1>4, <1>5, <1>6, <1>7, <1>8 DEF RegistrationInv

\* The INSERT of the link.
LEMMA LinkInsertStep ==
    ASSUME RegistrationInv, NEW c \in Call, LinkInsert(c)
    PROVE  RegistrationInv'
<1> DEFINE l0 == [user |-> user[c], ledger |-> LedgerAccountID(user[c])]
<1>0. /\ pc[c] = "linkInsert"
      /\ pc' = [pc EXCEPT ![c] = "reply"]
      /\ links' = links \cup {l0}
      /\ UNCHANGED <<users, request, user, answer>>
  BY DEF LinkInsert, Goto
<1>1. user[c] \in Call
  BY <1>0 DEF RegistrationInv, LinkingInv, HasUser, TypeOK, User
<1>2. l0 \in Link
  BY <1>1 DEF Link
<1>3. TypeOK'
  BY <1>0, <1>2 DEF RegistrationInv, TypeOK
<1>4. /\ UsersAreUnique'
      /\ (\A l \in links : l.ledger = LedgerAccountID(l.user))'
  BY <1>0 DEF RegistrationInv, UsersAreUnique, LedgerAccountID
<1>5. (\A u \in users : UserInv(u))'
  BY <1>0 DEF RegistrationInv, UserInv, TypeOK, User
<1>6. ASSUME NEW d \in Call PROVE RequestInv(d)'
  BY <1>0 DEF RegistrationInv, RequestInv, TypeOK
<1>7. ASSUME NEW d \in Call PROVE InsertInv(d)'
  BY <1>0 DEF RegistrationInv, InsertInv, Clashes, TypeOK
<1>8. ASSUME NEW d \in Call PROVE LinkingInv(d)'
  <2>1. l0 \in links' /\ l0.user = user'[c]
    BY <1>0
  <2>2. CASE d = c
    BY <1>0, <2>1, <2>2 DEF RegistrationInv, LinkingInv, HasUser, IsLinked, TypeOK
  <2>3. CASE d # c
    BY <1>0, <2>3 DEF RegistrationInv, LinkingInv, HasUser, IsLinked, TypeOK
  <2>4. QED
    BY <2>2, <2>3
<1>9. ASSUME NEW d \in Call PROVE AnswerInv(d)'
  BY <1>0 DEF RegistrationInv, AnswerInv, HasUser, IsLinked
<1>10. QED
  BY <1>3, <1>4, <1>5, <1>6, <1>7, <1>8, <1>9 DEF RegistrationInv

\* The answer OK.
LEMMA ReplyStep ==
    ASSUME RegistrationInv, NEW c \in Call, Reply(c)
    PROVE  RegistrationInv'
<1>0. /\ pc[c] = "reply"
      /\ pc' = [pc EXCEPT ![c] = "done"]
      /\ answer' = [answer EXCEPT ![c] = Ok(user[c])]
      /\ UNCHANGED <<users, links, request, user>>
  BY DEF Reply, Return
<1>1. user[c] \in Call /\ HasUser(c, user[c]) /\ IsLinked(user[c])
  BY <1>0 DEF RegistrationInv, LinkingInv, HasUser, TypeOK, User
<1>2. TypeOK'
  BY <1>0, <1>1, AnswerFacts DEF RegistrationInv, TypeOK
<1>3. UsersAreUnique' /\ (\A l \in links : l.ledger = LedgerAccountID(l.user))'
  BY <1>0 DEF RegistrationInv, UsersAreUnique, LedgerAccountID
<1>4. (\A u \in users : UserInv(u))'
  BY <1>0 DEF RegistrationInv, UserInv, TypeOK, User
<1>5. ASSUME NEW d \in Call PROVE RequestInv(d)'
  BY <1>0 DEF RegistrationInv, RequestInv, TypeOK
<1>6. ASSUME NEW d \in Call PROVE InsertInv(d)'
  BY <1>0 DEF RegistrationInv, InsertInv, Clashes, TypeOK
<1>7. ASSUME NEW d \in Call PROVE LinkingInv(d)'
  BY <1>0 DEF RegistrationInv, LinkingInv, HasUser, IsLinked, TypeOK
<1>8. ASSUME NEW d \in Call PROVE AnswerInv(d)'
  BY <1>0, <1>1, AnswerFacts
  DEF RegistrationInv, AnswerInv, HasUser, IsLinked, TypeOK
<1>9. QED
  BY <1>2, <1>3, <1>4, <1>5, <1>6, <1>7, <1>8 DEF RegistrationInv

-----------------------------------------------------------------------------
(* The invariant.                                                          *)

\* The empty schema.
LEMMA InitRegistrationInv == Init => RegistrationInv
BY AnswerFacts
DEF Init, RegistrationInv, TypeOK, UsersAreUnique, RequestInv, InsertInv,
    LinkingInv, AnswerInv

\* Every step of a handler keeps the invariant.
LEMMA NextRegistrationInv ==
    ASSUME RegistrationInv, [Next]_vars PROVE RegistrationInv'
<1>1. CASE UNCHANGED vars
  BY <1>1 DEF vars, RegistrationInv, TypeOK, UsersAreUnique, UserInv,
              RequestInv, InsertInv, Clashes, LinkingInv, AnswerInv, HasUser,
              IsLinked, LedgerAccountID
<1>2. CASE Crash
  <2> DEFINE C == {c \in Call : pc[c] \notin {"new", "done"}}
  <2>1. /\ pc' = [c \in Call |-> IF c \in C THEN "done" ELSE pc[c]]
        /\ answer' = [c \in Call |-> IF c \in C THEN Err("Lost") ELSE answer[c]]
        /\ UNCHANGED <<tables, request, user>>
    BY <1>2 DEF Crash, tables
  <2>2. C \in SUBSET Call /\ "Lost" \in Codes
    BY DEF Codes
  <2>3. \A c \in C : pc[c] \notin {"new", "done"}
    OBVIOUS
  <2> HIDE DEF C
  <2>4. QED
    BY <2>1, <2>2, <2>3, EndStep
<1>3. ASSUME NEW c \in Call, Step(c) PROVE RegistrationInv'
  <2>1. CASE Begin(c)
    BY <2>1, GotoStep DEF Begin
  <2>2. CASE Replay(c)
    BY <2>2, ReplayStep
  <2>3. CASE NotCreated(c)
    BY <2>3, GotoStep DEF NotCreated
  <2>4. CASE InsertUser(c)
    BY <2>4, GotoStep DEF InsertUser
  <2>5. CASE DuplicateEntry(c)
    BY <2>5, ReturnStep DEF DuplicateEntry, Codes
  <2>6. CASE Commit(c)
    BY <2>6, CommitStep
  <2>7. CASE LinkSelect(c)
    BY <2>7, GotoStep DEF LinkSelect, IsLinked
  <2>8. CASE LinkInsert(c)
    BY <2>8, LinkInsertStep
  <2>9. CASE LinkDuplicate(c)
    BY <2>9, ReturnStep DEF LinkDuplicate, Codes
  <2>10. CASE Reply(c)
    BY <2>10, ReplyStep
  <2>11. QED
    BY <1>3, <2>1, <2>2, <2>3, <2>4, <2>5, <2>6, <2>7, <2>8, <2>9, <2>10
    DEF Step
<1>4. ASSUME NEW c \in Call, Fail(c) PROVE RegistrationInv'
  BY <1>4, ReturnStep DEF Fail, Codes
<1>5. ASSUME NEW c \in Call, NEW r \in Request, Receive(c, r)
      PROVE  RegistrationInv'
  BY <1>5, ReceiveStep
<1>6. QED
  BY <1>1, <1>2, <1>3, <1>4, <1>5 DEF Next, Disturb, Finished

\* What holds at every statement of every registration.
THEOREM RegistrationsKeepInv == Spec => []RegistrationInv
BY InitRegistrationInv, NextRegistrationInv, PTL DEF Spec

\* Every variable keeps to the values the code's types and tables allow.
THEOREM AccountsTypeCorrect == Spec => []TypeOK
<1>1. RegistrationInv => TypeOK
  BY DEF RegistrationInv
<1>2. QED
  BY <1>1, RegistrationsKeepInv, PTL

\* However many registrations race, a key or an email has one user.
THEOREM RegistrationsAreUnique == Spec => []UsersAreUnique
<1>1. RegistrationInv => UsersAreUnique
  BY DEF RegistrationInv
<1>2. QED
  BY <1>1, RegistrationsKeepInv, PTL

\* NoStandstill: of the calls in progress some can go on, for any number of
\* them and any pool.
THEOREM RegistrationsNeverStandStill == Spec => []NoStandstill
<1>1. TypeOK => NoStandstill
  <2> SUFFICES ASSUME TypeOK, NEW c \in Call, pc[c] \notin {"new", "done"},
                      \A d \in Call : ~CanGoOn(d)
               PROVE  FALSE
    BY DEF NoStandstill
  <2>1. \A d \in Call : pc[d] \notin {"find", "commit", "reply"}
    BY DEF CanGoOn
  <2>2. \A d \in Call : pc[d] # "insert"
    BY <2>1 DEF CanGoOn, UniqueBusy
  <2>3. PoolFree
    <3>1. Open = {}
      BY <2>1, <2>2 DEF Open, InTransaction
    <3>2. Cardinality(Open) = 0
      BY <3>1, FS_EmptySet
    <3>3. QED
      BY <3>2, AccountsAssumption DEF PoolFree
  <2>4. pc[c] \in {"begin", "linkSelect", "linkInsert"}
    BY <2>1, <2>2 DEF TypeOK, InTransaction
  <2>5. QED
    BY <2>3, <2>4 DEF CanGoOn
<1>2. QED
  BY <1>1, AccountsTypeCorrect, PTL

\* A caller told OK has a user that every lookup finds, with a ledger account.
THEOREM OkIsLinked == Spec => []OkMeansLinked
<1>1. ASSUME RegistrationInv PROVE OkMeansLinked
  <2> SUFFICES ASSUME NEW c \in Call, answer[c].code = "OK"
               PROVE  LET u == GetUser(answer[c].user) IN
                      /\ u # NotFound
                      /\ u.key = request[c].key
                      /\ GetUserByEmail(u.email) = u
                      /\ GetLedgerAccount(u.id) = LedgerAccountID(u.id)
    BY DEF OkMeansLinked
  <2>1. PICK v \in users : v.id = answer[c].user /\ v.key = request[c].key
    BY <1>1 DEF RegistrationInv, AnswerInv, HasUser
  <2>2. PICK l \in links : l.user = v.id
    BY <1>1, <2>1 DEF RegistrationInv, AnswerInv, IsLinked
  <2>3. \A w \in users : w.id = v.id => w = v
    BY <1>1, <2>1 DEF RegistrationInv, UsersAreUnique, UserInv
  <2>4. \A w \in users : w.email = v.email => w = v
    BY <1>1, <2>1 DEF RegistrationInv, UsersAreUnique
  <2>5. ASSUME NEW S, NEW x, S = {x} PROVE QueryRow(S) = x
    BY <2>5 DEF QueryRow
  <2>6. GetUser(v.id) = v
    <3>1. {w \in users : w.id = v.id} = {v}
      BY <2>1, <2>3
    <3>2. QED
      BY <3>1, <2>5 DEF GetUser
  <2>7. GetUserByEmail(v.email) = v
    <3>1. {w \in users : w.email = v.email} = {v}
      BY <2>1, <2>4
    <3>2. QED
      BY <3>1, <2>5 DEF GetUserByEmail
  <2>8. GetLedgerAccount(v.id) = LedgerAccountID(v.id)
    <3>1. {k.ledger : k \in {m \in links : m.user = v.id}}
            = {LedgerAccountID(v.id)}
      BY <1>1, <2>2 DEF RegistrationInv
    <3>2. QED
      BY <3>1, <2>5 DEF GetLedgerAccount
  <2>9. v # NotFound
    BY <1>1, <2>1 DEF RegistrationInv, TypeOK, User, NotFound
  <2>10. QED
    BY <2>1, <2>6, <2>7, <2>8, <2>9
<1>2. QED
  BY <1>1, RegistrationsKeepInv, PTL

-----------------------------------------------------------------------------
(* The refinement: a step of a handler is a step of the registry, or it    *)
(* changes nothing that the registry has.                                  *)

\* The registry starts empty too.
LEMMA InitRegistry == Init => Registry!Init
BY DEF Init, Registry!Init, Status, NoAnswer, Registry!Err

\* What a client sees of a step that moves a busy call on.
LEMMA StatusBusy ==
    ASSUME RegistrationInv, NEW c \in Call, NEW label,
           pc[c] \notin {"new", "done"}, label \notin {"new", "done"},
           pc' = [pc EXCEPT ![c] = label]
    PROVE  [d \in Call |-> Status(d)]' = [d \in Call |-> Status(d)]
BY DEF Status, RegistrationInv, TypeOK

\* ... and of one that ends it.
LEMMA StatusDone ==
    ASSUME RegistrationInv, NEW c \in Call,
           pc[c] \notin {"new", "done"},
           pc' = [pc EXCEPT ![c] = "done"]
    PROVE  /\ Status(c) = "busy"
           /\ [d \in Call |-> Status(d)]'
                = [[d \in Call |-> Status(d)] EXCEPT ![c] = "done"]
BY DEF Status, RegistrationInv, TypeOK

\* Ending a call is Finish.
LEMMA ReturnFinishes ==
    ASSUME RegistrationInv, NEW c \in Call, NEW a,
           pc[c] \notin {"new", "done"}, Return(c, a),
           UNCHANGED <<users, links>>
    PROVE  Registry!Finish(c, a)
BY StatusDone DEF Return, Registry!Finish

\* A statement that only moves on is none of the registry's business.
LEMMA GotoStutters ==
    ASSUME RegistrationInv, NEW c \in Call, NEW label,
           pc[c] \notin {"new", "done"}, label \notin {"new", "done"},
           Goto(c, label), UNCHANGED <<users, links>>
    PROVE  UNCHANGED Registry!vars
BY StatusBusy DEF Goto, Registry!vars

\* A step of one handler is one of the registry, or changes nothing of it.
LEMMA StepRefines ==
    ASSUME RegistrationInv, NEW c \in Call, Step(c)
    PROVE  Registry!Next \/ UNCHANGED Registry!vars
<1>1. CASE Begin(c)
  BY <1>1, GotoStutters DEF Begin
<1>2. CASE Replay(c)
  BY <1>2, GotoStutters DEF Replay
<1>3. CASE NotCreated(c)
  BY <1>3, GotoStutters DEF NotCreated
<1>4. CASE InsertUser(c)
  BY <1>4, GotoStutters DEF InsertUser
<1>5. CASE DuplicateEntry(c)
  <2>1. Registry!Finish(c, Registry!Err("AlreadyExists"))
    BY <1>5, ReturnFinishes DEF DuplicateEntry, Err, Registry!Err
  <2>2. Registry!EmailTaken(c)
    BY <1>5, <2>1, StatusDone
    DEF DuplicateEntry, Clashes, Registry!EmailTaken, Registry!Finish
  <2>3. QED
    BY <2>2 DEF Registry!Next
<1>6. CASE Commit(c)
  <2>1. \A u \in users : ~Clashes(c, u)
    BY <1>6 DEF Commit, RegistrationInv, InsertInv
  <2>2. /\ [d \in Call |-> Status(d)]' = [d \in Call |-> Status(d)]
        /\ Status(c) = "busy"
    BY <1>6, StatusBusy DEF Commit, Goto, Status
  <2>3. Registry!Create(c)
    BY <1>6, <2>1, <2>2 DEF Commit, Goto, Clashes, Registry!Create
  <2>4. QED
    BY <2>3 DEF Registry!Next
<1>7. CASE LinkSelect(c)
  BY <1>7, GotoStutters DEF LinkSelect
<1>8. CASE LinkInsert(c)
  <2>1. PICK v \in users : v.id = user[c] /\ v.key = request[c].key
    BY <1>8 DEF LinkInsert, RegistrationInv, LinkingInv, HasUser
  <2>2. /\ [d \in Call |-> Status(d)]' = [d \in Call |-> Status(d)]
        /\ Status(c) = "busy"
    BY <1>8, StatusBusy DEF LinkInsert, Goto, Status
  <2>3. {l.user : l \in links}' = {l.user : l \in links} \cup {v.id}
    <3>1. PICK l0 : l0.user = user[c] /\ links' = links \cup {l0}
      BY <1>8 DEF LinkInsert
    <3>2. \A u : u \in {l.user : l \in links}' <=>
                  u \in {l.user : l \in links} \/ u = v.id
      BY <2>1, <3>1
    <3>3. QED
      BY <3>2
  <2>4. v.id \notin {l.user : l \in links}
    BY <1>8, <2>1 DEF LinkInsert
  <2>5. UNCHANGED <<users, request, answer>>
    BY <1>8 DEF LinkInsert, Goto
  <2>6. Registry!Link(c)
    BY <2>1, <2>2, <2>3, <2>4, <2>5 DEF Registry!Link
  <2>7. QED
    BY <2>6 DEF Registry!Next
<1>9. CASE LinkDuplicate(c)
  <2>1. Registry!Finish(c, Registry!Err("Internal"))
    BY <1>9, ReturnFinishes DEF LinkDuplicate, Err, Registry!Err
  <2>2. QED
    BY <2>1 DEF Registry!Next, Registry!Unsure
<1>10. CASE Reply(c)
  <2>1. PICK v \in users : v.id = user[c] /\ v.key = request[c].key
    BY <1>10 DEF Reply, RegistrationInv, LinkingInv, HasUser
  <2>2. v.id \in {l.user : l \in links}
    BY <1>10, <2>1 DEF Reply, RegistrationInv, LinkingInv, IsLinked
  <2>3. Registry!Finish(c, Registry!Ok(v.id))
    BY <1>10, <2>1, ReturnFinishes DEF Reply, Ok, Registry!Ok
  <2>4. Registry!Acknowledge(c)
    BY <2>1, <2>2, <2>3 DEF Registry!Acknowledge, Registry!Finish
  <2>5. QED
    BY <2>4 DEF Registry!Next
<1>11. QED
  BY <1>1, <1>2, <1>3, <1>4, <1>5, <1>6, <1>7, <1>8, <1>9, <1>10 DEF Step

\* A request is taken, or refused at once.
LEMMA ReceiveRefines ==
    ASSUME RegistrationInv, NEW c \in Call, NEW r \in Request, Receive(c, r)
    PROVE  Registry!Next
<1>1. /\ pc[c] = "new"
      /\ request' = [request EXCEPT ![c] = r]
      /\ UNCHANGED <<users, links>>
  BY DEF Receive
<1>2. pc \in [Call -> {"new", "begin", "linkSelect", "linkInsert", "reply",
                       "done"} \cup InTransaction]
  BY DEF RegistrationInv, TypeOK
<1>3. CASE Validate(r)
  <2>1. pc' = [pc EXCEPT ![c] = "begin"] /\ UNCHANGED answer
    BY <1>3 DEF Receive
  <2>2. /\ Status(c) = "idle"
        /\ [d \in Call |-> Status(d)]'
             = [[d \in Call |-> Status(d)] EXCEPT ![c] = "busy"]
    BY <1>1, <1>2, <2>1 DEF Status
  <2>3. Registry!Ask(c, r)
    BY <1>1, <2>1, <2>2 DEF Registry!Ask
  <2>4. QED
    BY <2>3 DEF Registry!Next
<1>4. CASE ~Validate(r)
  <2>1. /\ pc' = [pc EXCEPT ![c] = "done"]
        /\ answer' = [answer EXCEPT ![c] = Err("InvalidArgument")]
    BY <1>4 DEF Receive
  <2>2. /\ Status(c) = "idle"
        /\ [d \in Call |-> Status(d)]'
             = [[d \in Call |-> Status(d)] EXCEPT ![c] = "done"]
    BY <1>1, <1>2, <2>1 DEF Status
  <2>3. Registry!Invalid(c, r)
    BY <1>1, <1>4, <2>1, <2>2
    DEF Validate, Err, Registry!Err, Registry!Invalid
  <2>4. QED
    BY <2>3 DEF Registry!Next
<1>5. QED
  BY <1>3, <1>4

\* So is the end of the process.
LEMMA CrashRefines ==
    ASSUME RegistrationInv, Crash PROVE Registry!Next
<1> DEFINE C == {c \in Call : pc[c] \notin {"new", "done"}}
<1>1. /\ pc' = [c \in Call |-> IF c \in C THEN "done" ELSE pc[c]]
      /\ answer' = [c \in Call |-> IF c \in C THEN Err("Lost") ELSE answer[c]]
      /\ UNCHANGED <<users, links, request>>
  BY DEF Crash
<1>2. \A c \in C : Status(c) = "busy"
  BY DEF Status
<1>3. [c \in Call |-> Status(c)]'
        = [c \in Call |-> IF c \in C THEN "done" ELSE Status(c)]
  BY <1>1 DEF Status
<1>4. Registry!Stop(C)
  BY <1>1, <1>2, <1>3 DEF Registry!Stop, Err, Registry!Err
<1>5. QED
  BY <1>4 DEF Registry!Next

\* Every step is one of the registry, or changes nothing of it.
LEMMA NextRefines ==
    ASSUME RegistrationInv, [Next]_vars
    PROVE  Registry!Next \/ UNCHANGED Registry!vars
<1>1. CASE UNCHANGED vars
  BY <1>1 DEF vars, Registry!vars, Status
<1>2. CASE Crash
  BY <1>2, CrashRefines
<1>3. ASSUME NEW c \in Call, Step(c)
      PROVE  Registry!Next \/ UNCHANGED Registry!vars
  BY <1>3, StepRefines
<1>4. ASSUME NEW c \in Call, Fail(c) PROVE Registry!Next
  <2>1. Registry!Finish(c, Registry!Err("Internal"))
    BY <1>4, ReturnFinishes DEF Fail, Err, Registry!Err
  <2>2. QED
    BY <2>1 DEF Registry!Next, Registry!Unsure
<1>5. ASSUME NEW c \in Call, NEW r \in Request, Receive(c, r)
      PROVE  Registry!Next
  BY <1>5, ReceiveRefines
<1>6. QED
  BY <1>1, <1>2, <1>3, <1>4, <1>5 DEF Next, Disturb, Finished

\* The handlers implement the registry: a transaction and two autocommit
\* queries act as one creation and at most one link.
THEOREM HandlersImplementRegistry == Spec => ImplementsRegistry
<1>1. RegistrationInv /\ [Next]_vars => [Registry!Next]_(Registry!vars)
  BY NextRefines
<1>2. QED
  BY InitRegistry, <1>1, RegistrationsKeepInv, PTL
  DEF Spec, ImplementsRegistry, Registry!Spec

=============================================================================
