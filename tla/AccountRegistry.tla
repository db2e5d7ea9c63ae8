--------------------------- MODULE AccountRegistry ---------------------------
(***************************************************************************)
(* What the account service promises its clients (comments of              *)
(* internal/account/repository.go, proto/account/v1): users are created    *)
(* and linked one at a time, each at one instant, and an answer tells what *)
(* was true at that instant.                                               *)
(***************************************************************************)
EXTENDS FiniteSets

CONSTANTS Call, Request, ValidEmail, None

VARIABLES
    users,        \* [id, email, key]
    linked,       \* ids of the users whose ledger account can be resolved
    status,       \* "idle", "busy" or "done" for each call
    request,
    answer

vars == <<users, linked, status, request, answer>>

Ok(u)  == [code |-> "OK", user |-> u]
Err(e) == [code |-> e, user |-> None]

Init ==
    /\ users = {}
    /\ linked = {}
    /\ status = [c \in Call |-> "idle"]
    /\ request = [c \in Call |-> None]
    /\ answer = [c \in Call |-> Err("none")]

Ask(c, r) ==
    /\ status[c] = "idle"
    /\ request' = [request EXCEPT ![c] = r]
    /\ status' = [status EXCEPT ![c] = "busy"]
    /\ UNCHANGED <<users, linked, answer>>

\* A registration without a key or with an address that is none is refused.
Invalid(c, r) ==
    /\ status[c] = "idle"
    /\ r.key = "" \/ r.email \notin ValidEmail
    /\ request' = [request EXCEPT ![c] = r]
    /\ status' = [status EXCEPT ![c] = "done"]
    /\ answer' = [answer EXCEPT ![c] = Err("InvalidArgument")]
    /\ UNCHANGED <<users, linked>>

\* Neither the key nor the email belongs to a user yet.
Create(c) ==
    LET r == request[c] IN
    /\ status[c] = "busy"
    /\ \A u \in users : u.key # r.key /\ u.email # r.email
    /\ users' = users \cup {[id |-> c, email |-> r.email, key |-> r.key]}
    /\ UNCHANGED <<linked, status, request, answer>>

\* The user of the call's key gets its ledger account.
Link(c) ==
    /\ status[c] = "busy"
    /\ \E u \in users : /\ u.key = request[c].key
                        /\ u.id \notin linked
                        /\ linked' = linked \cup {u.id}
    /\ UNCHANGED <<users, status, request, answer>>

Finish(c, a) ==
    /\ status[c] = "busy"
    /\ status' = [status EXCEPT ![c] = "done"]
    /\ answer' = [answer EXCEPT ![c] = a]
    /\ UNCHANGED <<users, linked, request>>

\* OK names the one user of the key, linked, whichever call created it.
Acknowledge(c) ==
    /\ status[c] = "busy"
    /\ \E u \in users : /\ u.key = request[c].key
                        /\ u.id \in linked
                        /\ Finish(c, Ok(u.id))

\* Somebody has the email, or the key.
EmailTaken(c) ==
    /\ status[c] = "busy"
    /\ \E u \in users : u.email = request[c].email \/ u.key = request[c].key
    /\ Finish(c, Err("AlreadyExists"))

\* An internal error leaves the caller not knowing what was done.
Unsure(c) == Finish(c, Err("Internal"))

\* The service stops: some calls are never answered.
Stop(C) ==
    /\ \A c \in C : status[c] = "busy"
    /\ status' = [c \in Call |-> IF c \in C THEN "done" ELSE status[c]]
    /\ answer' = [c \in Call |-> IF c \in C THEN Err("Lost") ELSE answer[c]]
    /\ UNCHANGED <<users, linked, request>>

Next ==
    \/ \E c \in Call :
          \/ \E r \in Request : Ask(c, r) \/ Invalid(c, r)
          \/ Create(c)
          \/ Link(c)
          \/ Acknowledge(c)
          \/ EmailTaken(c)
          \/ Unsure(c)
    \/ \E C \in SUBSET Call : Stop(C)

Spec == Init /\ [][Next]_vars

=============================================================================
