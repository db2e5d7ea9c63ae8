--------------------------- MODULE LifecycleProofs ---------------------------
(***************************************************************************)
(* The safety of start and shutdown, for any number of handlers and any    *)
(* size of the pool.                                                       *)
(***************************************************************************)
EXTENDS Lifecycle, FiniteSetTheorems, TLAPS

\* The steps of run() before Serve.
Starting == {"ping", "dialAccount", "dialLedger", "announce", "watch", "listen"}

\* Until Serve nothing is served, and no RPC is accepted.
StartInv == main \in Starting => ~served

\* What follows Serve, but for its failure, follows a signal.
StopInv == main \in {"tellEmpty", "tellOwn", "drain"} => cancelled

LifecycleInv ==
    /\ TypeOK
    /\ StartInv
    /\ StopInv
    /\ HandlersKeepConnections
    /\ ProbeSeesShutdown

-----------------------------------------------------------------------------
(* The steps of run() in their order.                                      *)

\* run() of cmd/ledger.
LEMMA LedgerSteps ==
    ASSUME process = "ledger"
    PROVE  /\ Run = LedgerRun
           /\ After("ping") = "announce"
           /\ After("announce") = "watch"
           /\ After("watch") = "listen"
           /\ After("listen") = "serve"
           /\ After("serve") = "tellEmpty"
           /\ After("tellEmpty") = "tellOwn"
           /\ After("tellOwn") = "drain"
           /\ After("drain") = "closeDatabase"
           /\ After("closeDatabase") = "exit"
<1>1. Run = LedgerRun
  BY DEF Run
<1>2. \A i, j \in 1 .. 10 : LedgerRun[i] = LedgerRun[j] => i = j
  BY DEF LedgerRun
<1>3. DOMAIN Run = 1 .. 10
  BY <1>1 DEF LedgerRun
<1>4. ASSUME NEW i \in 1 .. 9 PROVE After(LedgerRun[i]) = LedgerRun[i + 1]
  BY <1>1, <1>2, <1>3 DEF After
<1>5. QED
  BY <1>1, <1>4 DEF LedgerRun

\* run() of cmd/account.
LEMMA AccountSteps ==
    ASSUME process = "account"
    PROVE  /\ Run = AccountRun
           /\ After("ping") = "announce"
           /\ After("announce") = "watch"
           /\ After("watch") = "listen"
           /\ After("listen") = "serve"
           /\ After("serve") = "tellEmpty"
           /\ After("tellEmpty") = "tellOwn"
           /\ After("tellOwn") = "drain"
           /\ After("drain") = "closeDatabase"
           /\ After("closeDatabase") = "exit"
<1>1. Run = AccountRun
  BY DEF Run
<1>2. \A i, j \in 1 .. 10 : AccountRun[i] = AccountRun[j] => i = j
  BY DEF AccountRun
<1>3. DOMAIN Run = 1 .. 10
  BY <1>1 DEF AccountRun
<1>4. ASSUME NEW i \in 1 .. 9 PROVE After(AccountRun[i]) = AccountRun[i + 1]
  BY <1>1, <1>2, <1>3 DEF After
<1>5. QED
  BY <1>1, <1>4 DEF AccountRun

\* run() of cmd/wallet.
LEMMA WalletSteps ==
    ASSUME process = "wallet"
    PROVE  /\ Run = WalletRun
           /\ After("dialAccount") = "dialLedger"
           /\ After("dialLedger") = "announce"
           /\ After("announce") = "listen"
           /\ After("listen") = "serve"
           /\ After("serve") = "tellEmpty"
           /\ After("tellEmpty") = "tellOwn"
           /\ After("tellOwn") = "drain"
           /\ After("drain") = "closeLedger"
           /\ After("closeLedger") = "closeAccount"
           /\ After("closeAccount") = "exit"
<1>1. Run = WalletRun
  BY DEF Run
<1>2. \A i, j \in 1 .. 11 : WalletRun[i] = WalletRun[j] => i = j
  BY DEF WalletRun
<1>3. DOMAIN Run = 1 .. 11
  BY <1>1 DEF WalletRun
<1>4. ASSUME NEW i \in 1 .. 10 PROVE After(WalletRun[i]) = WalletRun[i + 1]
  BY <1>1, <1>2, <1>3 DEF After
<1>5. QED
  BY <1>1, <1>4 DEF WalletRun

\* The places a process may be in.
Mains == {Run[i] : i \in DOMAIN Run}

\* The steps that run() of each of the processes goes through.
LEMMA Places ==
    ASSUME process \in Process
    PROVE  \/ /\ HasDatabase
              /\ Mains = {"ping", "announce", "watch", "listen", "serve",
                          "tellEmpty", "tellOwn", "drain", "closeDatabase",
                          "exit"}
           \/ /\ ~HasDatabase
              /\ Mains = {"dialAccount", "dialLedger", "announce", "listen",
                          "serve", "tellEmpty", "tellOwn", "drain",
                          "closeLedger", "closeAccount", "exit"}
<1>1. process \in {"ledger", "account", "wallet"}
  BY LifecycleAssumption
<1>2. CASE process = "ledger"
  <2>1. Run = LedgerRun
    BY <1>2, LedgerSteps
  <2>2. DOMAIN Run = 1 .. 10
    BY <2>1 DEF LedgerRun
  <2>3. QED
    BY <1>2, <2>1, <2>2 DEF Mains, HasDatabase, LedgerRun
<1>3. CASE process = "account"
  <2>1. Run = AccountRun
    BY <1>3, AccountSteps
  <2>2. DOMAIN Run = 1 .. 10
    BY <2>1 DEF AccountRun
  <2>3. QED
    BY <1>3, <2>1, <2>2 DEF Mains, HasDatabase, AccountRun
<1>4. CASE process = "wallet"
  <2>1. Run = WalletRun
    BY <1>4, WalletSteps
  <2>2. DOMAIN Run = 1 .. 11
    BY <2>1 DEF WalletRun
  <2>3. QED
    BY <1>4, <2>1, <2>2 DEF Mains, HasDatabase, WalletRun
<1>5. QED
  BY <1>1, <1>2, <1>3, <1>4

\* A value of main is a place, and every place but "exit" has a next one.
LEMMA NextPlace ==
    ASSUME process \in Process, main \in Mains, main # "exit"
    PROVE  After(main) \in Mains /\ Deferred \in Mains /\ "exit" \in Mains
BY Places, LedgerSteps, AccountSteps, WalletSteps, LifecycleAssumption
DEF HasDatabase, Deferred

\* What the place after another one is, and where an error leads to.
LEMMA Following ==
    ASSUME process \in Process, main \in Mains, main # "exit"
    PROVE  /\ After(main) = "tellEmpty" => main = "serve"
           /\ After(main) = "tellOwn" => main = "tellEmpty"
           /\ After(main) = "drain" => main = "tellOwn"
           /\ After(main) \in Starting => main \in Starting
           /\ After(main) \in Ending => main \in Ending \cup {"drain"}
           /\ Deferred \in Ending
           /\ main = "drain" => After(main) = Deferred
           /\ main = "serve" => After(main) = "tellEmpty"
           /\ main = "listen" => After(main) = "serve"
BY Places, LedgerSteps, AccountSteps, WalletSteps, LifecycleAssumption
DEF HasDatabase, Deferred, Ending, Starting

-----------------------------------------------------------------------------
(* The connections in use.                                                 *)

\* The connections in use are those of the busy handlers and the watcher's.
LEMMA Counting ==
    /\ IsFiniteSet(Holding) /\ Cardinality(Holding) \in Nat
    /\ InUse \in Nat
    /\ InUse = Cardinality(Holding) + (IF watcher = "connected" THEN 1 ELSE 0)
    /\ TypeOK => Holding = Busy
<1>1. IsFiniteSet(Holding)
  BY FS_Subset, LifecycleAssumption DEF Holding
<1>2. Cardinality(Holding) \in Nat
  BY <1>1, FS_CardinalityType
<1>3. TypeOK => Holding = Busy
  BY DEF TypeOK, Holding, Busy
<1>4. QED
  BY <1>1, <1>2, <1>3 DEF InUse

\* A handler that gets a connection finds one that nobody, the watcher included,
\* is using.
LEMMA PoolBound ==
    ASSUME TypeOK, NEW r \in Rpc, PoolFree, HasDatabase, UNCHANGED watcher,
           rpc' = [rpc EXCEPT ![r] = "busy"]
    PROVE  InUse' <= PoolSize
<1>1. Holding' = Holding \cup {r}
  BY DEF Holding, TypeOK
<1>2. InUse < PoolSize
  BY DEF PoolFree
<1>3. \/ Cardinality(Holding \cup {r}) = Cardinality(Holding)
      \/ Cardinality(Holding \cup {r}) = Cardinality(Holding) + 1
  BY Counting, FS_AddElement
<1>4. InUse' = Cardinality(Holding') + (IF watcher = "connected" THEN 1 ELSE 0)
  BY DEF InUse
<1>5. QED
  BY <1>1, <1>2, <1>3, <1>4, Counting, LifecycleAssumption

\* A handler that gives its connection back, or has none, leaves no more in use.
LEMMA PoolShrinks ==
    ASSUME UNCHANGED watcher, Holding' \subseteq Holding
    PROVE  InUse' <= InUse
<1>1. /\ Cardinality(Holding') \in Nat
      /\ Cardinality(Holding') <= Cardinality(Holding)
  BY Counting, FS_Subset, FS_CardinalityType
<1>2. InUse' = Cardinality(Holding') + (IF watcher = "connected" THEN 1 ELSE 0)
  BY DEF InUse
<1>3. QED
  BY <1>1, <1>2, Counting

-----------------------------------------------------------------------------
(* The invariant.                                                          *)

\* The process starts.
LEMMA InitLifecycleInv == Init => LifecycleInv
<1> SUFFICES ASSUME Init PROVE LifecycleInv
  OBVIOUS
<1>1. Run[1] \in Mains /\ Run[1] \in Starting
  BY LedgerSteps, AccountSteps, WalletSteps, LifecycleAssumption
  DEF Init, Mains, Starting, LedgerRun, AccountRun, WalletRun
<1>2. InUse <= PoolSize
  <2>1. Holding = {} /\ watcher = "none"
    BY DEF Init, Holding
  <2>2. InUse = 0
    BY <2>1, Counting, FS_EmptySet
  <2>3. QED
    BY <2>2, LifecycleAssumption
<1>3. main \in {Run[i] : i \in DOMAIN Run} /\ process \in Process
  BY <1>1 DEF Init, Mains
<1>4. TypeOK
  BY <1>2, <1>3 DEF Init, TypeOK, Serving
<1>5. QED
  BY <1>1, <1>4
  DEF Init, LifecycleInv, StartInv, StopInv, HandlersKeepConnections,
      ProbeSeesShutdown, Starting, Ending

\* run() moves on; only the signal to drain and the end of the drain matter.
LEMMA MainStep ==
    ASSUME LifecycleInv, Main \/ ServeFails PROVE LifecycleInv'
<1>1. /\ process \in Process /\ main \in Mains
      /\ UNCHANGED <<process, cancelled, rpc, dbUp>>
      /\ main # "exit"
  BY DEF LifecycleInv, TypeOK, Mains, Main, ServeFails, Ping, Dial, Announce,
         StartWatcher, Listen, Stop, Tell, Drained, Close, Ending
<1>2. main' \in Mains
  BY <1>1, NextPlace, Places
  DEF Main, ServeFails, Ping, Dial, Announce, StartWatcher, Listen, Stop, Tell,
      Drained, Close
<1>3. TypeOK'
  <2>1. watcher' = watcher \/ watcher' = "idle"
    BY DEF Main, ServeFails, Ping, Dial, Announce, StartWatcher, Listen, Stop,
           Tell, Drained, Close
  <2>2. Holding' = Holding /\ HasDatabase' = HasDatabase /\ Run' = Run
    BY <1>1 DEF Holding, HasDatabase, Run
  <2>3. HasDatabase => InUse' <= PoolSize
    <3>1. InUse' = Cardinality(Holding) +
                      (IF watcher' = "connected" THEN 1 ELSE 0)
      BY <2>2 DEF InUse
    <3>2. HasDatabase => InUse <= PoolSize
      BY DEF LifecycleInv, TypeOK
    <3>3. QED
      BY <2>1, <3>1, <3>2, Counting, LifecycleAssumption
  <2>4. status' \in [Service -> Serving] /\ served' \in BOOLEAN
    BY DEF LifecycleInv, TypeOK, Serving, Service, Main, ServeFails, Ping, Dial,
           Announce, StartWatcher, Listen, Stop, Tell, Drained, Close
  <2>5. QED
    BY <1>1, <1>2, <2>1, <2>2, <2>3, <2>4 DEF LifecycleInv, TypeOK, Mains
<1>4. StartInv'
  BY <1>1, Following
  DEF LifecycleInv, StartInv, Starting, Ending, Main, ServeFails, Ping, Dial,
      Announce, StartWatcher, Listen, Stop, Tell, Drained, Close
<1>5. HandlersKeepConnections'
  BY <1>1, Following
  DEF LifecycleInv, StartInv, HandlersKeepConnections, InFlight, Unary, Waiting,
      Busy, Streams, Starting, Ending, Main, ServeFails, Ping, Dial, Announce,
      StartWatcher, Listen, Stop, Tell, Drained, Close
<1>6. ProbeSeesShutdown'
  BY <1>1, Following
  DEF LifecycleInv, TypeOK, ProbeSeesShutdown, Starting, Ending, Main,
      ServeFails, Ping, Dial, Announce, StartWatcher, Listen, Stop, Tell,
      Drained, Close, Service
<1>7. StopInv'
  BY <1>1, Following
  DEF LifecycleInv, StopInv, Starting, Ending, Main, ServeFails, Ping, Dial,
      Announce, StartWatcher, Listen, Stop, Tell, Drained, Close
<1>8. QED
  BY <1>3, <1>4, <1>5, <1>6, <1>7 DEF LifecycleInv

\* The watcher never writes the empty name, and takes no connection that is in
\* use.
LEMMA WatchStep ==
    ASSUME LifecycleInv, Watch \/ Signal \/ Database PROVE LifecycleInv'
<1>1. /\ UNCHANGED <<process, main, served, rpc>>
      /\ status' \in [Service -> Serving]
      /\ status'[""] = status[""]
  BY DEF LifecycleInv, TypeOK, Watch, Tick, PingConnects, PingOk, PingFails,
         Publish, WatchEnds, Signal, Database, Service, Serving
<1>2. /\ cancelled' \in BOOLEAN /\ (cancelled => cancelled')
      /\ dbUp' \in BOOLEAN
  BY DEF LifecycleInv, TypeOK, Watch, Tick, PingConnects, PingOk, PingFails,
         Publish, WatchEnds, Signal, Database
<1>3. /\ watcher' \in {"none", "idle", "ping", "connected", "good", "bad",
                       "ended"}
      /\ watcher' = "connected" =>
            watcher = "connected" \/ (watcher = "ping" /\ PoolFree)
  <2>1. CASE Watch
    BY <2>1 DEF Watch, Tick, PingConnects, PingOk, PingFails, Publish, WatchEnds
  <2>2. CASE Signal \/ Database
    <3>1. watcher' = watcher
      BY <2>2 DEF Signal, Database
    <3>2. watcher \in {"none", "idle", "ping", "connected", "good", "bad",
                      "ended"}
      BY DEF LifecycleInv, TypeOK
    <3>3. QED
      BY <3>1, <3>2
  <2>3. QED
    BY <2>1, <2>2
<1>4. HasDatabase' => InUse' <= PoolSize
  <2>1. HasDatabase' = HasDatabase /\ Holding' = Holding
    BY <1>1 DEF HasDatabase, Holding
  <2>2. InUse' = Cardinality(Holding) +
                    (IF watcher' = "connected" THEN 1 ELSE 0)
    BY <2>1 DEF InUse
  <2>3. HasDatabase => InUse <= PoolSize
    BY DEF LifecycleInv, TypeOK
  <2>4. CASE watcher' = "connected" /\ watcher # "connected"
    BY <1>3, <2>1, <2>2, <2>4, Counting, LifecycleAssumption DEF PoolFree
  <2>5. CASE ~(watcher' = "connected" /\ watcher # "connected")
    BY <2>1, <2>2, <2>3, <2>5, Counting, LifecycleAssumption
  <2>6. QED
    BY <2>4, <2>5
<1>5. TypeOK'
  BY <1>1, <1>2, <1>3, <1>4 DEF LifecycleInv, TypeOK, Run
<1>6. QED
  BY <1>1, <1>2, <1>5
  DEF LifecycleInv, StartInv, StopInv, HandlersKeepConnections, InFlight, Unary,
      Waiting, Busy, Streams, ProbeSeesShutdown

\* The steps of a handler or a stream.
RpcMoves(r) ==
    \/ Arrive(r) \/ Acquire(r) \/ Answer(r) \/ Panic(r)
    \/ OpenStream(r) \/ CloseStream(r)

\* No RPC arrives after the drain has ended, and none that ends comes back.
LEMMA RpcStep ==
    ASSUME LifecycleInv, NEW r \in Rpc, RpcMoves(r)
    PROVE  LifecycleInv'
<1>1. /\ UNCHANGED <<process, main, cancelled, served, watcher, status, dbUp>>
      /\ rpc' \in [Rpc -> {"none", "waiting", "busy", "streaming"}]
  BY DEF LifecycleInv, TypeOK, RpcMoves, Arrive, Acquire, Answer, Panic,
         OpenStream, CloseStream
<1>2. HasDatabase' => InUse' <= PoolSize
  <2> SUFFICES ASSUME HasDatabase PROVE InUse' <= PoolSize
    BY <1>1 DEF HasDatabase
  <2>1. CASE Acquire(r)
    BY <1>1, <2>1, PoolBound DEF LifecycleInv, Acquire
  <2>2. CASE ~Acquire(r)
    <3>1. Holding' \subseteq Holding
      BY <2>2 DEF LifecycleInv, TypeOK, Holding, RpcMoves, Arrive, Answer, Panic,
                  OpenStream, CloseStream
    <3>2. InUse' = Cardinality(Holding') +
                      (IF watcher' = "connected" THEN 1 ELSE 0)
      BY DEF InUse
    <3>3. InUse' \in Nat /\ InUse' <= InUse
      BY <1>1, <3>1, <3>2, PoolShrinks, Counting, FS_Subset, FS_CardinalityType
    <3>4. QED
      BY <3>3, Counting, LifecycleAssumption DEF LifecycleInv, TypeOK
  <2>3. QED
    BY <2>1, <2>2
<1>3. TypeOK'
  BY <1>1, <1>2 DEF LifecycleInv, TypeOK, Run
<1>4. HandlersKeepConnections'
  BY <1>1
  DEF LifecycleInv, TypeOK, HandlersKeepConnections, InFlight, Unary, Waiting,
      Busy, Streams, Ending, RpcMoves, Arrive, Accepts, Acquire, Answer, Panic,
      OpenStream, CloseStream
<1>5. QED
  BY <1>1, <1>3, <1>4 DEF LifecycleInv, StartInv, StopInv, ProbeSeesShutdown

\* Every step keeps the invariant.
LEMMA NextLifecycleInv ==
    ASSUME LifecycleInv, [Next]_vars PROVE LifecycleInv'
<1>1. CASE UNCHANGED vars
  BY <1>1
  DEF vars, LifecycleInv, TypeOK, Run, HasDatabase, InUse, Holding, StartInv,
      StopInv, HandlersKeepConnections, InFlight, Unary, Waiting, Busy, Streams,
      ProbeSeesShutdown
<1>2. CASE Main \/ ServeFails
  BY <1>2, MainStep
<1>3. CASE Watch \/ Signal \/ Database
  BY <1>3, WatchStep
<1>4. ASSUME NEW r \in Rpc, RpcMoves(r) PROVE LifecycleInv'
  BY <1>4, RpcStep
<1>5. QED
  BY <1>1, <1>2, <1>3, <1>4 DEF Next, Gone, RpcMoves

\* The inductive invariant of start and shutdown: run() serves nothing before
\* it has listened, and what the handlers use is open while they run.
THEOREM ProcessKeepsInv == Spec => []LifecycleInv
BY InitLifecycleInv, NextLifecycleInv, PTL DEF Spec

\* Every variable keeps to the values the code allows.
THEOREM LifecycleTypeCorrect == Spec => []TypeOK
<1>1. LifecycleInv => TypeOK
  BY DEF LifecycleInv
<1>2. QED
  BY <1>1, ProcessKeepsInv, PTL

\* No connection is closed under a handler after a signal.
THEOREM HandlersAreSafe == Spec => []HandlersKeepConnections
<1>1. LifecycleInv => HandlersKeepConnections
  BY DEF LifecycleInv
<1>2. QED
  BY <1>1, ProcessKeepsInv, PTL

\* The probe sees the shutdown, whatever the watcher still publishes.
THEOREM ShutdownIsSeen == Spec => []ProbeSeesShutdown
<1>1. LifecycleInv => ProbeSeesShutdown
  BY DEF LifecycleInv
<1>2. QED
  BY <1>1, ProcessKeepsInv, PTL

-----------------------------------------------------------------------------
(* A shutdown goes on, and comes to an end.                                *)

\* What a ping has still to do: get a connection, and give it back.
PingLeft == CASE watcher = "ping"      -> 2
              [] watcher = "connected" -> 1
              [] OTHER                 -> 0

\* What the handlers have still to do, get a connection and answer; what the
\* clients have to do, end their streams; and the ping.
WorkLeft ==
    2 * Cardinality(Waiting) + Cardinality(Busy) + Cardinality(Streams) + PingLeft

\* How far run() has come.
Place(s) == CHOOSE i \in DOMAIN Run : Run[i] = s

\* In GracefulStop a handler that has a connection can answer, or one that has
\* none can get it, or the ping that holds the last one breaks off, since its
\* context is cancelled: none holds what another needs and waits itself.
DrainCanGoOn ==
    main = "drain" /\ Unary # {} =>
        \/ Busy # {}
        \/ watcher = "connected" /\ cancelled
        \/ Waiting # {} /\ PoolFree

\* run() never goes back, and once it has been told to stop and accepts no RPC any
\* more, nothing adds to what is left to wait for, and every step of a handler, a
\* stream or a ping, and every connection given or taken, leaves less of it.
ShutdownRunsDown ==
    [][/\ main' # main => Place(main) < Place(main')
       /\ cancelled /\ ~Accepts =>
            /\ WorkLeft' <= WorkLeft
            /\ rpc' # rpc \/ InUse' # InUse => WorkLeft' < WorkLeft]_vars

\* The handlers and the watcher share the pool, and a drain blocks on neither: a
\* connection that is in use is with a handler that will answer or with a ping
\* whose context the signal has cancelled.
THEOREM DrainNeverBlocks == Spec => []DrainCanGoOn
<1>1. ASSUME LifecycleInv PROVE DrainCanGoOn
  <2> SUFFICES ASSUME main = "drain", Unary # {}, Busy = {},
                      ~(watcher = "connected" /\ cancelled)
               PROVE  Waiting # {} /\ PoolFree
    BY DEF DrainCanGoOn
  <2>1. Waiting # {}
    BY DEF Unary
  <2>2. watcher # "connected"
    BY <1>1 DEF LifecycleInv, StopInv
  <2>3. Holding = {}
    BY <1>1, Counting DEF LifecycleInv
  <2>4. InUse = 0
    BY <2>2, <2>3, Counting, FS_EmptySet
  <2>5. QED
    BY <2>1, <2>4, LifecycleAssumption DEF PoolFree
<1>2. QED
  BY <1>1, ProcessKeepsInv, PTL

\* The order of the steps of each process.
LEMMA PlacesInOrder ==
    ASSUME process \in Process, main \in Mains, main # "exit"
    PROVE  /\ Place(main) < Place(After(main))
           /\ main \in {"ping", "listen", "serve"} => Place(main) < Place(Deferred)
           /\ main = "dialAccount" => Place(main) < Place("exit")
           /\ main = "dialLedger" => Place(main) < Place("closeAccount")
<1>1. process \in {"ledger", "account", "wallet"}
  BY LifecycleAssumption
<1>2. CASE process = "ledger"
  <2>1. Run = LedgerRun /\ DOMAIN LedgerRun = 1 .. 10
    BY <1>2, LedgerSteps DEF LedgerRun
  <2>2. \A i, j \in 1 .. 10 : LedgerRun[i] = LedgerRun[j] => i = j
    BY DEF LedgerRun
  <2>3. \A i \in 1 .. 10 : Place(LedgerRun[i]) = i
    BY <2>1, <2>2 DEF Place
  <2>4. /\ Place("ping") = 1 /\ Place("announce") = 2 /\ Place("watch") = 3
        /\ Place("listen") = 4 /\ Place("serve") = 5 /\ Place("tellEmpty") = 6
        /\ Place("tellOwn") = 7 /\ Place("drain") = 8
        /\ Place("closeDatabase") = 9 /\ Place("exit") = 10
    BY <2>3 DEF LedgerRun
  <2>5. QED
    BY <1>2, <2>4, Places, LedgerSteps DEF HasDatabase, Deferred
<1>3. CASE process = "account"
  <2>1. Run = AccountRun /\ DOMAIN AccountRun = 1 .. 10
    BY <1>3, AccountSteps DEF AccountRun
  <2>2. \A i, j \in 1 .. 10 : AccountRun[i] = AccountRun[j] => i = j
    BY DEF AccountRun
  <2>3. \A i \in 1 .. 10 : Place(AccountRun[i]) = i
    BY <2>1, <2>2 DEF Place
  <2>4. /\ Place("ping") = 1 /\ Place("announce") = 2 /\ Place("watch") = 3
        /\ Place("listen") = 4 /\ Place("serve") = 5 /\ Place("tellEmpty") = 6
        /\ Place("tellOwn") = 7 /\ Place("drain") = 8
        /\ Place("closeDatabase") = 9 /\ Place("exit") = 10
    BY <2>3 DEF AccountRun
  <2>5. QED
    BY <1>3, <2>4, Places, AccountSteps DEF HasDatabase, Deferred
<1>4. CASE process = "wallet"
  <2>1. Run = WalletRun /\ DOMAIN WalletRun = 1 .. 11
    BY <1>4, WalletSteps DEF WalletRun
  <2>2. \A i, j \in 1 .. 11 : WalletRun[i] = WalletRun[j] => i = j
    BY DEF WalletRun
  <2>3. \A i \in 1 .. 11 : Place(WalletRun[i]) = i
    BY <2>1, <2>2 DEF Place
  <2>4. /\ Place("dialAccount") = 1 /\ Place("dialLedger") = 2
        /\ Place("announce") = 3 /\ Place("listen") = 4 /\ Place("serve") = 5
        /\ Place("tellEmpty") = 6 /\ Place("tellOwn") = 7
        /\ Place("drain") = 8 /\ Place("closeLedger") = 9
        /\ Place("closeAccount") = 10 /\ Place("exit") = 11
    BY <2>3 DEF WalletRun
  <2>5. QED
    BY <1>4, <2>4, Places, WalletSteps DEF HasDatabase, Deferred
<1>5. QED
  BY <1>1, <1>2, <1>3, <1>4

\* What is left to do is a number, and a set that loses an element loses one.
LEMMA WorkCounts ==
    /\ IsFiniteSet(Waiting) /\ IsFiniteSet(Busy) /\ IsFiniteSet(Streams)
    /\ Cardinality(Waiting) \in Nat /\ Cardinality(Busy) \in Nat
    /\ Cardinality(Streams) \in Nat
    /\ PingLeft \in 0 .. 2
<1>1. IsFiniteSet(Waiting) /\ IsFiniteSet(Busy) /\ IsFiniteSet(Streams)
  BY FS_Subset, LifecycleAssumption DEF Waiting, Busy, Streams
<1>2. PingLeft \in 0 .. 2
  BY DEF PingLeft
<1>3. QED
  BY <1>1, <1>2, FS_CardinalityType

\* One waiting handler less, and perhaps one busy more; or one busy less, or one
\* stream.
LEMMA LessWork ==
    ASSUME TypeOK, NEW r \in Rpc,
           Acquire(r) \/ Answer(r) \/ Panic(r) \/ CloseStream(r)
    PROVE  WorkLeft' < WorkLeft /\ WorkLeft' <= WorkLeft
<1>1. PingLeft' = PingLeft
  BY DEF PingLeft, Acquire, Answer, Panic, CloseStream
<1>2. CASE rpc[r] = "waiting"
  <2>1. /\ Waiting' = Waiting \ {r} /\ r \in Waiting
        /\ Streams' = Streams
    BY <1>2 DEF TypeOK, Waiting, Streams, Acquire, Answer, Panic, CloseStream
  <2>2. Cardinality(Waiting') = Cardinality(Waiting) - 1
    BY <2>1, WorkCounts, FS_RemoveElement
  <2>3. Busy' \in {Busy, Busy \cup {r}} /\ r \notin Busy
    BY <1>2 DEF TypeOK, Busy, Acquire, Answer, Panic, CloseStream
  <2>4. /\ Cardinality(Busy') <= Cardinality(Busy) + 1
        /\ Cardinality(Busy') \in Nat
    <3>1. Cardinality(Busy \cup {r}) = Cardinality(Busy) + 1
      BY <2>3, WorkCounts, FS_AddElement
    <3>2. CASE Busy' = Busy
      BY <3>2, WorkCounts
    <3>3. CASE Busy' = Busy \cup {r}
      BY <3>1, <3>3, WorkCounts
    <3>4. QED
      BY <2>3, <3>2, <3>3
  <2>5. QED
    BY <1>1, <2>1, <2>2, <2>4, WorkCounts DEF WorkLeft
<1>3. CASE rpc[r] = "busy"
  <2>1. /\ Busy' = Busy \ {r} /\ r \in Busy
        /\ Waiting' = Waiting /\ Streams' = Streams
    BY <1>3 DEF TypeOK, Busy, Waiting, Streams, Acquire, Answer, Panic,
                CloseStream
  <2>2. Cardinality(Busy') = Cardinality(Busy) - 1
    BY <2>1, WorkCounts, FS_RemoveElement
  <2>3. QED
    BY <1>1, <2>1, <2>2, WorkCounts DEF WorkLeft
<1>4. CASE rpc[r] = "streaming"
  <2>1. /\ Streams' = Streams \ {r} /\ r \in Streams
        /\ Waiting' = Waiting /\ Busy' = Busy
    BY <1>4 DEF TypeOK, Busy, Waiting, Streams, Acquire, Answer, Panic,
                CloseStream
  <2>2. Cardinality(Streams') = Cardinality(Streams) - 1
    BY <2>1, WorkCounts, FS_RemoveElement
  <2>3. QED
    BY <1>1, <2>1, <2>2, WorkCounts DEF WorkLeft
<1>5. QED
  BY <1>2, <1>3, <1>4 DEF Acquire, Answer, Panic, CloseStream

\* Where no handler moves and no ping begins, there is no more left to do, and less
\* if the watcher takes a connection or gives it back.
LEMMA NoMoreWork ==
    ASSUME UNCHANGED rpc,
           \/ watcher' = watcher
           \/ watcher' \notin {"ping", "connected"}
           \/ watcher = "ping" /\ watcher' = "connected"
    PROVE  /\ WorkLeft' <= WorkLeft
           /\ InUse' # InUse => WorkLeft' < WorkLeft
<1>1. /\ Waiting' = Waiting /\ Busy' = Busy /\ Streams' = Streams
      /\ Holding' = Holding
  BY DEF Waiting, Busy, Streams, Holding
<1>2. PingLeft' \in Nat /\ PingLeft' <= PingLeft
  BY DEF PingLeft
<1>3. ASSUME InUse' # InUse PROVE PingLeft' < PingLeft
  <2>1. \/ watcher = "ping" /\ watcher' = "connected"
        \/ watcher = "connected" /\ watcher' \notin {"ping", "connected"}
    BY <1>1, <1>3 DEF InUse
  <2>2. QED
    BY <2>1 DEF PingLeft
<1>4. QED
  BY <1>1, <1>2, <1>3, WorkCounts DEF WorkLeft

\* ShutdownRunsDown: with DrainNeverBlocks the safety half of ShutdownCompletes.
\* run() has at most eleven steps, and to wait for at most two of each handler,
\* one of each client with a stream, and two of the watcher.
THEOREM ShutdownEnds == Spec => ShutdownRunsDown
<1> DEFINE Down ==
      /\ main' # main => Place(main) < Place(main')
      /\ cancelled /\ ~Accepts =>
            /\ WorkLeft' <= WorkLeft
            /\ rpc' # rpc \/ InUse' # InUse => WorkLeft' < WorkLeft
<1>1. ASSUME LifecycleInv, Main \/ ServeFails PROVE Down
  <2>1. process \in Process /\ main \in Mains /\ process' = process
    BY <1>1 DEF LifecycleInv, TypeOK, Mains, Main, ServeFails, Ping, Dial,
       Announce, StartWatcher, Listen, Stop, Tell, Drained, Close
  <2>2. /\ main # "exit"
        /\ \/ main' = After(main)
           \/ main \in {"ping", "listen", "serve"} /\ main' = Deferred
           \/ main = "dialAccount" /\ main' = "exit"
           \/ main = "dialLedger" /\ main' = "closeAccount"
    BY <1>1 DEF Main, ServeFails, Ping, Dial, Announce, StartWatcher, Listen,
       Stop, Tell, Drained, Close, Ending
  <2>3. Place(main) < Place(main')
    BY <2>1, <2>2, PlacesInOrder
  <2>4. UNCHANGED rpc /\ (watcher' = watcher \/ watcher' = "idle")
    BY <1>1 DEF Main, ServeFails, Ping, Dial, Announce, StartWatcher, Listen,
       Stop, Tell, Drained, Close
  <2>5. QED
    BY <2>3, <2>4, NoMoreWork
<1>2. ASSUME Watch \/ Signal \/ Database \/ Gone \/ UNCHANGED vars PROVE Down
  <2>1. /\ UNCHANGED <<main, rpc>>
        /\ cancelled => \/ watcher' = watcher
                        \/ watcher' \notin {"ping", "connected"}
                        \/ watcher = "ping" /\ watcher' = "connected"
    BY <1>2 DEF Watch, Tick, PingConnects, PingOk, PingFails, Publish, WatchEnds,
       Signal, Database, Gone, vars
  <2>2. QED
    BY <2>1, NoMoreWork
<1>3. ASSUME LifecycleInv, NEW r \in Rpc, RpcMoves(r) PROVE Down
  <2>1. main' = main
    BY <1>3 DEF RpcMoves, Arrive, Acquire, Answer, Panic, OpenStream, CloseStream
  <2>2. ASSUME ~Accepts PROVE WorkLeft' < WorkLeft /\ WorkLeft' <= WorkLeft
    BY <1>3, <2>2, LessWork DEF LifecycleInv, RpcMoves, Arrive, OpenStream
  <2>3. QED
    BY <2>1, <2>2
<1>4. LifecycleInv /\ [Next]_vars => [Down]_vars
  BY <1>1, <1>2, <1>3 DEF Next, RpcMoves
<1>5. QED
  BY <1>4, ProcessKeepsInv, PTL DEF Spec, ShutdownRunsDown

=============================================================================
