------------------------------ MODULE Lifecycle ------------------------------
(***************************************************************************)
(* The life of a process of the platform: run() of cmd/ledger, cmd/account *)
(* or cmd/wallet, from its first connection to its deferred calls, with    *)
(*   - the signal goroutine that cancels the context,                      *)
(*   - the WatchHealth goroutine that pings the database over a connection *)
(*     of the pool and publishes a gRPC health status (not in the wallet), *)
(*   - the unary RPC handlers, each of which needs a connection of the     *)
(*     same pool or, in the wallet, the connections to the other services, *)
(*   - the streams of the health service (Watch) and of reflection, which  *)
(*     need neither and last until their clients end them.                 *)
(* The database going down and up again is external.                       *)
(***************************************************************************)
EXTENDS Integers, Sequences, FiniteSets

CONSTANTS
    Process,      \* the processes to be checked
    Rpc,          \* handler goroutines; one that has ended may be used again
    PoolSize      \* SetMaxOpenConns

ASSUME LifecycleAssumption ==
    /\ Process \subseteq {"ledger", "account", "wallet"}
    /\ IsFiniteSet(Rpc)
    /\ PoolSize \in Nat \ {0}

VARIABLES
    process,      \* which process this is
    main,         \* where run() is
    cancelled,    \* the context is cancelled
    served,       \* run() got as far as Serve and has not failed there
    watcher,      \* where WatchHealth is
    status,       \* the health server's statuses
    rpc,          \* where each handler is
    dbUp          \* the database answers

vars == <<process, main, cancelled, served, watcher, status, rpc, dbUp>>

-----------------------------------------------------------------------------
(* The steps of run(), in the order of the code; the deferred calls come    *)
(* last, in the reverse order of their defer statements.                    *)

LedgerRun ==
    <<"ping", "announce", "watch", "listen", "serve",
      "tellEmpty", "tellOwn", "drain", "closeDatabase", "exit">>

AccountRun ==
    <<"ping", "announce", "watch", "listen", "serve",
      "tellEmpty", "tellOwn", "drain", "closeDatabase", "exit">>

WalletRun ==
    <<"dialAccount", "dialLedger", "announce", "listen", "serve",
      "tellEmpty", "tellOwn", "drain", "closeLedger", "closeAccount", "exit">>

Run == CASE process = "ledger"  -> LedgerRun
         [] process = "account" -> AccountRun
         [] process = "wallet"  -> WalletRun

\* The step after s.
After(s) == Run[1 + CHOOSE i \in DOMAIN Run : Run[i] = s]

\* Where an error returns to: the deferred calls registered so far.
Deferred == After("drain")

HasDatabase == process \in {"ledger", "account"}

\* The deferred calls, and what is left of the process after them.
Ending == {"closeDatabase", "closeLedger", "closeAccount", "exit"}

\* The two services the health server knows: the empty name, which
\* grpc_health_probe asks for by default, and the process's own name.
Service == {"", "own"}
Serving == {"UNKNOWN", "SERVING", "NOT_SERVING"}

Waiting == {r \in Rpc : rpc[r] = "waiting"}
Busy == {r \in Rpc : rpc[r] = "busy"}
Unary == Waiting \cup Busy
Streams == {r \in Rpc : rpc[r] = "streaming"}
InFlight == Unary \cup Streams

\* Handlers with a connection: a leaked one stays so (the code leaks none).
Holding == {r \in Rpc : rpc[r] \in {"busy", "leaked"}}

\* Connections in use, the watcher's included.
InUse == Cardinality(Holding) + (IF watcher = "connected" THEN 1 ELSE 0)

\* Mutant: the pool lets one connection too many out.
PoolUnbounded == HasDatabase => InUse <= PoolSize

PoolFree == HasDatabase => InUse < PoolSize

Init ==
    /\ process \in Process
    /\ main = Run[1]
    /\ cancelled = FALSE
    /\ served = FALSE
    /\ watcher = "none"
    /\ status = [s \in Service |-> "UNKNOWN"]
    /\ rpc = [r \in Rpc |-> "none"]
    /\ dbUp \in BOOLEAN

-----------------------------------------------------------------------------
(* run().                                                                  *)

\* The first ping: no database, or a signal already received, is an error.
Ping ==
    /\ main = "ping"
    /\ main' = IF dbUp /\ ~cancelled THEN After(main) ELSE Deferred
    /\ UNCHANGED <<process, cancelled, served, watcher, status, rpc, dbUp>>

\* grpc.NewClient connects to nothing yet; it may refuse the address.
Dial ==
    /\ \/ main = "dialAccount" /\ main' \in {After(main), "exit"}
       \/ main = "dialLedger" /\ main' \in {After(main), "closeAccount"}
    /\ UNCHANGED <<process, cancelled, served, watcher, status, rpc, dbUp>>

\* Both statuses are set, before anybody can ask.
Announce ==
    /\ main = "announce"
    /\ status' = [s \in Service |-> "SERVING"]
    /\ main' = After(main)
    /\ UNCHANGED <<process, cancelled, served, watcher, rpc, dbUp>>

\* go WatchHealth(...).
StartWatcher ==
    /\ main = "watch"
    /\ watcher' = "idle"
    /\ main' = After(main)
    /\ UNCHANGED <<process, cancelled, served, status, rpc, dbUp>>

\* net.Listen, and Serve in a goroutine: the port is free, or it is not.
Listen ==
    /\ main = "listen"
    /\ \/ main' = After(main) /\ served' = TRUE
       \/ main' = Deferred /\ UNCHANGED served
    /\ UNCHANGED <<process, cancelled, watcher, status, rpc, dbUp>>

\* Serve fails: run() returns without waiting for the handlers.
ServeFails ==
    /\ main = "serve"
    /\ served' = FALSE
    /\ main' = Deferred
    /\ UNCHANGED <<process, cancelled, watcher, status, rpc, dbUp>>

\* select chooses ctx.Done().
Stop ==
    /\ main = "serve"
    /\ cancelled
    /\ main' = After(main)
    /\ UNCHANGED <<process, cancelled, served, watcher, status, rpc, dbUp>>

\* The empty name is told first, then the process's own.
Tell(s) ==
    /\ main = IF s = "" THEN "tellEmpty" ELSE "tellOwn"
    /\ status' = [status EXCEPT ![s] = "NOT_SERVING"]
    /\ main' = After(main)
    /\ UNCHANGED <<process, cancelled, served, watcher, rpc, dbUp>>

\* Mutant: Stop() where the code has GracefulStop().
StopAtOnce ==
    /\ main = "drain"
    /\ main' = After(main)
    /\ UNCHANGED <<process, cancelled, served, watcher, status, rpc, dbUp>>

\* GracefulStop returns once no handler is left; it has no time limit.
Drained ==
    /\ main = "drain"
    /\ InFlight = {}
    /\ main' = After(main)
    /\ UNCHANGED <<process, cancelled, served, watcher, status, rpc, dbUp>>

\* The deferred db.Close() or conn.Close(), which wait for nobody.
Close ==
    /\ main \in Ending \ {"exit"}
    /\ main' = After(main)
    /\ UNCHANGED <<process, cancelled, served, watcher, status, rpc, dbUp>>

Main ==
    \/ Ping
    \/ Dial
    \/ Announce
    \/ StartWatcher
    \/ Listen
    \/ Stop
    \/ \E s \in Service : Tell(s)
    \/ Drained
    \/ Close

-----------------------------------------------------------------------------
(* The other goroutines, which stop with the process.                      *)

Running == main # "exit"

\* SIGTERM or an interrupt.
Signal ==
    /\ Running
    /\ ~cancelled
    /\ cancelled' = TRUE
    /\ UNCHANGED <<process, main, served, watcher, status, rpc, dbUp>>

\* A tick: select may choose it although the context is cancelled as well,
\* and then the ping fails at once.
Tick ==
    /\ Running
    /\ watcher = "idle"
    /\ watcher' = IF cancelled THEN "bad" ELSE "ping"
    /\ UNCHANGED <<process, main, cancelled, served, status, rpc, dbUp>>

\* PingContext gets a connection of the pool, as the handlers do.
PingConnects ==
    /\ Running
    /\ watcher = "ping"
    /\ PoolFree
    /\ watcher' = "connected"
    /\ UNCHANGED <<process, main, cancelled, served, status, rpc, dbUp>>

\* The database answers within the five seconds.
PingOk ==
    /\ Running
    /\ watcher = "connected"
    /\ dbUp
    /\ watcher' = "good"
    /\ UNCHANGED <<process, main, cancelled, served, status, rpc, dbUp>>

\* The five seconds are over without an answer, or even without a connection,
\* or the context was cancelled meanwhile.  A connection is given back.
PingFails ==
    /\ Running
    /\ \/ watcher = "ping" /\ (~PoolFree \/ cancelled)
       \/ watcher = "connected" /\ (~dbUp \/ cancelled)
    /\ watcher' = "bad"
    /\ UNCHANGED <<process, main, cancelled, served, status, rpc, dbUp>>

\* Mutant: the watcher keeps the empty name up to date as well.
PublishBoth ==
    /\ Running
    /\ watcher \in {"good", "bad"}
    /\ status' = [s \in Service |-> IF watcher = "good" THEN "SERVING"
                                                        ELSE "NOT_SERVING"]
    /\ watcher' = "idle"
    /\ UNCHANGED <<process, main, cancelled, served, rpc, dbUp>>

\* Mutant: a failed ping is logged and not published.
PublishGoodOnly ==
    /\ Running
    /\ watcher \in {"good", "bad"}
    /\ status' = [status EXCEPT !["own"] =
                      IF watcher = "good" THEN "SERVING" ELSE @]
    /\ watcher' = "idle"
    /\ UNCHANGED <<process, main, cancelled, served, rpc, dbUp>>

\* Mutant: the status never leaves NOT_SERVING again.
PublishBadOnly ==
    /\ Running
    /\ watcher \in {"good", "bad"}
    /\ status' = [status EXCEPT !["own"] =
                      IF watcher = "good" THEN @ ELSE "NOT_SERVING"]
    /\ watcher' = "idle"
    /\ UNCHANGED <<process, main, cancelled, served, rpc, dbUp>>

\* SetServingStatus, whatever run() has set in the meantime.
Publish ==
    /\ Running
    /\ watcher \in {"good", "bad"}
    /\ status' = [status EXCEPT !["own"] =
                      IF watcher = "good" THEN "SERVING" ELSE "NOT_SERVING"]
    /\ watcher' = "idle"
    /\ UNCHANGED <<process, main, cancelled, served, rpc, dbUp>>

\* select chooses ctx.Done(): WatchHealth returns.
WatchEnds ==
    /\ Running
    /\ watcher = "idle"
    /\ cancelled
    /\ watcher' = "ended"
    /\ UNCHANGED <<process, main, cancelled, served, status, rpc, dbUp>>

Watch == Tick \/ PingConnects \/ PingOk \/ PingFails \/ Publish \/ WatchEnds

\* Mutant: the listener stays open while the handlers are waited for.
AcceptsUntilClosed == main \in {"serve", "tellEmpty", "tellOwn", "drain"}

\* The server takes new RPCs until GracefulStop.
Accepts == main \in {"serve", "tellEmpty", "tellOwn"}

Arrive(r) ==
    /\ Accepts
    /\ rpc[r] = "none"
    /\ rpc' = [rpc EXCEPT ![r] = "waiting"]
    /\ UNCHANGED <<process, main, cancelled, served, watcher, status, dbUp>>

\* A client opens a stream: Health/Watch or ServerReflectionInfo.
OpenStream(r) ==
    /\ Accepts
    /\ rpc[r] = "none"
    /\ rpc' = [rpc EXCEPT ![r] = "streaming"]
    /\ UNCHANGED <<process, main, cancelled, served, watcher, status, dbUp>>

\* The client ends it; the server never does, since nothing calls hs.Shutdown
\* and GracefulStop waits.
CloseStream(r) ==
    /\ Running
    /\ rpc[r] = "streaming"
    /\ rpc' = [rpc EXCEPT ![r] = "none"]
    /\ UNCHANGED <<process, main, cancelled, served, watcher, status, dbUp>>

\* The handler gets a connection of the pool, or uses the wallet's two.
Acquire(r) ==
    /\ Running
    /\ rpc[r] = "waiting"
    /\ PoolFree
    /\ rpc' = [rpc EXCEPT ![r] = "busy"]
    /\ UNCHANGED <<process, main, cancelled, served, watcher, status, dbUp>>

\* The handler answers: its transaction has ended, or the database or the other
\* service failed it.
Answer(r) ==
    /\ Running
    /\ rpc[r] = "busy"
    /\ rpc' = [rpc EXCEPT ![r] = "none"]
    /\ UNCHANGED <<process, main, cancelled, served, watcher, status, dbUp>>

\* Mutant: no deferred Rollback, the connection stays with the handler.
PanicLeaking(r) ==
    /\ Running
    /\ rpc[r] = "busy"
    /\ rpc' = [rpc EXCEPT ![r] = "leaked"]
    /\ UNCHANGED <<process, main, cancelled, served, watcher, status, dbUp>>

\* The handler panics: the deferred Rollback gives the connection back and
\* RecoveryInterceptor keeps the process alive.
Panic(r) ==
    /\ Running
    /\ rpc[r] \in {"waiting", "busy"}
    /\ rpc' = [rpc EXCEPT ![r] = "none"]
    /\ UNCHANGED <<process, main, cancelled, served, watcher, status, dbUp>>

\* The database goes down or comes up.
Database ==
    /\ Running
    /\ dbUp' = ~dbUp
    /\ UNCHANGED <<process, main, cancelled, served, watcher, status, rpc>>

\* The process is gone.
Gone == main = "exit" /\ UNCHANGED vars

Next ==
    \/ Main
    \/ ServeFails
    \/ Signal
    \/ Watch
    \/ \E r \in Rpc : \/ Arrive(r) \/ Acquire(r) \/ Answer(r) \/ Panic(r)
                      \/ OpenStream(r) \/ CloseStream(r)
    \/ Database
    \/ Gone

\* Go runs every goroutine that can run, the ticker ticks, a ping ends after
\* five seconds at the latest, and unary handlers end: InnoDB bounds their lock
\* waits, the wallet's calls are answered (Wallet: EveryDepositAnswered) or break
\* off.  Nothing makes a client end its stream.
\* A connection given back goes to a waiter chosen at random (database/sql), so
\* that none is passed over for ever.
Fairness ==
    /\ WF_vars(Main)
    /\ WF_vars(Tick)
    /\ WF_vars(PingConnects \/ PingOk \/ PingFails)
    /\ WF_vars(Publish)
    /\ \A r \in Rpc : SF_vars(Acquire(r)) /\ WF_vars(Answer(r))

Spec == Init /\ [][Next]_vars /\ Fairness

-----------------------------------------------------------------------------

\* Every variable keeps to the values the code allows.
TypeOK ==
    /\ process \in Process
    /\ main \in {Run[i] : i \in DOMAIN Run}
    /\ cancelled \in BOOLEAN
    /\ served \in BOOLEAN
    /\ watcher \in {"none", "idle", "ping", "connected", "good", "bad", "ended"}
    /\ status \in [Service -> Serving]
    /\ rpc \in [Rpc -> {"none", "waiting", "busy", "streaming"}]
    /\ dbUp \in BOOLEAN
    /\ HasDatabase => InUse <= PoolSize

\* After a signal no connection is closed under a handler: GracefulStop lets
\* every RPC that was accepted finish with the database or the other services.
HandlersKeepConnections ==
    main \in Ending /\ served => InFlight = {}

\* A container probe, which asks for the empty name, sees the shutdown for as
\* long as the process drains, although the watcher may publish once more
\* after run() has told both names.
ProbeSeesShutdown ==
    main \in {"tellOwn", "drain"} => status[""] = "NOT_SERVING"

\* A database that stays down is reported while the process serves.
OutageIsPublished ==
    HasDatabase /\ <>[](~dbUp /\ main = "serve")
        => <>[](status["own"] = "NOT_SERVING")

\* A database that stays up, with a connection that the handlers leave to the
\* ping, is reported again, after an outage or after a busy pool.
RecoveryIsPublished ==
    HasDatabase /\ <>[](dbUp /\ main = "serve" /\ ~cancelled
                         /\ Cardinality(Holding) < PoolSize)
        => <>[](status["own"] = "SERVING")

\* A signal ends the process, unless clients hold it in GracefulStop for ever
\* by streams they do not end: no handler, ping or late RPC can.
ShutdownCompletes ==
    cancelled ~> \/ main = "exit"
                 \/ [](main = "drain" /\ InFlight = Streams /\ Streams # {})

\* Handlers that fail, panic or end give their connection back: no RPC waits
\* for one for ever, however many have come before it.
EveryRpcEnds ==
    \A r \in Rpc : rpc[r] = "waiting" ~> rpc[r] = "none" \/ main = "exit"

=============================================================================
