------------------------------ MODULE Shutdown ------------------------------
(***************************************************************************)
(* How the process ends: main's run, server.Run, the readiness of          *)
(* RegisterHealth, the connections net/http keeps for the clients and the  *)
(* pool the handlers work with.  One run of the process, from the moment   *)
(* it serves.                                                              *)
(*                                                                         *)
(* A tick is about a second: the steps of the main goroutine that wait for *)
(* nothing take less, a handler takes as long as it likes.                 *)
(***************************************************************************)
EXTENDS Integers, FiniteSets

CONSTANTS
  Conns,       \* connections from clients, those of a load balancer among them
  PoolSize,    \* pool_max_conns
  Drain,       \* the budget of srv.Shutdown, in ticks
  Grace        \* stop_grace_period: ticks from SIGTERM to SIGKILL

ASSUME ConnsAreFinite == IsFiniteSet(Conns)
ASSUME SpansAreNat == PoolSize \in Nat \ {0} /\ Drain \in Nat /\ Grace \in Nat
ASSUME DrainFits == Drain < Grace

VARIABLES
  phase,         \* where the main goroutine is
  result,        \* what Run returned
  signalled,     \* ctx.Done() is closed
  waited,        \* ticks since the signal
  serveFailed,   \* ListenAndServe gave up with an error, now in serveErr
  inShutdown,    \* srv.Shutdown was called: the listener is closed
  notReady,      \* Health.shuttingDown
  conn,          \* what becomes of each client connection
  poolOpen,
  killed         \* by SIGKILL

vars == <<phase, result, signalled, waited, serveFailed, inShutdown, notReady,
          conn, poolOpen, killed>>

\* In the order the main goroutine goes through them.
Phases == {"serving", "hooked", "draining", "returned", "closing", "exited"}

\* new: accepted, no request yet.  handling, holding: a request is served,
\* without and with a connection of the pool.  readyz, probing: a readyz before
\* and after it read the flag.  idle: kept alive between two requests.
ConnStates == {"none", "new", "handling", "holding", "readyz", "probing", "idle"}

\* The last conjunct is the order of the deferred calls: as long as Run has not
\* returned the handlers have a pool.
TypeOK ==
  /\ phase \in Phases
  /\ result \in {"none", "nil", "error"}
  /\ waited \in 0 .. Grace
  /\ conn \in [Conns -> ConnStates]
  /\ {signalled, serveFailed, inShutdown, notReady, poolOpen, killed} \subseteq BOOLEAN
  /\ ~poolOpen => phase \in {"closing", "exited"}

Init ==
  /\ phase = "serving"
  /\ result = "none"
  /\ waited = 0
  /\ conn = [c \in Conns |-> "none"]
  /\ poolOpen = TRUE
  /\ signalled = FALSE /\ serveFailed = FALSE
  /\ inShutdown = FALSE /\ notReady = FALSE /\ killed = FALSE

-----------------------------------------------------------------------------
\* The connections.

In(states) == {c \in Conns : conn[c] \in states}
InService == In({"handling", "holding", "readyz", "probing"})

Becomes(c, to) ==
  /\ phase # "exited"
  /\ conn' = [conn EXCEPT ![c] = to]
  /\ UNCHANGED <<phase, result, signalled, waited, serveFailed, inShutdown,
                 notReady, poolOpen, killed>>

Accept(c) ==
  /\ conn[c] = "none"
  /\ ~serveFailed /\ ~inShutdown
  /\ Becomes(c, "new")

\* A request is read, also after the signal, and routed to a handler.
Request(c) ==
  /\ conn[c] \in {"new", "idle"}
  /\ \E to \in {"handling", "readyz"} : Becomes(c, to)

Hangup(c) ==
  /\ conn[c] \in {"new", "idle"}
  /\ Becomes(c, "none")

\* The answer is written, also when the handler panics (Recoverer).  Once
\* Shutdown was called no connection is kept alive.
Answered(c) == Becomes(c, IF inShutdown THEN "none" ELSE "idle")

Answer(c) ==
  /\ conn[c] = "handling"
  /\ Answered(c)

\* A handler takes a connection from the pool for a statement or a
\* transaction.  A closed pool gives none: the handler answers 500.
Acquire(c) ==
  /\ conn[c] = "handling"
  /\ poolOpen
  /\ Cardinality(In({"holding"})) < PoolSize
  /\ Becomes(c, "holding")

\* Mistake: a handler that drops its connection on the way down.
ReleaseUnlessStopping(c) ==
  /\ conn[c] = "holding" /\ ~inShutdown
  /\ Becomes(c, "handling")

\* The statement or the transaction ends, one way or the other.
Release(c) ==
  /\ conn[c] = "holding"
  /\ Becomes(c, "handling")

\* readyz: the flag comes before the probes.
ReadFlag(c) ==
  /\ conn[c] = "readyz"
  /\ IF notReady THEN Answered(c) ELSE Becomes(c, "probing")

\* pool.Ping, which takes no time here; a closed pool fails it.
Probe(c) ==
  /\ conn[c] = "probing"
  /\ Answered(c)

-----------------------------------------------------------------------------
\* The main goroutine.

Enters(next) == phase' = next /\ UNCHANGED <<signalled, waited, serveFailed>>

Returns(with) == Enters("returned") /\ result' = with /\ UNCHANGED <<conn, notReady, inShutdown, poolOpen, killed>>

Signal ==
  /\ phase # "exited"
  /\ ~signalled
  /\ signalled' = TRUE
  /\ UNCHANGED <<phase, result, waited, serveFailed, inShutdown, notReady, conn,
                 poolOpen, killed>>

ServeFails ==
  /\ phase # "exited"
  /\ ~serveFailed /\ ~inShutdown
  /\ serveFailed' = TRUE
  /\ UNCHANGED <<phase, result, signalled, waited, inShutdown, notReady, conn,
                 poolOpen, killed>>

\* The select of Run; with both channels ready it takes either.
RunFails ==
  /\ phase = "serving" /\ serveFailed
  /\ Returns("error")

\* Mistake: the hook is run after the drain.
HookLater ==
  /\ phase = "serving" /\ signalled
  /\ Enters("hooked")
  /\ UNCHANGED <<result, conn, inShutdown, notReady, poolOpen, killed>>

\* Mistake: the hook closes the pool too, under the handlers still at work.
HookClosesPool ==
  /\ phase = "serving" /\ signalled
  /\ Enters("hooked")
  /\ notReady' = TRUE /\ poolOpen' = FALSE
  /\ UNCHANGED <<result, conn, inShutdown, killed>>

\* ctx.Done(): onShutdown, which is health.NotReady.
Hook ==
  /\ phase = "serving" /\ signalled
  /\ Enters("hooked")
  /\ notReady' = TRUE
  /\ UNCHANGED <<result, conn, inShutdown, poolOpen, killed>>

\* srv.Shutdown: the listener is closed.
ShutDown ==
  /\ phase = "hooked"
  /\ Enters("draining")
  /\ inShutdown' = TRUE
  /\ UNCHANGED <<result, conn, notReady, poolOpen, killed>>

\* A round of Shutdown closes what is idle, and of the connections that have
\* had no request yet those older than five seconds.
CloseIdle ==
  /\ phase = "draining"
  /\ \E old \in SUBSET In({"new"}) :
       conn' = [c \in Conns |-> IF conn[c] = "idle" \/ c \in old THEN "none" ELSE conn[c]]
  /\ UNCHANGED <<phase, result, signalled, waited, serveFailed, inShutdown,
                 notReady, poolOpen, killed>>

\* Mistake: only the handlers in a transaction are waited for.
DrainedOfTransactions ==
  /\ phase = "draining"
  /\ In({"holding"}) = {}
  /\ Returns("nil")

\* Nothing is left; what remains is <-serveErr.
Drained ==
  /\ phase = "draining"
  /\ In(ConnStates) = In({"none"})
  /\ Returns(IF serveFailed THEN "error" ELSE "nil")

\* Mistake: the budget hangs from the cancelled context.
BudgetOfContext ==
  /\ phase = "draining"
  /\ In(ConnStates) # In({"none"})
  /\ Returns("error")

BudgetSpent ==
  /\ phase = "draining"
  /\ waited = Drain
  /\ In(ConnStates) # In({"none"})
  /\ Returns("error")

\* The deferred pool.Close gives out no more connections ...
ClosePool ==
  /\ phase = "returned"
  /\ Enters("closing")
  /\ poolOpen' = FALSE
  /\ UNCHANGED <<result, conn, inShutdown, notReady, killed>>

\* Mistake: the pool is closed without waiting.
ExitAtOnce ==
  /\ phase = "closing"
  /\ Enters("exited")
  /\ UNCHANGED <<result, conn, inShutdown, notReady, poolOpen, killed>>

\* ... and waits for the ones it has given.  Then run returns and main exits.
Exit ==
  /\ phase = "closing"
  /\ In({"holding"}) = {}
  /\ Enters("exited")
  /\ UNCHANGED <<result, conn, inShutdown, notReady, poolOpen, killed>>

\* SIGKILL, at the end of the grace period, where something sends it.
Kill ==
  /\ phase # "exited"
  /\ signalled /\ waited = Grace
  /\ Enters("exited")
  /\ killed' = TRUE
  /\ UNCHANGED <<result, conn, inShutdown, notReady, poolOpen>>

\* The main goroutine waits, or its next step comes within the tick.
Waiting ==
  \/ phase = "draining" /\ waited # Drain
  \/ phase = "closing" /\ In({"holding"}) # {}

Tick ==
  /\ signalled /\ Waiting
  /\ waited < Grace
  /\ waited' = waited + 1
  /\ UNCHANGED <<phase, result, signalled, serveFailed, inShutdown, notReady,
                 conn, poolOpen, killed>>

Next ==
  \/ \E c \in Conns :
       \/ Accept(c) \/ Request(c) \/ Hangup(c) \/ Answer(c)
       \/ Acquire(c) \/ Release(c) \/ ReadFlag(c) \/ Probe(c)
  \/ Signal \/ ServeFails \/ RunFails
  \/ Hook \/ ShutDown \/ CloseIdle \/ Drained \/ BudgetSpent
  \/ ClosePool \/ Exit \/ Kill
  \/ Tick

Spec == Init /\ [][Next]_vars

\* Goroutines are scheduled, time passes, and a statement or a transaction that
\* was begun ends (EveryRequestEnds of Bidding).
Fairness ==
  /\ \A c \in Conns : WF_vars(Release(c))
  /\ WF_vars(RunFails \/ Hook) /\ WF_vars(ShutDown)
  /\ WF_vars(Drained \/ BudgetSpent)
  /\ WF_vars(ClosePool) /\ WF_vars(Exit)
  /\ WF_vars(Tick)

FairSpec == Spec /\ Fairness

-----------------------------------------------------------------------------

\* Run returns nil only when every request that was read has been answered.
CleanReturnServedAll == result = "nil" => InService = {}

\* The process ends in the middle of a transaction only when it is killed: a
\* bid that is being placed is committed or refused, whatever the budget does.
NoTransactionIsCut == phase = "exited" /\ ~killed => In({"holding"}) = {}

\* The listener closes with readyz already at 503: whoever asks on a connection
\* that is still served is sent elsewhere.
ReadinessLeads == inShutdown => notReady

\* Requests under way get their full budget although the context that asked for
\* the shutdown is cancelled already.
BudgetIsGiven == result = "error" /\ ~serveFailed => waited >= Drain

\* A signal, or a listener that fails, ends the process even where nothing
\* kills it: no handler keeps pool.Close waiting for ever.
StopsByItself == (signalled \/ serveFailed) ~> (phase = "exited")
=============================================================================
