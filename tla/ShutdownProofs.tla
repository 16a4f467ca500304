--------------------------- MODULE ShutdownProofs ---------------------------
(***************************************************************************)
(* Theorems about Shutdown, for any number of connections, any pool, any   *)
(* budget and any grace period.                                            *)
(***************************************************************************)
EXTENDS Shutdown, TLAPS

\* Where the main goroutine is tells what it has done; a clean return leaves no
\* connection behind and no way to open one.
Stages ==
  /\ phase = "serving" => ~inShutdown
  /\ phase \in {"serving", "hooked", "draining"} => result = "none"
  /\ phase \in {"hooked", "draining"} => notReady /\ signalled
  /\ phase = "draining" => inShutdown
  /\ inShutdown => phase # "hooked"
  /\ result = "nil" => inShutdown /\ \A c \in Conns : conn[c] = "none"

IInv ==
  /\ TypeOK
  /\ Stages
  /\ NoTransactionIsCut
  /\ ReadinessLeads
  /\ BudgetIsGiven

controls == <<phase, result, signalled, waited, serveFailed, inShutdown, notReady,
              poolOpen, killed>>

\* A step of a connection moves it to another state and nothing else, and no
\* connection moves once the process has ended.
Moves == \E c \in Conns, to \in ConnStates :
  /\ phase # "exited"
  /\ conn[c] # "none" \/ ~inShutdown
  /\ conn' = [conn EXCEPT ![c] = to]
  /\ UNCHANGED controls

LEMMA ConnectionsMove ==
  ASSUME TypeOK, NEW c \in Conns,
         \/ Accept(c) \/ Request(c) \/ Hangup(c) \/ Answer(c)
         \/ Acquire(c) \/ Release(c) \/ ReadFlag(c) \/ Probe(c)
  PROVE  Moves
<1> USE DEF TypeOK, ConnStates, Moves, controls, Becomes, Answered
<1>1. CASE Accept(c)    BY <1>1 DEF Accept
<1>2. CASE Request(c)   BY <1>2 DEF Request
<1>3. CASE Hangup(c)    BY <1>3 DEF Hangup
<1>4. CASE Answer(c)    BY <1>4 DEF Answer
<1>5. CASE Acquire(c)   BY <1>5 DEF Acquire
<1>6. CASE Release(c)   BY <1>6 DEF Release
<1>7. CASE ReadFlag(c)  BY <1>7 DEF ReadFlag
<1>8. CASE Probe(c)     BY <1>8 DEF Probe
<1> QED BY <1>1, <1>2, <1>3, <1>4, <1>5, <1>6, <1>7, <1>8

LEMMA MovesKeep == IInv /\ Moves => IInv'
<1> SUFFICES ASSUME IInv, Moves PROVE IInv'
  OBVIOUS
<1> PICK c \in Conns, to \in ConnStates :
      /\ phase # "exited"
      /\ conn[c] # "none" \/ ~inShutdown
      /\ conn' = [conn EXCEPT ![c] = to]
          /\ UNCHANGED controls
  BY DEF Moves
<1> USE DEF controls
<1>1. TypeOK'
  BY DEF IInv, TypeOK
<1>2. Stages'
  BY DEF IInv, TypeOK, Stages
<1>3. NoTransactionIsCut' /\ ReadinessLeads' /\ BudgetIsGiven'
  BY DEF IInv, NoTransactionIsCut, ReadinessLeads, BudgetIsGiven
<1> QED BY <1>1, <1>2, <1>3 DEF IInv

LEMMA InitHolds == Init => IInv
<1> SUFFICES ASSUME Init PROVE IInv
  OBVIOUS
<1>1. TypeOK
  <2>1. 0 \in 0 .. Grace
    BY SpansAreNat
  <2>2. {signalled, serveFailed, inShutdown, notReady, poolOpen, killed} \subseteq BOOLEAN
    BY DEF Init
  <2> QED BY <2>1, <2>2 DEF Init, TypeOK, Phases, ConnStates
<1>2. Stages /\ NoTransactionIsCut /\ ReadinessLeads /\ BudgetIsGiven
  BY DEF Init, Stages, NoTransactionIsCut, ReadinessLeads, BudgetIsGiven
<1> QED BY <1>1, <1>2 DEF IInv

LEMMA MainKeeps ==
  ASSUME IInv,
         \/ Signal \/ ServeFails \/ RunFails
         \/ Hook \/ ShutDown \/ CloseIdle \/ Drained \/ BudgetSpent
         \/ ClosePool \/ Exit \/ Kill \/ Tick
  PROVE  IInv'
<1> USE SpansAreNat, DrainFits
    DEF IInv, TypeOK, Phases, ConnStates, Stages, NoTransactionIsCut, ReadinessLeads,
        BudgetIsGiven, Enters, Returns, In
<1>1. CASE Signal       BY <1>1 DEF Signal
<1>2. CASE ServeFails   BY <1>2 DEF ServeFails
<1>3. CASE RunFails     BY <1>3 DEF RunFails
<1>4. CASE Hook         BY <1>4 DEF Hook
<1>5. CASE ShutDown     BY <1>5 DEF ShutDown
<1>6. CASE CloseIdle
  <2>1. PICK old \in SUBSET In({"new"}) :
          conn' = [c \in Conns |-> IF conn[c] = "idle" \/ c \in old THEN "none" ELSE conn[c]]
    BY <1>6 DEF CloseIdle
  <2>2. conn' \in [Conns -> ConnStates] /\ (result = "nil" => \A c \in Conns : conn'[c] = "none")
    BY <2>1
  <2> QED BY <1>6, <2>2 DEF CloseIdle
<1>7. CASE Drained
  <2>1. \A c \in Conns : conn[c] = "none"
    BY <1>7 DEF Drained
  <2> QED BY <1>7, <2>1 DEF Drained
<1>8. CASE BudgetSpent  BY <1>8 DEF BudgetSpent
<1>9. CASE ClosePool    BY <1>9 DEF ClosePool
<1>10. CASE Exit        BY <1>10 DEF Exit
<1>11. CASE Kill        BY <1>11 DEF Kill
<1>12. CASE Tick        BY <1>12 DEF Tick
<1> QED BY <1>1, <1>2, <1>3, <1>4, <1>5, <1>6, <1>7, <1>8, <1>9, <1>10, <1>11, <1>12

LEMMA StutterKeeps == IInv /\ UNCHANGED vars => IInv'
BY DEF IInv, vars, TypeOK, Stages, NoTransactionIsCut, ReadinessLeads, BudgetIsGiven, In

LEMMA Inductive == Spec => []IInv
<1>1. IInv /\ [Next]_vars => IInv'
  <2> SUFFICES ASSUME IInv, [Next]_vars PROVE IInv'
    OBVIOUS
  <2>1. TypeOK
    BY DEF IInv
  <2> QED BY <2>1, ConnectionsMove, MovesKeep, MainKeeps, StutterKeeps DEF Next
<1> QED BY InitHolds, <1>1, PTL DEF Spec

\* The model is well typed, and no handler finds the pool closed before Run has
\* returned.
THEOREM ShutdownTyped == Spec => []TypeOK
BY Inductive, PTL DEF IInv

\* However many handlers are under way when the budget runs out, an orderly exit
\* cuts none of their transactions: it is pool.Close that waits for them.
THEOREM TransactionsSurviveShutdown == Spec => []NoTransactionIsCut
BY Inductive, PTL DEF IInv

\* Run returns nil only with every request answered, the ones that arrived after
\* the signal included.
THEOREM CleanReturn == Spec => []CleanReturnServedAll
<1>1. IInv => CleanReturnServedAll
  BY DEF IInv, Stages, CleanReturnServedAll, InService, In
<1> QED BY <1>1, Inductive, PTL

\* Whoever finds the listener closing finds readyz at 503 already.
THEOREM OrderedShutdown == Spec => []ReadinessLeads
BY Inductive, PTL DEF IInv

\* Shutdown gives up only after the whole budget, although it is called on behalf
\* of a context that is cancelled already.
THEOREM BudgetIsGranted == Spec => []BudgetIsGiven
BY Inductive, PTL DEF IInv
=============================================================================
