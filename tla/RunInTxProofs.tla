---------------------------- MODULE RunInTxProofs ----------------------------
(***************************************************************************)
(* Theorems about RunInTx, for every fn and every set of rows.             *)
(***************************************************************************)
EXTENDS RunInTx, TLAPS

\* Until the end nothing is stored, and no error is there but fn's.
Stages ==
  /\ step \in {"begin", "fn"} => err = "nil"
  /\ step = "finish" => err \in {"nil", "fn"}
  /\ step # "done" => stored = {}
  /\ step = "begin" => txn = "none"
  /\ step = "done" => txn \in {"none", "ended"}

IInv ==
  /\ TypeOK
  /\ Stages
  /\ NilMeansStored
  /\ err = "fn" => stored = {}
  /\ ConnectionIsReturned

LEMMA InitHolds == Init => IInv
BY DEF Init, IInv, TypeOK, Stages, NilMeansStored, ConnectionIsReturned

LEMMA StepKeeps == IInv /\ [Next]_vars => IInv'
<1> SUFFICES ASSUME IInv, [Next]_vars PROVE IInv'
  OBVIOUS
<1> USE DEF IInv, TypeOK, Stages, NilMeansStored, ConnectionIsReturned
<1>1. CASE Begin
  <2>1. CASE step' = "fn"    BY <1>1, <2>1 DEF Begin
  <2>2. CASE step' = "done"  BY <1>1, <2>2 DEF Begin
  <2> QED BY <1>1, <2>1, <2>2 DEF Begin
<1>2. CASE Statement  BY <1>2 DEF Statement
<1>3. CASE Breaks     BY <1>3 DEF Breaks
<1>4. CASE FnReturns  BY <1>4 DEF FnReturns
<1>5. CASE FnPanics   BY <1>5 DEF FnPanics
<1>6. CASE Rollback   BY <1>6 DEF Rollback, Ends
<1>7. CASE Commit     BY <1>7 DEF Commit, Ends
<1>8. CASE UNCHANGED vars
  BY <1>8 DEF vars
<1> QED BY <1>1, <1>2, <1>3, <1>4, <1>5, <1>6, <1>7, <1>8 DEF Next

LEMMA Inductive == Spec => []IInv
BY InitHolds, StepKeeps, PTL DEF Spec

\* The caller that gets nil knows that all fn wrote is stored, also when fn went
\* on after a failed statement or the connection broke.
THEOREM NilIsCommitted == Spec => []NilMeansStored
BY Inductive, PTL DEF IInv

\* When fn fails, nothing is stored and its error is the answer: a rollback that
\* fails too never hides it.
THEOREM FailureRollsBack == Spec => FailureLeavesNothing
<1>1. IInv /\ IInv' /\ [Next]_vars => [err = "fn" => stored' = {} /\ err' = "fn"]_vars
  BY DEF IInv, TypeOK, Stages, Next, vars, Begin, Statement, Breaks, FnReturns, FnPanics,
         Rollback, Commit, Ends
<1> QED BY <1>1, Inductive, PTL DEF Spec, FailureLeavesNothing

\* Every connection taken is given back, also by an fn that panics.
THEOREM ConnectionsReturn == Spec => []ConnectionIsReturned
BY Inductive, PTL DEF IInv
=============================================================================
