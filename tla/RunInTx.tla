------------------------------- MODULE RunInTx -------------------------------
(***************************************************************************)
(* postgres.RunInTx and finishTx around an arbitrary fn: one call, one     *)
(* connection of the pool, one transaction.  fn writes rows and returns    *)
(* nil, returns an error or panics; a statement of its may fail, which     *)
(* dooms the transaction, and the connection may break at any moment.      *)
(***************************************************************************)
CONSTANTS
  Rows         \* what fn may write

VARIABLES
  step,        \* begin, fn, finish, done
  err,         \* the named result
  joined,      \* a failed rollback is joined to it
  panicking,   \* a panic unwinds the stack
  held,        \* the connection is checked out of the pool
  txn,         \* none, open, doomed (a statement failed), gone, ended
  staged,      \* rows written in the transaction
  stored       \* rows the database keeps

vars == <<step, err, joined, panicking, held, txn, staged, stored>>

Init ==
  /\ step = "begin"
  /\ err = "nil"
  /\ joined = FALSE
  /\ panicking = FALSE
  /\ held = FALSE
  /\ txn = "none"
  /\ staged = {} /\ stored = {}

-----------------------------------------------------------------------------

Begin ==
  /\ step = "begin"
  /\ \/ step' = "fn" /\ held' = TRUE /\ txn' = "open" /\ UNCHANGED err
     \/ step' = "done" /\ err' = "begin" /\ UNCHANGED <<held, txn>>
  /\ UNCHANGED <<joined, panicking, staged, stored>>

\* A statement of fn, which may go on after an error.
Statement ==
  /\ step = "fn"
  /\ \/ txn = "open" /\ \E r \in Rows : staged' = staged \cup {r} /\ UNCHANGED txn
     \/ txn = "open" /\ txn' = "doomed" /\ UNCHANGED staged
  /\ UNCHANGED <<step, err, joined, panicking, held, stored>>

\* The session is over, nothing of it is kept.
Breaks ==
  /\ txn \in {"open", "doomed"}
  /\ txn' = "gone"
  /\ UNCHANGED <<step, err, joined, panicking, held, staged, stored>>

FnReturns ==
  /\ step = "fn"
  /\ step' = "finish"
  /\ \E e \in {"nil", "fn"} : err' = e
  /\ UNCHANGED <<joined, panicking, held, txn, staged, stored>>

\* The deferred function runs with err as it was: nil.
FnPanics ==
  /\ step = "fn"
  /\ step' = "finish"
  /\ panicking' = TRUE
  /\ UNCHANGED <<err, joined, held, txn, staged, stored>>

\* However the transaction ends, pgx gives the connection back.
Ends ==
  /\ step = "finish"
  /\ step' = "done"
  /\ held' = FALSE
  /\ txn' = "ended"
  /\ UNCHANGED <<panicking, staged>>

\* finishTx after an error, which stays the answer.
Rollback ==
  /\ err # "nil"
  /\ Ends
  /\ joined' = (txn = "gone")
  /\ UNCHANGED <<err, stored>>

\* A doomed transaction is rolled back by COMMIT, which pgx reports.  The
\* answer of the database may be lost after it has committed.
Commit ==
  /\ err = "nil"
  /\ Ends
  /\ \/ txn = "open" /\ stored' = staged /\ \E e \in {"nil", "commit"} : err' = e
     \/ txn # "open" /\ err' = "commit" /\ UNCHANGED stored
  /\ UNCHANGED joined

Next ==
  \/ Begin \/ Statement \/ Breaks
  \/ FnReturns \/ FnPanics
  \/ Rollback \/ Commit

Spec == Init /\ [][Next]_vars

-----------------------------------------------------------------------------

TypeOK ==
  /\ step \in {"begin", "fn", "finish", "done"}
  /\ err \in {"nil", "begin", "fn", "commit"}
  /\ txn \in {"none", "open", "doomed", "gone", "ended"}
  /\ staged \in SUBSET Rows /\ stored \in SUBSET Rows
  /\ joined \in BOOLEAN /\ panicking \in BOOLEAN /\ held \in BOOLEAN

\* nil means that every row fn wrote is stored.
NilMeansStored == step = "done" /\ err = "nil" => stored = staged

\* When fn fails nothing is stored, and its error is the answer whatever becomes
\* of the rollback.
FailureLeavesNothing == [][err = "fn" => stored' = {} /\ err' = "fn"]_vars

\* No connection is lost, also when fn panics.
ConnectionIsReturned == held <=> step \in {"fn", "finish"}

\* "commit when fn returns nil, rollback otherwise".
CommitsOnlyOnNil == step = "done" /\ panicking => stored = {}
=============================================================================
