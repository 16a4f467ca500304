----------------------------- MODULE MCShutdown -----------------------------
(***************************************************************************)
(* A small instance of Shutdown for TLC: three connections, one of them    *)
(* may hold the pool's only connection while the others wait for it.       *)
(***************************************************************************)
EXTENDS Shutdown

CONSTANTS c1, c2, c3

MCConns == {c1, c2, c3}
=============================================================================
