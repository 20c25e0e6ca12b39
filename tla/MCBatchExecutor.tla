-------------------------- MODULE MCBatchExecutor --------------------------
(***************************************************************************)
(* Three requests of two capabilities, one of them without a handler, two  *)
(* overlapping callbacks and one client for both.                          *)
(***************************************************************************)
EXTENDS BatchExecutor, TLC

CONSTANTS r1, r2, r3, settle, notify, t1, t2

MCCapOf == r1 :> settle @@ r2 :> settle @@ r3 :> notify
MCOrder == <<settle, notify>>

=============================================================================
