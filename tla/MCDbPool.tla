------------------------------ MODULE MCDbPool ------------------------------
(***************************************************************************)
(* Small instance of DbPool.  Four threads on two connections: two threads *)
(* wait while two releases overlap, and a thread that comes anew competes  *)
(* with one that was woken.                                                *)
(***************************************************************************)
EXTENDS DbPool
=============================================================================
