----------------------------- MODULE MCTaskQueue -----------------------------
(***************************************************************************)
(* Small instance of TaskQueue: two threads, and four tasks, so that both  *)
(* threads are busy while two tasks wait.                                  *)
(***************************************************************************)
EXTENDS TaskQueue
=============================================================================
