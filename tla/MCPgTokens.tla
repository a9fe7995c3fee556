----------------------------- MODULE MCPgTokens -----------------------------
(***************************************************************************)
(* Small instance of PgTokens: threads that share tokens through their     *)
(* ids, with fewer connections than threads.                               *)
(***************************************************************************)
EXTENDS PgTokens, TLC

ThreadSymmetry == Permutations(Threads) \cup Permutations(Conns)
=============================================================================
