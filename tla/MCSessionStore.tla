--------------------------- MODULE MCSessionStore ---------------------------
(***************************************************************************)
(* Small instance of SessionStore.  A tick is the ten minutes between two  *)
(* sweeps.  The leases keep their order and their relation to a sweep: the *)
(* short one is two ticks, so a sweep finds it live, expiring and expired; *)
(* the long one is three.  An hour is three ticks, so that a sweep can be  *)
(* missed when the timer thread is held up for an hour.  Two ids are a     *)
(* session and its replacement, or two sessions side by side under one     *)
(* sweep; four ticks let the first expire under either lease and be swept. *)
(***************************************************************************)
EXTENDS SessionStore

MCShortLease == 2
MCLongLease  == 3
MCMaxRequest == 1
MCScanPeriod == 1
MCHour       == 3
=============================================================================
