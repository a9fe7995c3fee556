---------------------------- MODULE MCTokenCache ----------------------------
(***************************************************************************)
(* Small instance of TokenCache.  Three pairs, so that a pair can be       *)
(* issued, replaced and replaced again, or two clients have one each; two  *)
(* leases, so that each half of a pair can expire before the other.        *)
(***************************************************************************)
EXTENDS TokenCache, TLC

MCLeases == {1, 2}

ObjSymmetry == Permutations(Objs)
=============================================================================
