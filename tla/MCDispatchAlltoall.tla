-------------------------- MODULE MCDispatchAlltoall --------------------------
(* Instances of DispatchAlltoall for TLC. *)
EXTENDS DispatchAlltoall

MCPatterns == {"mixed", "skewed"}

(* Zero to two elements, different in every call; everything for ranks 2   *)
(* and 6, which are the incomplete rows of 3 and of 7 ranks, and more in   *)
(* the second call.                                                        *)
MCCount(pat, k, r, d) ==
  CASE pat = "mixed"  -> (k + 2 * r + d) % 3
    [] pat = "skewed" -> IF d % 4 = 2 THEN k ELSE 0

(* Two calls on up to four ranks, one on more. *)
MCMaxCalls(size) == IF size <= 4 THEN 2 ELSE 1
=============================================================================
