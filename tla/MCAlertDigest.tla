--------------------------- MODULE MCAlertDigest ----------------------------
(***************************************************************************)
(* Two tenders and digests of one, so that a backlog needs two digests.    *)
(* Tenders are alike and so are processes, for safety.                     *)
(***************************************************************************)
EXTENDS AlertDigest, TLC

Alike == Permutations(Tenders) \cup Permutations(Senders)
=============================================================================
