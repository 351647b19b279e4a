---------------------------- MODULE MCPageIngest ----------------------------
(***************************************************************************)
(* Two pages that share their tenders in opposite orders, as the same list *)
(* does when tenders moved between two sweeps, one of them with a tender   *)
(* listed twice; and a page of which the parse makes nothing.              *)
(***************************************************************************)
EXTENDS PageIngest

MCContent(p) ==
  CASE p = "p1" -> <<"t1", "t2">> [] p = "p2" -> <<"t2", "t1", "t2">> [] OTHER -> <<>>
=============================================================================
