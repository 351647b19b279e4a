----------------------------- MODULE MCDailyRun -----------------------------
(***************************************************************************)
(* Two tenders, and limits that the second of them meets.  One text with a *)
(* term of the profile, one near in meaning only, one below the absolute   *)
(* floor.                                                                  *)
(***************************************************************************)
EXTENDS DailyRun, TLC

CONSTANTS exact, close, far

MCTenders    == 1 .. 2
MCSimilarity == exact :> 80 @@ close :> 40 @@ far :> 10
MCRelevance  == exact :> 5 @@ close :> 0 @@ far :> 0
MCSaid       == <<{exact, close}, {exact, far, None}>>
=============================================================================
