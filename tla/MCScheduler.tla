---------------------------- MODULE MCScheduler -----------------------------
(***************************************************************************)
(* The two adapters the package registers, in the order cli.py imports     *)
(* them.                                                                   *)
(***************************************************************************)
EXTENDS Scheduler

MCRegistry == <<"egp_tender", "egp_offline">>
=============================================================================
