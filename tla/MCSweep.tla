------------------------------ MODULE MCSweep -------------------------------
(***************************************************************************)
(* Lists of up to five notices, two a page: three pages, the last of them  *)
(* full or not.                                                            *)
(***************************************************************************)
EXTENDS Sweep

MCNotices == 1 .. 5
=============================================================================
