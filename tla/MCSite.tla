------------------------------- MODULE MCSite -------------------------------
(***************************************************************************)
(* One address, which two accounts share, and one browser, which both use. *)
(***************************************************************************)
EXTENDS Site
=============================================================================
