----------------------------- MODULE MCArchive ------------------------------
(***************************************************************************)
(* Small archives: two paths, so that a crash on one can be followed by a  *)
(* store of the other.                                                     *)
(***************************************************************************)
EXTENDS Archive

=============================================================================
