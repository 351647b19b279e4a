------------------------------ MODULE MCAwards ------------------------------
(***************************************************************************)
(* Three awards, one a page, two pages a run, so that a new one pushes     *)
(* another out of what is read.                                            *)
(***************************************************************************)
EXTENDS Awards

CONSTANTS w

MCContracts == 1 .. 3
MCPaths     == {S \in SUBSET MCContracts : Cardinality(S) <= PageSize} \cup {Expired}
=============================================================================
