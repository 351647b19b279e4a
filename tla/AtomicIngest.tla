---------------------------- MODULE AtomicIngest ----------------------------
(***************************************************************************)
(* What a crawl promises of the tenders table, whatever runs beside it: a  *)
(* fetched page is applied to all the tenders on it in one step, and a     *)
(* document is applied at most once.                                       *)
(*                                                                         *)
(*   applied   tender -> the documents applied to it, in order             *)
(***************************************************************************)
EXTENDS Naturals, Sequences

CONSTANTS
  Tenders,
  Documents,   \* fetched pages, one per raw_documents row
  Rows(_)      \* document -> the tenders on it

VARIABLE applied

Init == applied = [t \in Tenders |-> <<>>]

Fresh(d) == \A t \in Tenders : \A i \in 1 .. Len(applied[t]) : applied[t][i] # d

Ingest(d) ==
  /\ Fresh(d)
  /\ applied' = [t \in Tenders |->
                   IF t \in Rows(d) THEN Append(applied[t], d) ELSE applied[t]]

Next == \E d \in Documents : Ingest(d)

Spec == Init /\ [][Next]_applied
=============================================================================
