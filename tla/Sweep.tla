------------------------------- MODULE Sweep --------------------------------
(***************************************************************************)
(* The sweep of a list view (EgpTenderAdapter.fetch) through PoliteClient, *)
(* page by page, while the list it pages through changes.                  *)
(*                                                                         *)
(*   listed    where each notice is: "coming", "live" or "left"            *)
(*   pc        the request under way, or what it is followed by            *)
(*   attempt   the attempt of that request, from 1                         *)
(*   page      page_no                                                     *)
(*   total     total_pages, None until a page says it                      *)
(*   limit     max_pages, None for a full sweep                            *)
(*   body      what the last response holds: the rows of a page and the    *)
(*             number of pages, or no fragment at all                      *)
(*   got       the notices on the pages yielded so far                     *)
(*   start     the notices on the list when the first page was answered,   *)
(*   changes   arrivals and departures since, and                          *)
(*   lapses    answers that were no fragment for a reason of the portal's: *)
(*             observations                                                *)
(*                                                                         *)
(* Notices are numbered in the order the portal lists them in, from the    *)
(* last of the list to the first.                                          *)
(***************************************************************************)
EXTENDS Integers, FiniteSetsExt

CONSTANTS
  Notices,      \* in list order
  PageSize,     \* PAGE_SIZE
  MaxAttempts,  \* MAX_ATTEMPTS
  Limits,       \* the values max_pages may have
  None, Expired, Other

\* What a fragment says.
Fragments == [rows : SUBSET Notices, pages : Nat]

ASSUME SweepAssumption ==
  /\ Notices \subseteq Nat /\ IsFiniteSet(Notices)
  /\ {PageSize, MaxAttempts} \subseteq Nat \ {0}
  /\ Limits \subseteq (Nat \ {0}) \cup {None}
  /\ None \notin Nat \cup {Expired, Other} /\ Expired # Other
  /\ \A text \in {None, Expired, Other} : text \notin Fragments

VARIABLES listed, pc, attempt, page, total, limit, body, got, start, changes, lapses

request   == <<pc, attempt, body>>
progress  == <<page, total, limit, got>>
observed  == <<start, changes, lapses>>
sweepVars == <<listed, request, progress, observed>>

Live      == {n \in Notices : listed[n] = "live"}
Requests  == {"prime", "ask", "reprime", "reask"}

Init ==
  /\ listed \in [Notices -> {"coming", "live"}]
  /\ pc = "idle"
  /\ attempt = 1
  /\ page = 1
  /\ total = None
  /\ limit = None
  /\ body = None
  /\ got = {}
  /\ start = {}
  /\ changes = 0
  /\ lapses = 0

-----------------------------------------------------------------------------
(* The portal. *)

\* The rows of page k: those with (k - 1) * PageSize to k * PageSize - 1
\* notices before them.
PageRows(k) ==
  {n \in Live : LET before == Cardinality({m \in Live : m > n})
                IN  (k - 1) * PageSize <= before /\ before < k * PageSize}

PageCount == (Cardinality(Live) + PageSize - 1) \div PageSize

Fragment(k) == [rows |-> PageRows(k), pages |-> PageCount]

Change == changes' = IF start = {} THEN 0 ELSE changes + 1

Arrive(n) ==
  /\ listed[n] = "coming"
  /\ listed' = [listed EXCEPT ![n] = "live"]
  /\ Change
  /\ UNCHANGED <<request, progress, start, lapses>>

Leave(n) ==
  /\ listed[n] = "live"
  /\ listed' = [listed EXCEPT ![n] = "left"]
  /\ Change
  /\ UNCHANGED <<request, progress, start, lapses>>

-----------------------------------------------------------------------------
(* The sweep. *)

Go(from, to) == pc = from /\ pc' = to

Begin ==
  /\ Go("idle", "prime")
  /\ limit' \in Limits
  /\ page' = 1
  /\ total' = None
  /\ got' = {}
  /\ start' = {}
  /\ changes' = 0
  /\ lapses' = 0
  /\ UNCHANGED <<listed, attempt, body>>

\* What the servlet answers to the page asked for: its fragment, the page
\* of an expired session, or any other text with a status that is not
\* retried.
Answers == {Fragment(page), Expired, Other}

\* The notices a full sweep has to find are those of the first answer; the
\* portal's are any other text, and a session that does not outlive priming.
Observe ==
  /\ start' = IF page = 1 THEN Live ELSE start
  /\ changes' = IF page = 1 THEN 0 ELSE changes
  /\ lapses' = IF body' = Other \/ (pc = "reask" /\ body' = Expired)
               THEN lapses + 1 ELSE lapses

\* The session is primed, or primed again.
Primed ==
  /\ Go("prime", "ask") \/ Go("reprime", "reask")
  /\ attempt' = 1
  /\ UNCHANGED <<listed, body, progress, observed>>

\* Mutant of Asked: a page that finds the session expired is not asked again.
AskedOnce ==
  /\ Go("ask", "yield") \/ Go("reask", "yield")
  /\ body' \in Answers
  /\ attempt' = 1
  /\ Observe
  /\ UNCHANGED <<listed, progress>>

\* Once an expired session is noticed the page is asked for again, once.
Asked ==
  /\ body' \in Answers
  /\ \/ Go("reask", "yield")
     \/ body' = Expired /\ Go("ask", "reprime")
     \/ body' # Expired /\ Go("ask", "yield")
  /\ attempt' = 1
  /\ Observe
  /\ UNCHANGED <<listed, progress>>

\* Mutant of Refused: the attempts start again.
RefusedForever ==
  /\ pc \in Requests
  /\ attempt' = (attempt % MaxAttempts) + 1
  /\ UNCHANGED <<listed, pc, body, progress, observed>>

\* PoliteClient: no answer, or a status that is retried, until the last
\* attempt raises.
Refused ==
  /\ pc \in Requests
  /\ IF attempt < MaxAttempts THEN attempt' = attempt + 1 /\ UNCHANGED pc
     ELSE attempt' = 1 /\ pc' = "raised"
  /\ UNCHANGED <<listed, body, progress, observed>>

Rows(text) == IF text \in {Expired, Other} THEN {} ELSE text.rows

\* _total_pages: only a fragment says it.
TotalPages(text) == IF text \in {Expired, Other} THEN None ELSE text.pages

LastPage(pages) == pages = None \/ page >= pages \/ page = limit

\* The page is yielded; the number of pages is what the first one said, and
\* a fragment without rows says noRecordFound.
Yield ==
  LET pages == IF total = None THEN TotalPages(body) ELSE total
      empty == body \notin {Expired, Other} /\ body.rows = {}
  IN  /\ pc = "yield"
      /\ got' = got \cup Rows(body)
      /\ total' = pages
      /\ IF empty \/ LastPage(pages) THEN pc' = "done" /\ UNCHANGED page
                                     ELSE pc' = "ask" /\ page' = page + 1
      /\ body' = None
      /\ UNCHANGED <<listed, attempt, limit, observed>>

End ==
  /\ pc \in {"done", "raised"}
  /\ pc' = "idle"
  /\ page' = 1 /\ total' = None /\ limit' = None /\ got' = {} /\ body' = None
  /\ start' = {} /\ changes' = 0 /\ lapses' = 0
  /\ UNCHANGED <<listed, attempt>>

Step == Begin \/ Primed \/ Asked \/ Refused \/ Yield \/ End

Next == (\E n \in Notices : Arrive(n) \/ Leave(n)) \/ Step

Spec == Init /\ [][Next]_sweepVars

\* Every request has a timeout, and the generator is read to its end.
FairSpec == Spec /\ WF_sweepVars(Step)

-----------------------------------------------------------------------------
(***************************************************************************)
(* The types, and that a body exists between its answer and its yield.     *)
(***************************************************************************)
SweepTypeOK ==
  /\ pc \in Requests \cup {"idle", "yield", "done", "raised"}
  /\ attempt \in 1 .. MaxAttempts
  /\ page \in Nat \ {0}
  /\ total \in Nat \cup {None}
  /\ body \in Fragments \cup {None, Expired, Other}
  /\ pc = "yield" => body # None
  /\ got \subseteq Notices /\ start \subseteq Notices
  /\ changes \in 0 .. 2 * Cardinality(Notices)
  /\ lapses <= page

(***************************************************************************)
(* fetch: pages are numbered, and what moves between two requests may be   *)
(* skipped; how much, is what keeps a full sweep of use.  Each notice that *)
(* came or went meanwhile hides one other at most, and a page the portal   *)
(* would not give those of a page; everything else that was on the list    *)
(* when the sweep began, and still is, has been yielded.  A session that   *)
(* expires between two pages hides nothing.                                *)
(***************************************************************************)
Skipped == (start \cap Live) \ got

SkippedBounded ==
  pc = "done" /\ total # None /\ limit = None =>
    Cardinality(Skipped) <= changes + PageSize * lapses

(***************************************************************************)
(* http.py: the host is never retried for ever, and fetch has a last page  *)
(* even if the list grows.  Every sweep ends.                              *)
(***************************************************************************)
SweepEnds == []<>(pc = "idle")
=============================================================================
