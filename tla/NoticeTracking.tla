--------------------------- MODULE NoticeTracking ---------------------------
(***************************************************************************)
(* One tender followed from the portal to the database: the procuring      *)
(* entity publishes and amends a notice, crawl runs read its two views and *)
(* upsert what they read.  A run holds a payload between fetching it and   *)
(* applying it, and runs of two processes (the scheduler and a crawl       *)
(* started by hand) overlap, so payloads can be applied out of order.      *)
(*                                                                         *)
(* Extends TenderStore: row, versions and scheme are its variables, and    *)
(* applying a payload is its Upsert.                                       *)
(*                                                                         *)
(*   revision  which revision of the notice the portal shows               *)
(*   pc        where each run is                                           *)
(*   held      the parsed payload a run is about to apply, or NULL         *)
(*   crowded   whether a whole detail queue of newer notices stands before *)
(*             this one: live in the tenders table, never read in full     *)
(*   faults    crashes and unreadable pages so far                         *)
(***************************************************************************)
EXTENDS TenderStore

CONSTANTS
  Runs,           \* crawl runs that may be under way together
  Revisions,      \* bound on revision
  MaxFaults,      \* bound on faults
  ListView(_),    \* revision -> what its list row parses to
  DetailView(_)   \* revision -> what its detail page parses to

ASSUME TrackingAssumption ==
  /\ Revisions \in Nat \ {0}
  /\ MaxFaults \in Nat
  /\ \A n \in 1 .. Revisions : ListView(n) \in ListRecords /\ DetailView(n) \in DetailRecords

VARIABLES revision, pc, held, crowded, faults

trackingVars == <<row, versions, scheme, revision, pc, held, crowded, faults>>

Stages == {"idle", "listed", "swept", "queued", "detailed"}

TrackingInit ==
  /\ Init
  /\ revision = 1
  /\ pc = [r \in Runs |-> "idle"]
  /\ held = [r \in Runs |-> NULL]
  /\ crowded = FALSE
  /\ faults = 0

Move(r, from, to) == pc[r] = from /\ pc' = [pc EXCEPT ![r] = to]

\* Environment: the procuring entity issues a corrigendum.
Amend ==
  /\ revision < Revisions
  /\ revision' = revision + 1
  /\ UNCHANGED <<row, versions, scheme, pc, held, crowded, faults>>

\* Environment: newer notices come, and are read in full or leave.
Crowd ==
  /\ crowded' = ~crowded
  /\ UNCHANGED <<row, versions, scheme, revision, pc, held, faults>>

\* The sweep of the Live list yields the page with this tender; only live
\* notices are on it.
FetchList(r) ==
  /\ ListView(revision)["status"] = "live"
  /\ Move(r, "idle", "listed")
  /\ held' = [held EXCEPT ![r] = ListView(revision)]
  /\ UNCHANGED <<row, versions, scheme, revision, crowded, faults>>

\* Mutant of MissFromList: a tender missing from the list is closed on the spot.
MissFromListClosing(r) ==
  /\ ListView(revision)["status"] # "live"
  /\ Move(r, "idle", "swept")
  /\ row' = IF Exists THEN [row EXCEPT !.data["status"] = "closed"] ELSE row
  /\ UNCHANGED <<versions, scheme, revision, held, crowded, faults>>

\* The sweep meets no row for this tender.
MissFromList(r) ==
  /\ ListView(revision)["status"] # "live"
  /\ Move(r, "idle", "swept")
  /\ UNCHANGED <<row, versions, scheme, revision, held, crowded, faults>>

ApplyList(r) ==
  /\ Move(r, "listed", "swept")
  /\ Upsert(held[r], FALSE)
  /\ held' = [held EXCEPT ![r] = NULL]
  /\ UNCHANGED <<revision, crowded, faults>>

\* tenders_needing_detail: never fetched in full, still live, and among the
\* newest of those, up to the limit.
NeedsDetail == Exists /\ ~row.detail /\ row.data["status"] = "live" /\ ~crowded

QueueDetail(r) ==
  /\ IF NeedsDetail THEN Move(r, "swept", "queued") ELSE Move(r, "swept", "idle")
  /\ UNCHANGED <<row, versions, scheme, revision, held, crowded, faults>>

FetchDetail(r) ==
  /\ Move(r, "queued", "detailed")
  /\ held' = [held EXCEPT ![r] = DetailView(revision)]
  /\ UNCHANGED <<row, versions, scheme, revision, crowded, faults>>

\* Mutant of ApplyDetail: the record is not marked as coming from a detail page.
ApplyDetailAsList(r) ==
  /\ Move(r, "detailed", "idle")
  /\ Upsert(held[r], FALSE)
  /\ held' = [held EXCEPT ![r] = NULL]
  /\ UNCHANGED <<revision, crowded, faults>>

ApplyDetail(r) ==
  /\ Move(r, "detailed", "idle")
  /\ Upsert(held[r], TRUE)
  /\ held' = [held EXCEPT ![r] = NULL]
  /\ UNCHANGED <<revision, crowded, faults>>

\* The page cannot be parsed, or is the portal's session-expired page: the
\* run goes on without it.
Unreadable(r) ==
  /\ faults < MaxFaults
  /\ faults' = faults + 1
  /\ \/ Move(r, "listed", "swept")
     \/ Move(r, "detailed", "idle")
  /\ held' = [held EXCEPT ![r] = NULL]
  /\ UNCHANGED <<row, versions, scheme, revision, crowded>>

\* The process dies and a new run starts from nothing.
Crash(r) ==
  /\ faults < MaxFaults
  /\ faults' = faults + 1
  /\ pc[r] # "idle"
  /\ pc' = [pc EXCEPT ![r] = "idle"]
  /\ held' = [held EXCEPT ![r] = NULL]
  /\ UNCHANGED <<row, versions, scheme, revision, crowded>>

RunStep(r) ==
  \/ FetchList(r)
  \/ MissFromList(r)
  \/ ApplyList(r)
  \/ QueueDetail(r)
  \/ FetchDetail(r)
  \/ ApplyDetail(r)

TrackingNext ==
  \/ Amend
  \/ Crowd
  \/ \E r \in Runs : RunStep(r) \/ Unreadable(r) \/ Crash(r)

TrackingSpec == TrackingInit /\ [][TrackingNext]_trackingVars

(***************************************************************************)
(* A run under way keeps going (asyncio schedules it, every request has a  *)
(* timeout and an upsert waits for no more than a commit) and the operator *)
(* keeps starting runs.  Nothing obliges the portal to amend, newer        *)
(* notices to make room, or a run to fail.                                 *)
(***************************************************************************)
FairTrackingSpec == TrackingSpec /\ \A r \in Runs : WF_trackingVars(RunStep(r))

-----------------------------------------------------------------------------
(***************************************************************************)
(* A run holds a payload exactly between fetching and applying it, and it  *)
(* is a view of some revision already published (runner._ingest).          *)
(***************************************************************************)
TrackingTypeOK ==
  /\ revision \in 1 .. Revisions
  /\ faults \in 0 .. MaxFaults
  /\ crowded \in BOOLEAN
  /\ pc \in [Runs -> Stages]
  /\ held = [r \in Runs |-> held[r]]
  /\ \A r \in Runs :
       /\ pc[r] = "listed" => \E n \in 1 .. revision : held[r] = ListView(n)
       /\ pc[r] = "detailed" => \E n \in 1 .. revision : held[r] = DetailView(n)
       /\ pc[r] \notin {"listed", "detailed"} => held[r] = NULL

(***************************************************************************)
(* The promise of the merge rule: while the notice is not amended, its     *)
(* history never exceeds the sighting and one version for the detail page, *)
(* however many sweeps overlap, repeat, crash or lose a page.              *)
(***************************************************************************)
UnamendedHistory == revision = 1 => Len(versions) <= 2

(***************************************************************************)
(* README.md, "run a crawl twice, the second must report 0 new, 0          *)
(* changed": once the tender has been read in full and until the notice is *)
(* amended, no run writes a version.                                       *)
(***************************************************************************)
SecondCrawlIsQuiet ==
  [][row.detail /\ revision = 1 => versions' = versions]_trackingVars

(***************************************************************************)
(* Where amendments only postpone, and one run follows another, the row    *)
(* never goes back to a closing date earlier than one it has shown: what a *)
(* run holds while the portal goes on amending, be it two amendments old,  *)
(* is never behind what is stored (runner._ingest, upsert_tender).         *)
(***************************************************************************)
ClosingNeverRegresses ==
  [][Exists /\ row.data["closing_at"] # NULL =>
       row'.data["closing_at"] >= row.data["closing_at"]]_trackingVars

(***************************************************************************)
(* Nothing but a crowd of newer notices keeps a tender from being read in  *)
(* full: no live tender stays for ever within the window of the detail     *)
(* queue, whichever runs crash, overlap or find its page unreadable on the *)
(* way (repo.tenders_needing_detail, the detail pass of runner.run).       *)
(***************************************************************************)
DetailReached == []<>~NeedsDetail

(***************************************************************************)
(* models.py promises that the first detail page of a tender known from    *)
(* the list is our ingestion catching up, never shown as an amendment.     *)
(***************************************************************************)
CatchingUpIsNoAmendment ==
  revision = 1 =>
    \A i \in 1 .. Len(versions) : versions[i].kind \in {"new", "enrichment"}

(***************************************************************************)
(* adapters/egp.py promises a detail fetch for tenders that are new or     *)
(* whose hash changed, so that amendments reach the row: the closing date  *)
(* of a notice that is no longer amended is eventually the stored one.     *)
(***************************************************************************)
AmendmentsReachRow ==
  <>[](Exists => row.data["closing_at"] = DetailView(revision)["closing_at"])
=============================================================================
