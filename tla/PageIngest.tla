----------------------------- MODULE PageIngest -----------------------------
(***************************************************************************)
(* Crawl runs of several processes against one database: the transactions  *)
(* of CrawlRunner._ingest (crawl/runner.py) and the row locks, the unique  *)
(* key and the deadlock detection they meet in PostgreSQL under READ       *)
(* COMMITTED.  What an upsert makes of a row is TenderStore's subject; a   *)
(* write here is only the document it came from and the version of the     *)
(* row it was computed on.                                                 *)
(*                                                                         *)
(*   pc        where each run is                                           *)
(*   fetched   pages fetched by each run                                   *)
(*   page      the page each run is ingesting                              *)
(*   next      the record of that page to be upserted next                 *)
(*   report    the counters and the status of the RunReport                *)
(*   pending   run -> tender -> the length of the row's history when the   *)
(*             run's open transaction wrote it, or NULL                    *)
(*   store     tender -> the committed writes                              *)
(*   archived  documents on disk                                           *)
(*   raw       documents with a committed raw_documents row                *)
(*   failures  documents with a committed parse_failures row               *)
(*   crawls    the crawl_runs row of each run: its status and items_new    *)
(*   faults    crashes, failed fetches and failed parses so far            *)
(***************************************************************************)
EXTENDS Naturals, Sequences, FiniteSets

CONSTANTS
  NULL,
  Runs,
  Tenders,
  Pages,
  Content(_),   \* page -> the tenders its parse yields, in order: none when
                \* it is the portal's session-expired page or has no fields
  MaxFetches,   \* bound on fetched
  MaxFaults     \* bound on faults

ASSUME IngestAssumption ==
  /\ NULL \notin Nat
  /\ NULL \notin {"running", "ok", "partial", "failed"}
  /\ MaxFetches \in Nat
  /\ MaxFaults \in Nat
  /\ \A p \in Pages : Content(p) \in Seq(Tenders)

VARIABLES pc, fetched, page, next, report, pending, store, archived, raw,
          failures, crawls, faults

control  == <<pc, fetched, page, next>>
database == <<store, raw, failures, crawls>>
pageVars == <<control, report, pending, database, archived, faults>>

Steps == {"idle", "fetch", "archive", "record", "parse", "failed", "upsert",
          "insert", "finish", "done", "dead"}

Documents == Runs \X (1 .. MaxFetches) \X Pages

NothingPending == [t \in Tenders |-> NULL]

Init ==
  /\ pc = [r \in Runs |-> "idle"]
  /\ fetched = [r \in Runs |-> 0]
  /\ page \in [Runs -> Pages]
  /\ next = [r \in Runs |-> 1]
  /\ report = [r \in Runs |-> [new |-> 0, failures |-> 0, status |-> "running"]]
  /\ pending = [r \in Runs |-> NothingPending]
  /\ store = [t \in Tenders |-> <<>>]
  /\ archived = {}
  /\ raw = {}
  /\ failures = {}
  /\ crawls = [r \in Runs |-> [status |-> NULL, new |-> 0]]
  /\ faults = 0

Goto(r, from, to) == pc[r] = from /\ pc' = [pc EXCEPT ![r] = to]

Fault == faults < MaxFaults /\ faults' = faults + 1

Document(r) == <<r, fetched[r], page[r]>>

-----------------------------------------------------------------------------
\* run: the crawl_runs row is committed before anything is fetched.
Start(r) ==
  /\ Goto(r, "idle", "fetch")
  /\ crawls' = [crawls EXCEPT ![r].status = "running"]
  /\ UNCHANGED <<fetched, page, next, report, pending, store, archived, raw, failures, faults>>

Fetch(r) ==
  /\ fetched[r] < MaxFetches
  /\ Goto(r, "fetch", "archive")
  /\ fetched' = [fetched EXCEPT ![r] = @ + 1]
  /\ \E p \in Pages : page' = [page EXCEPT ![r] = p]
  /\ UNCHANGED <<next, report, pending, database, archived, faults>>

\* The sweep and the detail pass are over.
EndSweep(r) ==
  /\ Goto(r, "fetch", "finish")
  /\ report' = [report EXCEPT ![r].status =
                  IF report[r].failures # 0 THEN "partial" ELSE "ok"]
  /\ UNCHANGED <<fetched, page, next, pending, database, archived, faults>>

\* The source gives up on a request after its retries.
FetchFails(r) ==
  /\ Fault
  /\ Goto(r, "fetch", "finish")
  /\ report' = [report EXCEPT ![r].status = "failed"]
  /\ UNCHANGED <<fetched, page, next, pending, database, archived>>

ArchivePage(r) ==
  /\ Goto(r, "archive", "record")
  /\ archived' = archived \cup {Document(r)}
  /\ UNCHANGED <<fetched, page, next, report, pending, database, faults>>

\* Mutant of RecordRaw: the row is left to the transaction of the upserts.
RecordRawLater(r) ==
  /\ Goto(r, "record", "parse")
  /\ UNCHANGED <<fetched, page, next, report, pending, database, archived, faults>>

RecordRaw(r) ==
  /\ Goto(r, "record", "parse")
  /\ raw' = raw \cup {Document(r)}
  /\ UNCHANGED <<fetched, page, next, report, pending, store, archived, failures, crawls, faults>>

\* A parse that yields nothing is no failure: the transaction that follows
\* writes nothing.
Parse(r) ==
  /\ Goto(r, "parse", "upsert")
  /\ next' = [next EXCEPT ![r] = 1]
  /\ UNCHANGED <<fetched, page, report, pending, database, archived, faults>>

ParseFails(r) ==
  /\ Fault
  /\ Goto(r, "parse", "failed")
  /\ report' = [report EXCEPT ![r].failures = @ + 1]
  /\ UNCHANGED <<fetched, page, next, pending, database, archived>>

\* Mutant of RecordFailure: the failure is only logged.
LogFailure(r) ==
  /\ Goto(r, "failed", "fetch")
  /\ UNCHANGED <<fetched, page, next, report, pending, database, archived, faults>>

RecordFailure(r) ==
  /\ Goto(r, "failed", "fetch")
  /\ failures' = failures \cup {Document(r)}
  /\ UNCHANGED <<fetched, page, next, report, pending, store, archived, raw, crawls, faults>>

-----------------------------------------------------------------------------
\* The tender whose record is next, while there is one.
HasRecord(r) == next[r] <= Len(Content(page[r]))
Tender(r)    == Content(page[r])[next[r]]

Holds(r, t)  == pending[r][t] # NULL
Free(r, t)   == \A s \in Runs \ {r} : ~Holds(s, t)

\* What a statement of r sees of t: the committed row or its own insert.
Visible(r, t) == store[t] # <<>> \/ Holds(r, t)

\* The transaction's first write of t is computed on the committed row.
Write(r, t) ==
  /\ pending' = [pending EXCEPT ![r][t] = IF @ = NULL THEN Len(store[t]) ELSE @]
  /\ next' = [next EXCEPT ![r] = @ + 1]

\* Mutant of Update: the SELECT does not lock.
UpdateUnlocked(r) ==
  /\ Goto(r, "upsert", "upsert")
  /\ HasRecord(r)
  /\ Visible(r, Tender(r))
  /\ Write(r, Tender(r))
  /\ UNCHANGED <<fetched, page, report, database, archived, faults>>

\* SELECT ... FOR UPDATE finds a row: it waits for the row's lock, then the
\* row is updated in place.
Update(r) ==
  /\ Goto(r, "upsert", "upsert")
  /\ HasRecord(r)
  /\ Visible(r, Tender(r))
  /\ Free(r, Tender(r))
  /\ Write(r, Tender(r))
  /\ UNCHANGED <<fetched, page, report, database, archived, faults>>

\* SELECT ... FOR UPDATE finds no row and locks nothing.
FindNothing(r) ==
  /\ Goto(r, "upsert", "insert")
  /\ HasRecord(r)
  /\ ~Visible(r, Tender(r))
  /\ UNCHANGED <<fetched, page, next, report, pending, database, archived, faults>>

\* The INSERT waits for another transaction inserting the same key.
Insert(r) ==
  /\ Goto(r, "insert", "upsert")
  /\ store[Tender(r)] = <<>>
  /\ Free(r, Tender(r))
  /\ Write(r, Tender(r))
  /\ report' = [report EXCEPT ![r].new = @ + 1]
  /\ UNCHANGED <<fetched, page, database, archived, faults>>

Commit(r) ==
  /\ Goto(r, "upsert", "fetch")
  /\ ~HasRecord(r)
  /\ store' = [t \in Tenders |->
                 IF Holds(r, t)
                 THEN Append(store[t], [doc |-> Document(r), on |-> pending[r][t]])
                 ELSE store[t]]
  /\ pending' = [pending EXCEPT ![r] = NothingPending]
  /\ UNCHANGED <<fetched, page, next, report, archived, raw, failures, crawls, faults>>

-----------------------------------------------------------------------------
\* Mutant of Abort: the error is caught per page and the sweep goes on.
AbortPageOnly(r) ==
  /\ pc' = [pc EXCEPT ![r] = "fetch"]
  /\ pending' = [pending EXCEPT ![r] = NothingPending]
  /\ UNCHANGED <<fetched, page, next, report, database, archived, faults>>

\* Mutant of Abort: the connection is not rolled back.
AbortHolding(r) ==
  /\ pc' = [pc EXCEPT ![r] = "finish"]
  /\ report' = [report EXCEPT ![r].status = "failed"]
  /\ UNCHANGED <<fetched, page, next, pending, database, archived, faults>>

\* Mutant of Abort: what was written so far is committed.
AbortCommitting(r) ==
  /\ pc' = [pc EXCEPT ![r] = "finish"]
  /\ report' = [report EXCEPT ![r].status = "failed"]
  /\ store' = [t \in Tenders |->
                 IF Holds(r, t)
                 THEN Append(store[t], [doc |-> Document(r), on |-> pending[r][t]])
                 ELSE store[t]]
  /\ pending' = [pending EXCEPT ![r] = NothingPending]
  /\ UNCHANGED <<fetched, page, next, archived, raw, failures, crawls, faults>>

\* A database error inside the page's transaction: the connection rolls back
\* and the exception ends the sweep.  The counters keep what they counted.
Abort(r) ==
  /\ pc' = [pc EXCEPT ![r] = "finish"]
  /\ report' = [report EXCEPT ![r].status = "failed"]
  /\ pending' = [pending EXCEPT ![r] = NothingPending]
  /\ UNCHANGED <<fetched, page, next, database, archived, faults>>

\* Another run committed the same new tender since FindNothing.
UniqueViolation(r) ==
  /\ pc[r] = "insert"
  /\ store[Tender(r)] # <<>>
  /\ Free(r, Tender(r))
  /\ Abort(r)

\* The run whose transaction r's current statement waits for.
WaitsFor(r, s) ==
  /\ s # r
  /\ \/ pc[r] = "insert"
     \/ pc[r] = "upsert" /\ HasRecord(r) /\ Visible(r, Tender(r))
  /\ Holds(s, Tender(r))

\* PostgreSQL aborts one of the transactions that wait for each other.
DeadlockDetected(r) ==
  /\ \E ring \in SUBSET Runs :
       /\ r \in ring
       /\ \A s \in ring : \E u \in ring : WaitsFor(s, u)
       /\ \A s \in ring : \E u \in ring : WaitsFor(u, s)
  /\ Abort(r)

\* _finalize
Finish(r) ==
  /\ Goto(r, "finish", "done")
  /\ crawls' = [crawls EXCEPT ![r] = [status |-> report[r].status, new |-> report[r].new]]
  /\ UNCHANGED <<fetched, page, next, report, pending, store, archived, raw, failures, faults>>

\* The process dies; PostgreSQL rolls its transaction back.
Crash(r) ==
  /\ Fault
  /\ pc[r] \notin {"idle", "done", "dead"}
  /\ pc' = [pc EXCEPT ![r] = "dead"]
  /\ pending' = [pending EXCEPT ![r] = NothingPending]
  /\ UNCHANGED <<fetched, page, next, report, database, archived>>

RunStep(r) ==
  \/ Start(r) \/ Fetch(r) \/ EndSweep(r)
  \/ ArchivePage(r) \/ RecordRaw(r) \/ Parse(r) \/ RecordFailure(r)
  \/ Update(r) \/ FindNothing(r) \/ Insert(r) \/ Commit(r)
  \/ UniqueViolation(r) \/ DeadlockDetected(r)
  \/ Finish(r)

Next ==
  \E r \in Runs : RunStep(r) \/ FetchFails(r) \/ ParseFails(r) \/ Crash(r)

Spec == Init /\ [][Next]_pageVars

(***************************************************************************)
(* A run that can take a step does: asyncio schedules it, PostgreSQL wakes *)
(* the waiters of a lock that is released and checks for deadlocks after   *)
(* deadlock_timeout.                                                       *)
(***************************************************************************)
FairSpec == Spec /\ \A r \in Runs : WF_pageVars(RunStep(r))
-----------------------------------------------------------------------------
(***************************************************************************)
(* The types, and that only a run in the middle of its upserts has a       *)
(* transaction open.                                                       *)
(***************************************************************************)
PageTypeOK ==
  /\ pc \in [Runs -> Steps]
  /\ fetched \in [Runs -> 0 .. MaxFetches]
  /\ page \in [Runs -> Pages]
  /\ next \in [Runs -> Nat \ {0}]
  /\ report \in [Runs -> [new : Nat, failures : Nat,
                          status : {"running", "ok", "partial", "failed"}]]
  /\ pending \in [Runs -> [Tenders -> Nat \cup {NULL}]]
  /\ store \in [Tenders -> Seq([doc : Documents, on : Nat])]
  /\ archived \subseteq Documents
  /\ raw \subseteq Documents
  /\ failures \subseteq Documents
  /\ crawls \in [Runs -> [status : {NULL, "running", "ok", "partial", "failed"},
                          new : Nat]]
  /\ faults \in 0 .. MaxFaults
  /\ \A r \in Runs : pc[r] \notin {"upsert", "insert"} => pending[r] = NothingPending

(***************************************************************************)
(* The order the runner's module comment calls load-bearing: whatever is   *)
(* in the tenders table comes from a document that is on disk and has a    *)
(* committed raw_documents row, however the run ended.                     *)
(***************************************************************************)
ArchivedBeforeStored ==
  \A t \in Tenders : \A i \in 1 .. Len(store[t]) :
    store[t][i].doc \in archived /\ store[t][i].doc \in raw

(***************************************************************************)
(* No lost update: every write of a tender was computed on the write       *)
(* before it, which is what upsert_tender's diff and merge assume          *)
(* (SELECT ... FOR UPDATE).                                                *)
(***************************************************************************)
NoLostUpdate ==
  \A t \in Tenders : \A i \in 1 .. Len(store[t]) : store[t][i].on = i - 1

(***************************************************************************)
(* No parsed tender is silently dropped: when a run says it succeeded,     *)
(* each document it recorded is either applied to every tender its parse   *)
(* yields or has a parse failure to replay, and it says "partial" exactly  *)
(* in the second case.  A page that yields nothing leaves its document and *)
(* nothing else.                                                           *)
(***************************************************************************)
Applied(d, t) == \E i \in 1 .. Len(store[t]) : store[t][i].doc = d

Rows(d) == {Content(d[3])[i] : i \in 1 .. Len(Content(d[3]))}

RawAccountedFor ==
  \A r \in Runs : crawls[r].status \in {"ok", "partial"} =>
    /\ \A d \in raw : d[1] = r => d \in failures \/ \A t \in Rows(d) : Applied(d, t)
    /\ crawls[r].status = "partial" <=> \E d \in failures : d[1] = r

(***************************************************************************)
(* What a successful run reports as new is what it put in the database:    *)
(* nothing rolled back is counted and no tender is new twice.              *)
(***************************************************************************)
NewIsNew ==
  \A r \in Runs : crawls[r].status \in {"ok", "partial"} =>
    crawls[r].new =
      Cardinality({t \in Tenders : store[t] # <<>> /\ store[t][1].doc[1] = r})

(***************************************************************************)
(* Concurrent runs amount to pages applied one at a time, each whole and   *)
(* once.                                                                   *)
(***************************************************************************)
Atomic == INSTANCE AtomicIngest WITH
  applied <- [t \in Tenders |-> [i \in 1 .. Len(store[t]) |-> store[t][i].doc]]

PagesAreAtomic == Atomic!Spec

(***************************************************************************)
(* Every run ends with a verdict, whatever locks it meets, unless its      *)
(* process dies.                                                           *)
(***************************************************************************)
EveryRunEnds ==
  \A r \in Runs : crawls[r].status = "running" ~>
                    crawls[r].status # "running" \/ pc[r] = "dead"
=============================================================================
