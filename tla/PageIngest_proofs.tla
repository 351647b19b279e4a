------------------------- MODULE PageIngest_proofs --------------------------
(***************************************************************************)
(* Crawl runs of any number of processes, over any pages: what reaches the *)
(* tenders table was archived and recorded first, no update is lost, every *)
(* page is applied whole and once, and a run that says it succeeded has    *)
(* accounted for every document and every tender it put there.             *)
(***************************************************************************)
EXTENDS PageIngest, SequenceTheorems, FiniteSetTheorems, TLAPS

InPage   == {"archive", "record", "parse", "failed", "upsert", "insert"}
Upserting == {"upsert", "insert"}

\* The record to be upserted next is one of a tender.
LEMMA TenderType ==
  ASSUME PageTypeOK, NEW r \in Runs, HasRecord(r)
  PROVE  Tender(r) \in Tenders /\ next[r] \in 1 .. Len(Content(page[r]))
<1>1. Content(page[r]) \in Seq(Tenders) /\ next[r] \in Nat \ {0}
  BY IngestAssumption DEF PageTypeOK
<1>2. next[r] \in 1 .. Len(Content(page[r]))
  BY <1>1, LenProperties DEF HasRecord
<1> QED
  BY <1>1, <1>2, ElementOfSeq DEF Tender

\* What a write of t by r does to the open transactions.
LEMMA WriteFacts ==
  ASSUME PageTypeOK, NEW r \in Runs, NEW t \in Tenders, Write(r, t)
  PROVE  /\ pending' \in [Runs -> [Tenders -> Nat \cup {NULL}]]
         /\ next' \in [Runs -> Nat \ {0}]
         /\ next'[r] = next[r] + 1
         /\ \A s \in Runs \ {r} : pending'[s] = pending[s] /\ next'[s] = next[s]
         /\ \A u \in Tenders \ {t} : pending'[r][u] = pending[r][u]
         /\ pending[r][t] # NULL => pending'[r][t] = pending[r][t]
         /\ pending[r][t] = NULL => pending'[r][t] = Len(store[t])
         /\ pending'[r][t] # NULL
<1>1. Len(store[t]) \in Nat
  BY LenProperties DEF PageTypeOK
<1> QED
  BY <1>1, IngestAssumption DEF PageTypeOK, Write

\* What a commit does to the table.
LEMMA CommitFacts ==
  ASSUME PageTypeOK, NEW r \in Runs, Commit(r), Document(r) \in Documents,
         NEW t \in Tenders
  PROVE  /\ ~Holds(r, t) => store'[t] = store[t]
         /\ Holds(r, t) =>
              /\ store'[t] \in Seq([doc : Documents, on : Nat])
              /\ Len(store'[t]) = Len(store[t]) + 1
              /\ \A i \in 1 .. Len(store[t]) : store'[t][i] = store[t][i]
              /\ store'[t][Len(store[t]) + 1] =
                   [doc |-> Document(r), on |-> pending[r][t]]
<1> DEFINE e == [doc |-> Document(r), on |-> pending[r][t]]
<1>1. store[t] \in Seq([doc : Documents, on : Nat])
  BY DEF PageTypeOK
<1>2. Holds(r, t) => e \in [doc : Documents, on : Nat]
  BY DEF Holds, PageTypeOK
<1>3. store'[t] = IF Holds(r, t) THEN Append(store[t], e) ELSE store[t]
  BY DEF Commit
<1> HIDE DEF e
<1>4. Holds(r, t) => /\ Append(store[t], e) \in Seq([doc : Documents, on : Nat])
                     /\ Len(Append(store[t], e)) = Len(store[t]) + 1
                     /\ \A i \in 1 .. Len(store[t]) : Append(store[t], e)[i] = store[t][i]
                     /\ Append(store[t], e)[Len(store[t]) + 1] = e
  BY <1>1, <1>2, AppendProperties
<1> QED
  BY <1>3, <1>4 DEF e

-----------------------------------------------------------------------------
(* Typing. *)

LEMMA InitType == Init => PageTypeOK
  BY IngestAssumption
  DEF Init, PageTypeOK, NothingPending, Steps, Documents

\* The documents that are recorded by a step are documents.
LEMMA DocumentType ==
  ASSUME PageTypeOK, NEW r \in Runs, fetched[r] # 0
  PROVE  Document(r) \in Documents
BY IngestAssumption DEF PageTypeOK, Document, Documents

(***************************************************************************)
(* A run that is ingesting a page has fetched it, and inserts only while   *)
(* there is a record.                                                      *)
(***************************************************************************)
Fetching ==
  \A r \in Runs : /\ pc[r] \in InPage => fetched[r] # 0
                  /\ pc[r] = "insert" => HasRecord(r)

\* Every step but those that write a tender.
Bookkeeping(r) ==
  \/ Start(r) \/ Fetch(r) \/ EndSweep(r) \/ FetchFails(r)
  \/ ArchivePage(r) \/ RecordRaw(r) \/ Parse(r) \/ ParseFails(r) \/ RecordFailure(r)
  \/ FindNothing(r) \/ Finish(r)

Aborting(r) == UniqueViolation(r) \/ DeadlockDetected(r) \/ Crash(r)

LEMMA StepCases ==
  ASSUME [Next]_pageVars
  PROVE  \/ \E r \in Runs : \/ Bookkeeping(r) \/ Aborting(r)
                            \/ Update(r) \/ Insert(r) \/ Commit(r)
         \/ UNCHANGED pageVars
BY DEF Next, RunStep, Bookkeeping, Aborting

\* How a bookkeeping step moves a run: all the variables of the control flow.
LEMMA BookkeepingMoves ==
  ASSUME PageTypeOK, Fetching, NEW r \in Runs, Bookkeeping(r)
  PROVE  /\ pending' = pending /\ store' = store
         /\ pc' \in [Runs -> Steps] /\ page' \in [Runs -> Pages]
         /\ fetched' \in [Runs -> 0 .. MaxFetches] /\ next' \in [Runs -> Nat \ {0}]
         /\ \A s \in Runs \ {r} : /\ pc'[s] = pc[s] /\ page'[s] = page[s]
                                  /\ next'[s] = next[s] /\ fetched'[s] = fetched[s]
<1> USE IngestAssumption DEF PageTypeOK, Steps, Goto, Fault, control, database
<1>1. CASE Start(r)         BY <1>1 DEF Start
<1>2. CASE Fetch(r)         BY <1>2 DEF Fetch
<1>3. CASE EndSweep(r)      BY <1>3 DEF EndSweep
<1>4. CASE FetchFails(r)    BY <1>4 DEF FetchFails
<1>5. CASE ArchivePage(r)   BY <1>5 DEF ArchivePage
<1>6. CASE RecordRaw(r)     BY <1>6 DEF RecordRaw
<1>7. CASE Parse(r)         BY <1>7 DEF Parse
<1>8. CASE ParseFails(r)    BY <1>8 DEF ParseFails
<1>9. CASE RecordFailure(r) BY <1>9 DEF RecordFailure
<1>10. CASE FindNothing(r)  BY <1>10 DEF FindNothing
<1>11. CASE Finish(r)       BY <1>11 DEF Finish
<1> QED
  BY <1>1, <1>2, <1>3, <1>4, <1>5, <1>6, <1>7, <1>8, <1>9, <1>10, <1>11 DEF Bookkeeping

Reports == [Runs -> [new : Nat, failures : Nat,
                    status : {"running", "ok", "partial", "failed"}]]

\* The three ways a report changes.
LEMMA ReportType ==
  ASSUME report \in Reports, NEW r \in Runs
  PROVE  /\ [report EXCEPT ![r].failures = @ + 1] \in Reports
         /\ [report EXCEPT ![r].new = @ + 1] \in Reports
         /\ \A v \in {"ok", "partial", "failed"} :
              [report EXCEPT ![r].status = v] \in Reports
BY DEF Reports

\* What a bookkeeping step records.
LEMMA BookkeepingRecords ==
  ASSUME PageTypeOK, Fetching, NEW r \in Runs, Bookkeeping(r)
  PROVE  /\ archived' \subseteq Documents /\ raw' \subseteq Documents
         /\ failures' \subseteq Documents
         /\ report' \in Reports
         /\ crawls' \in [Runs -> [status : {NULL, "running", "ok", "partial", "failed"},
                                  new : Nat]]
         /\ faults' \in 0 .. MaxFaults
<1>a. report \in Reports
  BY DEF PageTypeOK, Reports
<1>b. report' = report => report' \in Reports
  BY <1>a
<1>c. \A v \in {"ok", "partial", "failed"} :
         report' = [report EXCEPT ![r].status = v] => report' \in Reports
  BY <1>a, ReportType
<1>d. [report EXCEPT ![r].failures = @ + 1] \in Reports
  BY <1>a, ReportType
<1> USE IngestAssumption DEF PageTypeOK, Goto, Fault, control, database
<1>0. pc[r] \in InPage => Document(r) \in Documents
  BY DocumentType DEF Fetching
<1>1. CASE Start(r)         BY <1>b, <1>1 DEF Start
<1>2. CASE Fetch(r)         BY <1>b, <1>2 DEF Fetch
<1>3. CASE EndSweep(r)
  <2> DEFINE verdict == IF report[r].failures # 0 THEN "partial" ELSE "ok"
  <2>1. report' = [report EXCEPT ![r].status = verdict] /\ verdict \in {"partial", "ok"}
    BY <1>3 DEF EndSweep
  <2> HIDE DEF verdict
  <2>2. report' \in Reports
    BY <2>1, <1>c
  <2> QED BY <1>3, <2>2 DEF EndSweep
<1>4. CASE FetchFails(r)    BY <1>4, <1>c DEF FetchFails
<1>5. CASE ArchivePage(r)   BY <1>b, <1>0, <1>5 DEF ArchivePage, InPage
<1>6. CASE RecordRaw(r)     BY <1>b, <1>0, <1>6 DEF RecordRaw, InPage
<1>7. CASE Parse(r)         BY <1>b, <1>7 DEF Parse
<1>8. CASE ParseFails(r)    BY <1>8, <1>d DEF ParseFails
<1>9. CASE RecordFailure(r) BY <1>b, <1>0, <1>9 DEF RecordFailure, InPage
<1>10. CASE FindNothing(r)  BY <1>b, <1>10 DEF FindNothing
<1>11. CASE Finish(r)       BY <1>b, <1>11 DEF Finish
<1> QED
  BY <1>1, <1>2, <1>3, <1>4, <1>5, <1>6, <1>7, <1>8, <1>9, <1>10, <1>11 DEF Bookkeeping

\* Where a bookkeeping step leaves the run it moves.
LEMMA BookkeepingStages ==
  ASSUME PageTypeOK, Fetching, NEW r \in Runs, Bookkeeping(r)
  PROVE  /\ pc'[r] \in Upserting => pc[r] \in {"parse", "upsert"}
         /\ pc[r] = "parse" /\ pc'[r] = "upsert" => next'[r] = 1
         /\ pc[r] \in Upserting => pc[r] = "upsert" /\ pc'[r] = "insert" /\ HasRecord(r)
         /\ pc'[r] = "insert" => pc[r] = "upsert"
         /\ pc'[r] \in InPage \ {"archive"} =>
              pc[r] \in InPage /\ page'[r] = page[r] /\ fetched'[r] = fetched[r]
         /\ pc'[r] = "archive" => pc[r] = "fetch" /\ fetched'[r] = fetched[r] + 1
         /\ pc'[r] # "archive" => fetched'[r] = fetched[r]
         /\ pc[r] = "upsert" => next'[r] = next[r]
<1> USE IngestAssumption
    DEF PageTypeOK, Goto, Fault, control, database, InPage, Upserting
<1>1. CASE Start(r)         BY <1>1 DEF Start
<1>2. CASE Fetch(r)         BY <1>2 DEF Fetch
<1>3. CASE EndSweep(r)      BY <1>3 DEF EndSweep
<1>4. CASE FetchFails(r)    BY <1>4 DEF FetchFails
<1>5. CASE ArchivePage(r)   BY <1>5 DEF ArchivePage
<1>6. CASE RecordRaw(r)     BY <1>6 DEF RecordRaw
<1>7. CASE Parse(r)         BY <1>7 DEF Parse
<1>8. CASE ParseFails(r)    BY <1>8 DEF ParseFails
<1>9. CASE RecordFailure(r) BY <1>9 DEF RecordFailure
<1>10. CASE FindNothing(r)  BY <1>10 DEF FindNothing
<1>11. CASE Finish(r)       BY <1>11 DEF Finish
<1> QED
  BY <1>1, <1>2, <1>3, <1>4, <1>5, <1>6, <1>7, <1>8, <1>9, <1>10, <1>11 DEF Bookkeeping

\* An aborted transaction leaves nothing and ends the run's sweep.
LEMMA AbortFacts ==
  ASSUME PageTypeOK, NEW r \in Runs, Aborting(r)
  PROVE  /\ pc' \in [Runs -> Steps] /\ pc'[r] \in {"finish", "dead"}
         /\ \A s \in Runs \ {r} : pc'[s] = pc[s]
         /\ pending' = [pending EXCEPT ![r] = NothingPending]
         /\ report' \in Reports
         /\ faults' \in 0 .. MaxFaults
         /\ UNCHANGED <<fetched, page, next, store, raw, failures, crawls, archived>>
<1>a. report \in Reports
  BY DEF PageTypeOK, Reports
<1>b. [report EXCEPT ![r].status = "failed"] \in Reports
  BY <1>a, ReportType
<1> USE IngestAssumption DEF PageTypeOK, Steps, Goto, Fault, control, database
<1>1. CASE UniqueViolation(r)  BY <1>b, <1>1 DEF UniqueViolation, Abort
<1>2. CASE DeadlockDetected(r) BY <1>b, <1>2 DEF DeadlockDetected, Abort
<1>3. CASE Crash(r)            BY <1>a, <1>3 DEF Crash
<1> QED BY <1>1, <1>2, <1>3 DEF Aborting

\* A write of a tender: an update or an insert.
LEMMA WritingFacts ==
  ASSUME PageTypeOK, Fetching, NEW r \in Runs, Update(r) \/ Insert(r)
  PROVE  /\ pc[r] \in Upserting /\ pc' = [pc EXCEPT ![r] = "upsert"]
         /\ HasRecord(r) /\ Tender(r) \in Tenders
         /\ next[r] \in 1 .. Len(Content(page[r]))
         /\ Free(r, Tender(r)) /\ Write(r, Tender(r))
         /\ report' \in Reports
         /\ UNCHANGED <<fetched, page, store, raw, failures, crawls, archived, faults>>
<1>a. report \in Reports
  BY DEF PageTypeOK, Reports
<1>b. [report EXCEPT ![r].new = @ + 1] \in Reports
  BY <1>a, ReportType
<1> USE DEF Goto, control, database, Upserting
<1>1. HasRecord(r)
  BY DEF Update, Insert, Fetching
<1>2. Tender(r) \in Tenders /\ next[r] \in 1 .. Len(Content(page[r]))
  BY <1>1, TenderType
<1>3. CASE Update(r)  BY <1>a, <1>1, <1>2, <1>3 DEF Update
<1>4. CASE Insert(r)  BY <1>b, <1>1, <1>2, <1>4 DEF Insert
<1> QED BY <1>3, <1>4

LEMMA StepType ==
  ASSUME PageTypeOK, Fetching, [Next]_pageVars
  PROVE  PageTypeOK' /\ Fetching'
<1> USE IngestAssumption
<1>1. ASSUME NEW r \in Runs, Bookkeeping(r) PROVE PageTypeOK' /\ Fetching'
  <2>1. /\ pending' = pending /\ store' = store
        /\ pc' \in [Runs -> Steps] /\ page' \in [Runs -> Pages]
        /\ fetched' \in [Runs -> 0 .. MaxFetches] /\ next' \in [Runs -> Nat \ {0}]
        /\ \A s \in Runs \ {r} : /\ pc'[s] = pc[s] /\ page'[s] = page[s]
                                 /\ next'[s] = next[s] /\ fetched'[s] = fetched[s]
    BY <1>1, BookkeepingMoves
  <2>2. /\ archived' \subseteq Documents /\ raw' \subseteq Documents
        /\ failures' \subseteq Documents
        /\ report' \in Reports
        /\ crawls' \in [Runs -> [status : {NULL, "running", "ok", "partial", "failed"},
                                 new : Nat]]
        /\ faults' \in 0 .. MaxFaults
    BY <1>1, BookkeepingRecords
  <2>3. /\ pc[r] \in Upserting => pc[r] = "upsert" /\ pc'[r] = "insert" /\ HasRecord(r)
        /\ pc'[r] = "insert" => pc[r] = "upsert"
        /\ pc'[r] \in InPage \ {"archive"} =>
             pc[r] \in InPage /\ page'[r] = page[r] /\ fetched'[r] = fetched[r]
        /\ pc'[r] = "archive" => pc[r] = "fetch" /\ fetched'[r] = fetched[r] + 1
        /\ pc[r] = "upsert" => next'[r] = next[r]
    BY <1>1, BookkeepingStages
  <2>4. \A s \in Runs : pc'[s] \notin {"upsert", "insert"} => pending'[s] = NothingPending
    BY <2>1, <2>3 DEF PageTypeOK, Upserting
  <2>5. PageTypeOK'
    BY <2>1, <2>2, <2>4 DEF PageTypeOK, Reports
  <2>6. \A s \in Runs : pc'[s] \in InPage => fetched'[s] # 0
    <3> SUFFICES ASSUME NEW s \in Runs, pc'[s] \in InPage PROVE fetched'[s] # 0
      OBVIOUS
    <3>1. CASE s # r
      BY <2>1, <3>1 DEF Fetching
    <3>2. CASE s = r /\ pc'[r] = "archive"
      BY <2>3, <3>2 DEF PageTypeOK
    <3>3. CASE s = r /\ pc'[r] # "archive"
      BY <2>3, <3>3 DEF Fetching
    <3> QED BY <3>1, <3>2, <3>3
  <2>7. \A s \in Runs : pc'[s] = "insert" => HasRecord(s)'
    <3> SUFFICES ASSUME NEW s \in Runs, pc'[s] = "insert" PROVE HasRecord(s)'
      OBVIOUS
    <3>1. CASE s # r
      BY <2>1, <3>1 DEF Fetching, HasRecord
    <3>2. CASE s = r
      <4>1. pc[r] = "upsert" /\ HasRecord(r) /\ next'[r] = next[r]
        BY <2>3, <3>2 DEF Upserting
      <4>2. page'[r] = page[r]
        BY <2>3, <3>2 DEF InPage
      <4> QED BY <3>2, <4>1, <4>2 DEF HasRecord
    <3> QED BY <3>1, <3>2
  <2> QED BY <2>5, <2>6, <2>7 DEF Fetching
<1>2. ASSUME NEW r \in Runs, Aborting(r) PROVE PageTypeOK' /\ Fetching'
  <2>1. /\ pc' \in [Runs -> Steps] /\ pc'[r] \in {"finish", "dead"}
        /\ \A s \in Runs \ {r} : pc'[s] = pc[s]
        /\ pending' = [pending EXCEPT ![r] = NothingPending]
        /\ report' \in Reports
        /\ faults' \in 0 .. MaxFaults
        /\ UNCHANGED <<fetched, page, next, store, raw, failures, crawls, archived>>
    BY <1>2, AbortFacts
  <2>2. pending' \in [Runs -> [Tenders -> Nat \cup {NULL}]]
    BY <2>1 DEF PageTypeOK, NothingPending
  <2>3. \A s \in Runs : pc'[s] \notin {"upsert", "insert"} => pending'[s] = NothingPending
    BY <2>1 DEF PageTypeOK
  <2>4. PageTypeOK'
    BY <2>1, <2>2, <2>3 DEF PageTypeOK, Reports
  <2>5. Fetching'
    BY <2>1 DEF Fetching, HasRecord, InPage
  <2> QED BY <2>4, <2>5
<1>3. ASSUME NEW r \in Runs, Update(r) \/ Insert(r) PROVE PageTypeOK' /\ Fetching'
  <2>1. /\ pc[r] \in Upserting /\ pc' = [pc EXCEPT ![r] = "upsert"]
        /\ Tender(r) \in Tenders /\ Write(r, Tender(r))
        /\ report' \in Reports
        /\ UNCHANGED <<fetched, page, store, raw, failures, crawls, archived, faults>>
    BY <1>3, WritingFacts
  <2>2. /\ pending' \in [Runs -> [Tenders -> Nat \cup {NULL}]]
        /\ next' \in [Runs -> Nat \ {0}]
        /\ \A s \in Runs \ {r} : pending'[s] = pending[s] /\ next'[s] = next[s]
    BY <2>1, WriteFacts
  <2>3. \A s \in Runs : pc'[s] \notin {"upsert", "insert"} => pending'[s] = NothingPending
    BY <2>1, <2>2 DEF PageTypeOK
  <2>4. pc' \in [Runs -> Steps]
    BY <2>1 DEF PageTypeOK, Steps
  <2>5. PageTypeOK'
    BY <2>1, <2>2, <2>3, <2>4 DEF PageTypeOK, Reports
  <2>6. Fetching'
    BY <2>1, <2>2 DEF PageTypeOK, Fetching, HasRecord, InPage, Upserting
  <2> QED BY <2>5, <2>6
<1>4. ASSUME NEW r \in Runs, Commit(r) PROVE PageTypeOK' /\ Fetching'
  <2>1. Document(r) \in Documents
    BY <1>4, DocumentType DEF Commit, Goto, Fetching, InPage
  <2>2. \A t \in Tenders : store'[t] \in Seq([doc : Documents, on : Nat])
    BY <1>4, <2>1, CommitFacts DEF PageTypeOK
  <2>3. store' \in [Tenders -> Seq([doc : Documents, on : Nat])]
    BY <1>4, <2>2 DEF Commit
  <2>4. PageTypeOK'
    BY <1>4, <2>3 DEF PageTypeOK, Commit, Goto, Steps, NothingPending
  <2>5. Fetching'
    BY <1>4 DEF PageTypeOK, Fetching, HasRecord, InPage, Commit, Goto
  <2> QED BY <2>4, <2>5
<1>5. CASE UNCHANGED pageVars
  BY <1>5 DEF pageVars, control, database, PageTypeOK, Fetching, HasRecord
<1> QED
  BY <1>1, <1>2, <1>3, <1>4, <1>5, StepCases

(***************************************************************************)
(* The types, of every behaviour.                                          *)
(***************************************************************************)
THEOREM PageTypeCorrect == Spec => [](PageTypeOK /\ Fetching)
<1>1. Init => Fetching
  BY DEF Init, Fetching, InPage
<1> QED
  BY <1>1, InitType, StepType, PTL DEF Spec

-----------------------------------------------------------------------------
(* Archived, recorded, then stored. *)

(***************************************************************************)
(* A run that has passed a stage of _ingest has left its trace.            *)
(***************************************************************************)
Traces ==
  \A r \in Runs :
    /\ pc[r] \in {"record", "parse", "failed"} \cup Upserting => Document(r) \in archived
    /\ pc[r] \in {"parse", "failed"} \cup Upserting => Document(r) \in raw

\* Bookkeeping forgets no trace and adds those of the stages it passes.
LEMMA BookkeepingTraces ==
  ASSUME PageTypeOK, Fetching, NEW r \in Runs, Bookkeeping(r), Traces
  PROVE  /\ archived \subseteq archived' /\ raw \subseteq raw'
         /\ pc'[r] \in {"record", "parse", "failed"} \cup Upserting =>
              Document(r)' \in archived'
         /\ pc'[r] \in {"parse", "failed"} \cup Upserting => Document(r)' \in raw'
<1> USE IngestAssumption
    DEF PageTypeOK, Goto, Fault, control, database, Upserting, Traces, Document
<1>1. CASE Start(r)         BY <1>1 DEF Start
<1>2. CASE Fetch(r)         BY <1>2 DEF Fetch
<1>3. CASE EndSweep(r)      BY <1>3 DEF EndSweep
<1>4. CASE FetchFails(r)    BY <1>4 DEF FetchFails
<1>5. CASE ArchivePage(r)   BY <1>5 DEF ArchivePage
<1>6. CASE RecordRaw(r)     BY <1>6 DEF RecordRaw
<1>7. CASE Parse(r)         BY <1>7 DEF Parse
<1>8. CASE ParseFails(r)    BY <1>8 DEF ParseFails
<1>9. CASE RecordFailure(r) BY <1>9 DEF RecordFailure
<1>10. CASE FindNothing(r)  BY <1>10 DEF FindNothing
<1>11. CASE Finish(r)       BY <1>11 DEF Finish
<1> QED
  BY <1>1, <1>2, <1>3, <1>4, <1>5, <1>6, <1>7, <1>8, <1>9, <1>10, <1>11 DEF Bookkeeping

\* The same, of every step.
LEMMA StepTraces ==
  ASSUME PageTypeOK, Fetching, Traces, [Next]_pageVars
  PROVE  Traces' /\ archived \subseteq archived' /\ raw \subseteq raw'
<1>1. ASSUME NEW r \in Runs, Bookkeeping(r)
      PROVE  Traces' /\ archived \subseteq archived' /\ raw \subseteq raw'
  <2>1. /\ archived \subseteq archived' /\ raw \subseteq raw'
        /\ pc'[r] \in {"record", "parse", "failed"} \cup Upserting =>
             Document(r)' \in archived'
        /\ pc'[r] \in {"parse", "failed"} \cup Upserting => Document(r)' \in raw'
    BY <1>1, BookkeepingTraces
  <2>2. \A s \in Runs \ {r} : pc'[s] = pc[s] /\ Document(s)' = Document(s)
    BY <1>1, BookkeepingMoves DEF Document
  <2> QED BY <2>1, <2>2 DEF Traces
<1>2. ASSUME NEW r \in Runs, Aborting(r)
      PROVE  Traces' /\ archived \subseteq archived' /\ raw \subseteq raw'
  BY <1>2, AbortFacts DEF Traces, Upserting, Document
<1>3. ASSUME NEW r \in Runs, Update(r) \/ Insert(r)
      PROVE  Traces' /\ archived \subseteq archived' /\ raw \subseteq raw'
  <2>1. /\ pc[r] \in Upserting /\ pc' = [pc EXCEPT ![r] = "upsert"]
        /\ UNCHANGED <<fetched, page, raw, archived>>
    BY <1>3, WritingFacts
  <2> QED BY <2>1 DEF Traces, Upserting, Document, PageTypeOK
<1>4. ASSUME NEW r \in Runs, Commit(r)
      PROVE  Traces' /\ archived \subseteq archived' /\ raw \subseteq raw'
  BY <1>4 DEF Commit, Goto, Traces, Upserting, Document, PageTypeOK
<1>5. CASE UNCHANGED pageVars
  BY <1>5 DEF pageVars, control, database, Traces, Document
<1> QED
  BY <1>1, <1>2, <1>3, <1>4, <1>5, StepCases

\* Only a commit changes the table.
LEMMA StoreMoves ==
  ASSUME PageTypeOK, Fetching, [Next]_pageVars
  PROVE  store' = store \/ \E r \in Runs : Commit(r) /\ Document(r) \in Documents
<1>1. ASSUME NEW r \in Runs, Bookkeeping(r) PROVE store' = store
  BY <1>1, BookkeepingMoves
<1>2. ASSUME NEW r \in Runs, Aborting(r) PROVE store' = store
  BY <1>2, AbortFacts
<1>3. ASSUME NEW r \in Runs, Update(r) \/ Insert(r) PROVE store' = store
  BY <1>3, WritingFacts
<1>4. ASSUME NEW r \in Runs, Commit(r) PROVE Document(r) \in Documents
  BY <1>4, DocumentType DEF Commit, Goto, Fetching, InPage
<1>5. CASE UNCHANGED pageVars
  BY <1>5 DEF pageVars, control, database
<1> QED
  BY <1>1, <1>2, <1>3, <1>4, <1>5, StepCases

LEMMA StepArchived ==
  ASSUME PageTypeOK, Fetching, Traces, ArchivedBeforeStored, [Next]_pageVars
  PROVE  ArchivedBeforeStored'
<1>1. archived \subseteq archived' /\ raw \subseteq raw'
  BY StepTraces
<1>2. CASE store' = store
  BY <1>1, <1>2 DEF ArchivedBeforeStored
<1>3. ASSUME NEW r \in Runs, Commit(r), Document(r) \in Documents
      PROVE  ArchivedBeforeStored'
  <2>1. Document(r) \in archived' /\ Document(r) \in raw'
    BY <1>1, <1>3 DEF Traces, Commit, Goto, Upserting
  <2> SUFFICES ASSUME NEW t \in Tenders, NEW i \in 1 .. Len(store'[t])
               PROVE  store'[t][i].doc \in archived' /\ store'[t][i].doc \in raw'
    BY DEF ArchivedBeforeStored
  <2>2. CASE ~Holds(r, t)
    BY <1>1, <1>3, <2>2, CommitFacts DEF ArchivedBeforeStored
  <2>3. CASE Holds(r, t)
    <3>1. /\ Len(store'[t]) = Len(store[t]) + 1
          /\ \A j \in 1 .. Len(store[t]) : store'[t][j] = store[t][j]
          /\ store'[t][Len(store[t]) + 1] = [doc |-> Document(r), on |-> pending[r][t]]
      BY <1>3, <2>3, CommitFacts
    <3>2. Len(store[t]) \in Nat
      BY LenProperties DEF PageTypeOK
    <3>3. i \in 1 .. Len(store[t]) \/ i = Len(store[t]) + 1
      BY <3>1, <3>2
    <3>4. store'[t][Len(store[t]) + 1].doc = Document(r)
      BY <3>1
    <3> QED BY <1>1, <2>1, <3>1, <3>3, <3>4 DEF ArchivedBeforeStored
  <2> QED BY <2>2, <2>3
<1> QED
  BY <1>2, <1>3, StoreMoves

(***************************************************************************)
(* Whatever is in the tenders table was archived and recorded first.       *)
(***************************************************************************)
THEOREM AlwaysArchivedBeforeStored == Spec => []ArchivedBeforeStored
<1>1. Init => Traces /\ ArchivedBeforeStored
  <2> SUFFICES ASSUME Init PROVE Traces /\ ArchivedBeforeStored
    OBVIOUS
  <2>1. \A t \in Tenders : store[t] = <<>>
    BY DEF Init
  <2> QED BY <2>1 DEF Init, Traces, ArchivedBeforeStored, Upserting
<1> QED
  BY <1>1, StepTraces, StepArchived, PageTypeCorrect, PTL DEF Spec

-----------------------------------------------------------------------------
(* Row locks and lost updates. *)

(***************************************************************************)
(* At most one open transaction has written a row, and nothing was         *)
(* committed to the row since.                                             *)
(***************************************************************************)
Locked ==
  \A r \in Runs : \A t \in Tenders : Holds(r, t) =>
    /\ pending[r][t] = Len(store[t])
    /\ \A s \in Runs : Holds(s, t) => s = r

LEMMA StepLocked ==
  ASSUME PageTypeOK, Fetching, Locked, [Next]_pageVars
  PROVE  Locked'
<1>1. ASSUME NEW r \in Runs, Bookkeeping(r) PROVE Locked'
  <2>1. pending' = pending /\ store' = store
    BY <1>1, BookkeepingMoves
  <2> QED BY <2>1 DEF Locked, Holds
<1>2. ASSUME NEW r \in Runs, Aborting(r) PROVE Locked'
  <2>1. pending' = [pending EXCEPT ![r] = NothingPending] /\ store' = store
    BY <1>2, AbortFacts
  <2> QED BY <2>1 DEF Locked, Holds, NothingPending, PageTypeOK
<1>3. ASSUME NEW r \in Runs, Update(r) \/ Insert(r) PROVE Locked'
  <2> DEFINE u == Tender(r)
  <2>1. u \in Tenders /\ Free(r, u) /\ Write(r, u) /\ store' = store
    BY <1>3, WritingFacts
  <2>2. /\ \A s \in Runs \ {r} : pending'[s] = pending[s]
        /\ \A t \in Tenders \ {u} : pending'[r][t] = pending[r][t]
        /\ pending[r][u] # NULL => pending'[r][u] = pending[r][u]
        /\ pending[r][u] = NULL => pending'[r][u] = Len(store[u])
    BY <2>1, WriteFacts
  <2> HIDE DEF u
  <2> QED BY <2>1, <2>2 DEF Locked, Holds, Free
<1>4. ASSUME NEW r \in Runs, Commit(r) PROVE Locked'
  <2>1. pending' = [pending EXCEPT ![r] = NothingPending]
    BY <1>4 DEF Commit
  <2>2. \A s \in Runs : \A t \in Tenders : Holds(s, t)' => s # r /\ Holds(s, t)
    BY <2>1 DEF Holds, NothingPending, PageTypeOK
  <2>3. \A s \in Runs : \A t \in Tenders : Holds(s, t)' => store'[t] = store[t]
    BY <1>4, <2>2 DEF Locked, Commit
  <2> QED BY <2>1, <2>2, <2>3 DEF Locked, Holds, PageTypeOK
<1>5. CASE UNCHANGED pageVars
  BY <1>5 DEF pageVars, control, database, Locked, Holds
<1> QED
  BY <1>1, <1>2, <1>3, <1>4, <1>5, StepCases

LEMMA StepNoLostUpdate ==
  ASSUME PageTypeOK, Fetching, Locked, NoLostUpdate, [Next]_pageVars
  PROVE  NoLostUpdate'
<1>1. CASE store' = store
  BY <1>1 DEF NoLostUpdate
<1>2. ASSUME NEW r \in Runs, Commit(r), Document(r) \in Documents
      PROVE  NoLostUpdate'
  <2> SUFFICES ASSUME NEW t \in Tenders, NEW i \in 1 .. Len(store'[t])
               PROVE  store'[t][i].on = i - 1
    BY DEF NoLostUpdate
  <2>1. CASE ~Holds(r, t)
    <3>1. store'[t] = store[t]
      BY <1>2, <2>1, CommitFacts
    <3> QED BY <3>1 DEF NoLostUpdate
  <2>2. CASE Holds(r, t)
    <3>1. /\ Len(store'[t]) = Len(store[t]) + 1
          /\ \A j \in 1 .. Len(store[t]) : store'[t][j] = store[t][j]
          /\ store'[t][Len(store[t]) + 1] = [doc |-> Document(r), on |-> pending[r][t]]
      BY <1>2, <2>2, CommitFacts
    <3>2. Len(store[t]) \in Nat /\ pending[r][t] = Len(store[t])
      BY <2>2, LenProperties DEF PageTypeOK, Locked
    <3>3. i \in 1 .. Len(store[t]) \/ i = Len(store[t]) + 1
      BY <3>1, <3>2
    <3>4. store'[t][Len(store[t]) + 1].on = Len(store[t])
      BY <3>1, <3>2
    <3>5. CASE i \in 1 .. Len(store[t])
      BY <3>1, <3>5 DEF NoLostUpdate
    <3>6. CASE i = Len(store[t]) + 1
      BY <3>2, <3>4, <3>6
    <3> QED BY <3>3, <3>5, <3>6
  <2> QED BY <2>1, <2>2
<1> QED
  BY <1>1, <1>2, StoreMoves

(***************************************************************************)
(* No update is lost, whatever runs side by side.                          *)
(***************************************************************************)
THEOREM NeverLostUpdate == Spec => []NoLostUpdate
<1>1. Init => Locked /\ NoLostUpdate
  <2> SUFFICES ASSUME Init PROVE Locked /\ NoLostUpdate
    OBVIOUS
  <2>1. \A t \in Tenders : store[t] = <<>>
    BY DEF Init
  <2>2. \A r \in Runs : \A t \in Tenders : ~Holds(r, t)
    BY DEF Init, NothingPending, Holds
  <2>3. Locked
    BY <2>2 DEF Locked
  <2>4. NoLostUpdate
    BY <2>1 DEF NoLostUpdate
  <2> QED BY <2>3, <2>4
<1> QED
  BY <1>1, StepLocked, StepNoLostUpdate, PageTypeCorrect, PTL DEF Spec

-----------------------------------------------------------------------------
(* Pages are atomic. *)

(***************************************************************************)
(* The open transaction has written the tenders of the records handled so  *)
(* far, and what is stored of the run comes from pages it is done with.    *)
(***************************************************************************)
PendingIsPrefix ==
  \A r \in Runs : pc[r] \in Upserting =>
    /\ next[r] <= Len(Content(page[r])) + 1
    /\ \A t \in Tenders :
         Holds(r, t) <=> \E i \in 1 .. next[r] - 1 : Content(page[r])[i] = t

StoredIsPast ==
  \A t \in Tenders : \A i \in 1 .. Len(store[t]) : \A r \in Runs :
    r = store[t][i].doc[1] =>
      /\ store[t][i].doc[2] <= fetched[r]
      /\ store[t][i].doc[2] = fetched[r] => pc[r] \notin InPage

LEMMA StepPrefix ==
  ASSUME PageTypeOK, Fetching, PendingIsPrefix, [Next]_pageVars
  PROVE  PendingIsPrefix'
<1>1. ASSUME NEW r \in Runs, Bookkeeping(r) PROVE PendingIsPrefix'
  <2>1. /\ pending' = pending
        /\ \A s \in Runs \ {r} : /\ pc'[s] = pc[s] /\ page'[s] = page[s]
                                 /\ next'[s] = next[s]
    BY <1>1, BookkeepingMoves
  <2>2. /\ pc'[r] \in Upserting => pc[r] \in {"parse", "upsert"}
        /\ pc[r] = "parse" /\ pc'[r] = "upsert" => next'[r] = 1
        /\ pc'[r] = "insert" => pc[r] = "upsert"
        /\ pc'[r] \in InPage \ {"archive"} => page'[r] = page[r]
        /\ pc[r] = "upsert" => next'[r] = next[r]
    BY <1>1, BookkeepingStages
  <2> SUFFICES ASSUME NEW s \in Runs, pc'[s] \in Upserting
               PROVE  /\ next'[s] <= Len(Content(page'[s])) + 1
                      /\ \A t \in Tenders : Holds(s, t)' <=>
                           \E i \in 1 .. next'[s] - 1 : Content(page'[s])[i] = t
    BY DEF PendingIsPrefix
  <2>3. CASE s # r
    BY <2>1, <2>3 DEF PendingIsPrefix, Holds
  <2>4. CASE s = r /\ pc[r] = "upsert"
    BY <2>1, <2>2, <2>4 DEF PendingIsPrefix, Holds, Upserting, InPage
  <2>5. CASE s = r /\ pc[r] = "parse"
    <3>1. next'[r] = 1
      BY <2>2, <2>5 DEF Upserting
    <3>2. \A t \in Tenders : ~Holds(r, t)'
      BY <2>1, <2>5 DEF Holds, PageTypeOK, NothingPending
    <3>3. Len(Content(page'[r])) \in Nat
      BY <1>1, BookkeepingMoves, IngestAssumption, LenProperties
    <3> QED BY <2>5, <3>1, <3>2, <3>3
  <2> QED BY <2>2, <2>3, <2>4, <2>5
<1>2. ASSUME NEW r \in Runs, Aborting(r) PROVE PendingIsPrefix'
  <2>1. /\ pc'[r] \in {"finish", "dead"}
        /\ \A s \in Runs \ {r} : pc'[s] = pc[s]
        /\ pending' = [pending EXCEPT ![r] = NothingPending]
        /\ UNCHANGED <<page, next>>
    BY <1>2, AbortFacts
  <2> QED BY <2>1 DEF PendingIsPrefix, Upserting, Holds, PageTypeOK
<1>3. ASSUME NEW r \in Runs, Update(r) \/ Insert(r) PROVE PendingIsPrefix'
  <2> DEFINE u == Tender(r)
  <2>1. /\ pc[r] \in Upserting /\ pc' = [pc EXCEPT ![r] = "upsert"]
        /\ u \in Tenders /\ Write(r, u)
        /\ next[r] \in 1 .. Len(Content(page[r]))
        /\ page' = page
    BY <1>3, WritingFacts
  <2>2. /\ next'[r] = next[r] + 1
        /\ \A s \in Runs \ {r} : pending'[s] = pending[s] /\ next'[s] = next[s]
        /\ \A t \in Tenders \ {u} : pending'[r][t] = pending[r][t]
        /\ pending'[r][u] # NULL
    BY <2>1, WriteFacts
  <2>3. u = Content(page[r])[next[r]]
    BY DEF Tender
  <2>a. Len(Content(page[r])) \in Nat
    BY <2>1, IngestAssumption, LenProperties DEF PageTypeOK
  <2> HIDE DEF u
  <2> SUFFICES ASSUME NEW s \in Runs, pc'[s] \in Upserting
               PROVE  /\ next'[s] <= Len(Content(page'[s])) + 1
                      /\ \A t \in Tenders : Holds(s, t)' <=>
                           \E i \in 1 .. next'[s] - 1 : Content(page'[s])[i] = t
    BY DEF PendingIsPrefix
  <2>4. CASE s # r
    <3>1. /\ pc'[s] = pc[s] /\ page'[s] = page[s] /\ next'[s] = next[s]
          /\ pending'[s] = pending[s]
      BY <2>1, <2>2, <2>4 DEF PageTypeOK
    <3> QED BY <3>1 DEF PendingIsPrefix, Holds
  <2>5. CASE s = r
    <3>1. \A t \in Tenders : Holds(r, t)' <=> Holds(r, t) \/ t = u
      BY <2>2 DEF Holds
    <3>2. \A t \in Tenders :
            Holds(r, t) <=> \E i \in 1 .. next[r] - 1 : Content(page[r])[i] = t
      BY <2>1 DEF PendingIsPrefix
    <3>3. next[r] \in 1 .. next'[r] - 1 /\ 1 .. next'[r] - 1 = (1 .. next[r] - 1) \cup {next[r]}
      BY <2>1, <2>2, <2>a
    <3>4. next'[r] <= Len(Content(page[r])) + 1
      BY <2>1, <2>2, <2>a
    <3> QED BY <2>1, <2>3, <2>5, <3>1, <3>2, <3>3, <3>4
  <2> QED BY <2>4, <2>5
<1>4. ASSUME NEW r \in Runs, Commit(r) PROVE PendingIsPrefix'
  <2>1. /\ pc'[r] = "fetch" /\ \A s \in Runs \ {r} : pc'[s] = pc[s]
        /\ pending' = [pending EXCEPT ![r] = NothingPending]
        /\ UNCHANGED <<page, next>>
    BY <1>4 DEF Commit, Goto, PageTypeOK
  <2> QED BY <2>1 DEF PendingIsPrefix, Upserting, Holds, PageTypeOK
<1>5. CASE UNCHANGED pageVars
  BY <1>5 DEF pageVars, control, database, PendingIsPrefix, Holds
<1> QED
  BY <1>1, <1>2, <1>3, <1>4, <1>5, StepCases

LEMMA StepPast ==
  ASSUME PageTypeOK, Fetching, StoredIsPast, [Next]_pageVars
  PROVE  StoredIsPast'
<1> DEFINE Past(d, r) == r = d[1] =>
             /\ d[2] <= fetched[r]
             /\ d[2] = fetched[r] => pc[r] \notin InPage
<1>0. \A t \in Tenders : \A i \in 1 .. Len(store[t]) :
        store[t][i].doc \in Documents /\ store[t][i].doc[2] \in Nat
  <2> SUFFICES ASSUME NEW t \in Tenders, NEW i \in 1 .. Len(store[t])
               PROVE  store[t][i].doc \in Documents /\ store[t][i].doc[2] \in Nat
    OBVIOUS
  <2>1. store[t] \in Seq([doc : Documents, on : Nat])
    BY DEF PageTypeOK
  <2>2. store[t][i] \in [doc : Documents, on : Nat]
    BY <2>1, ElementOfSeq
  <2> QED BY <2>2 DEF Documents
<1>1. ASSUME NEW r \in Runs, Bookkeeping(r) PROVE StoredIsPast'
  <2>1. /\ store' = store
        /\ fetched' \in [Runs -> 0 .. MaxFetches]
        /\ \A s \in Runs \ {r} : pc'[s] = pc[s] /\ fetched'[s] = fetched[s]
    BY <1>1, BookkeepingMoves
  <2>2. /\ pc'[r] \in InPage \ {"archive"} => pc[r] \in InPage
        /\ pc'[r] = "archive" => fetched'[r] = fetched[r] + 1
        /\ pc'[r] # "archive" => fetched'[r] = fetched[r]
    BY <1>1, BookkeepingStages
  <2>3. fetched[r] \in Nat
    BY IngestAssumption DEF PageTypeOK
  <2> SUFFICES ASSUME NEW t \in Tenders, NEW i \in 1 .. Len(store[t]), NEW s \in Runs,
                      s = store[t][i].doc[1]
               PROVE  /\ store[t][i].doc[2] <= fetched'[s]
                      /\ store[t][i].doc[2] = fetched'[s] => pc'[s] \notin InPage
    BY <2>1 DEF StoredIsPast
  <2>4. /\ store[t][i].doc[2] <= fetched[s]
        /\ store[t][i].doc[2] = fetched[s] => pc[s] \notin InPage
    BY DEF StoredIsPast
  <2>5. store[t][i].doc[2] \in Nat
    BY <1>0
  <2>6. CASE s # r
    BY <2>1, <2>4, <2>6
  <2>7. CASE s = r /\ pc'[r] = "archive"
    BY <2>2, <2>3, <2>4, <2>5, <2>7
  <2>8. CASE s = r /\ pc'[r] # "archive"
    BY <2>2, <2>4, <2>8
  <2> QED BY <2>6, <2>7, <2>8
<1>2. ASSUME NEW r \in Runs, Aborting(r) PROVE StoredIsPast'
  BY <1>2, AbortFacts DEF StoredIsPast, InPage
<1>3. ASSUME NEW r \in Runs, Update(r) \/ Insert(r) PROVE StoredIsPast'
  <2>1. /\ pc[r] \in Upserting /\ pc' = [pc EXCEPT ![r] = "upsert"]
        /\ UNCHANGED <<fetched, store>>
    BY <1>3, WritingFacts
  <2>2. \A s \in Runs : pc'[s] \in InPage => pc[s] \in InPage
    BY <2>1 DEF PageTypeOK, InPage, Upserting
  <2> QED BY <2>1, <2>2 DEF StoredIsPast
<1>4. ASSUME NEW r \in Runs, Commit(r) PROVE StoredIsPast'
  <2>1. /\ pc'[r] = "fetch" /\ \A s \in Runs \ {r} : pc'[s] = pc[s]
        /\ fetched' = fetched
    BY <1>4 DEF Commit, Goto, PageTypeOK
  <2>2. Document(r) \in Documents
    BY <1>4, DocumentType DEF Commit, Goto, Fetching, InPage
  <2>3. fetched[r] \in Nat
    BY IngestAssumption DEF PageTypeOK
  <2> SUFFICES ASSUME NEW t \in Tenders, NEW i \in 1 .. Len(store'[t]), NEW s \in Runs,
                      s = store'[t][i].doc[1]
               PROVE  /\ store'[t][i].doc[2] <= fetched[s]
                      /\ store'[t][i].doc[2] = fetched[s] => pc'[s] \notin InPage
    BY <2>1 DEF StoredIsPast
  <2>4. \A j \in 1 .. Len(store[t]) : s = store[t][j].doc[1] =>
          /\ store[t][j].doc[2] <= fetched[s]
          /\ store[t][j].doc[2] = fetched[s] => pc'[s] \notin InPage
    BY <2>1 DEF StoredIsPast, InPage
  <2>5. CASE ~Holds(r, t)
    BY <1>4, <2>2, <2>4, <2>5, CommitFacts
  <2>6. CASE Holds(r, t)
    <3>1. /\ Len(store'[t]) = Len(store[t]) + 1
          /\ \A j \in 1 .. Len(store[t]) : store'[t][j] = store[t][j]
          /\ store'[t][Len(store[t]) + 1] = [doc |-> Document(r), on |-> pending[r][t]]
      BY <1>4, <2>2, <2>6, CommitFacts
    <3>2. Len(store[t]) \in Nat
      BY LenProperties DEF PageTypeOK
    <3>3. CASE i \in 1 .. Len(store[t])
      BY <2>4, <3>1, <3>3
    <3>4. CASE i = Len(store[t]) + 1
      <4>1. store'[t][i].doc = <<r, fetched[r], page[r]>>
        BY <3>1, <3>4 DEF Document
      <4>2. s = r /\ store'[t][i].doc[2] = fetched[r]
        BY <4>1
      <4> QED BY <2>1, <2>3, <4>2 DEF InPage
    <3> QED BY <3>1, <3>2, <3>3, <3>4
  <2> QED BY <2>5, <2>6
<1>5. CASE UNCHANGED pageVars
  BY <1>5 DEF pageVars, control, database, StoredIsPast
<1> QED
  BY <1>1, <1>2, <1>3, <1>4, <1>5, StepCases

-----------------------------------------------------------------------------
(* The refinement. *)

\* The documents applied to a tender, as AtomicIngest sees them.
AppliedTo(t) == [i \in 1 .. Len(store[t]) |-> store[t][i].doc]

LEMMA AppliedLength ==
  ASSUME PageTypeOK, NEW t \in Tenders
  PROVE  Len(AppliedTo(t)) = Len(store[t])
<1>1. store[t] \in Seq([doc : Documents, on : Nat])
  BY DEF PageTypeOK
<1>2. Len(store[t]) \in Nat
  BY <1>1, LenProperties
<1>3. AppliedTo(t) \in [1 .. Len(store[t]) -> Documents]
  <2>1. \A i \in 1 .. Len(store[t]) : store[t][i] \in [doc : Documents, on : Nat]
    BY <1>1, ElementOfSeq
  <2> QED BY <2>1 DEF AppliedTo
<1>4. AppliedTo(t) \in Seq(Documents)
  BY <1>2, <1>3, SeqDef
<1>5. DOMAIN AppliedTo(t) = 1 .. Len(AppliedTo(t)) /\ Len(AppliedTo(t)) \in Nat
  BY <1>4, LenProperties
<1>6. DOMAIN AppliedTo(t) = 1 .. Len(store[t])
  BY <1>3
<1> QED BY <1>2, <1>5, <1>6

\* A commit that writes t adds its document to them.
LEMMA AppliedAppends ==
  ASSUME PageTypeOK, NEW r \in Runs, Commit(r), Document(r) \in Documents,
         NEW t \in Tenders, Holds(r, t)
  PROVE  AppliedTo(t)' = Append(AppliedTo(t), Document(r))
<1>1. /\ Len(store'[t]) = Len(store[t]) + 1
      /\ \A j \in 1 .. Len(store[t]) : store'[t][j] = store[t][j]
      /\ store'[t][Len(store[t]) + 1] = [doc |-> Document(r), on |-> pending[r][t]]
  BY CommitFacts
<1>2. store[t] \in Seq([doc : Documents, on : Nat])
  BY DEF PageTypeOK
<1>3. Len(store[t]) \in Nat
  BY <1>2, LenProperties
<1>4. \A i \in 1 .. Len(store[t]) : store[t][i].doc \in Documents
  <2>1. \A i \in 1 .. Len(store[t]) : store[t][i] \in [doc : Documents, on : Nat]
    BY <1>2, ElementOfSeq
  <2> QED BY <2>1
<1> DEFINE a == AppliedTo(t)
<1>5. a \in [1 .. Len(store[t]) -> Documents]
  BY <1>4 DEF AppliedTo
<1>6. a \in Seq(Documents) /\ Len(a) = Len(store[t])
  <2>1. a \in Seq(Documents)
    BY <1>3, <1>5, SeqDef
  <2>2. DOMAIN a = 1 .. Len(a) /\ Len(a) \in Nat
    BY <2>1, LenProperties
  <2>3. DOMAIN a = 1 .. Len(store[t])
    BY <1>5
  <2>4. Len(a) = Len(store[t])
    BY <1>3, <2>2, <2>3
  <2> QED BY <2>1, <2>4
<1> DEFINE b == Append(a, Document(r))
<1>7. /\ b \in Seq(Documents) /\ Len(b) = Len(store[t]) + 1
      /\ \A i \in 1 .. Len(store[t]) : b[i] = a[i]
      /\ b[Len(store[t]) + 1] = Document(r)
  <2> HIDE DEF a
  <2> QED BY <1>6, AppendProperties
<1>8. b = [i \in 1 .. Len(store[t]) + 1 |-> b[i]]
  <2>1. b \in [1 .. Len(b) -> Documents]
    BY <1>7, LenProperties
  <2> HIDE DEF b
  <2> QED BY <1>7, <2>1
<1>9. \A i \in 1 .. Len(store[t]) + 1 : store'[t][i].doc = b[i]
  <2> SUFFICES ASSUME NEW i \in 1 .. Len(store[t]) + 1 PROVE store'[t][i].doc = b[i]
    OBVIOUS
  <2>1. CASE i \in 1 .. Len(store[t])
    <3>1. b[i] = a[i] /\ a[i] = store[t][i].doc
      BY <1>7, <2>1 DEF AppliedTo
    <3> HIDE DEF b
    <3> QED BY <1>1, <2>1, <3>1
  <2>2. CASE i = Len(store[t]) + 1
    <3>1. store'[t][i].doc = Document(r)
      BY <1>1, <2>2
    <3> HIDE DEF b
    <3> QED BY <1>7, <2>2, <3>1
  <2>3. i \in 1 .. Len(store[t]) \/ i = Len(store[t]) + 1
    BY <1>3
  <2> HIDE DEF b
  <2> QED BY <2>1, <2>2, <2>3
<1>10. AppliedTo(t)' = [i \in 1 .. Len(store[t]) + 1 |-> store'[t][i].doc]
  BY <1>1 DEF AppliedTo
<1> HIDE DEF b
<1>11. AppliedTo(t)' = b
  BY <1>8, <1>9, <1>10
<1> QED BY <1>11 DEF b

\* A commit writes the tenders of its page, whole and for the first time.
LEMMA CommitIsIngest ==
  ASSUME PageTypeOK, Fetching, PendingIsPrefix, StoredIsPast,
         NEW r \in Runs, Commit(r), NEW d \in Documents, d = Document(r)
  PROVE  Atomic!Ingest(d)
<1>1. d[1] = r /\ d[2] = fetched[r] /\ d[3] = page[r] /\ pc[r] = "upsert"
  BY DEF Document, Commit, Goto
<1>2. \A t \in Tenders : Holds(r, t) <=> t \in Rows(d)
  <2>1. next[r] - 1 = Len(Content(page[r]))
    <3>1. Len(Content(page[r])) \in Nat /\ next[r] \in Nat
      BY IngestAssumption, LenProperties DEF PageTypeOK
    <3>2. next[r] <= Len(Content(page[r])) + 1
      BY <1>1 DEF PendingIsPrefix, Upserting
    <3> QED BY <3>1, <3>2 DEF Commit, HasRecord
  <2> QED BY <1>1, <2>1 DEF PendingIsPrefix, Upserting, Rows
<1>3. \A t \in Tenders : AppliedTo(t)' =
        IF t \in Rows(d) THEN Append(AppliedTo(t), d) ELSE AppliedTo(t)
  <2> SUFFICES ASSUME NEW t \in Tenders
               PROVE  AppliedTo(t)' =
                        IF t \in Rows(d) THEN Append(AppliedTo(t), d) ELSE AppliedTo(t)
    OBVIOUS
  <2>1. CASE Holds(r, t)
    BY <1>2, <2>1, AppliedAppends
  <2>2. CASE ~Holds(r, t)
    <3>1. store'[t] = store[t]
      BY <2>2, CommitFacts
    <3> QED BY <1>2, <2>2, <3>1 DEF AppliedTo
  <2> QED BY <2>1, <2>2
<1>4. \A t \in Tenders : \A i \in 1 .. Len(store[t]) : store[t][i].doc # d
  <2> SUFFICES ASSUME NEW t \in Tenders, NEW i \in 1 .. Len(store[t]), store[t][i].doc = d
               PROVE  FALSE
    OBVIOUS
  <2> QED BY <1>1 DEF StoredIsPast, InPage
<1>5. Atomic!Fresh(d)
  <2> SUFFICES ASSUME NEW t \in Tenders, NEW i \in 1 .. Len(AppliedTo(t)),
                      AppliedTo(t)[i] = d
               PROVE  FALSE
    BY DEF Atomic!Fresh, AppliedTo
  <2>1. Len(AppliedTo(t)) = Len(store[t])
    BY AppliedLength
  <2>2. store[t][i].doc = d
    BY <2>1 DEF AppliedTo
  <2> QED BY <1>4, <2>1, <2>2
<1>6. [t \in Tenders |-> AppliedTo(t)]' =
        [t \in Tenders |->
           IF t \in Rows(d)
           THEN Append([u \in Tenders |-> AppliedTo(u)][t], d)
           ELSE [u \in Tenders |-> AppliedTo(u)][t]]
  BY <1>3
<1> QED BY <1>5, <1>6 DEF Atomic!Ingest, AppliedTo

\* Every step ingests a page or leaves the table alone.
LEMMA StepIngests ==
  ASSUME PageTypeOK, Fetching, PendingIsPrefix, StoredIsPast, [Next]_pageVars
  PROVE  \/ Atomic!Next
         \/ UNCHANGED [t \in Tenders |-> AppliedTo(t)]
<1>1. CASE store' = store
  BY <1>1 DEF AppliedTo
<1>2. ASSUME NEW r \in Runs, Commit(r), Document(r) \in Documents PROVE Atomic!Next
  <2>1. PICK d \in Documents : d = Document(r)
    BY <1>2
  <2>2. Atomic!Ingest(d)
    BY <1>2, <2>1, CommitIsIngest
  <2> QED BY <2>2 DEF Atomic!Next
<1> QED
  BY <1>1, <1>2, StoreMoves

(***************************************************************************)
(* Concurrent runs amount to pages applied one at a time, each whole and   *)
(* once.                                                                   *)
(***************************************************************************)
THEOREM PagesAlwaysAtomic == Spec => PagesAreAtomic
<1>1. Init => Atomic!Init /\ PendingIsPrefix /\ StoredIsPast
  <2> SUFFICES ASSUME Init PROVE Atomic!Init /\ PendingIsPrefix /\ StoredIsPast
    OBVIOUS
  <2>1. \A t \in Tenders : store[t] = <<>>
    BY DEF Init
  <2>2. \A t \in Tenders : AppliedTo(t) = <<>>
    BY <2>1 DEF AppliedTo
  <2>3. Atomic!Init
    BY <2>2 DEF Atomic!Init, AppliedTo
  <2>4. PendingIsPrefix
    <3>1. \A r \in Runs : pc[r] \notin Upserting
      BY DEF Init, Upserting
    <3> QED BY <3>1 DEF PendingIsPrefix
  <2>5. StoredIsPast
    BY <2>1 DEF StoredIsPast
  <2> QED BY <2>3, <2>4, <2>5
<1>2. PageTypeOK /\ Fetching /\ PendingIsPrefix /\ StoredIsPast /\ [Next]_pageVars =>
        [Atomic!Next]_([t \in Tenders |-> [i \in 1 .. Len(store[t]) |-> store[t][i].doc]])
  BY StepIngests DEF AppliedTo
<1>3. Spec => [](PendingIsPrefix /\ StoredIsPast)
  BY <1>1, StepPrefix, StepPast, PageTypeCorrect, PTL DEF Spec
<1> QED
  BY <1>1, <1>2, <1>3, PageTypeCorrect, PTL DEF Spec, PagesAreAtomic, Atomic!Spec

-----------------------------------------------------------------------------
(* The verdict of a run. *)

(***************************************************************************)
(* What a run says of itself: it is "running" until its sweep ends, its    *)
(* failures are those it filed, or is about to, and the row in crawl_runs  *)
(* has the status of the report.                                           *)
(***************************************************************************)
Filed(r) == \E d \in failures : d[1] = r

Verdict ==
  \A r \in Runs :
    /\ pc[r] \in {"idle", "fetch"} \cup InPage => report[r].status = "running"
    /\ crawls[r].status \in {"ok", "partial"} =>
         pc[r] = "done" /\ report[r].status = crawls[r].status
    /\ report[r].status = "partial" => report[r].failures # 0
    /\ report[r].status = "ok" => report[r].failures = 0
    /\ pc[r] # "dead" => (report[r].failures # 0 <=> pc[r] = "failed" \/ Filed(r))

\* Steps that leave the reports and the failures alone.
LEMMA QuietSteps ==
  ASSUME PageTypeOK, Verdict, NEW r \in Runs, NEW to \in Steps,
         UNCHANGED <<report, failures>>, pc' = [pc EXCEPT ![r] = to],
         pc[r] # "failed" /\ pc[r] # "done" /\ to # "failed",
         to \in {"idle", "fetch"} \cup InPage => pc[r] \in {"idle", "fetch"} \cup InPage,
         pc[r] = "dead" => to = "dead",
         \/ crawls' = crawls
         \/ crawls' = [crawls EXCEPT ![r].status = "running"]
         \/ crawls' = [crawls EXCEPT ![r] = [status |-> report[r].status, new |-> report[r].new]]
            /\ to = "done"
  PROVE  Verdict'
<1>1. /\ pc'[r] = to /\ \A s \in Runs \ {r} : pc'[s] = pc[s]
      /\ \A s \in Runs : Filed(s)' <=> Filed(s)
  BY DEF PageTypeOK, Filed
<1>2. /\ \A s \in Runs \ {r} : crawls'[s] = crawls[s]
      /\ \/ crawls'[r].status \in {crawls[r].status, "running"}
         \/ crawls'[r].status = report[r].status /\ to = "done"
  BY DEF PageTypeOK
<1>3. crawls[r].status \notin {"ok", "partial"}
  BY DEF Verdict
<1> HIDE DEF Verdict
<1> SUFFICES ASSUME NEW s \in Runs
             PROVE  /\ pc'[s] \in {"idle", "fetch"} \cup InPage => report[s].status = "running"
                    /\ crawls'[s].status \in {"ok", "partial"} =>
                         pc'[s] = "done" /\ report[s].status = crawls'[s].status
                    /\ report[s].status = "partial" => report[s].failures # 0
                    /\ report[s].status = "ok" => report[s].failures = 0
                    /\ pc'[s] # "dead" => (report[s].failures # 0 <=> pc'[s] = "failed" \/ Filed(s))
  BY <1>1 DEF Verdict
<1>4. CASE s = r  BY <1>1, <1>2, <1>3, <1>4 DEF Verdict
<1>5. CASE s # r  BY <1>1, <1>2, <1>5 DEF Verdict
<1> QED BY <1>4, <1>5

\* Steps that change the report of r, and end its sweep or not.
LEMMA ReportingSteps ==
  ASSUME PageTypeOK, Verdict, NEW r \in Runs, NEW to \in Steps, crawls' = crawls,
         pc[r] \notin {"done", "dead"}, pc' = [pc EXCEPT ![r] = to],
         failures \subseteq failures', \A d \in failures' \ failures : d[1] = r,
         \A s \in Runs \ {r} : report'[s] = report[s],
         to \in {"idle", "fetch"} \cup InPage => report'[r].status = "running",
         report'[r].status = "partial" => report'[r].failures # 0,
         report'[r].status = "ok" => report'[r].failures = 0,
         to # "dead" => (report'[r].failures # 0 <=> to = "failed" \/ Filed(r)')
  PROVE  Verdict'
<1>1. /\ pc'[r] = to /\ \A s \in Runs \ {r} : pc'[s] = pc[s]
      /\ \A s \in Runs \ {r} : Filed(s)' <=> Filed(s)
  BY DEF PageTypeOK, Filed
<1>2. crawls[r].status \notin {"ok", "partial"}
  BY DEF Verdict
<1> SUFFICES ASSUME NEW s \in Runs
             PROVE  /\ pc'[s] \in {"idle", "fetch"} \cup InPage => report'[s].status = "running"
                    /\ crawls'[s].status \in {"ok", "partial"} =>
                         pc'[s] = "done" /\ report'[s].status = crawls'[s].status
                    /\ report'[s].status = "partial" => report'[s].failures # 0
                    /\ report'[s].status = "ok" => report'[s].failures = 0
                    /\ pc'[s] # "dead" => (report'[s].failures # 0 <=> pc'[s] = "failed" \/ Filed(s)')
  BY DEF Verdict
<1>4. CASE s = r  BY <1>1, <1>2, <1>4
<1>5. CASE s # r  BY <1>1, <1>5 DEF Verdict
<1> QED BY <1>4, <1>5

LEMMA StepVerdict ==
  ASSUME PageTypeOK, Fetching, Verdict, [Next]_pageVars
  PROVE  Verdict'
<1> USE DEF Goto, control, database, Steps, InPage
<1>0. CASE UNCHANGED pageVars
  BY <1>0 DEF pageVars, Verdict, Filed
<1>1. ASSUME NEW r \in Runs,
             \/ Start(r) \/ Fetch(r) \/ ArchivePage(r) \/ RecordRaw(r) \/ Parse(r)
             \/ Update(r) \/ FindNothing(r) \/ Commit(r) \/ Finish(r)
      PROVE  Verdict'
  <2>1. CASE Start(r)       BY <2>1, QuietSteps DEF Start
  <2>2. CASE Fetch(r)       BY <2>2, QuietSteps DEF Fetch
  <2>3. CASE ArchivePage(r) BY <2>3, QuietSteps DEF ArchivePage
  <2>4. CASE RecordRaw(r)   BY <2>4, QuietSteps DEF RecordRaw
  <2>5. CASE Parse(r)       BY <2>5, QuietSteps DEF Parse
  <2>6. CASE Update(r)      BY <2>6, QuietSteps DEF Update
  <2>7. CASE FindNothing(r) BY <2>7, QuietSteps DEF FindNothing
  <2>8. CASE Commit(r)      BY <2>8, QuietSteps DEF Commit
  <2>9. CASE Finish(r)      BY <2>9, QuietSteps DEF Finish
  <2> QED BY <1>1, <2>1, <2>2, <2>3, <2>4, <2>5, <2>6, <2>7, <2>8, <2>9
<1>2. ASSUME NEW r \in Runs, EndSweep(r) PROVE Verdict'
  <2> DEFINE verdict == IF report[r].failures # 0 THEN "partial" ELSE "ok"
  <2>1. /\ pc[r] = "fetch" /\ pc' = [pc EXCEPT ![r] = "finish"]
        /\ report' = [report EXCEPT ![r].status = verdict]
        /\ UNCHANGED <<failures, crawls>>
    BY <1>2 DEF EndSweep
  <2>2. /\ report'[r].status = verdict /\ report'[r].failures = report[r].failures
        /\ \A s \in Runs \ {r} : report'[s] = report[s]
    BY <2>1 DEF PageTypeOK
  <2>3. Filed(r)' <=> Filed(r)
    BY <2>1 DEF Filed
  <2>4. report[r].failures # 0 <=> Filed(r)
    BY <2>1 DEF Verdict
  <2>5. /\ verdict = "partial" => report[r].failures # 0
        /\ verdict = "ok" => report[r].failures = 0
        /\ verdict # "running"
    OBVIOUS
  <2> HIDE DEF verdict
  <2> QED BY <2>1, <2>2, <2>3, <2>4, <2>5, ReportingSteps
<1>3. ASSUME NEW r \in Runs, FetchFails(r) \/ UniqueViolation(r) \/ DeadlockDetected(r)
      PROVE  Verdict'
  <2>1. /\ pc[r] \in {"fetch", "upsert", "insert"} /\ pc' = [pc EXCEPT ![r] = "finish"]
        /\ report' = [report EXCEPT ![r].status = "failed"]
        /\ UNCHANGED <<failures, crawls>>
    BY <1>3 DEF FetchFails, UniqueViolation, DeadlockDetected, WaitsFor, Abort
  <2>2. /\ report'[r].status = "failed" /\ report'[r].failures = report[r].failures
        /\ \A s \in Runs \ {r} : report'[s] = report[s]
    BY <2>1 DEF PageTypeOK
  <2>3. Filed(r)' <=> Filed(r)
    BY <2>1 DEF Filed
  <2>4. report[r].failures # 0 <=> Filed(r)
    BY <2>1 DEF Verdict
  <2> QED BY <2>1, <2>2, <2>3, <2>4, ReportingSteps
<1>4. ASSUME NEW r \in Runs, ParseFails(r) PROVE Verdict'
  <2>1. /\ pc[r] = "parse" /\ pc' = [pc EXCEPT ![r] = "failed"]
        /\ report' = [report EXCEPT ![r].failures = @ + 1]
        /\ UNCHANGED <<failures, crawls>>
    BY <1>4 DEF ParseFails
  <2>2. /\ report'[r].status = report[r].status /\ report'[r].failures = report[r].failures + 1
        /\ report[r].failures \in Nat /\ report[r].status = "running"
        /\ \A s \in Runs \ {r} : report'[s] = report[s]
    BY <2>1 DEF PageTypeOK, Verdict
  <2>3. report'[r].failures # 0
    BY <2>2
  <2> QED BY <2>1, <2>2, <2>3, ReportingSteps
<1>5. ASSUME NEW r \in Runs, RecordFailure(r) PROVE Verdict'
  <2>1. /\ pc[r] = "failed" /\ pc' = [pc EXCEPT ![r] = "fetch"]
        /\ failures' = failures \cup {Document(r)} /\ Document(r)[1] = r
        /\ UNCHANGED <<report, crawls>>
    BY <1>5 DEF RecordFailure, Document
  <2>2. Filed(r)'
    BY <2>1 DEF Filed
  <2>3. report[r].failures # 0 /\ report[r].status = "running"
    BY <2>1 DEF Verdict
  <2>4. \A d \in failures' \ failures : d[1] = r
    BY <2>1
  <2> QED BY <2>1, <2>2, <2>3, <2>4, ReportingSteps
<1>6. ASSUME NEW r \in Runs, Insert(r) PROVE Verdict'
  <2>1. /\ pc[r] = "insert" /\ pc' = [pc EXCEPT ![r] = "upsert"]
        /\ report' = [report EXCEPT ![r].new = @ + 1]
        /\ UNCHANGED <<failures, crawls>>
    BY <1>6 DEF Insert
  <2>2. /\ report'[r].status = report[r].status /\ report'[r].failures = report[r].failures
        /\ report[r].status = "running"
        /\ \A s \in Runs \ {r} : report'[s] = report[s]
    BY <2>1 DEF PageTypeOK, Verdict
  <2>3. Filed(r)' <=> Filed(r)
    BY <2>1 DEF Filed
  <2>4. report[r].failures # 0 <=> Filed(r)
    BY <2>1 DEF Verdict
  <2> QED BY <2>1, <2>2, <2>3, <2>4, ReportingSteps
<1>7. ASSUME NEW r \in Runs, Crash(r) PROVE Verdict'
  <2>1. /\ pc[r] \notin {"done", "dead"} /\ pc' = [pc EXCEPT ![r] = "dead"]
        /\ UNCHANGED <<failures, crawls, report>>
    BY <1>7 DEF Crash
  <2> QED BY <2>1, ReportingSteps DEF Verdict
<1> QED
  BY <1>0, <1>1, <1>2, <1>3, <1>4, <1>5, <1>6, <1>7 DEF Next, RunStep

-----------------------------------------------------------------------------
(* Every recorded document is accounted for. *)

Reading == {"parse", "failed"} \cup Upserting

\* A recorded document is waiting for a replay, in the table, in the hands of
\* its run, or that run did not end well.
Accounted ==
  \A r \in Runs : \A d \in raw : d[1] = r =>
    \/ d \in failures
    \/ \A t \in Rows(d) : Applied(d, t)
    \/ d = Document(r) /\ pc[r] \in Reading
    \/ report[r].status = "failed"
    \/ pc[r] = "dead"

\* What a run does with the document it has recorded.
Handles(r) ==
  \/ Document(r)' = Document(r) /\ pc'[r] \in Reading
  \/ Document(r) \in failures'
  \/ report'[r].status = "failed"
  \/ pc'[r] = "dead"
  \/ Commit(r)

\* How a step of one run keeps the others, and the records, as they are.
Keeps(r) ==
  /\ failures \subseteq failures'
  /\ \A d \in raw' \ raw : d = Document(r)' /\ pc'[r] = "parse"
  /\ report[r].status = "failed" => report'[r].status = "failed"
  /\ pc[r] = "dead" => pc'[r] = "dead"
  /\ \A s \in Runs \ {r} : /\ pc'[s] = pc[s] /\ Document(s)' = Document(s)
                           /\ report'[s] = report[s]

LEMMA RunHandles ==
  ASSUME PageTypeOK, Fetching, Verdict, NEW r \in Runs,
         RunStep(r) \/ FetchFails(r) \/ ParseFails(r) \/ Crash(r)
  PROVE  Keeps(r) /\ (pc[r] \in Reading => Handles(r))
<1> USE DEF Keeps, Handles, Document, Reading, Upserting, Goto, control, database, PageTypeOK
<1>1. CASE Start(r)            BY <1>1 DEF Start
<1>2. CASE Fetch(r)            BY <1>2 DEF Fetch
<1>3. CASE EndSweep(r)
  <2>1. report[r].status = "running"
    BY <1>3 DEF EndSweep, Verdict
  <2>2. /\ pc[r] = "fetch" /\ pc' = [pc EXCEPT ![r] = "finish"]
        /\ \A s \in Runs \ {r} : report'[s] = report[s]
        /\ UNCHANGED <<fetched, page, raw, failures>>
    BY <1>3 DEF EndSweep
  <2> QED BY <2>1, <2>2
<1>4. CASE FetchFails(r)       BY <1>4 DEF FetchFails
<1>5. CASE ArchivePage(r)      BY <1>5 DEF ArchivePage
<1>6. CASE RecordRaw(r)        BY <1>6 DEF RecordRaw
<1>7. CASE Parse(r)            BY <1>7 DEF Parse
<1>8. CASE ParseFails(r)       BY <1>8 DEF ParseFails
<1>9. CASE RecordFailure(r)    BY <1>9 DEF RecordFailure
<1>10. CASE Update(r)          BY <1>10 DEF Update
<1>11. CASE FindNothing(r)     BY <1>11 DEF FindNothing
<1>12. CASE Insert(r)          BY <1>12 DEF Insert
<1>13. CASE Commit(r)          BY <1>13 DEF Commit
<1>14. CASE UniqueViolation(r) BY <1>14 DEF UniqueViolation, Abort
<1>15. CASE DeadlockDetected(r)
  <2>1. Abort(r) /\ pc[r] \in Upserting
    BY <1>15 DEF DeadlockDetected, WaitsFor
  <2> QED BY <2>1 DEF Abort
<1>16. CASE Finish(r)          BY <1>16 DEF Finish
<1>17. CASE Crash(r)           BY <1>17 DEF Crash
<1> QED
  BY <1>1, <1>2, <1>3, <1>4, <1>5, <1>6, <1>7, <1>8, <1>9, <1>10, <1>11, <1>12,
     <1>13, <1>14, <1>15, <1>16, <1>17 DEF RunStep

\* What was applied stays applied.
LEMMA AppliedStays ==
  ASSUME PageTypeOK, Fetching, [Next]_pageVars, NEW t \in Tenders, NEW d, Applied(d, t)
  PROVE  Applied(d, t)'
<1>1. CASE store' = store
  BY <1>1 DEF Applied
<1>2. ASSUME NEW r \in Runs, Commit(r), Document(r) \in Documents
      PROVE  Applied(d, t)'
  <2>1. PICK i \in 1 .. Len(store[t]) : store[t][i].doc = d
    BY DEF Applied
  <2>2. Len(store[t]) \in Nat
    BY LenProperties DEF PageTypeOK
  <2>3. i \in 1 .. Len(store'[t]) /\ store'[t][i] = store[t][i]
    <3>1. CASE Holds(r, t)
      <4>1. /\ Len(store'[t]) = Len(store[t]) + 1
            /\ \A j \in 1 .. Len(store[t]) : store'[t][j] = store[t][j]
        BY <1>2, <3>1, CommitFacts
      <4> QED BY <2>2, <4>1
    <3>2. CASE ~Holds(r, t)  BY <1>2, <3>2, CommitFacts
    <3> QED BY <3>1, <3>2
  <2> QED BY <2>1, <2>3 DEF Applied
<1> QED
  BY <1>1, <1>2, StoreMoves

\* A committed document is applied to all its tenders.
LEMMA CommitApplies ==
  ASSUME PageTypeOK, Fetching, PendingIsPrefix, NEW r \in Runs, Commit(r),
         NEW d \in Documents, d = Document(r), NEW t \in Rows(d), t \in Tenders
  PROVE  Applied(d, t)'
<1>1. d[3] = page[r] /\ pc[r] = "upsert"
  BY DEF Document, Commit, Goto
<1>2. next[r] - 1 = Len(Content(page[r]))
  <2>1. Len(Content(page[r])) \in Nat /\ next[r] \in Nat
    BY IngestAssumption, LenProperties DEF PageTypeOK
  <2>2. next[r] <= Len(Content(page[r])) + 1
    BY <1>1 DEF PendingIsPrefix, Upserting
  <2> QED BY <2>1, <2>2 DEF Commit, HasRecord
<1>3. Holds(r, t)
  BY <1>1, <1>2 DEF PendingIsPrefix, Upserting, Rows
<1>4. /\ Len(store'[t]) = Len(store[t]) + 1
      /\ store'[t][Len(store[t]) + 1] = [doc |-> d, on |-> pending[r][t]]
  BY <1>1, <1>3, CommitFacts
<1>5. Len(store[t]) \in Nat
  BY LenProperties DEF PageTypeOK
<1>6. Len(store[t]) + 1 \in 1 .. Len(store'[t]) /\ store'[t][Len(store[t]) + 1].doc = d
  BY <1>4, <1>5
<1> QED BY <1>6 DEF Applied

LEMMA RowsType ==
  ASSUME NEW d \in Documents
  PROVE  Rows(d) \subseteq Tenders
<1>1. Content(d[3]) \in Seq(Tenders)
  BY IngestAssumption DEF Documents
<1> QED BY <1>1, ElementOfSeq DEF Rows

LEMMA StepAccounted ==
  ASSUME PageTypeOK, Fetching, PendingIsPrefix, Verdict, Accounted, [Next]_pageVars
  PROVE  Accounted'
<1>1. ASSUME NEW r \in Runs, RunStep(r) \/ FetchFails(r) \/ ParseFails(r) \/ Crash(r)
      PROVE  Accounted'
  <2>1. Keeps(r) /\ (pc[r] \in Reading => Handles(r))
    BY <1>1, RunHandles
  <2> SUFFICES ASSUME NEW d \in raw', d[1] \in Runs
               PROVE  \/ d \in failures'
                      \/ \A t \in Rows(d) : Applied(d, t)'
                      \/ d = Document(d[1])' /\ pc'[d[1]] \in Reading
                      \/ report'[d[1]].status = "failed"
                      \/ pc'[d[1]] = "dead"
    BY DEF Accounted
  <2>2. CASE d \notin raw
    BY <2>1, <2>2 DEF Keeps, Reading, Document
  <2>3. CASE d \in raw /\ d \in failures
    BY <2>1, <2>3 DEF Keeps
  <2>4. CASE d \in raw /\ \A t \in Rows(d) : Applied(d, t)
    <3>1. Rows(d) \subseteq Tenders
      BY <2>4, RowsType DEF PageTypeOK
    <3> QED BY <2>4, <3>1, AppliedStays
  <2>5. CASE d = Document(d[1]) /\ pc[d[1]] \in Reading
    <3>1. CASE d[1] # r
      BY <2>1, <2>5, <3>1 DEF Keeps
    <3>2. CASE d[1] = r /\ Commit(r)
      <4>1. d \in Documents
        BY <2>5, <3>2, DocumentType DEF Commit, Goto, Fetching, InPage
      <4>2. \A t \in Rows(d) : t \in Tenders
        BY <4>1, RowsType
      <4>3. \A t \in Rows(d) : Applied(d, t)'
        BY <2>5, <3>2, <4>1, <4>2, CommitApplies
      <4> QED BY <4>3
    <3>3. CASE d[1] = r /\ ~Commit(r)
      BY <2>1, <2>5, <3>3 DEF Handles
    <3> QED BY <3>1, <3>2, <3>3
  <2>6. CASE report[d[1]].status = "failed" \/ pc[d[1]] = "dead"
    BY <2>1, <2>6 DEF Keeps
  <2> QED BY <2>2, <2>3, <2>4, <2>5, <2>6 DEF Accounted
<1>2. CASE UNCHANGED pageVars
  BY <1>2 DEF pageVars, control, database, Accounted, Applied, Document
<1> QED
  BY <1>1, <1>2 DEF Next

(***************************************************************************)
(* No page is silently dropped: when a run says it succeeded, each         *)
(* document it recorded is applied to every tender on it or has a parse    *)
(* failure to replay, and it says "partial" exactly in the second case.    *)
(***************************************************************************)
THEOREM AlwaysAccountedFor == Spec => []RawAccountedFor
<1>1. Init => Verdict /\ Accounted /\ PendingIsPrefix
  BY IngestAssumption
  DEF Init, Verdict, Filed, Accounted, PendingIsPrefix, Upserting, InPage
<1>2. PageTypeOK /\ Verdict /\ Accounted => RawAccountedFor
  <2> SUFFICES ASSUME PageTypeOK, Verdict, Accounted, NEW r \in Runs,
                      crawls[r].status \in {"ok", "partial"}
               PROVE  /\ \A d \in raw : d[1] = r =>
                           d \in failures \/ \A t \in Rows(d) : Applied(d, t)
                      /\ crawls[r].status = "partial" <=> \E d \in failures : d[1] = r
    BY DEF RawAccountedFor
  <2>1. pc[r] = "done" /\ report[r].status = crawls[r].status
    BY DEF Verdict
  <2>2. report[r].status = "partial" <=> Filed(r)
    BY <2>1 DEF Verdict
  <2> QED BY <2>1, <2>2 DEF Accounted, Filed, Reading, Upserting
<1> QED
  BY <1>1, <1>2, StepVerdict, StepAccounted, StepPrefix, PageTypeCorrect, PTL DEF Spec

-----------------------------------------------------------------------------
(* What is reported as new is new. *)

\* The tenders a run has inserted: in the table, or in its open transaction.
First(r, t)   == store[t] # <<>> /\ store[t][1].doc[1] = r
Claimed(r)    == {t \in Tenders : First(r, t) \/ pending[r][t] = 0}
Unclaimed     == \A r \in Runs : pc[r] = "insert" => ~Holds(r, Tender(r))

\* Until a run fails, it has counted what it inserted.
Counted ==
  \A r \in Runs :
    /\ IsFiniteSet(Claimed(r))
    /\ report[r].status # "failed" /\ pc[r] # "dead" =>
         report[r].new = Cardinality(Claimed(r))
    /\ crawls[r].status \in {"ok", "partial"} => crawls[r].new = report[r].new

LEMMA StepUnclaimed ==
  ASSUME PageTypeOK, Fetching, Unclaimed, [Next]_pageVars
  PROVE  Unclaimed'
<1>1. ASSUME NEW r \in Runs, Bookkeeping(r) PROVE Unclaimed'
  <2>1. /\ pending' = pending
        /\ \A s \in Runs \ {r} : pc'[s] = pc[s] /\ page'[s] = page[s] /\ next'[s] = next[s]
    BY <1>1, BookkeepingMoves
  <2>2. pc'[r] = "insert" => ~Holds(r, Tender(r)) /\ page'[r] = page[r] /\ next'[r] = next[r]
    <3>1. CASE FindNothing(r)
      BY <3>1 DEF FindNothing, Visible
    <3>2. CASE ~FindNothing(r)
      <4>1. pc'[r] # "insert"
        BY <1>1, <3>2
        DEF Bookkeeping, Goto, PageTypeOK, Start, Fetch, EndSweep, FetchFails,
            ArchivePage, RecordRaw, Parse, ParseFails, RecordFailure, Finish
      <4> QED BY <4>1
    <3> QED BY <3>1, <3>2
  <2> QED BY <2>1, <2>2 DEF Unclaimed, Holds, Tender
<1>2. ASSUME NEW r \in Runs, Aborting(r) PROVE Unclaimed'
  <2>1. /\ pc'[r] \in {"finish", "dead"} /\ \A s \in Runs \ {r} : pc'[s] = pc[s]
        /\ pending' = [pending EXCEPT ![r] = NothingPending]
        /\ UNCHANGED <<page, next>>
    BY <1>2, AbortFacts
  <2>2. \A s \in Runs \ {r} : pending'[s] = pending[s]
    BY <2>1
  <2> QED BY <2>1, <2>2 DEF Unclaimed, Holds, Tender
<1>3. ASSUME NEW r \in Runs, Update(r) \/ Insert(r) PROVE Unclaimed'
  <2>1. /\ pc' = [pc EXCEPT ![r] = "upsert"] /\ page' = page
        /\ Tender(r) \in Tenders /\ Write(r, Tender(r))
    BY <1>3, WritingFacts
  <2>2. \A s \in Runs \ {r} : pending'[s] = pending[s] /\ next'[s] = next[s]
    BY <2>1, WriteFacts
  <2>3. pc'[r] = "upsert" /\ \A s \in Runs \ {r} : pc'[s] = pc[s]
    BY <2>1 DEF PageTypeOK
  <2> QED BY <2>1, <2>2, <2>3 DEF Unclaimed, Holds, Tender
<1>4. ASSUME NEW r \in Runs, Commit(r) PROVE Unclaimed'
  BY <1>4 DEF Commit, Goto, Unclaimed, Holds, Tender, PageTypeOK
<1>5. CASE UNCHANGED pageVars
  BY <1>5 DEF pageVars, control, database, Unclaimed, Holds, Tender
<1> QED
  BY <1>1, <1>2, <1>3, <1>4, <1>5, StepCases

\* What a step that leaves the claims alone does to the count.
LEMMA SameClaims ==
  ASSUME PageTypeOK, Verdict, Counted, NEW r \in Runs,
         \A s \in Runs : Claimed(s)' = Claimed(s),
         \A s \in Runs \ {r} : /\ pc'[s] = pc[s] /\ report'[s] = report[s]
                               /\ crawls'[s] = crawls[s],
         report[r].status = "failed" => report'[r].status = "failed",
         pc[r] = "dead" => pc'[r] = "dead", pc[r] # "done",
         report'[r].new = report[r].new,
         \/ crawls'[r].status \notin {"ok", "partial"}
         \/ crawls'[r] = crawls[r]
         \/ crawls'[r].new = report[r].new
  PROVE  Counted'
<1> SUFFICES ASSUME NEW s \in Runs
             PROVE  /\ IsFiniteSet(Claimed(s)')
                    /\ report'[s].status # "failed" /\ pc'[s] # "dead" =>
                         report'[s].new = Cardinality(Claimed(s)')
                    /\ crawls'[s].status \in {"ok", "partial"} =>
                         crawls'[s].new = report'[s].new
  BY DEF Counted
<1>1. CASE s # r
  BY <1>1 DEF Counted
<1>2. CASE s = r
  BY <1>2 DEF Counted
<1> QED BY <1>1, <1>2

LEMMA BookkeepingCounted ==
  ASSUME PageTypeOK, Fetching, Verdict, Counted, NEW r \in Runs, Bookkeeping(r)
  PROVE  Counted'
<1>1. \A s \in Runs : Claimed(s)' = Claimed(s)
  <2>1. pending' = pending /\ store' = store
    BY BookkeepingMoves
  <2> QED BY <2>1 DEF Claimed, First
<1>2. /\ \A s \in Runs \ {r} : /\ pc'[s] = pc[s] /\ report'[s] = report[s]
                               /\ crawls'[s] = crawls[s]
      /\ report[r].status = "failed" => report'[r].status = "failed"
      /\ pc[r] = "dead" => pc'[r] = "dead"
      /\ pc[r] # "done"
      /\ report'[r].new = report[r].new
      /\ \/ crawls'[r].status \notin {"ok", "partial"}
         \/ crawls'[r] = crawls[r]
         \/ crawls'[r].new = report[r].new
  <2> USE DEF PageTypeOK, Goto, control, database
  <2>1. CASE Start(r)         BY <2>1 DEF Start
  <2>2. CASE Fetch(r)         BY <2>2 DEF Fetch
  <2>3. CASE EndSweep(r)
    <3>1. report[r].status = "running"
      BY <2>3 DEF EndSweep, Verdict
    <3> QED BY <2>3, <3>1 DEF EndSweep
  <2>4. CASE FetchFails(r)    BY <2>4 DEF FetchFails
  <2>5. CASE ArchivePage(r)   BY <2>5 DEF ArchivePage
  <2>6. CASE RecordRaw(r)     BY <2>6 DEF RecordRaw
  <2>7. CASE Parse(r)         BY <2>7 DEF Parse
  <2>8. CASE ParseFails(r)    BY <2>8 DEF ParseFails
  <2>9. CASE RecordFailure(r) BY <2>9 DEF RecordFailure
  <2>10. CASE FindNothing(r)  BY <2>10 DEF FindNothing
  <2>11. CASE Finish(r)       BY <2>11 DEF Finish
  <2> QED
    BY <2>1, <2>2, <2>3, <2>4, <2>5, <2>6, <2>7, <2>8, <2>9, <2>10, <2>11 DEF Bookkeeping
<1> QED BY <1>1, <1>2, SameClaims

\* An update claims nothing: the row was there, or is the run's own.
LEMMA UpdateCounted ==
  ASSUME PageTypeOK, Fetching, Verdict, Counted, NEW r \in Runs, Update(r)
  PROVE  Counted'
<1> DEFINE u == Tender(r)
<1>1. u \in Tenders /\ Write(r, u) /\ store' = store
  BY WritingFacts
<1>2. /\ \A s \in Runs \ {r} : pending'[s] = pending[s]
      /\ \A t \in Tenders \ {u} : pending'[r][t] = pending[r][t]
      /\ pending[r][u] # NULL => pending'[r][u] = pending[r][u]
      /\ pending[r][u] = NULL => pending'[r][u] = Len(store[u])
  BY <1>1, WriteFacts
<1>3. pending'[r][u] = 0 <=> pending[r][u] = 0
  <2>1. CASE pending[r][u] # NULL
    BY <1>2, <2>1
  <2>2. CASE pending[r][u] = NULL
    <3>1. store[u] # <<>> /\ store[u] \in Seq([doc : Documents, on : Nat])
      BY <1>1, <2>2 DEF Update, Visible, Holds, PageTypeOK
    <3>2. Len(store[u]) # 0
      BY <3>1, EmptySeq
    <3>3. pending[r][u] # 0
      BY <2>2, IngestAssumption
    <3> QED BY <1>2, <2>2, <3>2, <3>3
  <2> QED BY <2>1, <2>2
<1> HIDE DEF u
<1>4. \A s \in Runs : Claimed(s)' = Claimed(s)
  BY <1>1, <1>2, <1>3 DEF Claimed, First
<1>5. /\ pc[r] = "upsert" /\ pc' = [pc EXCEPT ![r] = "upsert"]
      /\ report' = report /\ crawls' = crawls
  BY DEF Update, Goto, database
<1> QED BY <1>4, <1>5, SameClaims DEF PageTypeOK

\* An insert claims one tender more, and counts it.
LEMMA InsertCounted ==
  ASSUME PageTypeOK, Fetching, Verdict, Unclaimed, Counted, NEW r \in Runs, Insert(r)
  PROVE  Counted'
<1> DEFINE u == Tender(r)
<1>1. u \in Tenders /\ Write(r, u) /\ store' = store
  BY WritingFacts
<1>2. store[u] = <<>> /\ pending[r][u] = NULL
  BY DEF Insert, Goto, Unclaimed, Holds
<1>3. Len(store[u]) = 0
  BY <1>2, EmptySeq
<1>4. /\ \A s \in Runs \ {r} : pending'[s] = pending[s]
      /\ \A t \in Tenders \ {u} : pending'[r][t] = pending[r][t]
      /\ pending'[r][u] = 0
  BY <1>1, <1>2, <1>3, WriteFacts
<1>5. NULL # 0
  BY IngestAssumption
<1> HIDE DEF u
<1>6. /\ \A s \in Runs \ {r} : Claimed(s)' = Claimed(s)
      /\ Claimed(r)' = Claimed(r) \cup {u}
      /\ u \notin Claimed(r)
  BY <1>1, <1>2, <1>4, <1>5 DEF Claimed, First
<1>7. /\ pc[r] = "insert" /\ pc' = [pc EXCEPT ![r] = "upsert"]
      /\ report' = [report EXCEPT ![r].new = @ + 1] /\ crawls' = crawls
  BY DEF Insert, Goto, database
<1>8. /\ IsFiniteSet(Claimed(r)')
      /\ Cardinality(Claimed(r)') = Cardinality(Claimed(r)) + 1
  BY <1>6, FS_AddElement DEF Counted
<1>9. /\ report'[r].new = report[r].new + 1 /\ report'[r].status = report[r].status
      /\ \A s \in Runs \ {r} : report'[s] = report[s] /\ pc'[s] = pc[s]
      /\ pc'[r] = "upsert" /\ crawls[r].status \notin {"ok", "partial"}
  BY <1>7 DEF PageTypeOK, Verdict
<1> SUFFICES ASSUME NEW s \in Runs
             PROVE  /\ IsFiniteSet(Claimed(s)')
                    /\ report'[s].status # "failed" /\ pc'[s] # "dead" =>
                         report'[s].new = Cardinality(Claimed(s)')
                    /\ crawls'[s].status \in {"ok", "partial"} =>
                         crawls'[s].new = report'[s].new
  BY DEF Counted
<1>10. CASE s # r  BY <1>6, <1>7, <1>9, <1>10 DEF Counted
<1>11. CASE s = r  BY <1>7, <1>8, <1>9, <1>11 DEF Counted
<1> QED BY <1>10, <1>11

\* A commit puts the claimed tenders in the table.
LEMMA CommitCounted ==
  ASSUME PageTypeOK, Fetching, Verdict, Locked, Counted, NEW r \in Runs, Commit(r)
  PROVE  Counted'
<1>1. /\ pc[r] = "upsert" /\ pc' = [pc EXCEPT ![r] = "fetch"]
      /\ pending' = [pending EXCEPT ![r] = NothingPending]
      /\ report' = report /\ crawls' = crawls
  BY DEF Commit, Goto
<1>2. Document(r) \in Documents /\ Document(r)[1] = r
  BY DocumentType DEF Commit, Goto, Fetching, InPage, Document
<1>3. ASSUME NEW s \in Runs, NEW t \in Tenders
      PROVE  First(s, t)' \/ pending'[s][t] = 0 <=> First(s, t) \/ pending[s][t] = 0
  <2>1. store[t] \in Seq([doc : Documents, on : Nat]) /\ Len(store[t]) \in Nat
    BY LenProperties DEF PageTypeOK
  <2>2. store[t] = <<>> <=> Len(store[t]) = 0
    BY <2>1, EmptySeq
  <2>3. pending'[s][t] = IF s = r THEN NULL ELSE pending[s][t]
    BY <1>1 DEF PageTypeOK, NothingPending
  <2>4. NULL # 0
    BY IngestAssumption
  <2>5. CASE ~Holds(r, t)
    <3>1. store'[t] = store[t]
      BY <1>2, <2>5, CommitFacts
    <3> QED BY <2>3, <2>4, <2>5, <3>1 DEF First, Holds
  <2>6. CASE Holds(r, t)
    <3>1. /\ store'[t] \in Seq([doc : Documents, on : Nat])
          /\ Len(store'[t]) = Len(store[t]) + 1
          /\ \A i \in 1 .. Len(store[t]) : store'[t][i] = store[t][i]
          /\ store'[t][Len(store[t]) + 1] = [doc |-> Document(r), on |-> pending[r][t]]
      BY <1>2, <2>6, CommitFacts
    <3>2. store'[t] # <<>>
      BY <2>1, <3>1, EmptySeq
    <3>3. pending[r][t] = Len(store[t]) /\ (pending[s][t] # NULL => s = r)
      BY <2>6 DEF Locked, Holds
    <3>4. CASE store[t] = <<>>
      <4>1. store'[t][1].doc[1] = r
        BY <1>2, <2>2, <3>1, <3>4
      <4>2. First(s, t)' <=> s = r
        BY <3>2, <4>1 DEF First
      <4>3. pending[s][t] = 0 <=> s = r
        BY <2>2, <2>4, <3>3, <3>4
      <4> QED BY <2>3, <2>4, <3>4, <4>2, <4>3 DEF First
    <3>5. CASE store[t] # <<>>
      <4>1. store'[t][1] = store[t][1]
        BY <2>1, <2>2, <3>1, <3>5
      <4>2. First(s, t)' <=> First(s, t)
        BY <3>2, <3>5, <4>1 DEF First
      <4>3. s = r => pending[s][t] # 0
        BY <2>2, <3>3, <3>5
      <4> QED BY <2>3, <2>4, <4>2, <4>3
    <3> QED BY <3>4, <3>5
  <2> QED BY <2>5, <2>6
<1>4. \A s \in Runs : Claimed(s)' = Claimed(s)
  BY <1>3 DEF Claimed
<1> QED BY <1>1, <1>4, SameClaims DEF PageTypeOK

\* An aborted transaction gives up its claims, and its run never succeeds.
LEMMA AbortCounted ==
  ASSUME PageTypeOK, Fetching, Verdict, Counted, NEW r \in Runs, Aborting(r)
  PROVE  Counted'
<1>1. /\ \A s \in Runs \ {r} : pc'[s] = pc[s]
      /\ pending' = [pending EXCEPT ![r] = NothingPending]
      /\ UNCHANGED <<store, crawls>>
  BY AbortFacts
<1>2. /\ \A s \in Runs \ {r} : report'[s] = report[s]
      /\ report'[r].status = "failed" \/ pc'[r] = "dead"
      /\ pc[r] # "done"
      /\ report'[r].new = report[r].new
  <2>1. CASE Crash(r)
    BY <2>1 DEF Crash, PageTypeOK
  <2>2. CASE UniqueViolation(r) \/ DeadlockDetected(r)
    <3>1. Abort(r) /\ pc[r] \in Upserting
      BY <2>2 DEF UniqueViolation, DeadlockDetected, WaitsFor, Upserting
    <3> QED BY <3>1 DEF Abort, Upserting, PageTypeOK
  <2> QED BY <2>1, <2>2 DEF Aborting
<1>3. crawls[r].status \notin {"ok", "partial"}
  BY <1>2 DEF Verdict
<1>4. \A s \in Runs \ {r} : Claimed(s)' = Claimed(s)
  BY <1>1 DEF Claimed, First
<1>5. Claimed(r)' \subseteq Claimed(r)
  <2>1. NULL # 0
    BY IngestAssumption
  <2>2. \A t \in Tenders : pending'[r][t] = NULL
    BY <1>1 DEF PageTypeOK, NothingPending
  <2> QED BY <1>1, <2>1, <2>2 DEF Claimed, First
<1>6. IsFiniteSet(Claimed(r)')
  BY <1>5, FS_Subset DEF Counted
<1> SUFFICES ASSUME NEW s \in Runs
             PROVE  /\ IsFiniteSet(Claimed(s)')
                    /\ report'[s].status # "failed" /\ pc'[s] # "dead" =>
                         report'[s].new = Cardinality(Claimed(s)')
                    /\ crawls'[s].status \in {"ok", "partial"} =>
                         crawls'[s].new = report'[s].new
  BY DEF Counted
<1>7. CASE s # r  BY <1>1, <1>2, <1>4, <1>7 DEF Counted
<1>8. CASE s = r  BY <1>1, <1>2, <1>3, <1>6, <1>8
<1> QED BY <1>7, <1>8

LEMMA StepCounted ==
  ASSUME PageTypeOK, Fetching, Verdict, Unclaimed, Locked, Counted, [Next]_pageVars
  PROVE  Counted'
<1>1. CASE UNCHANGED pageVars
  BY <1>1 DEF pageVars, control, database, Counted, Claimed, First
<1> QED
  BY <1>1, StepCases, BookkeepingCounted, UpdateCounted, InsertCounted, CommitCounted,
     AbortCounted

(***************************************************************************)
(* What a successful run reports as new is what it put in the database:    *)
(* nothing rolled back is counted and no tender is new twice.              *)
(***************************************************************************)
THEOREM AlwaysNewIsNew == Spec => []NewIsNew
<1>1. Init => Verdict /\ Unclaimed /\ Locked /\ Counted
  <2> SUFFICES ASSUME Init PROVE Verdict /\ Unclaimed /\ Locked /\ Counted
    OBVIOUS
  <2>1. Verdict /\ Unclaimed
    BY IngestAssumption DEF Init, Verdict, Unclaimed, Filed, InPage
  <2>2. \A r \in Runs : \A t \in Tenders : pending[r][t] = NULL /\ store[t] = <<>>
    BY DEF Init, NothingPending
  <2>3. Locked
    BY <2>2 DEF Locked, Holds
  <2>4. \A r \in Runs : Claimed(r) = {}
    BY <2>2, IngestAssumption DEF Claimed, First
  <2>5. \A r \in Runs : report[r].new = 0 /\ crawls[r].status \notin {"ok", "partial"}
    BY IngestAssumption DEF Init
  <2> QED BY <2>1, <2>3, <2>4, <2>5, FS_EmptySet DEF Counted
<1>2. PageTypeOK /\ Verdict /\ Counted => NewIsNew
  <2> SUFFICES ASSUME PageTypeOK, Verdict, Counted, NEW r \in Runs,
                      crawls[r].status \in {"ok", "partial"}
               PROVE  crawls[r].new = Cardinality({t \in Tenders : First(r, t)})
    BY DEF NewIsNew, First
  <2>1. pc[r] = "done" /\ report[r].status # "failed"
    BY DEF Verdict
  <2>2. crawls[r].new = Cardinality(Claimed(r))
    BY <2>1 DEF Counted
  <2>3. \A t \in Tenders : pending[r][t] # 0
    <3>1. pending[r] = [t \in Tenders |-> NULL]
      BY <2>1 DEF PageTypeOK, NothingPending
    <3>2. NULL # 0
      BY IngestAssumption
    <3> QED BY <3>1, <3>2
  <2>4. Claimed(r) = {t \in Tenders : First(r, t)}
    BY <2>3 DEF Claimed
  <2> QED BY <2>2, <2>4
<1> QED
  BY <1>1, <1>2, StepVerdict, StepUnclaimed, StepLocked, StepCounted, PageTypeCorrect,
     PTL DEF Spec
=============================================================================
