# TenderRadar in TLA+

TLA+ models, TLC runs and TLAPS proofs for TenderRadar (`src/tenderradar`): a
crawler of the Bangladesh e-GP portal, with a matching engine, daily digests,
push alerts and a public site, over one PostgreSQL database. Paths below are
relative to `src/tenderradar` unless they say otherwise.

1. [The system](#1-the-system)
2. [The modules](#2-the-modules)
3. [The runs](#3-the-runs)
4. [Where the code and its documents disagree](#4-where-the-code-and-its-documents-disagree)
5. [Fairness](#5-fairness)
6. [What is proved](#6-what-is-proved)
7. [What is not modelled](#7-what-is-not-modelled)
8. [Plan](#8-plan)

## 1. The system

| Part | State it keeps | Operations | Interacts with | Correct when |
|---|---|---|---|---|
| Tender record (`models.py`) | none | `canonical_hash`, `changed_fields`, `infer_change_type`; `merge_records` in `db/repo.py` | called by the store | a change is named for what it is |
| Tender store (`db/repo.py`) | `tenders`, `tender_versions` | `upsert_tender` | called by the runner inside a page's transaction | the history replays, no phantom amendments, detail pages win |
| e-GP adapter (`adapters/egp.py`) | session cookie | list sweep, detail pages, parsing | yields payloads to the runner | a sweep of a moving list misses little, both views of a notice reach the row |
| Offline adapter (`adapters/egp_offline.py`) | none | list sweep, parsing | same interface | as above |
| Crawl runner (`crawl/runner.py`) | `crawl_runs`, `raw_documents`, `parse_failures` | `run`, `_sweep`, `_ingest`, `_finalize` | adapter, archive, store | pages are whole and traceable, reports are true |
| Raw archive (`crawl/archive.py`) | files | `store`, `load` | runner, awards, `cli replay` | what is recorded reads back whole |
| Scheduler (`crawl/scheduler.py`) | APScheduler's job table | boot, startup sweep, interval jobs | runner; restarted by systemd | every source is swept again and again |
| Yield monitor (`runner._finalize`, `repo.trailing_yield`) | `crawl_runs` | a verdict on each run | runner, health page | a collapse is flagged, a normal run is not |
| HTTP client (`crawl/http.py`) | time of the last request | rate limit, retry | adapters, awards | gives up in the end |
| Matching (`matching/`) | `tender_embeddings`, `matches` | embed, filter, rank, store | reads tenders and profiles | what is found today is mailed today, nobody starves |
| Digests (`alerts/digest.py`, `service.py`, `sender.py`) | `alerts`, the mail sent | build, record, send, mark | matches, mail provider | nothing without a record, nothing twice, nothing forgotten |
| Push (`alerts/push.py`) | `push_subscriptions`, `alerts` | urgent pushes, retire, revive | matches, push services, web | as for digests; complements them |
| Accounts and site (`web/`) | `users`, `user_profiles`, `feedback` | sign up, sign in, unsubscribe, vote | digests, matching | a link acts on the account it was sent for |
| Awards (`awards/collector.py`) | `contract_awards` | collect | archive, repo | what was on the list is stored or can be replayed |
| Pool, migrations, CLI (`db/pool.py`, `db/migrate.py`, `cli.py`) | connections, schema | entry points, daily pipeline | everything | a migration is applied once, one stage failing spares the next |

What is hard here:

* **Two views of one notice** disagree, arrive in any order and are merged under
  a rule with two modes, into a history that must stay replayable for weeks.
* **Several processes** share one database and one file system: the scheduler and
  commands started by hand, each of which can die in any step.
* **Transactions of different size**: a fetched page is three transactions, a
  digest three, a whole push run one. SELECT ... FOR UPDATE locks nothing when
  there is no row yet.
* **Messages cannot be taken back**: a mail is sent between two commits, its
  links are visited by scanners as well as people, and whom a run sends to was
  read when it began.
* **The portal moves on**: notices and awards come and go between the requests
  for two pages of one list, and sessions expire there.
* **Things must keep happening**: sweeps, detail passes, digests.

`PROJECT.json` lists each hazard at its line, with the properties that watch it.

How the models fit together:

```
   portal ──views──▶ NoticeTracking ──EXTENDS──▶ TenderStore ──EXTENDS──▶ TenderRecord
      │              (runs over one notice)      (one row, its history)   (pure functions)
      ▼
   Sweep              Scheduler ··starts runs··▶ PageIngest ──implements──▶ AtomicIngest
   (pages of a        (process, jobs)            (transactions, locks)      (a page: whole, once)
    moving list)          │                          │
                      YieldMonitor               Archive ◀──implements── Awards
                      (verdicts on runs)         (names and inodes)      (another moving list)

   tenders ──▶ DailyRun ──EXTENDS──▶ MatchRules      matches ──▶ AlertDigest
               (stages, backlog)     (filter, rank)              (mail, push, alerts rows)

   Site (accounts, links, sessions, whom a digest run reaches, push subscriptions)
```

`PageIngest` treats an upsert as one write of one row under the row's lock.
`TenderStore` opens that write up and shows what it makes of the row; the lock
is why one upsert is one step there, and `NoLostUpdate` is the check that it may
be. In the same way `Awards` composes the collector with the steps of `Archive`
itself, so that a run can die between any two of them; `PageIngest` takes
archiving as one step. `DailyRun` takes a digest as one step and `AlertDigest`
opens it up; `AlertDigest` has one user whose digest is built and mailed, `Site`
has several, and asks who gets one.

## 2. The modules

A `MC*` module gives the constants of its subject their values for TLC, a
`*_proofs` module holds theorems. A definition whose name and comment say
"Mutant of X" is a plausible mistake in X which its property must
catch; no specification uses it.

### TenderRecord (`models.py`, `db/repo.py` `merge_records`, `_row_to_record`)

A record is a function from fields to values. Fields are told apart by how the
code treats them and by nothing else: hashed and optional (`TextFields`), the
closing date, the two hashed enumerations that default and are never missing,
fields stored and reloaded but not hashed (`NoteFields`), and the two that
`_row_to_record` does not reload (`organization`, `lots`). `CanonicalHash` is
injective and carries the *scheme* it was written under: how a release or a
session setting spells an unchanged value. Left out: how values are normalised.

### TenderStore (`db/repo.py` `upsert_tender`)

| Variable | Code |
|---|---|
| `row.data`, `row.hash` | columns of `tenders`, `canonical_hash` |
| `row.detail` | `detail_fetched_at IS NOT NULL` |
| `row.current` | `version_no` behind `current_version_id` |
| `versions` | `tender_versions`, in order |
| `scheme` | environment: how values are serialized now |

`Insert`, `Touch` (hash equal), `Heal` (hash moved, no field did) and `Revise`
are the branches of `upsert_tender`. `Reserialize` is the environment changing
the scheme. `last_seen_at` and its like are left out: no decision reads them.

### NoticeTracking (`crawl/runner.py`, `adapters/egp.py`, `repo.tenders_needing_detail`)

One notice from the portal to the row. `Amend` is the procuring entity; each run
goes `idle → listed → swept → queued → detailed → idle`, holding the parsed
payload (`held`) between fetch and upsert; `MissFromList` is a sweep of the Live
list without this notice; `Unreadable` a page lost to parsing; `Crash` a process
that dies. The detail queue of `tenders_needing_detail` is the newest 200
notices never read in full: `crowded` says whether a whole queue of newer ones
stands before this one, which `Crowd` changes at any time and need not change
back. Applying a payload is the `Upsert` of `TenderStore`, so the whole module
*implements* `TenderStore`'s `Spec` (checked, and proved).

### AtomicIngest and PageIngest (`crawl/runner.py` `run`, `_sweep`, `_ingest`, `_finalize`)

`AtomicIngest` is the promise: a document is applied to all the tenders on it in
one step, at most once. `PageIngest` is what the code does in several
processes: archive, `record_raw` and commit, parse (or `record_parse_failure`
and commit), one upsert after the other in page order in one transaction,
commit. PostgreSQL is modelled as the code uses it under READ COMMITTED: row
locks to the end of the transaction, uncommitted inserts invisible but
blocking, unique violations, deadlock detection that aborts one of a ring,
rollback on error or on the death of the process. A page may parse to nothing, as
the session-expired page does: it is applied at once, to no tender, no failure is
filed and the run stays ok. The refinement maps the
committed writes of each tender to the documents they came from.

### Archive (`crawl/archive.py` `store`)

File names and inodes rather than "a file": `Open` truncates whatever bears the
part name, `WriteHalf` writes through the handle whatever its name is by then,
`Rename` gives the final name to whatever bears the part name, `RenameFails` is
its `FileNotFoundError`. `RecordRaw` is the runner's commit afterwards. Payloads
have two halves, so that a truncated blob can exist.

### Sweep (`adapters/egp.py` `fetch`, `_search`, `crawl/http.py`)

| Variable | Code |
|---|---|
| `listed` | environment: where each notice is on the portal's list |
| `pc`, `attempt` | the request under way and `attempt` of `PoliteClient` |
| `page`, `total`, `limit` | `page_no`, `total_pages`, `max_pages` |
| `body` | the response: a fragment, the page of an expired session, other text |
| `got` | the notices on the pages yielded |
| `start`, `changes`, `lapses` | observations: what the first answer listed, what moved since, answers that were no fragment |

`Primed`, `Asked`, `Yield` and `End` are the loop of the generator, `Refused` is
an attempt of the client that fails, the last of which raises. `Arrive` and
`Leave` move the list between two requests. A session that expires is noticed by
the missing fragment, the session is primed again and the page asked for once
more, as `_search` does. Left out: the pacing of requests, what a row says.

### Awards (`awards/collector.py`)

The collector over the archive: `Collect`, `FetchPage`, then the steps of
`Archive` one by one (`Archiving`), `Archived` (`record_raw` and its commit),
`StorePage` or `ParseFails`, `NextPage`. `Sign` pushes the rest of the list
down; `Abort` is a crash in any step. `due` and `seen` are observations: what a
quiet run owes, and what was on a page it went past. Every step is one of
`Archive` or leaves the archive alone (proved, so that what is proved of the
archive holds of the collector's).

### Scheduler (`crawl/scheduler.py`, `runner.run`, `deploy/systemd`)

The startup loop over the registry, one APScheduler job per source, and a run in
its three parts as they meet a database that may be away: the opening
transaction and `_finalize` raise out of `run`, the sweep does not. An exception
in the startup loop ends the process, one in a job is logged. The jobs are
registered as the code registers them: `add_job` with `next_run_time=None` makes
a *paused* job. `Tick` is APScheduler looking for armed jobs that are due; since
nothing in the code arms one, it finds none, and what a scheduler with armed jobs
would do is not claimed anywhere here.

### YieldMonitor (`runner._finalize`, `_is_anomalous`, `repo.trailing_yield`)

The log of `crawl_runs`. `StartRun` opens a row, capped or full; `Finalize`
reads the baseline, reaches the verdict and closes the row in one transaction;
`Killed` leaves the row `running` for ever. `Recent` is the window
`trailing_yield` averages over, and the comparison is the code's, over integers.

### AlertDigest (`alerts/digest.py`, `service.py`, `sender.py`, `push.py`, `cli.cmd_push`)

One user. `Match` and `Near` are the source of the alerts: a tender is matched,
comes within 48 hours of closing, closes. A digest process goes `Build` (at most
`DigestSize` of the unsent, best first in an arbitrary order), `Record` and
commit, `Send` (or `SendRefused`, or `SendUnclear`: the server took it and the
session broke), `MarkSent` or `MarkFailed`. A push run selects, sends one
notification for all, inserts, and commits only at the end of the run
(`PushCommit`), so a crash loses the alert of a notification that was sent.
Left out: dry runs and opens.

### MatchRules and DailyRun (`matching/`, `cli.cmd_daily`)

`MatchRules` has the two layers as operators over rows: `Passes` and
`Candidates` (what is unknown passes; the newest `CandidateLimit` without a
match), `VectorHits`, `FtsHits`, `SimilarityFloor`, `Survives`, `Survivors` and
`Ranked` (the reciprocal-rank fusion, in exact fractions). A text is a value with
a similarity to the profile and a relevance to its terms. A tender's closing date
is a stage: *far* (more than the 90 days a profile looks ahead), *open* (the only
one that passes), *near* (less than a day), *over*. Its status is `live` in all
of them, since nothing in the code takes that from a tender that has closed.

`DailyRun` runs them as the pipeline does, stage after stage over one
connection: `EmbedSelect` and `EmbedStore` batch by batch, `MatchSelect` and
`MatchStore`, `Digest`, `Report`. The backlog is every row without a vector,
closed ones included. Between any two steps the crawler publishes, locates,
rewords and reschedules tenders and time passes for them (`Age`): a tender can
enter the candidates by time alone, leave them and come back, and a match can be
made from a text that is no longer the candidate's. `Fail` is a stage that raises, with the transaction
aborted or not (a model that fails to load touches no database); `FailAborted` is
the later stages then; `Killed` is the process.
`profile_embeddings` has no writer in the code, so `profiled` is either value
from the start. `due` is an observation: what the run under way still owes the
user. It is computed when the run begins and shrinks one tender at a time: a
change to a tender takes that tender out, and those that the changed one now puts
below the similarity floor (`OwedBeside`); a limit the run meets takes out what
the limit may cut off (`OwedWhenEmbedded`, `OwedWithin`).

### Site (`web/accounts.py`, `auth.py`, `app.py`, `push_routes.py`, `alerts/tokens.py`, `service.py`, `push.py`)

| Variable | Code |
|---|---|
| `users`, `profile` | `users`, `user_profiles` |
| `inbox` | the signed links mailed so far: a token is the fact that it was mailed |
| `session` | the cookie of each browser |
| `verdict` | `feedback`, for one tender |
| `run` | the recipients `send_all` has still to do, as read at its start |
| `subs`, `gone` | `push_subscriptions`; endpoints the push service answers 410 for |
| `ringing`, `targets`, `pending` | the push run: users to come, subscriptions selected, rows updated and not committed |
| `visited`, `chosen`, `late`, `streak` | observations |

The handlers are actions, each with its commit. `Scan` is a mail scanner, which
visits any link of any message and so may do whatever a GET does. Subscriptions
that the uncommitted push run has updated are locked, as PostgreSQL locks them.
`failures` is counted from the row as it is at the update, not as it was
selected; the property `RetiredForCause` is about the difference.

## 3. The runs

| Run | States | Question | Result |
|---|---|---|---|
| `store` | 9,381 | does any order of list and detail pages, and a change of serialization, break the history? | no |
| `tracking` | 9,092 | do two overlapping runs, with faults, keep the history short, and is every notice within the detail queue read in full? | yes |
| `amendment_lost` | | does an amendment reach the row? | **no**, §4 |
| `page_ingest` | 112,672 | are pages atomic, traceable, counted right, and do runs end? | yes |
| `sweep` | 148,382 | how much does a sweep of a moving list miss, with expired sessions and refused requests, and does it end? | bounded; yes |
| `awards` | 1,771,585 | is what was on the award list stored or replayable, and the archive sound, with two crashes in any step? | yes |
| `scheduler` | 130 | does every start of the process lead to a startup sweep of every source, through outages and kills? | yes |
| `scheduler_paused` | | and is every source swept again and again? | **no**, §4 |
| `alerts` | 187,769 | is a mail ever without its alert, is every match alerted, and nothing sent twice without a cut? | no; yes |
| `yield` | 249,727 | is a normal run flagged, or a collapse missed, whatever lies in the log? | no |
| `daily` | 1,388,573 | is what was found today mailed today, and is nothing forgotten behind a limit? | yes |
| `site` | 645,899 | who may act on an account, vote on it and be mailed, with scanners, shared browsers and crashes? | only those who should |

What the properties say:

* `store`: `HistoryReplays` (each version is its predecessor with the recorded
  changes, the last one is the row), `HashDescribesRow` (the hash that decides
  whether anything changed is of what is stored), `NoPhantomVersion` (every
  version names a field that moved, also after a change of serialization),
  `ListNeverContradictsDetail`, `KnownStaysKnown`, `ResightingIsSilent` (a page
  seen twice finds every hashed field as it left it).
* `tracking`: `UnamendedHistory` (at most two versions until the notice is
  amended; `SecondCrawlIsQuiet`, that none is written once it was read in full,
  follows from the same invariant and is proved), `DetailReached` (no notice
  stays within the detail queue for ever; one behind a whole queue of newer ones
  is promised nothing, by the code or here), and `TenderStore`'s `Spec` as a
  property. The two versions leave room for one that the first detail page makes
  up, which `CatchingUp.cfg` is about.
* `page_ingest`: `ArchivedBeforeStored`, `NoLostUpdate`, `RawAccountedFor` (a run
  that reports success has applied or filed every document), `NewIsNew` (what it
  counts as new is new), `PagesAreAtomic` (refinement), `EveryRunEnds`. A page that
  parses to nothing without an error counts as applied: the code files nothing
  about it, and only its archived document tells.
* `sweep`: `SkippedBounded` (a full sweep misses at most one notice for each that
  came or went meanwhile, and a page for each the portal would not give; an
  expired session costs nothing), `SweepEnds`.
* `awards`: `WindowIsStored` (a run nothing cut short has stored what was in its
  window when it began, though the list grew under it), `NothingSeenIsLost`
  (whatever was on a page it went past is stored, or on a recorded document that
  reads back whole), and the archive's `NoTruncatedBlob`, `RecordedIsReadable` and
  `NeverOverwritten`.
* `scheduler`: `StartupSweepsAll` (whatever takes a process down, the startup loop
  of it or of a successor gets to every source). `scheduler_paused`:
  `KeepsSweeping`, which the unit's description promises.
* `alerts`: `NoMailWithoutAlert`, `SentWasReceived`, `MailedOnce` and
  `PushedOnce` (twice only across a cut), `EveryMatchAlerted`.
* `yield`: `NoFalseAlarm` (a flagged run that found something is a full sweep,
  and another one found more than twice as much), `CollapseIsFlagged` (a full
  sweep below a quarter of what half of the latest ones found is flagged,
  whatever capped, failed and unfinished rows lie between).
* `daily`: `SameDayDelivery` (what deserved a mail when a run began is mailed by
  its end, if nothing failed, while the crawler may write about any tender in
  between). Excepted are a tender that itself changes meanwhile; one that no term
  finds and that a change to another puts below the floor, or whose rivals' vectors
  are of an older text than they have (`VectorsFollowText` below), or when the run
  cannot embed all there is; and whatever a limit of matching or of the digest
  may cut off. `BacklogDrains` (every text is embedded in the end, unless a whole
  batch of newer rows without a text stands before it for good: such rows block
  also when they have closed) and `NoCandidateForgotten` (those ranked before a
  candidate are matched and make room for it).
* `site`: `OnlyVerifiedActs`, `VerdictIsAPersons`, `SilentAfterUnsubscribing` (at
  most what was under way), `RetiredForCause`.

The type invariants (`TypeOK`, `PageTypeOK`, `SweepTypeOK`, ...) are not listed in
the configurations, where each line is a question. They are theorems, and hold
when added to the INVARIANTS of the same configurations.

### Bounds, and why they are enough

* *Tenders.* `TenderStore` and `NoticeTracking` have one: no statement of
  `upsert_tender` touches two. Four list and five detail records cover every
  pair of present, absent, equal and different for each kind of field, a
  defaulted enumeration and a cancellation; four versions let a field move away
  and back twice, and two schemes let every stored hash go stale once.
  `MaxVersions` stops `Revise`, and nothing else.
* *Overlap.* Two runs are enough for every race that needs a reader and a
  writer; three revisions let a payload be two amendments old.
* *Pages.* Two, with the same tenders in opposite orders so that transactions
  can form a ring, and one of them listing a tender twice, so that a
  transaction meets its own write. Two fetches per run allow an update after an
  insert; one fault at any point of either run. A third page parses to nothing.
* *Sweep.* Five notices, two a page: three pages, the last full or not, and room
  for one to be skipped on both boundaries. Two attempts a request. The list
  changes at most ten times, since a notice arrives once and leaves once.
* *Awards.* Three awards, one a page, two pages a run: a new award pushes one
  out of the window and one from page to page. Two crashes, so that a run meets
  the part file of one that died and dies itself; an attempt reuses the inode a
  crash left under the part name, so `MaxInodes` is never short.
* *Scheduler.* Two sources, the number registered, and six faults, so that every
  part of every startup run can be hit, and the recovery from it again.
* *Alerts.* Two tenders and digests of one, so that a backlog takes two digests
  and the choice of the best is a real one. One digest process beside the push
  run, one refusal and one crash, in any step; two digest processes in
  `AlertPair.cfg`, under symmetry (safety only).
* *Yield.* Four rows and a window of two, so that the window moves; two runs
  open together; a healthy yield, a collapsed one and none.
* *Daily.* Two tenders, one batch row, one ranked, two embedded a run: the second
  tender meets the limits of the batch, of the embedding and of the ranking.
  Those of the candidates, of the hits and of the digest are two and never cut
  anything off; that the properties hold when they do is proved of
  `SameDayDelivery`, and claimed of no other. A text with a term, one near in
  meaning, one below the floor, and none; one amendment or failure.
* *Site.* Two accounts, one address that both gave, one browser that both use:
  sharing is what could confuse them. Two failures retire a subscription, and
  two is the bound on failures, so that a success and a revival can come between
  them. What more people, addresses and browsers would do is proved (section 6).

`CHECK_DEADLOCK FALSE` appears where a system may come to rest: a store at its
version bound, runs that all have ended, a full log, a list that has no more
awards to come, alerts when every tender is closed, and the runs that look for
one violation. `Scheduler` comes to rest after its startup sweep. `DailyRun` and
`Site` never rest: they can always go round again.

### Further configurations, run by hand

These are kept beside the runs; each is `tlc -config X.cfg <module>`.

| Configuration | Module | Outcome |
|---|---|---|
| `ListErasure.cfg` | `MCTenderStore` | violated: the project's README says a list sweep only fills gaps. When it does fill one, `_update_tender_columns` writes *every* column from a merged record that never held the stored `organization` and `lots` (`repo.py:314`): the lots of the detail page are gone, and no version shows it, since neither is hashed. |
| `SingleCrawler.cfg` | `MCNoticeTracking` | holds, as `SingleRunNeverRegresses` says: with one run at a time the closing date never goes back. With two it may: a payload waits in one run while another stores a newer one, and the code has no protection. |
| `CatchingUp.cfg` | `MCNoticeTracking` | violated: `models.py:40` says the first detail page is our ingestion catching up. A title the two views spell differently was not empty before, so the version is labelled `corrigendum` (`models.py:205`). |
| `ArchivePair.cfg` | `MCArchive` | holds, as `DeathlessNeverTruncate` says: two writers that do not die. |
| `ArchiveShared.cfg` | `MCArchive` | violated: the comment in `store` (`archive.py:64`) says that a crash in mid-write cannot leave a truncated blob. The part name is a function of the content, so two processes with the same page write through it: one opens (and truncates) the inode that the other then renames into place, and dies. |
| `SchedulerCrash.cfg` | `MCScheduler` | violated: "a run must never crash the scheduler" (`runner.py:121`). The transactions of `run` outside its `try` raise into the startup loop, which ends the process. systemd starts it again, and `StartupSweepsAll` shows that the sweep is made up for. |
| `AlertPair.cfg` | `MCAlertDigest` | holds, as `AlertsAreOwned` says for any number of processes: two digest processes never mark each other's alerts. |
| `AlertResent.cfg` | `MCAlertDigest` | violated: a tender "in a previous alert" is mailed again (`digest.py:66`) if the process dies, or the mail session breaks, between the send and `mark_sent`. `MailedOnce` shows that it takes such a cut. |
| `AlertUnnamed.cfg` | `MCAlertDigest` | violated: a push about two tenders names one and records both (`push.py:231`); digests then leave both out, so the other is never named, although push "complements" the digest (`push.py:7`). |
| `YieldShortHistory.cfg` | `MCYieldMonitor` | violated: `MIN_RUNS_FOR_BASELINE` (`runner.py:40`) says that below three runs the average is not yet meaningful. Nothing reads it, and the second sweep ever can be flagged. |
| `AwardsUnkeyed.cfg` | `MCAwards` | violated: an award whose row has no link has NULLs in its key, which PostgreSQL holds distinct, so a second collection inserts it again (`collector.py:231`). |
| `SiteMoved.cfg` | `MCSite` | violated: a second sign-up with a known phone number replaces the address and keeps `verified_at` (`accounts.py:132`), so a digest goes to an address from which no link was ever visited. |
| `DailyRun.cfg`, with another property | `MCDailyRun` | violated: `NeverElsewhere` (a tender without a district passes the filter, and its match stays when the detail page says where it is, `layer1.py:71`); `FloorHolds` (the relative floor sinks once the best are matched and no longer candidates, `layer2.py:194`); `VectorsFollowText` (the backlog looks for a missing vector, never at `source_text`, `embeddings.py:105`); `StagesFailAlone` (one aborted transaction fails the later stages too, `cli.py:193`). With `HitLimit = 100`, `BothOutrank` as well: two ranks past the sixtieth add up to less than one first rank. |

## 4. Where the code and its documents disagree

* **`amendment_lost`.** `adapters/egp.py` promises a detail fetch for tenders
  that are new *or whose hash changed*. `tenders_needing_detail` selects those
  never fetched, and after the first fetch a list page may only fill gaps. An
  extended closing date has no way into the row.
* **`scheduler_paused`.** The unit "runs always and sweeps every 30 minutes". The
  jobs are registered with `next_run_time=None`, which APScheduler takes for
  paused, and nothing resumes them: a process sweeps each source once.
* The violations in the table above: a list sweep that erases (`ListErasure`), a
  truncated blob (`ArchiveShared`), labels, verdicts, filters, floors, vectors
  and stages that are not what a comment says.

## 5. Fairness

Weak fairness throughout, and only of what the code or its deployment keeps
going.

* *Tracking*: each run's steps. asyncio schedules a run, every request has a
  timeout, an upsert waits only for a commit, and the operator starts further
  runs. The portal need not amend, newer notices need not make room in the detail
  queue, and nothing need fail.
* *Page ingestion*: each run's steps, waiting ones included, because PostgreSQL
  wakes the waiters of a released lock and breaks rings after
  `deadlock_timeout`. Faults are free.
* *Sweep*: the steps of the generator, refusals included: every request has a
  timeout and a bounded number of attempts, and the runner reads the generator
  to its end. The list is free to move, and does so finitely often.
* *Scheduler*: `Boot` (`Restart=always`, no start limit), the end of an outage,
  the startup loop, the steps of a run and APScheduler's `Tick`. Kills and outages
  are free and bounded.
* *Alerts*: each digest process, which the daily timer starts again and whose
  mail session has a timeout of 30 s. Nothing obliges anyone to push: urgent
  pushes have no timer of their own.
* *Daily*: the steps of a run, the next one's start included, since the timer
  fires every day. Some step of `Step` is always enabled, so `[]<><<Step>>` is
  weak fairness of it. Failures and kills are bounded.
* `Site`, `Awards` and `YieldMonitor` state safety only, and have no fairness.

## 6. What is proved

All theorems hold for every value of the constants under the assumptions each
module names: any fields, values, tenders, pages, lists, people, browsers,
numbers of processes, crashes and bounds.

| Module | Theorems | Argument |
|---|---|---|
| `NoticeTracking_proofs`, of `TenderStore` | `TypeCorrect`; `HistoryAlwaysReplays`, `HashAlwaysDescribesRow`, `NeverPhantom`; `DetailIsAuthoritative`, `KnownNeverErased`, `ListNeverAmends`, `ResightingAlwaysSilent` | `HistoryInv`, the conjunction of the three history invariants, is inductive over `TypeOK`; none of the three is on its own: the diff is taken against the row, so replay needs that the row is what the last version says, and the step that decides there is nothing to write needs that the hash is the row's. The action theorems are read off the merge lemmas (`MergeType`, `MergeKeeps`, `MergeIdempotent`). |
| `NoticeTracking_proofs`, of the crawls | `TrackingTypeCorrect`, `TrackingImplementsStore`, `UnamendedStaysShort`, `SecondCrawlAlwaysQuiet`, `SingleRunNeverRegresses` | A run holds a view of a published revision, of the kind it says; hence each of its steps is an upsert of `TenderStore` or leaves the store alone. Everything proved of `TenderStore` then holds of stale, overlapping, crashing runs. `Unamended`: a row that only list sweeps wrote has the hashed columns of the list view and one version, and a row read in full has those of both views together and at most two; reading either view again leaves both as they are. `NotFresher`, for the last, under the hypotheses `SingleRun` (one run) and `OnlyLater` (amendments postpone, and the two views of a revision agree): what is stored is no later than what the portal shows or will show, nor than what the run holds. Both hypotheses are needed, and a run's payload need not be the newest. |
| `Archive_proofs` | `ArchiveTypeCorrect`, `SoloNeverTruncates`, `RecordedAlwaysReadable`, `SoloNeverOverwrites`, `DeathlessNeverTruncate` | The types for any number of writers; the next three from the hypothesis `Solo` (at most one writer), which `ArchiveShared.cfg` shows to be needed. `ArchiveInv`: every final name stands for a complete inode, no inode has two names, and the only one being written is under the part name of the path being stored. The last is of any number of writers, none of which dies (`MaxCrashes = 0`): two may have one inode open and truncate it under each other, but a half that is not there is one that a writer which has the inode open has still to write (`HalvesInv`). |
| `Awards_proofs` | `AwardsImplementArchive`, `NothingSeenIsEverLost`, `WindowIsAlwaysStored`, `AwardsTypeCorrect` | The collector is the one writer, so what is proved of a solo archive holds of it. `SeenIsRecorded`: what was seen is on a recorded path, which reads back whole. `WindowInv` has one part for each stage: what is due and lies above the page is stored, what is on the page is in the document held, what is stored or *further down* is left to the next pages. New awards only push others down, so nothing slips back over the page; and `NoGaps`, that below a place that is taken every place is taken, makes a page without awards the last one. |
| `PageIngest_proofs` | `PageTypeCorrect`, `AlwaysArchivedBeforeStored`, `NeverLostUpdate`, `PagesAlwaysAtomic`, `AlwaysAccountedFor`, `AlwaysNewIsNew` | `Traces` (what a run ingests is archived and recorded), `Locked` (a pending write is on the latest committed one, and no two transactions hold one tender), `PendingIsPrefix` and `StoredIsPast` (a transaction holds exactly the tenders of the records it has passed, and a committed document is an earlier one of its run), which make a commit an `Ingest` of `AtomicIngest` and every other step a stutter. `Verdict` ties the report to what was filed and to the row in `crawl_runs`; with it `Accounted` (a recorded document is filed, applied, in the hands of its run, or its run did not end well) and `Counted` (until a run fails, its counter is the cardinality of `Claimed`, the tenders it has inserted, committed or not) are inductive. |
| `AlertDigest_proofs` | `AlertInvHolds`, `AlertTypeCorrect`, `EveryMailIsRecorded`, `SentIsReceived`, `AlertsAreOwned`, `SoloMailsOnce`, `AlwaysPushedOnce` | `AlertInv` adds to the checked invariants that what is past its send has arrived (`InFlight`), without which marking an alert sent would not be justified. `MailOnceInv` and `PushOnceInv`, on top: what was told is marked or about to be marked, so what is selected next is disjoint from it. The first needs `Solo` (one digest process). |
| `Site_proofs` | `SiteTypeCorrect`, `OnlyTheVerifiedAct`, `ScannersNeverVote`, `RetiredOnlyForCause`, `UnsubscribingSilences` | `SiteInv` is inductive: whatever a link, a session or a run names is an account (`NamesInv`); it is verified if it may act, the rows a push run holds privately included (`VerifiedInv`), because verification is never undone; and a row that was selected and not sent to is not retired as the run sees it (`RowsInv`), or a failure could be counted past the limit. `QuietInv` on top counts what may still reach somebody who has unsubscribed: messages that came late and messages still to be sent never add up to more than the bound. |
| `CrawlRuns_proofs`, of `Sweep` | `SweepTypeCorrect`, `SkippedAlwaysBounded` | `Overtaken` is what was on the list when the sweep began, still is, has not been found, and stands on a page already answered. Answering a page adds to it nothing but what a lapse accounts for, an arrival pushes everything down and adds nothing, and a departure pulls at most one notice over the boundary. At the end, of a list that has not outgrown the page count, everything still missing is overtaken: so the invariant bounds the sum of `Overtaken` and of the list's length as well (`OvertakenInv`), and ties the page count to the length when the sweep began (`PagesInv`). |
| `CrawlRuns_proofs`, of `YieldMonitor` | `YieldTypeCorrect`, `NeverFalseAlarm`, `CollapseAlwaysFlagged` | The comparison is with a sum over a set, so two lemmas bound such sums: it is at most the size times a bound of its terms (`SumAtMost`), and at least a bound times the number of the terms above it (`SumAtLeast`). A run below half of a mean is below half of some term; one below a quarter of half of the terms is below half of the mean. The sweeps averaged over are the `LatestSweeps` of the property (`RecentAreLatest`). |
| `CrawlRuns_proofs`, of `Scheduler` | `SchedulerTypeCorrect`, `AlwaysIdleAfterStartup` | `ProcessInv`: there are jobs exactly when the process is up, all of them are paused, and no job ever has a run. Hence only the startup loop runs, and once it is over a process never sweeps again: the finding `scheduler_paused`, for any registry and any faults. |
| `DailyRun_proofs` | `DailyTypeCorrect`, `DeliveredSameDay`, `BothOutrankUpTo61` | `RunInv` follows what is owed through the stages (`DeliveryInv`): until the selection it is unsent, or in the pool and worth a match among the pool (`Owed`); then the same among what was selected; then unsent; then mailed. When the embedding ends, what no term finds has its vector (`Embedded`): a batch that is not full has the whole backlog in it (`NewestBelowLimit`). A list of no more than a limit is taken whole (`NewestIsAll`, `PositionBelow`, `SurvivorRanked`). The similarity floor of fewer candidates is not higher (`FloorMonotone`), so that what leaves the pool does the rest no harm; what joins it or changes in it is weighed by `OwedBeside`, so each crawl write costs the debt that it justifies and no other (`CrawlDelivers`). Any failure sets `struck`. The last theorem is about the fusion alone: the claim of `layer2.fuse` holds up to 61 hits of each retriever and fails from 62 on; the code takes 100. |

`NoticeTracking_proofs` and `CrawlRuns_proofs` each prove about several modules:
the first because the crawls are built of the store, the second because its
three are the parts of a crawl run. `Sweep`, `YieldMonitor` and `Scheduler` share
no variable and no constant, so none restricts another.

The library's induction theorems take an operator for the claim, which no
backend can instantiate. Where induction is needed it is made from the least
counterexample (`LeastExists`, from the library's well-founded minimum), or over
a set in place of a claim (`AllNumbers`, `AllSubsets`); with the latter,
`FoldDefined` shows that the fold of the community modules has the value its
recursion says, on which the sums of `CrawlRuns_proofs` rest.

Nothing is assumed beyond the `ASSUME`s on constants, which TLC evaluates in
every run, and `Solo`, `MaxCrashes = 0`, or `SingleRun` and `OnlyLater`, where a theorem
says so.

Every safety invariant and every action property of a passing run is a theorem.
Only model-checked, because it is out of the prover's reach: liveness
(`DetailReached`, `EveryRunEnds`, `SweepEnds`, `StartupSweepsAll`,
`EveryMatchAlerted`, `BacklogDrains`, `NoCandidateForgotten`), since there are
no rules for fairness and ENABLED. No module declares a RECURSIVE operator.

## 7. What is not modelled

* **Parsing** (`adapters/`, the rows of `awards/collector.py`): HTML to records is
  text work. What matters to the rest is what a page *says*, which the models
  take as given, and that it may be unreadable or read as nothing, which they have.
  The offline
  adapter is a loop over pages like the e-GP one without session and retry.
* **Normalisation inside the hash**: equal values are equal; the cases where they
  are not spelt alike are the scheme, and the views that differ.
* **Pages, search and the admin figures** (`web/queries.py`, `web/admin.py`, most
  of `web/app.py`, the templates): they only read. So does the open pixel for
  every decision the code takes.
* **Pacing** (`crawl/http.py`): how long a client waits between requests is time,
  and no other part depends on it.
* **Embedding and scoring arithmetic**: similarity and relevance are functions of
  a text; the ranks, floors and fusion made of them are modelled.
* **Connections and migrations** (`db/pool.py`, `db/migrate.py`): psycopg's pool
  and PostgreSQL's transactional DDL. Two hazards live here: two threads may
  both find no pool and open one each, and `profile_save` renders its error page
  inside a pooled connection while rendering takes a second one
  (`accounts.py:276`), so that as many requests as there are connections wait
  for each other until the pool's timeout.
* **The rate of new notices**: the detail queue (`db/repo.py:495`) is newest first
  up to a limit, and in the model a whole queue of newer notices may stand before
  one for ever. How many notices come a day, and so how long one waits, is not in
  it.
* **Backups and provisioning** (`src/deploy`): shell around other programs.

## 8. Plan

1. The detail queue over many notices, with the rate of new ones as a parameter:
   how long one may wait behind it.
2. Bounds in place of liveness, which can then be proved: after how many quiet
   runs a candidate behind a limit of `DailyRun` is reached (`BacklogDrains`,
   `NoCandidateForgotten`), and how many digests a backlog of `AlertDigest` takes.
3. The runs of `PageIngest` as the rows `YieldMonitor` judges, by refinement.
