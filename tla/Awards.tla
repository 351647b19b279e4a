------------------------------- MODULE Awards -------------------------------
(***************************************************************************)
(* The collection of contract awards (awards/collector.py): the first      *)
(* pages of the award list are fetched, archived, recorded, parsed and     *)
(* stored one after the other.  The archive is the one of Archive, of      *)
(* which this is the writer that stores award pages; a path stands for the *)
(* page it holds.                                                          *)
(*                                                                         *)
(*   signed    the awards on the portal's list                             *)
(*   page      the page the run is at, 0 when none is under way            *)
(*   stage     what it does with it                                        *)
(*   awards    the contract_awards rows: the award and the path of its     *)
(*             raw document                                                *)
(*   due       awards the run has to store, and                            *)
(*   seen      awards on the pages archived so far: observations           *)
(***************************************************************************)
EXTENDS Archive, Integers, FiniteSets

CONSTANTS
  Contracts,  \* the awards, numbered by the day they were signed
  Keyless,    \* those whose row has no link: no tender id, no lot
  PageSize,   \* page_size
  MaxPages,   \* max_pages
  Collector,  \* the writer
  Expired     \* the page of an expired session

\* The pages that fit on a path are the sets of awards a page may hold.
ASSUME AwardsAssumption ==
  /\ Contracts \subseteq Nat /\ IsFiniteSet(Contracts)
  /\ Keyless \subseteq Contracts
  /\ {PageSize, MaxPages} \subseteq Nat \ {0}
  /\ Writers = {Collector}
  /\ Paths = {S \in SUBSET Contracts : Cardinality(S) <= PageSize} \cup {Expired}

VARIABLES signed, page, stage, awards, due, seen

collecting == <<page, stage, awards, due, seen>>
awardsVars == <<archiveVars, signed, collecting>>

Phases == {"idle", "fetch", "archive", "parse", "next"}

AwardsInit ==
  /\ Init
  /\ signed \in SUBSET Contracts
  /\ page = 0
  /\ stage = "idle"
  /\ awards = {}
  /\ due = {}
  /\ seen = {}

Enter(from, to) == stage = from /\ stage' = to

-----------------------------------------------------------------------------
(* The portal: latest signing date first.                                  *)

Before(a) == Cardinality({b \in signed : b > a})

PageOf(k) == {a \in signed : (k - 1) * PageSize <= Before(a) /\ Before(a) < k * PageSize}

Window == {a \in signed : Before(a) < MaxPages * PageSize}

\* An award appears on the list; what it pushes out of the pages a run
\* reads is due no longer.
Sign(a) ==
  /\ a \notin signed
  /\ signed' = signed \cup {a}
  /\ due' = due \cap Window'
  /\ UNCHANGED <<archiveVars, page, stage, awards, seen>>

-----------------------------------------------------------------------------
(* collect *)

\* ensure_source and the first request.
Collect ==
  /\ Enter("idle", "fetch")
  /\ page' = 1
  /\ due' = Window
  /\ UNCHANGED <<archiveVars, signed, awards, seen>>

\* The next page comes and is looked for in the archive.  A session that
\* expired yields its page like any other.
FetchPage ==
  /\ Enter("fetch", "archive")
  /\ Check(Collector)
  /\ at'[Collector] \in {PageOf(page), Expired}
  /\ due' = IF at'[Collector] = Expired THEN {} ELSE due
  /\ UNCHANGED <<signed, page, awards, seen>>

Content == at[Collector]

\* RawArchive.store goes on.
Archiving ==
  /\ stage = "archive"
  /\ Open(Collector) \/ WriteHalf(Collector) \/ Rename(Collector)
  /\ UNCHANGED <<signed, collecting>>

\* Mutant of Archived: the document is not recorded before it is parsed.
ArchivedUnrecorded ==
  /\ Enter("archive", "parse")
  /\ Goto(Collector, "record", "idle")
  /\ seen' = IF Content = Expired THEN seen ELSE seen \cup Content
  /\ UNCHANGED <<blob, part, data, inodes, at, handle, rows, crashes>>
  /\ UNCHANGED <<signed, page, awards, due>>

\* record_raw and its commit.
Archived ==
  /\ Enter("archive", "parse")
  /\ RecordRaw(Collector)
  /\ seen' = IF Content = Expired THEN seen ELSE seen \cup Content
  /\ UNCHANGED <<signed, page, awards, due>>

Held(a) == a \notin Keyless /\ \E row \in awards : row.award = a

\* store_awards: ON CONFLICT DO NOTHING on a key in which NULLs differ.
Stored ==
  awards \cup {[award |-> a, raw |-> Content] : a \in {a \in Content : ~Held(a)}}

\* parse_awards and store_awards, and the commit.
StorePage ==
  /\ Enter("parse", "next")
  /\ awards' = IF Content = Expired THEN awards ELSE Stored
  /\ UNCHANGED <<archiveVars, signed, page, due, seen>>

\* The parser raises: the page is left to a replay of the archive.
ParseFails ==
  /\ Enter("parse", "next")
  /\ due' = {}
  /\ UNCHANGED <<archiveVars, signed, page, awards, seen>>

\* Mutant of More: one page short.
MoreButOne == page + 1 < MaxPages /\ Content # {}

\* fetch_pages: up to max_pages, or a page that says noRecordFound.
More == page < MaxPages /\ Content # {}

NextPage ==
  /\ stage = "next"
  /\ IF More THEN page' = page + 1 /\ stage' = "fetch" /\ UNCHANGED due
             ELSE page' = 0 /\ stage' = "idle" /\ due' = {}
  /\ UNCHANGED <<archiveVars, signed, awards, seen>>

\* The process dies, or a request or a statement raises and ends the run.
Abort ==
  /\ stage # "idle"
  /\ IF stage = "archive" THEN Crash(Collector) ELSE UNCHANGED archiveVars
  /\ stage' = "idle"
  /\ page' = 0
  /\ due' = {}
  /\ UNCHANGED <<signed, awards, seen>>

AwardsNext ==
  \/ \E a \in Contracts : Sign(a)
  \/ Collect
  \/ FetchPage
  \/ Archiving
  \/ Archived
  \/ StorePage
  \/ ParseFails
  \/ NextPage
  \/ Abort

AwardsSpec == AwardsInit /\ [][AwardsNext]_awardsVars

-----------------------------------------------------------------------------
(***************************************************************************)
(* The types; a row points to a raw document that is recorded and lists    *)
(* its award, and the writer is busy only while a page is archived.        *)
(***************************************************************************)
AwardsTypeOK ==
  /\ signed \subseteq Contracts
  /\ page \in 0 .. MaxPages
  /\ stage \in Phases
  /\ stage = "idle" <=> page = 0
  /\ pc[Collector] # "idle" => stage = "archive"
  /\ \A row \in awards : row.raw \in rows /\ row.award \in row.raw
  /\ due \subseteq signed /\ seen \subseteq signed

(***************************************************************************)
(* 009_awards.sql: every month not collected is history lost.  A run that  *)
(* nothing goes wrong in has, when it ends, stored whatever was in the     *)
(* pages it reads when it began and was not pushed out of them, although   *)
(* the list grows between its requests.                                    *)
(***************************************************************************)
WindowIsStored ==
  stage = "next" /\ ~More => \A a \in due : \E row \in awards : row.award = a

(***************************************************************************)
(* collect: archive before parse, so that a better parser can be replayed. *)
(* Every award that was on a page the run went past is stored, or on a raw *)
(* document that is recorded and reads back whole.                         *)
(***************************************************************************)
NothingSeenIsLost ==
  \A a \in seen :
    \/ \E row \in awards : row.award = a
    \/ \E p \in rows \ {Expired} : a \in p /\ Whole(p)

(***************************************************************************)
(* store_awards: "Insert awards, ignoring ones already held".  An award    *)
(* has one row.                                                            *)
(***************************************************************************)
OneRowPerAward == \A r, s \in awards : r.award = s.award => r = s
=============================================================================
