------------------------------ MODULE DailyRun ------------------------------
(***************************************************************************)
(* The daily pipeline (cli.cmd_daily): embed the backlog, match, send the  *)
(* digest, in this order, over one connection, while the crawler goes on   *)
(* writing tenders.  One user, verified and subscribed.                    *)
(*                                                                         *)
(*   rows      tenders                                                     *)
(*   vectors   tender_embeddings: the text each tender was embedded from   *)
(*   profiled  whether profile_embeddings has a row for the user; nothing  *)
(*             in the code stores one, an operator may have                *)
(*   matches   the matches rows                                            *)
(*   mailed    tenders in an alert that was sent                           *)
(*   pc        the stage of the run under way                              *)
(*   batch     the texts of the batch being embedded                       *)
(*   total     how many this run has embedded                              *)
(*   cands     the candidates a match run has selected, as selected        *)
(*   aborted   whether the connection's transaction is aborted             *)
(*   failed    the stages of this run that raised                          *)
(*   struck    those in which something outside the run failed             *)
(*   due       the tenders this run still owes the user: an observation,   *)
(*             which no step of the code reads                             *)
(*   upsets    amendments and failures so far                              *)
(***************************************************************************)
EXTENDS MatchRules

CONSTANTS
  BatchSize,   \* BATCH_SIZE * 4
  EmbedLimit,  \* --embed-limit
  DigestSize,  \* MAX_TENDERS_PER_DIGEST
  Said,        \* the texts the pages may give each tender
  Profiled,    \* whether profile_embeddings may have a row for the user
  MaxUpsets    \* bound on amendments and failures

ASSUME DailyAssumption ==
  /\ {BatchSize, EmbedLimit, DigestSize} \subseteq Nat \ {0}
  /\ Said \in [Tenders -> SUBSET (Texts \cup {None})]
  /\ Profiled \subseteq BOOLEAN
  /\ MaxUpsets \in Nat

VARIABLES rows, vectors, profiled, matches, mailed, pc, batch, total, cands,
          aborted, failed, struck, due, upsets

tables    == <<rows, vectors, profiled, matches, mailed>>
work      == <<batch, total, cands>>
outcome   == <<failed, struck>>
dailyVars == <<tables, pc, work, aborted, outcome, due, upsets>>

Stages  == {"embed", "match", "digest"}
NoMatch == [by |-> "none"]
Nothing == [t \in {} |-> None]

Init ==
  /\ rows = [t \in Tenders |-> [stage |-> "absent", place |-> None, text |-> None]]
  /\ vectors = [t \in Tenders |-> None]
  /\ profiled \in Profiled
  /\ matches = [t \in Tenders |-> NoMatch]
  /\ mailed = {}
  /\ pc = "idle"
  /\ batch = Nothing
  /\ total = 0
  /\ cands = {}
  /\ aborted = FALSE
  /\ failed = {}
  /\ struck = {}
  /\ due = {}
  /\ upsets = 0

Upset == upsets < MaxUpsets /\ upsets' = upsets + 1

Matched == {t \in Tenders : matches[t] # NoMatch}

-----------------------------------------------------------------------------
(* The backlog of embeddings. *)

\* Mutant of Backlog: the join does not look for a missing vector.
BacklogOfAll == {t \in Tenders : rows[t].stage # "absent"}

\* tenders_needing_embedding: what has no vector, of whatever is 'live', and
\* nothing takes that status from a tender that has closed.  The model of the
\* vectors is always the same one.
Backlog == {t \in Tenders : rows[t].stage # "absent" /\ vectors[t] = None}

\* unsent_matches: the matches not closed yet that no sent alert has.
Unsent == {t \in Matched : rows[t].stage \in {"far", "open", "near"} /\ t \notin mailed}

-----------------------------------------------------------------------------
(* What a run owes, for SameDayDelivery.                                   *)

\* What matching has before it.
Pool == {t \in Tenders \ Matched : Passes(rows[t])}

\* A vector, or the text about to become one, is of the text the row has.
Fresh(t) ==
  (IF t \in DOMAIN batch THEN batch[t] ELSE vectors[t]) \in {None, rows[t].text}

ByTerm(t) == rows[t].text # None /\ Relevance[rows[t].text] > 0

\* The tender reaches the floor that the rivals set.
ByMeaning(t, rivals) ==
  /\ profiled /\ rows[t].text # None
  /\ \A u \in rivals : Fresh(u)
  /\ 10 * Similarity[rows[t].text] >=
       SimilarityFloor({Similarity[text] : text \in {rows[u].text : u \in rivals} \ {None}})

Worth(t, rivals) == ByTerm(t) \/ ByMeaning(t, rivals)

Rivals == IF pc = "ranking" THEN cands ELSE Pool

\* After a change to tender t nothing is owed of t itself, nor of what a
\* better one now puts below the floor.
OwedBeside(t) == {u \in due \ {t} : u \in Matched' \/ Worth(u, Rivals)'}

\* A run that cannot embed all owes what needs no vector, and one that meets
\* another limit owes nothing more.
OwedWhenEmbedded(all) == IF all THEN due ELSE {t \in due : t \in Matched \/ ByTerm(t)}
OwedWithin(limit, S)  == IF Cardinality(S) <= limit THEN due ELSE {}

-----------------------------------------------------------------------------
(* The crawler. *)

\* A list page brings a notice: no district, a text or none.
Publish(t) ==
  /\ rows[t].stage = "absent"
  /\ \E stage \in {"far", "open", "near"}, text \in Said[t] :
       rows' = [rows EXCEPT ![t] = [stage |-> stage, place |-> None, text |-> text]]
  /\ UNCHANGED <<vectors, profiled, matches, mailed, pc, work, aborted, outcome, upsets>>
  /\ due' = OwedBeside(t)

\* Its detail page says where it is.
Locate(t) ==
  /\ rows[t].stage # "absent"
  /\ rows[t].place = None
  /\ \E place \in Places : rows' = [rows EXCEPT ![t].place = place]
  /\ UNCHANGED <<vectors, profiled, matches, mailed, pc, work, aborted, outcome, upsets>>
  /\ due' = OwedBeside(t)

\* A page gives the notice another text.
Reword(t) ==
  /\ Upset
  /\ rows[t].stage # "absent"
  /\ \E text \in Said[t] \ {rows[t].text} : rows' = [rows EXCEPT ![t].text = text]
  /\ UNCHANGED <<vectors, profiled, matches, mailed, pc, work, aborted, outcome>>
  /\ due' = OwedBeside(t)

\* A page gives the notice another closing date.
Reschedule(t) ==
  /\ Upset
  /\ rows[t].stage # "absent"
  /\ \E stage \in {"far", "open", "near"} \ {rows[t].stage} :
       rows' = [rows EXCEPT ![t].stage = stage]
  /\ UNCHANGED <<vectors, profiled, matches, mailed, pc, work, aborted, outcome>>
  /\ due' = OwedBeside(t)

\* The closing date comes within 90 days, comes near, and passes.
Later == [far |-> "open", open |-> "near", near |-> "over"]

Age(t) ==
  /\ rows[t].stage \in DOMAIN Later
  /\ rows' = [rows EXCEPT ![t].stage = Later[rows[t].stage]]
  /\ UNCHANGED <<vectors, profiled, matches, mailed, pc, work, aborted, outcome, upsets>>
  /\ due' = OwedBeside(t)

-----------------------------------------------------------------------------
(* cmd_daily. *)

Start ==
  /\ pc = "idle"
  /\ pc' = "embed"
  /\ due' = {t \in Pool : Worth(t, Pool)} \cup Unsent
  /\ UNCHANGED <<tables, work, aborted, outcome, upsets>>

After(stage) == CASE stage = "embed" -> "match" [] stage = "match" -> "digest"
                  [] stage = "digest" -> "report"

\* Mutant of EmbedSelect: matching comes first.
EmbedNothing ==
  /\ pc = "embed"
  /\ pc' = "match"
  /\ UNCHANGED <<tables, work, aborted, outcome, due, upsets>>

\* How many rows the next batch may have.
Room == IF total < EmbedLimit THEN Min({BatchSize, EmbedLimit - total}) ELSE 0

\* embed_backlog: the next batch, newest first, or the end of the stage.
EmbedSelect ==
  /\ pc = "embed" /\ ~aborted
  /\ LET next == Newest(Backlog, Room)
     IN  IF next = {}
         THEN pc' = "match" /\ UNCHANGED batch
         ELSE pc' = "embedding" /\ batch' = [t \in next |-> rows[t].text]
  /\ due' = OwedWhenEmbedded(Room = 0 => Backlog = {})
  /\ UNCHANGED <<tables, total, cands, aborted, outcome, upsets>>

\* store_tender_embeddings and its commit: rows without a text are left
\* out, and a batch with no other ends the stage, a full one as well.
EmbedStore ==
  /\ pc = "embedding"
  /\ LET stored == {t \in DOMAIN batch : batch[t] # None}
     IN  /\ vectors' = [t \in Tenders |-> IF t \in stored THEN batch[t] ELSE vectors[t]]
         /\ total' = total + Cardinality(stored)
         /\ pc' = IF stored = {} THEN "match" ELSE "embed"
         /\ due' = OwedWhenEmbedded(stored = {} => Cardinality(DOMAIN batch) < Room)
  /\ batch' = Nothing
  /\ UNCHANGED <<rows, profiled, matches, mailed, cands, aborted, outcome, upsets>>

\* match_user: the profile and the candidates are read.
MatchSelect ==
  /\ pc = "match" /\ ~aborted
  /\ LET chosen == Candidates(rows, Matched)
     IN  /\ cands' = chosen
         /\ pc' = IF chosen = {} THEN "digest" ELSE "ranking"
  /\ due' = OwedWithin(CandidateLimit, Pool)
  /\ UNCHANGED <<tables, batch, total, aborted, outcome, upsets>>

MatchRow(t) ==
  [by |-> MatchedBy(t, cands, vectors, profiled, rows),
   similarity |-> IF t \in VectorHits(cands, vectors, profiled)
                  THEN Similarity[vectors[t]] ELSE -1]

\* rank reads the texts and vectors as they are now; the rows are inserted
\* and match_all_users commits.
MatchStore ==
  /\ pc = "ranking"
  /\ LET best == Ranked(cands, vectors, profiled, rows)
     IN  matches' = [t \in Tenders |-> IF t \in best THEN MatchRow(t) ELSE matches[t]]
  /\ due' = OwedWithin(HitLimit, cands) \cap
              OwedWithin(RankLimit, Survivors(cands, vectors, profiled, rows))
  /\ cands' = {}
  /\ pc' = "digest"
  /\ UNCHANGED <<rows, vectors, profiled, mailed, batch, total, aborted, outcome, upsets>>

\* send_all; AlertDigest has its steps.  The best of what was not sent, in
\* whatever order the stored scores put them.
Digest ==
  /\ pc = "digest" /\ ~aborted
  /\ \E best \in SUBSET Unsent :
       /\ Cardinality(best) = Min({DigestSize, Cardinality(Unsent)})
       /\ mailed' = mailed \cup best
  /\ due' = OwedWithin(DigestSize, Unsent)
  /\ pc' = "report"
  /\ UNCHANGED <<rows, vectors, profiled, matches, work, aborted, outcome, upsets>>

-----------------------------------------------------------------------------
(* Failures. *)

StageOf == CASE pc \in {"embed", "embedding"} -> "embed"
             [] pc \in {"match", "ranking"} -> "match"
             [] pc = "digest" -> "digest"

Underway == {"embed", "embedding", "match", "ranking", "digest"}

Drop == batch' = Nothing /\ cands' = {} /\ UNCHANGED total

\* The end of the process: its variables are gone, and the connection is
\* rolled back.
Exit ==
  /\ pc' = "idle"
  /\ batch' = Nothing
  /\ total' = 0
  /\ cands' = {}
  /\ aborted' = FALSE
  /\ failed' = {}
  /\ struck' = {}
  /\ due' = {}

\* A statement of a stage fails, or, without a trace in the transaction,
\* the model does; the stage is logged as failed and the next one begins.
Fail(inDatabase) ==
  /\ pc \in Underway /\ ~aborted
  /\ inDatabase \/ pc = "embedding"
  /\ Upset
  /\ failed' = failed \cup {StageOf}
  /\ struck' = struck \cup {StageOf}
  /\ aborted' = inDatabase
  /\ pc' = After(StageOf)
  /\ Drop
  /\ UNCHANGED <<tables, due>>

\* Nothing rolls the transaction back: the first statement of a later
\* stage raises InFailedSqlTransaction.
FailAborted ==
  /\ pc \in Underway /\ aborted
  /\ failed' = failed \cup {StageOf}
  /\ pc' = After(StageOf)
  /\ Drop
  /\ UNCHANGED <<tables, aborted, struck, due, upsets>>

\* The mail server refuses the digest: its alert stays unsent.
MailRefused ==
  /\ pc = "digest" /\ ~aborted
  /\ Upset
  /\ struck' = struck \cup {"digest"}
  /\ pc' = "report"
  /\ UNCHANGED <<tables, work, aborted, failed, due>>

\* match_precision and the summary.  It is outside any try: an aborted
\* transaction makes it raise, which ends the process as well.
Report ==
  /\ pc = "report"
  /\ Exit
  /\ UNCHANGED <<tables, upsets>>

\* The process dies; what is uncommitted is rolled back.
Killed ==
  /\ pc # "idle"
  /\ Upset
  /\ Exit
  /\ UNCHANGED tables

Change(t) == Publish(t) \/ Locate(t) \/ Reword(t) \/ Reschedule(t) \/ Age(t)

Crawl == \E t \in Tenders : Change(t)

Step == \/ Start \/ EmbedSelect \/ EmbedStore \/ MatchSelect \/ MatchStore
        \/ Digest \/ Report \/ FailAborted

Next == Crawl \/ Step \/ (\E inDatabase \in BOOLEAN : Fail(inDatabase))
              \/ MailRefused \/ Killed

Spec == Init /\ [][Next]_dailyVars

\* The timer starts a run every day, and one under way goes on.  Some step of
\* it can always be taken, so this is weak fairness of Step.
FairSpec == Spec /\ []<><<Step>>_dailyVars

-----------------------------------------------------------------------------
(***************************************************************************)
(* The types, and that a batch or a selection exists in its own step only. *)
(***************************************************************************)
DailyTypeOK ==
  /\ rows \in [Tenders -> Row]
  /\ vectors \in [Tenders -> Texts \cup {None}]
  /\ \A t \in Tenders : rows[t].stage = "absent" => matches[t] = NoMatch
  /\ mailed \subseteq Matched
  /\ pc \in Underway \cup {"idle", "report"}
  /\ DOMAIN batch \subseteq Tenders /\ (batch # Nothing => pc = "embedding")
  /\ cands \subseteq Tenders /\ (cands # {} => pc = "ranking")
  /\ struck \cup failed \subseteq Stages
  /\ due \subseteq Tenders
  /\ upsets \in 0 .. MaxUpsets

(***************************************************************************)
(* cmd_daily: a digest built before matching would send yesterday's list,  *)
(* and matching before embedding would skip what was crawled since.  In a  *)
(* run in which nothing fails, what passed the filters and was found by a  *)
(* term or above the floor when it began, and what was matched before and  *)
(* not sent, is mailed by its end.  The crawler may write about any tender *)
(* meanwhile.  Excepted are a tender that changes itself; of those no term *)
(* finds, the ones a change to another puts below the floor, or whose      *)
(* rivals' vectors are of an older text than the rows have, or all when    *)
(* the run cannot embed all it has; and all once the run meets a limit of  *)
(* matching or of the digest.                                              *)
(***************************************************************************)
SameDayDelivery == pc = "report" /\ struck = {} => due \subseteq mailed

(***************************************************************************)
(* embed_backlog: what has a text is embedded in the end, closed or not,   *)
(* whatever the limits, unless a whole batch of newer tenders without a    *)
(* text, closed or not, stands before it for good.                         *)
(***************************************************************************)
Blocked(t) ==
  Cardinality({u \in Tenders : u > t /\ rows[u].stage # "absent"
                               /\ rows[u].text = None}) >= BatchSize

BacklogDrains ==
  \A t \in Tenders :
    []<>~(rows[t].stage # "absent" /\ rows[t].text # None /\ ~Blocked(t) /\ vectors[t] = None)

(***************************************************************************)
(* Layer 1: a false negative is invisible.  A tender that is among the     *)
(* newest candidates and has a term of the profile does not stay there:    *)
(* those ranked before it are matched, and leave the candidates to it.     *)
(***************************************************************************)
NoCandidateForgotten ==
  \A t \in Tenders :
    []<>~(/\ t \in Newest(Pool, CandidateLimit)
          /\ rows[t].text # None /\ Relevance[rows[t].text] > 0)

(***************************************************************************)
(* layer1.py: "guarantee we never surface a Sylhet tender to a             *)
(* Rajshahi-only contractor".  No digest has a tender that was known, when *)
(* it was sent, to be elsewhere.                                           *)
(***************************************************************************)
NeverElsewhere ==
  [][Wanted # {} =>
       \A t \in mailed' \ mailed : rows[t].place \in Wanted \cup {None}]_dailyVars

(***************************************************************************)
(* layer2.py: the floor is "RELATIVE to the user's own best match", and    *)
(* the absolute one is "never the binding constraint".  No semantic match  *)
(* is below the relative floor of the matches there are.                   *)
(***************************************************************************)
FloorHolds ==
  \A t, u \in Matched :
    matches[t].by = "semantic" =>
      10 * matches[t].similarity >= RelativeFloorTenths * matches[u].similarity

(***************************************************************************)
(* embeddings.py: re-embedding happens when the text that was embedded     *)
(* changed.  After a run in which nothing failed, and with no limit in the *)
(* way, the vector of a live tender is of its text or of one it got since  *)
(* the run began.                                                          *)
(***************************************************************************)
VectorsFollowText ==
  []<>(\A t \in Tenders : rows[t].stage # "absent" /\ rows[t].text # None
         => vectors[t] = rows[t].text)

(***************************************************************************)
(* cmd_daily: "Each stage is allowed to fail without aborting the rest".   *)
(* A stage that raised had a failure of its own.                           *)
(***************************************************************************)
StagesFailAlone == failed \subseteq struck

(***************************************************************************)
(* layer2.fuse: "A tender found by both retrievers outranks one found by   *)
(* either alone".                                                          *)
(***************************************************************************)
BothOutrank ==
  \A p, q, r \in 0 .. HitLimit - 1 :
    Higher(Plus(Reciprocal(TRUE, p), Reciprocal(TRUE, q)), Reciprocal(TRUE, r))
=============================================================================
