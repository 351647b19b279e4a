----------------------------- MODULE MatchRules -----------------------------
(***************************************************************************)
(* The two layers of matching, for one user: the hard filters of           *)
(* matching/layer1.py and the fusion of matching/layer2.py, as operators   *)
(* over the rows of tenders and tender_embeddings.                         *)
(*                                                                         *)
(* Tenders are numbered in the order of publication.  A row has            *)
(*   stage  whether closing_at is further ahead than a profile looks       *)
(*          ("far", 90 days), leaves time to bid ("open"), leaves less     *)
(*          than a day ("near"), or is past ("over"); "absent" before      *)
(*          there is a row.  Its status stays 'live' through all of them   *)
(*   place  a value some filter of the profile is about and only the       *)
(*          detail page has: the district, or the security                 *)
(*   text   what the title and the description say                         *)
(* Similarity and relevance to the profile are functions of the text.  The *)
(* filters on nature and method compare what every list page has, so a     *)
(* tender they drop is no candidate at any time and is left out.           *)
(***************************************************************************)
EXTENDS Integers, FiniteSetsExt

CONSTANTS
  Tenders,         \* publication order
  Places,
  Wanted,          \* district_names of the profile, {} for no constraint
  Texts,
  Similarity,      \* text -> cosine similarity to the profile, in hundredths
  Relevance,       \* text -> ts_rank for the profile's terms, 0: no term
  None,            \* a place or text that is not there
  CandidateLimit,  \* limit of layer1.candidates
  HitLimit,        \* limit of vector_candidates and fts_candidates
  RankLimit        \* limit of layer2.rank

ASSUME RulesAssumption ==
  /\ Tenders \subseteq Nat /\ IsFiniteSet(Tenders)
  /\ Wanted \subseteq Places
  /\ Similarity \in [Texts -> 0 .. 100]
  /\ Relevance \in [Texts -> Nat]
  /\ None \notin Places \cup Texts
  /\ {CandidateLimit, HitLimit, RankLimit} \subseteq Nat \ {0}

Row == [stage : {"absent", "far", "open", "near", "over"},
        place : Places \cup {None}, text : Texts \cup {None}]

Newest(S, n) == {t \in S : Cardinality({u \in S : t < u}) < n}

-----------------------------------------------------------------------------
(* Layer 1. *)

\* build_clauses: time to bid, but no more than 90 days of it; what is not
\* known of the rest is not held against a tender.
Passes(row) ==
  /\ row.stage = "open"
  /\ Wanted # {} => row.place \in Wanted \cup {None}

\* Mutant of Candidates: tenders that have a match already are kept.
CandidatesAgain(rows, matched) ==
  Newest({t \in Tenders : Passes(rows[t])}, CandidateLimit)

\* The newest that pass and have no match.  A vote needs the link of an
\* alert, so what has feedback has a match.
Candidates(rows, matched) ==
  Newest({t \in Tenders \ matched : Passes(rows[t])}, CandidateLimit)

-----------------------------------------------------------------------------
(* Layer 2. *)

RRF_K == 60
RelativeFloorTenths == 6
AbsoluteFloor == 15

\* Place in the order of a measure, from 0.  Of equals, whose order the
\* database may choose, the newest is first.
Position(S, measure, t) ==
  Cardinality({u \in S : measure[u] > measure[t] \/ (measure[u] = measure[t] /\ u > t)})

\* A tender has a vector of what its text was when it was embedded.
VectorHits(cands, vectors, profiled) ==
  LET known == {t \in cands : profiled /\ vectors[t] # None}
      sim   == [t \in known |-> Similarity[vectors[t]]]
  IN  {t \in known : Position(known, sim, t) < HitLimit}

FtsHits(cands, rows) ==
  LET found == {t \in cands : rows[t].text # None /\ Relevance[rows[t].text] > 0}
      rank  == [t \in found |-> Relevance[rows[t].text]]
  IN  {t \in found : Position(found, rank, t) < HitLimit}

\* similarity_floor, in thousandths.
SimilarityFloor(sims) == Max({10 * AbsoluteFloor} \cup {RelativeFloorTenths * s : s \in sims})

\* fuse: a tender no term finds must reach the floor.
Survives(t, vhits, fhits, vectors) ==
  \/ t \in fhits
  \/ t \in vhits /\ 10 * Similarity[vectors[t]] >=
                      SimilarityFloor({Similarity[vectors[u]] : u \in vhits})

\* Reciprocal ranks as fractions <<numerator, denominator>>.
Reciprocal(hit, position) == IF hit THEN <<1, RRF_K + position + 1>> ELSE <<0, 1>>
Plus(a, b)   == <<a[1] * b[2] + b[1] * a[2], a[2] * b[2]>>
Higher(a, b) == a[1] * b[2] > b[1] * a[2]

Score(t, vhits, fhits, vectors, rows) ==
  LET sim  == [u \in vhits |-> Similarity[vectors[u]]]
      rank == [u \in fhits |-> Relevance[rows[u].text]]
  IN  Plus(Reciprocal(t \in vhits, IF t \in vhits THEN Position(vhits, sim, t) ELSE 0),
           Reciprocal(t \in fhits, IF t \in fhits THEN Position(fhits, rank, t) ELSE 0))

Survivors(cands, vectors, profiled, rows) ==
  {t \in cands :
     Survives(t, VectorHits(cands, vectors, profiled), FtsHits(cands, rows), vectors)}

\* rank: the best RankLimit of the survivors, the smaller id first of equals.
Ranked(cands, vectors, profiled, rows) ==
  LET vhits    == VectorHits(cands, vectors, profiled)
      fhits    == FtsHits(cands, rows)
      kept     == Survivors(cands, vectors, profiled, rows)
      score(t) == Score(t, vhits, fhits, vectors, rows)
      ahead(u, t) == \/ Higher(score(u), score(t))
                     \/ ~Higher(score(t), score(u)) /\ u < t
  IN  {t \in kept : Cardinality({u \in kept : ahead(u, t)}) < RankLimit}

\* What a match records of how it was found.
MatchedBy(t, cands, vectors, profiled, rows) ==
  LET v == t \in VectorHits(cands, vectors, profiled)
      f == t \in FtsHits(cands, rows)
  IN  CASE v /\ f -> "both" [] v /\ ~f -> "semantic" [] OTHER -> "keyword"
=============================================================================
