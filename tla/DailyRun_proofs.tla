--------------------------- MODULE DailyRun_proofs ---------------------------
(***************************************************************************)
(* What the daily pipeline delivers, for any tenders, texts and limits,    *)
(* while the crawler writes between any two steps.                         *)
(***************************************************************************)
EXTENDS DailyRun, FiniteSetTheorems, TLAPS

-----------------------------------------------------------------------------
(* Numbers and finite sets. *)

LEMMA LeastExists ==
  ASSUME NEW T \in SUBSET Nat, T # {}
  PROVE  \E n \in T : \A m \in T : n <= m
<1> DEFINE R == {pair \in Nat \X Nat : pair[1] < pair[2]}
<1>1. R = OpToRel(<, Nat)
  BY DEF OpToRel
<1>2. IsWellFoundedOn(R, Nat)
  BY <1>1, NatLessThanWellFounded
<1>3. PICK n \in T : \A m \in T : <<m, n>> \notin R
  <2> HIDE DEF R
  <2> QED BY <1>2, WFMin
<1>4. \A m \in Nat : m < n => <<m, n>> \in R
  BY <1>3
<1> HIDE DEF R
<1>5. \A m \in T : ~(m < n)
  BY <1>3, <1>4
<1> QED
  BY <1>3, <1>5

\* A bounded set of numbers has a maximum: its least upper bound.
LEMMA MaxExists ==
  ASSUME NEW S \in SUBSET Nat, S # {}, NEW b \in Nat, \A s \in S : s <= b
  PROVE  Max(S) \in S /\ \A s \in S : Max(S) >= s
<1> DEFINE Bounds == {n \in Nat : \A s \in S : s <= n}
<1>1. PICK n \in Bounds : \A m \in Bounds : n <= m
  <2>1. Bounds # {} /\ Bounds \in SUBSET Nat
    OBVIOUS
  <2> HIDE DEF Bounds
  <2> QED BY <2>1, LeastExists
<1>2. n \in S
  <2> SUFFICES ASSUME n \notin S PROVE FALSE
    OBVIOUS
  <2>1. n \in Nat /\ \A s \in S : s < n
    OBVIOUS
  <2>2. PICK s \in S : TRUE
    OBVIOUS
  <2>3. n # 0 /\ n - 1 \in Nat
    BY <2>1, <2>2
  <2>4. \A r \in S : r <= n - 1
    <3> HIDE DEF Bounds
    <3> QED BY <2>1
  <2>5. n <= n - 1
    BY <2>3, <2>4, <1>1
  <2> QED BY <2>1, <2>5
<1>3. \A s \in S : n >= s
  OBVIOUS
<1>4. \E x \in S : \A y \in S : x >= y
  BY <1>2, <1>3
<1> QED
  BY <1>4 DEF Max

LEMMA LesserOfTwo ==
  ASSUME NEW a \in Nat, NEW b \in Nat
  PROVE  Min({a, b}) = IF a <= b THEN a ELSE b
<1>1. \E x \in {a, b} : \A y \in {a, b} : x =< y
  OBVIOUS
<1>2. /\ Min({a, b}) \in {a, b}
      /\ \A y \in {a, b} : Min({a, b}) =< y
  BY <1>1 DEF Min
<1> QED
  BY <1>2

\* What leaves an element out is smaller.
LEMMA Fewer ==
  ASSUME NEW S, IsFiniteSet(S), NEW t \in S, NEW T \in SUBSET (S \ {t})
  PROVE  Cardinality(T) \in Nat /\ Cardinality(T) < Cardinality(S)
<1>1. /\ IsFiniteSet(S \ {t}) /\ Cardinality(S \ {t}) = Cardinality(S) - 1
      /\ Cardinality(S) \in Nat
  BY FS_RemoveElement, FS_CardinalityType
<1>2. /\ IsFiniteSet(T) /\ Cardinality(T) <= Cardinality(S \ {t})
  BY <1>1, FS_Subset
<1>3. Cardinality(T) \in Nat
  BY <1>2, FS_CardinalityType
<1> QED
  BY <1>1, <1>2, <1>3

LEMMA Smaller ==
  ASSUME NEW S, IsFiniteSet(S), NEW T \in SUBSET S
  PROVE  /\ IsFiniteSet(T) /\ Cardinality(T) \in Nat /\ Cardinality(S) \in Nat
         /\ Cardinality(T) <= Cardinality(S)
BY FS_Subset, FS_CardinalityType

-----------------------------------------------------------------------------
(* The rules of matching. *)

LEMMA TendersFinite ==
  ASSUME NEW S \in SUBSET Tenders
  PROVE  S \in SUBSET Nat /\ IsFiniteSet(S) /\ Cardinality(S) \in Nat
BY RulesAssumption, FS_Subset, FS_CardinalityType DEF RulesAssumption

\* A limit that is not reached drops nothing.
LEMMA NewestIsAll ==
  ASSUME NEW S \in SUBSET Tenders, NEW n \in Nat, Cardinality(S) <= n
  PROVE  Newest(S, n) = S
<1>1. S \in SUBSET Nat /\ IsFiniteSet(S) /\ Cardinality(S) \in Nat
  BY TendersFinite
<1>2. ASSUME NEW t \in S PROVE Cardinality({u \in S : t < u}) < n
  <2>1. {u \in S : t < u} \in SUBSET (S \ {t})
    BY <1>1
  <2>2. /\ Cardinality({u \in S : t < u}) \in Nat
        /\ Cardinality({u \in S : t < u}) < Cardinality(S)
    BY <1>1, <2>1, Fewer
  <2> QED BY <1>1, <2>2
<1> QED
  BY <1>2 DEF Newest

\* Of what is not empty one element has no newer one.
LEMMA LastExists ==
  ASSUME NEW S \in SUBSET Tenders, S # {}
  PROVE  \E t \in S : {u \in S : t < u} = {}
<1> DEFINE newer(t) == {u \in S : t < u}
           counts   == {Cardinality(newer(t)) : t \in S}
<1>1. S \in SUBSET Nat /\ IsFiniteSet(S)
  BY TendersFinite
<1>2. ASSUME NEW t \in S PROVE IsFiniteSet(newer(t)) /\ Cardinality(newer(t)) \in Nat
  <2>1. newer(t) \in SUBSET S
    OBVIOUS
  <2> QED BY <1>1, <2>1, Smaller
<1>3. counts \in SUBSET Nat /\ counts # {}
  BY <1>2
<1>4. PICK n \in counts : \A m \in counts : n <= m
  <2> HIDE DEF counts
  <2> QED BY <1>3, LeastExists
<1>5. PICK t \in S : n = Cardinality(newer(t))
  BY <1>4
<1>6. SUFFICES ASSUME NEW u \in newer(t) PROVE FALSE
  BY <1>5
<1>7. u \in S /\ u \in newer(t) /\ newer(u) \in SUBSET (newer(t) \ {u})
  <2>1. u \in Nat /\ t \in Nat /\ t < u /\ u \in S
    BY <1>1
  <2>2. \A v \in newer(u) : v \in S /\ v \in Nat /\ u < v
    BY <1>1
  <2>3. \A v \in newer(u) : v \in newer(t) /\ v # u
    BY <2>1, <2>2
  <2> HIDE DEF newer
  <2> QED BY <2>1, <2>3
<1>8. Cardinality(newer(u)) \in Nat /\ Cardinality(newer(u)) < Cardinality(newer(t))
  <2> HIDE DEF newer
  <2> QED BY <1>2, <1>5, <1>7, Fewer
<1>9. Cardinality(newer(u)) \in counts
  BY <1>7
<1> HIDE DEF newer, counts
<1> QED
  BY <1>2, <1>4, <1>5, <1>8, <1>9

\* What does not fill its limit drops nothing.
LEMMA NewestBelowLimit ==
  ASSUME NEW S \in SUBSET Tenders, NEW n \in Nat, Cardinality(Newest(S, n)) < n
  PROVE  Newest(S, n) = S
<1> DEFINE best == Newest(S, n)
<1>1. best \in SUBSET S /\ S \in SUBSET Nat /\ IsFiniteSet(S)
  BY TendersFinite DEF Newest
<1>2. SUFFICES ASSUME S \ best # {} PROVE FALSE
  BY <1>1
<1>3. PICK t \in S \ best : {u \in S \ best : t < u} = {}
  <2>1. S \ best \in SUBSET Tenders
    OBVIOUS
  <2> HIDE DEF best
  <2> QED BY <1>2, <2>1, LastExists
<1>4. {u \in S : t < u} \in SUBSET best
  BY <1>3
<1>5. /\ Cardinality({u \in S : t < u}) \in Nat /\ Cardinality(best) \in Nat
      /\ Cardinality({u \in S : t < u}) <= Cardinality(best)
  <2>1. IsFiniteSet(best)
    BY <1>1, FS_Subset
  <2> HIDE DEF best
  <2> QED BY <1>4, <2>1, Smaller
<1>6. Cardinality({u \in S : t < u}) < n
  BY <1>5
<1> QED
  BY <1>3, <1>6 DEF Newest

LEMMA PositionBelow ==
  ASSUME NEW S \in SUBSET Tenders, NEW measure \in [S -> Int], NEW t \in S
  PROVE  Position(S, measure, t) \in Nat /\ Position(S, measure, t) < Cardinality(S)
<1>1. S \in SUBSET Nat /\ IsFiniteSet(S)
  BY TendersFinite
<1>2. {u \in S : measure[u] > measure[t] \/ (measure[u] = measure[t] /\ u > t)}
        \in SUBSET (S \ {t})
  BY <1>1
<1> QED
  BY <1>1, <1>2, Fewer DEF Position

\* The floor is the least number that is no less than the absolute floor and
\* the relative one of each similarity.
LEMMA FloorBounds ==
  ASSUME NEW sims \in SUBSET (0 .. 100)
  PROVE  /\ SimilarityFloor(sims) \in Nat
         /\ SimilarityFloor(sims) >= 10 * AbsoluteFloor
         /\ \A s \in sims : SimilarityFloor(sims) >= RelativeFloorTenths * s
         /\ \A x \in Nat : /\ x >= 10 * AbsoluteFloor
                           /\ \A s \in sims : x >= RelativeFloorTenths * s
                           => x >= SimilarityFloor(sims)
<1> DEFINE S == {10 * AbsoluteFloor} \cup {RelativeFloorTenths * s : s \in sims}
<1>1. S \in SUBSET Nat /\ S # {} /\ \A s \in S : s <= 600
  BY DEF AbsoluteFloor, RelativeFloorTenths
<1>2. Max(S) \in S /\ \A s \in S : Max(S) >= s
  <2>1. 600 \in Nat
    OBVIOUS
  <2> HIDE DEF S
  <2> QED BY <1>1, <2>1, MaxExists
<1>3. SimilarityFloor(sims) = Max(S)
  BY DEF SimilarityFloor
<1>4. 10 * AbsoluteFloor \in S /\ \A s \in sims : RelativeFloorTenths * s \in S
  OBVIOUS
<1>5. \A x \in Nat : /\ x >= 10 * AbsoluteFloor
                     /\ \A s \in sims : x >= RelativeFloorTenths * s
                     => x >= Max(S)
  <2> SUFFICES ASSUME NEW x \in Nat, x >= 10 * AbsoluteFloor,
                      \A s \in sims : x >= RelativeFloorTenths * s
               PROVE  x >= Max(S)
    OBVIOUS
  <2>1. \A s \in S : x >= s
    OBVIOUS
  <2> HIDE DEF S
  <2> QED BY <2>1, <1>2
<1> HIDE DEF S
<1>6. SimilarityFloor(sims) \in Nat /\ SimilarityFloor(sims) >= 10 * AbsoluteFloor
  <2>1. Max(S) \in Nat
    BY <1>1, <1>2
  <2>2. 10 * AbsoluteFloor \in S
    BY <1>4
  <2>3. Max(S) >= 10 * AbsoluteFloor
    BY <1>2, <2>2
  <2> HIDE DEF SimilarityFloor
  <2> QED BY <1>3, <2>1, <2>3
<1>7. \A s \in sims : SimilarityFloor(sims) >= RelativeFloorTenths * s
  BY <1>2, <1>3, <1>4
<1>8. \A x \in Nat : /\ x >= 10 * AbsoluteFloor
                     /\ \A s \in sims : x >= RelativeFloorTenths * s
                     => x >= SimilarityFloor(sims)
  <2> HIDE DEF SimilarityFloor
  <2> QED BY <1>3, <1>5, Zenon
<1> QED
  BY <1>6, <1>7, <1>8, Zenon

\* The floor of fewer candidates is not higher.
LEMMA FloorMonotone ==
  ASSUME NEW more \in SUBSET (0 .. 100), NEW less \in SUBSET more
  PROVE  /\ SimilarityFloor(less) \in Nat /\ SimilarityFloor(more) \in Nat
         /\ SimilarityFloor(less) <= SimilarityFloor(more)
<1>1. /\ SimilarityFloor(more) \in Nat
      /\ SimilarityFloor(more) >= 10 * AbsoluteFloor
      /\ \A s \in less : SimilarityFloor(more) >= RelativeFloorTenths * s
  BY FloorBounds
<1>2. /\ SimilarityFloor(less) \in Nat
      /\ SimilarityFloor(more) >= SimilarityFloor(less)
  BY <1>1, FloorBounds
<1> QED
  BY <1>1, <1>2

\* Scores are fractions of natural numbers, and none is above itself.
LEMMA PlusType ==
  ASSUME NEW a \in Nat \X Nat, NEW b \in Nat \X Nat
  PROVE  Plus(a, b) \in Nat \X Nat
<1>1. a[1] \in Nat /\ a[2] \in Nat /\ b[1] \in Nat /\ b[2] \in Nat
  OBVIOUS
<1>2. \A x, y \in Nat : x * y \in Nat
  OBVIOUS
<1>3. a[1] * b[2] \in Nat /\ b[1] * a[2] \in Nat /\ a[2] * b[2] \in Nat
  BY <1>1, <1>2
<1> QED
  BY <1>3 DEF Plus

LEMMA NotAboveItself ==
  ASSUME NEW a \in Nat \X Nat
  PROVE  ~Higher(a, a)
<1>1. a[1] \in Nat /\ a[2] \in Nat
  OBVIOUS
<1>2. \A x, y \in Nat : x * y \in Nat
  OBVIOUS
<1>3. a[1] * a[2] \in Nat
  BY <1>1, <1>2
<1> DEFINE product == a[1] * a[2]
<1>4. ~(product > product)
  <2>1. product \in Nat
    BY <1>3
  <2> HIDE DEF product
  <2> QED BY <2>1
<1> QED
  BY <1>4 DEF Higher

-----------------------------------------------------------------------------
(***************************************************************************)
(* The types, and what a batch and a selection are made of.                *)
(***************************************************************************)
TypesInv ==
  /\ DailyTypeOK
  /\ total \in Nat
  /\ batch \in [DOMAIN batch -> Texts \cup {None}]
  /\ \A t \in DOMAIN batch : vectors[t] = None
  /\ \A t \in cands : rows[t].stage # "absent"
  /\ aborted \in BOOLEAN /\ profiled \in BOOLEAN

(***************************************************************************)
(* The inductive invariant of a run in which nothing has failed, as long   *)
(* as something is owed.  What is owed is among the unsent matches, or     *)
(* worth it among its rivals: the pool until the selection, from then on   *)
(* what was selected.  Once the embedding has ended, what no term finds    *)
(* has its vector; while a batch that is not full is embedded, it has one  *)
(* or is in the batch.                                                     *)
(***************************************************************************)
Owed(rivals) ==
  \A t \in due : \/ t \in Unsent
                 \/ /\ t \in rivals \ Matched
                    /\ rows[t].stage = "open" /\ Worth(t, rivals)

Embedded == \A t \in due : t \in Matched \/ ByTerm(t) \/ vectors[t] # None

DeliveryInv ==
  CASE pc = "embed"     -> Owed(Pool)
    [] pc = "embedding" -> /\ Owed(Pool)
                           /\ \A t \in due \cap DOMAIN batch : batch[t] = rows[t].text
                           /\ Cardinality(DOMAIN batch) < Room =>
                                \A t \in due : vectors[t] # None \/ t \in DOMAIN batch
    [] pc = "match"     -> Owed(Pool) /\ Embedded
    [] pc = "ranking"   -> Owed(cands) /\ Embedded
    [] pc = "digest"    -> due \subseteq Unsent
    [] pc = "report"    -> due \subseteq mailed
    [] OTHER            -> FALSE

\* Something is owed only in a run, and a transaction is aborted only by a
\* failure.
RunInv ==
  /\ aborted => struck # {}
  /\ pc = "idle" => due = {}
  /\ due # {} /\ struck = {} => DeliveryInv

-----------------------------------------------------------------------------
(* The types. *)

LEMMA StagesType ==
  ASSUME pc \in Underway
  PROVE  StageOf \in Stages /\ After(StageOf) \in {"match", "digest", "report"}
BY DEF Underway, StageOf, Stages, After

LEMMA MatchRowIsOne ==
  ASSUME NEW t
  PROVE  MatchRow(t) # NoMatch
<1>1. MatchRow(t).by \in {"both", "semantic", "keyword"}
  BY DEF MatchRow, MatchedBy
<1>2. NoMatch.by = "none"
  BY DEF NoMatch
<1> QED
  BY <1>1, <1>2

LEMMA InitTypes == Init => TypesInv
<1> SUFFICES ASSUME Init PROVE TypesInv
  OBVIOUS
<1> USE DailyAssumption DEF DailyAssumption, Init
<1>1. rows \in [Tenders -> Row]
  BY DEF Row
<1>2. vectors \in [Tenders -> Texts \cup {None}]
  OBVIOUS
<1>3. DOMAIN batch = {} /\ batch \in [DOMAIN batch -> Texts \cup {None}]
  BY DEF Nothing
<1>4. profiled \in BOOLEAN /\ aborted \in BOOLEAN
  OBVIOUS
<1>5. /\ \A t \in Tenders : rows[t].stage = "absent" => matches[t] = NoMatch
      /\ mailed \subseteq Matched
      /\ upsets \in 0 .. MaxUpsets /\ total \in Nat
  OBVIOUS
<1>6. /\ pc \in Underway \cup {"idle", "report"}
      /\ DOMAIN batch \subseteq Tenders /\ (batch # Nothing => pc = "embedding")
      /\ cands \subseteq Tenders /\ (cands # {} => pc = "ranking")
      /\ struck \cup failed \subseteq Stages /\ due \subseteq Tenders
      /\ \A t \in cands : rows[t].stage # "absent"
  BY <1>3
<1> QED
  BY <1>1, <1>2, <1>3, <1>4, <1>5, <1>6 DEF TypesInv, DailyTypeOK

\* What the crawler's steps change, and what they leave alone.
LEMMA CrawlChanges ==
  ASSUME TypesInv, NEW t \in Tenders, Change(t)
  PROVE  /\ UNCHANGED <<vectors, profiled, matches, mailed, pc, batch, total, cands,
                        aborted, failed, struck>>
         /\ rows' \in [Tenders -> Row]
         /\ \A u \in Tenders \ {t} : rows'[u] = rows[u]
         /\ \A u \in Tenders : rows'[u].stage = "absent" => rows[u].stage = "absent"
         /\ due' = OwedBeside(t)
         /\ upsets' \in 0 .. MaxUpsets
<1> USE DEF TypesInv, DailyTypeOK
<1>1. /\ UNCHANGED <<vectors, profiled, matches, mailed, pc, batch, total, cands,
                     aborted, failed, struck>>
      /\ due' = OwedBeside(t)
      /\ upsets' \in 0 .. MaxUpsets
  BY DailyAssumption DEF Change, Publish, Locate, Reword, Reschedule, Age, Upset, work, outcome, DailyAssumption
<1>2. CASE Publish(t)
  <2>1. PICK stage \in {"far", "open", "near"}, text \in Said[t] : rows' =
           [rows EXCEPT ![t] = [stage |-> stage, place |-> None, text |-> text]]
    BY <1>2 DEF Publish
  <2>2. text \in Texts \cup {None}
    BY <2>1, DailyAssumption DEF DailyAssumption
  <2>3. [stage |-> stage, place |-> None, text |-> text] \in Row
    BY <2>2 DEF Row
  <2> QED BY <1>1, <2>1, <2>3
<1>3. CASE Locate(t)
  <2>1. PICK place \in Places : rows' = [rows EXCEPT ![t].place = place]
    BY <1>3 DEF Locate
  <2> QED BY <1>1, <2>1 DEF Row
<1>4. CASE Reword(t)
  <2>1. PICK text \in Said[t] : rows' = [rows EXCEPT ![t].text = text]
    BY <1>4 DEF Reword
  <2>2. text \in Texts \cup {None}
    BY <2>1, DailyAssumption DEF DailyAssumption
  <2> QED BY <1>1, <2>1, <2>2 DEF Row
<1>5. CASE Age(t)
  <2>1. rows[t].stage \in {"far", "open", "near"}
    <3>1. DOMAIN Later = {"far", "open", "near"}
      BY DEF Later
    <3> QED BY <1>5, <3>1 DEF Age
  <2>2. Later[rows[t].stage] \in {"open", "near", "over"}
    BY <2>1 DEF Later
  <2>3. PICK stage \in {"open", "near", "over"} : rows' = [rows EXCEPT ![t].stage = stage]
    BY <1>5, <2>2 DEF Age
  <2> QED BY <1>1, <2>1, <2>3 DEF Row
<1>6. CASE Reschedule(t)
  <2>1. PICK stage \in {"far", "open", "near"} : rows' = [rows EXCEPT ![t].stage = stage]
    BY <1>6 DEF Reschedule
  <2> QED BY <1>1, <1>6, <2>1 DEF Row, Reschedule
<1> QED
  BY <1>2, <1>3, <1>4, <1>5, <1>6 DEF Change

LEMMA CrawlTypes ==
  ASSUME TypesInv, Crawl
  PROVE  TypesInv'
<1> USE DEF TypesInv, DailyTypeOK
<1>1. PICK t \in Tenders : Change(t)
  BY DEF Crawl
<1>2. /\ UNCHANGED <<vectors, profiled, matches, mailed, pc, batch, total, cands,
                     aborted, failed, struck>>
      /\ rows' \in [Tenders -> Row]
      /\ \A u \in Tenders : rows'[u].stage = "absent" => rows[u].stage = "absent"
      /\ upsets' \in 0 .. MaxUpsets
  BY <1>1, CrawlChanges
<1>3. due' \subseteq Tenders
  BY <1>1, CrawlChanges DEF OwedBeside
<1>4. Matched' = Matched
  BY <1>2 DEF Matched
<1>5. /\ \A u \in Tenders : rows'[u].stage = "absent" => matches'[u] = NoMatch
      /\ \A u \in cands' : rows'[u].stage # "absent"
  BY <1>2
<1> QED
  BY <1>2, <1>3, <1>4, <1>5

LEMMA ExitTypes ==
  ASSUME TypesInv, Exit, UNCHANGED tables, upsets' \in 0 .. MaxUpsets
  PROVE  TypesInv'
<1>1. Matched' = Matched
  BY DEF Matched, tables
<1>2. DOMAIN batch' = {} /\ batch' \in [DOMAIN batch' -> Texts \cup {None}]
  BY DEF Exit, Nothing
<1> QED
  BY <1>1, <1>2 DEF TypesInv, DailyTypeOK, Exit, tables

LEMMA StepTypes ==
  ASSUME TypesInv, [Next]_dailyVars
  PROVE  TypesInv'
<1> USE DEF TypesInv, DailyTypeOK
<1>0. DOMAIN Nothing = {} /\ Nothing \in [{} -> Texts \cup {None}]
  BY DEF Nothing
<1>1. CASE Crawl
  BY <1>1, CrawlTypes
<1>2. CASE Start
  <2>1. due' \subseteq Tenders
    BY <1>2 DEF Start, Pool, Unsent, Matched
  <2> QED BY <1>2, <2>1 DEF Start, tables, work, outcome, Matched, Underway
<1>3. CASE EmbedSelect
  <2> DEFINE next == Newest(Backlog, Room)
  <2>1. next \subseteq Tenders /\ \A t \in next : vectors[t] = None
    BY DEF Newest, Backlog
  <2>2. IF next = {} THEN pc' = "match" /\ UNCHANGED batch
        ELSE pc' = "embedding" /\ batch' = [t \in next |-> rows[t].text]
    BY <1>3 DEF EmbedSelect
  <2>3. pc = "embed" /\ UNCHANGED <<rows, vectors, profiled, matches, mailed, total, cands,
                                   aborted, failed, struck, upsets>>
    BY <1>3 DEF EmbedSelect, tables, outcome
  <2> HIDE DEF next
  <2>4. /\ pc' \in {"match", "embedding"} /\ DOMAIN batch' \subseteq Tenders
        /\ batch' # Nothing => pc' = "embedding"
        /\ batch' \in [DOMAIN batch' -> Texts \cup {None}]
        /\ \A t \in DOMAIN batch' : vectors'[t] = None
    BY <2>1, <2>2, <2>3 DEF Row
  <2>5. due' \subseteq Tenders
    BY <1>3 DEF EmbedSelect, OwedWhenEmbedded
  <2> QED BY <2>3, <2>4, <2>5 DEF Matched, Underway
<1>4. CASE EmbedStore
  <2> DEFINE stored == {t \in DOMAIN batch : batch[t] # None}
  <2>1. /\ vectors' = [t \in Tenders |-> IF t \in stored THEN batch[t] ELSE vectors[t]]
        /\ total' = total + Cardinality(stored)
        /\ pc' \in {"match", "embed"}
        /\ batch' = Nothing
    BY <1>4 DEF EmbedStore
  <2>2. stored \in SUBSET Tenders /\ \A t \in stored : batch[t] \in Texts \cup {None}
    OBVIOUS
  <2> HIDE DEF stored
  <2>3. Cardinality(stored) \in Nat
    BY <2>2, TendersFinite
  <2>4. vectors' \in [Tenders -> Texts \cup {None}]
    BY <2>1, <2>2
  <2>5. total' \in Nat
    BY <2>1, <2>3
  <2>6. due' \subseteq Tenders
    BY <1>4 DEF EmbedStore, OwedWhenEmbedded
  <2> QED BY <1>0, <1>4, <2>1, <2>4, <2>5, <2>6 DEF EmbedStore, outcome, Matched, Underway
<1>5. CASE MatchSelect
  <2> DEFINE chosen == Candidates(rows, Matched)
  <2>1. chosen \subseteq Tenders /\ \A t \in chosen : rows[t].stage # "absent"
    BY DEF Candidates, Newest, Passes
  <2>2. /\ pc = "match" /\ cands' = chosen
        /\ pc' = IF chosen = {} THEN "digest" ELSE "ranking"
    BY <1>5 DEF MatchSelect
  <2>3. due' \subseteq Tenders
    BY <1>5 DEF MatchSelect, OwedWithin
  <2> HIDE DEF chosen
  <2> QED BY <1>5, <2>1, <2>2, <2>3 DEF MatchSelect, tables, outcome, Matched, Underway
<1>6. CASE MatchStore
  <2> DEFINE best == Ranked(cands, vectors, profiled, rows)
  <2>1. best \subseteq cands
    BY DEF Ranked, Survivors
  <2>2. /\ matches' = [t \in Tenders |-> IF t \in best THEN MatchRow(t) ELSE matches[t]]
        /\ pc = "ranking" /\ pc' = "digest" /\ cands' = {}
        /\ UNCHANGED <<rows, vectors, profiled, mailed, batch, total, aborted, failed, struck,
                       upsets>>
    BY <1>6 DEF MatchStore, outcome
  <2>3. due' \subseteq Tenders
    BY <1>6 DEF MatchStore, OwedWithin
  <2> HIDE DEF best
  <2>4. \A t \in Tenders : rows[t].stage = "absent" => matches'[t] = NoMatch
    BY <2>1, <2>2
  <2>5. Matched \subseteq Matched'
    BY <2>2, MatchRowIsOne DEF Matched
  <2> QED BY <2>2, <2>3, <2>4, <2>5 DEF Underway
<1>7. CASE Digest
  <2>1. mailed' \subseteq Matched
    BY <1>7 DEF Digest, Unsent
  <2>2. due' \subseteq Tenders
    BY <1>7 DEF Digest, OwedWithin
  <2> QED BY <1>7, <2>1, <2>2 DEF Digest, work, outcome, Matched, Underway
<1>8. CASE Report
  BY <1>8, ExitTypes DEF Report
<1>9. CASE FailAborted
  <2>1. StageOf \in Stages /\ After(StageOf) \in {"match", "digest", "report"}
    BY <1>9, StagesType DEF FailAborted
  <2> QED BY <1>0, <1>9, <2>1 DEF FailAborted, Drop, tables, Matched, Underway
<1>10. CASE \E inDatabase \in BOOLEAN : Fail(inDatabase)
  <2>1. PICK inDatabase \in BOOLEAN : Fail(inDatabase)
    BY <1>10
  <2>2. StageOf \in Stages /\ After(StageOf) \in {"match", "digest", "report"}
    BY <2>1, StagesType DEF Fail
  <2>3. upsets' \in 0 .. MaxUpsets
    BY <2>1, DailyAssumption DEF Fail, Upset, DailyAssumption
  <2> QED BY <1>0, <2>1, <2>2, <2>3 DEF Fail, Drop, tables, Matched, Underway
<1>11. CASE MailRefused
  <2>1. upsets' \in 0 .. MaxUpsets
    BY <1>11, DailyAssumption DEF MailRefused, Upset, DailyAssumption
  <2> QED BY <1>11, <2>1 DEF MailRefused, tables, work, Matched, Underway, Stages
<1>12. CASE Killed
  BY <1>12, ExitTypes, DailyAssumption DEF Killed, Upset, DailyAssumption
<1>13. CASE UNCHANGED dailyVars
  BY <1>13 DEF dailyVars, tables, work, outcome, Matched
<1> QED
  BY <1>1, <1>2, <1>3, <1>4, <1>5, <1>6, <1>7, <1>8, <1>9, <1>10, <1>11, <1>12,
     <1>13 DEF Next, Step

LEMMA AlwaysTypes == Spec => []TypesInv
<1>1. Init => TypesInv
  BY InitTypes
<1>2. TypesInv /\ [Next]_dailyVars => TypesInv'
  BY StepTypes
<1> QED
  BY <1>1, <1>2, PTL DEF Spec

\* Every state of the pipeline is typed, with a batch in the embedding step
\* only, a selection in the ranking step only, and only matches mailed.
THEOREM DailyTypeCorrect == Spec => []DailyTypeOK
<1>1. TypesInv => DailyTypeOK
  BY DEF TypesInv
<1> QED
  BY <1>1, AlwaysTypes, PTL

-----------------------------------------------------------------------------
(* Delivery on the same day. *)

LEMMA PoolTypes ==
  /\ Pool \in SUBSET Tenders /\ Unsent \in SUBSET Tenders /\ Backlog \in SUBSET Tenders
  /\ Pool \cap Matched = {} /\ Unsent \subseteq Matched
  /\ \A t \in Pool : rows[t].stage = "open"
BY DEF Pool, Passes, Unsent, Matched, Backlog

LEMMA RoomType == TypesInv => Room \in Nat
<1> SUFFICES ASSUME TypesInv, total < EmbedLimit
             PROVE  Min({BatchSize, EmbedLimit - total}) \in Nat
  BY DEF Room
<1>1. BatchSize \in Nat /\ EmbedLimit - total \in Nat
  BY DailyAssumption DEF DailyAssumption, TypesInv
<1> QED
  BY <1>1, LesserOfTwo

\* A change of vectors or batch that keeps the rivals' vectors fresh leaves
\* what is owed where it was.
LEMMA OwedKept ==
  ASSUME NEW P, Owed(P), rows' = rows, profiled' = profiled, matches' = matches,
         mailed' = mailed, due' \subseteq due, \A u \in P : Fresh(u) => Fresh(u)'
  PROVE  Owed(P)'
<1>1. Matched' = Matched /\ Unsent' = Unsent
  BY DEF Matched, Unsent
<1>2. ASSUME NEW t, Worth(t, P) PROVE Worth(t, P)'
  BY <1>2 DEF Worth, ByTerm, ByMeaning
<1> QED
  BY <1>1, <1>2 DEF Owed

LEMMA OwedOfPoolKept ==
  ASSUME Owed(Pool), rows' = rows, profiled' = profiled, matches' = matches,
         mailed' = mailed, due' \subseteq due, \A u \in Tenders : Fresh(u) => Fresh(u)'
  PROVE  Owed(Pool)'
<1>1. PICK P : P = Pool
  OBVIOUS
<1>2. Owed(P)
  BY <1>1 DEF Owed, Worth, ByMeaning
<1>3. Owed(P)'
  BY <1>1, <1>2, OwedKept, PoolTypes
<1>4. P = Pool'
  BY <1>1 DEF Pool, Matched
<1> QED
  BY <1>3, <1>4 DEF Owed, Worth, ByMeaning

\* What is still owed after a step of the crawler is owed as it was.
LEMMA CrawlDelivers ==
  ASSUME TypesInv, NEW t \in Tenders, Change(t),
         DeliveryInv
  PROVE  DeliveryInv'
<1> USE DEF TypesInv, DailyTypeOK
<1>1. /\ UNCHANGED <<vectors, profiled, matches, mailed, pc, batch, total, cands,
                     aborted, failed, struck>>
      /\ \A u \in Tenders \ {t} : rows'[u] = rows[u]
      /\ due' = OwedBeside(t)
  BY CrawlChanges
<1>2. Matched' = Matched /\ Room' = Room
  BY <1>1 DEF Matched, Room
<1>3. ASSUME NEW u \in due'
      PROVE  /\ u \in due /\ u \in Tenders /\ rows'[u] = rows[u]
             /\ u \in Unsent => u \in Unsent'
             /\ u \in Pool => u \in Pool'
             /\ u \in Matched' \/ Worth(u, Rivals)'
  <2>1. u \in due \ {t} /\ (u \in Matched' \/ Worth(u, Rivals)')
    BY <1>1 DEF OwedBeside
  <2>2. u \in Tenders /\ rows'[u] = rows[u]
    BY <1>1, <2>1
  <2> QED BY <1>1, <1>2, <2>1, <2>2 DEF Unsent, Pool, Passes
<1>4. ASSUME Embedded PROVE Embedded'
  BY <1>1, <1>2, <1>3, <1>4 DEF Embedded, ByTerm
<1>5. ASSUME Owed(Pool), pc # "ranking" PROVE Owed(Pool)'
  <2>1. Rivals' = Pool'
    BY <1>1, <1>5 DEF Rivals
  <2>2. ASSUME NEW u \in due', u \notin Unsent'
        PROVE  u \in Pool' \ Matched' /\ rows'[u].stage = "open" /\ Worth(u, Pool)'
    <3>1. u \in Pool \ Matched /\ rows[u].stage = "open"
      BY <1>3, <1>5, <2>2 DEF Owed
    <3>2. u \in Pool' \ Matched' /\ rows'[u].stage = "open" /\ Worth(u, Rivals)'
      BY <1>2, <1>3, <3>1
    <3> QED BY <2>1, <3>2 DEF Worth, ByMeaning
  <2> QED BY <2>2 DEF Owed
<1>6. ASSUME Owed(cands), pc = "ranking" PROVE Owed(cands)'
  <2>1. Rivals' = cands'
    BY <1>1, <1>6 DEF Rivals
  <2>2. ASSUME NEW u \in due', u \notin Unsent'
        PROVE  u \in cands' \ Matched' /\ rows'[u].stage = "open" /\ Worth(u, cands)'
    <3>1. u \in cands \ Matched /\ rows[u].stage = "open"
      BY <1>3, <1>6, <2>2 DEF Owed
    <3>2. u \in cands' \ Matched' /\ rows'[u].stage = "open" /\ Worth(u, Rivals)'
      BY <1>1, <1>2, <1>3, <3>1
    <3> QED BY <2>1, <3>2 DEF Worth, ByMeaning
  <2> QED BY <2>2 DEF Owed
<1>7. CASE pc = "embed" \/ pc = "match"
  BY <1>1, <1>4, <1>5, <1>7 DEF DeliveryInv
<1>8. CASE pc = "embedding"
  <2>1. /\ Owed(Pool)
        /\ \A u \in due \cap DOMAIN batch : batch[u] = rows[u].text
        /\ Cardinality(DOMAIN batch) < Room =>
             \A u \in due : vectors[u] # None \/ u \in DOMAIN batch
    BY <1>8 DEF DeliveryInv
  <2>2. \A u \in due' \cap DOMAIN batch' : batch'[u] = rows'[u].text
    BY <1>1, <1>3, <2>1
  <2>3. Cardinality(DOMAIN batch') < Room' =>
          \A u \in due' : vectors'[u] # None \/ u \in DOMAIN batch'
    BY <1>1, <1>2, <1>3, <2>1
  <2>4. Owed(Pool)'
    BY <1>5, <1>8, <2>1
  <2> QED BY <1>1, <1>8, <2>2, <2>3, <2>4 DEF DeliveryInv
<1>9. CASE pc = "ranking"
  BY <1>1, <1>4, <1>6, <1>9 DEF DeliveryInv
<1>10. CASE pc = "digest" \/ pc = "report"
  BY <1>1, <1>3, <1>10 DEF DeliveryInv
<1> QED
  BY <1>7, <1>8, <1>9, <1>10 DEF DeliveryInv

\* A run begins with what it owes before it.
LEMMA StartDelivers ==
  ASSUME TypesInv, Start
  PROVE  DeliveryInv'
<1>1. /\ pc' = "embed" /\ due' = {t \in Pool : Worth(t, Pool)} \cup Unsent
      /\ UNCHANGED <<rows, vectors, profiled, matches, mailed, batch>>
  BY DEF Start, tables, work
<1>2. Pool' = Pool /\ Unsent' = Unsent /\ Matched' = Matched
  BY <1>1 DEF Pool, Unsent, Matched
<1>3. \A t \in Pool : Worth(t, Pool) => Worth(t, Pool)'
  BY <1>1, <1>2 DEF Worth, ByTerm, ByMeaning, Fresh
<1>4. Owed(Pool)'
  BY <1>1, <1>2, <1>3, PoolTypes DEF Owed
<1> QED
  BY <1>1, <1>4 DEF DeliveryInv

\* A batch that is not full has all the backlog.
LEMMA EmbedSelectDelivers ==
  ASSUME TypesInv, EmbedSelect, DeliveryInv
  PROVE  DeliveryInv'
<1> USE DEF TypesInv, DailyTypeOK
<1> DEFINE next == Newest(Backlog, Room)
<1>1. /\ pc = "embed"
      /\ UNCHANGED <<rows, vectors, profiled, matches, mailed, total>>
      /\ IF next = {} THEN pc' = "match" /\ UNCHANGED batch
         ELSE pc' = "embedding" /\ batch' = [t \in next |-> rows[t].text]
      /\ due' = OwedWhenEmbedded(Room = 0 => Backlog = {})
  BY DEF EmbedSelect, tables
<1>2. next \in SUBSET Backlog /\ Backlog \in SUBSET Tenders
  BY PoolTypes DEF Newest
<1>3. Room \in Nat /\ (Cardinality(next) < Room => next = Backlog)
  BY RoomType, NewestBelowLimit, PoolTypes
<1> HIDE DEF next
<1>4. /\ due' \subseteq due /\ Room' = Room /\ Matched' = Matched
      /\ Owed(Pool)
  BY <1>1 DEF OwedWhenEmbedded, Room, Matched, DeliveryInv
<1>5. \A u \in Tenders : Fresh(u) => Fresh(u)'
  <2>1. DOMAIN batch = {}
    BY <1>1 DEF Nothing
  <2> QED BY <1>1, <1>2, <2>1 DEF Fresh
<1>6. Owed(Pool)'
  BY <1>1, <1>4, <1>5, OwedOfPoolKept
<1>7. ASSUME NEW t \in due, vectors[t] = None PROVE t \in Backlog
  <2>1. t \in Tenders /\ (t \in Unsent \/ t \in Pool)
    BY <1>4 DEF Owed
  <2>2. rows[t].stage # "absent"
    BY <2>1, PoolTypes DEF Unsent
  <2> QED BY <1>7, <2>1, <2>2 DEF Backlog
<1>8. CASE next = {}
  <2>1. Embedded'
    <3>1. CASE Room = 0 /\ Backlog # {}
      <4>1. due' = {t \in due : t \in Matched \/ ByTerm(t)}
        BY <1>1, <3>1 DEF OwedWhenEmbedded
      <4> QED BY <1>1, <1>4, <4>1 DEF Embedded, ByTerm
    <3>2. CASE ~(Room = 0 /\ Backlog # {})
      <4>1. Cardinality({}) = 0
        BY FS_EmptySet
      <4>2. Backlog = {}
        BY <1>3, <1>8, <3>2, <4>1
      <4> QED BY <1>1, <1>4, <1>7, <4>2 DEF Embedded
    <3> QED BY <3>1, <3>2
  <2> QED BY <1>1, <1>6, <1>8, <2>1 DEF DeliveryInv
<1>9. CASE next # {}
  <2>1. pc' = "embedding" /\ batch' = [t \in next |-> rows[t].text]
    BY <1>1, <1>9
  <2>2. \A t \in due' \cap DOMAIN batch' : batch'[t] = rows'[t].text
    BY <1>1, <2>1
  <2>3. Cardinality(DOMAIN batch') < Room' =>
          \A t \in due' : vectors'[t] # None \/ t \in DOMAIN batch'
    BY <1>1, <1>3, <1>4, <1>7, <2>1
  <2> QED BY <1>6, <2>1, <2>2, <2>3 DEF DeliveryInv
<1> QED
  BY <1>8, <1>9

\* When the batch ends the stage, what is left without a vector needs none.
LEMMA EmbedStoreDelivers ==
  ASSUME TypesInv, EmbedStore, DeliveryInv
  PROVE  DeliveryInv'
<1> USE DEF TypesInv, DailyTypeOK
<1> DEFINE stored == {t \in DOMAIN batch : batch[t] # None}
<1>1. /\ pc = "embedding" /\ pc' = IF stored = {} THEN "match" ELSE "embed"
      /\ vectors' = [t \in Tenders |-> IF t \in stored THEN batch[t] ELSE vectors[t]]
      /\ UNCHANGED <<rows, profiled, matches, mailed>>
      /\ due' = OwedWhenEmbedded(stored = {} => Cardinality(DOMAIN batch) < Room)
      /\ DOMAIN batch' = {}
  BY DEF EmbedStore, Nothing
<1>2. /\ Owed(Pool)
      /\ \A t \in due \cap DOMAIN batch : batch[t] = rows[t].text
      /\ Cardinality(DOMAIN batch) < Room =>
           \A t \in due : vectors[t] # None \/ t \in DOMAIN batch
  BY <1>1 DEF DeliveryInv
<1>3. due' \subseteq due /\ Matched' = Matched
  BY <1>1 DEF OwedWhenEmbedded, Matched
<1>4. \A u \in Tenders : Fresh(u) => Fresh(u)'
  BY <1>1 DEF Fresh
<1>5. Owed(Pool)'
  BY <1>1, <1>2, <1>3, <1>4, OwedOfPoolKept
<1>6. ASSUME stored = {} PROVE Embedded'
  <2>1. vectors' = vectors
    BY <1>1, <1>6
  <2>2. CASE Cardinality(DOMAIN batch) < Room
    <3>1. ASSUME NEW t \in due, t \notin Matched, vectors[t] = None PROVE FALSE
      <4>1. t \in DOMAIN batch
        BY <1>2, <2>2, <3>1
      <4>2. batch[t] = rows[t].text /\ batch[t] = None
        BY <1>2, <1>6, <4>1
      <4>3. Worth(t, Pool)
        BY <1>2, <3>1, PoolTypes DEF Owed
      <4> QED BY <4>2, <4>3 DEF Worth, ByTerm, ByMeaning
    <3> QED BY <1>3, <2>1, <3>1 DEF Embedded
  <2>3. CASE ~(Cardinality(DOMAIN batch) < Room)
    <3>1. due' = {t \in due : t \in Matched \/ ByTerm(t)}
      BY <1>1, <1>6, <2>3 DEF OwedWhenEmbedded
    <3> QED BY <1>1, <1>3, <3>1 DEF Embedded, ByTerm
  <2> QED BY <2>2, <2>3
<1> HIDE DEF stored
<1> QED
  BY <1>1, <1>5, <1>6 DEF DeliveryInv

\* The selection is the pool, and when nothing is in it what is owed has been
\* matched.
LEMMA MatchSelectDelivers ==
  ASSUME TypesInv, MatchSelect, DeliveryInv, due' # {}
  PROVE  DeliveryInv'
<1> DEFINE chosen == Candidates(rows, Matched)
<1>1. /\ pc = "match" /\ cands' = chosen
      /\ pc' = IF chosen = {} THEN "digest" ELSE "ranking"
      /\ UNCHANGED <<rows, vectors, profiled, matches, mailed, batch>>
      /\ due' = OwedWithin(CandidateLimit, Pool)
  BY DEF MatchSelect, tables
<1>2. Owed(Pool) /\ Embedded
  BY <1>1 DEF DeliveryInv
<1>3. due' = due /\ Cardinality(Pool) <= CandidateLimit
  BY <1>1 DEF OwedWithin
<1>4. chosen = Pool
  <2>1. chosen = Newest(Pool, CandidateLimit)
    BY DEF Candidates, Pool
  <2>2. CandidateLimit \in Nat
    BY RulesAssumption DEF RulesAssumption
  <2> QED BY <1>3, <2>1, <2>2, NewestIsAll, PoolTypes
<1> HIDE DEF chosen
<1>5. Matched' = Matched /\ Unsent' = Unsent
  BY <1>1 DEF Unsent, Matched
<1>6. CASE chosen = {}
  <2>1. due \subseteq Unsent
    BY <1>2, <1>4, <1>6 DEF Owed
  <2> QED BY <1>1, <1>3, <1>5, <1>6, <2>1 DEF DeliveryInv
<1>7. CASE chosen # {}
  <2>1. pc' = "ranking" /\ cands' = Pool
    BY <1>1, <1>4, <1>7
  <2>2. Embedded'
    BY <1>1, <1>2, <1>3, <1>5 DEF Embedded, ByTerm
  <2>3. ASSUME NEW t, Worth(t, Pool) PROVE Worth(t, cands)'
    BY <1>1, <2>1, <2>3 DEF Worth, ByTerm, ByMeaning, Fresh
  <2>4. Owed(cands)'
    BY <1>1, <1>2, <1>3, <1>5, <2>1, <2>3 DEF Owed
  <2> QED BY <2>1, <2>2, <2>4 DEF DeliveryInv
<1> QED
  BY <1>6, <1>7

\* The similarities of the texts of a pool.
SimsOf(P) == {Similarity[text] : text \in {rows[u].text : u \in P} \ {None}}

LEMMA SimsType ==
  ASSUME TypesInv, NEW P \in SUBSET Tenders
  PROVE  SimsOf(P) \in SUBSET (0 .. 100)
<1>1. \A u \in P : rows[u].text \in Texts \cup {None}
  BY DEF TypesInv, DailyTypeOK, Row
<1>2. \A text \in Texts : Similarity[text] \in 0 .. 100
  BY RulesAssumption DEF RulesAssumption
<1> QED
  BY <1>1, <1>2 DEF SimsOf

\* What a term finds is within the limit of its retriever.
LEMMA TermFound ==
  ASSUME TypesInv, Cardinality(cands) <= HitLimit, NEW t \in cands, ByTerm(t)
  PROVE  t \in FtsHits(cands, rows)
<1> USE DEF TypesInv, DailyTypeOK
<1> DEFINE found == {u \in cands : rows[u].text # None /\ Relevance[rows[u].text] > 0}
           rank  == [u \in found |-> Relevance[rows[u].text]]
<1>1. t \in found /\ found \in SUBSET cands /\ found \in SUBSET Tenders
  BY DEF ByTerm
<1>2. rank \in [found -> Int]
  <2>1. \A u \in found : rows[u].text \in Texts
    BY DEF Row
  <2>2. \A u \in found : Relevance[rows[u].text] \in Int
    BY <2>1, RulesAssumption DEF RulesAssumption
  <2> HIDE DEF found
  <2> QED BY <2>2
<1>3. Position(found, rank, t) < HitLimit
  <2> HIDE DEF found, rank
  <2>1. Position(found, rank, t) \in Nat /\ Position(found, rank, t) < Cardinality(found)
    BY <1>1, <1>2, PositionBelow
  <2>2. /\ Cardinality(found) \in Nat /\ Cardinality(cands) \in Nat
        /\ Cardinality(found) <= Cardinality(cands)
    BY <1>1, TendersFinite, Smaller
  <2>3. HitLimit \in Nat
    BY RulesAssumption DEF RulesAssumption
  <2> QED BY <2>1, <2>2, <2>3
<1> QED
  BY <1>1, <1>3 DEF FtsHits

\* What is embedded and above the floor of all rivals is above that of the
\* rivals the vectors find.
LEMMA MeaningFound ==
  ASSUME TypesInv, pc = "ranking", Cardinality(cands) <= HitLimit,
         NEW t \in cands, ByMeaning(t, cands), vectors[t] # None
  PROVE  LET vhits == VectorHits(cands, vectors, profiled)
         IN  /\ t \in vhits
             /\ 10 * Similarity[vectors[t]] >=
                  SimilarityFloor({Similarity[vectors[u]] : u \in vhits})
<1> USE DEF TypesInv, DailyTypeOK
<1> DEFINE known == {u \in cands : profiled /\ vectors[u] # None}
           sim   == [u \in known |-> Similarity[vectors[u]]]
           vhits == VectorHits(cands, vectors, profiled)
           sims  == {Similarity[vectors[u]] : u \in vhits}
<1>1. /\ profiled /\ rows[t].text # None
      /\ \A u \in cands : vectors[u] \in {None, rows[u].text}
      /\ 10 * Similarity[rows[t].text] >= SimilarityFloor(SimsOf(cands))
  <2>1. DOMAIN batch = {}
    BY DEF Nothing
  <2> QED BY <2>1 DEF ByMeaning, Fresh, SimsOf
<1>2. vectors[t] = rows[t].text /\ rows[t].text \in Texts
  BY <1>1 DEF Row
<1>3. t \in known /\ known \in SUBSET cands /\ known \in SUBSET Tenders
  BY <1>1
<1>4. sim \in [known -> Int]
  <2>1. \A u \in known : vectors[u] \in Texts
    OBVIOUS
  <2>2. \A u \in known : Similarity[vectors[u]] \in Int
    BY <2>1, RulesAssumption DEF RulesAssumption
  <2> HIDE DEF known
  <2> QED BY <2>2
<1>5. Position(known, sim, t) < HitLimit
  <2> HIDE DEF known, sim
  <2>1. Position(known, sim, t) \in Nat /\ Position(known, sim, t) < Cardinality(known)
    BY <1>3, <1>4, PositionBelow
  <2>2. /\ Cardinality(known) \in Nat /\ Cardinality(cands) \in Nat
        /\ Cardinality(known) <= Cardinality(cands)
    BY <1>3, TendersFinite, Smaller
  <2>3. HitLimit \in Nat
    BY RulesAssumption DEF RulesAssumption
  <2> QED BY <2>1, <2>2, <2>3
<1>6. t \in vhits
  BY <1>3, <1>5 DEF VectorHits
<1>7. sims \in SUBSET SimsOf(cands)
  <2>1. \A u \in vhits : u \in cands /\ vectors[u] = rows[u].text /\ rows[u].text # None
    BY <1>1 DEF VectorHits
  <2> HIDE DEF vhits
  <2> QED BY <2>1 DEF SimsOf
<1>8. /\ SimilarityFloor(sims) \in Nat /\ SimilarityFloor(SimsOf(cands)) \in Nat
      /\ SimilarityFloor(sims) <= SimilarityFloor(SimsOf(cands))
  <2> HIDE DEF sims
  <2>1. SimsOf(cands) \in SUBSET (0 .. 100)
    BY SimsType
  <2> QED BY <1>7, <2>1, FloorMonotone
<1>9. Similarity[rows[t].text] \in Nat
  BY <1>2, RulesAssumption DEF RulesAssumption
<1>10. 10 * Similarity[vectors[t]] >= SimilarityFloor(sims)
  <2> HIDE DEF sims
  <2> QED BY <1>1, <1>2, <1>8, <1>9
<1> QED
  BY <1>6, <1>10

LEMMA HitsSimilar ==
  ASSUME TypesInv
  PROVE  LET vhits == VectorHits(cands, vectors, profiled)
         IN  /\ vhits \subseteq cands
             /\ \A t \in vhits : vectors[t] \in Texts
             /\ {Similarity[vectors[u]] : u \in vhits} \in SUBSET (0 .. 100)
<1> DEFINE vhits == VectorHits(cands, vectors, profiled)
<1>1. vhits \subseteq cands /\ \A t \in vhits : vectors[t] # None
  BY DEF VectorHits
<1> HIDE DEF vhits
<1>2. \A t \in vhits : vectors[t] \in Texts
  BY <1>1 DEF TypesInv, DailyTypeOK
<1>3. \A t \in vhits : Similarity[vectors[t]] \in 0 .. 100
  BY <1>2, RulesAssumption DEF RulesAssumption
<1>4. {Similarity[vectors[u]] : u \in vhits} \in SUBSET (0 .. 100)
  BY <1>3
<1> QED
  BY <1>1, <1>2, <1>4 DEF vhits

LEMMA ScoreType ==
  ASSUME TypesInv, NEW t
  PROVE  Score(t, VectorHits(cands, vectors, profiled), FtsHits(cands, rows), vectors, rows)
           \in Nat \X Nat
<1> DEFINE vhits == VectorHits(cands, vectors, profiled)
           fhits == FtsHits(cands, rows)
           sim   == [u \in vhits |-> Similarity[vectors[u]]]
           rank  == [u \in fhits |-> Relevance[rows[u].text]]
<1>1. vhits \in SUBSET Tenders /\ sim \in [vhits -> Int]
  <2>1. vhits \in SUBSET Tenders /\ \A u \in vhits : vectors[u] \in Texts
    BY HitsSimilar DEF TypesInv, DailyTypeOK
  <2>2. \A u \in vhits : Similarity[vectors[u]] \in Int
    BY <2>1, RulesAssumption DEF RulesAssumption
  <2> HIDE DEF vhits
  <2> QED BY <2>1, <2>2
<1>2. fhits \in SUBSET Tenders /\ rank \in [fhits -> Int]
  <2>1. fhits \in SUBSET Tenders /\ \A u \in fhits : rows[u].text \in Texts
    BY DEF FtsHits, TypesInv, DailyTypeOK, Row
  <2>2. \A u \in fhits : Relevance[rows[u].text] \in Int
    BY <2>1, RulesAssumption DEF RulesAssumption
  <2> HIDE DEF fhits
  <2> QED BY <2>1, <2>2
<1> HIDE DEF vhits, fhits, sim, rank
<1>3. (IF t \in vhits THEN Position(vhits, sim, t) ELSE 0) \in Nat
  BY <1>1, PositionBelow
<1>4. (IF t \in fhits THEN Position(fhits, rank, t) ELSE 0) \in Nat
  BY <1>2, PositionBelow
<1>5. Reciprocal(t \in vhits, IF t \in vhits THEN Position(vhits, sim, t) ELSE 0) \in Nat \X Nat
  BY <1>3 DEF Reciprocal, RRF_K
<1>6. Reciprocal(t \in fhits, IF t \in fhits THEN Position(fhits, rank, t) ELSE 0) \in Nat \X Nat
  BY <1>4 DEF Reciprocal, RRF_K
<1>7. Plus(Reciprocal(t \in vhits, IF t \in vhits THEN Position(vhits, sim, t) ELSE 0),
           Reciprocal(t \in fhits, IF t \in fhits THEN Position(fhits, rank, t) ELSE 0))
        \in Nat \X Nat
  BY <1>5, <1>6, PlusType
<1> QED
  BY <1>7 DEF Score, vhits, fhits, sim, rank

\* Of no more than the limit, every survivor is among the best.
LEMMA SurvivorRanked ==
  ASSUME TypesInv, NEW t \in Survivors(cands, vectors, profiled, rows),
         Cardinality(Survivors(cands, vectors, profiled, rows)) <= RankLimit
  PROVE  t \in Ranked(cands, vectors, profiled, rows)
<1> DEFINE vhits == VectorHits(cands, vectors, profiled)
           fhits == FtsHits(cands, rows)
           kept  == Survivors(cands, vectors, profiled, rows)
           score(u) == Score(u, vhits, fhits, vectors, rows)
           before == {u \in kept : \/ Higher(score(u), score(t))
                                   \/ ~Higher(score(t), score(u)) /\ u < t}
<1>1. t \in kept /\ kept \in SUBSET Tenders
  BY DEF Survivors, TypesInv, DailyTypeOK
<1>2. ~Higher(score(t), score(t))
  BY ScoreType, NotAboveItself
<1>3. ~(t < t)
  <2>1. t \in Nat
    <3> HIDE DEF kept
    <3> QED BY <1>1, RulesAssumption DEF RulesAssumption
  <2> QED BY <2>1
<1>4. before \in SUBSET (kept \ {t})
  <2>1. ASSUME NEW u \in before PROVE u \in kept /\ u # t
    <3>1. u \in kept /\ (Higher(score(u), score(t)) \/ u < t)
      BY <2>1
    <3>2. u # t
      <4> HIDE DEF score, kept
      <4> QED BY <1>2, <1>3, <3>1
    <3> QED BY <3>1, <3>2
  <2> HIDE DEF before
  <2> QED BY <2>1
<1>5. Cardinality(before) \in Nat /\ Cardinality(before) < Cardinality(kept)
  <2> HIDE DEF before, kept
  <2> QED BY <1>1, <1>4, TendersFinite, Fewer
<1>6. Cardinality(before) < RankLimit
  <2>1. Cardinality(kept) \in Nat /\ RankLimit \in Nat /\ Cardinality(kept) <= RankLimit
    <3>1. RankLimit \in Nat
      BY RulesAssumption DEF RulesAssumption
    <3>2. Cardinality(kept) \in Nat
      <4> HIDE DEF kept
      <4> QED BY <1>1, TendersFinite
    <3> QED BY <3>1, <3>2
  <2> HIDE DEF before, kept
  <2> QED BY <1>5, <2>1
<1> QED
  BY <1>1, <1>6 DEF Ranked

\* What is owed of the selection is matched.
LEMMA MatchStoreDelivers ==
  ASSUME TypesInv, MatchStore, DeliveryInv, due' # {}
  PROVE  DeliveryInv'
<1> USE DEF TypesInv, DailyTypeOK
<1> DEFINE best == Ranked(cands, vectors, profiled, rows)
           kept == Survivors(cands, vectors, profiled, rows)
<1>1. /\ pc = "ranking" /\ pc' = "digest"
      /\ matches' = [t \in Tenders |-> IF t \in best THEN MatchRow(t) ELSE matches[t]]
      /\ UNCHANGED <<rows, mailed>>
      /\ due' = OwedWithin(HitLimit, cands) \cap OwedWithin(RankLimit, kept)
  BY DEF MatchStore
<1>2. Owed(cands) /\ Embedded
  BY <1>1 DEF DeliveryInv
<1>3. due' = due /\ Cardinality(cands) <= HitLimit /\ Cardinality(kept) <= RankLimit
  BY <1>1 DEF OwedWithin
<1>4. ASSUME NEW t \in due, t \notin Unsent
      PROVE  t \in best /\ rows[t].stage = "open" /\ t \notin mailed
  <2>1. t \in cands \ Matched /\ rows[t].stage = "open" /\ Worth(t, cands)
    BY <1>2, <1>4 DEF Owed
  <2>2. t \in kept
    <3>1. CASE ByTerm(t)
      <4>1. t \in FtsHits(cands, rows)
        BY <1>3, <2>1, <3>1, TermFound
      <4> QED BY <2>1, <4>1 DEF Survivors, Survives
    <3>2. CASE ~ByTerm(t)
      <4>1. ByMeaning(t, cands) /\ vectors[t] # None
        BY <1>2, <2>1, <3>2 DEF Worth, Embedded
      <4>2. LET vhits == VectorHits(cands, vectors, profiled)
            IN  /\ t \in vhits
                /\ 10 * Similarity[vectors[t]] >=
                     SimilarityFloor({Similarity[vectors[u]] : u \in vhits})
        BY <1>1, <1>3, <2>1, <4>1, MeaningFound
      <4> QED BY <2>1, <4>2 DEF Survivors, Survives
    <3> QED BY <3>1, <3>2
  <2>3. t \in best
    BY <1>3, <2>2, SurvivorRanked
  <2> QED BY <2>1, <2>3
<1> HIDE DEF best, kept
<1>5. ASSUME NEW t \in due PROVE t \in Unsent'
  <2>1. /\ t \in Tenders /\ t \notin mailed /\ rows[t].stage \in {"far", "open", "near"}
        /\ matches[t] # NoMatch \/ t \in best
    BY <1>4 DEF Unsent, Matched
  <2>2. matches'[t] # NoMatch
    BY <1>1, <2>1, MatchRowIsOne
  <2> QED BY <1>1, <2>1, <2>2 DEF Unsent, Matched
<1> QED
  BY <1>1, <1>3, <1>5 DEF DeliveryInv

\* The digest takes all there is.
LEMMA DigestDelivers ==
  ASSUME TypesInv, Digest, DeliveryInv, due' # {}
  PROVE  DeliveryInv'
<1>1. /\ pc = "digest" /\ pc' = "report" /\ due' = OwedWithin(DigestSize, Unsent)
  BY DEF Digest
<1>2. PICK best \in SUBSET Unsent : /\ Cardinality(best) = Min({DigestSize, Cardinality(Unsent)})
                                    /\ mailed' = mailed \cup best
  BY DEF Digest
<1>3. due \subseteq Unsent /\ due' = due /\ Cardinality(Unsent) <= DigestSize
  BY <1>1 DEF DeliveryInv, OwedWithin
<1>4. Unsent \in SUBSET Tenders /\ IsFiniteSet(Unsent) /\ Cardinality(Unsent) \in Nat
  BY PoolTypes, TendersFinite
<1>5. Min({DigestSize, Cardinality(Unsent)}) = Cardinality(Unsent)
  <2>1. DigestSize \in Nat
    BY DailyAssumption DEF DailyAssumption
  <2> QED BY <1>3, <1>4, <2>1, LesserOfTwo
<1>6. best = Unsent
  BY <1>2, <1>4, <1>5, FS_Subset
<1> QED
  BY <1>1, <1>2, <1>3, <1>6 DEF DeliveryInv

\* A failure strikes the run, an aborted transaction has one behind it, and
\* nothing is owed when the process has ended.
LEMMA RunStep ==
  ASSUME TypesInv, RunInv, [Next]_dailyVars
  PROVE  RunInv'
<1> USE DEF RunInv
<1>1. CASE Crawl
  <2>1. PICK t \in Tenders : Change(t)
    BY <1>1 DEF Crawl
  <2>2. UNCHANGED <<pc, aborted, struck>> /\ due' \subseteq due
    BY <2>1, CrawlChanges DEF OwedBeside
  <2>3. DeliveryInv => DeliveryInv'
    BY <2>1, CrawlDelivers
  <2> QED BY <2>2, <2>3
<1>2. CASE Start
  <2>1. pc' = "embed" /\ UNCHANGED <<aborted, struck>>
    BY <1>2 DEF Start, outcome
  <2> QED BY <1>2, <2>1, StartDelivers
<1>3. CASE EmbedSelect \/ EmbedStore \/ MatchSelect \/ MatchStore \/ Digest
  <2>1. pc' # "idle" /\ UNCHANGED <<aborted, struck>> /\ due' \subseteq due
    BY <1>3 DEF EmbedSelect, EmbedStore, MatchSelect, MatchStore, Digest, outcome,
       OwedWhenEmbedded, OwedWithin
  <2>2. DeliveryInv /\ due' # {} => DeliveryInv'
    BY <1>3, EmbedSelectDelivers, EmbedStoreDelivers, MatchSelectDelivers,
       MatchStoreDelivers, DigestDelivers
  <2> QED BY <2>1, <2>2
<1>4. CASE Report \/ Killed
  BY <1>4 DEF Report, Killed, Exit
<1>5. CASE FailAborted
  <2>1. After(StageOf) \in {"match", "digest", "report"}
    BY <1>5, StagesType DEF FailAborted
  <2> QED BY <1>5, <2>1 DEF FailAborted
<1>6. CASE (\E inDatabase \in BOOLEAN : Fail(inDatabase)) \/ MailRefused
  <2>1. struck' # {}
    BY <1>6 DEF Fail, MailRefused
  <2>2. pc' # "idle"
    BY <1>6, StagesType DEF Fail, MailRefused
  <2> QED BY <2>1, <2>2
<1>7. CASE UNCHANGED dailyVars
  <2>1. UNCHANGED <<rows, vectors, profiled, matches, mailed, pc, batch, total, cands,
                    aborted, struck, due>>
    BY <1>7 DEF dailyVars, tables, work, outcome
  <2>2. Pool' = Pool /\ Unsent' = Unsent /\ Matched' = Matched /\ Room' = Room
    BY <2>1 DEF Pool, Unsent, Matched, Room
  <2>3. (Owed(Pool) => Owed(Pool)') /\ (Owed(cands) => Owed(cands)')
    <3>1. \A u \in Tenders : Fresh(u) => Fresh(u)'
      BY <2>1 DEF Fresh
    <3>2. Owed(Pool) => Owed(Pool)'
      BY <2>1, <3>1, OwedOfPoolKept
    <3>3. PICK P : P = cands
      OBVIOUS
    <3>4. Owed(P) => Owed(P)'
      BY <2>1, <3>1, <3>3, OwedKept DEF TypesInv, DailyTypeOK
    <3>5. Owed(cands) => Owed(P)
      BY <3>3 DEF Owed, Worth, ByMeaning
    <3>6. P = cands'
      BY <2>1, <3>3
    <3>7. Owed(P)' => Owed(cands)'
      BY <3>6 DEF Owed, Worth, ByMeaning
    <3> QED BY <3>2, <3>4, <3>5, <3>7
  <2>4. Embedded => Embedded'
    BY <2>1, <2>2 DEF Embedded, ByTerm
  <2>5. DeliveryInv => DeliveryInv'
    BY <2>1, <2>2, <2>3, <2>4 DEF DeliveryInv
  <2> QED BY <2>1, <2>5
<1> QED
  BY <1>1, <1>2, <1>3, <1>4, <1>5, <1>6, <1>7 DEF Next, Step

\* What a run in which nothing fails found worth it when it began, or had
\* matched before, is mailed by its end, whatever the crawler writes about
\* other tenders meanwhile, unless one of those puts it below the floor or a
\* limit is met.
THEOREM DeliveredSameDay == Spec => []SameDayDelivery
<1>1. Init => RunInv
  BY DEF Init, RunInv
<1>2. TypesInv /\ RunInv /\ [Next]_dailyVars => RunInv'
  BY RunStep
<1>3. RunInv => SameDayDelivery
  BY DEF RunInv, SameDayDelivery, DeliveryInv
<1> QED
  BY <1>1, <1>2, <1>3, AlwaysTypes, PTL DEF Spec

-----------------------------------------------------------------------------
(* The fusion of the two retrievers. *)

\* Two reciprocals are more than one, as fractions.
LEMMA FusedScore ==
  ASSUME NEW p \in Nat, NEW q \in Nat, NEW r \in Nat
  PROVE  LET a == p + 61
             b == q + 61
             c == r + 61
         IN  Higher(Plus(Reciprocal(TRUE, p), Reciprocal(TRUE, q)), Reciprocal(TRUE, r))
               <=> (b + a) * c > a * b
<1> DEFINE a == p + 61
           b == q + 61
           c == r + 61
<1>1. /\ Reciprocal(TRUE, p) = <<1, a>> /\ Reciprocal(TRUE, q) = <<1, b>>
      /\ Reciprocal(TRUE, r) = <<1, c>>
  BY DEF Reciprocal, RRF_K
<1>2. a \in Nat /\ b \in Nat /\ c \in Nat /\ a * b \in Nat
  OBVIOUS
<1> HIDE DEF a, b, c
<1>3. Plus(<<1, a>>, <<1, b>>) = <<b + a, a * b>>
  BY <1>2 DEF Plus
<1>4. Higher(<<b + a, a * b>>, <<1, c>>) <=> (b + a) * c > 1 * (a * b)
  BY DEF Higher
<1>5. 1 * (a * b) = a * b
  BY <1>2
<1> QED
  BY <1>1, <1>3, <1>4, <1>5 DEF a, b, c

\* A tender found by both retrievers outranks every one found by either alone
\* exactly as long as they return at most 61 hits each; layer2.py says it
\* always does, and lets them return 100.
THEOREM BothOutrankUpTo61 == BothOutrank <=> HitLimit <= 61
<1>0. HitLimit \in Nat \ {0}
  BY RulesAssumption DEF RulesAssumption
<1>1. ASSUME HitLimit <= 61, NEW p \in 0 .. HitLimit - 1, NEW q \in 0 .. HitLimit - 1,
             NEW r \in 0 .. HitLimit - 1
      PROVE  Higher(Plus(Reciprocal(TRUE, p), Reciprocal(TRUE, q)), Reciprocal(TRUE, r))
  <2> DEFINE a == p + 61
             b == q + 61
             c == r + 61
  <2>1. a \in 61 .. 121 /\ b \in 61 .. 121 /\ c \in Nat /\ c >= 61
    BY <1>0, <1>1
  <2> HIDE DEF a, b, c
  <2>2. (b + a) * c >= (b + a) * 61
    BY <2>1
  <2>3. (b + a) * 61 > a * b
    <3>1. CASE a >= b
      <4>1. a * b <= 121 * b
        BY <2>1
      <4>2. (b + a) * 61 >= 122 * b
        BY <2>1, <3>1
      <4>3. a * b \in Nat /\ 121 * b < 122 * b
        BY <2>1
      <4> QED BY <2>1, <4>1, <4>2, <4>3
    <3>2. CASE b >= a
      <4>1. a * b <= a * 121
        BY <2>1
      <4>2. (b + a) * 61 >= 122 * a
        BY <2>1, <3>2
      <4>3. a * b \in Nat /\ a * 121 < 122 * a
        BY <2>1
      <4> QED BY <2>1, <4>1, <4>2, <4>3
    <3> QED BY <2>1, <3>1, <3>2
  <2>4. (b + a) * c \in Nat /\ (b + a) * 61 \in Nat /\ a * b \in Nat
    BY <2>1
  <2>5. (b + a) * c > a * b
    BY <2>2, <2>3, <2>4
  <2>6. p \in Nat /\ q \in Nat /\ r \in Nat
    BY <1>0
  <2> QED BY <2>5, <2>6, FusedScore DEF a, b, c
<1>2. ASSUME ~(HitLimit <= 61), BothOutrank PROVE FALSE
  <2>1. 61 \in 0 .. HitLimit - 1 /\ 0 \in 0 .. HitLimit - 1
    BY <1>0, <1>2
  <2>2. Higher(Plus(Reciprocal(TRUE, 61), Reciprocal(TRUE, 61)), Reciprocal(TRUE, 0))
    BY <1>2, <2>1 DEF BothOutrank
  <2>3. ((61 + 61) + (61 + 61)) * (0 + 61) > (61 + 61) * (61 + 61)
    BY <2>2, FusedScore
  <2> QED BY <2>3
<1> QED
  BY <1>0, <1>1, <1>2 DEF BothOutrank
=============================================================================
