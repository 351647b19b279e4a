-------------------------- MODULE CrawlRuns_proofs --------------------------
(***************************************************************************)
(* The crawl runs, in three parts that share no variable.  What a sweep    *)
(* may skip, for lists and pages of any size and any number of changes,    *)
(* refusals and expired sessions.  The verdicts on the runs, for a window  *)
(* and a log of any length: no run is flagged without a sweep that found   *)
(* more than twice as much, and no collapse is hidden by fewer than half   *)
(* of the sweeps it is compared with.  And the scheduler that starts the   *)
(* runs, for any registry: a process sweeps in its startup loop and, its   *)
(* jobs being registered paused, never again.                              *)
(***************************************************************************)
EXTENDS Sweep, YieldMonitor, Scheduler, FiniteSetTheorems, SequenceTheorems, TLAPS

-----------------------------------------------------------------------------
(* Induction, over sets rather than over predicates. *)

LEMMA LeastExists ==
  ASSUME NEW T \in SUBSET Nat, T # {}
  PROVE  \E n \in T : \A m \in T : n <= m
<1> DEFINE R == {pair \in Nat \X Nat : pair[1] < pair[2]}
<1>1. R = OpToRel(<, Nat)
  BY DEF OpToRel
<1>2. IsWellFoundedOn(R, Nat)
  BY <1>1, NatLessThanWellFounded
<1>3. PICK n \in T : \A m \in T : <<m, n>> \notin R
  <2> HIDE DEF R
  <2> QED BY <1>2, WFMin
<1>4. \A m \in Nat : m < n => <<m, n>> \in R
  BY <1>3
<1> HIDE DEF R
<1>5. \A m \in T : ~(m < n)
  BY <1>3, <1>4
<1> QED
  BY <1>3, <1>5

LEMMA AllNumbers ==
  ASSUME NEW G, 0 \in G, \A n \in Nat : n \in G => n + 1 \in G
  PROVE  Nat \subseteq G
<1> SUFFICES ASSUME Nat \ G # {} PROVE FALSE
  OBVIOUS
<1>1. PICK n \in Nat \ G : \A m \in Nat \ G : n <= m
  BY LeastExists
<1>2. n # 0 /\ n - 1 \in Nat /\ ~(n <= n - 1)
  BY <1>1
<1>3. n - 1 \in G /\ (n - 1) + 1 = n
  BY <1>1, <1>2
<1> QED
  BY <1>1, <1>2, <1>3

\* The element a fold over a set takes first.
Pick(s) == CHOOSE x \in s : TRUE

LEMMA PickType ==
  ASSUME NEW s, s # {}
  PROVE  Pick(s) \in s
BY DEF Pick

LEMMA AllSubsets ==
  ASSUME NEW S, IsFiniteSet(S), NEW G,
         {} \in G,
         \A T \in SUBSET S : T # {} /\ T \ {Pick(T)} \in G => T \in G
  PROVE  SUBSET S \subseteq G
<1> DEFINE Done == {n \in Nat : \A T \in SUBSET S : Cardinality(T) = n => T \in G}
<1>1. \A T \in SUBSET S : IsFiniteSet(T) /\ Cardinality(T) \in Nat
  BY FS_Subset, FS_CardinalityType
<1>2. 0 \in Done
  BY <1>1, FS_EmptySet
<1>3. \A n \in Nat : n \in Done => n + 1 \in Done
  <2> SUFFICES ASSUME NEW n \in Nat, n \in Done,
                      NEW T \in SUBSET S, Cardinality(T) = n + 1
               PROVE  T \in G
    OBVIOUS
  <2>1. T # {}
    BY FS_EmptySet
  <2>2. Pick(T) \in T /\ T \ {Pick(T)} \in SUBSET S
    BY <2>1, PickType
  <2>3. Cardinality(T \ {Pick(T)}) = n
    <3>1. Cardinality(T \ {Pick(T)}) = Cardinality(T) - 1
      BY <1>1, <2>2, FS_RemoveElement
    <3> QED BY <3>1
  <2> QED BY <2>1, <2>2, <2>3
<1>4. Nat \subseteq Done
  <2> HIDE DEF Done
  <2> QED BY <1>2, <1>3, AllNumbers
<1> QED
  BY <1>1, <1>4

-----------------------------------------------------------------------------
(* The sweep. *)

(***************************************************************************)
(* The inductive invariant.  Answered counts the pages the portal has      *)
(* answered, Found is what they had, and Overtaken are the notices the     *)
(* sweep has gone past without having seen them: those still to be found   *)
(* that lie on the pages answered.                                         *)
(***************************************************************************)
Above(S, n) == {m \in S : m > n}
Place(S, n) == Cardinality(Above(S, n))

Answered  == IF pc \in {"yield", "done"} THEN page ELSE page - 1
Found     == IF pc = "yield" THEN got \cup Rows(body) ELSE got
Overtaken == {n \in (start \cap Live) \ Found : Place(Live, n) < Answered * PageSize}
Budget    == changes + PageSize * lapses
Coming    == {n \in Notices : listed[n] = "coming"}

\* The types as they are preserved: what a sweep counts, and where it has
\* counted nothing yet.
TypesInv ==
  /\ SweepTypeOK
  /\ listed \in [Notices -> {"coming", "live", "left"}]
  /\ limit \in (Nat \ {0}) \cup {None}
  /\ lapses \in Nat /\ lapses <= Answered
  /\ changes + 2 * Cardinality(Coming) + Cardinality(Live) <= 2 * Cardinality(Notices)
  /\ pc \in {"idle", "prime"} => page = 1 /\ total = None /\ start = {}

\* Nothing that is yet to come was on the list; nothing is overtaken but
\* what a change or a lapse accounts for, and the list does not outgrow
\* what it was when the sweep began but by changes.
OvertakenInv ==
  /\ start \cap Coming = {}
  /\ start # {} =>
       /\ Cardinality(Overtaken) <= Budget
       /\ Cardinality(Overtaken) + Cardinality(Live) <= Budget + Cardinality(start)

\* The number of pages is that of the first answer, and they hold every
\* notice there was; there is no second page before it is known.
PagesInv ==
  /\ total # None => /\ Cardinality(start) <= total * PageSize
                     /\ page > 1 \/ pc = "done"
  /\ page > 1 /\ pc \in {"ask", "reprime", "reask", "yield"} => total # None
  /\ pc = "yield" /\ total = None /\ body \in Fragments =>
       Cardinality(start) <= body.pages * PageSize

\* A page without rows was past the end of the list.
PastTheEndInv ==
  pc = "yield" /\ body \in Fragments /\ body.rows = {} => Cardinality(Skipped) <= Budget

SweepInv == TypesInv /\ OvertakenInv /\ PagesInv /\ PastTheEndInv /\ SkippedBounded
-----------------------------------------------------------------------------
(* Places in a list. *)

LEMMA FiniteList ==
  ASSUME NEW S \in SUBSET Notices
  PROVE  /\ IsFiniteSet(S) /\ Cardinality(S) \in Nat
         /\ S \in SUBSET Nat
BY SweepAssumption, FS_Subset, FS_CardinalityType

LEMMA PlaceType ==
  ASSUME NEW S \in SUBSET Notices, NEW n
  PROVE  /\ Above(S, n) \in SUBSET S
         /\ IsFiniteSet(Above(S, n))
         /\ Place(S, n) \in Nat
<1>1. Above(S, n) \in SUBSET S
  BY DEF Above
<1> QED
  BY <1>1, FiniteList DEF Place

\* Every place is below the length of the list.
LEMMA PlaceInList ==
  ASSUME NEW S \in SUBSET Notices, NEW n \in S
  PROVE  Place(S, n) < Cardinality(S)
<1>1. Above(S, n) # S
  BY FiniteList DEF Above
<1> QED
  BY <1>1, FiniteList, PlaceType, FS_Subset DEF Place

\* Whoever comes later in the list has fewer before it.
LEMMA LaterIsHigher ==
  ASSUME NEW S \in SUBSET Notices, NEW a \in S, NEW b \in S, b > a
  PROVE  Place(S, b) < Place(S, a)
<1>1. \A m \in S : m \in Nat
  BY FiniteList
<1>2. /\ Above(S, b) \in SUBSET Above(S, a)
      /\ b \in Above(S, a) /\ b \notin Above(S, b)
  BY <1>1 DEF Above
<1>3. Place(S, b) <= Place(S, a) /\ Place(S, b) # Place(S, a)
  BY <1>2, PlaceType, FS_Subset DEF Place
<1> QED
  BY <1>3, PlaceType

LEMMA PlacesDiffer ==
  ASSUME NEW S \in SUBSET Notices, NEW a \in S, NEW b \in S, a # b
  PROVE  Place(S, a) # Place(S, b)
<1>1. a \in Nat /\ b \in Nat /\ Place(S, a) \in Nat /\ Place(S, b) \in Nat
  BY FiniteList, PlaceType
<1>2. CASE a > b
  BY <1>1, <1>2, LaterIsHigher
<1>3. CASE b > a
  BY <1>1, <1>3, LaterIsHigher
<1> QED
  BY <1>1, <1>2, <1>3

\* As many notices as places, at most.
LEMMA WindowSize ==
  ASSUME NEW S \in SUBSET Notices, NEW T \in SUBSET S, NEW a \in Nat, NEW b \in Nat,
         a <= b, \A n \in T : a <= Place(S, n) /\ Place(S, n) < b
  PROVE  Cardinality(T) <= b - a
<1> DEFINE f == [n \in T |-> Place(S, n)]
<1>1. \A n \in T : Place(S, n) \in a .. b - 1
  BY PlaceType
<1>2. f \in Injection(T, a .. b - 1)
  <2>1. f \in [T -> a .. b - 1]
    BY <1>1
  <2>2. \A m, n \in T : f[m] = f[n] => m = n
    BY PlacesDiffer
  <2> QED BY <2>1, <2>2 DEF Injection, IsInjective
<1>3. IsFiniteSet(a .. b - 1) /\ Cardinality(a .. b - 1) = b - a
  <2>1. a \in Int /\ b - 1 \in Int
    OBVIOUS
  <2>2. /\ IsFiniteSet(a .. b - 1)
        /\ Cardinality(a .. b - 1) = IF a > b - 1 THEN 0 ELSE (b - 1) - a + 1
    BY <2>1, FS_Interval
  <2> QED BY <2>2
<1> QED
  BY <1>2, <1>3, FS_Injection

\* What lies behind the first c notices.
LEMMA TailSize ==
  ASSUME NEW S \in SUBSET Notices, NEW T \in SUBSET S, NEW c \in Nat,
         \A n \in T : c <= Place(S, n)
  PROVE  Cardinality(T) = 0 \/ Cardinality(T) + c <= Cardinality(S)
<1>1. CASE T = {}
  BY <1>1, FS_EmptySet
<1>2. CASE T # {}
  <2>1. PICK n \in T : TRUE
    BY <1>2
  <2>2. c <= Place(S, n) /\ Place(S, n) < Cardinality(S)
    BY <2>1, PlaceInList
  <2>3. c <= Cardinality(S) /\ Cardinality(S) \in Nat
    <3>1. Place(S, n) \in Nat /\ Cardinality(S) \in Nat
      BY PlaceType, FiniteList
    <3> QED BY <2>2, <3>1
  <2>4. \A m \in T : c <= Place(S, m) /\ Place(S, m) < Cardinality(S)
    BY PlaceInList
  <2>5. Cardinality(T) <= Cardinality(S) - c
    BY <2>3, <2>4, WindowSize
  <2>6. Cardinality(T) \in Nat
    BY FiniteList
  <2> QED BY <2>3, <2>5, <2>6
<1> QED
  BY <1>1, <1>2

\* Places are taken without a gap: when none is from c on for a while,
\* none is behind.
LEMMA NoGap ==
  ASSUME NEW S \in SUBSET Notices, NEW c \in Nat, NEW d \in Nat, c < d,
         \A n \in S : ~(c <= Place(S, n) /\ Place(S, n) < d)
  PROVE  \A n \in S : Place(S, n) < c
<1> SUFFICES ASSUME NEW n \in S, Place(S, n) >= c PROVE FALSE
  BY PlaceType
<1> DEFINE Behind == {Place(S, m) : m \in {m \in S : Place(S, m) >= c}}
<1>1. Behind \in SUBSET Nat /\ Behind # {}
  BY PlaceType
<1>2. PICK k \in Behind : \A j \in Behind : k <= j
  <2> HIDE DEF Behind
  <2> QED BY <1>1, LeastExists
<1>3. PICK m \in S : Place(S, m) = k /\ k >= c /\ k \in Nat
  BY <1>1, <1>2
<1>4. \A j \in Above(S, m) : j \in S /\ 0 <= Place(S, j) /\ Place(S, j) < c
  <2> SUFFICES ASSUME NEW j \in Above(S, m)
               PROVE  j \in S /\ 0 <= Place(S, j) /\ Place(S, j) < c
    OBVIOUS
  <2>1. j \in S /\ j > m /\ Place(S, j) \in Nat
    BY PlaceType DEF Above
  <2>2. Place(S, j) < k
    BY <2>1, <1>3, LaterIsHigher
  <2>3. Place(S, j) >= c => k <= Place(S, j)
    BY <1>2, <2>1
  <2> QED BY <2>1, <2>2, <2>3, <1>3
<1>5. Place(S, m) <= c - 0
  <2>1. Above(S, m) \in SUBSET S /\ 0 <= c
    BY PlaceType
  <2> QED BY <1>4, <2>1, WindowSize DEF Place
<1>6. Place(S, m) = c
  BY <1>3, <1>5
<1> QED
  BY <1>6

\* What joins the list never moves a notice up; what leaves it moves a
\* notice up by one place at most.
LEMMA PlaceAfterArrival ==
  ASSUME NEW S \in SUBSET Notices, NEW n \in Notices, NEW m
  PROVE  Place(S, m) <= Place(S \cup {n}, m)
<1>1. Above(S, m) \in SUBSET Above(S \cup {n}, m)
  BY DEF Above
<1>2. S \cup {n} \in SUBSET Notices
  OBVIOUS
<1> QED
  BY <1>1, <1>2, PlaceType, FS_Subset DEF Place

LEMMA PlaceAfterLeaving ==
  ASSUME NEW S \in SUBSET Notices, NEW n, NEW m
  PROVE  Place(S, m) <= Place(S \ {n}, m) + 1
<1>1. Above(S \ {n}, m) = Above(S, m) \ {n}
  BY DEF Above
<1>2. Place(S, m) \in Nat /\ IsFiniteSet(Above(S, m))
  BY PlaceType
<1>3. Cardinality(Above(S, m) \ {n}) = Place(S, m) \/ Cardinality(Above(S, m) \ {n}) = Place(S, m) - 1
  BY <1>2, FS_RemoveElement DEF Place
<1>4. Place(S \ {n}, m) = Cardinality(Above(S, m) \ {n})
  BY <1>1 DEF Place
<1> QED
  BY <1>2, <1>3, <1>4
-----------------------------------------------------------------------------
(* The portal and its answers. *)

LEMMA ArriveMoves ==
  ASSUME TypesInv, NEW n \in Notices, Arrive(n)
  PROVE  /\ n \in Coming /\ n \notin Live
         /\ Live' = Live \cup {n} /\ Coming' = Coming \ {n}
         /\ Cardinality(Live') = Cardinality(Live) + 1
         /\ Cardinality(Coming') = Cardinality(Coming) - 1
<1>1. listed \in [Notices -> {"coming", "live", "left"}]
  BY DEF TypesInv
<1>2. /\ n \in Coming /\ n \notin Live
      /\ Live' = Live \cup {n} /\ Coming' = Coming \ {n}
  BY <1>1 DEF Arrive, Live, Coming
<1>3. IsFiniteSet(Live) /\ IsFiniteSet(Coming)
  BY FiniteList DEF Live, Coming
<1>4. Cardinality(Live \cup {n}) = Cardinality(Live) + 1
  BY <1>2, <1>3, FS_AddElement
<1>5. Cardinality(Coming \ {n}) = Cardinality(Coming) - 1
  BY <1>2, <1>3, FS_RemoveElement
<1> QED
  BY <1>2, <1>4, <1>5

LEMMA LeaveMoves ==
  ASSUME TypesInv, NEW n \in Notices, Leave(n)
  PROVE  /\ n \in Live
         /\ Live' = Live \ {n} /\ Coming' = Coming
         /\ Cardinality(Live') = Cardinality(Live) - 1
<1>1. listed \in [Notices -> {"coming", "live", "left"}]
  BY DEF TypesInv
<1>2. n \in Live /\ Live' = Live \ {n} /\ Coming' = Coming
  BY <1>1 DEF Leave, Live, Coming
<1>3. IsFiniteSet(Live)
  BY FiniteList DEF Live
<1>4. Cardinality(Live \ {n}) = Cardinality(Live) - 1
  BY <1>2, <1>3, FS_RemoveElement
<1> QED
  BY <1>2, <1>4

LEMMA LiveType == Live \in SUBSET Notices /\ Coming \in SUBSET Notices
BY DEF Live, Coming

\* As many pages as hold the list.
LEMMA PagesHoldList ==
  PageCount \in Nat /\ Cardinality(Live) <= PageCount * PageSize
<1> DEFINE c == Cardinality(Live)
           q == (c + PageSize - 1) \div PageSize
           r == (c + PageSize - 1) % PageSize
<1>1. c \in Nat /\ PageSize \in Nat \ {0}
  BY LiveType, FiniteList, SweepAssumption
<1>2. c + PageSize - 1 \in Nat
  BY <1>1
<1>3. /\ q \in Nat /\ r \in 0 .. PageSize - 1
      /\ c + PageSize - 1 = q * PageSize + r
  <2> HIDE DEF c
  <2> QED BY <1>1, <1>2
<1>4. q * PageSize \in Nat
  BY <1>1, <1>3
<1>5. PageCount = q
  BY DEF PageCount
<1> HIDE DEF q, r, c
<1>6. c <= q * PageSize
  BY <1>1, <1>3, <1>4
<1> QED
  BY <1>3, <1>5, <1>6 DEF c

LEMMA FragmentType == \A k : Fragment(k) \in Fragments
BY PagesHoldList DEF Fragment, Fragments, PageRows, Live

LEMMA AnswerType ==
  ASSUME body' \in Answers
  PROVE  /\ body' \in Fragments \cup {Expired, Other} /\ body' # None
         /\ body' \in Fragments => body' = Fragment(page)
BY FragmentType, SweepAssumption DEF Answers

-----------------------------------------------------------------------------
(* The types. *)

LEMMA InitTypes == Init => TypesInv
<1> SUFFICES ASSUME Init PROVE TypesInv
  OBVIOUS
<1> USE DEF Init
<1>1. Cardinality(Coming) + Cardinality(Live) <= Cardinality(Notices)
  <2>1. Coming \cup Live \in SUBSET Notices /\ Coming \cap Live = {}
    BY DEF Coming, Live
  <2>2. /\ IsFiniteSet(Coming) /\ Cardinality(Coming) \in Nat
        /\ IsFiniteSet(Live) /\ Cardinality(Live) \in Nat
    BY LiveType, FiniteList
  <2>3. Cardinality(Coming \cup Live) = Cardinality(Coming) + Cardinality(Live) - Cardinality({})
    BY <2>1, <2>2, FS_Union
  <2>4. Cardinality(Coming \cup Live) <= Cardinality(Notices)
    BY <2>1, SweepAssumption, FS_Subset
  <2> QED BY <2>2, <2>3, <2>4, FS_EmptySet
<1>2. /\ Cardinality(Coming) \in Nat /\ Cardinality(Live) \in Nat
      /\ Cardinality(Notices) \in Nat
  BY LiveType, FiniteList
<1>3. SweepTypeOK
  <2>1. attempt \in 1 .. MaxAttempts
    BY SweepAssumption
  <2>2. changes \in 0 .. 2 * Cardinality(Notices)
    BY <1>2
  <2> QED BY <2>1, <2>2, SweepAssumption DEF SweepTypeOK, Requests
<1>4. changes + 2 * Cardinality(Coming) + Cardinality(Live) <= 2 * Cardinality(Notices)
  BY <1>1, <1>2
<1>5. lapses <= Answered
  BY DEF Answered
<1>6. listed \in [Notices -> {"coming", "live", "left"}]
  OBVIOUS
<1> QED
  BY <1>3, <1>4, <1>5, <1>6 DEF TypesInv

\* A step of the portal or of the observation leaves the number of changes
\* below what can still happen.
LEMMA StepTypes ==
  ASSUME TypesInv, [Next]_sweepVars
  PROVE  TypesInv'
<1> USE SweepAssumption
<1>0. /\ SweepTypeOK /\ listed \in [Notices -> {"coming", "live", "left"}]
      /\ limit \in (Nat \ {0}) \cup {None}
      /\ lapses \in Nat /\ lapses <= Answered /\ page \in Nat \ {0}
      /\ changes + 2 * Cardinality(Coming) + Cardinality(Live) <= 2 * Cardinality(Notices)
      /\ pc \in {"idle", "prime"} => page = 1 /\ total = None /\ start = {}
  BY DEF TypesInv, SweepTypeOK
<1>1. /\ Cardinality(Coming) \in Nat /\ Cardinality(Live) \in Nat
      /\ Cardinality(Notices) \in Nat /\ changes \in Nat
  BY <1>0, LiveType, FiniteList DEF SweepTypeOK
<1>2. ASSUME NEW n \in Notices, Arrive(n) \/ Leave(n) PROVE TypesInv'
  <2>1. /\ UNCHANGED <<request, progress, start, lapses>>
        /\ listed' \in [Notices -> {"coming", "live", "left"}]
        /\ changes' \in Nat /\ changes' <= changes + 1
    BY <1>0, <1>1, <1>2 DEF Arrive, Leave, Change
  <2>2. changes' + 2 * Cardinality(Coming') + Cardinality(Live') <= 2 * Cardinality(Notices)
    <3>1. CASE Arrive(n)
      BY <1>0, <1>1, <2>1, <3>1, ArriveMoves
    <3>2. CASE Leave(n)
      BY <1>0, <1>1, <2>1, <3>2, LeaveMoves
    <3> QED BY <1>2, <3>1, <3>2
  <2>3. changes' \in 0 .. 2 * Cardinality(Notices)
    <3>1. Cardinality(Coming') \in Nat /\ Cardinality(Live') \in Nat
      <4>1. Coming' \in SUBSET Notices /\ Live' \in SUBSET Notices
        BY DEF Coming, Live
      <4> QED BY <4>1, FiniteList
    <3> QED BY <1>1, <2>1, <2>2, <3>1
  <2> QED
    BY <1>0, <2>1, <2>2, <2>3 DEF TypesInv, SweepTypeOK, Answered, request, progress
<1>3. ASSUME UNCHANGED listed,
             SweepTypeOK', limit' \in (Nat \ {0}) \cup {None},
             lapses' <= Answered', lapses' \in Nat,
             changes' \in {0, changes},
             pc' \in {"idle", "prime"} => page' = 1 /\ total' = None /\ start' = {}
      PROVE  TypesInv'
  <2>1. Coming' = Coming /\ Live' = Live
    BY <1>3 DEF Coming, Live
  <2>2. changes' + 2 * Cardinality(Coming') + Cardinality(Live') <= 2 * Cardinality(Notices)
    BY <1>0, <1>1, <1>3, <2>1
  <2> QED BY <1>0, <1>3, <2>2 DEF TypesInv
<1>4. CASE Begin
  <2>1. Answered' = 0
    BY <1>4 DEF Begin, Go, Answered
  <2>2. SweepTypeOK'
    BY <1>0, <1>1, <1>4 DEF Begin, Go, SweepTypeOK, Requests
  <2> QED BY <1>3, <1>4, <2>1, <2>2 DEF Begin, Go
<1>5. CASE Primed
  <2>1. Answered' = Answered
    BY <1>5 DEF Primed, Go, Answered, progress
  <2>2. SweepTypeOK'
    BY <1>0, <1>5 DEF Primed, Go, SweepTypeOK, Requests, progress, observed
  <2> QED BY <1>0, <1>3, <1>5, <2>1, <2>2 DEF Primed, Go, progress, observed
<1>6. CASE Asked
  <2>1. /\ pc' = "yield" \/ (pc = "ask" /\ body' = Expired /\ pc' = "reprime")
        /\ Answered = page - 1
    BY <1>6 DEF Asked, Go, Answered
  <2>2. lapses' \in {lapses, lapses + 1}
    BY <1>6 DEF Asked, Observe
  <2>3. pc' # "yield" => lapses' = lapses
    BY <1>6, <2>1 DEF Asked, Observe
  <2>4. lapses' <= Answered' /\ lapses' \in Nat
    <3>1. page' = page
      BY <1>6 DEF Asked, progress
    <3> QED BY <1>0, <2>1, <2>2, <2>3, <3>1 DEF Answered
  <2>5. changes' \in {0, changes} /\ start' \in {Live, start}
    BY <1>6 DEF Asked, Observe
  <2>6. SweepTypeOK'
    <3>1. /\ body' \in Fragments \cup {Expired, Other} /\ body' # None
          /\ attempt' \in 1 .. MaxAttempts /\ UNCHANGED progress
      BY <1>6, AnswerType DEF Asked
    <3>2. lapses' <= page'
      BY <1>0, <2>4, <3>1 DEF Answered, progress
    <3>3. start' \subseteq Notices /\ changes' \in 0 .. 2 * Cardinality(Notices)
      BY <1>0, <1>1, <2>5, LiveType DEF SweepTypeOK
    <3> QED BY <1>0, <2>1, <3>1, <3>2, <3>3 DEF SweepTypeOK, Requests, progress
  <2> QED BY <1>0, <1>3, <1>6, <2>1, <2>4, <2>5, <2>6 DEF Asked, progress
<1>7. CASE Refused
  <2>1. /\ pc \in Requests /\ pc' \in {pc, "raised"} /\ attempt' \in 1 .. MaxAttempts
        /\ UNCHANGED <<listed, body, progress, observed>>
    BY <1>0, <1>7 DEF Refused, SweepTypeOK
  <2>2. Answered' = Answered
    BY <2>1 DEF Answered, Requests, progress
  <2>3. SweepTypeOK'
    BY <1>0, <2>1 DEF SweepTypeOK, Requests, progress, observed
  <2> QED BY <1>0, <1>3, <2>1, <2>2, <2>3 DEF progress, observed
<1>8. CASE Yield
  <2>1. /\ pc = "yield" /\ body # None /\ pc' \in {"done", "ask"}
        /\ page' = IF pc' = "done" THEN page ELSE page + 1
    BY <1>0, <1>8 DEF Yield, SweepTypeOK
  <2>2. Answered' = Answered
    BY <1>0, <2>1 DEF Answered
  <2>3. total' \in Nat \cup {None} /\ got' \subseteq Notices /\ body' = None
    BY <1>0, <1>8, <2>1 DEF Yield, SweepTypeOK, TotalPages, Rows, Fragments
  <2>4. /\ page' \in Nat \ {0} /\ page <= page' /\ UNCHANGED <<listed, attempt, limit, observed>>
    BY <1>0, <1>8, <2>1 DEF Yield
  <2>5. lapses' <= page'
    BY <1>0, <2>1, <2>4 DEF Answered, observed
  <2>6. SweepTypeOK'
    BY <1>0, <2>1, <2>3, <2>4, <2>5 DEF SweepTypeOK, observed, Requests
  <2> QED BY <1>0, <1>3, <2>1, <2>2, <2>4, <2>6 DEF observed
<1>9. CASE End
  <2>1. Answered' = 0
    BY <1>9 DEF End, Answered
  <2>2. SweepTypeOK'
    BY <1>0, <1>1, <1>9 DEF End, SweepTypeOK, Requests
  <2> QED BY <1>3, <1>9, <2>1, <2>2 DEF End
<1>10. CASE UNCHANGED sweepVars
  BY <1>10 DEF sweepVars, request, progress, observed, TypesInv, SweepTypeOK, Answered,
     Coming, Live
<1> QED
  BY <1>2, <1>4, <1>5, <1>6, <1>7, <1>8, <1>9, <1>10 DEF Next, Step

(***************************************************************************)
(* The types, for any list and any limits: no more changes are counted     *)
(* than the notices can make, and no more lapses than pages.               *)
(***************************************************************************)
THEOREM SweepTypeCorrect == Spec => []SweepTypeOK
<1>1. TypesInv => SweepTypeOK
  BY DEF TypesInv
<1> QED
  BY <1>1, InitTypes, StepTypes, PTL DEF Spec
-----------------------------------------------------------------------------
(* What is overtaken. *)

LEMMA Products ==
  /\ \A k \in Nat : k * PageSize \in Nat /\ PageSize * k \in Nat
  /\ \A k \in Nat : (k + 1) * PageSize = k * PageSize + PageSize
  /\ \A k \in Nat : PageSize * (k + 1) = PageSize * k + PageSize
  /\ \A j, k \in Nat : j <= k => j * PageSize <= k * PageSize
<1>1. PageSize \in Nat
  BY SweepAssumption
<1>2. \A j, k \in Nat : j <= k => j * PageSize <= k * PageSize
  <2> SUFFICES ASSUME NEW j \in Nat, NEW k \in Nat, j <= k
               PROVE  j * PageSize <= k * PageSize
    OBVIOUS
  <2>1. PICK d \in Nat : k = j + d
    <3>1. k - j \in Nat /\ k = j + (k - j)
      OBVIOUS
    <3> QED BY <3>1
  <2>2. k * PageSize = j * PageSize + d * PageSize
    BY <1>1, <2>1
  <2>3. j * PageSize \in Nat /\ d * PageSize \in Nat
    BY <1>1
  <2> QED BY <2>2, <2>3
<1> QED
  BY <1>1, <1>2

LEMMA CountTypes ==
  ASSUME TypesInv
  PROVE  /\ Answered \in Nat /\ Answered * PageSize \in Nat
         /\ changes \in Nat /\ lapses \in Nat /\ Budget \in Nat
         /\ Live \in SUBSET Notices /\ Cardinality(Live) \in Nat
         /\ start \in SUBSET Notices /\ Cardinality(start) \in Nat
         /\ Overtaken \in SUBSET Notices /\ Cardinality(Overtaken) \in Nat
         /\ Skipped \in SUBSET Notices /\ Cardinality(Skipped) \in Nat
<1>1. /\ Answered \in Nat /\ changes \in Nat /\ lapses \in Nat
      /\ start \in SUBSET Notices
  <2>1. Cardinality(Notices) \in Nat
    BY FiniteList
  <2> QED BY <2>1 DEF TypesInv, SweepTypeOK, Answered
<1>2. Answered * PageSize \in Nat /\ PageSize * lapses \in Nat
  BY <1>1, Products
<1>3. /\ Live \in SUBSET Notices /\ Overtaken \in SUBSET Notices
      /\ Skipped \in SUBSET Notices
  BY LiveType DEF Overtaken, Skipped
<1>4. Budget \in Nat
  BY <1>1, <1>2 DEF Budget
<1> QED
  BY <1>1, <1>2, <1>3, <1>4, FiniteList

\* A subset of what is counted and of as many more.
LEMMA CountUnion ==
  ASSUME NEW A \in SUBSET Notices, NEW B \in SUBSET Notices, NEW C \in SUBSET (A \cup B)
  PROVE  Cardinality(C) <= Cardinality(A) + Cardinality(B)
<1>1. /\ IsFiniteSet(A) /\ Cardinality(A) \in Nat
      /\ IsFiniteSet(B) /\ Cardinality(B) \in Nat
      /\ A \cap B \in SUBSET Notices /\ Cardinality(A \cap B) \in Nat
      /\ Cardinality(C) \in Nat /\ Cardinality(A \cup B) \in Nat
  <2>1. A \cap B \in SUBSET Notices /\ A \cup B \in SUBSET Notices /\ C \in SUBSET Notices
    OBVIOUS
  <2> QED BY <2>1, FiniteList
<1>2. IsFiniteSet(A \cup B) /\ Cardinality(A \cup B) = Cardinality(A) + Cardinality(B) - Cardinality(A \cap B)
  BY <1>1, FS_Union
<1>3. Cardinality(C) <= Cardinality(A \cup B)
  BY <1>2, FS_Subset
<1> QED
  BY <1>1, <1>2, <1>3

LEMMA CountSubset ==
  ASSUME NEW A \in SUBSET Notices, NEW C \in SUBSET A
  PROVE  Cardinality(C) <= Cardinality(A)
BY FiniteList, FS_Subset

\* The portal moves one notice.
LEMMA PortalOvertakes ==
  ASSUME TypesInv, OvertakenInv, NEW n \in Notices, Arrive(n) \/ Leave(n)
  PROVE  OvertakenInv'
<1>0. /\ UNCHANGED <<start, lapses>> /\ Found' = Found /\ Answered' = Answered
      /\ changes' = IF start = {} THEN 0 ELSE changes + 1
  BY DEF Arrive, Leave, Change, request, progress, Found, Answered, Rows
<1>1. start \cap Coming' = {}
  BY ArriveMoves, LeaveMoves DEF OvertakenInv
<1>2. SUFFICES ASSUME start # {}
               PROVE  /\ Cardinality(Overtaken') <= Budget'
                      /\ Cardinality(Overtaken') + Cardinality(Live') <= Budget' + Cardinality(start)
  BY <1>0, <1>1 DEF OvertakenInv
<1>3. /\ Cardinality(Overtaken) <= Budget
      /\ Cardinality(Overtaken) + Cardinality(Live) <= Budget + Cardinality(start)
      /\ start \cap Coming = {}
  BY <1>2 DEF OvertakenInv
<1>4. Budget' = Budget + 1
  <2>1. changes' = changes + 1 /\ changes \in Nat /\ PageSize * lapses \in Nat
    BY <1>0, <1>2, CountTypes, Products
  <2>2. Budget' = changes' + PageSize * lapses
    BY <1>0 DEF Budget
  <2> QED BY <2>1, <2>2 DEF Budget
<1>5. /\ Cardinality(Overtaken) \in Nat /\ Cardinality(Live) \in Nat /\ Budget \in Nat
      /\ Cardinality(start) \in Nat /\ Answered * PageSize \in Nat
      /\ Live \in SUBSET Notices /\ Overtaken \in SUBSET Notices
  BY CountTypes
<1>6. /\ Overtaken' \in SUBSET Notices /\ Cardinality(Overtaken') \in Nat
      /\ Cardinality(Live') \in Nat
  <2>1. Overtaken' \in SUBSET Notices /\ Live' \in SUBSET Notices
    BY DEF Overtaken, Live
  <2> QED BY <2>1, FiniteList
<1>7. Overtaken' = {m \in (start \cap Live') \ Found : Place(Live', m) < Answered * PageSize}
  BY <1>0 DEF Overtaken, Place, Above
<1>8. CASE Arrive(n)
  <2>1. /\ n \in Coming /\ Live' = Live \cup {n}
        /\ Cardinality(Live') = Cardinality(Live) + 1
    BY <1>8, ArriveMoves
  <2>2. Overtaken' \in SUBSET Overtaken
    <3> SUFFICES ASSUME NEW m \in Overtaken' PROVE m \in Overtaken
      OBVIOUS
    <3>1. m \in start /\ m \in Live /\ m \notin Found /\ Place(Live \cup {n}, m) < Answered * PageSize
      BY <1>3, <1>7, <2>1
    <3>2. Place(Live, m) <= Place(Live \cup {n}, m)
      BY <1>5, PlaceAfterArrival
    <3>3. Place(Live, m) \in Nat /\ Place(Live \cup {n}, m) \in Nat
      <4>1. Live \cup {n} \in SUBSET Notices
        BY <1>5
      <4> QED BY <1>5, <4>1, PlaceType
    <3>4. Place(Live, m) < Answered * PageSize
      BY <1>5, <3>1, <3>2, <3>3
    <3> QED BY <3>1, <3>4 DEF Overtaken
  <2>3. Cardinality(Overtaken') <= Cardinality(Overtaken)
    BY <1>5, <2>2, CountSubset
  <2> QED BY <1>3, <1>4, <1>5, <1>6, <2>1, <2>3
<1>9. CASE Leave(n)
  <2> DEFINE Edge == {m \in Live : Place(Live, m) = Answered * PageSize}
  <2>1. Live' = Live \ {n} /\ Cardinality(Live') = Cardinality(Live) - 1
    BY <1>9, LeaveMoves
  <2>2. Edge \in SUBSET Live /\ Edge \in SUBSET Notices
    BY <1>5
  <2>3. Cardinality(Edge) <= 1
    <3> DEFINE edge == Answered * PageSize
    <3>1. \A m \in Edge : edge <= Place(Live, m) /\ Place(Live, m) < edge + 1
      BY <1>5
    <3>2. edge \in Nat /\ edge + 1 \in Nat /\ edge <= edge + 1 /\ (edge + 1) - edge = 1
      BY <1>5
    <3> HIDE DEF edge, Edge
    <3>3. Cardinality(Edge) <= (edge + 1) - edge
      BY <1>5, <2>2, <3>1, <3>2, WindowSize
    <3> QED BY <3>2, <3>3
  <2>4. Overtaken' \in SUBSET (Overtaken \cup Edge)
    <3> SUFFICES ASSUME NEW m \in Overtaken' PROVE m \in Overtaken \cup Edge
      OBVIOUS
    <3>1. m \in start /\ m \in Live /\ m \notin Found /\ Place(Live \ {n}, m) < Answered * PageSize
      BY <1>7, <2>1
    <3>2. Place(Live, m) <= Place(Live \ {n}, m) + 1
      BY <1>5, PlaceAfterLeaving
    <3>3. Place(Live, m) \in Nat /\ Place(Live \ {n}, m) \in Nat
      <4>1. Live \ {n} \in SUBSET Notices
        BY <1>5
      <4> QED BY <1>5, <4>1, PlaceType
    <3>4. Place(Live, m) < Answered * PageSize \/ Place(Live, m) = Answered * PageSize
      BY <1>5, <3>1, <3>2, <3>3
    <3> QED BY <3>1, <3>4 DEF Overtaken
  <2>5. Cardinality(Overtaken') <= Cardinality(Overtaken) + Cardinality(Edge)
    BY <1>5, <2>2, <2>4, CountUnion
  <2>6. Cardinality(Edge) \in Nat
    BY <2>2, FiniteList
  <2> QED BY <1>3, <1>4, <1>5, <1>6, <2>1, <2>3, <2>5, <2>6
<1> QED
  BY <1>8, <1>9

\* What an answer makes of the request.
LEMMA AskedCases ==
  ASSUME TypesInv, Asked
  PROVE  /\ pc \in {"ask", "reask"} /\ pc' \in {"yield", "reprime"}
         /\ UNCHANGED <<listed, page, total, limit, got>>
         /\ start' = IF page = 1 THEN Live ELSE start
         /\ changes' = IF page = 1 THEN 0 ELSE changes
         /\ lapses' \in {lapses, lapses + 1}
         /\ pc' = "yield" /\ body' \notin Fragments => lapses' = lapses + 1
         /\ body' \in Fragments => body' = Fragment(page)
         /\ Answered = page - 1 /\ Found = got
         /\ Answered' = IF pc' = "yield" THEN page ELSE page - 1
<1>1. /\ pc \in {"ask", "reask"} /\ pc' \in {"yield", "reprime"}
      /\ UNCHANGED <<listed, page, total, limit, got>>
      /\ start' = IF page = 1 THEN Live ELSE start
      /\ changes' = IF page = 1 THEN 0 ELSE changes
      /\ lapses' \in {lapses, lapses + 1}
  BY DEF Asked, Go, Observe, progress
<1>2. body' \in Fragments => body' = Fragment(page)
  BY AnswerType DEF Asked
<1>3. pc' = "yield" /\ body' \notin Fragments => lapses' = lapses + 1
  BY AnswerType, SweepAssumption DEF Asked, Go, Observe
<1> QED
  BY <1>1, <1>2, <1>3 DEF Answered, Found

\* The page asked for.
LEMMA PageOfList ==
  ASSUME TypesInv, page \in Nat \ {0}
  PROVE  /\ (page - 1) * PageSize \in Nat /\ page * PageSize = (page - 1) * PageSize + PageSize
         /\ PageRows(page) = {n \in Live : /\ (page - 1) * PageSize <= Place(Live, n)
                                           /\ Place(Live, n) < page * PageSize}
         /\ PageRows(page) \in SUBSET Live
         /\ Cardinality(PageRows(page)) <= PageSize
<1>1. page - 1 \in Nat /\ (page - 1) + 1 = page /\ PageSize \in Nat
  BY SweepAssumption
<1> DEFINE q == page - 1
<1>2. q * PageSize \in Nat /\ (q + 1) * PageSize = q * PageSize + PageSize
  BY <1>1, Products
<1>3. /\ (page - 1) * PageSize \in Nat
      /\ page * PageSize = (page - 1) * PageSize + PageSize
  BY <1>1, <1>2
<1>4. /\ PageRows(page) = {n \in Live : /\ (page - 1) * PageSize <= Place(Live, n)
                                        /\ Place(Live, n) < page * PageSize}
      /\ PageRows(page) \in SUBSET Live
  BY DEF PageRows, Place, Above
<1>5. Cardinality(PageRows(page)) <= PageSize
  <2> DEFINE a == (page - 1) * PageSize
             b == page * PageSize
             T == PageRows(page)
  <2>1. a \in Nat /\ b \in Nat /\ a <= b /\ b - a = PageSize
    BY <1>1, <1>3
  <2>2. \A n \in T : a <= Place(Live, n) /\ Place(Live, n) < b
    BY <1>4
  <2>3. T \in SUBSET Live
    BY <1>4
  <2> HIDE DEF a, b, T
  <2>4. Cardinality(T) <= b - a
    BY <2>1, <2>2, <2>3, LiveType, WindowSize
  <2> QED BY <2>1, <2>4 DEF T
<1> QED
  BY <1>3, <1>4, <1>5

\* An answer: a fragment leaves nothing of its page behind, and what is not
\* one leaves a page behind at most and counts as a lapse.
LEMMA AnswerOvertakes ==
  ASSUME TypesInv, OvertakenInv, Asked
  PROVE  OvertakenInv'
<1> DEFINE W    == PageRows(page)
           Base == IF page = 1 THEN {} ELSE Overtaken
           base == IF page = 1 THEN 0 ELSE Budget
<1>0. page \in Nat \ {0} /\ PageSize \in Nat
  BY SweepAssumption DEF TypesInv, SweepTypeOK
<1>1. /\ (page - 1) * PageSize \in Nat /\ page * PageSize = (page - 1) * PageSize + PageSize
      /\ W = {n \in Live : /\ (page - 1) * PageSize <= Place(Live, n)
                           /\ Place(Live, n) < page * PageSize}
      /\ W \in SUBSET Live /\ Cardinality(W) <= PageSize
  BY <1>0, PageOfList
<1>2. Live' = Live /\ Coming' = Coming
  BY AskedCases DEF Live, Coming
<1>3. start' \cap Coming' = {}
  <2>1. Live \cap Coming = {}
    BY DEF Live, Coming
  <2> QED BY <1>2, <2>1, AskedCases DEF OvertakenInv
<1>4. SUFFICES ASSUME start' # {}
               PROVE  /\ Cardinality(Overtaken') <= Budget'
                      /\ Cardinality(Overtaken') + Cardinality(Live') <= Budget' + Cardinality(start')
  BY <1>3 DEF OvertakenInv
<1>5. /\ Live \in SUBSET Notices /\ Cardinality(Live) \in Nat
      /\ Cardinality(start) \in Nat /\ Overtaken \in SUBSET Notices
      /\ Cardinality(Overtaken) \in Nat /\ Budget \in Nat
      /\ changes \in Nat /\ lapses \in Nat
  BY CountTypes
<1>6. /\ Cardinality(Base) <= base /\ base \in Nat /\ Cardinality(Base) \in Nat
      /\ Cardinality(Base) + Cardinality(Live) <= base + Cardinality(start')
      /\ Base \in SUBSET Notices
  <2>1. CASE page = 1
    <3>1. Cardinality(Base) = 0 /\ base = 0 /\ start' = Live
      BY <2>1, AskedCases, FS_EmptySet
    <3> QED BY <1>5, <2>1, <3>1
  <2>2. CASE page # 1
    <3>1. start' = start
      BY <2>2, AskedCases
    <3> QED BY <1>4, <1>5, <2>2, <3>1 DEF OvertakenInv
  <2> QED BY <2>1, <2>2
<1>7. /\ Budget' = changes' + PageSize * lapses' /\ changes' \in Nat
      /\ Budget' >= base
      /\ pc' = "yield" /\ body' \notin Fragments => Budget' >= base + PageSize
      /\ Budget' \in Nat
  <2>1. /\ Budget' = changes' + PageSize * lapses'
        /\ Budget = changes + PageSize * lapses
    BY DEF Budget
  <2>2. /\ PageSize * lapses \in Nat
        /\ PageSize * (lapses + 1) = PageSize * lapses + PageSize
    BY <1>5, Products
  <2>3. PageSize * lapses' \in {PageSize * lapses, PageSize * lapses + PageSize}
    BY <2>2, AskedCases
  <2>4. pc' = "yield" /\ body' \notin Fragments => PageSize * lapses' = PageSize * lapses + PageSize
    BY <2>2, AskedCases
  <2>5. changes' \in Nat /\ (IF page = 1 THEN changes' = 0 ELSE changes' = changes)
    BY <1>5, AskedCases
  <2> HIDE DEF W, Base
  <2> QED BY <1>0, <1>5, <2>1, <2>2, <2>3, <2>4, <2>5
<1>8. \A n \in Live : /\ Place(Live, n) \in Nat
                      /\ page = 1 => ~(Place(Live, n) < (page - 1) * PageSize)
  <2> SUFFICES ASSUME NEW n \in Live
               PROVE  /\ Place(Live, n) \in Nat
                      /\ page = 1 => ~(Place(Live, n) < (page - 1) * PageSize)
    OBVIOUS
  <2>1. Place(Live, n) \in Nat
    BY <1>5, PlaceType
  <2>2. page = 1 => (page - 1) * PageSize = 0
    BY <1>0
  <2> QED BY <2>1, <2>2
<1>9. Overtaken' = {n \in (start' \cap Live) \ Found' : Place(Live, n) < Answered' * PageSize}
  BY <1>2 DEF Overtaken, Place, Above
<1>10. \A n \in start' \cap Live :
         n \notin got /\ Place(Live, n) < (page - 1) * PageSize => n \in Base
  <2> SUFFICES ASSUME NEW n \in start' \cap Live, n \notin got,
                      Place(Live, n) < (page - 1) * PageSize
               PROVE  n \in Base
    OBVIOUS
  <2>1. page # 1
    BY <1>8
  <2>2. start' = start /\ Found = got /\ Answered = page - 1
    BY <2>1, AskedCases
  <2> QED BY <2>1, <2>2 DEF Overtaken
<1>11. CASE pc' = "reprime"
  <2>1. Answered' = page - 1 /\ Found' = got
    BY <1>11, AskedCases DEF Found
  <2>2. Overtaken' \in SUBSET Base
    BY <1>9, <1>10, <2>1
  <2>3. Cardinality(Overtaken') <= Cardinality(Base) /\ Cardinality(Overtaken') \in Nat
    <3>1. Overtaken' \in SUBSET Notices
      BY <1>6, <2>2
    <3> QED BY <1>6, <2>2, <3>1, CountSubset, FiniteList
  <2>4. Cardinality(start') \in Nat
    BY <1>5, AskedCases
  <2> HIDE DEF Base, base, W
  <2> QED BY <1>2, <1>5, <1>6, <1>7, <2>3, <2>4
<1>12. CASE pc' = "yield" /\ body' \in Fragments
  <2>1. Answered' = page /\ Found' = got \cup W
    <3>1. body' = Fragment(page) /\ got' = got
      BY <1>12, AskedCases
    <3>2. Rows(body') = W
      BY <1>12, <3>1, SweepAssumption DEF Rows, Fragment
    <3> QED BY <1>12, <3>1, <3>2, AskedCases DEF Found
  <2>2. Overtaken' \in SUBSET Base
    <3> SUFFICES ASSUME NEW n \in Overtaken' PROVE n \in Base
      OBVIOUS
    <3>1. n \in start' \cap Live /\ n \notin got /\ n \notin W /\ Place(Live, n) < page * PageSize
      BY <1>9, <2>1
    <3>2. Place(Live, n) < (page - 1) * PageSize
      <4> HIDE DEF W
      <4> QED BY <1>1, <1>8, <3>1
    <3> QED BY <1>10, <3>1, <3>2
  <2>3. Cardinality(Overtaken') <= Cardinality(Base) /\ Cardinality(Overtaken') \in Nat
    <3>1. Overtaken' \in SUBSET Notices
      BY <1>6, <2>2
    <3> QED BY <1>6, <2>2, <3>1, CountSubset, FiniteList
  <2>4. Cardinality(start') \in Nat
    BY <1>5, AskedCases
  <2> HIDE DEF Base, base, W
  <2> QED BY <1>2, <1>5, <1>6, <1>7, <2>3, <2>4
<1>13. CASE pc' = "yield" /\ body' \notin Fragments
  <2>1. Answered' = page /\ got \subseteq Found'
    BY <1>13, AskedCases DEF Found
  <2>2. Overtaken' \in SUBSET (Base \cup W)
    <3> SUFFICES ASSUME NEW n \in Overtaken' PROVE n \in Base \cup W
      OBVIOUS
    <3>1. n \in start' \cap Live /\ n \notin got /\ Place(Live, n) < page * PageSize
      BY <1>9, <2>1
    <3>2. Place(Live, n) < (page - 1) * PageSize \/ n \in W
      <4> HIDE DEF W
      <4> QED BY <1>1, <1>8, <3>1
    <3> QED BY <1>10, <3>1, <3>2
  <2>3. /\ Cardinality(Overtaken') <= Cardinality(Base) + Cardinality(W)
        /\ Cardinality(Overtaken') \in Nat /\ Cardinality(W) \in Nat
    <3>1. Overtaken' \in SUBSET Notices /\ W \in SUBSET Notices
      BY <1>1, <1>5, <1>6, <2>2
    <3> QED BY <1>6, <2>2, <3>1, CountUnion, FiniteList
  <2>4. Cardinality(start') \in Nat
    BY <1>5, AskedCases
  <2> HIDE DEF Base, base, W
  <2> QED BY <1>0, <1>1, <1>2, <1>5, <1>6, <1>7, <1>13, <2>3, <2>4
<1> QED
  BY <1>11, <1>12, <1>13, AskedCases

LEMMA StepOvertaken ==
  ASSUME TypesInv, OvertakenInv, [Next]_sweepVars
  PROVE  OvertakenInv'
<1>1. CASE \E n \in Notices : Arrive(n) \/ Leave(n)
  BY <1>1, PortalOvertakes
<1>2. CASE Begin \/ End
  BY <1>2 DEF Begin, End, OvertakenInv
<1>3. CASE Asked
  BY <1>3, AnswerOvertakes
<1>4. ASSUME UNCHANGED <<listed, start, changes, lapses>>, Found' = Found, Answered' = Answered
      PROVE  OvertakenInv'
  BY <1>4 DEF OvertakenInv, Overtaken, Budget, Live, Coming, Place, Above
<1>5. CASE Primed \/ Refused
  BY <1>4, <1>5 DEF Primed, Refused, Go, progress, observed, Found, Answered, Requests
<1>6. CASE Yield
  <2>1. pc = "yield" /\ pc' \in {"done", "ask"} /\ page' = (IF pc' = "done" THEN page ELSE page + 1)
    BY <1>6 DEF Yield
  <2>2. got' = got \cup Rows(body) /\ UNCHANGED <<listed, start, changes, lapses>>
    BY <1>6 DEF Yield, observed
  <2>3. page \in Nat
    BY DEF TypesInv, SweepTypeOK
  <2>4. Found' = Found /\ Answered' = Answered
    BY <2>1, <2>2, <2>3 DEF Found, Answered
  <2> QED BY <1>4, <2>2, <2>4
<1>7. CASE UNCHANGED sweepVars
  BY <1>4, <1>7 DEF sweepVars, request, progress, observed, Found, Answered, Rows
<1> QED
  BY <1>1, <1>2, <1>3, <1>5, <1>6, <1>7 DEF Next, Step

-----------------------------------------------------------------------------
(* The number of pages. *)

LEMMA StepPages ==
  ASSUME TypesInv, PagesInv, [Next]_sweepVars
  PROVE  PagesInv'
<1>0. /\ page \in Nat \ {0} /\ total \in Nat \cup {None}
      /\ body \in Fragments \cup {None, Expired, Other}
      /\ pc = "yield" => body # None
      /\ pc \in {"idle", "prime"} => page = 1 /\ total = None
  BY DEF TypesInv, SweepTypeOK
<1>1. CASE \E n \in Notices : Arrive(n) \/ Leave(n)
  BY <1>1 DEF Arrive, Leave, request, progress, PagesInv
<1>2. CASE Begin
  BY <1>2 DEF Begin, Go, PagesInv
<1>3. CASE Primed
  BY <1>0, <1>3 DEF Primed, Go, progress, observed, PagesInv
<1>4. CASE Asked
  <2>1. total # None => start' = start /\ page > 1
    BY <1>4, AskedCases DEF PagesInv
  <2>2. page > 1 => total # None
    BY <1>4, AskedCases DEF PagesInv
  <2>3. pc' = "yield" /\ total = None /\ body' \in Fragments =>
          Cardinality(start') <= body'.pages * PageSize
    <3> SUFFICES ASSUME total = None, body' \in Fragments
                 PROVE  Cardinality(start') <= body'.pages * PageSize
      OBVIOUS
    <3>1. start' = Live
      BY <1>0, <1>4, <2>2, AskedCases
    <3>2. body'.pages = PageCount
      BY <1>4, AskedCases DEF Fragment
    <3> QED BY <3>1, <3>2, PagesHoldList
  <2> QED BY <1>4, <2>1, <2>2, <2>3, AskedCases DEF PagesInv
<1>5. CASE Refused
  <2>1. pc \in Requests /\ pc' \in {pc, "raised"} /\ UNCHANGED <<page, total, start, body>>
    BY <1>5 DEF Refused, progress, observed
  <2> QED BY <1>0, <2>1 DEF PagesInv, Requests
<1>6. CASE Yield
  <2> DEFINE pages == IF total = None THEN TotalPages(body) ELSE total
  <2>1. /\ pc = "yield" /\ total' = pages /\ start' = start /\ pc' \in {"ask", "done"}
        /\ pc' = "ask" => page' = page + 1 /\ pages # None
    BY <1>6 DEF Yield, LastPage, observed
  <2>2. total' # None => Cardinality(start) <= total' * PageSize
    <3>1. CASE total # None
      BY <2>1, <3>1 DEF PagesInv
    <3>2. CASE total = None
      <4>1. body \in Fragments => total' = body.pages
        BY <2>1, <3>2, SweepAssumption DEF TotalPages
      <4>2. body \notin Fragments => total' = None
        BY <1>0, <2>1, <3>2 DEF TotalPages
      <4> QED BY <2>1, <3>2, <4>1, <4>2 DEF PagesInv
    <3> QED BY <3>1, <3>2
  <2> QED BY <1>0, <2>1, <2>2 DEF PagesInv
<1>7. CASE End
  BY <1>7 DEF End, PagesInv
<1>8. CASE UNCHANGED sweepVars
  BY <1>8 DEF sweepVars, request, progress, observed, PagesInv
<1> QED
  BY <1>1, <1>2, <1>3, <1>4, <1>5, <1>6, <1>7, <1>8 DEF Next, Step

-----------------------------------------------------------------------------
(* What is skipped. *)

\* Once the last page is answered a change can only account for less.
LEMMA PortalSkips ==
  ASSUME TypesInv, OvertakenInv, NEW n \in Notices, Arrive(n) \/ Leave(n),
         Cardinality(Skipped) <= Budget
  PROVE  Cardinality(Skipped') <= Budget'
<1>1. /\ UNCHANGED <<start, got, lapses>>
      /\ changes' = IF start = {} THEN 0 ELSE changes + 1
  BY DEF Arrive, Leave, Change, progress
<1>2. Skipped' \in SUBSET Skipped
  <2>1. start \cap Live' \subseteq Live
    BY ArriveMoves, LeaveMoves DEF OvertakenInv
  <2> QED BY <1>1, <2>1 DEF Skipped
<1>3. /\ changes \in Nat /\ lapses \in Nat /\ Skipped \in SUBSET Notices
      /\ Cardinality(Skipped) \in Nat /\ PageSize * lapses \in Nat
  BY CountTypes, Products
<1>4. Cardinality(Skipped') <= Cardinality(Skipped) /\ Cardinality(Skipped') \in Nat
  <2>1. Skipped' \in SUBSET Notices
    BY <1>2, <1>3
  <2> QED BY <1>2, <1>3, <2>1, CountSubset, FiniteList
<1>5. Budget' = changes' + PageSize * lapses /\ Budget = changes + PageSize * lapses
  BY <1>1 DEF Budget
<1>6. CASE start = {}
  <2>1. Skipped' = {} /\ changes' = 0
    BY <1>1, <1>6 DEF Skipped
  <2> QED BY <1>3, <1>5, <2>1, FS_EmptySet
<1>7. CASE start # {}
  BY <1>1, <1>3, <1>4, <1>5, <1>7
<1> QED
  BY <1>6, <1>7

\* An answer without rows is past the end of the list, so what is skipped
\* is what was overtaken.
LEMMA StepPastTheEnd ==
  ASSUME TypesInv, OvertakenInv, PastTheEndInv, [Next]_sweepVars
  PROVE  PastTheEndInv'
<1>1. CASE \E n \in Notices : Arrive(n) \/ Leave(n)
  <2> SUFFICES ASSUME pc' = "yield", body' \in Fragments, body'.rows = {}
               PROVE  Cardinality(Skipped') <= Budget'
    BY DEF PastTheEndInv
  <2>1. UNCHANGED <<pc, body>>
    BY <1>1 DEF Arrive, Leave, request
  <2>2. Cardinality(Skipped) <= Budget
    BY <2>1 DEF PastTheEndInv
  <2> QED BY <1>1, <2>2, PortalSkips
<1>2. CASE Asked
  <2> SUFFICES ASSUME pc' = "yield", body' \in Fragments, body'.rows = {}
               PROVE  Cardinality(Skipped') <= Budget'
    BY DEF PastTheEndInv
  <2>0. page \in Nat \ {0} /\ PageSize \in Nat \ {0}
    BY SweepAssumption DEF TypesInv, SweepTypeOK
  <2>1. PageRows(page) = {}
    BY <1>2, AskedCases DEF Fragment
  <2>2. \A n \in Live : Place(Live, n) < (page - 1) * PageSize
    <3> DEFINE c == (page - 1) * PageSize
               d == page * PageSize
    <3>1. /\ c \in Nat /\ d \in Nat /\ c < d
      BY <2>0, PageOfList
    <3>2. \A n \in Live : ~(c <= Place(Live, n) /\ Place(Live, n) < d)
      BY <2>0, <2>1, PageOfList
    <3> HIDE DEF c, d
    <3>3. \A n \in Live : Place(Live, n) < c
      BY <3>1, <3>2, LiveType, NoGap
    <3> QED BY <3>3 DEF c
  <2>3. Skipped' = (start' \cap Live) \ got
    BY <1>2, AskedCases DEF Skipped, Live
  <2>4. Budget' \in Nat
    <3>1. changes' \in Nat /\ lapses' \in Nat
      BY <1>2, AskedCases, CountTypes
    <3>2. PageSize * lapses' \in Nat
      BY <3>1, Products
    <3> QED BY <3>1, <3>2 DEF Budget
  <2>5. CASE page = 1
    <3>1. Live = {}
      <4>1. (page - 1) * PageSize = 0
        BY <2>0, <2>5
      <4>2. \A n \in Live : Place(Live, n) \in Nat /\ Place(Live, n) < 0
        BY <2>2, <4>1, LiveType, PlaceType
      <4> QED BY <4>2
    <3> QED BY <2>3, <2>4, <3>1, FS_EmptySet
  <2>6. CASE page # 1
    <3>1. /\ start' = start /\ changes' = changes /\ lapses' \in {lapses, lapses + 1}
          /\ Found = got /\ Answered = page - 1
      BY <1>2, <2>6, AskedCases
    <3>2. Skipped' = Overtaken
      BY <2>2, <2>3, <3>1 DEF Overtaken
    <3>3. Budget' >= Budget /\ Budget \in Nat
      <4>1. /\ changes \in Nat /\ lapses \in Nat /\ PageSize * lapses \in Nat
            /\ PageSize * (lapses + 1) = PageSize * lapses + PageSize
        BY CountTypes, Products
      <4>2. Budget' = changes + PageSize * lapses' /\ Budget = changes + PageSize * lapses
        BY <3>1 DEF Budget
      <4>3. PageSize * lapses' \in {PageSize * lapses, PageSize * lapses + PageSize}
        BY <3>1, <4>1
      <4> QED BY <2>0, <4>1, <4>2, <4>3
    <3>4. CASE start = {}
      BY <2>3, <2>4, <3>1, <3>4, FS_EmptySet
    <3>5. CASE start # {}
      <4>1. Cardinality(Overtaken) <= Budget /\ Cardinality(Overtaken) \in Nat
        BY <3>5, CountTypes DEF OvertakenInv
      <4> QED BY <2>4, <3>2, <3>3, <4>1
    <3> QED BY <3>4, <3>5
  <2> QED BY <2>5, <2>6
<1>3. CASE Begin \/ Primed \/ Refused \/ Yield \/ End
  <2>1. pc' # "yield"
    BY <1>3 DEF Begin, Primed, Refused, Yield, End, Go, Requests
  <2> QED BY <2>1 DEF PastTheEndInv
<1>4. CASE UNCHANGED sweepVars
  BY <1>4 DEF sweepVars, request, progress, observed, PastTheEndInv, Skipped, Budget, Live
<1> QED
  BY <1>1, <1>2, <1>3, <1>4 DEF Next, Step

\* The last page: either it was past the end, or the pages answered are as
\* many as held the list, and what lies behind them arrived since.
LEMMA LastPageSkips ==
  ASSUME SweepInv, Yield, pc' = "done", total' # None, limit = None
  PROVE  Cardinality(Skipped') <= Budget'
<1> USE DEF SweepInv
<1>0. /\ page \in Nat \ {0} /\ pc = "yield"
      /\ body \in Fragments \cup {None, Expired, Other} /\ body # None
      /\ total \in Nat \cup {None}
  BY DEF TypesInv, SweepTypeOK, Yield
<1>1. /\ start' = start /\ Live' = Live /\ Budget' = Budget /\ page' = page
      /\ got' = got \cup Rows(body)
      /\ \/ body \notin {Expired, Other} /\ body.rows = {}
         \/ total' \in Nat /\ page >= total'
  <2>1. page # limit
    BY <1>0, SweepAssumption
  <2>2. total' \in Nat
    BY <1>0 DEF Yield, TotalPages, Fragments
  <2>3. /\ start' = start /\ Live' = Live /\ Budget' = Budget
        /\ got' = got \cup Rows(body)
    BY DEF Yield, observed, Live, Budget
  <2>4. (body \notin {Expired, Other} /\ body.rows = {}) \/ LastPage(total')
    BY DEF Yield
  <2>5. page' = page
    BY DEF Yield
  <2> QED BY <2>1, <2>2, <2>3, <2>4, <2>5 DEF LastPage
<1>2. Skipped' = (start \cap Live) \ Found
  BY <1>0, <1>1 DEF Skipped, Found
<1>3. CASE body \notin {Expired, Other} /\ body.rows = {}
  <2>1. Rows(body) = {}
    BY <1>3 DEF Rows
  <2>2. Cardinality(Skipped) <= Budget
    BY <1>0, <1>3 DEF PastTheEndInv
  <2> QED BY <1>1, <2>1, <2>2 DEF Skipped
<1>4. CASE total' \in Nat /\ page >= total'
  <2> DEFINE seen == page * PageSize
             Unread == {n \in Live : seen <= Place(Live, n)}
  <2>1. /\ Live \in SUBSET Notices /\ Overtaken \in SUBSET Notices
        /\ Cardinality(Live) \in Nat /\ Cardinality(start) \in Nat
        /\ Cardinality(Overtaken) \in Nat /\ Budget \in Nat /\ seen \in Nat
    BY <1>0, CountTypes, Products
  <2>2. Cardinality(start) <= seen
    <3>1. PagesInv'
      BY StepPages DEF Next, Step
    <3>2. Cardinality(start) <= total' * PageSize
      BY <1>1, <3>1 DEF PagesInv
    <3>3. total' * PageSize <= seen /\ total' * PageSize \in Nat
      BY <1>0, <1>4, Products
    <3> QED BY <2>1, <3>2, <3>3
  <2>3. Skipped' \in SUBSET (Overtaken \cup Unread)
    <3>1. Answered = page
      BY <1>0 DEF Answered
    <3>2. \A n \in Live : Place(Live, n) \in Nat
      BY <2>1, PlaceType
    <3> QED BY <1>2, <2>1, <3>1, <3>2 DEF Overtaken
  <2>4. Unread \in SUBSET Live /\ Unread \in SUBSET Notices
    BY <2>1
  <2>5. Cardinality(Unread) = 0 \/ Cardinality(Unread) + seen <= Cardinality(Live)
    <3>1. \A n \in Unread : seen <= Place(Live, n)
      OBVIOUS
    <3> HIDE DEF Unread, seen
    <3> QED BY <2>1, <2>4, <3>1, TailSize
  <2> HIDE DEF Unread, seen
  <2>6. Cardinality(Skipped') <= Cardinality(Overtaken) + Cardinality(Unread)
    BY <2>1, <2>3, <2>4, CountUnion
  <2>7. Cardinality(Unread) \in Nat /\ Cardinality(Skipped') \in Nat
    <3>1. Skipped' \in SUBSET Notices
      BY <2>1, <2>3, <2>4
    <3> QED BY <2>4, <3>1, FiniteList
  <2>8. CASE start = {}
    <3>1. Skipped' = {}
      BY <1>2, <2>8
    <3> QED BY <1>1, <2>1, <3>1, FS_EmptySet
  <2>9. CASE start # {}
    <3>1. /\ Cardinality(Overtaken) <= Budget
          /\ Cardinality(Overtaken) + Cardinality(Live) <= Budget + Cardinality(start)
      BY <2>9 DEF OvertakenInv
    <3>2. Cardinality(Skipped') <= Budget
      BY <2>1, <2>2, <2>5, <2>6, <2>7, <3>1
    <3> QED BY <1>1, <3>2
  <2> QED BY <2>8, <2>9
<1> QED
  BY <1>1, <1>3, <1>4

LEMMA StepSkipped ==
  ASSUME SweepInv, [Next]_sweepVars
  PROVE  SkippedBounded'
<1> SUFFICES ASSUME pc' = "done", total' # None, limit' = None
             PROVE  Cardinality(Skipped') <= Budget'
  BY DEF SkippedBounded, Budget
<1> USE DEF SweepInv
<1>1. ASSUME NEW n \in Notices, Arrive(n) \/ Leave(n)
      PROVE  Cardinality(Skipped') <= Budget'
  <2>1. UNCHANGED <<pc, total, limit>>
    BY <1>1 DEF Arrive, Leave, request, progress
  <2>2. Cardinality(Skipped) <= Budget
    BY <2>1 DEF SkippedBounded, Budget
  <2> QED BY <1>1, <2>2, PortalSkips
<1>2. CASE Yield
  <2>1. limit' = limit
    BY <1>2 DEF Yield
  <2> QED BY <1>2, <2>1, LastPageSkips
<1>3. CASE Begin \/ Primed \/ Asked \/ Refused \/ End
  BY <1>3 DEF Begin, Primed, Asked, Refused, End, Go, Requests
<1>4. CASE UNCHANGED sweepVars
  BY <1>4 DEF sweepVars, request, progress, observed, SkippedBounded, Skipped, Budget, Live
<1> QED
  BY <1>1, <1>2, <1>3, <1>4 DEF Next, Step

LEMMA SweepInvHolds == Spec => []SweepInv
<1>1. Init => SweepInv
  <2> SUFFICES ASSUME Init PROVE SweepInv
    OBVIOUS
  <2>1. TypesInv
    BY InitTypes
  <2> QED BY <2>1 DEF Init, SweepInv, OvertakenInv, PagesInv, PastTheEndInv, SkippedBounded
<1>2. SweepInv /\ [Next]_sweepVars => SweepInv'
  <2> SUFFICES ASSUME SweepInv, [Next]_sweepVars PROVE SweepInv'
    OBVIOUS
  <2>1. TypesInv /\ OvertakenInv /\ PagesInv /\ PastTheEndInv
    BY DEF SweepInv
  <2> QED BY <2>1, StepTypes, StepOvertaken, StepPages, StepPastTheEnd, StepSkipped DEF SweepInv
<1> QED
  BY <1>1, <1>2, PTL DEF Spec

(***************************************************************************)
(* fetch: a full sweep that ends with a page count has yielded all that    *)
(* was on the list when it began and still is, but for one notice at most  *)
(* for each that came or went since, and a page for each answer that was   *)
(* no fragment, whatever the size of the list and of its pages, whenever   *)
(* sessions expire and requests are refused.                               *)
(***************************************************************************)
THEOREM SkippedAlwaysBounded == Spec => []SkippedBounded
<1>1. SweepInv => SkippedBounded
  BY DEF SweepInv
<1> QED
  BY <1>1, SweepInvHolds, PTL
-----------------------------------------------------------------------------
(* The sum the average is taken of. *)

\* One step of the fold, and the fold.
Weigh(log, g, s) == IF s = {} THEN 0 ELSE log[Pick(s)].found + g[s \ {Pick(s)}]
Fold(log, S)     == CHOOSE g : g = [s \in SUBSET S |-> Weigh(log, g, s)]
Sum(log, S)      == MapThenSumSet(LAMBDA i : log[i].found, S)

LEMMA SumIsFold ==
  ASSUME NEW log, NEW S
  PROVE  Sum(log, S) = Fold(log, S)[S]
BY DEF Sum, MapThenSumSet, MapThenFoldSet, Pick, Fold, Weigh

\* The recursion has a solution on the subsets of up to n elements, for
\* every n.
DefinedOn(log, D) == \E g : g = [s \in D |-> Weigh(log, g, s)]

LEMMA FoldDefined ==
  ASSUME NEW log, NEW S, IsFiniteSet(S)
  PROVE  \A T \in SUBSET S : Fold(log, S)[T] = Weigh(log, Fold(log, S), T)
<1> DEFINE Small(n) == {s \in SUBSET S : Cardinality(s) <= n}
           Defined  == {n \in Nat : DefinedOn(log, Small(n))}
<1>1. \A T \in SUBSET S : /\ IsFiniteSet(T) /\ Cardinality(T) \in Nat
                          /\ Cardinality(T) <= Cardinality(S)
  BY FS_Subset, FS_CardinalityType
<1>2. 0 \in Defined
  <2> DEFINE g == [s \in Small(0) |-> 0]
  <2>1. \A s \in Small(0) : s = {}
    BY <1>1, FS_EmptySet
  <2>2. g = [s \in Small(0) |-> Weigh(log, g, s)]
    BY <2>1 DEF Weigh
  <2>3. \E f : f = [s \in Small(0) |-> Weigh(log, f, s)]
    <3> HIDE DEF g, Small
    <3> QED BY <2>2
  <2> QED BY <2>3 DEF DefinedOn
<1>3. \A n \in Nat : n \in Defined => n + 1 \in Defined
  <2> SUFFICES ASSUME NEW n \in Nat, n \in Defined PROVE n + 1 \in Defined
    OBVIOUS
  <2>1. PICK g : g = [s \in Small(n) |-> Weigh(log, g, s)]
    BY DEF DefinedOn
  <2> DEFINE h == [s \in Small(n + 1) |-> Weigh(log, g, s)]
  <2>2. ASSUME NEW s \in Small(n + 1), s # {}
        PROVE  /\ s \ {Pick(s)} \in Small(n) /\ s \ {Pick(s)} \in Small(n + 1)
    <3>1. Pick(s) \in s /\ s \ {Pick(s)} \in SUBSET S
      BY <2>2, PickType
    <3>2. Cardinality(s \ {Pick(s)}) = Cardinality(s) - 1
      BY <1>1, <3>1, FS_RemoveElement
    <3>3. Cardinality(s) \in Nat /\ Cardinality(s) <= n + 1
      BY <1>1
    <3>4. Cardinality(s \ {Pick(s)}) <= n /\ Cardinality(s \ {Pick(s)}) <= n + 1
      BY <3>2, <3>3
    <3> QED BY <3>1, <3>4
  <2>3. \A s \in Small(n) : g[s] = Weigh(log, g, s)
    <3> HIDE DEF Small
    <3> QED BY <2>1
  <2>4. \A s \in Small(n + 1) : h[s] = Weigh(log, g, s)
    OBVIOUS
  <2>5. ASSUME NEW s \in Small(n + 1) PROVE Weigh(log, g, s) = Weigh(log, h, s)
    <3>1. CASE s = {}
      BY <3>1 DEF Weigh
    <3>2. CASE s # {}
      <4>1. h[s \ {Pick(s)}] = g[s \ {Pick(s)}]
        <5> HIDE DEF Small, h
        <5> QED BY <2>2, <2>3, <2>4, <3>2
      <4> HIDE DEF h, Small
      <4> QED BY <3>2, <4>1 DEF Weigh
    <3> QED BY <3>1, <3>2
  <2>6. h = [s \in Small(n + 1) |-> Weigh(log, h, s)]
    BY <2>5
  <2>7. \E f : f = [s \in Small(n + 1) |-> Weigh(log, f, s)]
    <3> HIDE DEF h, Small
    <3> QED BY <2>6
  <2>8. DefinedOn(log, Small(n + 1))
    <3> HIDE DEF h, Small
    <3> QED BY <2>7 DEF DefinedOn
  <2> QED BY <2>8
<1>4. Nat \subseteq Defined
  <2> HIDE DEF Defined
  <2> QED BY <1>2, <1>3, AllNumbers
<1>5. Cardinality(S) \in Defined
  BY <1>1, <1>4, FS_CardinalityType
<1>6. Small(Cardinality(S)) = SUBSET S
  BY <1>1
<1>7. DefinedOn(log, SUBSET S)
  <2> HIDE DEF Small
  <2> QED BY <1>5, <1>6
<1> DEFINE F == Fold(log, S)
<1>8. F = [s \in SUBSET S |-> Weigh(log, F, s)]
  BY <1>7 DEF DefinedOn, Fold
<1> HIDE DEF F
<1>9. \A T \in SUBSET S : F[T] = Weigh(log, F, T)
  BY <1>8
<1> QED
  BY <1>9 DEF F

LEMMA FoldStep ==
  ASSUME NEW log, NEW S, IsFiniteSet(S)
  PROVE  /\ Fold(log, S)[{}] = 0
         /\ \A T \in SUBSET S : T # {} =>
              Fold(log, S)[T] = log[Pick(T)].found + Fold(log, S)[T \ {Pick(T)}]
<1>1. \A T \in SUBSET S : Fold(log, S)[T] = Weigh(log, Fold(log, S), T)
  BY FoldDefined
<1>2. Fold(log, S)[{}] = 0
  BY <1>1 DEF Weigh
<1>3. \A T \in SUBSET S : T # {} =>
        Fold(log, S)[T] = log[Pick(T)].found + Fold(log, S)[T \ {Pick(T)}]
  BY <1>1 DEF Weigh
<1> QED
  BY <1>2, <1>3

\* A sum of numbers, none of which is above c, is no more than c times as
\* many.
LEMMA SumAtMost ==
  ASSUME NEW log, NEW S, IsFiniteSet(S), NEW c \in Nat,
         \A i \in S : log[i].found \in Nat /\ log[i].found <= c
  PROVE  Sum(log, S) \in Nat /\ Sum(log, S) <= c * Cardinality(S)
<1> DEFINE F == Fold(log, S)
           G == {T \in SUBSET S : F[T] \in Nat /\ F[T] <= c * Cardinality(T)}
<1>1. {} \in G
  <2>1. F[{}] = 0 /\ Cardinality({}) = 0
    BY FoldStep, FS_EmptySet
  <2> HIDE DEF F
  <2> QED BY <2>1
<1>2. \A T \in SUBSET S : T # {} /\ T \ {Pick(T)} \in G => T \in G
  <2> SUFFICES ASSUME NEW T \in SUBSET S, T # {}, T \ {Pick(T)} \in G
               PROVE  F[T] \in Nat /\ F[T] <= c * Cardinality(T)
    OBVIOUS
  <2> DEFINE rest == T \ {Pick(T)}
  <2>1. Pick(T) \in T /\ F[T] = log[Pick(T)].found + F[rest]
    BY PickType, FoldStep
  <2>2. /\ Cardinality(T) \in Nat /\ Cardinality(rest) \in Nat
        /\ Cardinality(T) = Cardinality(rest) + 1
    <3>1. IsFiniteSet(T)
      BY FS_Subset
    <3>2. IsFiniteSet(rest) /\ Cardinality(rest) = Cardinality(T) - 1
      BY <2>1, <3>1, FS_RemoveElement
    <3> QED BY <3>1, <3>2, FS_CardinalityType
  <2>3. F[rest] \in Nat /\ F[rest] <= c * Cardinality(rest)
    OBVIOUS
  <2>4. log[Pick(T)].found \in Nat /\ log[Pick(T)].found <= c
    BY <2>1
  <2> HIDE DEF F, rest, G
  <2>5. c * Cardinality(T) = c * Cardinality(rest) + c /\ c * Cardinality(rest) \in Nat
    BY <2>2
  <2> QED BY <2>1, <2>3, <2>4, <2>5
<1>3. S \in G
  <2> HIDE DEF G
  <2> QED BY <1>1, <1>2, AllSubsets
<1> QED
  BY <1>3, SumIsFold

\* A sum of numbers, some of which are k or more, is no less than k times as
\* many.
LEMMA SumAtLeast ==
  ASSUME NEW log, NEW S, IsFiniteSet(S), NEW k \in Nat,
         \A i \in S : log[i].found \in Nat,
         NEW R \in SUBSET S, \A i \in R : log[i].found >= k
  PROVE  Sum(log, S) \in Nat /\ Sum(log, S) >= k * Cardinality(R)
<1> DEFINE F == Fold(log, S)
           G == {T \in SUBSET S : F[T] \in Nat /\ F[T] >= k * Cardinality(T \cap R)}
<1>1. {} \in G
  <2>1. F[{}] = 0 /\ Cardinality({}) = 0 /\ {} \cap R = {}
    BY FoldStep, FS_EmptySet
  <2> HIDE DEF F
  <2> QED BY <2>1
<1>2. \A T \in SUBSET S : T # {} /\ T \ {Pick(T)} \in G => T \in G
  <2> SUFFICES ASSUME NEW T \in SUBSET S, T # {}, T \ {Pick(T)} \in G
               PROVE  F[T] \in Nat /\ F[T] >= k * Cardinality(T \cap R)
    OBVIOUS
  <2> DEFINE x == Pick(T)
             rest == T \ {x}
             most == Cardinality(rest \cap R)
  <2>1. x \in T /\ F[T] = log[x].found + F[rest]
    BY PickType, FoldStep
  <2>2. /\ most \in Nat
        /\ Cardinality(T \cap R) = IF x \in R THEN most + 1 ELSE most
    <3>1. IsFiniteSet(T \cap R) /\ T \cap R \in SUBSET S
      BY FS_Subset
    <3>2. rest \cap R = (T \cap R) \ {x}
      OBVIOUS
    <3>3. /\ IsFiniteSet(rest \cap R)
          /\ most = IF x \in T \cap R THEN Cardinality(T \cap R) - 1 ELSE Cardinality(T \cap R)
      <4> DEFINE both == T \cap R
      <4> HIDE DEF x, both
      <4>1. IsFiniteSet(both)
        BY <3>1 DEF both
      <4>2. /\ IsFiniteSet(both \ {x})
            /\ Cardinality(both \ {x}) = IF x \in both THEN Cardinality(both) - 1 ELSE Cardinality(both)
        BY <4>1, FS_RemoveElement
      <4> HIDE DEF rest
      <4> QED BY <3>2, <4>2 DEF both
    <3>4. most \in Nat /\ Cardinality(T \cap R) \in Nat
      BY <3>1, <3>3, FS_CardinalityType
    <3> HIDE DEF x, rest, most
    <3> QED BY <2>1, <3>3, <3>4
  <2>3. F[rest] \in Nat /\ F[rest] >= k * most
    OBVIOUS
  <2>4. log[x].found \in Nat /\ (x \in R => log[x].found >= k)
    BY <2>1
  <2> HIDE DEF F, G, x, rest, most
  <2>5. k * (most + 1) = k * most + k /\ k * most \in Nat
    BY <2>2
  <2>6. F[T] \in Nat
    BY <2>1, <2>3, <2>4
  <2>7. CASE x \in R
    BY <2>1, <2>2, <2>3, <2>4, <2>5, <2>7
  <2>8. CASE x \notin R
    BY <2>1, <2>2, <2>3, <2>4, <2>5, <2>8
  <2> QED BY <2>6, <2>7, <2>8
<1>3. S \in G
  <2> HIDE DEF G
  <2> QED BY <1>1, <1>2, AllSubsets
<1>4. S \cap R = R
  OBVIOUS
<1> QED
  BY <1>3, <1>4, SumIsFold
-----------------------------------------------------------------------------
(* The baseline. *)

LEMMA FoundType == \A row \in Row : row.found \in Nat
<1>1. Yields \cup {0} \subseteq Nat
  BY YieldAssumption
<1> QED
  BY <1>1 DEF Row

LEMMA BaselineType ==
  ASSUME NEW log \in Seq(Row)
  PROVE  /\ IsFiniteSet(Recent(log)) /\ Cardinality(Recent(log)) \in Nat
         /\ \A i \in Recent(log) : /\ i \in DOMAIN log /\ log[i].found \in Nat
                                   /\ log[i].status = "ok" /\ log[i].full
<1>1. DOMAIN log = 1 .. Len(log) /\ Len(log) \in Nat
  OBVIOUS
<1>2. Recent(log) \in SUBSET (DOMAIN log)
  BY DEF Recent
<1>3. IsFiniteSet(1 .. Len(log))
  BY <1>1, FS_Interval
<1>4. \A i \in DOMAIN log : log[i].found \in Nat
  <2>1. \A i \in DOMAIN log : log[i] \in Row
    BY <1>1
  <2> QED BY <2>1, FoundType
<1> QED
  BY <1>1, <1>2, <1>3, <1>4, FS_Subset, FS_CardinalityType DEF Recent, Yardstick

\* Below half of the mean, some sweep found more than twice as much.
LEMMA BelowHalfIsBelowSome ==
  ASSUME NEW log \in Seq(Row), NEW found \in Nat, BelowHalfOfMean(found, log)
  PROVE  \E j \in Recent(log) : log[j].found > 2 * found
<1> SUFFICES ASSUME \A j \in Recent(log) : ~(log[j].found > 2 * found)
             PROVE  FALSE
  OBVIOUS
<1> DEFINE S == Recent(log)
           c == 2 * found
<1>1. IsFiniteSet(S) /\ Cardinality(S) \in Nat /\ c \in Nat
  BY BaselineType
<1>2. \A i \in S : log[i].found \in Nat /\ log[i].found <= c
  BY BaselineType
<1>3. c * Cardinality(S) < Sum(log, S)
  BY DEF BelowHalfOfMean, Sum
<1> HIDE DEF S, c
<1>4. Sum(log, S) \in Nat /\ Sum(log, S) <= c * Cardinality(S)
  BY <1>1, <1>2, SumAtMost
<1>5. c * Cardinality(S) \in Nat
  BY <1>1
<1> QED
  BY <1>3, <1>4, <1>5

\* When half of the sweeps found more than four times as much, a run is
\* below half of the mean.
LEMMA HalfRicherIsBelowHalf ==
  ASSUME NEW log \in Seq(Row), NEW found \in Nat, Recent(log) # {},
         NEW R \in SUBSET Recent(log), \A j \in R : log[j].found > 4 * found,
         2 * Cardinality(R) >= Cardinality(Recent(log))
  PROVE  BelowHalfOfMean(found, log)
<1> DEFINE S == Recent(log)
           k == 4 * found + 1
<1>1. /\ IsFiniteSet(S) /\ Cardinality(S) \in Nat /\ k \in Nat
      /\ IsFiniteSet(R) /\ Cardinality(R) \in Nat /\ Cardinality(S) > 0
  <2>1. IsFiniteSet(S) /\ Cardinality(S) \in Nat /\ k \in Nat
    BY BaselineType
  <2>2. IsFiniteSet(R) /\ Cardinality(R) \in Nat
    BY <2>1, FS_Subset, FS_CardinalityType
  <2>3. Cardinality(S) # 0
    BY <2>1, FS_EmptySet
  <2> HIDE DEF S, k
  <2> QED BY <2>1, <2>2, <2>3
<1>2. /\ \A i \in S : log[i].found \in Nat
      /\ \A i \in R : log[i].found >= k
  BY BaselineType
<1>3. Sum(log, S) \in Nat /\ Sum(log, S) >= k * Cardinality(R)
  <2>1. R \in SUBSET S
    OBVIOUS
  <2> HIDE DEF S, k
  <2> QED BY <1>1, <1>2, <2>1, SumAtLeast
<1>4. (2 * found) * Cardinality(S) < k * Cardinality(R)
  <2> DEFINE c == Cardinality(S)
             r == Cardinality(R)
             f == 2 * found
  <2>1. c \in Nat /\ r \in Nat /\ c > 0 /\ 2 * r >= c /\ f \in Nat /\ k = 2 * f + 1
    BY <1>1
  <2> HIDE DEF c, r, f, k, S
  <2>2. PICK d \in Nat : 2 * r = c + d
    <3>1. 2 * r - c \in Nat /\ 2 * r = c + (2 * r - c)
      BY <2>1
    <3> QED BY <3>1
  <2>3. f * (2 * r) = f * c + f * d
    BY <2>1, <2>2
  <2>4. k * r = f * (2 * r) + r /\ f * d \in Nat /\ f * c \in Nat /\ r > 0
    BY <2>1, <2>2
  <2>5. f * c < k * r
    BY <2>1, <2>2, <2>3, <2>4
  <2> QED BY <2>5 DEF f, c, r
<1>5. k * Cardinality(R) \in Nat /\ (2 * found) * Cardinality(S) \in Nat
  BY <1>1
<1> HIDE DEF k
<1>6. (2 * found) * Cardinality(S) < Sum(log, S)
  BY <1>3, <1>4, <1>5
<1> QED
  BY <1>6 DEF BelowHalfOfMean, Sum

-----------------------------------------------------------------------------
(* The log. *)

LEMMA StepYieldTypes ==
  ASSUME YieldTypeOK, [YieldNext]_yieldVars
  PROVE  YieldTypeOK'
<1> USE DEF YieldTypeOK
<1>1. CASE StartRun
  <2>1. PICK full \in BOOLEAN :
          runs' = Append(runs, [status |-> "running", full |-> full, found |-> 0,
                                anomaly |-> FALSE])
    BY <1>1 DEF StartRun
  <2>2. [status |-> "running", full |-> full, found |-> 0, anomaly |-> FALSE] \in Row
    BY DEF Row
  <2>3. /\ runs' \in Seq(Row) /\ Len(runs') = Len(runs) + 1 /\ Len(runs) \in Nat
        /\ \A i \in 1 .. Len(runs) : runs'[i] = runs[i]
        /\ runs'[Len(runs')].status = "running"
    BY <2>1, <2>2
  <2>4. /\ DOMAIN runs = 1 .. Len(runs) /\ DOMAIN runs' = 1 .. Len(runs')
    BY <2>3
  <2>5. open' = open \cup {Len(runs')}
    BY <1>1 DEF StartRun
  <2> QED BY <2>3, <2>4, <2>5
<1>2. ASSUME NEW i \in open, Finalize(i) PROVE YieldTypeOK'
  <2>1. PICK status \in Outcomes, found \in Yields :
          runs' = [runs EXCEPT ![i] =
                     [status |-> status, full |-> runs[i].full, found |-> found,
                      anomaly |-> IsAnomalous(status, runs[i].full, found, runs)]]
    BY <1>2 DEF Finalize
  <2>2. runs[i] \in Row /\ i \in 1 .. Len(runs)
    OBVIOUS
  <2>3. [status |-> status, full |-> runs[i].full, found |-> found,
         anomaly |-> IsAnomalous(status, runs[i].full, found, runs)] \in Row
    <3>1. runs[i].full \in BOOLEAN
      BY <2>2 DEF Row
    <3>2. IsAnomalous(status, runs[i].full, found, runs) \in BOOLEAN
      BY <3>1 DEF IsAnomalous, BelowHalfOfMean
    <3> QED BY <3>1, <3>2 DEF Row, Outcomes
  <2>4. runs' \in Seq(Row) /\ DOMAIN runs' = DOMAIN runs /\ \A j \in DOMAIN runs \ {i} : runs'[j] = runs[j]
    <3> DEFINE row == [status |-> status, full |-> runs[i].full, found |-> found,
                       anomaly |-> IsAnomalous(status, runs[i].full, found, runs)]
    <3>1. row \in Row /\ runs' = [runs EXCEPT ![i] = row]
      BY <2>1, <2>3
    <3> HIDE DEF row
    <3> QED BY <2>2, <3>1
  <2>5. open' = open \ {i}
    BY <1>2 DEF Finalize
  <2> QED BY <2>4, <2>5
<1>3. ASSUME NEW i \in open, Killed(i) PROVE YieldTypeOK'
  BY <1>3 DEF Killed
<1>4. CASE UNCHANGED yieldVars
  BY <1>4 DEF yieldVars
<1> QED
  BY <1>1, <1>2, <1>3, <1>4 DEF YieldNext

\* Of a step: which rows it may write, and what.
LEMMA FinalizeRow ==
  ASSUME YieldTypeOK, NEW i \in open, Finalize(i)
  PROVE  /\ i \in DOMAIN runs /\ DOMAIN runs' = DOMAIN runs /\ runs[i].status = "running"
         /\ \A j \in DOMAIN runs \ {i} : runs'[j] = runs[j]
         /\ runs'[i].full = runs[i].full /\ runs'[i].found \in Nat
         /\ runs'[i].anomaly = IsAnomalous(runs'[i].status, runs'[i].full, runs'[i].found, runs)
<1>1. PICK status \in Outcomes, found \in Yields :
        runs' = [runs EXCEPT ![i] =
                   [status |-> status, full |-> runs[i].full, found |-> found,
                    anomaly |-> IsAnomalous(status, runs[i].full, found, runs)]]
  BY DEF Finalize
<1>2. i \in DOMAIN runs /\ runs[i].status = "running" /\ runs \in Seq(Row)
  BY DEF YieldTypeOK
<1> DEFINE row == [status |-> status, full |-> runs[i].full, found |-> found,
                   anomaly |-> IsAnomalous(status, runs[i].full, found, runs)]
<1>3. /\ row.full = runs[i].full /\ row.found \in Nat
      /\ row.anomaly = IsAnomalous(row.status, row.full, row.found, runs)
  BY YieldAssumption
<1>4. runs' = [runs EXCEPT ![i] = row]
  BY <1>1
<1> HIDE DEF row
<1>5. /\ runs'[i] = row /\ DOMAIN runs' = DOMAIN runs
      /\ \A j \in DOMAIN runs \ {i} : runs'[j] = runs[j]
  BY <1>2, <1>4
<1> QED
  BY <1>2, <1>3, <1>5

(***************************************************************************)
(* The types, for any window: a row is "running" as long as its process is *)
(* alive.                                                                  *)
(***************************************************************************)
THEOREM YieldTypeCorrect == YieldSpec => []YieldTypeOK
<1>1. YieldInit => YieldTypeOK
  BY DEF YieldInit, YieldTypeOK
<1> QED
  BY <1>1, StepYieldTypes, PTL DEF YieldSpec

LEMMA StepNoFalseAlarm ==
  ASSUME YieldTypeOK, NoFalseAlarm, [YieldNext]_yieldVars
  PROVE  NoFalseAlarm'
<1>0. runs \in Seq(Row) /\ runs' \in Seq(Row)
  BY StepYieldTypes DEF YieldTypeOK
<1> SUFFICES ASSUME NEW r \in DOMAIN runs',
                    runs'[r].anomaly, runs'[r].status # "failed", runs'[r].found > 0
             PROVE  /\ runs'[r].full
                    /\ \E j \in DOMAIN runs' \ {r} :
                         /\ runs'[j].status = "ok" /\ runs'[j].full
                         /\ runs'[j].found > 2 * runs'[r].found
  BY DEF NoFalseAlarm
<1>1. CASE StartRun
  <2>1. PICK full \in BOOLEAN :
          runs' = Append(runs, [status |-> "running", full |-> full, found |-> 0,
                                anomaly |-> FALSE])
    BY <1>1 DEF StartRun
  <2>2. /\ Len(runs) \in Nat /\ Len(runs') = Len(runs) + 1
        /\ DOMAIN runs = 1 .. Len(runs) /\ DOMAIN runs' = 1 .. Len(runs')
        /\ \A i \in 1 .. Len(runs) : runs'[i] = runs[i]
        /\ ~runs'[Len(runs')].anomaly
    BY <1>0, <2>1
  <2>3. r \in DOMAIN runs /\ DOMAIN runs \subseteq DOMAIN runs' /\ \A i \in DOMAIN runs : runs'[i] = runs[i]
    BY <2>2
  <2> QED BY <2>3 DEF NoFalseAlarm
<1>2. ASSUME NEW i \in open, Finalize(i)
      PROVE  /\ runs'[r].full
             /\ \E j \in DOMAIN runs' \ {r} :
                  /\ runs'[j].status = "ok" /\ runs'[j].full
                  /\ runs'[j].found > 2 * runs'[r].found
  <2>1. CASE r = i
    <3>1. /\ runs'[r].full /\ BelowHalfOfMean(runs'[r].found, runs)
          /\ runs'[r].found \in Nat
      <4>1. /\ IsAnomalous(runs'[r].status, runs'[r].full, runs'[r].found, runs)
            /\ runs'[r].found \in Nat
        BY <1>2, <2>1, FinalizeRow
      <4> QED BY <4>1 DEF IsAnomalous
    <3>2. PICK j \in Recent(runs) : runs[j].found > 2 * runs'[r].found
      BY <1>0, <3>1, BelowHalfIsBelowSome
    <3>3. j \in DOMAIN runs /\ runs[j].status = "ok" /\ runs[j].full
      BY <1>0, BaselineType
    <3>4. j # i /\ runs'[j] = runs[j] /\ j \in DOMAIN runs'
      BY <1>2, <3>3, FinalizeRow
    <3> QED BY <2>1, <3>1, <3>2, <3>3, <3>4
  <2>2. CASE r # i
    <3>1. r \in DOMAIN runs /\ runs'[r] = runs[r]
      BY <1>2, <2>2, FinalizeRow
    <3>2. /\ runs[r].full
          /\ \E j \in DOMAIN runs \ {r} :
               /\ runs[j].status = "ok" /\ runs[j].full
               /\ runs[j].found > 2 * runs[r].found
      BY <3>1 DEF NoFalseAlarm
    <3>3. PICK j \in DOMAIN runs \ {r} :
               /\ runs[j].status = "ok" /\ runs[j].full
               /\ runs[j].found > 2 * runs[r].found
      BY <3>2
    <3>4. j # i /\ runs'[j] = runs[j] /\ j \in DOMAIN runs'
      BY <1>2, <3>3, FinalizeRow
    <3> QED BY <3>1, <3>2, <3>3, <3>4
  <2> QED BY <2>1, <2>2
<1>3. CASE UNCHANGED runs
  BY <1>3 DEF NoFalseAlarm
<1> QED
  BY <1>1, <1>2, <1>3 DEF YieldNext, Killed, yieldVars

(***************************************************************************)
(* No false anomaly (migrations/003_full_sweep_flag.sql), for any window   *)
(* and any number of runs, open together or not: a run that found          *)
(* something and did not fail is flagged only if it is a full sweep, and   *)
(* some other full, successful sweep found more than twice as much.        *)
(***************************************************************************)
THEOREM NeverFalseAlarm == YieldSpec => []NoFalseAlarm
<1>1. YieldInit => NoFalseAlarm
  BY DEF YieldInit, NoFalseAlarm
<1>2. YieldTypeOK /\ NoFalseAlarm /\ [YieldNext]_yieldVars => NoFalseAlarm'
  BY StepNoFalseAlarm
<1> QED
  BY <1>1, <1>2, YieldTypeCorrect, PTL DEF YieldSpec

\* The sweeps a verdict is reached on are the latest there are.
LEMMA RecentAreLatest ==
  ASSUME YieldTypeOK
  PROVE  Recent(runs) = LatestSweeps
<1>1. \A i \in DOMAIN runs : runs[i].found \in Nat
  <2>1. \A i \in DOMAIN runs : runs[i] \in Row
    BY DEF YieldTypeOK
  <2> QED BY <2>1, FoundType
<1> DEFINE good   == {i \in DOMAIN runs : Yardstick(runs, i)}
           sweeps == {i \in DOMAIN runs :
                        runs[i].full /\ runs[i].status = "ok" /\ runs[i].found # 0}
<1>2. good = sweeps
  BY <1>1 DEF Yardstick
<1>3. \A i : {j \in good : j > i} = {j \in sweeps : i < j}
  <2>1. good \in SUBSET Nat
    BY DEF YieldTypeOK
  <2> HIDE DEF good, sweeps
  <2> QED BY <1>2, <2>1
<1>4. Recent(runs) = {i \in good : Cardinality({j \in good : j > i}) < Window}
  BY DEF Recent
<1>5. LatestSweeps = {i \in sweeps : Cardinality({j \in sweeps : i < j}) < Window}
  BY DEF LatestSweeps
<1> HIDE DEF good, sweeps
<1> QED
  BY <1>2, <1>3, <1>4, <1>5

(***************************************************************************)
(* No hidden collapse (the same file): when at least half of the latest    *)
(* sweeps found more than four times as much as a full sweep that closes,  *)
(* it is flagged.                                                          *)
(***************************************************************************)
THEOREM CollapseAlwaysFlagged == YieldSpec => CollapseIsFlagged
<1> DEFINE Flagged(i) ==
       LET closed == runs'[i]
           richer == {j \in LatestSweeps : runs[j].found > 4 * closed.found}
       IN  /\ closed.status # "running"
           /\ closed.full
           /\ LatestSweeps # {}
           /\ 2 * Cardinality(richer) >= Cardinality(LatestSweeps)
           => closed.anomaly
<1>1. ASSUME YieldTypeOK, [YieldNext]_yieldVars, NEW i \in open PROVE Flagged(i)
  <2>0. runs[i].status = "running" /\ runs \in Seq(Row) /\ i \in DOMAIN runs
    BY <1>1 DEF YieldTypeOK
  <2>1. CASE Finalize(i)
    <3> SUFFICES ASSUME runs'[i].full, LatestSweeps # {},
                        2 * Cardinality({j \in LatestSweeps : runs[j].found > 4 * runs'[i].found})
                          >= Cardinality(LatestSweeps)
                 PROVE  runs'[i].anomaly
      OBVIOUS
    <3> DEFINE R == {j \in Recent(runs) : runs[j].found > 4 * runs'[i].found}
    <3>1. Recent(runs) # {} /\ 2 * Cardinality(R) >= Cardinality(Recent(runs))
      BY <1>1, RecentAreLatest
    <3>2. runs'[i].found \in Nat
      BY <1>1, <2>1, FinalizeRow
    <3>3. R \in SUBSET Recent(runs) /\ \A j \in R : runs[j].found > 4 * runs'[i].found
      OBVIOUS
    <3> HIDE DEF R
    <3>4. BelowHalfOfMean(runs'[i].found, runs)
      BY <2>0, <3>1, <3>2, <3>3, HalfRicherIsBelowHalf
    <3>5. runs'[i].anomaly = IsAnomalous(runs'[i].status, runs'[i].full, runs'[i].found, runs)
      BY <1>1, <2>1, FinalizeRow
    <3> QED BY <3>4, <3>5 DEF IsAnomalous
  <2>2. ASSUME ~Finalize(i) PROVE runs'[i].status = "running"
    <3>1. CASE StartRun
      BY <2>0, <3>1 DEF StartRun
    <3>2. ASSUME NEW k \in open, Finalize(k) PROVE runs'[i].status = "running"
      BY <1>1, <2>0, <2>2, <3>2, FinalizeRow
    <3>3. CASE UNCHANGED runs
      BY <2>0, <3>3
    <3> QED BY <1>1, <3>1, <3>2, <3>3 DEF YieldNext, Killed, yieldVars
  <2> QED BY <2>1, <2>2
<1>2. ASSUME YieldTypeOK, [YieldNext]_yieldVars PROVE \A i \in open : Flagged(i)
  BY <1>1, <1>2
<1> QED
  <2>1. YieldTypeOK /\ [YieldNext]_yieldVars => [\A i \in open : Flagged(i)]_yieldVars
    BY <1>2
  <2> QED BY <2>1, YieldTypeCorrect, PTL DEF YieldSpec, CollapseIsFlagged

-----------------------------------------------------------------------------
(* The scheduler. *)

LEMMA TailOfSuffix ==
  ASSUME NEW i \in 0 .. Len(Registry),
         SubSeq(Registry, i + 1, Len(Registry)) # <<>>
  PROVE  /\ i + 1 \in 0 .. Len(Registry)
         /\ Tail(SubSeq(Registry, i + 1, Len(Registry)))
              = SubSeq(Registry, (i + 1) + 1, Len(Registry))
<1> DEFINE L == Len(Registry)
           s == SubSeq(Registry, i + 1, L)
           t == SubSeq(Registry, (i + 1) + 1, L)
<1>0. Registry \in Seq(Sources) /\ L \in Nat
  BY SchedulerAssumption DEF SchedulerAssumption
<1>1. i < L
  <2> SUFFICES ASSUME ~(i < L) PROVE FALSE
    OBVIOUS
  <2>1. i + 1 > L
    BY <1>0
  <2> QED BY <1>0, <2>1
<1>2. /\ s \in Seq(Sources) /\ Len(s) = L - i
      /\ \A j \in 1 .. (L - i) : s[j] = Registry[i + j]
  BY <1>0, <1>1
<1>3. /\ t \in Seq(Sources) /\ Len(t) = L - i - 1
      /\ \A j \in 1 .. (L - i - 1) : t[j] = Registry[i + 1 + j]
  BY <1>0, <1>1
<1> HIDE DEF s, t
<1>4. /\ Tail(s) \in Seq(Sources) /\ Len(Tail(s)) = L - i - 1
      /\ \A j \in 1 .. (L - i - 1) : Tail(s)[j] = s[j + 1]
  BY <1>0, <1>1, <1>2
<1>5. \A j \in 1 .. (L - i - 1) : Tail(s)[j] = t[j]
  <2> TAKE j \in 1 .. (L - i - 1)
  <2>1. j + 1 \in 1 .. (L - i) /\ i + (j + 1) = i + 1 + j
    BY <1>0, <1>1
  <2> QED BY <1>2, <1>3, <1>4, <2>1
<1>6. Tail(s) = t
  BY <1>3, <1>4, <1>5, SeqEqual
<1> QED
  BY <1>0, <1>1, <1>6 DEF s, t

LEMMA SourcesExist == \E k \in Sources : TRUE
<1>1. Registry \in Seq(Sources) /\ Registry # <<>>
  BY SchedulerAssumption DEF SchedulerAssumption
<1>2. 1 \in DOMAIN Registry
  BY <1>1
<1> QED
  BY <1>2 DEF Sources

(***************************************************************************)
(* The inductive invariant: the jobs there are, are those of a process     *)
(* that runs, all of them are paused, and no job has a run.                *)
(***************************************************************************)
ProcessInv ==
  /\ SchedulerTypeOK
  /\ \A k \in Sources : job[k] = IF up THEN "paused" ELSE "none"
  /\ \A k \in Sources : run[k] = "none"

LEMMA StoppedIsTyped ==
  ASSUME Stopped, SchedulerTypeOK, dbUp' \in BOOLEAN, faults' \in 0 .. MaxFaults
  PROVE  ProcessInv'
<1>1. Registry \in Seq(Sources) /\ Len(Registry) \in Nat /\ \E k \in Sources : TRUE
  BY SourcesExist, SchedulerAssumption DEF SchedulerAssumption
<1>2. <<>> = SubSeq(Registry, Len(Registry) + 1, Len(Registry))
  BY <1>1
<1>3. \E i \in 0 .. Len(Registry) : left' = SubSeq(Registry, i + 1, Len(Registry))
  BY <1>1, <1>2 DEF Stopped
<1> QED
  BY <1>1, <1>3 DEF Stopped, ProcessInv, SchedulerTypeOK, NoRuns, Stages, Tasks

LEMMA SchedulerInitial == SchedulerInit => ProcessInv
<1> SUFFICES ASSUME SchedulerInit PROVE ProcessInv
  OBVIOUS
<1>1. Registry \in Seq(Sources) /\ Len(Registry) \in Nat /\ \E k \in Sources : TRUE
  BY SourcesExist, SchedulerAssumption DEF SchedulerAssumption
<1>2. <<>> = SubSeq(Registry, Len(Registry) + 1, Len(Registry))
  BY <1>1
<1>3. \E i \in 0 .. Len(Registry) : left = SubSeq(Registry, i + 1, Len(Registry))
  BY <1>1, <1>2 DEF SchedulerInit
<1>4. faults \in 0 .. MaxFaults
  BY SchedulerAssumption DEF SchedulerInit, SchedulerAssumption
<1> QED
  BY <1>1, <1>3, <1>4
  DEF SchedulerInit, ProcessInv, SchedulerTypeOK, NoRuns, Stages, Tasks

\* With no armed job, the scheduler finds nothing to submit.
LEMMA TickIsIdle ==
  ASSUME ProcessInv, Tick
  PROVE  UNCHANGED schedulerVars
<1>1. {k \in Sources : job[k] = "armed"} = {}
  BY DEF ProcessInv
<1>2. run' = [w \in Tasks |-> run[w]]
  BY <1>1 DEF Tick
<1>3. run' = run
  BY <1>2 DEF ProcessInv, SchedulerTypeOK
<1> QED
  BY <1>3 DEF Tick, schedulerVars

\* A task that takes a step is the startup loop.
LEMMA OnlyTheLoopRuns ==
  ASSUME ProcessInv, NEW w \in Tasks, TaskStep(w)
  PROVE  w = Loop /\ run[w] # "none" /\ up /\ left # <<>>
<1>1. run[w] # "none"
  BY DEF TaskStep, Proceed, Raise, Follows
<1>2. w = Loop
  BY <1>1 DEF ProcessInv, Tasks
<1> QED
  BY <1>1, <1>2 DEF ProcessInv, SchedulerTypeOK, NoRuns

LEMMA SchedulerStep ==
  ASSUME ProcessInv, [SchedulerNext]_schedulerVars
  PROVE  ProcessInv'
<1> USE DEF ProcessInv, SchedulerTypeOK
<1>0. Loop \in Tasks /\ Loop \notin Sources /\ Sources \subseteq Tasks
  BY SchedulerAssumption DEF Tasks, SchedulerAssumption
<1>1. CASE Boot
  <2>1. Registry \in Seq(Sources) /\ Len(Registry) \in Nat /\ Registry # <<>>
    BY SchedulerAssumption DEF SchedulerAssumption
  <2>2. Registry = SubSeq(Registry, 0 + 1, Len(Registry))
    BY <2>1
  <2>3. \E i \in 0 .. Len(Registry) : left' = SubSeq(Registry, i + 1, Len(Registry))
    BY <1>1, <2>1, <2>2 DEF Boot
  <2> QED BY <1>1, <2>1, <2>3 DEF Boot
<1>2. CASE StartupRun
  <2>1. up
    BY <1>2 DEF StartupRun
  <2>2. /\ run' \in [Tasks -> Stages]
        /\ \A k \in Sources : run'[k] = "none"
    BY <1>0, <1>2 DEF StartupRun, Stages
  <2> QED BY <1>2, <2>1, <2>2 DEF StartupRun
<1>3. CASE \E w \in Tasks : TaskStep(w)
  <2>1. TaskStep(Loop) /\ run[Loop] # "none" /\ up /\ left # <<>>
    BY <1>3, OnlyTheLoopRuns
  <2>2. CASE Proceed(Loop)
    <3>1. PICK to \in Stages : Follows(run[Loop], to) /\ run' = [run EXCEPT ![Loop] = to]
      BY <2>2 DEF Proceed
    <3>2. \E i \in 0 .. Len(Registry) : left' = SubSeq(Registry, i + 1, Len(Registry))
      <4>1. PICK i \in 0 .. Len(Registry) : left = SubSeq(Registry, i + 1, Len(Registry))
        OBVIOUS
      <4>2. CASE left' = left
        BY <4>1, <4>2
      <4>3. CASE left' = Tail(left)
        <5>1. /\ i + 1 \in 0 .. Len(Registry)
              /\ Tail(left) = SubSeq(Registry, (i + 1) + 1, Len(Registry))
          BY <2>1, <4>1, TailOfSuffix
        <5> QED BY <4>3, <5>1
      <4> QED BY <2>2, <4>2, <4>3 DEF Proceed
    <3>3. /\ run' \in [Tasks -> Stages] /\ run'[Loop] = to
          /\ \A k \in Sources : run'[k] = "none"
      BY <1>0, <3>1
    <3>4. left' = <<>> => run'[Loop] = "none"
      BY <2>1, <2>2, <3>3 DEF Proceed
    <3>5. UNCHANGED <<up, job, dbUp, faults>>
      BY <2>2 DEF Proceed
    <3> QED BY <2>1, <3>2, <3>3, <3>4, <3>5
  <2>3. CASE Raise(Loop)
    BY <2>3, StoppedIsTyped DEF Raise
  <2> QED BY <2>1, <2>2, <2>3 DEF TaskStep
<1>4. CASE Outage \/ Kill
  <2>1. faults' \in 0 .. MaxFaults
    BY <1>4, SchedulerAssumption DEF Outage, Kill, Fault, SchedulerAssumption
  <2>2. CASE Outage
    BY <2>1, <2>2 DEF Outage
  <2>3. CASE Kill
    BY <2>1, <2>3, StoppedIsTyped DEF Kill
  <2> QED BY <1>4, <2>2, <2>3
<1>5. CASE OutageOver
  BY <1>5 DEF OutageOver
<1>6. CASE Tick \/ UNCHANGED schedulerVars
  <2>1. UNCHANGED schedulerVars
    BY <1>6, TickIsIdle
  <2> QED BY <2>1 DEF schedulerVars
<1> QED
  BY <1>1, <1>2, <1>3, <1>4, <1>5, <1>6 DEF SchedulerNext

LEMMA ProcessAlways == SchedulerSpec => []ProcessInv
<1>1. SchedulerInit => ProcessInv
  BY SchedulerInitial
<1>2. ProcessInv /\ [SchedulerNext]_schedulerVars => ProcessInv'
  BY SchedulerStep
<1> QED
  BY <1>1, <1>2, PTL DEF SchedulerSpec

\* Every state of the scheduler is typed: what is left of the startup sweep is
\* a suffix of the registry, and a process that stopped leaves nothing running.
THEOREM SchedulerTypeCorrect == SchedulerSpec => []SchedulerTypeOK
<1>1. ProcessInv => SchedulerTypeOK
  BY DEF ProcessInv
<1> QED
  BY <1>1, ProcessAlways, PTL

\* Once its startup loop is over, a process never sweeps again, for as long as
\* it lives.
IdleAfterStartup ==
  [][up /\ left = <<>> /\ up' => left' = <<>> /\ run' = NoRuns]_schedulerVars

\* For any registry, and whatever the outages and restarts: the jobs are
\* registered paused, so a process sweeps only in its startup loop.
THEOREM AlwaysIdleAfterStartup == SchedulerSpec => IdleAfterStartup
<1>1. ASSUME ProcessInv, ProcessInv', [SchedulerNext]_schedulerVars, up, left = <<>>, up'
      PROVE  left' = <<>>
  <2>1. CASE \E w \in Tasks : TaskStep(w)
    BY <1>1, <2>1, OnlyTheLoopRuns
  <2> QED
    BY <1>1, <2>1
    DEF SchedulerNext, Boot, StartupRun, Tick, Outage, OutageOver, Kill, Stopped, schedulerVars
<1>2. ASSUME ProcessInv', left' = <<>> PROVE run' = NoRuns
  <2>1. \A w \in Tasks : run'[w] = "none"
    BY <1>2 DEF ProcessInv, SchedulerTypeOK, Tasks
  <2> QED BY <1>2, <2>1 DEF ProcessInv, SchedulerTypeOK, NoRuns
<1>3. ProcessInv /\ ProcessInv' /\ [SchedulerNext]_schedulerVars =>
        [up /\ left = <<>> /\ up' => left' = <<>> /\ run' = NoRuns]_schedulerVars
  BY <1>1, <1>2
<1> QED
  BY <1>3, ProcessAlways, PTL DEF SchedulerSpec, IdleAfterStartup
=============================================================================
