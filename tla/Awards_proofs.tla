--------------------------- MODULE Awards_proofs ---------------------------
(***************************************************************************)
(* What the collection of awards keeps for any list of awards, any size of *)
(* a page and any number of pages, with any number of crashes.             *)
(***************************************************************************)
EXTENDS Awards, Archive_proofs, FiniteSetTheorems, WellFoundedInduction

(***************************************************************************)
(* Every step of a collection is a step of the archive or none.            *)
(***************************************************************************)
LEMMA StepOfArchive ==
  ASSUME [AwardsNext]_awardsVars
  PROVE  [Next]_archiveVars
<1> USE AwardsAssumption
<1>1. CASE FetchPage
  BY <1>1 DEF FetchPage, Next, Store
<1>2. CASE Archiving
  BY <1>2 DEF Archiving, Next, Store
<1>3. CASE Archived
  BY <1>3 DEF Archived, Next, Store
<1>4. CASE Abort
  BY <1>4 DEF Abort, Next
<1>5. CASE (\E a \in Contracts : Sign(a)) \/ Collect \/ StorePage \/ ParseFails \/ NextPage
  BY <1>5 DEF Sign, Collect, StorePage, ParseFails, NextPage, archiveVars
<1>6. CASE UNCHANGED awardsVars
  BY <1>6 DEF awardsVars
<1> QED
  BY <1>1, <1>2, <1>3, <1>4, <1>5, <1>6 DEF AwardsNext

(***************************************************************************)
(* collect uses the archive as Archive says it may be used, so that what   *)
(* holds of the archive holds of the award pages in it.                    *)
(***************************************************************************)
THEOREM AwardsImplementArchive == AwardsSpec => Spec
<1>1. AwardsInit => Init
  BY DEF AwardsInit
<1> QED
  BY <1>1, StepOfArchive, PTL DEF AwardsSpec, Spec

LEMMA CollectorIsSolo == Solo
  BY AwardsAssumption DEF Solo

-----------------------------------------------------------------------------
(* The types, and what a row points to. *)

TypesInv ==
  /\ AwardsTypeOK
  /\ stage \in {"archive", "parse", "next"} => Content = Expired \/ Content \subseteq signed
  /\ stage = "parse" => Content \in rows

LEMMA StepTypesInv ==
  ASSUME TypesInv, ArchiveInv, [AwardsNext]_awardsVars
  PROVE  TypesInv'
<1> USE AwardsAssumption DEF TypesInv, AwardsTypeOK, Phases
<1> DEFINE pcs == pc[Collector]
<1>0. pc \in [Writers -> Steps] /\ Collector \in Writers
  BY DEF ArchiveInv, ArchiveTypeOK
<1>1. ASSUME NEW a \in Contracts, Sign(a) PROVE TypesInv'
  BY <1>1 DEF Sign, archiveVars, Content
<1>2. CASE Collect
  BY <1>2 DEF Collect, Enter, archiveVars, Content, Window
<1>3. CASE FetchPage
  <2>1. Content' = Expired \/ Content' \subseteq signed
    BY <1>3 DEF FetchPage, Content, PageOf
  <2>2. UNCHANGED <<signed, page, awards, seen, rows>> /\ stage' = "archive" /\ stage = "fetch"
    BY <1>3 DEF FetchPage, Enter, Check
  <2>3. due' \subseteq due
    BY <1>3 DEF FetchPage
  <2> QED BY <2>1, <2>2, <2>3
<1>4. CASE Archiving
  <2>1. UNCHANGED <<signed, collecting, at, rows>>
    BY <1>4 DEF Archiving, Open, WriteHalf, Rename
  <2> QED BY <1>4, <2>1 DEF Archiving, collecting, Content
<1>5. CASE Archived
  <2>1. /\ stage = "archive" /\ stage' = "parse" /\ pc'[Collector] = "idle"
        /\ rows' = rows \cup {Content} /\ Content' = Content
        /\ UNCHANGED <<signed, page, awards, due>>
    BY <1>0, <1>5 DEF Archived, RecordRaw, Enter, Goto, Content
  <2>2. seen' \subseteq signed
    BY <1>5, <2>1 DEF Archived
  <2> QED BY <2>1, <2>2
<1>6. CASE StorePage
  <2>1. /\ stage = "parse" /\ stage' = "next" /\ Content' = Content
        /\ awards' = IF Content = Expired THEN awards ELSE Stored
        /\ UNCHANGED <<pc, rows, signed, page, due, seen>>
    BY <1>6 DEF StorePage, Enter, archiveVars, Content
  <2>2. \A row \in Stored : row.raw \in rows /\ row.award \in row.raw
    BY <2>1 DEF Stored
  <2> QED BY <2>1, <2>2
<1>7. CASE ParseFails
  BY <1>7 DEF ParseFails, Enter, archiveVars, Content
<1>8. CASE NextPage
  BY <1>8 DEF NextPage, More, archiveVars, Content
<1>9. CASE Abort
  <2>1. pc'[Collector] = "idle" /\ rows' = rows
    BY <1>0, <1>9 DEF Abort, Crash, archiveVars
  <2> QED BY <1>9, <2>1 DEF Abort
<1>10. CASE UNCHANGED awardsVars
  BY <1>10 DEF awardsVars, archiveVars, collecting, Content
<1> QED
  BY <1>1, <1>2, <1>3, <1>4, <1>5, <1>6, <1>7, <1>8, <1>9, <1>10 DEF AwardsNext

(***************************************************************************)
(* The types; every contract_awards row traces to a recorded document that *)
(* lists its award.                                                        *)
(***************************************************************************)
THEOREM AwardsTypeCorrect == AwardsSpec => []AwardsTypeOK
<1>1. AwardsInit => TypesInv
  BY AwardsAssumption DEF AwardsInit, Init, TypesInv, AwardsTypeOK, Phases
<1>2. AwardsSpec => []ArchiveInv
  BY AwardsImplementArchive, CollectorIsSolo, ArchiveInvHolds, PTL
<1>3. TypesInv => AwardsTypeOK
  BY DEF TypesInv
<1> QED
  BY <1>1, <1>2, <1>3, StepTypesInv, PTL DEF AwardsSpec

-----------------------------------------------------------------------------
(* What was seen is recorded. *)

SeenIsRecorded == \A a \in seen : \E p \in rows \ {Expired} : a \in p

LEMMA StepSeenIsRecorded ==
  ASSUME SeenIsRecorded, [AwardsNext]_awardsVars
  PROVE  SeenIsRecorded'
<1> USE DEF SeenIsRecorded
<1>1. CASE Archived
  <2>1. rows' = rows \cup {Content}
    BY <1>1 DEF Archived, RecordRaw, Content
  <2>2. seen' = IF Content = Expired THEN seen ELSE seen \cup Content
    BY <1>1 DEF Archived
  <2> QED BY <2>1, <2>2
<1>2. CASE FetchPage
  BY <1>2 DEF FetchPage, Check
<1>3. CASE Archiving
  BY <1>3 DEF Archiving, Open, WriteHalf, Rename, collecting
<1>4. CASE Abort
  BY <1>4 DEF Abort, Crash, archiveVars
<1>5. CASE (\E a \in Contracts : Sign(a)) \/ Collect \/ StorePage \/ ParseFails \/ NextPage
  BY <1>5 DEF Sign, Collect, StorePage, ParseFails, NextPage, archiveVars
<1>6. CASE UNCHANGED awardsVars
  BY <1>6 DEF awardsVars, archiveVars, collecting
<1> QED
  BY <1>1, <1>2, <1>3, <1>4, <1>5, <1>6 DEF AwardsNext

(***************************************************************************)
(* The order in collect, archive before parse: whatever an award page      *)
(* showed can be had from the archive, whole, or is stored.                *)
(***************************************************************************)
THEOREM NothingSeenIsEverLost == AwardsSpec => []NothingSeenIsLost
<1>1. AwardsInit => SeenIsRecorded
  BY DEF AwardsInit, SeenIsRecorded
<1>2. AwardsSpec => []SeenIsRecorded
  BY <1>1, StepSeenIsRecorded, PTL DEF AwardsSpec
<1>3. SeenIsRecorded /\ RecordedIsReadable => NothingSeenIsLost
  BY DEF SeenIsRecorded, RecordedIsReadable, NothingSeenIsLost
<1> QED
  BY <1>2, <1>3, AwardsImplementArchive, CollectorIsSolo, RecordedAlwaysReadable, PTL

-----------------------------------------------------------------------------
(* The pages of a list that grows. *)

LEMMA LeastExists ==
  ASSUME NEW T \in SUBSET Nat, T # {}
  PROVE  \E n \in T : \A m \in T : n <= m
<1> DEFINE R == {pair \in Nat \X Nat : pair[1] < pair[2]}
<1>1. R = OpToRel(<, Nat)
  BY DEF OpToRel
<1>2. IsWellFoundedOn(R, Nat)
  BY <1>1, NatLessThanWellFounded
<1>3. PICK n \in T : \A m \in T : <<m, n>> \notin R
  <2> HIDE DEF R
  <2> QED BY <1>2, WFMin
<1>4. \A m \in Nat : m < n => <<m, n>> \in R
  BY <1>3
<1> HIDE DEF R
<1>5. \A m \in T : ~(m < n)
  BY <1>3, <1>4
<1> QED
  BY <1>3, <1>5

\* The awards signed after one, over any list.
After(S, a) == {b \in S : b > a}

LEMMA CountAfter ==
  ASSUME NEW S \in SUBSET Contracts, NEW a
  PROVE  /\ IsFiniteSet(S) /\ IsFiniteSet(After(S, a))
         /\ Cardinality(After(S, a)) \in Nat
<1>1. IsFiniteSet(S)
  BY AwardsAssumption, FS_Subset
<1>2. After(S, a) \in SUBSET S
  BY DEF After
<1> QED
  BY <1>1, <1>2, FS_Subset, FS_CardinalityType

\* A longer list never moves an award up.
LEMMA AfterGrows ==
  ASSUME NEW S \in SUBSET Contracts, NEW T \in SUBSET S, NEW a
  PROVE  Cardinality(After(T, a)) <= Cardinality(After(S, a))
<1>1. After(T, a) \in SUBSET After(S, a)
  BY DEF After
<1> QED
  BY <1>1, CountAfter, FS_Subset

\* Whoever comes later in the list comes after fewer.
LEMMA LaterIsHigher ==
  ASSUME NEW S \in SUBSET Contracts, NEW a \in S, NEW b \in S, b > a
  PROVE  Cardinality(After(S, b)) < Cardinality(After(S, a))
<1>1. /\ a \in Nat /\ b \in Nat
      /\ \A c \in S : c \in Nat
  BY AwardsAssumption
<1>2. \A c \in S : c > b => c > a
  BY <1>1
<1>3. ~(b > b)
  BY <1>1
<1>4. /\ After(S, b) \in SUBSET After(S, a)
      /\ b \in After(S, a) /\ b \notin After(S, b)
  BY <1>2, <1>3 DEF After
<1>5. /\ Cardinality(After(S, b)) <= Cardinality(After(S, a))
      /\ Cardinality(After(S, b)) # Cardinality(After(S, a))
  BY <1>4, CountAfter, FS_Subset
<1> QED
  BY <1>5, CountAfter

\* Places are taken without a gap: below any place that is taken, every
\* place is.
LEMMA NoGaps ==
  ASSUME NEW S \in SUBSET Contracts, NEW k \in Nat,
         NEW a \in S, Cardinality(After(S, a)) >= k
  PROVE  \E b \in S : Cardinality(After(S, b)) = k
<1> DEFINE Place(c) == Cardinality(After(S, c))
           Deep     == {c \in S : Place(c) >= k}
           Places   == {Place(c) : c \in Deep}
<1>1. \A c \in S : Place(c) \in Nat
  BY CountAfter
<1>2. Places \in SUBSET Nat /\ Places # {}
  BY <1>1
<1>3. PICK n \in Places : \A m \in Places : n <= m
  <2> HIDE DEF Places
  <2> QED BY <1>2, LeastExists
<1>4. PICK b \in Deep : Place(b) = n
  BY <1>3
<1>5. ASSUME Place(b) > k PROVE FALSE
  <2> DEFINE B == After(S, b)
  <2>1. B \in SUBSET S /\ B \in SUBSET Nat /\ S \in SUBSET Nat
    BY AwardsAssumption DEF After
  <2>2. B # {}
    <3>1. Cardinality(B) > 0
      BY <1>5, <1>1
    <3> QED BY <3>1, FS_EmptySet
  <2>3. PICK c \in B : \A d \in B : c <= d
    <3> HIDE DEF B
    <3> QED BY <2>1, <2>2, LeastExists
  <2>4. After(S, c) = B \ {c}
    <3>1. c \in Nat /\ b \in Nat /\ c > b
      BY <2>1, <2>3 DEF After
    <3>2. \A d \in S : d > c <=> d \in B /\ d # c
      <4> SUFFICES ASSUME NEW d \in S PROVE d > c <=> d \in B /\ d # c
        OBVIOUS
      <4>1. d \in Nat /\ (d \in B <=> d > b)
        BY <2>1 DEF After
      <4>2. d \in B => c <= d
        BY <2>3
      <4> HIDE DEF B
      <4> QED BY <3>1, <4>1, <4>2
    <3> QED BY <2>1, <3>2 DEF After
  <2>5. Place(c) = Place(b) - 1
    <3>1. IsFiniteSet(B)
      BY CountAfter
    <3>2. Cardinality(B \ {c}) = Cardinality(B) - 1
      BY <3>1, <2>3, FS_RemoveElement
    <3> QED BY <3>2, <2>4
  <2>6. c \in Deep /\ Place(c) < n
    BY <2>1, <2>3, <2>5, <1>1, <1>4, <1>5
  <2> HIDE DEF Place, Deep, B
  <2>7. Place(c) \in Places
    BY <2>6
  <2> QED BY <2>6, <2>7, <1>1, <1>3, <2>1, <2>3 DEF Deep
<1>6. Place(b) = k
  BY <1>1, <1>4, <1>5
<1> QED
  BY <1>4, <1>6

-----------------------------------------------------------------------------
(* What a quiet run stores. *)

IsStored(a) == \E row \in awards : row.award = a

\* An award of the list that is further down than the page.
Beyond(a) == Content # {} /\ Before(a) >= page * PageSize

(***************************************************************************)
(* The inductive invariant: what is due at a stage of the run and lies on  *)
(* the pages it went past is stored; what is on the page it holds is in    *)
(* the document; and a page without awards has nothing after it.  New      *)
(* awards only push others down, never back over the page.                 *)
(***************************************************************************)
Listed ==
  /\ signed \subseteq Contracts
  /\ page \in 0 .. MaxPages
  /\ stage \in Phases
  /\ stage # "idle" => page # 0
  /\ due \subseteq Window

FetchedInv == \A a \in due : Before(a) < (page - 1) * PageSize => IsStored(a)
HeldInv    == \A a \in due : IsStored(a) \/ (Content # Expired /\ (a \in Content \/ Beyond(a)))
PassedInv  == \A a \in due : IsStored(a) \/ Beyond(a)

WindowInv ==
  /\ Listed
  /\ stage = "fetch" => FetchedInv
  /\ stage \in {"archive", "parse"} => HeldInv
  /\ stage = "next" => PassedInv

LEMMA BeforeIsAfter ==
  ASSUME signed \subseteq Contracts, NEW a
  PROVE  Before(a) = Cardinality(After(signed, a)) /\ Before(a) \in Nat
BY CountAfter DEF Before, After

LEMMA SizesAreNat ==
  /\ PageSize \in Nat \ {0} /\ MaxPages \in Nat \ {0}
  /\ \A k \in Nat : k * PageSize \in Nat
BY AwardsAssumption

\* While the run goes on, the list may grow at any moment.
LEMMA SignKeepsWindow ==
  ASSUME WindowInv, NEW x \in Contracts, Sign(x)
  PROVE  WindowInv'
<1> USE DEF WindowInv
<1>1. /\ signed' \subseteq Contracts /\ signed \in SUBSET signed'
      /\ due' = due \cap Window'
      /\ UNCHANGED <<at, page, stage, awards>>
  BY DEF Sign, archiveVars, Listed
<1>2. \A a : Before(a) \in Nat /\ Before(a)' \in Nat /\ Before(a) <= Before(a)'
  <2> TAKE a
  <2>1. Before(a) = Cardinality(After(signed, a)) /\ Before(a) \in Nat
    BY BeforeIsAfter DEF Listed
  <2>2. Before(a)' = Cardinality(After(signed', a)) /\ Cardinality(After(signed', a)) \in Nat
    BY <1>1, CountAfter DEF Before, After
  <2> QED BY <1>1, <2>1, <2>2, AfterGrows
<1>3. Listed'
  BY <1>1 DEF Listed, Sign, archiveVars
<1>4. Content' = Content /\ \A a : IsStored(a)' <=> IsStored(a)
  BY <1>1 DEF Content, IsStored
<1>5. page * PageSize \in Int /\ (page - 1) * PageSize \in Int
  BY SizesAreNat DEF Listed
<1>6. \A a : Beyond(a) => Beyond(a)'
  BY <1>1, <1>2, <1>4, <1>5 DEF Beyond
<1>7. (stage = "fetch" => FetchedInv)'
  BY <1>1, <1>2, <1>4, <1>5 DEF FetchedInv
<1>8. (stage \in {"archive", "parse"} => HeldInv)'
  BY <1>1, <1>4, <1>6 DEF HeldInv
<1>9. (stage = "next" => PassedInv)'
  BY <1>1, <1>4, <1>6 DEF PassedInv
<1> QED
  BY <1>3, <1>7, <1>8, <1>9

\* The page that comes holds whatever of the list is at its places, and is
\* empty only when nothing comes after it.
LEMMA FetchKeepsWindow ==
  ASSUME WindowInv, FetchPage
  PROVE  WindowInv'
<1>1. /\ Listed /\ FetchedInv /\ stage' = "archive" /\ stage = "fetch"
      /\ at'[Collector] \in {PageOf(page), Expired}
      /\ due' = IF at'[Collector] = Expired THEN {} ELSE due
      /\ UNCHANGED <<signed, page, awards>>
  BY DEF WindowInv, FetchPage, Enter
<1>2. Listed'
  BY <1>1 DEF Listed, Phases, Window, Before
<1>3. CASE at'[Collector] = Expired
  BY <1>1, <1>2, <1>3 DEF WindowInv, HeldInv
<1>4. CASE at'[Collector] # Expired
  <2>1. Content' = PageOf(page) /\ Content' # Expired /\ due' = due
    BY <1>1, <1>4 DEF Content
  <2>2. ASSUME NEW a \in due
        PROVE  IsStored(a) \/ a \in PageOf(page) \/
               (PageOf(page) # {} /\ Before(a) >= page * PageSize)
    <3> DEFINE low  == (page - 1) * PageSize
               high == page * PageSize
    <3>1. a \in signed /\ signed \subseteq Contracts
      BY <1>1 DEF Listed, Window
    <3>2. Before(a) \in Nat
      BY <3>1, BeforeIsAfter
    <3>3. page - 1 \in Nat /\ page \in Nat
      BY <1>1, SizesAreNat DEF Listed
    <3>4. low \in Nat /\ high = low + PageSize /\ PageSize \in Nat \ {0}
      BY <3>3, SizesAreNat
    <3>5. CASE Before(a) < low
      BY <1>1, <3>5 DEF FetchedInv
    <3>6. CASE low <= Before(a) /\ Before(a) < high
      BY <3>1, <3>6 DEF PageOf
    <3>7. CASE Before(a) >= high
      <4> HIDE DEF low, high
      <4>1. Cardinality(After(signed, a)) >= low
        BY <3>1, <3>2, <3>4, <3>7, BeforeIsAfter
      <4>2. PICK b \in signed : Cardinality(After(signed, b)) = low
        BY <3>1, <3>4, <4>1, NoGaps
      <4>3. Before(b) = low
        BY <3>1, <4>2, BeforeIsAfter
      <4>4. low <= Before(b) /\ Before(b) < high
        BY <3>4, <4>3
      <4>5. b \in PageOf(page)
        BY <4>4 DEF PageOf, low, high
      <4> QED BY <3>7, <4>5 DEF high
    <3> HIDE DEF low, high
    <3> QED BY <3>2, <3>4, <3>5, <3>6, <3>7
  <2>3. \A a : (IsStored(a)' <=> IsStored(a)) /\ Before(a)' = Before(a)
    BY <1>1 DEF IsStored, Before
  <2>4. HeldInv'
    BY <1>1, <2>1, <2>2, <2>3 DEF HeldInv, Beyond
  <2> QED BY <1>1, <1>2, <2>4 DEF WindowInv
<1> QED
  BY <1>3, <1>4

\* What the parsed page lists is stored, now or before.
LEMMA StoreKeepsWindow ==
  ASSUME WindowInv, StorePage
  PROVE  WindowInv'
<1>1. /\ Listed /\ HeldInv /\ stage = "parse" /\ stage' = "next"
      /\ awards' = IF Content = Expired THEN awards ELSE Stored
      /\ UNCHANGED <<at, signed, page, due>>
  BY DEF WindowInv, StorePage, Enter, archiveVars
<1>2. Listed'
  BY <1>1 DEF Listed, Phases, Window, Before
<1>3. \A a : IsStored(a) => IsStored(a)'
  BY <1>1 DEF IsStored, Stored
<1>4. ASSUME Content # Expired, NEW a \in Content PROVE IsStored(a)'
  <2>1. awards' = Stored
    BY <1>1, <1>4
  <2>2. CASE Held(a)
    BY <1>3, <2>2 DEF Held, IsStored
  <2>3. CASE ~Held(a)
    <3>1. [award |-> a, raw |-> Content] \in awards'
      BY <1>4, <2>1, <2>3 DEF Stored
    <3> QED BY <3>1 DEF IsStored
  <2> QED BY <2>2, <2>3
<1>5. \A a : Beyond(a)' <=> Beyond(a)
  BY <1>1 DEF Beyond, Before, Content
<1>6. PassedInv'
  BY <1>1, <1>3, <1>4, <1>5 DEF HeldInv, PassedInv
<1> QED
  BY <1>1, <1>2, <1>6 DEF WindowInv

LEMMA NextKeepsWindow ==
  ASSUME WindowInv, NextPage
  PROVE  WindowInv'
<1>1. /\ Listed /\ PassedInv
      /\ UNCHANGED <<at, signed, awards>>
  BY DEF WindowInv, NextPage, archiveVars
<1>2. CASE More
  <2>1. page' = page + 1 /\ stage' = "fetch" /\ due' = due /\ page < MaxPages
    BY <1>2 DEF NextPage, More
  <2>2. page \in Nat /\ page' \in 0 .. MaxPages /\ page' # 0 /\ page' - 1 = page
    BY <1>1, <2>1, SizesAreNat DEF Listed
  <2>3. Listed'
    BY <1>1, <2>1, <2>2 DEF Listed, Phases, Window, Before
  <2>4. ASSUME NEW a \in due, Before(a) < page * PageSize PROVE IsStored(a)
    <3>1. Before(a) \in Nat /\ page * PageSize \in Nat
      BY <1>1, <2>2, SizesAreNat, BeforeIsAfter DEF Listed
    <3> QED BY <1>1, <2>4, <3>1 DEF PassedInv, Beyond
  <2>5. \A a : (IsStored(a)' <=> IsStored(a)) /\ Before(a)' = Before(a)
    BY <1>1 DEF IsStored, Before
  <2>6. FetchedInv'
    BY <2>1, <2>2, <2>4, <2>5 DEF FetchedInv
  <2> QED BY <2>1, <2>3, <2>6 DEF WindowInv
<1>3. CASE ~More
  <2>1. page' = 0 /\ stage' = "idle" /\ due' = {}
    BY <1>3 DEF NextPage
  <2> QED BY <1>1, <2>1, SizesAreNat DEF WindowInv, Listed, Phases
<1> QED
  BY <1>2, <1>3

LEMMA StepWindowInv ==
  ASSUME WindowInv, [AwardsNext]_awardsVars
  PROVE  WindowInv'
<1>1. CASE \E a \in Contracts : Sign(a)
  BY <1>1, SignKeepsWindow
<1>2. CASE Collect
  <2>1. /\ stage' = "fetch" /\ page' = 1 /\ due' = Window
        /\ UNCHANGED <<signed, awards>>
    BY <1>2 DEF Collect, Enter
  <2>2. Listed'
    BY <2>1, SizesAreNat DEF WindowInv, Listed, Phases, Window, Before
  <2>3. \A a : Before(a)' \in Nat /\ (page' - 1) * PageSize = 0
    <3> TAKE a
    <3>1. Before(a) \in Nat
      BY BeforeIsAfter DEF WindowInv, Listed
    <3> QED BY <2>1, <3>1, SizesAreNat DEF Before
  <2>4. FetchedInv'
    BY <2>3 DEF FetchedInv
  <2> QED BY <2>1, <2>2, <2>4 DEF WindowInv
<1>3. CASE FetchPage
  BY <1>3, FetchKeepsWindow
<1>4. CASE Archiving \/ Archived
  <2>1. /\ UNCHANGED <<at, signed, page, awards, due>>
        /\ stage \in {"archive", "parse"} /\ stage' \in {"archive", "parse"}
    BY <1>4 DEF Archiving, Archived, Open, WriteHalf, Rename, RecordRaw, Enter, collecting
  <2> QED
    BY <2>1 DEF WindowInv, Listed, Phases, Window, Before, HeldInv, IsStored, Beyond, Content
<1>5. CASE StorePage
  BY <1>5, StoreKeepsWindow
<1>6. CASE ParseFails \/ Abort
  <2>1. /\ due' = {} /\ signed' = signed
        /\ \/ stage' = "next" /\ page' = page /\ stage # "idle"
           \/ stage' = "idle" /\ page' = 0
    BY <1>6 DEF ParseFails, Abort, Enter
  <2> QED
    BY <2>1, SizesAreNat DEF WindowInv, Listed, Phases, PassedInv
<1>7. CASE NextPage
  BY <1>7, NextKeepsWindow
<1>8. CASE UNCHANGED awardsVars
  BY <1>8 DEF awardsVars, archiveVars, collecting, WindowInv, Listed, Window, Before,
              FetchedInv, HeldInv, PassedInv, IsStored, Beyond, Content
<1> QED
  BY <1>1, <1>2, <1>3, <1>4, <1>5, <1>6, <1>7, <1>8 DEF AwardsNext

(***************************************************************************)
(* A run nothing goes wrong in stores all that was in its window when it   *)
(* began and was not pushed out of it, however the list grows meanwhile.   *)
(***************************************************************************)
THEOREM WindowIsAlwaysStored == AwardsSpec => []WindowIsStored
<1>1. AwardsInit => WindowInv
  BY SizesAreNat DEF AwardsInit, WindowInv, Listed, Phases
<1>2. WindowInv => WindowIsStored
  <2> SUFFICES ASSUME WindowInv, stage = "next", ~More, NEW a \in due
               PROVE  IsStored(a)
    BY DEF WindowIsStored, IsStored
  <2>1. IsStored(a) \/ Beyond(a)
    BY DEF WindowInv, PassedInv
  <2>2. ASSUME Beyond(a) PROVE FALSE
    <3>1. page = MaxPages
      BY <2>2, SizesAreNat DEF More, Beyond, WindowInv, Listed
    <3>2. Before(a) < MaxPages * PageSize /\ Before(a) \in Nat /\ MaxPages * PageSize \in Nat
      BY BeforeIsAfter, SizesAreNat DEF WindowInv, Listed, Window
    <3> QED BY <2>2, <3>1, <3>2 DEF Beyond
  <2> QED BY <2>1, <2>2
<1> QED
  BY <1>1, <1>2, StepWindowInv, PTL DEF AwardsSpec
=============================================================================
