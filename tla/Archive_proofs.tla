--------------------------- MODULE Archive_proofs ---------------------------
(***************************************************************************)
(* With a single writer process the archive keeps its promises through any *)
(* number of crashes.  With more of them it may not (ArchiveShared.cfg),   *)
(* but leaves no truncated blob as long as none dies.                      *)
(***************************************************************************)
EXTENDS Archive, TLAPS

\* At most one process stores into the archive.
Solo == \A v, w \in Writers : v = w

(***************************************************************************)
(* The inductive invariant.  A final name always stands for a complete     *)
(* inode, no inode has two names, and the only inode that can be written   *)
(* is the one under the part name of the path being stored.                *)
(***************************************************************************)
NamesApart ==
  /\ \A p, q \in Paths : blob[p] # 0 => blob[p] # part[q]
  /\ \A p, q \in Paths : part[p] # 0 /\ part[p] = part[q] => p = q

Progress(w) ==
  /\ pc[w] \in {"first", "second", "rename"} => handle[w] = part[at[w]]
  /\ pc[w] = "second" => 1 \in data[handle[w]]
  /\ pc[w] = "rename" => data[handle[w]] = Halves
  /\ pc[w] = "record" => Whole(at[w])
  /\ pc[w] \in {"open", "first", "second", "rename"} => blob[at[w]] = 0

ArchiveInv ==
  /\ Solo
  /\ ArchiveTypeOK
  /\ \A p \in Paths : blob[p] # 0 => data[blob[p]] = Halves
  /\ NamesApart
  /\ \A w \in Writers : Progress(w)
  /\ RecordedIsReadable

LEMMA InitArchiveInv == Solo /\ Init => ArchiveInv
  BY ArchiveAssumption
  DEF Init, ArchiveInv, ArchiveTypeOK, NamesApart, Progress, RecordedIsReadable,
      Steps, Halves

LEMMA StepArchiveInv ==
  ASSUME ArchiveInv, [Next]_archiveVars
  PROVE  ArchiveInv'
<1> USE ArchiveAssumption DEF ArchiveInv, ArchiveTypeOK, NamesApart, Progress,
        RecordedIsReadable, Whole, Steps, Halves, Goto, Solo
<1>1. ASSUME NEW w \in Writers, Check(w) PROVE ArchiveInv'
  <2>1. PICK p \in Paths :
          /\ IF blob[p] # 0 THEN Goto(w, "idle", "record") ELSE Goto(w, "idle", "open")
          /\ at' = [at EXCEPT ![w] = p]
          /\ UNCHANGED <<blob, part, data, inodes, handle, rows, crashes>>
    BY <1>1 DEF Check
  <2>2. CASE blob[p] # 0
    <3>1. /\ pc' = [pc EXCEPT ![w] = "record"] /\ at' = [at EXCEPT ![w] = p]
          /\ pc[w] = "idle"
          /\ UNCHANGED <<blob, part, data, inodes, handle, rows, crashes>>
      BY <2>1, <2>2
    <3>2. Whole(p)
      BY <2>2
    <3>3. ArchiveTypeOK'
      BY <3>1
    <3>4. \A v \in Writers : Progress(v)'
      <4> SUFFICES ASSUME NEW v \in Writers PROVE Progress(v)'
        OBVIOUS
      <4>1. v = w
        OBVIOUS
      <4> QED BY <3>1, <3>2, <4>1
    <3> QED BY <3>1, <3>3, <3>4
  <2>3. CASE blob[p] = 0
    BY <2>1, <2>3
  <2> QED BY <2>2, <2>3
<1>2. ASSUME NEW w \in Writers, Open(w) PROVE ArchiveInv'
  <2>1. CASE part[at[w]] # 0
    <3> DEFINE i == part[at[w]]
    <3>1. /\ i \in 1 .. MaxInodes /\ i \in 1 .. inodes
          /\ pc' = [pc EXCEPT ![w] = "first"] /\ pc[w] = "open"
          /\ data' = [data EXCEPT ![i] = {}]
          /\ handle' = [handle EXCEPT ![w] = i]
          /\ UNCHANGED <<blob, part, inodes, at, rows, crashes>>
      BY <1>2, <2>1 DEF Open
    <3>2. \A p \in Paths : blob[p] # 0 => blob[p] # i /\ data'[blob[p]] = data[blob[p]]
      BY <3>1
    <3>3. ArchiveTypeOK'
      BY <3>1
    <3>4. \A v \in Writers : Progress(v)'
      <4> SUFFICES ASSUME NEW v \in Writers PROVE Progress(v)'
        OBVIOUS
      <4>1. v = w
        OBVIOUS
      <4> QED BY <3>1, <4>1
    <3> QED BY <3>1, <3>2, <3>3, <3>4
  <2>2. CASE part[at[w]] = 0
    BY <1>2, <2>2 DEF Open
  <2> QED BY <2>1, <2>2
<1>3. ASSUME NEW w \in Writers, WriteHalf(w) PROVE ArchiveInv'
  <2>1. CASE Goto(w, "first", "second")
    <3> DEFINE i == handle[w]
    <3>1. /\ i \in 1 .. MaxInodes /\ i = part[at[w]]
          /\ pc' = [pc EXCEPT ![w] = "second"] /\ pc[w] = "first"
          /\ data' = [data EXCEPT ![i] = @ \cup {1}]
          /\ UNCHANGED <<blob, part, inodes, at, handle, rows, crashes>>
      BY <1>3, <2>1 DEF WriteHalf
    <3>2. \A p \in Paths : blob[p] # 0 => data'[blob[p]] = data[blob[p]]
      BY <3>1
    <3>3. ArchiveTypeOK'
      BY <3>1
    <3>4. \A v \in Writers : Progress(v)'
      <4> SUFFICES ASSUME NEW v \in Writers PROVE Progress(v)'
        OBVIOUS
      <4>1. v = w
        OBVIOUS
      <4> QED BY <3>1, <4>1
    <3> QED BY <3>1, <3>2, <3>3, <3>4
  <2>2. CASE Goto(w, "second", "rename")
    <3> DEFINE i == handle[w]
    <3>1. /\ i \in 1 .. MaxInodes /\ i = part[at[w]]
          /\ pc' = [pc EXCEPT ![w] = "rename"] /\ pc[w] = "second"
          /\ data' = [data EXCEPT ![i] = @ \cup {2}]
          /\ UNCHANGED <<blob, part, inodes, at, handle, rows, crashes>>
      BY <1>3, <2>2 DEF WriteHalf
    <3>2. \A p \in Paths : blob[p] # 0 => data'[blob[p]] = data[blob[p]]
      BY <3>1
    <3>3. ArchiveTypeOK'
      BY <3>1
    <3>4. \A v \in Writers : Progress(v)'
      <4> SUFFICES ASSUME NEW v \in Writers PROVE Progress(v)'
        OBVIOUS
      <4>1. v = w
        OBVIOUS
      <4> QED BY <3>1, <4>1
    <3> QED BY <3>1, <3>2, <3>3, <3>4
  <2> QED BY <1>3, <2>1, <2>2 DEF WriteHalf
<1>4. ASSUME NEW w \in Writers, Rename(w) PROVE ArchiveInv'
  BY <1>4 DEF Rename
<1>5. ASSUME NEW w \in Writers, RenameFails(w) PROVE ArchiveInv'
  BY <1>5 DEF RenameFails
<1>6. ASSUME NEW w \in Writers, RecordRaw(w) PROVE ArchiveInv'
  BY <1>6 DEF RecordRaw
<1>7. ASSUME NEW w \in Writers, Crash(w) PROVE ArchiveInv'
  BY <1>7 DEF Crash
<1>8. CASE UNCHANGED archiveVars
  BY <1>8 DEF archiveVars
<1> QED
  BY <1>1, <1>2, <1>3, <1>4, <1>5, <1>6, <1>7, <1>8 DEF Next, Store

THEOREM ArchiveInvHolds == Solo /\ Spec => []ArchiveInv
  BY InitArchiveInv, StepArchiveInv, PTL DEF Spec

(***************************************************************************)
(* A crash in the middle of a write leaves no truncated blob.              *)
(***************************************************************************)
THEOREM SoloNeverTruncates == Solo /\ Spec => []NoTruncatedBlob
<1>1. ArchiveInv => NoTruncatedBlob
  BY DEF ArchiveInv, NoTruncatedBlob, Whole
<1> QED
  BY <1>1, ArchiveInvHolds, PTL

(***************************************************************************)
(* Every document the database knows of can be read back for a replay.     *)
(***************************************************************************)
THEOREM RecordedAlwaysReadable == Solo /\ Spec => []RecordedIsReadable
<1>1. ArchiveInv => RecordedIsReadable
  BY DEF ArchiveInv
<1> QED
  BY <1>1, ArchiveInvHolds, PTL

(***************************************************************************)
(* The archive is append-only.                                             *)
(***************************************************************************)
THEOREM SoloNeverOverwrites == Solo /\ Spec => NeverOverwritten
<1>1. ASSUME ArchiveInv, [Next]_archiveVars, NEW p \in Paths, Whole(p)
      PROVE  blob'[p] = blob[p] /\ data'[blob[p]] = data[blob[p]]
  <2> USE <1>1 DEF ArchiveInv, ArchiveTypeOK, NamesApart, Progress, Whole, Goto, Halves
  <2>1. ASSUME NEW w \in Writers, Open(w)
        PROVE  blob'[p] = blob[p] /\ data'[blob[p]] = data[blob[p]]
    <3>1. blob' = blob /\ at[w] \in Paths
      BY <2>1 DEF Open
    <3>2. CASE part[at[w]] # 0
      <4>1. data' = [data EXCEPT ![part[at[w]]] = {}] /\ blob[p] # part[at[w]]
        BY <2>1, <3>1, <3>2 DEF Open
      <4> QED BY <3>1, <4>1
    <3>3. CASE part[at[w]] = 0
      BY <2>1, <3>1, <3>3 DEF Open
    <3> QED BY <3>2, <3>3
  <2>2. ASSUME NEW w \in Writers, WriteHalf(w)
        PROVE  blob'[p] = blob[p] /\ data'[blob[p]] = data[blob[p]]
    <3>1. blob' = blob /\ at[w] \in Paths
      BY <2>2 DEF WriteHalf
    <3>2. handle[w] # blob[p]
      BY <2>2, <3>1 DEF WriteHalf
    <3>3. \A h : data' = [data EXCEPT ![handle[w]] = h] => data'[blob[p]] = data[blob[p]]
      BY <3>2
    <3> QED BY <2>2, <3>1, <3>3 DEF WriteHalf
  <2>3. ASSUME NEW w \in Writers, Rename(w)
        PROVE  blob'[p] = blob[p] /\ data'[blob[p]] = data[blob[p]]
    BY <2>3 DEF Rename
  <2>4. ASSUME NEW w \in Writers,
               Check(w) \/ RenameFails(w) \/ RecordRaw(w) \/ Crash(w)
        PROVE  blob' = blob /\ data' = data
    BY <2>4 DEF Check, RenameFails, RecordRaw, Crash
  <2>5. CASE UNCHANGED archiveVars
    BY <2>5 DEF archiveVars
  <2> QED
    BY <2>1, <2>2, <2>3, <2>4, <2>5 DEF Next, Store
<1>2. ArchiveInv /\ [Next]_archiveVars =>
        [\A p \in Paths :
           Whole(p) => blob'[p] = blob[p] /\ data'[blob[p]] = data[blob[p]]]_archiveVars
  BY <1>1
<1> QED
  BY <1>2, ArchiveInvHolds, PTL DEF Spec, NeverOverwritten

-----------------------------------------------------------------------------
(***************************************************************************)
(* The types, with any number of writers: every name and every handle      *)
(* refers to an inode there is.                                            *)
(***************************************************************************)
THEOREM ArchiveTypeCorrect == Spec => []ArchiveTypeOK
<1>1. Init => ArchiveTypeOK
  BY ArchiveAssumption DEF Init, ArchiveTypeOK, Steps, Halves
<1>2. ArchiveTypeOK /\ [Next]_archiveVars => ArchiveTypeOK'
  <2> SUFFICES ASSUME ArchiveTypeOK, [Next]_archiveVars PROVE ArchiveTypeOK'
    OBVIOUS
  <2> USE ArchiveAssumption DEF ArchiveTypeOK, Steps, Halves, Goto
  <2>1. ASSUME NEW w \in Writers, Check(w) PROVE ArchiveTypeOK'
    <3>1. PICK p \in Paths :
            /\ IF blob[p] # 0 THEN Goto(w, "idle", "record") ELSE Goto(w, "idle", "open")
            /\ at' = [at EXCEPT ![w] = p]
            /\ UNCHANGED <<blob, part, data, inodes, handle, rows, crashes>>
      BY <2>1 DEF Check
    <3>2. CASE blob[p] # 0  BY <3>1, <3>2
    <3>3. CASE blob[p] = 0  BY <3>1, <3>3
    <3> QED BY <3>2, <3>3
  <2>2. ASSUME NEW w \in Writers, Open(w) PROVE ArchiveTypeOK'
    <3>1. CASE part[at[w]] # 0  BY <2>2, <3>1 DEF Open
    <3>2. CASE part[at[w]] = 0
      <4>1. /\ inodes' = inodes + 1 /\ inodes' \in 0 .. MaxInodes /\ inodes' # 0
            /\ pc[w] = "open" /\ pc' = [pc EXCEPT ![w] = "first"]
            /\ part' = [part EXCEPT ![at[w]] = inodes']
            /\ handle' = [handle EXCEPT ![w] = inodes']
            /\ UNCHANGED <<data, blob, at, rows, crashes>>
        <5>1. /\ inodes' = inodes + 1 /\ inodes < MaxInodes
              /\ part' = [part EXCEPT ![at[w]] = inodes']
              /\ pc[w] = "open" /\ pc' = [pc EXCEPT ![w] = "first"]
              /\ handle' = [handle EXCEPT ![w] = part'[at[w]]]
              /\ UNCHANGED <<data, blob, at, rows, crashes>>
          BY <2>2, <3>2 DEF Open
        <5>2. part'[at[w]] = inodes'
          BY <5>1
        <5>3. inodes' \in 0 .. MaxInodes /\ inodes' # 0
          BY <5>1
        <5> QED BY <5>1, <5>2, <5>3, Zenon
      <4>2. 0 .. inodes \subseteq 0 .. inodes' /\ inodes' \in 0 .. inodes'
        BY <4>1
      <4>3. /\ blob' \in [Paths -> 0 .. inodes'] /\ part' \in [Paths -> 0 .. inodes']
            /\ handle' \in [Writers -> 0 .. inodes']
        BY <4>1, <4>2
      <4> QED BY <4>1, <4>3
    <3> QED BY <3>1, <3>2
  <2>3. ASSUME NEW w \in Writers, WriteHalf(w) PROVE ArchiveTypeOK'
    <3>1. CASE Goto(w, "first", "second")   BY <2>3, <3>1 DEF WriteHalf
    <3>2. CASE Goto(w, "second", "rename")  BY <2>3, <3>2 DEF WriteHalf
    <3> QED BY <2>3, <3>1, <3>2 DEF WriteHalf
  <2>4. ASSUME NEW w \in Writers, Rename(w) PROVE ArchiveTypeOK'
    BY <2>4 DEF Rename
  <2>5. ASSUME NEW w \in Writers, RenameFails(w) PROVE ArchiveTypeOK'
    BY <2>5 DEF RenameFails
  <2>6. ASSUME NEW w \in Writers, RecordRaw(w) PROVE ArchiveTypeOK'
    BY <2>6 DEF RecordRaw
  <2>7. ASSUME NEW w \in Writers, Crash(w) PROVE ArchiveTypeOK'
    BY <2>7 DEF Crash
  <2>8. CASE UNCHANGED archiveVars
    BY <2>8 DEF archiveVars
  <2> QED
    BY <2>1, <2>2, <2>3, <2>4, <2>5, <2>6, <2>7, <2>8 DEF Next, Store
<1> QED
  BY <1>1, <1>2, PTL DEF Spec

-----------------------------------------------------------------------------
(***************************************************************************)
(* Any number of writers that do not die.  They share the inode of a path  *)
(* and truncate it under each other; but a half that is not there is one   *)
(* that a writer which has the inode open has still to write.              *)
(***************************************************************************)
StillToWrite(w, i, h) ==
  /\ handle[w] = i
  /\ \/ pc[w] = "first"
     \/ pc[w] = "second" /\ h = 2

HalvesInv ==
  \A i \in 1 .. inodes : \A h \in Halves :
    h \in data[i] \/ \E w \in Writers : StillToWrite(w, i, h)

LEMMA StepHalvesInv ==
  ASSUME MaxCrashes = 0, ArchiveTypeOK, ArchiveTypeOK', HalvesInv, [Next]_archiveVars
  PROVE  HalvesInv'
<1> USE ArchiveAssumption DEF ArchiveTypeOK, Steps, Halves, Goto
<1>0. SUFFICES ASSUME NEW i \in 1 .. inodes', NEW h \in Halves, h \notin data'[i]
               PROVE  \E w \in Writers : StillToWrite(w, i, h)'
  BY DEF HalvesInv
<1>1. ASSUME NEW w \in Writers, Open(w)
      PROVE  \E v \in Writers : StillToWrite(v, i, h)'
  <2>1. pc'[w] = "first" /\ handle'[w] = part'[at[w]]
    BY <1>1 DEF Open
  <2>2. CASE i = handle'[w]
    <3>1. StillToWrite(w, i, h)'
      BY <2>1, <2>2 DEF StillToWrite
    <3> QED BY <3>1
  <2>3. CASE i # handle'[w]
    <3>1. i \in 1 .. inodes /\ data'[i] = data[i]
      <4>1. CASE part[at[w]] # 0
        BY <1>1, <2>1, <2>3, <4>1 DEF Open
      <4>2. CASE part[at[w]] = 0
        <5>1. inodes' = inodes + 1 /\ part' = [part EXCEPT ![at[w]] = inodes'] /\ data' = data
          BY <1>1, <4>2 DEF Open
        <5>2. handle'[w] = inodes'
          BY <2>1, <5>1
        <5> QED BY <2>3, <5>1, <5>2
      <4> QED BY <4>1, <4>2
    <3>2. PICK v \in Writers : StillToWrite(v, i, h)
      BY <1>0, <3>1 DEF HalvesInv
    <3>3. v # w
      BY <1>1, <3>2 DEF Open, StillToWrite
    <3>4. StillToWrite(v, i, h)'
      BY <1>1, <3>2, <3>3 DEF Open, StillToWrite
    <3> QED BY <3>4
  <2> QED BY <2>2, <2>3
<1>2. ASSUME NEW w \in Writers, WriteHalf(w)
      PROVE  \E v \in Writers : StillToWrite(v, i, h)'
  <2>1. i \in 1 .. inodes /\ h \notin data[i]
    <3>1. inodes' = inodes /\ handle[w] \in 0 .. inodes /\ inodes \in 0 .. MaxInodes
      BY <1>2 DEF WriteHalf
    <3>2. PICK half \in {1, 2} : data' = [data EXCEPT ![handle[w]] = @ \cup {half}]
      BY <1>2 DEF WriteHalf
    <3>3. i \in 1 .. MaxInodes
      BY <3>1
    <3>4. data[i] \subseteq data'[i]
      BY <3>2, <3>3
    <3> QED BY <1>0, <3>1, <3>4
  <2>2. PICK v \in Writers : StillToWrite(v, i, h)
    BY <2>1 DEF HalvesInv
  <2>3. StillToWrite(v, i, h)'
    <3>1. CASE v # w
      BY <1>2, <2>2, <3>1 DEF WriteHalf, StillToWrite
    <3>2. CASE v = w
      BY <1>0, <1>2, <2>2, <3>2 DEF WriteHalf, StillToWrite
    <3> QED BY <3>1, <3>2
  <2> QED BY <2>3
<1>3. ASSUME NEW w \in Writers, Check(w) \/ Rename(w) \/ RenameFails(w) \/ RecordRaw(w)
      PROVE  \E v \in Writers : StillToWrite(v, i, h)'
  <2>1. /\ data' = data /\ inodes' = inodes
        /\ pc[w] \notin {"first", "second"}
        /\ \A v \in Writers \ {w} : pc'[v] = pc[v] /\ handle'[v] = handle[v]
    <3>1. CASE Check(w)
      BY <3>1 DEF Check
    <3>2. CASE Rename(w)
      BY <3>2 DEF Rename
    <3>3. CASE RenameFails(w)
      BY <3>3 DEF RenameFails
    <3>4. CASE RecordRaw(w)
      BY <3>4 DEF RecordRaw
    <3> QED BY <1>3, <3>1, <3>2, <3>3, <3>4
  <2>2. PICK v \in Writers : StillToWrite(v, i, h)
    BY <1>0, <2>1 DEF HalvesInv
  <2> QED BY <2>1, <2>2 DEF StillToWrite
<1>4. \A w \in Writers : ~Crash(w)
  BY DEF Crash
<1>5. CASE UNCHANGED archiveVars
  BY <1>0, <1>5 DEF archiveVars, HalvesInv, StillToWrite
<1> QED
  BY <1>1, <1>2, <1>3, <1>4, <1>5 DEF Next, Store

(***************************************************************************)
(* Processes that share the archive and never die leave no truncated blob; *)
(* ArchiveShared.cfg shows what the death of one of them does.             *)
(***************************************************************************)
THEOREM DeathlessNeverTruncate == MaxCrashes = 0 /\ Spec => []NoTruncatedBlob
<1> SUFFICES ASSUME MaxCrashes = 0 PROVE Spec => []NoTruncatedBlob
  OBVIOUS
<1>1. Init => HalvesInv
  BY DEF Init, HalvesInv
<1>2. ArchiveTypeOK /\ ArchiveTypeOK' /\ HalvesInv /\ [Next]_archiveVars => HalvesInv'
  BY StepHalvesInv
<1>3. ArchiveTypeOK /\ HalvesInv => NoTruncatedBlob
  <2> SUFFICES ASSUME ArchiveTypeOK, HalvesInv, NEW p \in Paths, blob[p] # 0,
                      \A w \in Writers : handle[w] # blob[p]
               PROVE  data[blob[p]] = Halves
    BY DEF NoTruncatedBlob, Whole
  <2>1. blob[p] \in 1 .. inodes /\ data[blob[p]] \in SUBSET Halves
    <3>1. blob[p] \in 0 .. inodes /\ inodes \in 0 .. MaxInodes
      BY DEF ArchiveTypeOK
    <3>2. blob[p] \in 1 .. inodes /\ blob[p] \in 1 .. MaxInodes
      BY <3>1, ArchiveAssumption DEF ArchiveAssumption
    <3> QED BY <3>2 DEF ArchiveTypeOK
  <2>2. \A h \in Halves : h \in data[blob[p]]
    BY <2>1 DEF HalvesInv, StillToWrite
  <2> QED BY <2>1, <2>2
<1> QED
  BY <1>1, <1>2, <1>3, ArchiveTypeCorrect, PTL DEF Spec
=============================================================================
