------------------------------ MODULE Archive -------------------------------
(***************************************************************************)
(* RawArchive.store (crawl/archive.py) on a file system shared by several  *)
(* processes: the scheduler and any crawl started by hand.  Inside one     *)
(* process store runs without an await, so a writer is a process.          *)
(*                                                                         *)
(*   blob    path -> the inode under the final name, or 0                  *)
(*   part    path -> the inode under the ".gz.part" name, or 0             *)
(*   data    what each inode holds, of the two halves of the payload       *)
(*   inodes  how many inodes were created; they are numbered from 1        *)
(*   pc, at  where each writer is, and the path it is storing              *)
(*   handle  the inode each writer has open                                *)
(*   rows    paths some raw_documents row points to                        *)
(*   crashes processes that died so far                                    *)
(*                                                                         *)
(* A path is made of the day of the fetch and the digest of the content,   *)
(* so two payloads with one path have the same bytes.                      *)
(***************************************************************************)
EXTENDS Naturals

CONSTANTS
  Writers,     \* processes that store into the archive
  Paths,       \* storage paths, one per (day, content)
  MaxInodes,   \* bound on inodes
  MaxCrashes   \* bound on crashes

ASSUME ArchiveAssumption == MaxInodes \in Nat /\ MaxCrashes \in Nat

VARIABLES blob, part, data, inodes, pc, at, handle, rows, crashes

archiveVars == <<blob, part, data, inodes, pc, at, handle, rows, crashes>>

Halves == {1, 2}
Steps  == {"idle", "open", "first", "second", "rename", "record"}

Init ==
  /\ blob = [p \in Paths |-> 0]
  /\ part = [p \in Paths |-> 0]
  /\ data = [i \in 1 .. MaxInodes |-> {}]
  /\ inodes = 0
  /\ pc = [w \in Writers |-> "idle"]
  /\ at \in [Writers -> Paths]
  /\ handle = [w \in Writers |-> 0]
  /\ rows = {}
  /\ crashes = 0

Goto(w, from, to) == pc[w] = from /\ pc' = [pc EXCEPT ![w] = to]

-----------------------------------------------------------------------------
\* Mutant of Check: store without looking for the blob.
CheckNothing(w) ==
  /\ Goto(w, "idle", "open")
  /\ \E p \in Paths : at' = [at EXCEPT ![w] = p]
  /\ UNCHANGED <<blob, part, data, inodes, handle, rows, crashes>>

\* Mutant of Check: a part file left by a crash counts as archived.
CheckPart(w) ==
  \E p \in Paths :
    /\ IF blob[p] # 0 \/ part[p] # 0
       THEN Goto(w, "idle", "record")
       ELSE Goto(w, "idle", "open")
    /\ at' = [at EXCEPT ![w] = p]
    /\ UNCHANGED <<blob, part, data, inodes, handle, rows, crashes>>

\* A payload arrives.  path.exists() decides whether it must be written.
Check(w) ==
  \E p \in Paths :
    /\ IF blob[p] # 0 THEN Goto(w, "idle", "record") ELSE Goto(w, "idle", "open")
    /\ at' = [at EXCEPT ![w] = p]
    /\ UNCHANGED <<blob, part, data, inodes, handle, rows, crashes>>

\* Mutant of Open: the bytes go straight under the final name.
OpenFinal(w) ==
  /\ Goto(w, "open", "first")
  /\ inodes < MaxInodes
  /\ inodes' = inodes + 1
  /\ blob' = [blob EXCEPT ![at[w]] = inodes']
  /\ part' = [part EXCEPT ![at[w]] = inodes']
  /\ handle' = [handle EXCEPT ![w] = inodes']
  /\ UNCHANGED <<data, at, rows, crashes>>

\* Opening for writing truncates a part file that is already there.
Open(w) ==
  /\ Goto(w, "open", "first")
  /\ IF part[at[w]] # 0
     THEN /\ data' = [data EXCEPT ![part[at[w]]] = {}]
          /\ UNCHANGED <<part, inodes>>
     ELSE /\ inodes < MaxInodes
          /\ inodes' = inodes + 1
          /\ part' = [part EXCEPT ![at[w]] = inodes']
          /\ UNCHANGED data
  /\ handle' = [handle EXCEPT ![w] = part'[at[w]]]
  /\ UNCHANGED <<blob, at, rows, crashes>>

WriteHalf(w) ==
  /\ \/ /\ Goto(w, "first", "second")
        /\ data' = [data EXCEPT ![handle[w]] = @ \cup {1}]
     \/ /\ Goto(w, "second", "rename")
        /\ data' = [data EXCEPT ![handle[w]] = @ \cup {2}]
  /\ UNCHANGED <<blob, part, inodes, at, handle, rows, crashes>>

\* tmp.replace(path): whatever bears the part name now takes the final name.
Rename(w) ==
  /\ Goto(w, "rename", "record")
  /\ part[at[w]] # 0
  /\ blob' = [blob EXCEPT ![at[w]] = part[at[w]]]
  /\ part' = [part EXCEPT ![at[w]] = 0]
  /\ handle' = [handle EXCEPT ![w] = 0]
  /\ UNCHANGED <<data, inodes, at, rows, crashes>>

\* Another process renamed the part file away: FileNotFoundError ends the run.
RenameFails(w) ==
  /\ Goto(w, "rename", "idle")
  /\ part[at[w]] = 0
  /\ handle' = [handle EXCEPT ![w] = 0]
  /\ UNCHANGED <<blob, part, data, inodes, at, rows, crashes>>

\* runner._ingest: record_raw and its commit, once store has returned.
RecordRaw(w) ==
  /\ Goto(w, "record", "idle")
  /\ rows' = rows \cup {at[w]}
  /\ UNCHANGED <<blob, part, data, inodes, at, handle, crashes>>

\* The process dies; what the file system holds stays.
Crash(w) ==
  /\ crashes < MaxCrashes
  /\ crashes' = crashes + 1
  /\ pc[w] # "idle"
  /\ pc' = [pc EXCEPT ![w] = "idle"]
  /\ handle' = [handle EXCEPT ![w] = 0]
  /\ UNCHANGED <<blob, part, data, inodes, at, rows>>

Store(w) ==
  \/ Check(w)
  \/ Open(w)
  \/ WriteHalf(w)
  \/ Rename(w)
  \/ RenameFails(w)
  \/ RecordRaw(w)

Next == \E w \in Writers : Store(w) \/ Crash(w)

Spec == Init /\ [][Next]_archiveVars
-----------------------------------------------------------------------------
(***************************************************************************)
(* The types: every name and every handle refers to an existing inode.     *)
(***************************************************************************)
ArchiveTypeOK ==
  /\ inodes \in 0 .. MaxInodes
  /\ data \in [1 .. MaxInodes -> SUBSET Halves]
  /\ blob \in [Paths -> 0 .. inodes]
  /\ part \in [Paths -> 0 .. inodes]
  /\ pc \in [Writers -> Steps]
  /\ at \in [Writers -> Paths]
  /\ handle \in [Writers -> 0 .. inodes]
  /\ \A w \in Writers : pc[w] \in {"first", "second", "rename"} <=> handle[w] # 0
  /\ rows \subseteq Paths
  /\ crashes \in 0 .. MaxCrashes

Whole(p) == blob[p] # 0 /\ data[blob[p]] = Halves

(***************************************************************************)
(* The comment in store: a crash in the middle of a write cannot leave a   *)
(* truncated blob that later looks like a valid document.  A process that  *)
(* has the inode open may still be filling it; nobody else is.             *)
(***************************************************************************)
NoTruncatedBlob ==
  \A p \in Paths :
    blob[p] # 0 /\ (\A w \in Writers : handle[w] # blob[p]) => Whole(p)

(***************************************************************************)
(* What a replay relies on: a document the database knows of can be read   *)
(* back in full (cmd_replay loads storage_path).                           *)
(***************************************************************************)
RecordedIsReadable == \A p \in rows : Whole(p)

(***************************************************************************)
(* The archive is append-only: a blob is never replaced or rewritten.      *)
(***************************************************************************)
NeverOverwritten ==
  [][\A p \in Paths :
       Whole(p) => blob'[p] = blob[p] /\ data'[blob[p]] = data[blob[p]]]_archiveVars
=============================================================================
