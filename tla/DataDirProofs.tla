---------------------------- MODULE DataDirProofs ----------------------------
(***************************************************************************)
(* An import leaves one of the two stores, with the files of its artifact  *)
(* rows, except where the code gives that up, and an archive is complete:  *)
(* proved for any number of artifacts, sweeps, exports, imports, crashes   *)
(* and failed renames, rollbacks that fail half-way included.              *)
(***************************************************************************)
EXTENDS DataDir, TLAPS

\* What is there, was lost to a race, or to a failed rename back.
Kept == files \cup raced \cup lost

\* The phases of an import in which no rename of its is to be undone.
AtRest == {"idle", "created", "locked", "staged", "wiping"}

\* Nothing is known of a torn directory or of stores that share a log.
Sound == ~torn /\ ~mixed

\* Who holds the lock file, and what that excludes: nothing is exported once
\* there is an archive, and nothing imported before.
LockInv ==
  /\ export.pc # "idle" => exclusive = "export" /\ ~archive.made
  /\ import.pc \notin {"idle", "created", "wiping"} => exclusive = "import"
  /\ import.pc # "idle" => archive.made
  /\ ~archive.made => /\ live = "original" /\ Sound /\ lost = {}
                      /\ {pub.open, sweep.open} \subseteq {"none", "original"}

\* The sweep removes only files it found without a row.
SweepInv == ~sweep.counted

\* An export: its rows are those of the original store, until their files
\* are collected.
ExportInv ==
  /\ export.pc \in {"snapshot", "collected"} => export.rows \subseteq rows["original"]
  /\ export.pc = "collected" => export.rows \subseteq export.files \cup raced
  /\ archive.rows \subseteq archive.files \cup raced

\* The phases of an import: what is in place and what is aside.
PhaseInv ==
  /\ import.pc \in AtRest \cup {"aside", "restoring"} =>
       import.at = {} /\ import.added = {} /\ import.replaced = {}
  /\ import.pc \in {"created", "locked", "staged"} => live # "restored"
  /\ import.pc = "idle" /\ import.prev \in Stores /\ ~import.fresh => live \in {import.prev, "restored"}
  /\ import.pc = "wiping" => import.fresh
  /\ import.pc \in {"locked", "staged"} => (import.prev \in Stores => live = import.prev)
  /\ import.pc \in {"aside", "moved", "failing", "restoring"} => import.prev # "restored"
  /\ import.pc = "aside" => live \in {"none", "new"}
  /\ import.pc = "restoring" => live \in {"none", "new", "restored"}
  /\ import.pc \in {"aside", "restoring"} /\ live = "new" => rows["new"] = {} /\ import.prev # "new"
  /\ import.pc \in {"moved", "failing"} => live = "restored"

\* While nothing is to be undone the store in place has its files.
LiveInv == import.pc \in AtRest => RowsIn(live) \subseteq Kept

\* The store that is aside has them too, or they are aside as well; a file
\* that was not there before is needed by none of its rows.
AsideInv ==
  /\ import.pc \in {"aside", "restoring"} => RowsIn(import.prev) \subseteq Kept
  /\ import.pc \in {"moved", "failing"} =>
       /\ RowsIn(import.prev) \subseteq Kept \cup import.replaced
       /\ RowsIn(import.prev) \cap (import.added \cup import.at) \subseteq
            import.replaced \cup raced \cup lost
       /\ import.replaced \subseteq import.added \cup import.at
       /\ import.added \cap import.at = {}
  /\ import.pc = "moved" => /\ rows["restored"] = archive.rows
                            /\ archive.rows \cap import.added \subseteq Kept

\* A worker has the file it publishes, or it is between its renames, unless
\* the store it has open is not going to stay.
PubInv ==
  /\ pub.open = "none" => pub.hash = {}
  /\ import.pc \in AtRest /\ pub.open = live => pub.hash \subseteq Kept
  /\ import.pc \in {"aside", "restoring"} /\ pub.open # "restored"
       /\ pub.open \in {import.prev, live} => pub.hash \subseteq Kept
  /\ import.pc \in {"moved", "failing"} => pub.open \in {"none", "restored"}
  /\ import.pc = "moved" => pub.hash \subseteq Kept \cup import.at

\* What makes the properties inductive.
DirFacts == PhaseInv /\ LiveInv /\ AsideInv /\ PubInv
DirSafe == LockInv /\ SweepInv /\ ExportInv /\ (Sound => DirFacts)

DirInv == DataDirTypeOK /\ DirSafe

-----------------------------------------------------------------------------
\* A store that is placed is in place, and the flags stay flags.
LEMMA PlaceType ==
  ASSUME DataDirTypeOK, NEW s \in Stores, NEW known, Place(s, known)
  PROVE  live' \in Stores /\ mixed' \in BOOLEAN
<1>1. live' = s
  BY DEF Place
<1>2. mixed' = mixed \/ mixed' = TRUE
  BY DEF Place
<1>3. mixed \in BOOLEAN
  BY DEF DataDirTypeOK
<1> QED
  BY <1>1, <1>2, <1>3

\* What Open leaves: a store in place and rows that are rows.
LEMMA OpensType ==
  ASSUME DataDirTypeOK, Opens
  PROVE  live' \in Stores /\ mixed' \in BOOLEAN /\ rows' \in [Stores -> SUBSET Hashes]
<1>1. CASE live \in Stores /\ UNCHANGED <<rows, live, mixed>>
  BY <1>1 DEF DataDirTypeOK
<1>2. CASE Place("new", "none") /\ rows' = [rows EXCEPT !["new"] = {}]
  <2>1. "new" \in Stores
    BY DEF Stores
  <2>2. live' \in Stores /\ mixed' \in BOOLEAN
    BY <1>2, <2>1, PlaceType
  <2>3. rows' \in [Stores -> SUBSET Hashes]
    BY <1>2, <2>1 DEF DataDirTypeOK
  <2> QED
    BY <2>2, <2>3
<1> QED
  BY <1>1, <1>2 DEF Opens

\* Every variable keeps its type, in a step of the worker or of GC.
LEMMA UseType ==
  ASSUME DataDirTypeOK,
         \/ OpenStore \/ CloseStore \/ VerifyPublished \/ CommitRow
         \/ StartSweep \/ RemoveFile \/ EndSweep
         \/ \E h \in Hashes : FindOrWrite(h) \/ DeleteRuns(h) \/ CountRows(h)
  PROVE  DataDirTypeOK'
<1>1. CASE OpenStore
  <2>1. live' \in Stores /\ mixed' \in BOOLEAN /\ rows' \in [Stores -> SUBSET Hashes]
    BY <1>1, OpensType DEF OpenStore
  <2>2. pub' = [pc |-> "idle", hash |-> {}, open |-> live']
    BY <1>1 DEF OpenStore, NoPub
  <2>3. pub' \in Pubs
    BY <2>1, <2>2 DEF Pubs
  <2> QED
    BY <1>1, <2>1, <2>3 DEF DataDirTypeOK, OpenStore
<1>2. CASE CloseStore
  BY <1>2 DEF DataDirTypeOK, CloseStore, NoPub, Pubs
<1>3. CASE VerifyPublished
  <2>1. pub' \in Pubs
    BY <1>3 DEF DataDirTypeOK, VerifyPublished, NoPub, Pubs
  <2> QED
    BY <1>3, <2>1 DEF DataDirTypeOK, VerifyPublished
<1>4. CASE CommitRow
  <2>1. pub' \in Pubs
    BY <1>4 DEF DataDirTypeOK, CommitRow, NoPub, Pubs
  <2>2. rows' \in [Stores -> SUBSET Hashes]
    BY <1>4 DEF DataDirTypeOK, CommitRow, Pubs
  <2> QED
    BY <1>4, <2>1, <2>2 DEF DataDirTypeOK, CommitRow
<1>5. CASE StartSweep
  <2>1. live' \in Stores /\ mixed' \in BOOLEAN /\ rows' \in [Stores -> SUBSET Hashes]
    BY <1>5, OpensType DEF StartSweep
  <2>2. sweep' = [todo |-> files, at |-> {}, counted |-> FALSE, open |-> live']
    BY <1>5 DEF StartSweep, NoSweep
  <2>3. sweep' \in Sweeps
    BY <2>1, <2>2 DEF Sweeps, DataDirTypeOK
  <2> QED
    BY <1>5, <2>1, <2>3 DEF DataDirTypeOK, StartSweep
<1>6. CASE RemoveFile
  <2>1. sweep' \in Sweeps
    BY <1>6 DEF DataDirTypeOK, RemoveFile, Sweeps
  <2>2. raced' \subseteq Hashes /\ files' \subseteq Hashes
    BY <1>6 DEF DataDirTypeOK, RemoveFile, Sweeps
  <2> QED
    BY <1>6, <2>1, <2>2 DEF DataDirTypeOK, RemoveFile
<1>7. CASE EndSweep
  BY <1>7 DEF DataDirTypeOK, EndSweep, NoSweep, Sweeps
<1>8. ASSUME NEW h \in Hashes, FindOrWrite(h)
      PROVE  DataDirTypeOK'
  <2>1. pub' \in Pubs
    BY <1>8 DEF DataDirTypeOK, FindOrWrite, Pubs
  <2>2. files' \subseteq Hashes /\ live' \in Stores \cup {"none", "absent"}
    BY <1>8 DEF DataDirTypeOK, FindOrWrite
  <2> QED
    BY <1>8, <2>1, <2>2 DEF DataDirTypeOK, FindOrWrite
<1>9. ASSUME NEW h \in Hashes, DeleteRuns(h)
      PROVE  DataDirTypeOK'
  BY <1>9 DEF DataDirTypeOK, DeleteRuns
<1>10. ASSUME NEW h \in Hashes, CountRows(h)
       PROVE  DataDirTypeOK'
  <2> DEFINE counted == h \in rows[sweep.open]
             orphan  == IF counted THEN {} ELSE {h}
             noted   == counted /\ orphan # {}
  <2>1. noted \in BOOLEAN /\ orphan \subseteq Hashes
    OBVIOUS
  <2>2. sweep' = [sweep EXCEPT !.todo = sweep.todo \ {h}, !.at = orphan, !.counted = noted]
    BY <1>10 DEF CountRows
  <2> HIDE DEF counted, orphan, noted
  <2>3. sweep' \in Sweeps
    BY <2>1, <2>2 DEF DataDirTypeOK, Sweeps
  <2> QED
    BY <1>10, <2>3 DEF DataDirTypeOK, CountRows
<1> QED
  BY <1>1, <1>2, <1>3, <1>4, <1>5, <1>6, <1>7, <1>8, <1>9, <1>10

\* The same in a step of an export or an import.
LEMMA MoveType ==
  ASSUME DataDirTypeOK,
         \/ StartExport \/ Snapshot \/ CollectArtifacts \/ WriteArchive
         \/ StartImport \/ LockImport \/ StageArchive \/ RefuseImport \/ AsideStore \/ PlaceStore
         \/ PlaceFile \/ FinishImport
         \/ \E h \in Hashes : AsideFile(h)
  PROVE  DataDirTypeOK'
<1>1. CASE StartExport
  BY <1>1 DEF DataDirTypeOK, StartExport, Lock, NoExport, Exports
<1>2. CASE Snapshot
  <2>1. RowsIn(live) \subseteq Hashes
    BY DEF DataDirTypeOK, RowsIn
  <2>2. export' \in Exports
    BY <1>2, <2>1 DEF DataDirTypeOK, Snapshot, Exports
  <2> QED
    BY <1>2, <2>2 DEF DataDirTypeOK, Snapshot
<1>3. CASE CollectArtifacts
  BY <1>3 DEF DataDirTypeOK, CollectArtifacts, Exports
<1>4. CASE WriteArchive
  <2>1. archive' \in Archives /\ export' \in Exports
    BY <1>4 DEF DataDirTypeOK, WriteArchive, NoExport, Exports, Archives
  <2> QED
    BY <1>4, <2>1 DEF DataDirTypeOK, WriteArchive, Unlock
<1>5. CASE StartImport
  <2> DEFINE own == live = "absent"
  <2>1. own \in BOOLEAN
    OBVIOUS
  <2>2. import' = [pc |-> "created", prev |-> "none", fresh |-> own,
                   at |-> {}, added |-> {}, replaced |-> {}]
    BY <1>5 DEF StartImport, NoImport
  <2> HIDE DEF own
  <2>3. import' \in Imports
    BY <2>1, <2>2 DEF Imports
  <2>4. live' \in Stores \cup {"none", "absent"}
    BY <1>5 DEF DataDirTypeOK, StartImport
  <2> QED
    BY <1>5, <2>3, <2>4 DEF DataDirTypeOK, StartImport
<1>6. CASE LockImport \/ StageArchive \/ AsideStore
  <2>1. StoreInPlace \in Stores \cup {"none"}
    BY DEF StoreInPlace
  <2>2. import' \in Imports
    BY <1>6, <2>1 DEF DataDirTypeOK, LockImport, StageArchive, AsideStore, Imports
  <2>3. live' \in Stores \cup {"none", "absent"} /\ exclusive' \in {"nobody", "export", "import"}
    BY <1>6 DEF DataDirTypeOK, LockImport, StageArchive, AsideStore, Lock
  <2>4. UNCHANGED <<rows, files, pub, sweep, export, archive, raced, lost, torn, mixed, dirFaults>>
    BY <1>6 DEF LockImport, StageArchive, AsideStore
  <2> QED
    BY <2>2, <2>3, <2>4 DEF DataDirTypeOK
<1>7. CASE RefuseImport \/ FinishImport
  <2>1. import' \in Imports /\ exclusive' = "nobody"
    BY <1>7 DEF DataDirTypeOK, RefuseImport, FinishImport, EndImport, Unlock, Imports
  <2>2. UNCHANGED <<rows, live, files, pub, sweep, export, archive, raced, lost, torn, mixed,
                    dirFaults>>
    BY <1>7 DEF RefuseImport, FinishImport
  <2> QED
    BY <2>1, <2>2 DEF DataDirTypeOK
<1>8. CASE PlaceStore
  <2>1. "restored" \in Stores
    BY DEF Stores
  <2>2. live' \in Stores /\ mixed' \in BOOLEAN
    BY <1>8, <2>1, PlaceType DEF PlaceStore
  <2>3. rows' \in [Stores -> SUBSET Hashes] /\ import' \in Imports
    BY <1>8, <2>1 DEF DataDirTypeOK, PlaceStore, Imports, Archives
  <2> QED
    BY <1>8, <2>2, <2>3 DEF DataDirTypeOK, PlaceStore
<1>9. CASE PlaceFile
  <2>1. import' \in Imports /\ files' \subseteq Hashes
    BY <1>9 DEF DataDirTypeOK, PlaceFile, Imports
  <2> QED
    BY <1>9, <2>1 DEF DataDirTypeOK, PlaceFile
<1>10. ASSUME NEW h \in Hashes, AsideFile(h)
       PROVE  DataDirTypeOK'
  <2>1. import' \in Imports /\ files' \subseteq Hashes
    BY <1>10 DEF DataDirTypeOK, AsideFile, Imports
  <2> QED
    BY <1>10, <2>1 DEF DataDirTypeOK, AsideFile
<1> QED
  BY <1>1, <1>2, <1>3, <1>4, <1>5, <1>6, <1>7, <1>8, <1>9, <1>10

\* The same where something fails or is undone.
LEMMA UndoType ==
  ASSUME DataDirTypeOK,
         \/ FailImport \/ RestoreFile \/ RemoveStore \/ RestoreStore \/ RemoveDirectory
         \/ CrashDir \/ MixPages
         \/ \E h \in Hashes : RemoveMoved(h)
  PROVE  DataDirTypeOK'
<1> USE DataDirAssumption
<1>1. CASE FailImport
  <2>1. import' \in Imports
    BY <1>1 DEF DataDirTypeOK, FailImport, Imports
  <2> QED
    BY <1>1, <2>1 DEF DataDirTypeOK, FailImport, Fault
<1>2. CASE RestoreFile
  <2>1. import' \in Imports
    BY <1>2 DEF DataDirTypeOK, RestoreFile, Imports
  <2>2. files' \subseteq Hashes /\ lost' \subseteq Hashes
    BY <1>2 DEF DataDirTypeOK, RestoreFile, Imports
  <2> QED
    BY <1>2, <2>1, <2>2 DEF DataDirTypeOK, RestoreFile
<1>3. CASE RemoveStore
  <2>1. import' \in Imports
    BY <1>3 DEF DataDirTypeOK, RemoveStore, Imports
  <2> QED
    BY <1>3, <2>1 DEF DataDirTypeOK, RemoveStore
<1>4. CASE RestoreStore
  <2>1. import' \in Imports /\ exclusive' = "nobody"
    BY <1>4 DEF DataDirTypeOK, RestoreStore, EndImport, Unlock, Imports
  <2>2. live' \in Stores \cup {"none", "absent"} /\ mixed' \in BOOLEAN
    <3>1. CASE import.prev \in Stores /\ Place(import.prev, import.prev)
      BY <3>1, PlaceType
    <3>2. CASE UNCHANGED <<live, mixed>>
      BY <3>2 DEF DataDirTypeOK
    <3> QED
      BY <1>4, <3>1, <3>2 DEF RestoreStore
  <2>3. torn' = torn \/ torn' = TRUE
    BY <1>4 DEF RestoreStore
  <2>4. torn' \in BOOLEAN
    BY <2>3 DEF DataDirTypeOK
  <2> QED
    BY <1>4, <2>1, <2>2, <2>4 DEF DataDirTypeOK, RestoreStore
<1>5. CASE RemoveDirectory
  <2>1. import' \in Imports
    BY <1>5 DEF DataDirTypeOK, RemoveDirectory, Imports
  <2> QED
    BY <1>5, <2>1 DEF DataDirTypeOK, RemoveDirectory
<1>6. CASE CrashDir
  <2>1. /\ pub' = pub \/ pub' = NoPub
        /\ sweep' = sweep \/ sweep' = NoSweep
        /\ export' = export \/ export' = NoExport
        /\ import' = import \/ import' = NoImport
        /\ exclusive' = exclusive \/ exclusive' = "nobody"
    BY <1>6 DEF CrashDir, Unlock
  <2>2. (torn' = torn \/ torn' = TRUE) /\ (mixed' = mixed \/ mixed' = TRUE)
    BY <1>6 DEF CrashDir, LeavesLog
  <2>3. torn' \in BOOLEAN /\ mixed' \in BOOLEAN
    BY <2>2 DEF DataDirTypeOK
  <2>4. NoPub \in Pubs /\ NoSweep \in Sweeps /\ NoExport \in Exports /\ NoImport \in Imports
    BY DEF NoPub, NoSweep, NoExport, NoImport, Pubs, Sweeps, Exports, Imports
  <2>5. /\ pub' \in Pubs /\ sweep' \in Sweeps /\ export' \in Exports /\ import' \in Imports
        /\ exclusive' \in {"nobody", "export", "import"}
    BY <2>1, <2>4 DEF DataDirTypeOK
  <2>6. dirFaults' \in 0 .. MaxDirFaults
    BY <1>6 DEF CrashDir, Fault, DataDirTypeOK
  <2>7. UNCHANGED <<rows, live, files, archive, raced, lost>>
    BY <1>6 DEF CrashDir
  <2> QED
    BY <2>3, <2>5, <2>6, <2>7 DEF DataDirTypeOK
<1>7. CASE MixPages
  <2>1. UNION {rows[s] : s \in Stores} \subseteq Hashes
    BY DEF DataDirTypeOK
  <2>2. PICK mix \in SUBSET UNION {rows[s] : s \in Stores} : rows' = [rows EXCEPT ![live] = mix]
    BY <1>7 DEF MixPages
  <2>3. mix \subseteq Hashes
    BY <2>1, <2>2
  <2>4. rows' \in [Stores -> SUBSET Hashes]
    BY <2>2, <2>3 DEF DataDirTypeOK
  <2> QED
    BY <1>7, <2>4 DEF DataDirTypeOK, MixPages
<1>8. ASSUME NEW h \in Hashes, RemoveMoved(h)
      PROVE  DataDirTypeOK'
  <2>1. import' \in Imports /\ files' \subseteq Hashes
    BY <1>8 DEF DataDirTypeOK, RemoveMoved, Imports
  <2> QED
    BY <1>8, <2>1 DEF DataDirTypeOK, RemoveMoved
<1> QED
  BY <1>1, <1>2, <1>3, <1>4, <1>5, <1>6, <1>7, <1>8

\* Every step keeps the types.
LEMMA DirTypeStep ==
  ASSUME DataDirTypeOK, [DataDirNext]_dirVars
  PROVE  DataDirTypeOK'
<1>1. CASE UNCHANGED dirVars
  BY <1>1 DEF DataDirTypeOK, dirVars
<1> QED
  BY <1>1, UseType, MoveType, UndoType DEF DataDirNext, DirStep

-----------------------------------------------------------------------------
\* Opening the store: the one in place, or a new and empty one, and then no
\* other process has a store open.
LEMMA OpensSafe ==
  ASSUME DirInv, Sound, Opens
  PROVE  /\ ~archive.made => live' = "original" /\ UNCHANGED <<rows, live, mixed>>
         /\ \/ live \in Stores /\ UNCHANGED <<rows, live, mixed>>
            \/ /\ live \notin Stores /\ live' = "new" /\ rows'["new"] = {}
               /\ rows'["original"] = rows["original"]
               /\ rows'["restored"] = rows["restored"]
               /\ import.pc = "idle" \/ import.prev # "new"
               /\ ~mixed' => pub.open = "none" /\ sweep.open = "none"
<1>1. CASE live \in Stores /\ UNCHANGED <<rows, live, mixed>>
  BY <1>1 DEF DirInv, DirSafe, LockInv
<1>2. CASE /\ live \notin Stores /\ (import.pc = "idle" \/ import.prev # "new")
           /\ Place("new", "none") /\ rows' = [rows EXCEPT !["new"] = {}]
  <2>1. archive.made
    BY <1>2 DEF DirInv, DirSafe, LockInv, Stores
  <2>2. live' = "new" /\ (~mixed' => pub.open = "none" /\ sweep.open = "none")
    BY <1>2 DEF Place
  <2>3. rows'["new"] = {} /\ rows'["original"] = rows["original"] /\ rows'["restored"] = rows["restored"]
    BY <1>2 DEF DirInv, DataDirTypeOK, Stores
  <2> QED
    BY <1>2, <2>1, <2>2, <2>3
<1> QED
  BY <1>1, <1>2 DEF Opens

\* Who opens the store, the worker or GC, disturbs nothing.
LEMMA OpenSafe ==
  ASSUME DirInv, Sound, DataDirTypeOK', OpenStore \/ StartSweep
  PROVE  DirSafe'
<1>1. /\ ~archive.made => live' = "original" /\ UNCHANGED <<rows, live, mixed>>
      /\ \/ live \in Stores /\ UNCHANGED <<rows, live, mixed>>
         \/ /\ live \notin Stores /\ live' = "new" /\ rows'["new"] = {}
            /\ rows'["original"] = rows["original"]
            /\ rows'["restored"] = rows["restored"]
            /\ import.pc = "idle" \/ import.prev # "new"
            /\ ~mixed' => pub.open = "none" /\ sweep.open = "none"
  BY OpensSafe DEF OpenStore, StartSweep
<1>2. /\ UNCHANGED <<files, exclusive, export, archive, import, raced, lost, torn>>
      /\ pub' = pub \/ (pub'.hash = {} /\ pub'.open = live')
      /\ sweep' = sweep \/ (~sweep'.counted /\ sweep'.open = live')
  BY DEF OpenStore, StartSweep, NoPub, NoSweep
<1>3. LockInv'
  BY <1>1, <1>2 DEF DirInv, DirSafe, LockInv, Sound
<1>4. SweepInv'
  BY <1>2 DEF DirInv, DirSafe, SweepInv
<1>5. ExportInv'
  BY <1>1, <1>2 DEF DirInv, DirSafe, ExportInv
<1>6. ASSUME Sound'
      PROVE  DirFacts'
  <2> USE DEF DirInv, DirSafe, DirFacts, Sound
  <2>1. PhaseInv'
    BY <1>1, <1>2 DEF PhaseInv, Stores
  <2>2. RowsIn(live') \subseteq Hashes /\ (live \notin Stores => RowsIn(live)' = {})
    BY <1>1 DEF RowsIn, Stores, DataDirTypeOK
  <2>3. LiveInv'
    <3>1. CASE UNCHANGED <<rows, live>>
      BY <3>1, <1>2 DEF LiveInv, Kept, RowsIn
    <3>2. CASE live' = "new" /\ rows'["new"] = {}
      BY <3>2 DEF LiveInv, RowsIn, Stores
    <3> QED
      BY <1>1, <3>1, <3>2
  <2>4. import.pc # "idle" => RowsIn(import.prev)' = RowsIn(import.prev)
    BY <1>1, <1>2 DEF RowsIn, Stores
  <2>5. AsideInv'
    BY <1>1, <1>2, <2>4 DEF AsideInv, Kept
  <2>6. PubInv'
    <3>1. CASE pub' = pub
      BY <1>1, <1>2, <1>6, <3>1 DEF PubInv, PhaseInv, Kept, Stores
    <3>2. CASE pub'.hash = {} /\ pub'.open = live'
      BY <1>1, <1>2, <3>2 DEF PubInv, PhaseInv, Kept, Stores
    <3> QED
      BY <1>2, <3>1, <3>2
  <2> QED
    BY <2>1, <2>3, <2>5, <2>6
<1> QED
  BY <1>3, <1>4, <1>5, <1>6 DEF DirSafe

\* The worker: what it publishes has its file, or the loss of the file is
\* noted, until its row is committed.
LEMMA PublishSafe ==
  ASSUME DirInv, Sound, DataDirTypeOK',
         \/ CloseStore \/ VerifyPublished \/ CommitRow
         \/ \E h \in Hashes : FindOrWrite(h)
  PROVE  DirSafe'
<1> USE DEF DirInv, DirSafe, DirFacts, Sound
<1>1. CASE CloseStore
  <2>1. /\ pub'.open = "none" /\ pub'.hash = {}
        /\ UNCHANGED <<rows, live, files, sweep, exclusive, export, archive, import, raced, lost,
                       torn, mixed>>
    BY <1>1 DEF CloseStore, NoPub
  <2> QED
    BY <2>1 DEF LockInv, SweepInv, ExportInv, PhaseInv, LiveInv, AsideInv, PubInv, Kept, RowsIn
<1>2. CASE VerifyPublished
  <2>1. /\ pub'.open = pub.open /\ pub'.hash \subseteq pub.hash
        /\ UNCHANGED <<rows, live, files, sweep, exclusive, export, archive, import, raced, lost,
                       torn, mixed>>
    BY <1>2 DEF VerifyPublished, NoPub, DataDirTypeOK, Pubs
  <2> QED
    BY <2>1 DEF LockInv, SweepInv, ExportInv, PhaseInv, LiveInv, AsideInv, PubInv, Kept, RowsIn
<1>3. ASSUME NEW h \in Hashes, FindOrWrite(h)
      PROVE  DirSafe'
  <2>1. /\ pub'.open = pub.open /\ pub.open # "none" /\ pub'.hash = {h}
        /\ files' = files \cup {h}
        /\ live' = live \/ (live = "absent" /\ live' = "none")
        /\ UNCHANGED <<rows, sweep, exclusive, export, archive, import, raced, lost, torn, mixed>>
    BY <1>3 DEF FindOrWrite, DataDirTypeOK, Pubs
  <2>2. RowsIn(live)' = RowsIn(live) /\ RowsIn(import.prev)' = RowsIn(import.prev)
    BY <2>1 DEF RowsIn, Stores
  <2>3. LockInv' /\ SweepInv' /\ ExportInv' /\ PhaseInv'
    BY <2>1 DEF LockInv, SweepInv, ExportInv, PhaseInv, Stores
  <2>4. LiveInv' /\ AsideInv'
    BY <2>1, <2>2 DEF LiveInv, AsideInv, Kept
  <2>5. PubInv'
    BY <2>1 DEF PubInv, Kept
  <2> QED
    BY <2>3, <2>4, <2>5
<1>4. CASE CommitRow
  <2>1. /\ exclusive = "nobody" /\ pub'.hash = {} /\ pub'.open = pub.open
        /\ rows' = [rows EXCEPT ![pub.open] = rows[pub.open] \cup pub.hash]
        /\ UNCHANGED <<live, files, sweep, exclusive, export, archive, import, raced, lost,
                       torn, mixed>>
    BY <1>4 DEF CommitRow, Shared, NoPub
  <2>2. import.pc \in {"idle", "created", "wiping"} /\ export.pc = "idle"
    BY <2>1 DEF LockInv, DataDirTypeOK, Imports
  <2>3. LockInv' /\ SweepInv' /\ ExportInv' /\ PhaseInv' /\ AsideInv'
    BY <2>1, <2>2 DEF LockInv, SweepInv, ExportInv, PhaseInv, AsideInv
  <2>4. RowsIn(live)' \subseteq RowsIn(live) \cup (IF pub.open = live THEN pub.hash ELSE {})
    BY <2>1 DEF RowsIn, DataDirTypeOK
  <2>5. LiveInv' /\ PubInv'
    BY <2>1, <2>2, <2>4 DEF LiveInv, PubInv, Kept, AtRest
  <2> QED
    BY <2>3, <2>5
<1> QED
  BY <1>1, <1>2, <1>3, <1>4

\* Garbage collection: rows only go, and a file with a row, or about to have
\* one, is removed only where the race is noted.
LEMMA CollectSafe ==
  ASSUME DirInv, Sound, DataDirTypeOK',
         \/ RemoveFile \/ EndSweep
         \/ \E h \in Hashes : DeleteRuns(h) \/ CountRows(h)
  PROVE  DirSafe'
<1> USE DEF DirInv, DirSafe, DirFacts, Sound
<1>1. ASSUME NEW h \in Hashes, DeleteRuns(h)
      PROVE  DirSafe'
  <2>1. /\ exclusive = "nobody" /\ live \in Stores
        /\ rows' = [rows EXCEPT ![live] = rows[live] \ {h}]
        /\ UNCHANGED <<live, files, pub, sweep, exclusive, export, archive, import, raced, lost,
                       torn, mixed>>
    BY <1>1 DEF DeleteRuns, Shared, RowsIn
  <2>2. import.pc \in {"idle", "created", "wiping"} /\ export.pc = "idle"
    BY <2>1 DEF LockInv, DataDirTypeOK, Imports
  <2>3. LockInv' /\ SweepInv' /\ ExportInv' /\ PhaseInv' /\ AsideInv' /\ PubInv'
    BY <2>1, <2>2 DEF LockInv, SweepInv, ExportInv, PhaseInv, AsideInv, PubInv, Kept
  <2>4. RowsIn(live)' \subseteq RowsIn(live)
    BY <2>1 DEF RowsIn, DataDirTypeOK
  <2>5. LiveInv'
    BY <2>1, <2>2, <2>4 DEF LiveInv, Kept, AtRest
  <2> QED
    BY <2>3, <2>5
<1>2. CASE EndSweep \/ \E h \in Hashes : CountRows(h)
  <2>1. /\ ~sweep'.counted
        /\ sweep'.open = sweep.open \/ sweep'.open = "none"
        /\ UNCHANGED <<rows, live, files, pub, exclusive, export, archive, import, raced, lost,
                       torn, mixed>>
    <3>1. CASE EndSweep
      BY <3>1 DEF EndSweep, NoSweep
    <3>2. ASSUME NEW h \in Hashes, CountRows(h)
          PROVE  <2>1
      <4> DEFINE counted == h \in rows[sweep.open]
                 orphan  == IF counted THEN {} ELSE {h}
                 noted   == counted /\ orphan # {}
      <4>1. ~noted
        OBVIOUS
      <4>2. sweep' = [sweep EXCEPT !.todo = sweep.todo \ {h}, !.at = orphan, !.counted = noted]
        BY <3>2 DEF CountRows
      <4> HIDE DEF counted, orphan, noted
      <4>3. sweep'.counted = noted /\ sweep'.open = sweep.open
        BY <4>2 DEF DataDirTypeOK, Sweeps
      <4> QED
        BY <3>2, <4>1, <4>3 DEF CountRows
    <3> QED
      BY <1>2, <3>1, <3>2
  <2> QED
    BY <2>1 DEF LockInv, SweepInv, ExportInv, PhaseInv, LiveInv, AsideInv, PubInv, Kept, RowsIn
<1>3. CASE RemoveFile
  <2>1. /\ raced \subseteq raced' /\ files' \subseteq files /\ files \ sweep.at \subseteq files'
        /\ sweep.at \cap ReliedOn \subseteq raced'
    BY <1>3 DEF RemoveFile, SweepInv
  <2>2. /\ pub.hash \subseteq ReliedOn /\ RowsIn(live) \subseteq ReliedOn
        /\ import.pc # "idle" => RowsIn(import.prev) \subseteq ReliedOn
    BY DEF ReliedOn
  <2>3. UNCHANGED <<rows, live, pub, exclusive, export, archive, import, lost, torn, mixed>>
        /\ sweep'.open = sweep.open /\ sweep'.counted = sweep.counted
    BY <1>3 DEF RemoveFile, DataDirTypeOK, Sweeps
  <2>4. RowsIn(live)' = RowsIn(live) /\ RowsIn(import.prev)' = RowsIn(import.prev)
    BY <2>3 DEF RowsIn
  <2>5. LockInv' /\ SweepInv' /\ ExportInv' /\ PhaseInv'
    BY <2>1, <2>3 DEF LockInv, SweepInv, ExportInv, PhaseInv
  <2>6. \A x \in ReliedOn : x \in Kept => x \in Kept'
    BY <2>1, <2>3 DEF Kept
  <2>7. LiveInv' /\ PubInv'
    BY <2>2, <2>3, <2>4, <2>6 DEF LiveInv, PubInv
  <2>8. import.pc = "moved" => archive.rows \cap import.added \subseteq ReliedOn
    BY <2>2 DEF AsideInv, PhaseInv, RowsIn, Stores
  <2>9. AsideInv'
    BY <2>1, <2>2, <2>3, <2>4, <2>6, <2>8 DEF AsideInv
  <2> QED
    BY <2>5, <2>7, <2>9
<1> QED
  BY <1>1, <1>2, <1>3

\* An export, under the lock: the rows of its snapshot are those of the store
\* while it collects the files.
LEMMA ExportSafe ==
  ASSUME DirInv, Sound, DataDirTypeOK',
         StartExport \/ Snapshot \/ CollectArtifacts \/ WriteArchive
  PROVE  DirSafe'
<1> USE DEF DirInv, DirSafe, Sound
<1>1. UNCHANGED <<rows, live, files, pub, sweep, import, raced, lost, torn, mixed>>
  BY DEF StartExport, Snapshot, CollectArtifacts, WriteArchive
<1>2. ~archive.made /\ import.pc = "idle"
  BY DEF LockInv, StartExport, Snapshot, CollectArtifacts, WriteArchive
<1>3. SweepInv' /\ DirFacts'
  BY <1>1, <1>2 DEF SweepInv, DirFacts, PhaseInv, LiveInv, AsideInv, PubInv, Kept, RowsIn
<1>4. CASE StartExport
  BY <1>1, <1>2, <1>3, <1>4 DEF StartExport, Lock, NoExport, LockInv, ExportInv
<1>5. CASE Snapshot
  <2>1. export'.rows = rows["original"] /\ export'.pc = "snapshot"
    BY <1>2, <1>5 DEF Snapshot, LockInv, RowsIn, Stores, DataDirTypeOK, Exports
  <2> QED
    BY <1>1, <1>2, <1>3, <1>5, <2>1 DEF Snapshot, LockInv, ExportInv
<1>6. CASE CollectArtifacts
  <2>1. rows["original"] \subseteq files \cup raced
    BY <1>2 DEF DirFacts, LiveInv, LockInv, RowsIn, Stores, Kept, AtRest
  <2>2. export'.rows = export.rows /\ export'.files = files /\ export'.pc = "collected"
    BY <1>6 DEF CollectArtifacts, DataDirTypeOK, Exports
  <2> QED
    BY <1>1, <1>2, <1>3, <1>6, <2>1, <2>2 DEF CollectArtifacts, LockInv, ExportInv
<1>7. CASE WriteArchive
  <2>1. /\ archive'.rows \subseteq archive'.files \cup raced
        /\ export'.pc = "idle"
    BY <1>7 DEF WriteArchive, ExportInv, NoExport
  <2> QED
    BY <1>1, <1>2, <1>3, <2>1 DEF LockInv, ExportInv
<1> QED
  BY <1>4, <1>5, <1>6, <1>7

-----------------------------------------------------------------------------
\* An import until its first rename, and its refusal: the store in place is
\* the one that was there.
LEMMA StageSafe ==
  ASSUME DirInv, Sound, DataDirTypeOK',
         StartImport \/ LockImport \/ StageArchive \/ RefuseImport
  PROVE  DirSafe'
<1> USE DEF DirInv, DirSafe, DirFacts, Sound
<1>1. UNCHANGED <<rows, files, pub, sweep, export, archive, raced, lost, torn, mixed>>
  BY DEF StartImport, LockImport, StageArchive, RefuseImport
<1>2. SweepInv' /\ ExportInv'
  BY <1>1 DEF SweepInv, ExportInv
<1>3. import.pc \in {"idle", "created", "locked", "staged"}
  BY DEF StartImport, LockImport, StageArchive, RefuseImport
<1>4. import.pc # "idle" => import.at = {} /\ import.added = {} /\ import.replaced = {}
  BY <1>3 DEF PhaseInv, AtRest
<1>5. archive.made /\ live # "restored"
  BY <1>3 DEF StartImport, LockImport, StageArchive, RefuseImport, LockInv, PhaseInv
<1>6. /\ import'.pc \in {"idle", "created", "locked", "staged", "wiping"}
      /\ import'.at = {} /\ import'.added = {} /\ import'.replaced = {}
      /\ live' = live \/ (live = "absent" /\ live' = "none")
      /\ exclusive' = exclusive \/ exclusive = "nobody" \/ exclusive = "import"
      /\ import'.pc \in {"locked", "staged"} => exclusive' = "import" /\ (import'.prev \in Stores => live' = import'.prev)
      /\ import'.pc = "wiping" => import'.fresh
      /\ import'.pc = "idle" /\ ~import'.fresh /\ import'.prev \in Stores => live' = import'.prev
  <2>1. CASE StartImport
    <3> DEFINE own == live = "absent"
    <3>1. import' = [pc |-> "created", prev |-> "none", fresh |-> own,
                     at |-> {}, added |-> {}, replaced |-> {}]
      BY <2>1 DEF StartImport, NoImport
    <3> HIDE DEF own
    <3>2. import'.pc = "created" /\ import'.at = {} /\ import'.added = {} /\ import'.replaced = {}
      BY <3>1
    <3> QED
      BY <2>1, <3>2 DEF StartImport
  <2>2. CASE LockImport
    <3>1. /\ import'.pc = "locked" /\ import'.prev = StoreInPlace /\ import'.at = import.at
          /\ import'.added = import.added /\ import'.replaced = import.replaced
      BY <2>2 DEF LockImport, DataDirTypeOK, Imports
    <3>2. import'.prev \in Stores => live = import'.prev
      BY <3>1 DEF StoreInPlace, Stores
    <3> QED
      BY <1>4, <2>2, <3>1, <3>2 DEF LockImport, Lock
  <2>3. CASE StageArchive
    <3>1. /\ import'.pc = "staged" /\ import'.prev = import.prev /\ import'.at = import.at
          /\ import'.added = import.added /\ import'.replaced = import.replaced
      BY <2>3 DEF StageArchive, DataDirTypeOK, Imports
    <3> QED
      BY <1>4, <2>3, <3>1 DEF StageArchive, LockInv, PhaseInv
  <2>4. CASE RefuseImport
    <3>1. /\ import'.pc \in {"idle", "wiping"} /\ import'.prev = import.prev /\ import'.at = {}
          /\ import'.added = {} /\ import'.replaced = {} /\ import'.fresh = import.fresh
          /\ import'.pc = "wiping" => import.fresh
      BY <2>4 DEF RefuseImport, EndImport, DataDirTypeOK, Imports
    <3>2. exclusive = "import" /\ UNCHANGED live
      BY <2>4 DEF RefuseImport, LockInv
    <3>3. import.prev \in Stores => live = import.prev
      BY <2>4 DEF RefuseImport, PhaseInv
    <3> QED
      BY <2>4, <3>1, <3>2, <3>3
  <2> QED
    BY <2>1, <2>2, <2>3, <2>4
<1>7. export.pc = "idle"
  BY <1>5 DEF LockInv
<1>8. LockInv'
  BY <1>1, <1>5, <1>6, <1>7 DEF LockInv
<1>9. RowsIn(live)' = RowsIn(live)
  BY <1>1, <1>6 DEF RowsIn, Stores
<1>10. import.pc \in AtRest /\ import'.pc \in AtRest
  BY <1>3, <1>6 DEF AtRest
<1>11. ASSUME Sound'
       PROVE  DirFacts'
  <2>1. PhaseInv'
    BY <1>5, <1>6 DEF PhaseInv, AtRest, Stores
  <2>2. LiveInv'
    BY <1>1, <1>9, <1>10, <1>11 DEF LiveInv, Kept
  <2>3. AsideInv'
    BY <1>6 DEF AsideInv
  <2>4. pub.open = live' => pub.open = live \/ pub.open = "none"
    BY <1>6 DEF DataDirTypeOK, Pubs, Stores
  <2>5. import'.pc \notin {"aside", "moved", "failing", "restoring"}
    BY <1>6
  <2>6. PubInv
    OBVIOUS
  <2>7. pub' = pub /\ Kept' = Kept
    BY <1>1 DEF Kept
  <2>8. PubInv'
    BY <1>10, <2>4, <2>5, <2>6, <2>7 DEF PubInv
  <2> QED
    BY <2>1, <2>2, <2>3, <2>8
<1> QED
  BY <1>2, <1>8, <1>11

\* The renames of the store: its rows keep their files while it is aside, and
\* no worker has it open when the archive's takes its place.
LEMMA MoveStoreSafe ==
  ASSUME DirInv, Sound, DataDirTypeOK', AsideStore \/ PlaceStore
  PROVE  DirSafe'
<1> USE DEF DirInv, DirSafe, DirFacts, Sound
<1>1. /\ UNCHANGED <<files, pub, sweep, exclusive, export, archive, raced, lost, torn>>
      /\ import.pc \in {"staged", "aside"} /\ archive.made /\ export.pc = "idle"
      /\ exclusive = "import"
  BY DEF AsideStore, PlaceStore, LockInv
<1>2. import.at = {} /\ import.added = {} /\ import.replaced = {}
  BY <1>1 DEF PhaseInv, AtRest
<1>3. /\ import'.at = import.at /\ import'.added = import.added
      /\ import'.replaced = import.replaced /\ import'.pc \in {"aside", "moved"}
  BY DEF AsideStore, PlaceStore, DataDirTypeOK, Imports
<1>4. LockInv' /\ SweepInv' /\ ExportInv'
  BY <1>1, <1>3 DEF LockInv, SweepInv, ExportInv
<1>5. CASE AsideStore
  <2>1. /\ import.pc = "staged" /\ import'.pc = "aside" /\ live' = "none"
        /\ import'.prev = StoreInPlace /\ rows' = rows
    BY <1>5 DEF AsideStore, DataDirTypeOK, Imports
  <2>2. live # "restored"
    BY <2>1 DEF PhaseInv
  <2>3. import'.prev # "restored" /\ (import'.prev = live \/ import'.prev = "none")
    BY <2>1, <2>2 DEF StoreInPlace
  <2>4. RowsIn(import.prev)' \subseteq Kept
    BY <2>1, <2>3 DEF RowsIn, LiveInv, AtRest, Stores
  <2>5. PhaseInv'
    BY <1>2, <1>3, <2>1, <2>3 DEF PhaseInv, AtRest
  <2>6. LiveInv' /\ AsideInv'
    BY <1>1, <2>1, <2>4 DEF LiveInv, AsideInv, Kept, AtRest
  <2>7. PubInv'
    BY <1>1, <2>1, <2>3 DEF PubInv, Kept, AtRest
  <2> QED
    BY <1>4, <2>5, <2>6, <2>7
<1>6. CASE PlaceStore
  <2>1. /\ import.pc = "aside" /\ import'.pc = "moved" /\ live' = "restored"
        /\ import'.prev = import.prev
        /\ ~mixed' => pub.open = "none"
    BY <1>6 DEF PlaceStore, Place, DataDirTypeOK, Imports
  <2>2. /\ rows'["restored"] = archive.rows
        /\ \A s \in Stores : s # "restored" => rows'[s] = rows[s]
    BY <1>6 DEF PlaceStore, DataDirTypeOK, Stores
  <2>3. RowsIn(import.prev)' = RowsIn(import.prev)
    BY <2>1, <2>2 DEF RowsIn, PhaseInv
  <2>4. PhaseInv'
    BY <2>1 DEF PhaseInv, AtRest
  <2>5. LiveInv' /\ AsideInv'
    BY <1>1, <1>2, <1>3, <2>1, <2>2, <2>3 DEF LiveInv, AsideInv, Kept, AtRest
  <2>6. Sound' => PubInv'
    BY <1>1, <2>1 DEF PubInv, AtRest
  <2> QED
    BY <1>4, <2>4, <2>5, <2>6
<1> QED
  BY <1>5, <1>6

\* The renames of the artifacts: what is taken away is noted for the rollback.
LEMMA MoveFileSafe ==
  ASSUME DirInv, Sound, DataDirTypeOK',
         PlaceFile \/ \E h \in Hashes : AsideFile(h)
  PROVE  DirSafe'
<1> USE DEF DirInv, DirSafe, DirFacts, Sound
<1>1. /\ UNCHANGED <<rows, live, pub, sweep, exclusive, export, archive, raced, lost, torn, mixed>>
      /\ import.pc = "moved" /\ import'.pc = "moved" /\ import'.prev = import.prev
  BY DEF PlaceFile, AsideFile, DataDirTypeOK, Imports
<1>2. RowsIn(import.prev)' = RowsIn(import.prev)
  BY <1>1 DEF RowsIn
<1>3. LockInv' /\ SweepInv' /\ ExportInv'
  BY <1>1 DEF LockInv, SweepInv, ExportInv
<1>4. PhaseInv' /\ LiveInv'
  BY <1>1 DEF PhaseInv, LiveInv, AtRest
<1>5. CASE PlaceFile
  <2>1. /\ import'.at = {} /\ import'.added = import.added \cup import.at
        /\ import'.replaced = import.replaced /\ files' = files \cup import.at
    BY <1>5 DEF PlaceFile, DataDirTypeOK, Imports
  <2>2. AsideInv' /\ PubInv'
    BY <1>1, <1>2, <2>1 DEF AsideInv, PubInv, Kept, AtRest
  <2> QED
    BY <1>3, <1>4, <2>2
<1>6. ASSUME NEW h \in Hashes, AsideFile(h)
      PROVE  DirSafe'
  <2>1. /\ import.at = {} /\ h \notin import.added
        /\ import'.at = {h} /\ import'.added = import.added
        /\ import'.replaced = import.replaced \cup ({h} \cap files) /\ files' = files \ {h}
    BY <1>6 DEF AsideFile, DataDirTypeOK, Imports
  <2>2. RowsIn(import.prev) \subseteq Kept \cup import.replaced
    BY <1>1 DEF AsideInv
  <2>3. AsideInv'
    BY <1>1, <1>2, <2>1, <2>2 DEF AsideInv, Kept
  <2>4. PubInv'
    BY <1>1, <2>1 DEF PubInv, Kept, AtRest
  <2> QED
    BY <1>3, <1>4, <2>3, <2>4
<1> QED
  BY <1>5, <1>6

\* An import that is done, or that fails and has everything to undo.
LEMMA EndMovingSafe ==
  ASSUME DirInv, Sound, DataDirTypeOK', FinishImport \/ FailImport
  PROVE  DirSafe'
<1> USE DEF DirInv, DirSafe, DirFacts, Sound
<1>1. UNCHANGED <<rows, live, files, pub, sweep, export, archive, raced, lost, torn, mixed>>
  BY DEF FinishImport, FailImport
<1>2. import.pc \in {"aside", "moved"} /\ archive.made /\ export.pc = "idle" /\ exclusive = "import"
  BY DEF FinishImport, FailImport, LockInv
<1>3. SweepInv' /\ ExportInv'
  BY <1>1 DEF SweepInv, ExportInv
<1>4. CASE FinishImport
  <2>1. /\ import.pc = "moved" /\ import.at = {} /\ archive.files \subseteq import.added
        /\ import'.pc = "idle" /\ import'.at = {} /\ import'.added = {} /\ import'.replaced = {}
        /\ exclusive' = "nobody"
    BY <1>4 DEF FinishImport, EndImport, Unlock, DataDirTypeOK, Imports
  <2>2. LockInv'
    BY <1>1, <1>2, <2>1 DEF LockInv
  <2>3. live = "restored" /\ rows["restored"] = archive.rows
    BY <2>1 DEF PhaseInv, AsideInv
  <2>4. RowsIn(live) \subseteq Kept
    BY <2>1, <2>3 DEF AsideInv, ExportInv, RowsIn, Kept, Stores
  <2>5. PhaseInv' /\ AsideInv'
    BY <1>1, <2>1, <2>3 DEF PhaseInv, AsideInv, AtRest
  <2>6. LiveInv'
    BY <1>1, <2>4 DEF LiveInv, Kept, RowsIn
  <2>7. PubInv'
    BY <1>1, <2>1 DEF PubInv, Kept, AtRest
  <2> QED
    BY <1>3, <2>2, <2>5, <2>6, <2>7
<1>5. CASE FailImport
  <2>1. /\ import'.pc = IF import.pc = "aside" THEN "restoring" ELSE "failing"
        /\ import'.at = import.at \cap import.replaced /\ import'.added = import.added
        /\ import'.replaced = import.replaced /\ import'.prev = import.prev
        /\ exclusive' = exclusive
    BY <1>5 DEF FailImport, DataDirTypeOK, Imports
  <2>2. LockInv'
    BY <1>1, <1>2, <2>1 DEF LockInv
  <2>3. PhaseInv'
    BY <1>1, <1>2, <2>1 DEF PhaseInv, AtRest
  <2>4. LiveInv'
    BY <1>2, <2>1 DEF LiveInv, AtRest
  <2>5. RowsIn(import.prev)' = RowsIn(import.prev)
    BY <1>1, <2>1 DEF RowsIn
  <2>6. AsideInv'
    BY <1>1, <1>2, <2>1, <2>5 DEF AsideInv, Kept
  <2>7. PubInv'
    BY <1>1, <1>2, <2>1 DEF PubInv, Kept, AtRest
  <2> QED
    BY <1>3, <2>2, <2>3, <2>4, <2>6, <2>7
<1> QED
  BY <1>4, <1>5

\* The rollback of the artifacts: a file that was replaced is back, or its
\* loss is noted; one that was not replaced is not needed.
LEMMA UndoFileSafe ==
  ASSUME DirInv, Sound, DataDirTypeOK',
         RestoreFile \/ \E h \in Hashes : RemoveMoved(h)
  PROVE  DirSafe'
<1> USE DEF DirInv, DirSafe, DirFacts, Sound
<1>1. /\ UNCHANGED <<rows, live, pub, sweep, exclusive, export, archive, raced, torn, mixed>>
      /\ import.pc = "failing" /\ import'.pc = "failing" /\ import'.prev = import.prev
  BY DEF RestoreFile, RemoveMoved, DataDirTypeOK, Imports
<1>2. RowsIn(import.prev)' = RowsIn(import.prev) /\ archive.made
  BY <1>1 DEF RowsIn, LockInv
<1>3. LockInv' /\ SweepInv' /\ ExportInv'
  BY <1>1, <1>2 DEF LockInv, SweepInv, ExportInv
<1>4. PhaseInv' /\ LiveInv' /\ PubInv'
  BY <1>1 DEF PhaseInv, LiveInv, PubInv, AtRest
<1>5. /\ RowsIn(import.prev) \subseteq Kept \cup import.replaced
      /\ RowsIn(import.prev) \cap (import.added \cup import.at) \subseteq
           import.replaced \cup raced \cup lost
      /\ import.replaced \subseteq import.added \cup import.at
      /\ import.added \cap import.at = {}
  BY <1>1 DEF AsideInv
<1>6. CASE RestoreFile
  <2>1. /\ import'.at = {} /\ import'.added = import.added
        /\ import'.replaced = import.replaced \ import.at
        /\ \/ files' = files \cup import.at /\ lost' = lost
           \/ lost' = lost \cup (import.at \ files) /\ files' = files
    BY <1>6 DEF RestoreFile, DataDirTypeOK, Imports
  <2>2. AsideInv'
    BY <1>1, <1>2, <1>5, <2>1 DEF AsideInv, Kept
  <2> QED
    BY <1>3, <1>4, <2>2
<1>7. ASSUME NEW h \in Hashes, RemoveMoved(h)
      PROVE  DirSafe'
  <2>1. /\ import.at = {} /\ h \in import.added /\ lost' = lost
        /\ import'.at = {h} \cap import.replaced /\ import'.added = import.added \ {h}
        /\ import'.replaced = import.replaced /\ files \ {h} \subseteq files'
    BY <1>7 DEF RemoveMoved, DataDirTypeOK, Imports
  <2>2. AsideInv'
    BY <1>1, <1>2, <1>5, <2>1 DEF AsideInv, Kept
  <2> QED
    BY <1>3, <1>4, <2>2
<1> QED
  BY <1>6, <1>7

\* The rollback of the store: the previous one is back, or the directory torn.
LEMMA UndoStoreSafe ==
  ASSUME DirInv, Sound, DataDirTypeOK', RemoveStore \/ RestoreStore \/ RemoveDirectory
  PROVE  DirSafe'
<1> USE DEF DirInv, DirSafe, DirFacts, Sound
<1>1. UNCHANGED <<rows, pub, sweep, export, archive, raced, lost>>
  BY DEF RemoveStore, RestoreStore, RemoveDirectory
<1>2. archive.made /\ export.pc = "idle"
  BY DEF RemoveStore, RestoreStore, RemoveDirectory, LockInv
<1>3. SweepInv' /\ ExportInv'
  BY <1>1, <1>2 DEF SweepInv, ExportInv
<1>4. CASE RemoveStore
  <2>1. /\ import.pc = "failing" /\ import.at = {} /\ import.added = {}
        /\ import'.pc = "restoring" /\ import'.at = {} /\ import'.added = {}
        /\ import'.replaced = import.replaced /\ import'.prev = import.prev
        /\ live' \in {"none", live}
        /\ UNCHANGED <<files, exclusive, torn, mixed>>
    BY <1>4 DEF RemoveStore, DataDirTypeOK, Imports
  <2>2. import.replaced = {} /\ live = "restored"
    BY <2>1 DEF AsideInv, PhaseInv
  <2>3. LockInv' /\ PhaseInv' /\ LiveInv'
    BY <1>1, <1>2, <2>1, <2>2 DEF LockInv, PhaseInv, LiveInv, AtRest
  <2>4. RowsIn(import.prev)' = RowsIn(import.prev) /\ Kept' = Kept
    BY <1>1, <2>1 DEF RowsIn, Kept
  <2>5. AsideInv' /\ PubInv'
    BY <1>1, <2>1, <2>2, <2>4 DEF AsideInv, PubInv, AtRest
  <2> QED
    BY <1>3, <2>3, <2>5
<1>5. CASE RestoreStore
  <2>1. /\ import.pc = "restoring" /\ import'.at = {} /\ import'.added = {}
        /\ import'.replaced = {} /\ import'.prev = import.prev /\ import'.fresh = import.fresh
        /\ import'.pc \in {"idle", "wiping"} /\ (import'.pc = "wiping" => import.fresh)
        /\ exclusive' = "nobody" /\ files' = files
    BY <1>5 DEF RestoreStore, EndImport, Unlock, DataDirTypeOK, Imports
  <2>2. LockInv'
    BY <1>1, <1>2, <2>1 DEF LockInv
  <2>3. /\ import.prev # "restored" /\ RowsIn(import.prev) \subseteq Kept
        /\ pub.open # "restored" /\ pub.open \in {import.prev, live} => pub.hash \subseteq Kept
        /\ pub.open = "none" => pub.hash = {}
        /\ live \in {"none", "new", "restored"}
        /\ live = "new" => rows["new"] = {}
    BY <2>1 DEF PhaseInv, AsideInv, PubInv
  <2>4. ASSUME Sound'
        PROVE  /\ live' \in {import.prev, "none", "new"} /\ (import.prev \in Stores => live' = import.prev)
               /\ pub.open = live' => pub.hash \subseteq Kept
               /\ RowsIn(live)' \subseteq Kept
    <3>1. CASE import.prev \in Stores /\ Place(import.prev, import.prev)
      BY <1>1, <2>3, <3>1 DEF Place, RowsIn
    <3>2. CASE /\ torn' = IF import.prev \in Stores \/ live = "restored" THEN TRUE ELSE torn
               /\ UNCHANGED <<live, mixed>>
      <4>1. import.prev \notin Stores /\ live # "restored"
        BY <2>4, <3>2
      <4> QED
        BY <1>1, <2>3, <3>2, <4>1 DEF RowsIn, Stores
    <3> QED
      BY <1>5, <3>1, <3>2 DEF RestoreStore
  <2>5. Kept' = Kept
    BY <1>1, <2>1 DEF Kept
  <2>6. Sound' => DirFacts'
    BY <1>1, <2>1, <2>3, <2>4, <2>5 DEF PhaseInv, LiveInv, AsideInv, PubInv, AtRest
  <2> QED
    BY <1>3, <2>2, <2>6
<1>6. CASE RemoveDirectory
  <2>1. /\ import.pc = "wiping" /\ import'.pc = "idle" /\ live' = "absent"
        /\ import'.at = import.at /\ import'.added = import.added
        /\ import'.replaced = import.replaced /\ import'.fresh = import.fresh
        /\ UNCHANGED <<exclusive, torn, mixed>>
    BY <1>6 DEF RemoveDirectory, DataDirTypeOK, Imports
  <2>2. LockInv'
    BY <1>1, <1>2, <2>1 DEF LockInv
  <2>3. PhaseInv' /\ AsideInv'
    BY <2>1 DEF PhaseInv, AsideInv, AtRest
  <2>4. LiveInv'
    BY <2>1 DEF LiveInv, RowsIn, Stores
  <2>5. PubInv'
    BY <1>1, <2>1 DEF PubInv, AtRest, DataDirTypeOK, Pubs, Stores
  <2> QED
    BY <1>3, <2>2, <2>3, <2>4, <2>5
<1> QED
  BY <1>4, <1>5, <1>6

\* The death of a process: it tears the directory, leaves a log that does not
\* belong to the store, or nothing depends on what it was doing.
LEMMA CrashSafe ==
  ASSUME DirInv, Sound, DataDirTypeOK', CrashDir
  PROVE  DirSafe'
<1> USE DEF DirInv, DirSafe, DirFacts, Sound
<1>1. UNCHANGED <<rows, live, files, archive, raced, lost>>
  BY DEF CrashDir
<1>2. Kept' = Kept /\ RowsIn(live)' = RowsIn(live)
  BY <1>1 DEF Kept, RowsIn
<1>3. CASE export.pc # "idle" /\ export' = NoExport /\ Unlock /\ UNCHANGED <<import, torn, sweep, pub, mixed>>
  <2>1. import.pc \in {"idle", "created", "wiping"} /\ export'.pc = "idle" /\ exclusive' = "nobody"
    BY <1>3 DEF LockInv, Unlock, NoExport, DataDirTypeOK, Imports
  <2>2. LockInv' /\ SweepInv' /\ ExportInv'
    BY <1>1, <1>3, <2>1 DEF LockInv, SweepInv, ExportInv
  <2>3. RowsIn(import.prev)' = RowsIn(import.prev)
    BY <1>1, <1>3 DEF RowsIn
  <2>4. DirFacts'
    BY <1>1, <1>2, <1>3, <2>3 DEF PhaseInv, LiveInv, AsideInv, PubInv
  <2> QED
    BY <2>2, <2>4
<1>4. CASE /\ import.pc # "idle"
           /\ torn' = IF Moving THEN TRUE ELSE torn
           /\ exclusive' = IF import.pc \in {"created", "wiping"} THEN exclusive ELSE "nobody"
           /\ import' = NoImport
           /\ UNCHANGED <<export, sweep, pub, mixed>>
  <2>1. /\ import'.pc = "idle" /\ import'.prev = "none" /\ import'.at = {}
        /\ import'.added = {} /\ import'.replaced = {}
    BY <1>4 DEF NoImport
  <2>2. archive.made /\ export.pc = "idle"
    BY <1>4 DEF LockInv
  <2>3. LockInv' /\ SweepInv' /\ ExportInv'
    BY <1>1, <1>4, <2>1, <2>2 DEF LockInv, SweepInv, ExportInv
  <2>4. ASSUME Sound'
        PROVE  DirFacts'
    <3>1. ~Moving
      BY <1>4, <2>4
    <3>2. import.pc \in AtRest \/ (import.pc = "aside" /\ import.prev \notin Stores)
      BY <3>1 DEF Moving, AtRest, DataDirTypeOK, Imports
    <3>3. RowsIn(live) \subseteq Kept /\ (pub.open = live => pub.hash \subseteq Kept)
      <4>1. CASE import.pc \in AtRest
        BY <4>1 DEF LiveInv, PubInv
      <4>2. CASE import.pc = "aside"
        BY <4>2 DEF PhaseInv, PubInv, RowsIn, Stores
      <4> QED
        BY <3>2, <4>1, <4>2
    <3>4. PhaseInv' /\ LiveInv' /\ AsideInv'
      BY <1>1, <1>2, <2>1, <3>3 DEF PhaseInv, LiveInv, AsideInv, AtRest, Stores
    <3>5. PubInv'
      BY <1>1, <1>2, <1>4, <2>1, <3>3 DEF PubInv, AtRest
    <3> QED
      BY <3>4, <3>5
  <2> QED
    BY <2>3, <2>4
<1>5. CASE /\ UNCHANGED <<export, import, exclusive, torn>>
           /\ sweep' = sweep \/ sweep' = NoSweep
           /\ pub' = pub \/ pub' = NoPub
           /\ mixed' = mixed \/ mixed' = TRUE
  <2>1. RowsIn(import.prev)' = RowsIn(import.prev)
    BY <1>1, <1>5 DEF RowsIn
  <2>2. /\ sweep' = sweep \/ (~sweep'.counted /\ sweep'.open = "none")
        /\ pub' = pub \/ (pub'.hash = {} /\ pub'.open = "none")
    BY <1>5 DEF NoSweep, NoPub
  <2>3. SweepInv' /\ ExportInv'
    BY <1>1, <1>5, <2>2 DEF SweepInv, ExportInv
  <2>4. Sound' => DirFacts'
    BY <1>1, <1>2, <1>5, <2>1, <2>2 DEF PhaseInv, LiveInv, AsideInv, PubInv
  <2>5. archive.made \/ mixed' = mixed
    <3>1. CASE LeavesLog(sweep.open) /\ sweep.open # "none"
      BY <3>1 DEF LeavesLog, Moving, LockInv
    <3>2. CASE LeavesLog(pub.open) /\ pub.open # "none"
      BY <3>2 DEF LeavesLog, Moving, LockInv
    <3> QED
      BY <3>1, <3>2 DEF CrashDir
  <2>6. LockInv'
    BY <1>1, <1>5, <2>2, <2>5 DEF LockInv
  <2> QED
    BY <2>3, <2>4, <2>6
<1> QED
  BY <1>3, <1>4, <1>5 DEF CrashDir, LeavesLog

\* Pages that turn up from another store's log: nothing is claimed of them.
LEMMA MixSafe ==
  ASSUME DirInv, DataDirTypeOK', MixPages
  PROVE  DirSafe'
<1>1. /\ UNCHANGED <<live, files, pub, sweep, exclusive, export, archive, import, raced, lost,
                     torn, mixed>>
      /\ mixed
  BY DEF MixPages
<1>2. archive.made /\ export.pc = "idle"
  BY <1>1 DEF DirInv, DirSafe, LockInv, Sound
<1>3. LockInv' /\ SweepInv' /\ ExportInv'
  BY <1>1, <1>2 DEF DirInv, DirSafe, LockInv, SweepInv, ExportInv, Sound
<1> QED
  BY <1>1, <1>3 DEF DirSafe, Sound

\* The invariant is inductive.
LEMMA DirInductive ==
  ASSUME DirInv, [DataDirNext]_dirVars
  PROVE  DirInv'
<1>1. DataDirTypeOK'
  BY DirTypeStep DEF DirInv
<1>2. CASE UNCHANGED dirVars
  BY <1>1, <1>2 DEF dirVars, DirInv, DirSafe, Sound, DirFacts, LockInv, SweepInv, ExportInv, PhaseInv,
                    LiveInv, AsideInv, PubInv, Kept, RowsIn
<1>3. CASE MixPages
  BY <1>1, <1>3, MixSafe DEF DirInv
<1>4. CASE Sound /\ DirStep
  BY <1>1, <1>4, OpenSafe, PublishSafe, CollectSafe, ExportSafe, StageSafe, MoveStoreSafe,
     MoveFileSafe, EndMovingSafe, UndoFileSafe, UndoStoreSafe, CrashSafe DEF DirInv, DirStep
<1> QED
  BY <1>2, <1>3, <1>4 DEF DataDirNext, Sound

\* It holds of a directory with an empty store, and of one that is to come
\* from an archive.
LEMMA DirInitInv ==
  ASSUME DataDirInit
  PROVE  DirInv
<1>1. DataDirTypeOK
  <2>1. /\ rows = [s \in Stores |-> {}] /\ live \in {"original", "absent"}
        /\ pub = NoPub /\ sweep = NoSweep /\ export = NoExport /\ import = NoImport
        /\ torn = FALSE /\ mixed = FALSE /\ dirFaults = 0 /\ exclusive = "nobody"
        /\ files = {} /\ raced = {} /\ lost = {}
        /\ archive \in {NoArchive, [rows |-> Hashes, files |-> Hashes, made |-> TRUE]}
    BY DEF DataDirInit, DataDirStart
  <2>2. NoPub \in Pubs /\ NoSweep \in Sweeps /\ NoExport \in Exports /\ NoImport \in Imports
    BY DEF NoPub, NoSweep, NoExport, NoImport, Pubs, Sweeps, Exports, Imports
  <2>3. archive \in Archives
    <3> DEFINE brought == [rows |-> Hashes, files |-> Hashes, made |-> TRUE]
    <3>1. brought \in Archives
      BY DEF Archives
    <3>2. NoArchive \in Archives
      BY DEF Archives, NoArchive
    <3> QED
      BY <2>1, <3>1, <3>2
  <2>4. rows \in [Stores -> SUBSET Hashes] /\ live \in Stores \cup {"none", "absent"}
    BY <2>1 DEF Stores
  <2>5. dirFaults \in 0 .. MaxDirFaults
    BY <2>1, DataDirAssumption
  <2> QED
    BY <2>1, <2>2, <2>3, <2>4, <2>5 DEF DataDirTypeOK
<1> USE DEF DataDirStart, NoArchive, NoPub, NoSweep, NoExport, NoImport
<1>2. LockInv /\ SweepInv /\ ExportInv
  BY DEF DataDirInit, LockInv, SweepInv, ExportInv, Sound
<1>3. PhaseInv /\ AsideInv
  BY DEF DataDirInit, PhaseInv, AsideInv, AtRest, Stores
<1>4. LiveInv /\ PubInv
  BY DEF DataDirInit, LiveInv, PubInv, RowsIn, AtRest, Stores
<1> QED
  BY <1>1, <1>2, <1>3, <1>4 DEF DirInv, DirSafe, DirFacts

\* What the invariant says of an import that is over, and of the archive.
LEMMA DirInvImplies ==
  ASSUME DirInv
  PROVE  ImportIsAtomic /\ ArchiveComplete
<1>1. ArchiveComplete
  BY DEF DirInv, DirSafe, ExportInv, ArchiveComplete
<1>2. ASSUME import.pc = "idle", Sound
      PROVE  /\ RowsIn(live) \subseteq files \cup raced \cup lost
             /\ import.prev \in Stores /\ ~import.fresh => live \in {import.prev, "restored"}
  BY <1>2 DEF DirInv, DirSafe, DirFacts, LiveInv, PhaseInv, AtRest, Kept
<1> QED
  BY <1>1, <1>2 DEF ImportIsAtomic, Sound

\* The invariant holds throughout.
LEMMA DirInvariant == DataDirSpec => []DirInv
<1>1. DataDirInit => DirInv
  BY DirInitInv
<1>2. DirInv /\ [DataDirNext]_dirVars => DirInv'
  BY DirInductive
<1> QED
  BY <1>1, <1>2, PTL DEF DataDirSpec

\* Every variable keeps its type.
THEOREM DataDirTyped == DataDirSpec => []DataDirTypeOK
<1>1. DirInv => DataDirTypeOK
  BY DEF DirInv
<1> QED
  BY <1>1, DirInvariant, PTL

\* Import either happens or does not (internal/store/backup.go, moveIn,
\* rollback): for any artifacts and any number of faults, what is over leaves
\* one of the two stores with the files of its rows, the named cases aside.
THEOREM ImportsAreAtomic == DataDirSpec => []ImportIsAtomic
<1>1. DirInv => ImportIsAtomic
  BY DirInvImplies
<1> QED
  BY <1>1, DirInvariant, PTL

\* An archive holds the files of its snapshot's rows (exportLocked).
THEOREM ArchivesAreComplete == DataDirSpec => []ArchiveComplete
<1>1. DirInv => ArchiveComplete
  BY DirInvImplies
<1> QED
  BY <1>1, DirInvariant, PTL
=============================================================================
