------------------------------- MODULE DataDir -------------------------------
(***************************************************************************)
(* One data directory: the store's file, the content-addressed artifact    *)
(* files and the lock file, under everything that touches them at once: a  *)
(* worker publishing artifacts (internal/controller/artifacts.go), garbage *)
(* collection (internal/store/gc.go), export and import (backup.go).       *)
(*                                                                         *)
(* Store transactions take the lock file shared, export and import take it *)
(* exclusively; opening the store, publishing and the sweep touch files    *)
(* without it.  An import renames the previous files aside and its own     *)
(* into place, one rename a step.  It renames proceed.db only: a process   *)
(* that has the previous store open shares proceed.db-wal with whoever     *)
(* opens the next one, and what the store then holds is undefined.         *)
(***************************************************************************)
EXTENDS Naturals

CONSTANTS
  Hashes,         \* artifact contents
  MaxDirFaults    \* bound on crashes and failed renames (named bound)

ASSUME DataDirAssumption == MaxDirFaults \in Nat

VARIABLES
  rows,      \* artifact rows of each store file
  live,      \* the store file named proceed.db; "none", or no directory
  files,     \* artifacts/<hash>
  pub,       \* the worker: where it is, its hash, the store file it has open
  sweep,     \* GC: files to visit, the file it will remove, whether that
             \* file had a row, the store file it has open
  exclusive, \* who holds the lock file exclusively
  export,    \* where Export is, its snapshot and what it collected
  archive,   \* the archive written
  import,    \* where Import is, the store it found, whether it made the
             \* directory, the artifact between its renames, those moved in
             \* and those of them that have a backup
  raced,     \* contents whose file was removed while somebody relied on it
  lost,      \* contents whose backup could not be renamed back
  torn,      \* an import died between its renames, or could not undo the store's
  mixed,     \* two store files shared a write-ahead log
  dirFaults

dirVars == <<rows, live, files, pub, sweep, exclusive, export, archive, import,
             raced, lost, torn, mixed, dirFaults>>

\* The store the directory had, the archive's, and one that Open created.
Stores == {"original", "restored", "new"}
RowsIn(s) == IF s \in Stores THEN rows[s] ELSE {}

NoPub == [pc |-> "idle", hash |-> {}, open |-> "none"]
NoSweep == [todo |-> {}, at |-> {}, counted |-> FALSE, open |-> "none"]
NoExport == [pc |-> "idle", rows |-> {}, files |-> {}]
NoImport == [pc |-> "idle", prev |-> "none", fresh |-> FALSE,
             at |-> {}, added |-> {}, replaced |-> {}]
NoArchive == [rows |-> {}, files |-> {}, made |-> FALSE]

Pubs == [pc : {"idle", "found", "published"}, hash : SUBSET Hashes, open : Stores \cup {"none"}]
Sweeps == [todo : SUBSET Hashes, at : SUBSET Hashes, counted : BOOLEAN, open : Stores \cup {"none"}]
Exports == [pc : {"idle", "locked", "snapshot", "collected"},
            rows : SUBSET Hashes, files : SUBSET Hashes]
Archives == [rows : SUBSET Hashes, files : SUBSET Hashes, made : BOOLEAN]
Imports == [pc : {"idle", "created", "locked", "staged", "aside", "moved", "failing",
                  "restoring", "wiping"},
            prev : Stores \cup {"none"}, fresh : BOOLEAN,
            at : SUBSET Hashes, added : SUBSET Hashes, replaced : SUBSET Hashes]

DataDirTypeOK ==
  /\ rows \in [Stores -> SUBSET Hashes] /\ live \in Stores \cup {"none", "absent"}
  /\ files \subseteq Hashes /\ raced \subseteq Hashes /\ lost \subseteq Hashes
  /\ torn \in BOOLEAN /\ mixed \in BOOLEAN
  /\ pub \in Pubs /\ sweep \in Sweeps /\ export \in Exports
  /\ archive \in Archives /\ import \in Imports
  /\ exclusive \in {"nobody", "export", "import"}
  /\ dirFaults \in 0 .. MaxDirFaults

DataDirStart(store, arch) ==
  /\ live = store /\ archive = arch
  /\ rows = [s \in Stores |-> {}] /\ files = {}
  /\ pub = NoPub /\ sweep = NoSweep
  /\ exclusive = "nobody" /\ export = NoExport /\ import = NoImport
  /\ raced = {} /\ lost = {} /\ torn = FALSE /\ mixed = FALSE
  /\ dirFaults = 0

\* A directory with an empty store, or none yet and an archive from elsewhere.
DataDirInit ==
  \/ DataDirStart("original", NoArchive)
  \/ DataDirStart("absent", [rows |-> Hashes, files |-> Hashes, made |-> TRUE])

\* lockShared: a transaction runs while nobody holds the lock exclusively.
Shared == exclusive = "nobody"

\* acquireDirLock waits for every transaction in flight.
Lock(who) == exclusive = "nobody" /\ exclusive' = who
Unlock == exclusive' = "nobody"

Fault == dirFaults < MaxDirFaults /\ dirFaults' = dirFaults + 1

\* A store file gets the name proceed.db; a process with another one open
\* than the one it knows by that name shares its log with the next opener.
Place(s, known) ==
  /\ live' = s
  /\ mixed' = IF {pub.open, sweep.open} \subseteq {"none", known} THEN mixed ELSE TRUE

-----------------------------------------------------------------------------
(***************************************************************************)
(* Opening and closing the store.                                          *)
(***************************************************************************)
\* Open takes no lock: the store in place, or a new one with an empty schema
\* (but none while an import has such a one aside: "original" stands for it).
Opens ==
  \/ live \in Stores /\ UNCHANGED <<rows, live, mixed>>
  \/ /\ live \notin Stores /\ (import.pc = "idle" \/ import.prev # "new")
     /\ Place("new", "none") /\ rows' = [rows EXCEPT !["new"] = {}]

OpenStore ==
  /\ pub.open = "none" /\ Opens
  /\ pub' = [NoPub EXCEPT !.open = live']
  /\ UNCHANGED <<files, sweep, exclusive, export, archive, import, raced, lost,
                 torn, dirFaults>>

CloseStore ==
  /\ pub.open # "none" /\ pub.pc = "idle"
  /\ pub' = NoPub
  /\ UNCHANGED <<rows, live, files, sweep, exclusive, export, archive, import,
                 raced, lost, torn, mixed, dirFaults>>

-----------------------------------------------------------------------------
(***************************************************************************)
(* The worker.                                                             *)
(***************************************************************************)
\* Publish finds the file, or writes it under a temporary name and renames;
\* it makes the directory if there is none, and asks for no lease.
FindOrWrite(h) ==
  /\ pub.open # "none" /\ pub.pc = "idle"
  /\ pub' = [pub EXCEPT !.pc = "found", !.hash = {h}]
  /\ files' = files \cup {h}
  /\ live' = IF live = "absent" THEN "none" ELSE live
  /\ UNCHANGED <<rows, sweep, exclusive, export, archive, import, raced, lost,
                 torn, mixed, dirFaults>>

\* artifactMatches reads the file again and fails if it is gone.
VerifyPublished ==
  /\ pub.pc = "found"
  /\ pub' = IF pub.hash \subseteq files THEN [pub EXCEPT !.pc = "published"]
            ELSE [NoPub EXCEPT !.open = pub.open]
  /\ UNCHANGED <<rows, live, files, sweep, exclusive, export, archive, import,
                 raced, lost, torn, mixed, dirFaults>>

\* appendArtifactEventsTx, with the outcome's transaction, in the store file
\* the worker has open.
CommitRow ==
  /\ pub.pc = "published" /\ Shared
  /\ rows' = [rows EXCEPT ![pub.open] = @ \cup pub.hash]
  /\ pub' = [NoPub EXCEPT !.open = pub.open]
  /\ UNCHANGED <<live, files, sweep, exclusive, export, archive, import, raced, lost,
                 torn, mixed, dirFaults>>

-----------------------------------------------------------------------------
(***************************************************************************)
(* Garbage collection.                                                     *)
(***************************************************************************)
\* gcDeleteRuns: the runs of an artifact row, in one transaction.
DeleteRuns(h) ==
  /\ Shared /\ h \in RowsIn(live)
  /\ rows' = [rows EXCEPT ![live] = @ \ {h}]
  /\ UNCHANGED <<live, files, pub, sweep, exclusive, export, archive, import,
                 raced, lost, torn, mixed, dirFaults>>

\* GC opens the store; gcSweepOrphanFiles reads the directory,
StartSweep ==
  /\ sweep.open = "none" /\ files # {} /\ Opens
  /\ sweep' = [NoSweep EXCEPT !.todo = files, !.open = live']
  /\ UNCHANGED <<files, pub, exclusive, export, archive, import, raced, lost,
                 torn, dirFaults>>

\* counts the rows of one file, no lock held,
CountRows(h) ==
  /\ sweep.at = {} /\ h \in sweep.todo
  /\ LET counted == h \in rows[sweep.open]
         orphan  == IF counted THEN {} ELSE {h}
     IN  sweep' = [sweep EXCEPT !.todo = @ \ {h}, !.at = orphan,
                                !.counted = counted /\ orphan # {}]
  /\ UNCHANGED <<rows, live, files, pub, exclusive, export, archive, import,
                 raced, lost, torn, mixed, dirFaults>>

\* What has a row by now, is about to have one, or has one in the store an
\* import has moved aside.
ReliedOn == pub.hash \cup RowsIn(live) \cup (IF import.pc = "idle" THEN {} ELSE RowsIn(import.prev))

\* and removes it.  By now a publisher may have found the file, its row may
\* be there, or another store may be in place.
RemoveFile ==
  /\ sweep.at # {}
  /\ files' = files \ sweep.at
  /\ raced' = IF ~sweep.counted THEN raced \cup (sweep.at \cap ReliedOn) ELSE raced
  /\ sweep' = [sweep EXCEPT !.at = {}]
  /\ UNCHANGED <<rows, live, pub, exclusive, export, archive, import, lost,
                 torn, mixed, dirFaults>>

EndSweep ==
  /\ sweep.open # "none" /\ sweep.todo = {} /\ sweep.at = {}
  /\ sweep' = NoSweep
  /\ UNCHANGED <<rows, live, files, pub, exclusive, export, archive, import,
                 raced, lost, torn, mixed, dirFaults>>

-----------------------------------------------------------------------------
(***************************************************************************)
(* Export, until there is an archive.                                      *)
(***************************************************************************)
\* Mutant of StartExport: the snapshot is not taken under the lock.
StartExportUnlocked ==
  /\ export.pc = "idle" /\ ~archive.made
  /\ export' = [NoExport EXCEPT !.pc = "locked"]
  /\ UNCHANGED <<rows, live, files, pub, sweep, exclusive, archive, import,
                 raced, lost, torn, mixed, dirFaults>>

StartExport ==
  /\ export.pc = "idle" /\ ~archive.made
  /\ Lock("export")
  /\ export' = [NoExport EXCEPT !.pc = "locked"]
  /\ UNCHANGED <<rows, live, files, pub, sweep, archive, import, raced, lost,
                 torn, mixed, dirFaults>>

\* VACUUM INTO.
Snapshot ==
  /\ export.pc = "locked"
  /\ export' = [export EXCEPT !.pc = "snapshot", !.rows = RowsIn(live)]
  /\ UNCHANGED <<rows, live, files, pub, sweep, exclusive, archive, import,
                 raced, lost, torn, mixed, dirFaults>>

\* collectArtifacts walks the directory and hashes every file.
CollectArtifacts ==
  /\ export.pc = "snapshot"
  /\ export' = [export EXCEPT !.pc = "collected", !.files = files]
  /\ UNCHANGED <<rows, live, files, pub, sweep, exclusive, archive, import,
                 raced, lost, torn, mixed, dirFaults>>

\* writeArchive opens the files again; one that is gone fails the export.
WriteArchive ==
  /\ export.pc = "collected"
  /\ archive' = IF export.files \subseteq files
                THEN [rows |-> export.rows, files |-> export.files, made |-> TRUE] ELSE archive
  /\ export' = NoExport
  /\ Unlock
  /\ UNCHANGED <<rows, live, files, pub, sweep, import, raced, lost, torn, mixed,
                 dirFaults>>

-----------------------------------------------------------------------------
(***************************************************************************)
(* Import of the archive, again and again until one succeeds.              *)
(***************************************************************************)
\* Mkdir tells whether the directory is this import's own.
StartImport ==
  /\ import.pc = "idle" /\ archive.made /\ live # "restored"
  /\ live' = IF live = "absent" THEN "none" ELSE live
  /\ import' = [NoImport EXCEPT !.pc = "created", !.fresh = (live = "absent")]
  /\ UNCHANGED <<rows, files, pub, sweep, exclusive, export, archive, raced, lost,
                 torn, mixed, dirFaults>>

StoreInPlace == IF live \in Stores THEN live ELSE "none"

LockImport ==
  /\ import.pc = "created" /\ Lock("import")
  /\ import' = [import EXCEPT !.pc = "locked", !.prev = StoreInPlace]
  /\ UNCHANGED <<rows, live, files, pub, sweep, export, archive, raced, lost,
                 torn, mixed, dirFaults>>

\* The callback returns, the staging directory and the backups in it are
\* deleted and the lock is released.  After an error an own directory goes.
EndImport(failed) ==
  /\ import' = [import EXCEPT !.pc = IF failed /\ import.fresh THEN "wiping" ELSE "idle",
                              !.at = {}, !.added = {}, !.replaced = {}]
  /\ Unlock

\* The archive is unpacked beside the store and verified, if no controller is
\* active: a lease may be held or lapse at any time, so that either can be.
StageArchive ==
  /\ import.pc = "locked"
  /\ import' = [import EXCEPT !.pc = "staged"]
  /\ UNCHANGED <<rows, live, files, pub, sweep, exclusive, export, archive, raced, lost,
                 torn, mixed, dirFaults>>

\* An active controller, an archive that does not verify, a failed first rename.
RefuseImport ==
  /\ import.pc \in {"locked", "staged"}
  /\ EndImport(TRUE)
  /\ UNCHANGED <<rows, live, files, pub, sweep, export, archive, raced, lost,
                 torn, mixed, dirFaults>>

\* moveIn(proceed.db): the store in place, if there is one, is renamed aside,
AsideStore ==
  /\ import.pc = "staged"
  /\ import' = [import EXCEPT !.pc = "aside", !.prev = StoreInPlace]
  /\ live' = "none"
  /\ UNCHANGED <<rows, files, pub, sweep, exclusive, export, archive, raced, lost,
                 torn, mixed, dirFaults>>

\* and the archive's is renamed into place, over one opened in between.
PlaceStore ==
  /\ import.pc = "aside"
  /\ import' = [import EXCEPT !.pc = "moved"]
  /\ Place("restored", "none")
  /\ rows' = [rows EXCEPT !["restored"] = archive.rows]
  /\ UNCHANGED <<files, pub, sweep, exclusive, export, archive, raced, lost,
                 torn, dirFaults>>

\* Mutant of AsideFile: the file replaced is not noted for the rollback.
AsideFileForgotten(h) ==
  /\ import.pc = "moved" /\ import.at = {} /\ h \in archive.files \ import.added
  /\ import' = [import EXCEPT !.at = {h}]
  /\ files' = files \ {h}
  /\ UNCHANGED <<rows, live, pub, sweep, exclusive, export, archive, raced, lost,
                 torn, mixed, dirFaults>>

\* moveIn(artifact): the same two renames for each artifact of the archive.
AsideFile(h) ==
  /\ import.pc = "moved" /\ import.at = {} /\ h \in archive.files \ import.added
  /\ import' = [import EXCEPT !.at = {h}, !.replaced = @ \cup ({h} \cap files)]
  /\ files' = files \ {h}
  /\ UNCHANGED <<rows, live, pub, sweep, exclusive, export, archive, raced, lost,
                 torn, mixed, dirFaults>>

PlaceFile ==
  /\ import.pc = "moved" /\ import.at # {}
  /\ import' = [import EXCEPT !.at = {}, !.added = @ \cup import.at]
  /\ files' = files \cup import.at
  /\ UNCHANGED <<rows, live, pub, sweep, exclusive, export, archive, raced, lost,
                 torn, mixed, dirFaults>>

FinishImport ==
  /\ import.pc = "moved" /\ import.at = {} /\ archive.files \subseteq import.added
  /\ EndImport(FALSE)
  /\ UNCHANGED <<rows, live, files, pub, sweep, export, archive, raced, lost,
                 torn, mixed, dirFaults>>

\* A rename fails: what it had moved aside is renamed back, then everything
\* is undone, in reverse order and whatever fails on the way.
FailImport ==
  /\ \/ import.pc = "aside"
     \/ import.pc = "moved" /\ ~(archive.files \subseteq import.added)
  /\ Fault
  /\ import' = [import EXCEPT !.pc = IF @ = "aside" THEN "restoring" ELSE "failing",
                              !.at = @ \cap import.replaced]
  /\ UNCHANGED <<rows, live, files, pub, sweep, exclusive, export, archive, raced, lost,
                 torn, mixed>>

\* rollback: an artifact that was moved in is removed, or cannot be,
RemoveMoved(h) ==
  /\ import.pc = "failing" /\ import.at = {} /\ h \in import.added
  /\ files' \in {files \ {h}, files}
  /\ import' = [import EXCEPT !.at = {h} \cap import.replaced, !.added = @ \ {h}]
  /\ UNCHANGED <<rows, live, pub, sweep, exclusive, export, archive, raced, lost,
                 torn, mixed, dirFaults>>

\* and its backup is renamed back, or cannot be: nobody looks at the error.
RestoreFile ==
  /\ import.pc = "failing" /\ import.at # {}
  /\ \/ files' = files \cup import.at /\ UNCHANGED lost
     \/ lost' = lost \cup (import.at \ files) /\ UNCHANGED files
  /\ import' = [import EXCEPT !.at = {}, !.replaced = @ \ import.at]
  /\ UNCHANGED <<rows, live, pub, sweep, exclusive, export, archive, raced,
                 torn, mixed, dirFaults>>

\* The store comes last: removed, or not,
RemoveStore ==
  /\ import.pc = "failing" /\ import.at = {} /\ import.added = {}
  /\ live' \in {"none", live}
  /\ import' = [import EXCEPT !.pc = "restoring"]
  /\ UNCHANGED <<rows, files, pub, sweep, exclusive, export, archive, raced, lost,
                 torn, mixed, dirFaults>>

\* and the previous one, if there was one, renamed back, or not.
RestoreStore ==
  /\ import.pc = "restoring"
  /\ \/ import.prev \in Stores /\ Place(import.prev, import.prev) /\ UNCHANGED torn
     \/ /\ torn' = IF import.prev \in Stores \/ live = "restored" THEN TRUE ELSE torn
        /\ UNCHANGED <<live, mixed>>
  /\ EndImport(TRUE)
  /\ UNCHANGED <<rows, files, pub, sweep, export, archive, raced, lost, dirFaults>>

\* RemoveAll of a directory the import made, without the lock and whatever
\* others have put there since.
RemoveDirectory ==
  /\ import.pc = "wiping"
  /\ import' = [import EXCEPT !.pc = "idle"]
  /\ live' = "absent" /\ files' = {}
  /\ UNCHANGED <<rows, pub, sweep, exclusive, export, archive, raced, lost, torn, mixed,
                 dirFaults>>

\* Between the first rename of an import and its end.
Moving == \/ import.pc \in {"moved", "failing", "restoring"}
          \/ import.pc = "aside" /\ import.prev \in Stores

\* A process that dies leaves its log behind: whoever opens the store next, an
\* import that looks for a lease included, recovers it, but for another store
\* file it is foreign.
LeavesLog(open) ==
  \/ mixed' = TRUE /\ (Moving \/ import.pc = "staged" \/ open # live)
  \/ mixed' = mixed /\ ~Moving /\ open = live

\* The process of an export, an import, a sweep or the worker dies; its lock
\* goes with it, what it renamed stays.
CrashDir ==
  /\ Fault
  /\ \/ /\ export.pc # "idle"
        /\ export' = NoExport /\ Unlock
        /\ UNCHANGED <<import, torn, sweep, pub, mixed>>
     \/ /\ import.pc # "idle"
        /\ torn' = IF Moving THEN TRUE ELSE torn
        /\ exclusive' = IF import.pc \in {"created", "wiping"} THEN exclusive ELSE "nobody"
        /\ import' = NoImport
        /\ UNCHANGED <<export, sweep, pub, mixed>>
     \/ /\ sweep.open # "none" /\ LeavesLog(sweep.open)
        /\ sweep' = NoSweep /\ UNCHANGED <<export, import, exclusive, torn, pub>>
     \/ /\ pub.open # "none" /\ LeavesLog(pub.open)
        /\ pub' = NoPub /\ UNCHANGED <<export, import, exclusive, torn, sweep>>
  /\ UNCHANGED <<rows, live, files, archive, raced, lost>>

DirStep ==
  \/ OpenStore \/ CloseStore
  \/ \E h \in Hashes : \/ FindOrWrite(h) \/ DeleteRuns(h) \/ CountRows(h)
                       \/ AsideFile(h) \/ RemoveMoved(h)
  \/ VerifyPublished \/ CommitRow \/ StartSweep \/ RemoveFile \/ EndSweep
  \/ StartExport \/ Snapshot \/ CollectArtifacts \/ WriteArchive
  \/ StartImport \/ LockImport \/ StageArchive \/ RefuseImport \/ AsideStore \/ PlaceStore
  \/ PlaceFile \/ FinishImport \/ FailImport \/ RestoreFile \/ RemoveStore \/ RestoreStore
  \/ RemoveDirectory
  \/ CrashDir

\* Once a log was shared, any page of either store may turn up.  Nothing else
\* is modelled then, nor of a directory an import has torn.
MixPages ==
  /\ mixed /\ live \in Stores
  /\ \E mix \in SUBSET UNION {rows[s] : s \in Stores} : rows' = [rows EXCEPT ![live] = mix]
  /\ UNCHANGED <<live, files, pub, sweep, exclusive, export, archive, import,
                 raced, lost, torn, mixed, dirFaults>>

DataDirNext == (~mixed /\ ~torn /\ DirStep) \/ MixPages

DataDirSpec == DataDirInit /\ [][DataDirNext]_dirVars

-----------------------------------------------------------------------------
(***************************************************************************)
(* Properties.                                                             *)
(***************************************************************************)
\* An import that is over has left the store it found or the one it brought,
\* unless it made the directory itself, and every artifact row of the store
\* in place has its file: whatever was published, swept, opened or renamed
\* in between, and whichever rename failed.  Excepted are the cases in which
\* the code gives that up: a crash between two renames, or a failed rename
\* back of the store (torn); a process with the replaced store still open
\* (mixed); a file removed under somebody who relied on it (raced); a file
\* whose backup was deleted after a failed rename back (lost).
ImportIsAtomic ==
  import.pc = "idle" /\ ~torn /\ ~mixed =>
    /\ RowsIn(live) \subseteq files \cup raced \cup lost
    /\ import.prev \in Stores /\ ~import.fresh => live \in {import.prev, "restored"}

\* An archive holds the file of every artifact row of its snapshot.
ArchiveComplete == archive.rows \subseteq archive.files \cup raced
=============================================================================
