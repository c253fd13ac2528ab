---------------------------- MODULE StudentFiles ----------------------------
(***************************************************************************)
(* The photo and the documents of one student (students/router.py,         *)
(* core/storage.py): files on a disk, named by rows of the database.       *)
(*                                                                         *)
(* A file is stored before the row that names it is committed and removed  *)
(* after the row that names it is gone, so that whatever fails leaves a    *)
(* file too many rather than a name without a file.  The disk can refuse,  *)
(* a commit can fail, its answer can be lost, and the process can die.     *)
(***************************************************************************)
EXTENDS Integers, FiniteSets

CONSTANTS
  Uploader,     \* requests in progress at the same time
  File,         \* storage paths, each with a fresh random part
  MaxUploads,   \* bound on requests
  MaxTroubles   \* bound on failures and deaths
ASSUME FilesAssumption == IsFiniteSet(File) /\ MaxUploads \in Nat /\ MaxTroubles \in Nat

VARIABLES
  photo,        \* the path the student row names: a set of at most one
  document,     \* paths the document rows name
  stored,       \* files on the disk
  fresh,        \* paths not used yet
  upload,       \* each request
  doubt,        \* paths whose commit succeeded but was reported as failed
  troubles, uploads,
  apart         \* no trouble and no two requests at the same time so far

fileVars == <<photo, document, stored, fresh, upload, doubt, troubles, uploads, apart>>

Kind == {"photo", "document", "unphoto", "undocument"}
(* new: the path stored; old: the path to remove when the commit is done.  *)
UploadState == [pc : {"idle", "store", "commit", "undo", "remove"}, kind : Kind,
                new : SUBSET File, old : SUBSET File]
NoUpload == [pc |-> "idle", kind |-> "photo", new |-> {}, old |-> {}]

FilesTypeOK ==
  /\ photo \subseteq File /\ document \subseteq File
  /\ stored \subseteq File /\ fresh \subseteq File /\ doubt \subseteq File
  /\ upload \in [Uploader -> UploadState]
  /\ fresh \cap (stored \cup photo \cup document) = {}
  /\ troubles \in 0 .. MaxTroubles /\ uploads \in 0 .. MaxUploads
  /\ apart \in BOOLEAN

FilesInit ==
  /\ photo = {} /\ document = {} /\ stored = {} /\ doubt = {}
  /\ fresh = File
  /\ upload = [u \in Uploader |-> NoUpload]
  /\ troubles = 0 /\ uploads = 0 /\ apart = TRUE

----------------------------------------------------------------------------
Rows == <<photo, document, doubt>>
Disk == <<stored, fresh>>
Named == photo \cup document

Trouble ==
  /\ troubles < MaxTroubles
  /\ troubles' = troubles + 1
  /\ apart' = FALSE
Calm == UNCHANGED <<troubles, apart>>

Begin(u, kind, pc, old) ==
  /\ upload[u].pc = "idle"
  /\ uploads < MaxUploads
  /\ uploads' = uploads + 1
  /\ upload' = [upload EXCEPT ![u] = [pc |-> pc, kind |-> kind, new |-> {}, old |-> old]]
  /\ apart' = (apart /\ \A o \in Uploader : upload[o].pc = "idle")
  /\ UNCHANGED <<Rows, Disk, troubles>>

(* The path of the photo is read when the request begins.                  *)
UploadPhoto(u) == Begin(u, "photo", "store", photo)
UploadDocument(u) == Begin(u, "document", "store", {})
DeletePhoto(u) == photo # {} /\ Begin(u, "unphoto", "commit", photo)
DeleteDocument(u) == \E f \in document : Begin(u, "undocument", "commit", {f})

\* Faulty variant: the path has no random part of its own.
StoreOver(u) ==
  /\ upload[u].pc = "store"
  /\ LET f == CHOOSE f \in File : TRUE IN
     /\ stored' = stored \cup {f}
     /\ upload' = [upload EXCEPT ![u].pc = "commit", ![u].new = {f}]
  /\ Calm
  /\ UNCHANGED <<Rows, fresh, uploads>>
Store(u) ==
  /\ upload[u].pc = "store"
  /\ fresh # {}
  /\ LET f == CHOOSE f \in fresh : TRUE IN
     /\ stored' = stored \cup {f}
     /\ fresh' = fresh \ {f}
     /\ upload' = [upload EXCEPT ![u].pc = "commit", ![u].new = {f}]
  /\ Calm
  /\ UNCHANGED <<Rows, uploads>>
StoreFails(u) ==
  /\ upload[u].pc = "store"
  /\ Trouble
  /\ upload' = [upload EXCEPT ![u] = NoUpload]
  /\ UNCHANGED <<Rows, Disk, uploads>>

Take(u) ==
  CASE upload[u].kind = "photo" -> photo' = upload[u].new /\ UNCHANGED document
    [] upload[u].kind = "unphoto" -> photo' = {} /\ UNCHANGED document
    [] upload[u].kind = "document" -> document' = document \cup upload[u].new /\ UNCHANGED photo
    [] upload[u].kind = "undocument" -> document' = document \ upload[u].old /\ UNCHANGED photo

RemoveOld(u) ==
  IF upload[u].old = {} THEN NoUpload ELSE [upload[u] EXCEPT !.pc = "remove"]
\* Faulty variant: the old file is left where it is.
KeepOld(u) == NoUpload
AfterCommit(u) == RemoveOld(u)

Commit(u) ==
  /\ upload[u].pc = "commit"
  /\ Take(u)
  /\ upload' = [upload EXCEPT ![u] = AfterCommit(u)]
  /\ Calm
  /\ UNCHANGED <<doubt, Disk, uploads>>

Failed(u) ==
  [upload EXCEPT ![u] = IF @.new = {} THEN NoUpload ELSE [@ EXCEPT !.pc = "undo"]]
(* The commit fails, or succeeds and the connection is lost before the     *)
(* answer: the handler cannot tell.                                        *)
CommitFails(u) ==
  /\ upload[u].pc = "commit"
  /\ Trouble
  /\ upload' = Failed(u)
  /\ UNCHANGED <<Rows, Disk, uploads>>
CommitUnanswered(u) ==
  /\ upload[u].pc = "commit"
  /\ Trouble
  /\ Take(u)
  /\ doubt' = doubt \cup upload[u].new
  /\ upload' = Failed(u)
  /\ UNCHANGED <<Disk, uploads>>

Delete(u, pc, files) ==
  /\ upload[u].pc = pc
  /\ upload' = [upload EXCEPT ![u] = NoUpload]
  /\ UNCHANGED <<Rows, fresh, uploads>>
  /\ \/ stored' = stored \ files /\ Calm
     \/ stored' = stored /\ Trouble
(* The file that no row came to name, after a failed commit.               *)
\* Faulty variant: the file the row named before is the one removed.
UndoOld(u) == Delete(u, "undo", upload[u].old)
Undo(u) == Delete(u, "undo", upload[u].new)
(* The file that no row names any more, best effort.                       *)
Remove(u) == Delete(u, "remove", upload[u].old)

DieUploading(u) ==
  /\ upload[u].pc # "idle"
  /\ Trouble
  /\ upload' = [upload EXCEPT ![u] = NoUpload]
  /\ UNCHANGED <<Rows, Disk, uploads>>

----------------------------------------------------------------------------
FilesNext ==
  \E u \in Uploader :
    \/ UploadPhoto(u) \/ UploadDocument(u) \/ DeletePhoto(u) \/ DeleteDocument(u)
    \/ Store(u) \/ StoreFails(u)
    \/ Commit(u) \/ CommitFails(u) \/ CommitUnanswered(u)
    \/ Undo(u) \/ Remove(u) \/ DieUploading(u)

FilesSpec == FilesInit /\ [][FilesNext]_fileVars

----------------------------------------------------------------------------
(* Every path a row names is on the disk, whatever failed and however two  *)
(* replacements of the same photo overlapped, except a path whose commit   *)
(* was taken for a failure.                                                *)
NamedFilesExist == Named \ doubt \subseteq stored

(* When requests come one after the other and nothing fails, no file is    *)
(* left that nobody names.                                                 *)
NothingLeftOver ==
  apart /\ (\A u \in Uploader : upload[u].pc = "idle") => stored = Named

(* The disk and the rows agree as far as they can without committing       *)
(* together: no name without its file, and no file without a name when     *)
(* nothing went wrong.                                                     *)
FilesMatchRows == NamedFilesExist /\ NothingLeftOver
=============================================================================
