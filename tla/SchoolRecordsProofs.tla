------------------------ MODULE SchoolRecordsProofs ------------------------
(***************************************************************************)
(* Theorems about components that live side by side in the records of a    *)
(* school: the files of students, the scope of teachers, the accounts of   *)
(* administrators, the places in classes, the students, the roll calls and *)
(* the notices.                                                            *)
(* Each part below speaks of one of them, with an inductive invariant of   *)
(* its own; the last one puts them together.                               *)
(***************************************************************************)
EXTENDS SchoolRecords, SequenceTheorems, SumLemmas, FiniteSetTheorems, TLAPS

-----------------------------------------------------------------------------
(***************************************************************************)
(* A row never names a file that is gone, for any number of requests,      *)
(* files, failures and deaths.                                             *)
(*                                                                         *)
(* The argument is that a path has one owner until its row is committed:   *)
(* the request that stored it.  No other request can name it or remove it, *)
(* and an old path, once no row names it, is nobody's new path.            *)
(***************************************************************************)

\* What a request knows at each of its steps.
Knows(u) ==
  LET r == upload[u] IN
  /\ r.pc = "store" => r.new = {} /\ r.kind \in {"photo", "document"}
  /\ r.kind \in {"unphoto", "undocument"} => r.new = {}
  /\ r.kind \in {"photo", "unphoto"} => r.old \cap document = {}
  /\ r.kind = "undocument" => r.old \cap photo = {}
  /\ r.kind = "document" => r.old = {}
  /\ (r.new \cup r.old) \cap fresh = {}
  /\ r.pc = "commit" => r.new \subseteq stored /\ r.new \cap Named = {}
  /\ r.pc = "undo" => r.new \cap Named \subseteq doubt
  /\ r.pc = "remove" => r.old \cap Named = {}

\* The path a request is about to name is its own.
Owned ==
  \A u, v \in Uploader : upload[u].pc = "commit" =>
    /\ upload[u].new \cap upload[v].old = {}
    /\ u # v => upload[u].new \cap upload[v].new = {}

FilesInv ==
  /\ FilesTypeOK /\ NamedFilesExist /\ Owned
  /\ photo \cap document = {}
  /\ \A u \in Uploader : Knows(u)

\* Before the first request nothing is named.
LEMMA InitFiles == FilesInit => FilesInv
  BY FilesAssumption DEF FilesInit, FilesInv, FilesTypeOK, NamedFilesExist, Named, Owned, Knows,
     NoUpload, UploadState, Kind

\* A request begins, and names the path it will remove.
LEMMA BeginFiles ==
  ASSUME FilesInv, NEW u \in Uploader,
         UploadPhoto(u) \/ UploadDocument(u) \/ DeletePhoto(u) \/ DeleteDocument(u)
  PROVE  FilesInv'
<1>1. PICK kind \in Kind, pc \in {"store", "commit"}, old \in SUBSET Named :
        /\ Begin(u, kind, pc, old)
        /\ pc = "store" <=> kind \in {"photo", "document"}
        /\ kind \in {"photo", "unphoto"} => old = photo
        /\ kind = "undocument" => old \subseteq document
        /\ kind = "document" => old = {}
  <2>1. CASE UploadPhoto(u)
    <3>1. Begin(u, "photo", "store", photo)
      BY <2>1 DEF UploadPhoto
    <3> QED
      BY <3>1 DEF Kind, Named
  <2>2. CASE UploadDocument(u)
    <3>1. Begin(u, "document", "store", {})
      BY <2>2 DEF UploadDocument
    <3> QED
      BY <3>1 DEF Kind, Named
  <2>3. CASE DeletePhoto(u)
    <3>1. Begin(u, "unphoto", "commit", photo)
      BY <2>3 DEF DeletePhoto
    <3> QED
      BY <3>1 DEF Kind, Named
  <2>4. CASE DeleteDocument(u)
    <3>1. PICK f \in document : Begin(u, "undocument", "commit", {f})
      BY <2>4 DEF DeleteDocument
    <3> QED
      BY <3>1 DEF Kind, Named
  <2> QED
    BY <2>1, <2>2, <2>3, <2>4
<1>2. /\ upload' = [upload EXCEPT ![u] = [pc |-> pc, kind |-> kind, new |-> {}, old |-> old]]
      /\ UNCHANGED <<photo, document, doubt, stored, fresh, troubles>>
      /\ uploads \in 0 .. MaxUploads - 1 /\ uploads' = uploads + 1
      /\ apart' \in BOOLEAN
  <2>1. UNCHANGED <<photo, document, doubt, stored, fresh, troubles>>
    BY <1>1 DEF Begin, Rows, Disk
  <2>2. upload' = [upload EXCEPT ![u] = [pc |-> pc, kind |-> kind, new |-> {}, old |-> old]]
    BY <1>1 DEF Begin
  <2>3. uploads \in 0 .. MaxUploads - 1 /\ uploads' = uploads + 1
    BY <1>1, FilesAssumption DEF Begin, FilesInv, FilesTypeOK
  <2>4. apart' \in BOOLEAN
    BY <1>1 DEF Begin
  <2> QED
    BY <2>1, <2>2, <2>3, <2>4
<1>3. [pc |-> pc, kind |-> kind, new |-> {}, old |-> old] \in UploadState
  BY DEF FilesInv, FilesTypeOK, UploadState, Named
<1>4. FilesTypeOK'
  BY <1>2, <1>3, FilesAssumption DEF FilesInv, FilesTypeOK
<1>5. NamedFilesExist'
  BY <1>2 DEF FilesInv, NamedFilesExist, Named
<1>6. /\ upload'[u] = [pc |-> pc, kind |-> kind, new |-> {}, old |-> old]
      /\ \A v \in Uploader \ {u} : upload'[v] = upload[v]
  BY <1>2 DEF FilesInv, FilesTypeOK
<1>7. Owned'
  BY <1>6 DEF FilesInv, Owned, Knows, Named
<1>8. ASSUME NEW v \in Uploader PROVE Knows(v)'
  <2>1. CASE v = u
    BY <2>1, <1>1, <1>2, <1>6 DEF FilesInv, FilesTypeOK, Knows, Named
  <2>2. CASE v # u
    BY <2>2, <1>2, <1>6 DEF FilesInv, Knows, Named
  <2> QED
    BY <2>1, <2>2
<1> QED
  BY <1>2, <1>4, <1>5, <1>7, <1>8 DEF FilesInv

\* A fresh path is stored, and belongs to the request that stored it.
LEMMA StoreFiles ==
  ASSUME FilesInv, NEW u \in Uploader, Store(u)
  PROVE  FilesInv'
<1>1. PICK f \in fresh :
        /\ stored' = stored \cup {f} /\ fresh' = fresh \ {f}
        /\ upload' = [upload EXCEPT ![u].pc = "commit", ![u].new = {f}]
  BY DEF Store
<1>2. /\ UNCHANGED <<photo, document, doubt, troubles, apart, uploads>>
      /\ upload[u].pc = "store"
  BY DEF Store, Calm, Rows
<1>3. /\ upload'[u] = [upload[u] EXCEPT !.pc = "commit", !.new = {f}]
      /\ \A v \in Uploader \ {u} : upload'[v] = upload[v]
  BY <1>1 DEF FilesInv, FilesTypeOK
<1>4. /\ upload[u] \in UploadState
      /\ upload'[u].kind = upload[u].kind /\ upload'[u].old = upload[u].old
      /\ upload'[u].pc = "commit" /\ upload'[u].new = {f}
  BY <1>3 DEF FilesInv, FilesTypeOK, UploadState
<1>5. f \notin stored /\ f \notin Named /\ f \in File
  BY DEF FilesInv, FilesTypeOK, Named
<1>6. FilesTypeOK'
  BY <1>1, <1>2, <1>3, <1>4, <1>5 DEF FilesInv, FilesTypeOK, UploadState
<1>7. NamedFilesExist'
  BY <1>1, <1>2 DEF FilesInv, NamedFilesExist, Named
<1>8. \A v \in Uploader : f \notin upload[v].new /\ f \notin upload[v].old
  BY DEF FilesInv, Knows
<1>9. Owned'
  <2> SUFFICES ASSUME NEW v \in Uploader, NEW w \in Uploader, upload'[v].pc = "commit"
               PROVE  /\ upload'[v].new \cap upload'[w].old = {}
                      /\ v # w => upload'[v].new \cap upload'[w].new = {}
    BY DEF Owned
  <2>1. upload'[w].old = upload[w].old
    BY <1>3, <1>4
  <2>2. CASE v = u
    BY <2>1, <2>2, <1>3, <1>4, <1>8
  <2>3. CASE v # u
    <3>1. upload'[v] = upload[v]
      BY <2>3, <1>3
    <3>2. /\ upload[v].new \cap upload[w].old = {}
          /\ v # w => upload[v].new \cap upload[w].new = {}
      BY <3>1 DEF FilesInv, Owned
    <3>3. CASE w = u
      BY <3>1, <3>2, <3>3, <2>1, <1>4, <1>8
    <3>4. CASE w # u
      BY <3>1, <3>2, <3>4, <1>3
    <3> QED
      BY <3>3, <3>4
  <2> QED
    BY <2>2, <2>3
<1>10. ASSUME NEW v \in Uploader PROVE Knows(v)'
  <2>1. CASE v = u
    <3>1. Knows(u)
      BY DEF FilesInv
    <3>2. ({f} \cup upload[u].old) \cap fresh' = {}
      BY <3>1, <1>1 DEF Knows
    <3> QED
      BY <2>1, <3>1, <3>2, <1>1, <1>2, <1>4, <1>5 DEF Knows, Named
  <2>2. CASE v # u
    BY <2>2, <1>1, <1>2, <1>3 DEF FilesInv, Knows, Named
  <2> QED
    BY <2>1, <2>2
<1> QED
  BY <1>2, <1>6, <1>7, <1>9, <1>10 DEF FilesInv

\* A row names the new path, or names the old one no longer.
LEMMA TakeFiles ==
  ASSUME FilesInv, NEW u \in Uploader, upload[u].pc = "commit", Take(u)
  PROVE  /\ photo' \subseteq File /\ document' \subseteq File
         /\ photo' \cap document' = {}
         /\ (photo' \cup document') \subseteq Named \cup upload[u].new
         /\ upload[u].old \cap (photo' \cup document') = {}
         /\ photo' \subseteq photo \cup upload[u].new /\ document' \subseteq document \cup upload[u].new
         /\ upload[u].new \subseteq stored
<1>1. /\ upload[u] \in UploadState /\ Knows(u)
      /\ upload[u].new \cap upload[u].old = {}
  BY DEF FilesInv, FilesTypeOK, Owned
<1>2. upload[u].kind \in Kind /\ upload[u].new \subseteq File
  BY <1>1 DEF UploadState
<1>3. CASE upload[u].kind = "photo"
  BY <1>1, <1>2, <1>3 DEF Take, Knows, Named, FilesInv, FilesTypeOK
<1>4. CASE upload[u].kind = "unphoto"
  BY <1>1, <1>2, <1>4 DEF Take, Knows, Named, FilesInv, FilesTypeOK
<1>5. CASE upload[u].kind = "document"
  BY <1>1, <1>2, <1>5 DEF Take, Knows, Named, FilesInv, FilesTypeOK
<1>6. CASE upload[u].kind = "undocument"
  BY <1>1, <1>2, <1>6 DEF Take, Knows, Named, FilesInv, FilesTypeOK
<1> QED
  BY <1>2, <1>3, <1>4, <1>5, <1>6 DEF Kind

\* A request leaves the commit step: it forgets its paths, or keeps one to
\* remove that no row names or whose name is in doubt.
LEMMA LeaveCommit ==
  ASSUME FilesInv, NEW u \in Uploader, NEW r \in UploadState,
         upload' = [upload EXCEPT ![u] = r],
         upload[u].pc = "commit",
         UNCHANGED <<stored, fresh, uploads>>,
         troubles' \in 0 .. MaxTroubles, apart' \in BOOLEAN,
         UNCHANGED <<photo, document>> \/ Take(u),
         doubt \subseteq doubt', doubt' \subseteq doubt \cup upload[u].new,
         \/ r = NoUpload
         \/ /\ r.pc = "remove" /\ r.kind = upload[u].kind
            /\ r.new = upload[u].new /\ r.old = upload[u].old
            /\ Take(u)
         \/ /\ r.pc = "undo" /\ r.kind = upload[u].kind
            /\ r.new = upload[u].new /\ r.old = upload[u].old
            /\ UNCHANGED <<photo, document>> \/ r.new \subseteq doubt'
  PROVE  FilesInv'
<1>1. /\ photo' \subseteq File /\ document' \subseteq File
      /\ photo' \cap document' = {}
      /\ photo' \subseteq photo \cup upload[u].new /\ document' \subseteq document \cup upload[u].new
      /\ upload[u].new \subseteq stored
  BY TakeFiles DEF FilesInv, FilesTypeOK, Knows
<1>2. Take(u) => upload[u].old \cap (photo' \cup document') = {}
  BY TakeFiles
<1>3. /\ upload'[u] = r
      /\ \A v \in Uploader \ {u} : upload'[v] = upload[v]
  BY DEF FilesInv, FilesTypeOK
<1>4. upload[u].new \subseteq File /\ upload[u].new \cap fresh = {}
  BY DEF FilesInv, FilesTypeOK, UploadState, Knows
<1>5. FilesTypeOK'
  BY <1>1, <1>3, <1>4 DEF FilesInv, FilesTypeOK
<1>6. NamedFilesExist'
  BY <1>1 DEF FilesInv, NamedFilesExist, Named
<1>7. Owned'
  BY <1>3 DEF FilesInv, Owned, NoUpload
<1>8. ASSUME NEW v \in Uploader PROVE Knows(v)'
  <2>1. CASE v = u
    <3>1. Knows(u) /\ upload[u].new \cap upload[u].old = {}
      BY DEF FilesInv, Owned
    <3>2. CASE r = NoUpload
      BY <2>1, <3>2, <1>3 DEF Knows, NoUpload
    <3>3. CASE r.pc = "remove"
      BY <2>1, <3>1, <3>3, <1>1, <1>2, <1>3 DEF Knows, NoUpload, Named
    <3>4. CASE r.pc = "undo"
      BY <2>1, <3>1, <3>4, <1>1, <1>3 DEF Knows, NoUpload, Named
    <3> QED
      BY <3>2, <3>3, <3>4
  <2>2. CASE v # u
    <3>1. upload'[v] = upload[v] /\ Knows(v)
      BY <2>2, <1>3 DEF FilesInv
    <3>2. upload[u].new \cap upload[v].old = {} /\ upload[u].new \cap upload[v].new = {}
      BY <2>2 DEF FilesInv, Owned
    <3> QED
      BY <3>1, <3>2, <1>1 DEF Knows, Named
  <2> QED
    BY <2>1, <2>2
<1> QED
  BY <1>1, <1>5, <1>6, <1>7, <1>8 DEF FilesInv

\* A request ends, and removes nothing that a row names or is about to name.
LEMMA EndFiles ==
  ASSUME FilesInv, NEW u \in Uploader, NEW files,
         upload' = [upload EXCEPT ![u] = NoUpload],
         stored' = stored \ files,
         UNCHANGED <<photo, document, doubt, fresh, uploads>>,
         troubles' \in 0 .. MaxTroubles, apart' \in BOOLEAN,
         files \cap Named \subseteq doubt,
         \A v \in Uploader \ {u} : upload[v].pc = "commit" => files \cap upload[v].new = {}
  PROVE  FilesInv'
<1>1. /\ upload'[u] = NoUpload
      /\ \A v \in Uploader \ {u} : upload'[v] = upload[v]
  BY DEF FilesInv, FilesTypeOK
<1>2. FilesTypeOK'
  BY DEF FilesInv, FilesTypeOK, NoUpload, UploadState, Kind
<1>3. NamedFilesExist'
  BY DEF FilesInv, NamedFilesExist, Named
<1>4. Owned'
  BY <1>1 DEF FilesInv, Owned, NoUpload
<1>5. ASSUME NEW v \in Uploader PROVE Knows(v)'
  <2>1. CASE v = u
    BY <2>1, <1>1 DEF Knows, NoUpload
  <2>2. CASE v # u
    BY <2>2, <1>1 DEF FilesInv, Knows, Named
  <2> QED
    BY <2>1, <2>2
<1> QED
  BY <1>2, <1>3, <1>4, <1>5 DEF FilesInv

\* Every step keeps the invariant.
LEMMA StepFiles == FilesInv /\ [FilesNext]_fileVars => FilesInv'
<1> SUFFICES ASSUME FilesInv, [FilesNext]_fileVars PROVE FilesInv'
  OBVIOUS
<1>1. CASE UNCHANGED fileVars
  BY <1>1 DEF fileVars, FilesInv, FilesTypeOK, NamedFilesExist, Named, Owned, Knows
<1>2. Trouble => troubles' \in 0 .. MaxTroubles /\ apart' \in BOOLEAN
  <2> SUFFICES ASSUME Trouble PROVE troubles' \in 0 .. MaxTroubles /\ apart' \in BOOLEAN
    OBVIOUS
  <2>1. troubles' \in 0 .. MaxTroubles
    BY FilesAssumption DEF Trouble, FilesInv, FilesTypeOK
  <2>2. apart' \in BOOLEAN
    BY DEF Trouble
  <2> QED
    BY <2>1, <2>2
<1>3. Calm => troubles' \in 0 .. MaxTroubles /\ apart' \in BOOLEAN
  BY DEF Calm, FilesInv, FilesTypeOK
<1>4. ASSUME NEW u \in Uploader,
             UploadPhoto(u) \/ UploadDocument(u) \/ DeletePhoto(u) \/ DeleteDocument(u)
      PROVE  FilesInv'
  BY <1>4, BeginFiles
<1>5. ASSUME NEW u \in Uploader, Store(u) PROVE FilesInv'
  BY <1>5, StoreFiles
<1>6. ASSUME NEW u \in Uploader, StoreFails(u) \/ DieUploading(u) PROVE FilesInv'
  <2>1. /\ upload' = [upload EXCEPT ![u] = NoUpload]
        /\ UNCHANGED <<photo, document, doubt, fresh, uploads>>
        /\ stored' = stored \ {}
    BY <1>6 DEF StoreFails, DieUploading, Rows, Disk
  <2>2. Trouble
    BY <1>6 DEF StoreFails, DieUploading
  <2>3. {} \cap Named \subseteq doubt /\ \A v \in Uploader : {} \cap upload[v].new = {}
    OBVIOUS
  <2> QED
    BY <1>2, <2>1, <2>2, <2>3, EndFiles
<1>7. ASSUME NEW u \in Uploader, NEW pc \in {"undo", "remove"}, NEW files,
             files = IF pc = "undo" THEN upload[u].new ELSE upload[u].old,
             Delete(u, pc, files)
      PROVE  FilesInv'
  <2>1. files \cap Named \subseteq doubt
    BY <1>7 DEF Delete, FilesInv, Knows
  <2>2. \A v \in Uploader \ {u} : upload[v].pc = "commit" => files \cap upload[v].new = {}
    BY <1>7 DEF FilesInv, Owned
  <2>3. /\ upload' = [upload EXCEPT ![u] = NoUpload]
        /\ UNCHANGED <<photo, document, doubt, fresh, uploads>>
    BY <1>7 DEF Delete, Rows
  <2>4. CASE stored' = stored \ files /\ Calm
    BY <1>3, <2>1, <2>2, <2>3, <2>4, EndFiles
  <2>5. CASE stored' = stored /\ Trouble
    <3>1. stored' = stored \ {}
      BY <2>5
    <3>2. {} \cap Named \subseteq doubt /\ \A v \in Uploader : {} \cap upload[v].new = {}
      OBVIOUS
    <3> QED
      BY <1>2, <2>3, <2>5, <3>1, <3>2, EndFiles
  <2> QED
    BY <1>7, <2>4, <2>5 DEF Delete
<1>8. ASSUME NEW u \in Uploader, Undo(u) \/ Remove(u) PROVE FilesInv'
  BY <1>7, <1>8 DEF Undo, Remove
<1>9. ASSUME NEW u \in Uploader, Commit(u) PROVE FilesInv'
  <2>1. upload[u] \in UploadState
    BY DEF FilesInv, FilesTypeOK
  <2>2. AfterCommit(u) \in UploadState
    BY <2>1 DEF AfterCommit, RemoveOld, UploadState, NoUpload, Kind
  <2>3. \/ AfterCommit(u) = NoUpload
        \/ /\ AfterCommit(u).pc = "remove" /\ AfterCommit(u).kind = upload[u].kind
           /\ AfterCommit(u).new = upload[u].new /\ AfterCommit(u).old = upload[u].old
    BY <2>1 DEF AfterCommit, RemoveOld, UploadState
  <2>4. /\ upload[u].pc = "commit" /\ Take(u) /\ Calm
        /\ upload' = [upload EXCEPT ![u] = AfterCommit(u)]
        /\ UNCHANGED <<stored, fresh, uploads, doubt>>
    BY <1>9 DEF Commit, Disk
  <2> QED
    BY <1>3, <2>2, <2>3, <2>4, LeaveCommit
<1>10. ASSUME NEW u \in Uploader, CommitFails(u) \/ CommitUnanswered(u) PROVE FilesInv'
  <2> DEFINE r == IF upload[u].new = {} THEN NoUpload ELSE [upload[u] EXCEPT !.pc = "undo"]
  <2>1. upload[u] \in UploadState
    BY DEF FilesInv, FilesTypeOK
  <2>2. r \in UploadState
    BY <2>1 DEF UploadState, NoUpload, Kind
  <2>3. \/ r = NoUpload
        \/ /\ r.pc = "undo" /\ r.kind = upload[u].kind
           /\ r.new = upload[u].new /\ r.old = upload[u].old
    BY <2>1 DEF UploadState
  <2>4. /\ upload[u].pc = "commit" /\ Trouble
        /\ upload' = [upload EXCEPT ![u] = r]
        /\ UNCHANGED <<stored, fresh, uploads>>
    BY <1>10 DEF CommitFails, CommitUnanswered, Failed, Disk
  <2> HIDE DEF r
  <2>5. CASE CommitFails(u)
    <3>1. UNCHANGED <<photo, document, doubt>>
      BY <2>5 DEF CommitFails, Rows
    <3> QED
      BY <1>2, <2>2, <2>3, <2>4, <3>1, LeaveCommit
  <2>6. CASE CommitUnanswered(u)
    <3>1. Take(u) /\ doubt' = doubt \cup upload[u].new
      BY <2>6 DEF CommitUnanswered
    <3> QED
      BY <1>2, <2>2, <2>3, <2>4, <3>1, LeaveCommit
  <2> QED
    BY <1>10, <2>5, <2>6
<1> QED
  BY <1>1, <1>4, <1>5, <1>6, <1>8, <1>9, <1>10 DEF FilesNext

\* The rows and the files are always well formed (students/router.py).
THEOREM FilesTypeCorrect == FilesSpec => []FilesTypeOK
<1>1. FilesInv => FilesTypeOK
  BY DEF FilesInv
<1> QED
  BY <1>1, InitFiles, StepFiles, PTL DEF FilesSpec

\* Every path a row names is on the disk, whatever fails and however two
\* replacements overlap (students/router.py, core/storage.py), except a path
\* whose commit was taken for a failure.
THEOREM NamedFilesAlwaysExist == FilesSpec => []NamedFilesExist
<1>1. FilesInv => NamedFilesExist
  BY DEF FilesInv
<1> QED
  BY <1>1, InitFiles, StepFiles, PTL DEF FilesSpec

----------------------------------------------------------------------------
(* As long as nothing fails and nobody overlaps, the one request there is  *)
(* accounts for every file that no row names.                              *)
Alone(u) ==
  LET r == upload[u] IN
  /\ r.pc # "undo"
  /\ r.pc = "store" => stored = Named
  /\ r.pc = "commit" => stored = Named \cup r.new
  /\ r.pc = "remove" => stored = Named \cup r.old
  /\ r.pc \in {"store", "commit"} =>
       /\ r.kind \in {"photo", "unphoto"} => r.old = photo
       /\ r.kind = "undocument" => r.old \subseteq document
       /\ r.kind = "document" => r.old = {}

Tidy ==
  apart =>
    /\ (\A u \in Uploader : upload[u].pc = "idle") => stored = Named
    /\ \A u \in Uploader : upload[u].pc # "idle" =>
         Alone(u) /\ \A v \in Uploader \ {u} : upload[v].pc = "idle"

\* Nothing is on the disk before the first request.
LEMMA InitTidy == FilesInit => Tidy
  BY DEF FilesInit, Tidy, Named, NoUpload

\* The step of the one request there is keeps its account of the files.
LEMMA OwnTidy ==
  ASSUME FilesInv, NEW u \in Uploader, NEW r \in UploadState,
         upload' = [upload EXCEPT ![u] = r],
         \A v \in Uploader \ {u} : upload[v].pc = "idle",
         r.pc = "idle" => stored' = Named',
         r.pc # "idle" => Alone(u)'
  PROVE  Tidy'
<1>1. /\ upload'[u] = r
      /\ \A v \in Uploader \ {u} : upload'[v] = upload[v]
  BY DEF FilesInv, FilesTypeOK
<1> QED
  BY <1>1 DEF Tidy

\* Every step that fails or overlaps gives the promise up; the others keep it.
LEMMA StepTidy == FilesInv /\ Tidy /\ [FilesNext]_fileVars => Tidy'
<1> SUFFICES ASSUME FilesInv, Tidy, [FilesNext]_fileVars, apart' PROVE Tidy'
  BY DEF Tidy
<1>1. CASE UNCHANGED fileVars
  BY <1>1 DEF fileVars, Tidy, Alone, Named
<1>2. Trouble => FALSE
  BY DEF Trouble
<1>3. ASSUME NEW u \in Uploader, apart, upload[u].pc # "idle"
      PROVE  /\ Alone(u) /\ \A v \in Uploader \ {u} : upload[v].pc = "idle"
             /\ upload[u] \in UploadState
  BY <1>3 DEF Tidy, FilesInv, FilesTypeOK
<1>4. ASSUME NEW u \in Uploader, NEW kind \in Kind, NEW pc \in {"store", "commit"},
             NEW old \in SUBSET Named, Begin(u, kind, pc, old),
             kind \in {"photo", "unphoto"} => old = photo,
             kind = "undocument" => old \subseteq document,
             kind = "document" => old = {}
      PROVE  Tidy'
  <2> DEFINE r == [pc |-> pc, kind |-> kind, new |-> {}, old |-> old]
  <2>1. /\ upload' = [upload EXCEPT ![u] = r]
        /\ UNCHANGED <<photo, document, stored>>
        /\ apart /\ \A v \in Uploader : upload[v].pc = "idle"
    BY <1>4 DEF Begin, Rows, Disk
  <2>2. stored = Named
    BY <2>1 DEF Tidy
  <2>3. r \in UploadState
    BY DEF FilesInv, FilesTypeOK, UploadState, Named
  <2>4. Alone(u)'
    BY <1>4, <2>1, <2>2 DEF Alone, Named, FilesInv, FilesTypeOK
  <2> QED
    BY <2>1, <2>3, <2>4, OwnTidy
<1>5. ASSUME NEW u \in Uploader,
             UploadPhoto(u) \/ UploadDocument(u) \/ DeletePhoto(u) \/ DeleteDocument(u)
      PROVE  Tidy'
  <2>1. CASE UploadPhoto(u)
    BY <2>1, <1>4 DEF UploadPhoto, Kind, Named
  <2>2. CASE UploadDocument(u)
    BY <2>2, <1>4 DEF UploadDocument, Kind, Named
  <2>3. CASE DeletePhoto(u)
    BY <2>3, <1>4 DEF DeletePhoto, Kind, Named
  <2>4. CASE DeleteDocument(u)
    <3>1. PICK f \in document : Begin(u, "undocument", "commit", {f})
      BY <2>4 DEF DeleteDocument
    <3> QED
      BY <3>1, <1>4 DEF Kind, Named
  <2> QED
    BY <1>5, <2>1, <2>2, <2>3, <2>4
<1>6. ASSUME NEW u \in Uploader, Store(u) PROVE Tidy'
  <2>1. PICK f \in fresh :
          /\ stored' = stored \cup {f}
          /\ upload' = [upload EXCEPT ![u].pc = "commit", ![u].new = {f}]
    BY <1>6 DEF Store
  <2>2. /\ UNCHANGED <<photo, document>> /\ apart
        /\ upload[u].pc = "store"
    BY <1>6 DEF Store, Calm, Rows
  <2>3. Alone(u) /\ upload[u] \in UploadState /\ \A v \in Uploader \ {u} : upload[v].pc = "idle"
    BY <1>3, <2>2
  <2> DEFINE r == [upload[u] EXCEPT !.pc = "commit", !.new = {f}]
  <2>4. upload' = [upload EXCEPT ![u] = r] /\ upload'[u] = r
    BY <2>1 DEF FilesInv, FilesTypeOK
  <2>5. /\ r \in UploadState /\ r.pc = "commit" /\ r.new = {f}
        /\ r.kind = upload[u].kind /\ r.old = upload[u].old
    BY <2>3 DEF UploadState, FilesInv, FilesTypeOK
  <2> HIDE DEF r
  <2>6. Alone(u)'
    BY <2>1, <2>2, <2>3, <2>4, <2>5 DEF Alone, Named
  <2> QED
    BY <2>3, <2>4, <2>5, <2>6, OwnTidy
<1>7. ASSUME NEW u \in Uploader, Commit(u) PROVE Tidy'
  <2>1. /\ upload[u].pc = "commit" /\ Take(u) /\ apart
        /\ upload' = [upload EXCEPT ![u] = AfterCommit(u)]
        /\ stored' = stored
    BY <1>7 DEF Commit, Disk, Calm
  <2>2. Alone(u) /\ upload[u] \in UploadState /\ \A v \in Uploader \ {u} : upload[v].pc = "idle"
    BY <1>3, <2>1
  <2>3. upload[u].kind \in Kind
    BY <2>2 DEF UploadState
  <2>4. AfterCommit(u) \in UploadState
    BY <2>2 DEF AfterCommit, RemoveOld, UploadState, NoUpload, Kind
  <2>5. stored = (photo' \cup document') \cup upload[u].old
    BY <2>1, <2>2, <2>3 DEF Take, Alone, Named, FilesInv, Knows, Kind
  <2>6. CASE upload[u].old = {}
    <3>1. AfterCommit(u) = NoUpload
      BY <2>6 DEF AfterCommit, RemoveOld
    <3>2. stored' = Named'
      BY <2>1, <2>5, <2>6 DEF Named
    <3> QED
      BY <2>1, <2>2, <2>4, <3>1, <3>2, OwnTidy DEF NoUpload
  <2>7. CASE upload[u].old # {}
    <3>1. AfterCommit(u).pc = "remove" /\ AfterCommit(u).old = upload[u].old
      BY <2>2, <2>7 DEF AfterCommit, RemoveOld, UploadState
    <3>2. upload'[u] = AfterCommit(u)
      BY <2>1 DEF FilesInv, FilesTypeOK
    <3>3. Alone(u)'
      BY <2>1, <2>5, <3>1, <3>2 DEF Alone, Named
    <3> QED
      BY <2>1, <2>2, <2>4, <3>1, <3>3, OwnTidy
  <2> QED
    BY <2>6, <2>7
<1>8. ASSUME NEW u \in Uploader, Undo(u) \/ Remove(u) PROVE Tidy'
  <2>1. apart /\ upload[u].pc \in {"undo", "remove"}
    BY <1>2, <1>8 DEF Undo, Remove, Delete, Calm
  <2>2. Alone(u) /\ \A v \in Uploader \ {u} : upload[v].pc = "idle"
    BY <1>3, <2>1
  <2>3. upload[u].pc = "remove" /\ Remove(u)
    BY <1>8, <2>1, <2>2 DEF Alone, Undo, Delete
  <2>4. /\ upload' = [upload EXCEPT ![u] = NoUpload]
        /\ UNCHANGED <<photo, document>>
        /\ stored' = stored \ upload[u].old
    BY <1>2, <2>3 DEF Remove, Delete, Rows
  <2>5. upload[u].old \cap Named = {}
    BY <2>3 DEF FilesInv, Knows
  <2>6. stored' = Named'
    BY <2>2, <2>3, <2>4, <2>5 DEF Alone, Named
  <2> QED
    BY <2>2, <2>4, <2>6, OwnTidy DEF NoUpload, UploadState, Kind
<1>9. ASSUME NEW u \in Uploader,
             StoreFails(u) \/ DieUploading(u) \/ CommitFails(u) \/ CommitUnanswered(u)
      PROVE  FALSE
  BY <1>2, <1>9 DEF StoreFails, DieUploading, CommitFails, CommitUnanswered
<1> QED
  BY <1>1, <1>5, <1>6, <1>7, <1>8, <1>9 DEF FilesNext

\* Rows and files agree: no row names a missing file, and requests that
\* neither fail nor overlap leave no file behind.
THEOREM FilesAlwaysMatch == FilesSpec => []FilesMatchRows
<1>1. FilesInv /\ Tidy => FilesMatchRows
  BY DEF FilesInv, Tidy, FilesMatchRows, NothingLeftOver
<1> QED
  BY <1>1, InitFiles, StepFiles, InitTidy, StepTidy, PTL DEF FilesSpec

-----------------------------------------------------------------------------
(***************************************************************************)
(* Who may do what with marks, for any accounts, schools, subjects and     *)
(* requests.                                                               *)
(*                                                                         *)
(* The rows refer to rows that are there because a subject takes with it   *)
(* all that refers to it, and identifiers are not used twice.  A request   *)
(* that writes marks keeps, at each of its steps, what its last reading    *)
(* showed, as long as nobody changed the roles of the account.             *)
(***************************************************************************)

\* The codes over a school and over its organization.
CodesOver(u, s) == {r.code : r \in RolesOver(u, s)}

\* A role given in a school is a role in that school.
LocalRoles ==
  \A u \in Account : \A r \in grant[u] :
    r.code \in InSchool => r.school \in House /\ r.org = Organization

\* The identifiers given out, and what requests refer to.
Identified ==
  /\ \A a \in seat : a.id <= moves
  /\ \A g \in Grader : LET j == job[g] IN
       /\ j.id <= moves
       /\ j.pc # "idle" => j.course \in spent
       /\ j.pc # "idle" /\ j.kind = "marks" /\ j.course \in course => \E q \in quiz : q[1] = j.course
       /\ j.pc \in {"confine", "assigned", "write"} => j.kind \in {"quiz", "marks"}
       /\ j.pc = "seat" => j.kind \in {"assign", "reassign"}
       /\ j.pc = "seat" /\ j.kind = "assign" => \A a \in seat : a.id # j.id
  /\ \A g, h \in Grader :
       job[g].pc = "seat" /\ job[g].kind = "assign" /\ job[h].pc = "seat" /\ g # h
         => job[g].id # job[h].id

\* What a request that writes marks knows of its account.
Established ==
  \A g \in Grader : LET j == job[g] IN ~j.swapped =>
    /\ j.pc = "confine" => EnsurePermission(j.who, "grades.manage", CourseOf[j.course].school)
    /\ j.pc = "assigned" => "TEACHER" \in CodesOver(j.who, CourseOf[j.course].school)

TeachingInv ==
  TeachingTypeOK /\ LocalRoles /\ Identified /\ Established /\ WritesAreEntitled

\* Roles that count in a school are those over it and over its organization.
LEMMA CodesAreThoseOver ==
  ASSUME NEW u \in Account, NEW s \in House, grant[u] \subseteq UserRole
  PROVE  CodesIn(u, s) = CodesOver(u, s)
<1>1. \A r \in grant[u] : ScopeConditions(r, s) <=> r.school \in {s, NULL}
  BY CourseAssumption DEF ScopeConditions, UserRole, Organization, NULL
<1> QED
  BY <1>1 DEF CodesIn, CodesOver, RolesOver

\* The same after a step.
LEMMA CodesAreThoseOverNext ==
  ASSUME NEW u \in Account, NEW s \in House, grant'[u] \subseteq UserRole
  PROVE  CodesIn(u, s)' = CodesOver(u, s)'
<1>1. \A r \in grant'[u] : ScopeConditions(r, s) <=> r.school \in {s, NULL}
  BY CourseAssumption DEF ScopeConditions, UserRole, Organization, NULL
<1> QED
  BY <1>1 DEF CodesIn, CodesOver, RolesOver

\* What the rows of a request are.
LEMMA JobRows ==
  /\ NoJob \in Job
  /\ \A pc \in {"idle", "confine", "assigned", "write", "seat"},
        kind \in {"quiz", "marks", "assign", "reassign"},
        u \in Account, c \in Course, id \in Nat :
       NewJob(pc, kind, u, c, id) \in Job
<1>1. (CHOOSE u \in Account : TRUE) \in Account /\ (CHOOSE c \in Course : TRUE) \in Course
  BY CourseAssumption
<1> QED
  BY <1>1 DEF NoJob, NewJob, Job

\* A request that is over.
LEMMA NoJobFields ==
  /\ NoJob.pc = "idle" /\ NoJob.kind = "quiz" /\ NoJob.id = 0
  /\ NoJob.swapped = FALSE /\ NoJob.entitled = FALSE
  BY DEF NoJob, NewJob

\* At first the rows are those the constants give.
LEMMA InitTeaching == TeachingInit => TeachingInv
<1> SUFFICES ASSUME TeachingInit PROVE TeachingInv
  OBVIOUS
<1>1. \A g \in Grader : job[g] = NoJob
  BY DEF TeachingInit
<1>2. NoJob.pc = "idle" /\ NoJob.kind = "quiz" /\ NoJob.id = 0
  BY DEF NoJob, NewJob
<1>3. LocalRoles
  BY CourseAssumption DEF TeachingInit, LocalRoles
<1>4. Identified
  BY <1>1, <1>2 DEF TeachingInit, Identified
<1>5. Established /\ WritesAreEntitled
  BY <1>1, <1>2 DEF Established, WritesAreEntitled
<1>6. TeachingTypeOK
  <2>1. /\ grant \in [Account -> SUBSET UserRole] /\ enabled \subseteq Account
        /\ course \subseteq spent /\ spent \subseteq Course
        /\ \A c, d \in course :
             CourseOf[c].class = CourseOf[d].class /\ CourseOf[c].subject = CourseOf[d].subject => c = d
    BY CourseAssumption DEF TeachingInit
  <2>2. \A a \in seat : \E f \in FirstSeat :
          a = [id |-> 0, who |-> f[1], course |-> f[2], school |-> CourseOf[f[2]].school]
    BY DEF TeachingInit
  <2>3. \A f \in FirstSeat : f[1] \in Account /\ f[2] \in course /\ CourseOf[f[2]].school \in House
    BY CourseAssumption DEF TeachingInit
  <2>4. /\ seat \subseteq SeatRow
        /\ \A a \in seat : a.course \in course /\ a.school = CourseOf[a.course].school
    BY <2>1, <2>2, <2>3 DEF SeatRow
  <2>5. \A a, b \in seat : a = b
    BY <2>2, CourseAssumption
  <2>6. job \in [Grader -> Job]
    BY JobRows DEF TeachingInit
  <2>7. quiz = {} /\ marks = {} /\ moves \in 0 .. MaxMoves
    BY CourseAssumption DEF TeachingInit
  <2> QED
    BY <2>1, <2>4, <2>5, <2>6, <2>7 DEF TeachingTypeOK
<1> QED
  BY <1>3, <1>4, <1>5, <1>6 DEF TeachingInv

\* A step of one request that changes no row but perhaps the marks.
LEMMA MarkSteps ==
  ASSUME TeachingInv, NEW g \in Grader, NEW j \in Job,
         job' = [job EXCEPT ![g] = j],
         moves' \in 0 .. MaxMoves, moves <= moves',
         UNCHANGED <<grant, enabled, course, spent, seat>>,
         quiz \subseteq quiz', quiz' \subseteq course \X Account,
         marks' \subseteq course \X Account, \A m \in marks' : \E q \in quiz' : q[1] = m[1],
         j.id <= moves',
         j.pc # "idle" => j.course \in spent,
         j.kind = "marks" /\ j.course \in course => \E q \in quiz : q[1] = j.course,
         j.pc \in {"confine", "assigned", "write"} => j.kind \in {"quiz", "marks"},
         j.pc = "seat" =>
           /\ j.kind \in {"assign", "reassign"}
           /\ j.kind = "assign" => j.id > moves
           /\ j.kind = "reassign" => \E a \in seat : a.id = j.id,
         ~j.swapped =>
           /\ j.pc = "confine" => EnsurePermission(j.who, "grades.manage", CourseOf[j.course].school)
           /\ j.pc = "assigned" => "TEACHER" \in CodesOver(j.who, CourseOf[j.course].school)
           /\ j.pc = "write" => j.entitled
  PROVE  TeachingInv'
<1>1. /\ job'[g] = j
      /\ \A h \in Grader \ {g} : job'[h] = job[h]
      /\ moves \in Nat /\ moves' \in Nat /\ j.id \in Nat
      /\ \A h \in Grader : job[h].id \in Nat /\ job[h].id <= moves
      /\ \A a \in seat : a.id \in Nat /\ a.id <= moves
  BY CourseAssumption DEF TeachingInv, TeachingTypeOK, Job, SeatRow, Identified
<1>2. TeachingTypeOK'
  BY DEF TeachingInv, TeachingTypeOK
<1>3. LocalRoles'
  BY DEF TeachingInv, LocalRoles
<1>4. Identified'
  <2>1. \A a \in seat' : a.id <= moves'
    BY <1>1
  <2>2. ASSUME NEW h \in Grader
        PROVE  LET k == job'[h] IN
               /\ k.id <= moves'
               /\ k.pc # "idle" => k.course \in spent'
               /\ k.pc # "idle" /\ k.kind = "marks" /\ k.course \in course' => \E q \in quiz' : q[1] = k.course
               /\ k.pc \in {"confine", "assigned", "write"} => k.kind \in {"quiz", "marks"}
               /\ k.pc = "seat" => k.kind \in {"assign", "reassign"}
               /\ k.pc = "seat" /\ k.kind = "assign" => \A a \in seat' : a.id # k.id
    <3>1. CASE h = g
      BY <3>1, <1>1
    <3>2. CASE h # g
      BY <3>2, <1>1 DEF TeachingInv, Identified
    <3> QED
      BY <3>1, <3>2
  <2>3. ASSUME NEW h \in Grader, NEW i \in Grader,
               job'[h].pc = "seat", job'[h].kind = "assign", job'[i].pc = "seat", h # i
        PROVE  job'[h].id # job'[i].id
    <3>1. CASE h = g
      BY <2>3, <3>1, <1>1
    <3>2. CASE i = g
      BY <2>3, <3>2, <1>1 DEF TeachingInv, Identified
    <3>3. CASE h # g /\ i # g
      BY <2>3, <3>3, <1>1 DEF TeachingInv, Identified
    <3> QED
      BY <3>1, <3>2, <3>3
  <2> QED
    BY <2>1, <2>2, <2>3 DEF Identified
<1>5. Established'
  BY <1>1 DEF TeachingInv, Established, EnsurePermission, CodesIn, CodesOver, RolesOver
<1>6. WritesAreEntitled'
  BY <1>1 DEF TeachingInv, WritesAreEntitled
<1> QED
  BY <1>2, <1>3, <1>4, <1>5, <1>6 DEF TeachingInv

\* Requests that read roles and assignments, and write marks.
LEMMA GraderSteps ==
  ASSUME TeachingInv, NEW g \in Grader,
         \/ \E u \in Account, c \in Course, kind \in {"quiz", "marks"} : StartMarks(g, u, c, kind)
         \/ Confine(g) \/ CheckAssigned(g) \/ WriteQuiz(g) \/ WriteMarks(g) \/ WriteFails(g)
  PROVE  TeachingInv'
<1>0. TeachingTypeOK /\ LocalRoles /\ Identified /\ Established /\ WritesAreEntitled
  BY DEF TeachingInv
<1>1. /\ job[g] \in Job /\ NoJob \in Job
      /\ NoJob.pc = "idle" /\ NoJob.kind = "quiz" /\ NoJob.id = 0 /\ ~NoJob.swapped
      /\ moves \in 0 .. MaxMoves /\ moves \in Nat
      /\ quiz \subseteq course \X Account /\ marks \subseteq course \X Account
      /\ \A m \in marks : \E q \in quiz : q[1] = m[1]
      /\ moves' = moves => moves' \in 0 .. MaxMoves /\ moves <= moves'
      /\ 0 <= moves
  <2>1. moves \in 0 .. MaxMoves /\ moves \in Nat
    BY <1>0, CourseAssumption DEF TeachingTypeOK
  <2>2. NoJob.pc = "idle" /\ NoJob.kind = "quiz" /\ NoJob.id = 0 /\ ~NoJob.swapped
    BY DEF NoJob, NewJob
  <2> QED
    BY <1>0, <2>1, <2>2, JobRows DEF TeachingTypeOK
<1>2. ASSUME job' = [job EXCEPT ![g] = NoJob], UNCHANGED <<TeachingRows, moves>>
      PROVE  TeachingInv'
  <2>1. UNCHANGED <<grant, enabled, course, spent, seat, quiz, marks, moves>>
    BY <1>2 DEF TeachingRows
  <2> QED
    BY <1>1, <1>2, <2>1, MarkSteps
<1>3. ASSUME NEW u \in Account, NEW c \in Course, NEW kind \in {"quiz", "marks"},
             StartMarks(g, u, c, kind)
      PROVE  TeachingInv'
  <2> DEFINE j == NewJob("confine", kind, u, c, 0)
  <2>1. /\ j \in Job /\ j.pc = "confine" /\ j.kind = kind /\ j.who = u /\ j.course = c
        /\ j.id = 0 /\ ~j.swapped
    BY JobRows DEF NewJob
  <2>2. /\ job' = [job EXCEPT ![g] = j]
        /\ UNCHANGED <<grant, enabled, course, spent, seat, quiz, marks>>
        /\ moves' \in 0 .. MaxMoves /\ moves <= moves' /\ 0 <= moves'
    <3>1. moves < MaxMoves /\ moves' = moves + 1
      BY <1>3 DEF StartMarks, Move
    <3>2. moves' \in 0 .. MaxMoves /\ moves <= moves' /\ 0 <= moves'
      BY <1>1, <3>1, CourseAssumption
    <3> QED
      BY <1>3, <3>2 DEF StartMarks, Becomes, TeachingRows
  <2>3. /\ c \in spent
        /\ kind = "marks" => \E q \in quiz : q[1] = c
        /\ EnsurePermission(u, "grades.manage", CourseOf[c].school)
    BY <1>0, <1>3 DEF StartMarks, TeachingTypeOK
  <2> HIDE DEF j
  <2> QED
    BY <1>1, <2>1, <2>2, <2>3, MarkSteps
<1>4. CASE Confine(g)
  <2> DEFINE s == CourseOf[job[g].course].school
             j == [job[g] EXCEPT
                     !.pc = IF IsTeacherOnly(job[g].who, s) THEN "assigned" ELSE "write",
                     !.entitled = Rule(job[g].who, job[g].course)]
  <2>1. /\ job' = [job EXCEPT ![g] = j]
        /\ UNCHANGED <<grant, enabled, course, spent, seat, quiz, marks, moves>>
        /\ job[g].pc = "confine"
    BY <1>4 DEF Confine, Becomes, TeachingRows
  <2>2. Rule(job[g].who, job[g].course) \in BOOLEAN
    BY DEF Rule
  <2>3. /\ j \in Job /\ j.kind = job[g].kind /\ j.who = job[g].who /\ j.course = job[g].course
        /\ j.id = job[g].id /\ j.swapped = job[g].swapped
        /\ j.pc = IF IsTeacherOnly(job[g].who, s) THEN "assigned" ELSE "write"
        /\ j.entitled = Rule(job[g].who, job[g].course)
    BY <1>1, <2>2 DEF Job
  <2>4. /\ job[g].who \in Account /\ job[g].course \in Course /\ s \in House
        /\ grant[job[g].who] \subseteq UserRole
    BY <1>0, <1>1, CourseAssumption DEF Job, TeachingTypeOK
  <2>5. CodesIn(job[g].who, s) = CodesOver(job[g].who, s)
    BY <2>4, CodesAreThoseOver
  <2>6. ASSUME ~j.swapped
        PROVE  /\ j.pc = "assigned" => "TEACHER" \in CodesOver(j.who, s)
               /\ j.pc = "write" => j.entitled
    <3>1. EnsurePermission(job[g].who, "grades.manage", s)
      BY <1>0, <2>1, <2>3, <2>6 DEF Established
    <3>2. CodesOver(job[g].who, s) \cap {"TEACHER", "SCHOOL_ADMIN", "SUPER_ADMIN"} # {}
      BY <3>1, <2>5 DEF EnsurePermission, Grants
    <3>3. CASE IsTeacherOnly(job[g].who, s)
      BY <3>3, <2>3, <2>5 DEF IsTeacherOnly
    <3>4. CASE ~IsTeacherOnly(job[g].who, s)
      <4>1. CodesOver(job[g].who, s) # {"TEACHER"}
        BY <3>4, <2>5 DEF IsTeacherOnly
      <4>2. Rule(job[g].who, job[g].course)
        BY <3>2, <4>1 DEF Rule, CodesOver, RolesOver
      <4> QED
        BY <3>4, <4>2, <2>3
    <3> QED
      BY <3>3, <3>4
  <2>7. /\ j.id <= moves /\ j.course \in spent
        /\ j.kind = "marks" /\ j.course \in course => \E q \in quiz : q[1] = j.course
        /\ j.kind \in {"quiz", "marks"}
    BY <1>0, <2>1, <2>3 DEF Identified
  <2>8. j.pc \in {"assigned", "write"} /\ CourseOf[j.course].school = s
    BY <2>3
  <2> HIDE DEF j, s
  <2> QED
    BY <1>1, <2>1, <2>3, <2>6, <2>7, <2>8, MarkSteps
<1>5. CASE CheckAssigned(g)
  <2>1. CASE ~AssignedTo(job[g].who, job[g].course)
    BY <1>2, <1>5, <2>1 DEF CheckAssigned, EndJob, Becomes
  <2>2. CASE AssignedTo(job[g].who, job[g].course)
    <3> DEFINE j == [job[g] EXCEPT !.pc = "write", !.entitled = Rule(job[g].who, job[g].course)]
    <3>1. /\ job' = [job EXCEPT ![g] = j]
          /\ UNCHANGED <<grant, enabled, course, spent, seat, quiz, marks, moves>>
          /\ job[g].pc = "assigned"
      BY <1>5, <2>2 DEF CheckAssigned, Becomes, TeachingRows
    <3>2. Rule(job[g].who, job[g].course) \in BOOLEAN
      BY DEF Rule
    <3>3. /\ j \in Job /\ j.kind = job[g].kind /\ j.course = job[g].course
          /\ j.id = job[g].id /\ j.swapped = job[g].swapped /\ j.pc = "write"
          /\ j.entitled = Rule(job[g].who, job[g].course)
      BY <1>1, <3>2 DEF Job
    <3>4. ASSUME ~j.swapped PROVE j.entitled
      <4>1. "TEACHER" \in CodesOver(job[g].who, CourseOf[job[g].course].school)
        BY <1>0, <3>1, <3>3, <3>4 DEF Established
      <4>2. \E a \in seat : a.who = job[g].who /\ a.course = job[g].course
        BY <2>2 DEF AssignedTo, SeatsOf
      <4> QED
        BY <3>3, <4>1, <4>2 DEF Rule, CodesOver, RolesOver
    <3>5. /\ j.id <= moves /\ j.course \in spent
          /\ j.kind = "marks" /\ j.course \in course => \E q \in quiz : q[1] = j.course
          /\ j.kind \in {"quiz", "marks"}
      BY <1>0, <3>1, <3>3 DEF Identified
    <3> HIDE DEF j
    <3> QED
      BY <1>1, <3>1, <3>3, <3>4, <3>5, MarkSteps
  <2> QED
    BY <2>1, <2>2
<1>6. CASE WriteFails(g)
  BY <1>2, <1>6 DEF WriteFails, EndJob, Becomes
<1>7. CASE WriteQuiz(g)
  <2>1. job[g].who \in Account /\ job[g].course \in course
    BY <1>1, <1>7 DEF WriteQuiz, Job
  <2>2. /\ job' = [job EXCEPT ![g] = NoJob]
        /\ quiz' = quiz \cup {<<job[g].course, job[g].who>>}
        /\ UNCHANGED <<grant, enabled, course, spent, seat, marks, moves>>
    BY <1>7 DEF WriteQuiz, Becomes
  <2>3. /\ quiz \subseteq quiz' /\ quiz' \subseteq course \X Account
        /\ marks' \subseteq course \X Account /\ \A m \in marks' : \E q \in quiz' : q[1] = m[1]
    BY <1>1, <2>1, <2>2
  <2> QED
    BY <1>1, <2>2, <2>3, MarkSteps
<1>8. CASE WriteMarks(g)
  <2>1. /\ job[g].who \in Account /\ job[g].course \in course
        /\ \E q \in quiz : q[1] = job[g].course
    BY <1>0, <1>1, <1>8 DEF WriteMarks, Job, Identified
  <2>2. /\ job' = [job EXCEPT ![g] = NoJob]
        /\ marks' = marks \cup {<<job[g].course, job[g].who>>}
        /\ UNCHANGED <<grant, enabled, course, spent, seat, quiz, moves>>
    BY <1>8 DEF WriteMarks, Becomes
  <2>3. /\ quiz \subseteq quiz' /\ quiz' \subseteq course \X Account
        /\ marks' \subseteq course \X Account /\ \A m \in marks' : \E q \in quiz' : q[1] = m[1]
    BY <1>1, <2>1, <2>2
  <2> QED
    BY <1>1, <2>2, <2>3, MarkSteps
<1> QED
  BY <1>3, <1>4, <1>5, <1>6, <1>7, <1>8

\* Requests that assign a teacher, until they write.
LEMMA SeatSteps ==
  ASSUME TeachingInv, NEW g \in Grader,
         \/ \E u \in Account, c \in Course : StartAssign(g, u, c)
         \/ \E a \in seat, u \in Account : StartReassign(g, a, u)
         \/ SeatFails(g)
  PROVE  TeachingInv'
<1>0. TeachingTypeOK /\ Identified
  BY DEF TeachingInv
<1>1. /\ moves \in 0 .. MaxMoves /\ moves \in Nat
      /\ quiz \subseteq course \X Account /\ marks \subseteq course \X Account
      /\ \A m \in marks : \E q \in quiz : q[1] = m[1]
      /\ \A a \in seat : a \in SeatRow /\ a.course \in spent /\ a.id <= moves
  BY <1>0, CourseAssumption DEF TeachingTypeOK, Identified
<1>2. Move => moves' \in 0 .. MaxMoves /\ moves' = moves + 1 /\ moves <= moves'
  BY <1>1, CourseAssumption DEF Move
<1>3. ASSUME NEW u \in Account, NEW c \in Course, StartAssign(g, u, c) PROVE TeachingInv'
  <2> DEFINE j == NewJob("seat", "assign", u, c, moves + 1)
  <2>1. /\ j \in Job /\ j.pc = "seat" /\ j.kind = "assign" /\ j.course = c
        /\ j.id = moves + 1 /\ j.id > moves
    <3>1. moves + 1 \in Nat /\ moves + 1 > moves
      BY <1>1
    <3>2. j \in Job
      BY <3>1, JobRows
    <3> QED
      BY <3>1, <3>2 DEF NewJob
  <2>2. /\ job' = [job EXCEPT ![g] = j] /\ Move /\ c \in spent
        /\ UNCHANGED <<grant, enabled, course, spent, seat, quiz, marks>>
    BY <1>0, <1>3 DEF StartAssign, Becomes, TeachingRows, TeachingTypeOK
  <2>3. j.id <= moves'
    BY <1>1, <1>2, <2>1, <2>2
  <2> HIDE DEF j
  <2> QED
    BY <1>1, <1>2, <2>1, <2>2, <2>3, MarkSteps
<1>4. ASSUME NEW a \in seat, NEW u \in Account, StartReassign(g, a, u) PROVE TeachingInv'
  <2> DEFINE j == NewJob("seat", "reassign", u, a.course, a.id)
  <2>1. /\ j \in Job /\ j.pc = "seat" /\ j.kind = "reassign" /\ j.course = a.course
        /\ j.id = a.id
    BY <1>1, JobRows DEF NewJob, SeatRow
  <2>2. /\ job' = [job EXCEPT ![g] = j] /\ Move
        /\ UNCHANGED <<grant, enabled, course, spent, seat, quiz, marks>>
    BY <1>4 DEF StartReassign, Becomes, TeachingRows
  <2>3. j.id <= moves' /\ a.course \in spent
    BY <1>1, <1>2, <2>1, <2>2 DEF SeatRow
  <2> HIDE DEF j
  <2> QED
    BY <1>1, <1>2, <2>1, <2>2, <2>3, MarkSteps
<1>5. CASE SeatFails(g)
  <2>1. /\ job' = [job EXCEPT ![g] = NoJob]
        /\ UNCHANGED <<grant, enabled, course, spent, seat, quiz, marks, moves>>
    BY <1>5 DEF SeatFails, EndJob, Becomes, TeachingRows
  <2>2. /\ NoJob \in Job /\ NoJob.pc = "idle" /\ NoJob.kind = "quiz" /\ NoJob.id = 0
        /\ ~NoJob.swapped /\ 0 <= moves /\ moves' \in 0 .. MaxMoves /\ moves <= moves'
    BY <1>1, <2>1, JobRows, NoJobFields
  <2> QED
    BY <1>1, <2>1, <2>2, MarkSteps
<1> QED
  BY <1>3, <1>4, <1>5

\* An assignment is written: its identifier is its own, and no other
\* assignment of the teacher is to the same subject.
LEMMA CommitStep ==
  ASSUME TeachingInv, NEW g \in Grader, CommitSeat(g)
  PROVE  TeachingInv'
<1> DEFINE j == job[g]
           new == SeatFor(j)
<1>0. TeachingTypeOK /\ LocalRoles /\ Identified /\ Established /\ WritesAreEntitled
  BY DEF TeachingInv
<1>1. /\ j.pc = "seat" /\ j.course \in course /\ j \in Job
      /\ seat' = OtherSeats(j) \cup {new}
      /\ job' = [job EXCEPT ![g] = NoJob]
      /\ UNCHANGED <<grant, enabled, course, spent, quiz, marks, moves>>
      /\ j.kind = "reassign" => OtherSeats(j) # seat
      /\ \A a \in OtherSeats(j) : a.who # j.who \/ a.course # j.course
  BY <1>0 DEF CommitSeat, SeatConflict, Becomes, TeachingTypeOK
<1>2. /\ job'[g] = NoJob /\ NoJob \in Job
      /\ NoJob.pc = "idle" /\ NoJob.kind = "quiz" /\ NoJob.id = 0
      /\ \A h \in Grader \ {g} : job'[h] = job[h]
      /\ moves \in Nat /\ 0 <= moves
  BY <1>0, <1>1, JobRows, NoJobFields, CourseAssumption DEF TeachingTypeOK
<1>3. /\ new.id = j.id /\ new.who = j.who /\ new.course = j.course
      /\ new.school = CourseOf[j.course].school /\ new \in SeatRow
  BY <1>0, <1>1, CourseAssumption DEF SeatFor, SeatRow, Job, TeachingTypeOK
<1>4. OtherSeats(j) \subseteq seat /\ \A a \in OtherSeats(j) : a.id # j.id
  BY DEF OtherSeats
<1> HIDE DEF new
<1>5. TeachingTypeOK'
  <2>1. seat' \subseteq SeatRow /\ \A a \in seat' : a.course \in course' /\ a.school = CourseOf[a.course].school
    BY <1>0, <1>1, <1>3, <1>4 DEF TeachingTypeOK
  <2>2. \A a, b \in seat' : a.id = b.id \/ (a.who = b.who /\ a.course = b.course) => a = b
    BY <1>0, <1>1, <1>3, <1>4 DEF TeachingTypeOK
  <2>3. job' \in [Grader -> Job]
    BY <1>0, <1>1, <1>2 DEF TeachingTypeOK
  <2> QED
    BY <1>0, <1>1, <2>1, <2>2, <2>3 DEF TeachingTypeOK
<1>6. \A h \in Grader : job[h].pc = "seat" /\ job[h].kind = "assign" /\ h # g => job[h].id # j.id
  BY <1>0, <1>1 DEF Identified
<1>7. Identified'
  <2>1. \A a \in seat' : a.id <= moves'
    BY <1>0, <1>1, <1>3, <1>4 DEF Identified
  <2>2. \A h \in Grader : job'[h].pc = "seat" /\ job'[h].kind = "assign" =>
          \A a \in seat' : a.id # job'[h].id
    BY <1>0, <1>1, <1>2, <1>3, <1>4, <1>6 DEF Identified
  <2> QED
    BY <1>0, <1>1, <1>2, <2>1, <2>2 DEF Identified
<1>8. Established'
  BY <1>0, <1>1, <1>2 DEF Established, EnsurePermission, CodesIn, CodesOver, RolesOver
<1>9. LocalRoles' /\ WritesAreEntitled'
  BY <1>0, <1>1, <1>2 DEF LocalRoles, WritesAreEntitled
<1> QED
  BY <1>5, <1>7, <1>8, <1>9 DEF TeachingInv

\* Subjects, assignments and accounts come and go while requests run.
LEMMA RowSteps ==
  ASSUME TeachingInv,
         \/ \E a \in seat : RemoveAssignment(a)
         \/ \E c \in Course \ spent : AddCourse(c)
         \/ \E c \in course : RemoveCourse(c)
         \/ \E u \in Account : SetEnabled(u)
  PROVE  TeachingInv'
<1>0. TeachingTypeOK /\ LocalRoles /\ Identified /\ Established /\ WritesAreEntitled
  BY DEF TeachingInv
<1>1. Move /\ UNCHANGED <<grant, job>>
  BY DEF RemoveAssignment, AddCourse, RemoveCourse, SetEnabled
<1>2. moves' \in 0 .. MaxMoves /\ moves \in Nat /\ moves' = moves + 1
  BY <1>0, <1>1, CourseAssumption DEF Move, TeachingTypeOK
<1>3. LocalRoles' /\ Established' /\ WritesAreEntitled'
  BY <1>0, <1>1 DEF LocalRoles, Established, WritesAreEntitled, EnsurePermission, CodesIn,
     CodesOver, RolesOver
<1>4. ASSUME seat' \subseteq seat, spent \subseteq spent',
             \A g \in Grader : job[g].kind = "marks" /\ job[g].course \in spent /\ job[g].course \in course'
               => job[g].course \in course /\ \A q \in quiz : q[1] = job[g].course => q \in quiz'
      PROVE  Identified'
  <2>1. \A g \in Grader : job[g].id \in Nat
    BY <1>0 DEF TeachingTypeOK, Job
  <2>2. \A a \in seat : a.id \in Nat
    BY <1>0 DEF TeachingTypeOK, SeatRow
  <2>3. ASSUME NEW g \in Grader, job[g].pc # "idle", job[g].kind = "marks", job[g].course \in course'
        PROVE  \E q \in quiz' : q[1] = job[g].course
    BY <1>0, <1>4, <2>3 DEF Identified
  <2> QED
    BY <1>0, <1>1, <1>2, <1>4, <2>1, <2>2, <2>3 DEF Identified
<1>5. ASSUME TeachingTypeOK', Identified' PROVE TeachingInv'
  BY <1>3, <1>5 DEF TeachingInv
<1>6. ASSUME NEW a \in seat, RemoveAssignment(a) PROVE TeachingInv'
  <2>1. /\ seat' = seat \ {a}
        /\ UNCHANGED <<grant, enabled, course, spent, quiz, marks, job>>
    BY <1>6 DEF RemoveAssignment
  <2>2. TeachingTypeOK'
    BY <1>0, <1>2, <2>1 DEF TeachingTypeOK
  <2> QED
    BY <1>4, <1>5, <2>1, <2>2
<1>7. ASSUME NEW c \in Course \ spent, AddCourse(c) PROVE TeachingInv'
  <2>1. /\ course' = course \cup {c} /\ spent' = spent \cup {c}
        /\ UNCHANGED <<grant, enabled, seat, quiz, marks, job>>
        /\ \A d \in course : CourseOf[d].class = CourseOf[c].class => CourseOf[d].subject # CourseOf[c].subject
    BY <1>7 DEF AddCourse
  <2>2. TeachingTypeOK'
    <3>1. \A d, e \in course' :
            CourseOf[d].class = CourseOf[e].class /\ CourseOf[d].subject = CourseOf[e].subject => d = e
      BY <1>0, <2>1 DEF TeachingTypeOK
    <3>2. /\ course' \subseteq spent' /\ spent' \subseteq Course
          /\ quiz' \subseteq course' \X Account /\ marks' \subseteq course' \X Account
      BY <1>0, <2>1 DEF TeachingTypeOK
    <3> QED
      BY <1>0, <1>2, <2>1, <3>1, <3>2 DEF TeachingTypeOK
  <2> QED
    BY <1>4, <1>5, <2>1, <2>2
<1>8. ASSUME NEW c \in course, RemoveCourse(c) PROVE TeachingInv'
  <2>1. /\ course' = course \ {c} /\ seat' = {a \in seat : a.course # c}
        /\ quiz' = {q \in quiz : q[1] # c} /\ marks' = {m \in marks : m[1] # c}
        /\ UNCHANGED <<grant, enabled, spent, job>>
    BY <1>8 DEF RemoveCourse
  <2>2. TeachingTypeOK'
    <3>1. quiz' \subseteq course' \X Account /\ marks' \subseteq course' \X Account
      BY <1>0, <2>1 DEF TeachingTypeOK
    <3>2. \A m \in marks' : \E q \in quiz' : q[1] = m[1]
      BY <1>0, <2>1 DEF TeachingTypeOK
    <3>3. seat' \subseteq SeatRow /\ \A a \in seat' : a.course \in course' /\ a.school = CourseOf[a.course].school
      BY <1>0, <2>1 DEF TeachingTypeOK
    <3>4. \A a, b \in seat' : a.id = b.id \/ (a.who = b.who /\ a.course = b.course) => a = b
      BY <1>0, <2>1 DEF TeachingTypeOK
    <3> QED
      BY <1>0, <1>2, <2>1, <3>1, <3>2, <3>3, <3>4 DEF TeachingTypeOK
  <2> QED
    BY <1>4, <1>5, <2>1, <2>2
<1>9. ASSUME NEW u \in Account, SetEnabled(u) PROVE TeachingInv'
  <2>1. /\ enabled' \subseteq enabled \cup {u}
        /\ UNCHANGED <<grant, course, spent, seat, quiz, marks, job>>
    BY <1>9 DEF SetEnabled
  <2>2. TeachingTypeOK'
    BY <1>0, <1>2, <2>1 DEF TeachingTypeOK
  <2> QED
    BY <1>4, <1>5, <2>1, <2>2
<1> QED
  BY <1>6, <1>7, <1>8, <1>9

\* Roles change: the requests of the account know nothing any more.
LEMMA RoleSteps ==
  ASSUME TeachingInv, NEW u \in Account, NEW s \in House, NEW code \in InSchool,
         ReplaceRole(u, s, code) \/ AttachRole(u, s, code)
  PROVE  TeachingInv'
<1>0. TeachingTypeOK /\ LocalRoles /\ Identified /\ Established /\ WritesAreEntitled
  BY DEF TeachingInv
<1>1. /\ RoleIn(code, s) \in UserRole
      /\ RoleIn(code, s).school \in House /\ RoleIn(code, s).org = Organization
  BY DEF RoleIn, UserRole, InSchool, Code
<1>2. PICK kept \in SUBSET grant[u] : Regrant(u, kept \cup {RoleIn(code, s)})
  <2>1. CASE ReplaceRole(u, s, code)
    BY <2>1 DEF ReplaceRole
  <2>2. CASE AttachRole(u, s, code)
    BY <2>2 DEF AttachRole
  <2> QED
    BY <2>1, <2>2
<1> DEFINE roles == kept \cup {RoleIn(code, s)}
<1>3. /\ grant' = [grant EXCEPT ![u] = roles]
      /\ job' = [g \in Grader |->
                   IF job[g].who = u /\ job[g].pc \in {"confine", "assigned"}
                   THEN [job[g] EXCEPT !.swapped = TRUE] ELSE job[g]]
      /\ UNCHANGED <<enabled, course, spent, seat, quiz, marks>> /\ Move
  BY <1>2 DEF Regrant
<1>4. moves' \in 0 .. MaxMoves /\ moves \in Nat /\ moves' = moves + 1
  BY <1>0, <1>3, CourseAssumption DEF Move, TeachingTypeOK
<1>5. roles \subseteq UserRole /\ \A r \in roles : r.code \in InSchool => r.school \in House /\ r.org = Organization
  BY <1>0, <1>1 DEF TeachingTypeOK, LocalRoles
<1> HIDE DEF roles
<1>6. \A v \in Account : grant'[v] = IF v = u THEN roles ELSE grant[v]
  BY <1>0, <1>3 DEF TeachingTypeOK
<1>7. \A g \in Grader :
        /\ job'[g] \in Job
        /\ job'[g].pc = job[g].pc /\ job'[g].kind = job[g].kind /\ job'[g].who = job[g].who
        /\ job'[g].course = job[g].course /\ job'[g].id = job[g].id
        /\ job'[g].entitled = job[g].entitled
        /\ job[g].swapped => job'[g].swapped
        /\ job[g].who = u /\ job[g].pc \in {"confine", "assigned"} => job'[g].swapped
        /\ job[g].id \in Nat /\ job[g].who \in Account
  <2> SUFFICES ASSUME NEW g \in Grader
               PROVE  /\ job'[g] \in Job
                      /\ job'[g].pc = job[g].pc /\ job'[g].kind = job[g].kind /\ job'[g].who = job[g].who
                      /\ job'[g].course = job[g].course /\ job'[g].id = job[g].id
                      /\ job'[g].entitled = job[g].entitled
                      /\ job[g].swapped => job'[g].swapped
                      /\ job[g].who = u /\ job[g].pc \in {"confine", "assigned"} => job'[g].swapped
                      /\ job[g].id \in Nat /\ job[g].who \in Account
    OBVIOUS
  <2>1. job[g] \in Job
    BY <1>0 DEF TeachingTypeOK
  <2>2. job'[g] = IF job[g].who = u /\ job[g].pc \in {"confine", "assigned"}
                  THEN [job[g] EXCEPT !.swapped = TRUE] ELSE job[g]
    BY <1>3
  <2> QED
    BY <2>1, <2>2 DEF Job
<1>8. TeachingTypeOK'
  <2>1. grant' \in [Account -> SUBSET UserRole]
    BY <1>0, <1>3, <1>5 DEF TeachingTypeOK
  <2>2. job' \in [Grader -> Job]
    BY <1>3, <1>7
  <2> QED
    BY <1>0, <1>3, <1>4, <2>1, <2>2 DEF TeachingTypeOK
<1>9. LocalRoles'
  BY <1>0, <1>5, <1>6 DEF LocalRoles
<1>10. Identified'
  <2>1. \A a \in seat : a.id \in Nat
    BY <1>0 DEF TeachingTypeOK, SeatRow
  <2>2. \A a \in seat' : a.id <= moves'
    BY <1>0, <1>3, <1>4, <2>1 DEF Identified
  <2>3. ASSUME NEW g \in Grader
        PROVE  LET j == job'[g] IN
               /\ j.id <= moves'
               /\ j.pc # "idle" => j.course \in spent'
               /\ j.pc # "idle" /\ j.kind = "marks" /\ j.course \in course' => \E q \in quiz' : q[1] = j.course
               /\ j.pc \in {"confine", "assigned", "write"} => j.kind \in {"quiz", "marks"}
               /\ j.pc = "seat" => j.kind \in {"assign", "reassign"}
               /\ j.pc = "seat" /\ j.kind = "assign" => \A a \in seat' : a.id # j.id
    <3>1. job[g].id <= moves
      BY <1>0 DEF Identified
    <3>2. job'[g].id <= moves'
      BY <3>1, <1>4, <1>7
    <3>3. /\ job'[g].pc = job[g].pc /\ job'[g].kind = job[g].kind
          /\ job'[g].course = job[g].course /\ job'[g].id = job[g].id
      BY <1>7
    <3>4. spent' = spent /\ course' = course /\ quiz' = quiz /\ seat' = seat
      BY <1>3
    <3>5. LET j == job[g] IN
          /\ j.pc # "idle" => j.course \in spent
          /\ j.pc # "idle" /\ j.kind = "marks" /\ j.course \in course => \E q \in quiz : q[1] = j.course
          /\ j.pc \in {"confine", "assigned", "write"} => j.kind \in {"quiz", "marks"}
          /\ j.pc = "seat" => j.kind \in {"assign", "reassign"}
          /\ j.pc = "seat" /\ j.kind = "assign" => \A a \in seat : a.id # j.id
      BY <1>0 DEF Identified
    <3> QED
      BY <3>2, <3>3, <3>4, <3>5
  <2>4. \A g, h \in Grader :
          job'[g].pc = "seat" /\ job'[g].kind = "assign" /\ job'[h].pc = "seat" /\ g # h
            => job'[g].id # job'[h].id
    BY <1>0, <1>7 DEF Identified
  <2> QED
    BY <2>2, <2>3, <2>4 DEF Identified
<1>11. Established'
  <2>1. ASSUME NEW g \in Grader, ~job'[g].swapped, job'[g].pc \in {"confine", "assigned"}
        PROVE  grant'[job'[g].who] = grant[job[g].who] /\ job'[g].who = job[g].who /\ ~job[g].swapped
    BY <2>1, <1>6, <1>7
  <2>2. ASSUME NEW g \in Grader, ~job'[g].swapped, job'[g].pc = "confine"
        PROVE  EnsurePermission(job[g].who, "grades.manage", CourseOf[job[g].course].school)'
    <3>1. EnsurePermission(job[g].who, "grades.manage", CourseOf[job[g].course].school)
      BY <1>0, <1>7, <2>1, <2>2 DEF Established
    <3>2. grant'[job'[g].who] = grant[job[g].who]
      BY <2>1, <2>2
    <3>3. job'[g].course = job[g].course
      BY <1>7
    <3> QED
      BY <3>1, <3>2, <3>3 DEF EnsurePermission, CodesIn
  <2>3. ASSUME NEW g \in Grader, ~job'[g].swapped, job'[g].pc = "assigned"
        PROVE  "TEACHER" \in CodesOver(job[g].who, CourseOf[job[g].course].school)'
    <3>1. "TEACHER" \in CodesOver(job[g].who, CourseOf[job[g].course].school)
      BY <1>0, <1>7, <2>1, <2>3 DEF Established
    <3>2. grant'[job'[g].who] = grant[job[g].who]
      BY <2>1, <2>3
    <3>3. job'[g].course = job[g].course
      BY <1>7
    <3> QED
      BY <3>1, <3>2, <3>3 DEF CodesOver, RolesOver
  <2> QED
    BY <2>2, <2>3 DEF Established
<1>12. WritesAreEntitled'
  BY <1>0, <1>7 DEF WritesAreEntitled
<1> QED
  BY <1>8, <1>9, <1>10, <1>11, <1>12 DEF TeachingInv

\* Every step keeps the invariant.
LEMMA StepTeaching == TeachingInv /\ [TeachingNext]_teachingVars => TeachingInv'
<1> SUFFICES ASSUME TeachingInv, [TeachingNext]_teachingVars PROVE TeachingInv'
  OBVIOUS
<1>1. CASE UNCHANGED teachingVars
  BY <1>1 DEF teachingVars, TeachingInv, TeachingTypeOK, LocalRoles, Identified, Established,
     WritesAreEntitled, EnsurePermission, CodesIn, CodesOver, RolesOver
<1>2. ASSUME NEW g \in Grader, NEW u \in Account, NEW c \in Course,
             StartMarks(g, u, c, "quiz") \/ StartMarks(g, u, c, "marks")
      PROVE  TeachingInv'
  BY <1>2, GraderSteps
<1>3. ASSUME NEW g \in Grader, NEW u \in Account, NEW c \in Course, StartAssign(g, u, c)
      PROVE  TeachingInv'
  BY <1>3, SeatSteps
<1>4. ASSUME NEW g \in Grader, NEW a \in seat, NEW u \in Account, StartReassign(g, a, u)
      PROVE  TeachingInv'
  BY <1>4, SeatSteps
<1>5. ASSUME NEW g \in Grader,
             \/ Confine(g) \/ CheckAssigned(g) \/ WriteQuiz(g) \/ WriteMarks(g) \/ WriteFails(g)
             \/ CommitSeat(g) \/ SeatFails(g)
      PROVE  TeachingInv'
  BY <1>5, GraderSteps, SeatSteps, CommitStep
<1>6. ASSUME \/ \E a \in seat : RemoveAssignment(a)
             \/ \E c \in Course \ spent : AddCourse(c)
             \/ \E c \in course : RemoveCourse(c)
             \/ \E u \in Account : SetEnabled(u)
      PROVE  TeachingInv'
  BY <1>6, RowSteps
<1>7. ASSUME NEW u \in Account, NEW s \in House, NEW code \in InSchool,
             ReplaceRole(u, s, code) \/ AttachRole(u, s, code)
      PROVE  TeachingInv'
  BY <1>7, RoleSteps
<1> QED
  BY <1>1, <1>2, <1>3, <1>4, <1>5, <1>6, <1>7 DEF TeachingNext

\* One idea of what a teacher is confined to follows from the rows.
LEMMA OneScope == TeachingInv => SameScopeEverywhere
<1> SUFFICES ASSUME TeachingInv PROVE SameScopeEverywhere
  OBVIOUS
<1>0. TeachingTypeOK /\ LocalRoles
  BY DEF TeachingInv
<1>1. \A a \in seat : a.school = CourseOf[a.course].school /\ a.school \in House
  BY <1>0 DEF TeachingTypeOK, SeatRow
<1>2. ASSUME NEW u \in enabled, NEW s \in House, IsTeacherOnly(u, s), ~PlatformAdmin(u)
      PROVE  /\ MarksScope(u, s) = {c \in PortalScope(u) : CourseOf[c].school = s}
             /\ RecordsScope(u, s) = ClassesOf(MarksScope(u, s))
  <2>1. u \in Account /\ grant[u] \subseteq UserRole
    BY <1>0 DEF TeachingTypeOK
  <2>2. "TEACHER" \in CodesOver(u, s)
    BY <1>2, <2>1, CodesAreThoseOver DEF IsTeacherOnly
  <2>3. PICK r \in grant[u] : r.code = "TEACHER" /\ r.school \in {s, NULL}
    BY <2>2 DEF CodesOver, RolesOver
  <2>4. r = RoleIn("TEACHER", s)
    BY <1>0, <2>1, <2>3, CourseAssumption DEF LocalRoles, InSchool, UserRole, RoleIn
  <2>5. TeachesIn(u, s)
    BY <2>3, <2>4 DEF TeachesIn
  <2>6. PortalScope(u) = TeacherScope(u)
    BY <1>2, <2>5 DEF PortalScope, EnsureTeacher
  <2>7. MarksScope(u, s) = {c \in TeacherScope(u) : CourseOf[c].school = s}
    BY <1>1, <2>5 DEF MarksScope, TeacherScope, SeatsOf
  <2>8. RecordsScope(u, s) = ClassesOf(MarksScope(u, s))
    BY <1>1 DEF RecordsScope, MarksScope, SeatsOf, ClassesOf
  <2> QED
    BY <2>6, <2>7, <2>8
<1>3. ASSUME NEW class \in ClassesOf(Course)
      PROVE  ClassTeachers(class) = {u \in Account : class \in ClassesOf(PortalScope(u))}
  <2>1. ASSUME NEW u \in ClassTeachers(class)
        PROVE  u \in Account /\ class \in ClassesOf(PortalScope(u))
    <3>1. PICK a \in SeatsOf(u) :
            CourseOf[a.course].class = class /\ TeachesIn(u, CourseOf[a.course].school)
      BY DEF ClassTeachers
    <3>2. u \in enabled /\ ~PlatformAdmin(u) /\ u \in Account
      BY <1>0 DEF ClassTeachers, TeachingTypeOK
    <3>3. a \in seat /\ CourseOf[a.course].school \in House
      BY <1>1, <3>1 DEF SeatsOf
    <3>4. PortalScope(u) = TeacherScope(u)
      BY <3>1, <3>2, <3>3 DEF PortalScope, EnsureTeacher
    <3>5. a.course \in TeacherScope(u)
      BY <3>1 DEF TeacherScope
    <3> QED
      BY <3>1, <3>2, <3>4, <3>5 DEF ClassesOf
  <2>2. ASSUME NEW u \in Account, class \in ClassesOf(PortalScope(u))
        PROVE  u \in ClassTeachers(class)
    <3>1. PICK c \in PortalScope(u) : class = CourseOf[c].class
      BY <2>2 DEF ClassesOf
    <3>2. EnsureTeacher(u) /\ c \in TeacherScope(u)
      BY <3>1 DEF PortalScope
    <3>3. PICK a \in SeatsOf(u) : a.course = c /\ TeachesIn(u, CourseOf[a.course].school)
      BY <3>2 DEF TeacherScope
    <3> QED
      BY <3>1, <3>2, <3>3 DEF ClassTeachers, EnsureTeacher
  <2>3. ClassTeachers(class) \subseteq Account
    BY <2>1
  <2> QED
    BY <2>1, <2>2, <2>3
<1> QED
  BY <1>2, <1>3 DEF SameScopeEverywhere

\* A step that leaves assignments, and the roles over a school, alone.
LEMMA GradingIsLocal ==
  ASSUME TeachingInv, TeachingInv', seat' = seat, NEW u \in Account, NEW c \in Course,
         RolesOver(u, CourseOf[c].school)' = RolesOver(u, CourseOf[c].school)
  PROVE  MayGrade(u, c)' = MayGrade(u, c)
<1> DEFINE s == CourseOf[c].school
<1>1. s \in House /\ grant[u] \subseteq UserRole /\ grant'[u] \subseteq UserRole
  BY CourseAssumption DEF TeachingInv, TeachingTypeOK
<1>2. CodesOver(u, s)' = CodesOver(u, s)
  BY DEF CodesOver
<1>3. CodesIn(u, s)' = CodesIn(u, s)
  BY <1>1, <1>2, CodesAreThoseOver, CodesAreThoseOverNext
<1>4. AssignedTo(u, c)' = AssignedTo(u, c)
  BY DEF AssignedTo, SeatsOf
<1> QED
  BY <1>3, <1>4 DEF MayGrade, EnsurePermission, IsTeacherOnly

\* Rows refer to rows that are there and are unique, whatever is removed
\* while requests run (academics/router.py, academics/models.py).
THEOREM TeachingTypeCorrect == TeachingSpec => []TeachingTypeOK
<1>1. TeachingInv => TeachingTypeOK
  BY DEF TeachingInv
<1> QED
  BY <1>1, InitTeaching, StepTeaching, PTL DEF TeachingSpec

\* Nothing is written about a subject by an account the rule did not allow
\* to (_ensure_can_manage_class_subject_grades), unless its roles changed
\* between two of the readings.
THEOREM WritesAreAlwaysEntitled == TeachingSpec => []WritesAreEntitled
<1>1. TeachingInv => WritesAreEntitled
  BY DEF TeachingInv
<1> QED
  BY <1>1, InitTeaching, StepTeaching, PTL DEF TeachingSpec

\* Marks, records, portal and announcements agree on what a teacher is
\* confined to (teacher/service.py, grades/router.py, students/router.py,
\* notifications/service.py).
THEOREM ScopeIsTheSameEverywhere == TeachingSpec => []SameScopeEverywhere
  BY OneScope, InitTeaching, StepTeaching, PTL DEF TeachingSpec

\* Roles elsewhere in the organization grant nothing here, and lift no
\* restriction (core/permissions.py).
THEOREM ElsewhereNeverMatters == TeachingSpec => ElsewhereDoesNotMatter
<1> DEFINE Local ==
      seat' = seat => \A u \in {v \in Account : grant'[v] # grant[v]}, c \in Course :
        LET s == CourseOf[c].school IN
        RolesOver(u, s)' = RolesOver(u, s) => MayGrade(u, c)' = MayGrade(u, c)
<1>1. TeachingInv /\ TeachingInv' /\ [TeachingNext]_teachingVars => [Local]_teachingVars
  BY GradingIsLocal
<1> QED
  BY <1>1, InitTeaching, StepTeaching, PTL DEF TeachingSpec, ElsewhereDoesNotMatter

-----------------------------------------------------------------------------
(***************************************************************************)
(* Places in classes, for any students, classes, capacities and requests.  *)
(*                                                                         *)
(* A call that still waits for a class holds only classes whose ids are    *)
(* smaller, which is why no two calls can wait for each other.  Nobody     *)
(* who was selected for a promotion is lost on the way from the reads to   *)
(* the writes, because an enrollment, once there, is never removed.        *)
(***************************************************************************)

\* The classes a call holds come before those it still waits for.
LocksInOrder ==
  \A k \in Clerk : clerk[k].pc = "lock" =>
    \A c \in clerk[k].held, d \in clerk[k].lock : c < d

\* A row that was loaded is still there.
SeenRowsStay ==
  \A k \in Clerk : \A x \in clerk[k].seat :
    clerk[k].seen[x[1][1]].class # NoClass => Enrolled(x[1])

\* What becomes of each student of a promotion.
EachHasAFuture ==
  \A k \in Clerk : clerk[k].pc # "idle" /\ clerk[k].kind = "promote" =>
    \A s \in clerk[k].who :
      \/ s \in clerk[k].left
      \/ Enrolled(<<s, 2>>)
      \/ <<s, 2>> \in Seats(k)
      \/ s \in clerk[k].leave \cup exits

\* A call that undecided students stop never writes.
NobodyLeftAtWrite ==
  \A k \in Clerk : clerk[k].pc = "write" => clerk[k].left = {}

EnrolInv ==
  EnrolTypeOK /\ LocksInOrder /\ SeenRowsStay /\ EachHasAFuture /\ NobodyLeftAtWrite

\* A clerk without a request.
LEMMA NoRequestFields ==
  /\ NoRequest \in Request
  /\ NoRequest.pc = "idle" /\ NoRequest.kind = "assign" /\ NoRequest.seat = {}
  BY DEF NoRequest, Request, Row, NoRow, Status, NoClass

\* At first nobody asks for anything.
LEMMA InitEnrol == EnrolInit => EnrolInv
<1> SUFFICES ASSUME EnrolInit PROVE EnrolInv
  OBVIOUS
<1>1. \A k \in Clerk : clerk[k] = NoRequest
  BY DEF EnrolInit
<1>2. LocksInOrder /\ SeenRowsStay /\ EachHasAFuture /\ NobodyLeftAtWrite
  BY <1>1, NoRequestFields DEF LocksInOrder, SeenRowsStay, EachHasAFuture, NobodyLeftAtWrite
<1>3. row \in [Slot -> Row]
  <2>1. \A p \in Slot : p[1] \in Student
    BY DEF Slot
  <2> QED
    BY <2>1, FirstAssumption DEF EnrolInit, Row, NoRow, Status, NoClass
<1>4. clerk \in [Clerk -> Request]
  BY NoRequestFields DEF EnrolInit
<1>5. asked \in 0 .. MaxRequests
  BY RequestAssumption DEF EnrolInit
<1>6. EnrolTypeOK
  BY <1>3, <1>4, <1>5 DEF EnrolInit, EnrolTypeOK
<1> QED
  BY <1>2, <1>6 DEF EnrolInv

\* An enrollment that is there stays there.
EnrollmentsStay == \A p \in Slot : Enrolled(p) => Enrolled(p)'

\* A step of one clerk that leaves the rows of the school alone keeps what
\* is known of the others.
LEMMA OwnStep ==
  ASSUME EnrolInv, NEW k \in Clerk, NEW r \in Request,
         clerk' = [clerk EXCEPT ![k] = r],
         row' = row /\ exits' = exits /\ stray' \in SUBSET Class /\ asked' \in 0 .. MaxRequests,
         r.pc = "lock" => \A c \in r.held, d \in r.lock : c < d,
         \A x \in r.seat : r.seen[x[1][1]].class # NoClass => Enrolled(x[1]),
         r.pc # "idle" /\ r.kind = "promote" =>
           \A s \in r.who : \/ s \in r.left \/ Enrolled(<<s, 2>>)
                            \/ <<s, 2>> \in {x[1] : x \in r.seat}
                            \/ s \in r.leave \cup exits,
         r.pc = "write" => r.left = {}
  PROVE  EnrolInv'
<1>0. EnrolTypeOK /\ LocksInOrder /\ SeenRowsStay /\ EachHasAFuture /\ NobodyLeftAtWrite
  BY DEF EnrolInv
<1>1. \A o \in Clerk : clerk'[o] = IF o = k THEN r ELSE clerk[o]
  BY <1>0 DEF EnrolTypeOK
<1>2. EnrolTypeOK'
  BY <1>0 DEF EnrolTypeOK
<1>3. LocksInOrder'
  BY <1>0, <1>1 DEF LocksInOrder
<1>4. SeenRowsStay'
  BY <1>0, <1>1 DEF SeenRowsStay, Enrolled
<1>5. EachHasAFuture'
  BY <1>0, <1>1 DEF EachHasAFuture, Enrolled, Seats
<1>6. NobodyLeftAtWrite'
  BY <1>0, <1>1 DEF NobodyLeftAtWrite
<1> QED
  BY <1>2, <1>3, <1>4, <1>5, <1>6 DEF EnrolInv

\* A request that ends is forgotten.
LEMMA EndStep ==
  ASSUME EnrolInv, NEW k \in Clerk, Reject(k) PROVE EnrolInv'
<1>1. asked' \in 0 .. MaxRequests /\ stray' \in SUBSET Class
  BY DEF Reject, EnrolInv, EnrolTypeOK
<1> QED
  BY <1>1, NoRequestFields, OwnStep DEF Reject

\* The reads of an assignment.
LEMMA AssignStep ==
  ASSUME EnrolInv, NEW k \in Clerk, NEW c \in Class, NEW who \in Selection, Assign(k, c, who)
  PROVE  EnrolInv'
<1>0. EnrolTypeOK
  BY DEF EnrolInv
<1> DEFINE y == ClassYear[c]
<1> DEFINE unchanged == {s \in who : ActiveIn(row[<<s, y>>], c)}
<1> DEFINE seen == [s \in Student |-> IF s \in who THEN row[<<s, y>>] ELSE NoRow]
<1> DEFINE seats == {<<<<s, y>>, c>> : s \in who \ unchanged}
<1> DEFINE r == [pc |-> "lock", kind |-> "assign", who |-> who, seat |-> seats, seen |-> seen,
           leave |-> {}, credit |-> Cardinality(unchanged), left |-> {}, lock |-> {c}, held |-> {}]
<1>1. y \in 1 .. 2 /\ who \subseteq Student
  BY YearAssumption, SelectionAssumption
<1>2. unchanged \subseteq who /\ \A s \in who : <<s, y>> \in Slot
  BY <1>1 DEF Slot
<1>3. Cardinality(unchanged) \in Nat
  <2>1. IsFiniteSet(unchanged)
    BY <1>1, <1>2, CapacityAssumption, FS_Subset
  <2> QED
    BY <2>1, FS_CardinalityType
<1>4. seen \in [Student -> Row] /\ \A s \in who : seen[s] = row[<<s, y>>]
  BY <1>0, <1>1, <1>2 DEF EnrolTypeOK, Row, NoRow, Status
<1>5. \A x \in seats : \E s \in who : x = <<<<s, y>>, c>>
  OBVIOUS
<1> HIDE DEF unchanged, seen, seats, y
<1>6. seats \subseteq Slot \X Class
  <2>1. \A s \in who : <<<<s, y>>, c>> \in Slot \X Class
    BY <1>2
  <2> QED
    BY <1>5, <2>1
<1>7. r \in Request
  BY <1>1, <1>3, <1>4, <1>6 DEF Request
<1>8. \A x \in seats : x[1][1] \in who /\ x[1] = <<x[1][1], y>>
  BY <1>5
<1>9. \A x \in seats : seen[x[1][1]].class # NoClass => Enrolled(x[1])
  BY <1>4, <1>8 DEF Enrolled
<1>10. clerk' = [clerk EXCEPT ![k] = r] /\ row' = row /\ exits' = exits /\ stray' = stray
  BY DEF Assign, unchanged, seen, seats, y
<1>11. asked' \in 0 .. MaxRequests
  BY <1>0, RequestAssumption DEF Assign, Ask, EnrolTypeOK
<1>12. stray' \in SUBSET Class
  BY <1>0, <1>10 DEF EnrolTypeOK
<1>13. r.pc = "lock" /\ r.kind = "assign" /\ r.held = {} /\ r.seat = seats /\ r.seen = seen
  OBVIOUS
<1> HIDE DEF r
<1> QED
  BY <1>7, <1>9, <1>13, <1>10, <1>11, <1>12, OwnStep

\* The reads of a promotion.
LEMMA PromoteStep ==
  ASSUME EnrolInv, NEW k \in Clerk, NEW m \in Mapping, NEW who \in Selection, Promote(k, m, who)
  PROVE  EnrolInv'
<1>0. EnrolTypeOK
  BY DEF EnrolInv
<1> DEFINE goesTo(s) == m[row[<<s, 1>>].class]
<1> DEFINE stays == {s \in who : ~Enrolled(<<s, 2>>)}
<1> DEFINE moving == Moving(m, stays)
<1> DEFINE seats == {<<<<s, 2>>, goesTo(s)>> : s \in moving}
<1> DEFINE leave == {s \in stays : goesTo(s) = Leaves /\ s \notin exits}
<1> DEFINE left == {s \in stays : goesTo(s) = NoClass}
<1> DEFINE lock == {goesTo(s) : s \in moving}
<1> DEFINE r == [pc |-> IF moving = {} THEN "count" ELSE "lock", kind |-> "promote", who |-> who,
                 seat |-> seats, seen |-> NoRequest.seen, leave |-> leave, credit |-> 0,
                 left |-> left, lock |-> lock, held |-> {}]
<1>1. who \subseteq Student /\ \A s \in who : <<s, 1>> \in Slot /\ <<s, 2>> \in Slot
  BY SelectionAssumption DEF Slot
<1>2. \A s \in who : goesTo(s) \in Class \cup {NoClass, Leaves}
  <2>1. \A s \in who : row[<<s, 1>>].class \in Class
    BY <1>0, <1>1 DEF Promote, Enrolled, EnrolTypeOK, Row, NoClass
  <2> QED
    BY <2>1, MappingAssumption DEF NoClass, Leaves
<1>3. stays \subseteq who /\ leave \subseteq who /\ left \subseteq who /\ moving = {s \in stays : goesTo(s) \in Class}
  BY DEF Moving
<1>4. \A x \in seats : \E s \in moving : x = <<<<s, 2>>, goesTo(s)>>
  OBVIOUS
<1>5. lock \subseteq Class
  BY <1>3
<1>6. \A s \in stays : s \in moving \/ s \in left \/ s \in leave \cup exits
  BY <1>2, <1>3
<1>7. \A s \in moving : <<s, 2>> \in {x[1] : x \in seats}
  <2> SUFFICES ASSUME NEW s \in moving PROVE <<s, 2>> \in {x[1] : x \in seats}
    OBVIOUS
  <2> DEFINE x == <<<<s, 2>>, goesTo(s)>>
  <2>1. x \in seats /\ x[1] = <<s, 2>>
    OBVIOUS
  <2> HIDE DEF x, seats
  <2> QED
    BY <2>1
<1>8. \A s \in who : \/ s \in left \/ Enrolled(<<s, 2>>)
                     \/ <<s, 2>> \in {x[1] : x \in seats} \/ s \in leave \cup exits
  BY <1>6, <1>7
<1>9. clerk' = [clerk EXCEPT ![k] = r] /\ row' = row /\ exits' = exits /\ stray' = stray
  BY DEF Promote
<1>10. asked' \in 0 .. MaxRequests
  BY <1>0, RequestAssumption DEF Promote, Ask, EnrolTypeOK
<1>11. stray' \in SUBSET Class
  BY <1>0, <1>9 DEF EnrolTypeOK
<1>12. seats \subseteq Slot \X Class
  <2>1. \A s \in moving : <<<<s, 2>>, goesTo(s)>> \in Slot \X Class
    BY <1>1, <1>3
  <2> QED
    BY <1>4, <2>1
<1> HIDE DEF moving, seats, leave, left, lock
<1>13. NoRequest.seen \in [Student -> Row] /\ \A s \in Student : NoRequest.seen[s].class = NoClass
  BY DEF NoRequest, Row, NoRow, Status
<1>14. r \in Request
  BY <1>1, <1>3, <1>5, <1>12, <1>13 DEF Request
<1>15. \A x \in seats : NoRequest.seen[x[1][1]].class = NoClass
  <2>1. ASSUME NEW x \in seats PROVE x[1][1] \in Student
    <3>1. PICK s \in moving : x = <<<<s, 2>>, goesTo(s)>>
      BY <1>4
    <3>2. x[1] = <<s, 2>> /\ s \in Student
      BY <1>1, <1>3, <3>1
    <3> QED
      BY <3>2
  <2> QED
    BY <1>13, <2>1
<1>16. /\ r.pc # "write" /\ r.held = {} /\ r.who = who /\ r.seat = seats
       /\ r.seen = NoRequest.seen /\ r.leave = leave /\ r.left = left
  OBVIOUS
<1> HIDE DEF r
<1> QED
  BY <1>8, <1>9, <1>10, <1>11, <1>14, <1>15, <1>16, OwnStep

\* A class is locked once those before it are.
LEMMA LockStep ==
  ASSUME EnrolInv, NEW k \in Clerk, LockClass(k) PROVE EnrolInv'
<1>0. EnrolTypeOK /\ LocksInOrder /\ SeenRowsStay /\ EachHasAFuture
  BY DEF EnrolInv
<1>1. PICK c \in FirstOf(clerk[k].lock) :
        clerk' = [clerk EXCEPT
          ![k].lock = @ \ {c}, ![k].held = @ \cup {c},
          ![k].pc = IF clerk[k].lock = {c} THEN "count" ELSE "lock"]
  BY DEF LockClass
<1> DEFINE r == [clerk[k] EXCEPT
          !.lock = @ \ {c}, !.held = @ \cup {c},
          !.pc = IF clerk[k].lock = {c} THEN "count" ELSE "lock"]
<1>2. clerk[k] \in Request /\ clerk[k].pc = "lock" /\ c \in Class
  BY <1>0 DEF EnrolTypeOK, LockClass, FirstOf, Request
<1>3. r \in Request
  BY <1>2 DEF Request
<1>4. clerk' = [clerk EXCEPT ![k] = r]
  BY <1>0, <1>1 DEF EnrolTypeOK
<1>5. /\ r.seat = clerk[k].seat /\ r.seen = clerk[k].seen /\ r.kind = clerk[k].kind
      /\ r.who = clerk[k].who /\ r.left = clerk[k].left /\ r.leave = clerk[k].leave
      /\ r.held = clerk[k].held \cup {c} /\ r.lock = clerk[k].lock \ {c} /\ r.pc # "write"
  BY <1>2 DEF Request
<1> HIDE DEF r
<1>6. \A h \in r.held, d \in r.lock : h < d
  <2>1. clerk[k].lock \subseteq Nat /\ \A d \in clerk[k].lock : c <= d
    BY <1>2, ClassAssumption DEF Request, FirstOf
  <2>2. \A h \in clerk[k].held, d \in clerk[k].lock : h < d
    BY <1>0, <1>2 DEF LocksInOrder
  <2> QED
    BY <1>2, <1>5, <2>1, <2>2, ClassAssumption
<1>7. /\ \A x \in r.seat : r.seen[x[1][1]].class # NoClass => Enrolled(x[1])
      /\ r.kind = "promote" =>
           \A s \in r.who : \/ s \in r.left \/ Enrolled(<<s, 2>>)
                            \/ <<s, 2>> \in {x[1] : x \in r.seat} \/ s \in r.leave \cup exits
  BY <1>0, <1>2, <1>5 DEF SeenRowsStay, EachHasAFuture, Seats
<1>8. row' = row /\ exits' = exits /\ stray' \in SUBSET Class /\ asked' \in 0 .. MaxRequests
  BY <1>0 DEF LockClass, EnrolTypeOK
<1> QED
  BY <1>3, <1>4, <1>5, <1>6, <1>7, <1>8, OwnStep

\* A call goes on to write when everybody fits and nobody is undecided.
LEMMA CountStep ==
  ASSUME EnrolInv, NEW k \in Clerk, Count(k) PROVE EnrolInv'
<1>0. EnrolTypeOK /\ SeenRowsStay /\ EachHasAFuture
  BY DEF EnrolInv
<1> DEFINE r == [clerk[k] EXCEPT !.pc = "write"]
<1>1. clerk[k] \in Request /\ clerk[k].pc = "count" /\ clerk[k].left = {}
  BY <1>0 DEF EnrolTypeOK, Count
<1>2. r \in Request /\ clerk' = [clerk EXCEPT ![k] = r]
  BY <1>0, <1>1 DEF EnrolTypeOK, Count, Request
<1>3. /\ r.seat = clerk[k].seat /\ r.seen = clerk[k].seen /\ r.kind = clerk[k].kind
      /\ r.who = clerk[k].who /\ r.left = clerk[k].left /\ r.leave = clerk[k].leave
      /\ r.pc = "write"
  BY <1>1 DEF Request
<1> HIDE DEF r
<1>4. /\ \A x \in r.seat : r.seen[x[1][1]].class # NoClass => Enrolled(x[1])
      /\ r.kind = "promote" =>
           \A s \in r.who : \/ s \in r.left \/ Enrolled(<<s, 2>>)
                            \/ <<s, 2>> \in {x[1] : x \in r.seat} \/ s \in r.leave \cup exits
  BY <1>0, <1>1, <1>3 DEF SeenRowsStay, EachHasAFuture, Seats
<1>5. row' = row /\ exits' = exits /\ stray' \in SUBSET Class /\ asked' \in 0 .. MaxRequests
  BY <1>0 DEF Count, EnrolTypeOK
<1> QED
  BY <1>1, <1>2, <1>3, <1>4, <1>5, OwnStep

\* Whatever else is known survives a step after which no enrollment is gone.
LEMMA OthersStep ==
  ASSUME EnrolInv, EnrolTypeOK', EnrollmentsStay, exits \subseteq exits',
         \A o \in Clerk : clerk'[o] \in {clerk[o], NoRequest}
  PROVE  EnrolInv'
<1>0. EnrolTypeOK /\ LocksInOrder /\ SeenRowsStay /\ EachHasAFuture /\ NobodyLeftAtWrite
  BY DEF EnrolInv
<1>1. \A o \in Clerk : clerk'[o].pc # "idle" => clerk'[o] = clerk[o]
  BY NoRequestFields
<1>2. LocksInOrder' /\ NobodyLeftAtWrite'
  BY <1>0, <1>1 DEF LocksInOrder, NobodyLeftAtWrite
<1>3. SeenRowsStay'
  <2>1. ASSUME NEW o \in Clerk, NEW x \in clerk'[o].seat, clerk'[o].seen[x[1][1]].class # NoClass
        PROVE  Enrolled(x[1])'
    <3>1. clerk'[o] = clerk[o]
      BY <2>1, NoRequestFields
    <3>2. Enrolled(x[1])
      BY <1>0, <2>1, <3>1 DEF SeenRowsStay
    <3>3. x[1] \in Slot
      BY <1>0, <2>1, <3>1 DEF EnrolTypeOK, Request
    <3> QED
      BY <3>2, <3>3 DEF EnrollmentsStay
  <2> QED
    BY <2>1 DEF SeenRowsStay
<1>4. EachHasAFuture'
  <2>1. ASSUME NEW o \in Clerk, clerk'[o].pc # "idle", clerk'[o].kind = "promote",
               NEW s \in clerk'[o].who
        PROVE  \/ s \in clerk'[o].left \/ Enrolled(<<s, 2>>)'
               \/ <<s, 2>> \in Seats(o)' \/ s \in clerk'[o].leave \cup exits'
    <3>1. clerk'[o] = clerk[o] /\ Seats(o)' = Seats(o)
      BY <1>1, <2>1 DEF Seats
    <3>2. <<s, 2>> \in Slot
      BY <1>0, <2>1, <3>1 DEF EnrolTypeOK, Request, Slot
    <3>3. \/ s \in clerk[o].left \/ Enrolled(<<s, 2>>)
          \/ <<s, 2>> \in Seats(o) \/ s \in clerk[o].leave \cup exits
      BY <1>0, <2>1, <3>1 DEF EachHasAFuture
    <3> QED
      BY <3>1, <3>2, <3>3 DEF EnrollmentsStay
  <2> QED
    BY <2>1 DEF EachHasAFuture
<1> QED
  BY <1>2, <1>3, <1>4 DEF EnrolInv

\* What a call writes: every student it seats has a row in a class.
LEMMA WrittenRows ==
  ASSUME EnrolInv, NEW k \in Clerk, Write(k)
  PROVE  /\ row' \in [Slot -> Row] /\ EnrollmentsStay
         /\ \A p \in Seats(k) : row'[p].class \in Class
<1>0. EnrolTypeOK /\ SeenRowsStay
  BY DEF EnrolInv
<1>1. clerk[k] \in Request /\ clerk[k].seat \subseteq Slot \X Class
  BY <1>0 DEF EnrolTypeOK, Request
<1>2. ASSUME NEW p \in Seats(k)
      PROVE  /\ p \in Slot /\ Seat(k, p) \in Class
             /\ clerk[k].seen[p[1]].class # NoClass => Enrolled(p)
  <2>1. PICK x \in clerk[k].seat : x[1] = p
    BY <1>2 DEF Seats
  <2>2. x = <<p, x[2]>> /\ x[2] \in Class /\ p \in Slot
    BY <1>1, <2>1
  <2>3. \E c \in Class : <<p, c>> \in clerk[k].seat
    BY <2>2
  <2> QED
    BY <1>0, <2>1, <2>2, <2>3 DEF Seat, SeenRowsStay
<1>3. \A p \in Slot :
        row'[p] = IF p \in Seats(k) THEN Placed(clerk[k].seen[p[1]], row[p], Seat(k, p)) ELSE row[p]
  BY DEF Write
<1>4. ASSUME NEW p \in Seats(k) PROVE row'[p] \in Row /\ row'[p].class \in Class
  <2>1. p \in Slot /\ row[p] \in Row
    BY <1>0, <1>2 DEF EnrolTypeOK
  <2>2. row'[p] = Placed(clerk[k].seen[p[1]], row[p], Seat(k, p))
    BY <1>3, <2>1
  <2>3. clerk[k].seen[p[1]].class = NoClass \/ row[p].class \in Class
    BY <1>2, <2>1 DEF Enrolled, Row
  <2> QED
    BY <1>2, <2>1, <2>2, <2>3 DEF Placed, Row, Status
<1>5. row' \in [Slot -> Row]
  <2>1. \A p \in Slot : row'[p] \in Row
    BY <1>0, <1>3, <1>4 DEF EnrolTypeOK
  <2>2. row' = [p \in Slot |-> row'[p]]
    BY DEF Write
  <2> QED
    BY <2>1, <2>2
<1>6. EnrollmentsStay
  <2>1. NoClass \notin Class
    BY ClassAssumption DEF NoClass
  <2> QED
    BY <1>3, <1>4, <2>1 DEF EnrollmentsStay, Enrolled
<1> QED
  BY <1>4, <1>5, <1>6

\* A write keeps what is known of the others.
LEMMA WriteStep ==
  ASSUME EnrolInv, NEW k \in Clerk, Write(k) PROVE EnrolInv'
<1>0. EnrolTypeOK
  BY DEF EnrolInv
<1>1. clerk[k].seat \subseteq Slot \X Class /\ clerk[k].leave \subseteq Student
  BY <1>0 DEF EnrolTypeOK, Request
<1>2. clerk' = [clerk EXCEPT ![k] = NoRequest] /\ exits' = exits \cup clerk[k].leave /\ asked' = asked
  BY DEF Write
<1>3. stray' \subseteq Class
  <2>1. {row'[p].class : p \in {p \in Seats(k) : row'[p].class # Seat(k, p)}} \subseteq Class
    BY WrittenRows
  <2>2. {x[2] : x \in clerk[k].seat} \subseteq Class
    BY <1>1
  <2> QED
    BY <1>0, <2>1, <2>2 DEF Write, EnrolTypeOK
<1>4. EnrolTypeOK'
  BY <1>0, <1>1, <1>2, <1>3, WrittenRows, NoRequestFields DEF EnrolTypeOK
<1>5. \A o \in Clerk : clerk'[o] \in {clerk[o], NoRequest}
  BY <1>0, <1>2 DEF EnrolTypeOK
<1> QED
  BY <1>2, <1>4, <1>5, WrittenRows, OthersStep

\* The enrollments written one at a time.
LEMMA SingleStep ==
  ASSUME EnrolInv,
         \/ \E p \in Slot, c \in Class : Create(p, c)
         \/ \E p \in Slot, status \in Status : SetStatus(p, status)
  PROVE  EnrolInv'
<1>0. EnrolTypeOK
  BY DEF EnrolInv
<1>1. asked' \in 0 .. MaxRequests /\ clerk' = clerk /\ exits' = exits
  BY <1>0, RequestAssumption DEF Create, SetStatus, Ask, EnrolTypeOK
<1>2. row' \in [Slot -> Row] /\ EnrollmentsStay /\ stray' \subseteq Class
  <2>1. ASSUME NEW p \in Slot, NEW c \in Class, Create(p, c)
        PROVE  row' \in [Slot -> Row] /\ EnrollmentsStay /\ stray' \subseteq Class
    <3>1. [class |-> c, status |-> "ACTIVE"] \in Row /\ c # NoClass
      BY ClassAssumption DEF Row, Status, NoClass
    <3> QED
      BY <1>0, <2>1, <3>1 DEF Create, EnrolTypeOK, EnrollmentsStay, Enrolled
  <2>2. ASSUME NEW p \in Slot, NEW status \in Status, SetStatus(p, status)
        PROVE  row' \in [Slot -> Row] /\ EnrollmentsStay /\ stray' \subseteq Class
    <3>1. row[p] \in Row /\ row[p].class \in Class
      BY <1>0, <2>2 DEF SetStatus, EnrolTypeOK, Enrolled, Row
    <3>2. [row[p] EXCEPT !.status = status] \in Row
      BY <3>1 DEF Row
    <3>3. row' = [row EXCEPT ![p] = [row[p] EXCEPT !.status = status]]
      BY <1>0, <2>2 DEF SetStatus, EnrolTypeOK
    <3>4. [row[p] EXCEPT !.status = status].class = row[p].class
      BY <3>1 DEF Row
    <3>5. EnrollmentsStay
      BY <1>0, <3>3, <3>4 DEF EnrolTypeOK, EnrollmentsStay, Enrolled
    <3> QED
      BY <1>0, <2>2, <3>1, <3>2, <3>3, <3>5 DEF SetStatus, EnrolTypeOK
  <2> QED
    BY <2>1, <2>2
<1>3. EnrolTypeOK'
  BY <1>0, <1>1, <1>2 DEF EnrolTypeOK
<1> QED
  BY <1>1, <1>2, <1>3, OthersStep

\* Every step keeps the invariant.
LEMMA StepEnrol == EnrolInv /\ [EnrolNext]_enrolVars => EnrolInv'
<1> SUFFICES ASSUME EnrolInv, [EnrolNext]_enrolVars PROVE EnrolInv'
  OBVIOUS
<1>1. CASE UNCHANGED enrolVars
  BY <1>1 DEF enrolVars, EnrolInv, EnrolTypeOK, LocksInOrder, SeenRowsStay, EachHasAFuture,
     NobodyLeftAtWrite, Enrolled, Seats
<1>2. ASSUME NEW k \in Clerk, LockClass(k) \/ Count(k) \/ Refuse(k) \/ Conflict(k) \/ Write(k)
      PROVE  EnrolInv'
  BY <1>2, LockStep, CountStep, WriteStep, EndStep DEF Refuse, Conflict
<1>3. ASSUME NEW k \in Clerk, NEW who \in Selection,
             \/ \E c \in Class : Assign(k, c, who)
             \/ \E m \in Mapping : Promote(k, m, who)
      PROVE  EnrolInv'
  BY <1>3, AssignStep, PromoteStep
<1>4. CASE \/ \E p \in Slot, c \in Class : Create(p, c)
           \/ \E p \in Slot, status \in Status : SetStatus(p, status)
  BY <1>4, SingleStep
<1> QED
  BY <1>1, <1>2, <1>3, <1>4 DEF EnrolNext

\* Of two calls that wait, one waits for a class after all those the other
\* one holds.
LEMMA NoCircle == EnrolInv => NoLockCircle
<1> SUFFICES ASSUME EnrolInv, NEW k \in Clerk, NEW o \in Clerk, WaitsFor(k, o), WaitsFor(o, k)
             PROVE  FALSE
  BY DEF NoLockCircle
<1>1. clerk[k] \in Request /\ clerk[o] \in Request
  BY DEF EnrolInv, EnrolTypeOK
<1>2. PICK x : x \in clerk[k].lock /\ x \in clerk[o].held
  BY DEF WaitsFor, FirstOf
<1>3. PICK y : y \in clerk[o].lock /\ y \in clerk[k].held
  BY DEF WaitsFor, FirstOf
<1>4. y < x /\ x < y
  BY <1>2, <1>3 DEF WaitsFor, EnrolInv, LocksInOrder
<1>5. x \in Nat /\ y \in Nat
  BY <1>1, <1>2, <1>3, ClassAssumption DEF Request
<1> QED
  BY <1>4, <1>5

\* What a promotion that writes leaves behind.
LEMMA PromotionWrites ==
  ASSUME EnrolInv, EnrolNext, NEW k \in Clerk, Writes(k, "promote"), NEW s \in clerk[k].who
  PROVE  row'[<<s, 2>>].class # NoClass \/ s \in exits'
<1>0. EnrolTypeOK
  BY DEF EnrolInv
<1>1. /\ clerk[k].pc = "write" /\ clerk[k].kind = "promote"
      /\ ~Duplicate(k) /\ clerk'[k].pc = "idle"
  BY DEF Writes
<1>2. Write(k)
  <2>1. clerk' # clerk
    BY <1>1
  <2>2. ASSUME NEW o \in Clerk, NEW r, clerk' = [clerk EXCEPT ![o] = r] PROVE o = k
    BY <1>0, <1>1, <2>2 DEF EnrolTypeOK
  <2>3. ASSUME NEW o \in Clerk, NEW c \in Class, NEW who \in Selection, Assign(o, c, who) PROVE FALSE
    BY <1>1, <2>2, <2>3 DEF Assign
  <2>4. ASSUME NEW o \in Clerk, NEW m \in Mapping, NEW who \in Selection, Promote(o, m, who) PROVE FALSE
    BY <1>1, <2>2, <2>4 DEF Promote
  <2>5. ASSUME NEW o \in Clerk, LockClass(o) \/ Count(o) PROVE FALSE
    <3>1. \E r : clerk' = [clerk EXCEPT ![o] = r]
      BY <1>0, <2>5 DEF LockClass, Count, EnrolTypeOK
    <3> QED
      BY <1>1, <2>2, <2>5, <3>1 DEF LockClass, Count
  <2>6. ASSUME NEW o \in Clerk, Refuse(o) \/ Conflict(o) PROVE FALSE
    BY <1>1, <2>2, <2>6 DEF Refuse, Conflict, Reject
  <2>7. ASSUME NEW o \in Clerk, Write(o) PROVE Write(k)
    BY <2>2, <2>7 DEF Write
  <2>8. ASSUME \/ \E p \in Slot, c \in Class : Create(p, c)
               \/ \E p \in Slot, status \in Status : SetStatus(p, status)
        PROVE  FALSE
    BY <2>1, <2>8 DEF Create, SetStatus
  <2> QED
    BY <2>3, <2>4, <2>5, <2>6, <2>7, <2>8 DEF EnrolNext
<1>3. s \in Student /\ <<s, 2>> \in Slot
  BY <1>0 DEF EnrolTypeOK, Request, Slot
<1>4. Enrolled(<<s, 2>>) \/ <<s, 2>> \in Seats(k) \/ s \in clerk[k].leave \cup exits
  BY <1>1 DEF EnrolInv, EachHasAFuture, NobodyLeftAtWrite
<1>5. Enrolled(<<s, 2>>)' \/ s \in exits'
  <2>1. NoClass \notin Class
    BY ClassAssumption DEF NoClass
  <2>2. CASE Enrolled(<<s, 2>>)
    BY <1>2, <1>3, <2>2, WrittenRows DEF EnrollmentsStay
  <2>3. CASE <<s, 2>> \in Seats(k)
    BY <1>2, <2>1, <2>3, WrittenRows DEF Enrolled
  <2>4. CASE s \in clerk[k].leave \cup exits
    BY <1>2, <2>4 DEF Write
  <2> QED
    BY <1>4, <2>2, <2>3, <2>4
<1> QED
  BY <1>5 DEF Enrolled

\* The rows of enrollments, exits and requests are what they should be,
\* whatever bulk calls and single writes overlap.
THEOREM EnrolTypeCorrect == EnrolSpec => []EnrolTypeOK
<1>1. EnrolInv => EnrolTypeOK
  BY DEF EnrolInv
<1> QED
  BY <1>1, InitEnrol, StepEnrol, PTL DEF EnrolSpec

\* Bulk calls that lock several classes never wait for each other.
THEOREM BulkCallsNeverDeadlock == EnrolSpec => []NoLockCircle
  BY NoCircle, InitEnrol, StepEnrol, PTL DEF EnrolSpec

\* After a promotion each selected student has an enrollment in the new
\* year or an exit, whatever was written between its reads and its writes.
THEOREM PromotionForgetsNobody == EnrolSpec => NobodyForgotten
<1>1. ASSUME EnrolInv, [EnrolNext]_enrolVars
      PROVE  [\A k \in Clerk : Writes(k, "promote") =>
                \A s \in clerk[k].who : row'[<<s, 2>>].class # NoClass \/ s \in exits']_enrolVars
  BY <1>1, PromotionWrites
<1> QED
  BY <1>1, InitEnrol, StepEnrol, PTL DEF EnrolSpec, NobodyForgotten

----------------------------------------------------------------------------
(* The capacity of classes.                                                *)
(*                                                                         *)
(* A class row is locked by one call at a time, and a call locks every     *)
(* class it seats somebody in before it counts.  So what a call counted is *)
(* still true when it writes, except for classes where somebody was seated *)
(* by a write that does not count: those are the classes in stray.         *)

\* The rows a call is about to seat in a class.
SeatedBy(k, c) == {p \in Slot : <<p, c>> \in clerk[k].seat}
Targets(k) == {x[2] : x \in clerk[k].seat}

\* A class is held by one call.
OneHolder ==
  \A k, o \in Clerk : k # o => clerk[k].held \cap clerk[o].held = {}

\* A call seats people in classes it holds, once it counts.
TargetsLocked ==
  \A k \in Clerk :
    /\ Targets(k) \subseteq clerk[k].held \cup clerk[k].lock
    /\ clerk[k].pc # "lock" => clerk[k].lock = {}

\* What was counted is still true when the call writes.
CountStands ==
  \A k \in Clerk : clerk[k].pc = "write" /\ clerk[k].credit = 0 =>
    \A c \in Targets(k) \ stray :
      Cardinality(Seated(c)) + CountOf(clerk[k].seat, c) <= Capacity[c]

CapacityInv ==
  EnrolInv /\ OneHolder /\ TargetsLocked /\ CountStands /\ CountedClassesFit

\* There are finitely many rows.
LEMMA FiniteSlots ==
  IsFiniteSet(Slot)
<1>1. IsFiniteSet(1 .. 2)
  <2>1. 1 \in Int /\ 2 \in Int
    OBVIOUS
  <2> QED
    BY <2>1, FS_Interval
<1> QED
  BY <1>1, CapacityAssumption, FS_Product DEF Slot

\* Cardinalities of rows seated and to be seated are numbers.
LEMMA Numbers ==
  ASSUME EnrolTypeOK, NEW c \in Class
  PROVE  /\ IsFiniteSet(Seated(c)) /\ Cardinality(Seated(c)) \in Nat
         /\ \A k \in Clerk : CountOf(clerk[k].seat, c) \in Nat /\ IsFiniteSet(clerk[k].seat)
         /\ Capacity[c] \in Nat
<1>1. Seated(c) \subseteq Slot
  BY DEF Seated
<1>2. IsFiniteSet(Slot \X Class)
  BY FiniteSlots, ClassAssumption, FS_Product
<1>3. ASSUME NEW k \in Clerk PROVE CountOf(clerk[k].seat, c) \in Nat /\ IsFiniteSet(clerk[k].seat)
  <2>1. clerk[k].seat \subseteq Slot \X Class
    BY DEF EnrolTypeOK, Request
  <2>2. IsFiniteSet(clerk[k].seat)
    BY <1>2, <2>1, FS_Subset
  <2>3. IsFiniteSet({x \in clerk[k].seat : x[2] = c})
    BY <2>2, FS_Subset
  <2> QED
    BY <2>2, <2>3, FS_CardinalityType DEF CountOf
<1>4. IsFiniteSet(Seated(c)) /\ Cardinality(Seated(c)) \in Nat
  BY <1>1, FiniteSlots, FS_Subset, FS_CardinalityType
<1> QED
  BY <1>3, <1>4, CapacityAssumption

\* No more rows than were counted are seated.
LEMMA SeatedByCount ==
  ASSUME EnrolTypeOK, NEW k \in Clerk, NEW c \in Class
  PROVE  IsFiniteSet(SeatedBy(k, c)) /\ Cardinality(SeatedBy(k, c)) <= CountOf(clerk[k].seat, c)
<1> DEFINE S == {x \in clerk[k].seat : x[2] = c}
<1> DEFINE T == SeatedBy(k, c)
<1> DEFINE f == [x \in S |-> x[1]]
<1>1. IsFiniteSet(S)
  BY Numbers, FS_Subset
<1>2. clerk[k].seat \subseteq Slot \X Class
  BY DEF EnrolTypeOK, Request
<1>3. f \in Surjection(S, T)
  <2>1. \A x \in S : x = <<x[1], c>> /\ x[1] \in Slot
    BY <1>2
  <2>2. \A x \in S : f[x] \in T
    BY <2>1 DEF SeatedBy
  <2>3. \A p \in T : <<p, c>> \in S /\ f[<<p, c>>] = p
    BY DEF SeatedBy
  <2> HIDE DEF S, T
  <2>4. f \in [S -> T]
    BY <2>2
  <2>5. \A p \in T : \E x \in S : f[x] = p
    BY <2>3
  <2> QED
    BY <2>4, <2>5 DEF Surjection
<1> HIDE DEF f, S, T
<1>4. IsFiniteSet(T) /\ Cardinality(T) <= Cardinality(S)
  BY <1>1, <1>3, FS_Surjection
<1> QED
  BY <1>4 DEF S, T, CountOf

\* A clerk without a request holds and seats nothing.
LEMMA NothingHeld ==
  /\ NoRequest.held = {} /\ NoRequest.seat = {} /\ NoRequest.lock = {}
  /\ NoRequest.pc = "idle"
  BY DEF NoRequest

\* At first the classes that are too full are in stray.
LEMMA InitCapacity == EnrolInit => CapacityInv
<1> SUFFICES ASSUME EnrolInit PROVE CapacityInv
  OBVIOUS
<1>1. EnrolInv
  BY InitEnrol
<1>2. \A k \in Clerk : clerk[k] = NoRequest
  BY DEF EnrolInit
<1>3. OneHolder /\ TargetsLocked /\ CountStands
  BY <1>2, NothingHeld DEF OneHolder, TargetsLocked, CountStands, Targets
<1>4. CountedClassesFit
  <2>1. ASSUME NEW c \in Class \ stray PROVE Cardinality(Seated(c)) <= Capacity[c]
    <3>1. Cardinality(Seated(c)) \in Nat /\ Capacity[c] \in Nat
      BY <1>1, Numbers DEF EnrolInv
    <3>2. ~(Cardinality(Seated(c)) > Capacity[c])
      BY DEF EnrolInit
    <3> QED
      BY <3>1, <3>2
  <2> QED
    BY <2>1 DEF CountedClassesFit
<1> QED
  BY <1>1, <1>3, <1>4 DEF CapacityInv

\* Fewer rows are seated: what was counted still fits.
LEMMA FewerSeated ==
  ASSUME EnrolTypeOK, NEW c \in Class, Seated(c)' \subseteq Seated(c)
  PROVE  Cardinality(Seated(c)') <= Cardinality(Seated(c)) /\ Cardinality(Seated(c)') \in Nat
<1>1. IsFiniteSet(Seated(c))
  BY Numbers
<1>2. IsFiniteSet(Seated(c)') /\ Cardinality(Seated(c)') <= Cardinality(Seated(c))
  BY <1>1, FS_Subset
<1> QED
  BY <1>2, FS_CardinalityType

\* A step that seats nobody in a counted class and ends some requests.
LEMMA QuietStep ==
  ASSUME CapacityInv, EnrolInv', stray \subseteq stray',
         \A c \in Class \ stray' : Seated(c)' \subseteq Seated(c),
         \A o \in Clerk : clerk'[o] \in {clerk[o], NoRequest}
  PROVE  CapacityInv'
<1>0. EnrolTypeOK /\ OneHolder /\ TargetsLocked /\ CountStands /\ CountedClassesFit
  BY DEF CapacityInv, EnrolInv
<1>1. OneHolder'
  BY <1>0, NothingHeld DEF OneHolder
<1>2. TargetsLocked'
  BY <1>0, NothingHeld DEF TargetsLocked, Targets
<1>3. ASSUME NEW c \in Class \ stray'
      PROVE  /\ Cardinality(Seated(c)') <= Cardinality(Seated(c))
             /\ Cardinality(Seated(c)') \in Nat /\ Cardinality(Seated(c)) \in Nat
             /\ Capacity[c] \in Nat /\ c \in Class \ stray
  BY <1>0, FewerSeated, Numbers
<1>4. CountStands'
  <2>1. ASSUME NEW k \in Clerk, clerk'[k].pc = "write", clerk'[k].credit = 0,
               NEW c \in Targets(k)' \ stray'
        PROVE  Cardinality(Seated(c)') + CountOf(clerk'[k].seat, c) <= Capacity[c]
    <3>1. clerk'[k] = clerk[k]
      BY <2>1, NothingHeld
    <3>2. c \in Targets(k) /\ c \in Class
      BY <1>0, <3>1 DEF Targets, EnrolTypeOK, Request
    <3>3. Cardinality(Seated(c)) + CountOf(clerk[k].seat, c) <= Capacity[c]
      BY <1>0, <1>3, <2>1, <3>1, <3>2 DEF CountStands
    <3>4. CountOf(clerk[k].seat, c) \in Nat
      BY <1>0, <3>2, Numbers
    <3> QED
      BY <1>3, <3>1, <3>2, <3>3, <3>4
  <2> QED
    BY <2>1 DEF CountStands, CountOf
<1>5. CountedClassesFit'
  BY <1>0, <1>3 DEF CountedClassesFit
<1> QED
  BY <1>1, <1>2, <1>4, <1>5 DEF CapacityInv

\* A step of one call that writes nothing.
LEMMA OwnCapacityStep ==
  ASSUME CapacityInv, EnrolInv', NEW k \in Clerk, NEW r \in Request,
         clerk' = [clerk EXCEPT ![k] = r], row' = row, stray' = stray,
         \A o \in Clerk : o # k => r.held \cap clerk[o].held = {},
         {x[2] : x \in r.seat} \subseteq r.held \cup r.lock,
         r.pc # "lock" => r.lock = {},
         r.pc = "write" /\ r.credit = 0 =>
           \A c \in {x[2] : x \in r.seat} \ stray :
             Cardinality(Seated(c)) + CountOf(r.seat, c) <= Capacity[c]
  PROVE  CapacityInv'
<1>0. EnrolTypeOK /\ OneHolder /\ TargetsLocked /\ CountStands /\ CountedClassesFit
  BY DEF CapacityInv, EnrolInv
<1>1. \A o \in Clerk : clerk'[o] = IF o = k THEN r ELSE clerk[o]
  BY <1>0 DEF EnrolTypeOK
<1>2. OneHolder'
  BY <1>0, <1>1 DEF OneHolder
<1>3. TargetsLocked'
  BY <1>0, <1>1 DEF TargetsLocked, Targets
<1>4. \A c \in Class : Seated(c)' = Seated(c)
  BY DEF Seated, ActiveIn
<1>5. CountStands'
  <2>1. ASSUME NEW o \in Clerk, clerk'[o].pc = "write", clerk'[o].credit = 0,
               NEW c \in Targets(o)' \ stray'
        PROVE  Cardinality(Seated(c)') + CountOf(clerk'[o].seat, c) <= Capacity[c]
    <3>1. c \in Class
      BY <1>0, <1>1 DEF Targets, EnrolTypeOK, Request
    <3>2. CASE o = k
      BY <1>1, <1>4, <2>1, <3>1, <3>2 DEF Targets
    <3>3. CASE o # k
      BY <1>0, <1>1, <1>4, <2>1, <3>1, <3>3 DEF Targets, CountStands
    <3> QED
      BY <3>2, <3>3
  <2> QED
    BY <2>1 DEF CountStands, CountOf
<1>6. CountedClassesFit'
  BY <1>0, <1>4 DEF CountedClassesFit
<1> QED
  BY <1>2, <1>3, <1>5, <1>6 DEF CapacityInv

\* The reads of a bulk call: it holds nothing yet, and will lock its targets.
LEMMA ReadStep ==
  ASSUME CapacityInv, EnrolInv', NEW k \in Clerk,
         \/ \E c \in Class, who \in Selection : Assign(k, c, who)
         \/ \E m \in Mapping, who \in Selection : Promote(k, m, who)
  PROVE  CapacityInv'
<1>0. EnrolTypeOK /\ EnrolTypeOK'
  BY DEF CapacityInv, EnrolInv
<1>1. PICK r : clerk' = [clerk EXCEPT ![k] = r] /\ row' = row /\ stray' = stray
               /\ r.held = {} /\ r.pc # "write" /\ (r.pc # "lock" => r.lock = {})
               /\ {x[2] : x \in r.seat} \subseteq r.lock
  <2>1. ASSUME NEW c \in Class, NEW who \in Selection, Assign(k, c, who)
        PROVE  \E r : /\ clerk' = [clerk EXCEPT ![k] = r] /\ row' = row /\ stray' = stray
                      /\ r.held = {} /\ r.pc # "write" /\ (r.pc # "lock" => r.lock = {})
                      /\ {x[2] : x \in r.seat} \subseteq r.lock
    <3> DEFINE y == ClassYear[c]
    <3> DEFINE unchanged == {s \in who : ActiveIn(row[<<s, y>>], c)}
    <3> DEFINE seen == [s \in Student |-> IF s \in who THEN row[<<s, y>>] ELSE NoRow]
    <3> DEFINE seats == {<<<<s, y>>, c>> : s \in who \ unchanged}
    <3> DEFINE r == [pc |-> "lock", kind |-> "assign", who |-> who, seat |-> seats, seen |-> seen,
                     leave |-> {}, credit |-> Cardinality(unchanged), left |-> {},
                     lock |-> {c}, held |-> {}]
    <3>1. clerk' = [clerk EXCEPT ![k] = r] /\ row' = row /\ stray' = stray
      BY <2>1 DEF Assign
    <3>2. {x[2] : x \in seats} \subseteq {c}
      <4>1. \A x \in seats : \E s \in who : x = <<<<s, y>>, c>>
        OBVIOUS
      <4> HIDE DEF seats, y
      <4> QED
        BY <4>1
    <3>3. r.held = {} /\ r.pc = "lock" /\ r.seat = seats /\ r.lock = {c}
      OBVIOUS
    <3> HIDE DEF r, seats
    <3> QED
      BY <3>1, <3>2, <3>3
  <2>2. ASSUME NEW m \in Mapping, NEW who \in Selection, Promote(k, m, who)
        PROVE  \E r : /\ clerk' = [clerk EXCEPT ![k] = r] /\ row' = row /\ stray' = stray
                      /\ r.held = {} /\ r.pc # "write" /\ (r.pc # "lock" => r.lock = {})
                      /\ {x[2] : x \in r.seat} \subseteq r.lock
    <3> DEFINE goesTo(s) == m[row[<<s, 1>>].class]
    <3> DEFINE stays == {s \in who : ~Enrolled(<<s, 2>>)}
    <3> DEFINE moving == Moving(m, stays)
    <3> DEFINE seats == {<<<<s, 2>>, goesTo(s)>> : s \in moving}
    <3> DEFINE lock == {goesTo(s) : s \in moving}
    <3> DEFINE leave == {s \in stays : goesTo(s) = Leaves /\ s \notin exits}
    <3> DEFINE left == {s \in stays : goesTo(s) = NoClass}
    <3> DEFINE r == [pc |-> IF moving = {} THEN "count" ELSE "lock", kind |-> "promote", who |-> who,
                     seat |-> seats, seen |-> NoRequest.seen, leave |-> leave, credit |-> 0,
                     left |-> left, lock |-> lock, held |-> {}]
    <3>1. clerk' = [clerk EXCEPT ![k] = r] /\ row' = row /\ stray' = stray
      BY <2>2 DEF Promote
    <3>2. {x[2] : x \in seats} \subseteq lock
      <4>1. \A x \in seats : \E s \in moving : x = <<<<s, 2>>, goesTo(s)>>
        OBVIOUS
      <4>2. \A s \in moving : goesTo(s) \in lock
        OBVIOUS
      <4> HIDE DEF moving, goesTo, seats, lock
      <4> QED
        BY <4>1, <4>2
    <3>3. moving = {} => lock = {}
      OBVIOUS
    <3> HIDE DEF moving, seats, lock, leave, left
    <3>4. /\ r.held = {} /\ r.pc = (IF moving = {} THEN "count" ELSE "lock")
          /\ r.seat = seats /\ r.lock = lock
      OBVIOUS
    <3> HIDE DEF r
    <3> QED
      BY <3>1, <3>2, <3>3, <3>4
  <2> QED
    BY <2>1, <2>2
<1>2. r = clerk'[k] /\ r \in Request
  BY <1>0, <1>1 DEF EnrolTypeOK
<1> QED
  BY <1>1, <1>2, OwnCapacityStep

\* A class is locked when nobody holds it.
LEMMA LockCapacityStep ==
  ASSUME CapacityInv, EnrolInv', NEW k \in Clerk, LockClass(k)
  PROVE  CapacityInv'
<1>0. EnrolTypeOK /\ OneHolder /\ TargetsLocked
  BY DEF CapacityInv, EnrolInv
<1>1. PICK c \in FirstOf(clerk[k].lock) :
        /\ ~Held(c)
        /\ clerk' = [clerk EXCEPT
             ![k].lock = @ \ {c}, ![k].held = @ \cup {c},
             ![k].pc = IF clerk[k].lock = {c} THEN "count" ELSE "lock"]
  BY DEF LockClass
<1> DEFINE r == [clerk[k] EXCEPT
          !.lock = @ \ {c}, !.held = @ \cup {c},
          !.pc = IF clerk[k].lock = {c} THEN "count" ELSE "lock"]
<1>2. clerk[k] \in Request /\ c \in clerk[k].lock
  BY <1>0 DEF EnrolTypeOK, FirstOf
<1>3. clerk' = [clerk EXCEPT ![k] = r] /\ row' = row /\ stray' = stray
  BY <1>0, <1>1 DEF EnrolTypeOK, LockClass
<1>4. /\ r \in Request /\ r.seat = clerk[k].seat
      /\ r.held = clerk[k].held \cup {c} /\ r.lock = clerk[k].lock \ {c}
      /\ r.pc = IF clerk[k].lock = {c} THEN "count" ELSE "lock"
  BY <1>2 DEF Request
<1> HIDE DEF r
<1>5. \A o \in Clerk : o # k => r.held \cap clerk[o].held = {}
  BY <1>0, <1>1, <1>4 DEF OneHolder, Held
<1>6. {x[2] : x \in r.seat} \subseteq r.held \cup r.lock
  BY <1>0, <1>2, <1>4 DEF TargetsLocked, Targets
<1>7. r.pc # "write" /\ (r.pc # "lock" => r.lock = {})
  BY <1>4
<1> QED
  BY <1>3, <1>4, <1>5, <1>6, <1>7, OwnCapacityStep

\* A call that goes on to write has counted everybody it seats.
LEMMA CountCapacityStep ==
  ASSUME CapacityInv, EnrolInv', NEW k \in Clerk, Count(k)
  PROVE  CapacityInv'
<1>0. EnrolTypeOK /\ OneHolder /\ TargetsLocked
  BY DEF CapacityInv, EnrolInv
<1> DEFINE r == [clerk[k] EXCEPT !.pc = "write"]
<1>1. clerk[k] \in Request /\ clerk[k].pc = "count" /\ clerk[k].lock = {}
  BY <1>0 DEF EnrolTypeOK, Count, TargetsLocked
<1>2. clerk' = [clerk EXCEPT ![k] = r] /\ row' = row /\ stray' = stray
  BY <1>0 DEF EnrolTypeOK, Count
<1>3. /\ r \in Request /\ r.seat = clerk[k].seat /\ r.held = clerk[k].held
      /\ r.lock = {} /\ r.pc = "write" /\ r.credit = clerk[k].credit
  BY <1>1 DEF Request
<1> HIDE DEF r
<1>4. \A o \in Clerk : o # k => r.held \cap clerk[o].held = {}
  BY <1>0, <1>3 DEF OneHolder
<1>5. {x[2] : x \in r.seat} \subseteq r.held \cup r.lock
  BY <1>0, <1>1, <1>3 DEF TargetsLocked, Targets
<1>6. ASSUME r.credit = 0, NEW c \in {x[2] : x \in r.seat} \ stray
      PROVE  Cardinality(Seated(c)) + CountOf(r.seat, c) <= Capacity[c]
  <2>1. c \in Class /\ Fits(k, c)
    BY <1>1, <1>3, <1>6 DEF Count, Wants, Request
  <2>2. CountOf(clerk[k].seat, c) <= Capacity[c] - Cardinality(Seated(c)) + 0
    BY <1>3, <1>6, <2>1 DEF Fits
  <2> QED
    BY <1>0, <1>3, <2>1, <2>2, Numbers
<1> QED
  BY <1>2, <1>3, <1>4, <1>5, <1>6, OwnCapacityStep

\* Only a counted call adds to a class outside stray.
LEMMA WriteSeats ==
  ASSUME CapacityInv, NEW k \in Clerk, Write(k), NEW c \in Class \ stray'
  PROVE  /\ Seated(c)' \subseteq Seated(c) \cup SeatedBy(k, c)
         /\ c \notin Targets(k) => Seated(c)' \subseteq Seated(c)
         /\ c \in Targets(k) => clerk[k].credit = 0
<1>0. EnrolTypeOK
  BY DEF CapacityInv, EnrolInv
<1>1. clerk[k].seat \subseteq Slot \X Class /\ clerk[k].credit \in Nat
  BY <1>0 DEF EnrolTypeOK, Request
<1>2. c \notin {row'[p].class : p \in {p \in Seats(k) : row'[p].class # Seat(k, p)}}
  BY DEF Write
<1>3. c \in Targets(k) => ~(clerk[k].credit > 0)
  BY DEF Write, Targets
<1>4. ASSUME NEW p \in Seated(c)', p \in Seats(k) PROVE <<p, c>> \in clerk[k].seat
  <2>1. row'[p].class = c
    BY DEF Seated, ActiveIn
  <2>2. c = Seat(k, p)
    BY <1>2, <1>4, <2>1
  <2>3. PICK x \in clerk[k].seat : x[1] = p
    BY <1>4 DEF Seats
  <2>4. x = <<p, x[2]>> /\ x[2] \in Class
    BY <1>1, <2>3
  <2>5. \E d \in Class : <<p, d>> \in clerk[k].seat
    BY <2>4
  <2> QED
    BY <2>2, <2>5 DEF Seat
<1>5. ASSUME NEW p \in Seated(c)', p \notin Seats(k) PROVE p \in Seated(c)
  BY <1>5 DEF Write, Seated, ActiveIn
<1>6. \A p \in Slot : <<p, c>> \in clerk[k].seat => c \in Targets(k)
  <2>1. \A p \in Slot : <<p, c>>[2] = c
    OBVIOUS
  <2> QED
    BY <2>1 DEF Targets
<1>7. \A p \in Seated(c)' : p \in Slot
  BY DEF Seated
<1>8. Seated(c)' \subseteq Seated(c) \cup SeatedBy(k, c)
  BY <1>4, <1>5, <1>7 DEF SeatedBy
<1>9. c \notin Targets(k) => SeatedBy(k, c) = {}
  BY <1>6 DEF SeatedBy
<1>10. c \in Targets(k) => clerk[k].credit = 0
  BY <1>1, <1>3
<1> QED
  BY <1>8, <1>9, <1>10

\* What others counted is left alone by a write, and what it counted itself
\* is what it seats.
LEMMA WriteCapacityStep ==
  ASSUME CapacityInv, EnrolInv', NEW k \in Clerk, Write(k)
  PROVE  CapacityInv'
<1>0. EnrolTypeOK /\ OneHolder /\ TargetsLocked /\ CountStands /\ CountedClassesFit
  BY DEF CapacityInv, EnrolInv
<1>1. \A o \in Clerk : clerk'[o] = IF o = k THEN NoRequest ELSE clerk[o]
  BY <1>0 DEF EnrolTypeOK, Write
<1>2. stray \subseteq stray' /\ clerk[k].pc = "write" /\ clerk[k].lock = {}
  BY <1>0 DEF Write, TargetsLocked
<1>3. OneHolder'
  BY <1>0, <1>1, NothingHeld DEF OneHolder
<1>4. TargetsLocked'
  BY <1>0, <1>1, NothingHeld DEF TargetsLocked, Targets
<1>5. CountStands'
  <2>1. ASSUME NEW o \in Clerk, clerk'[o].pc = "write", clerk'[o].credit = 0,
               NEW c \in Targets(o)' \ stray'
        PROVE  Cardinality(Seated(c)') + CountOf(clerk'[o].seat, c) <= Capacity[c]
    <3>1. o # k /\ clerk'[o] = clerk[o]
      BY <1>1, <2>1, NothingHeld
    <3>2. c \in Targets(o) /\ c \in Class /\ c \notin stray
      BY <1>0, <1>2, <3>1 DEF Targets, EnrolTypeOK, Request
    <3>3. c \in clerk[o].held
      BY <1>0, <2>1, <3>1, <3>2 DEF TargetsLocked
    <3>4. c \notin Targets(k)
      BY <1>0, <1>2, <3>1, <3>3 DEF TargetsLocked, OneHolder
    <3>5. Seated(c)' \subseteq Seated(c)
      BY <3>2, <3>4, WriteSeats
    <3>6. Cardinality(Seated(c)') <= Cardinality(Seated(c)) /\ Cardinality(Seated(c)') \in Nat
      BY <1>0, <3>2, <3>5, FewerSeated
    <3>7. /\ Cardinality(Seated(c)) \in Nat /\ CountOf(clerk[o].seat, c) \in Nat
          /\ Capacity[c] \in Nat
      BY <1>0, <3>2, Numbers
    <3>8. Cardinality(Seated(c)) + CountOf(clerk[o].seat, c) <= Capacity[c]
      BY <1>0, <2>1, <3>1, <3>2 DEF CountStands
    <3> QED
      BY <3>1, <3>6, <3>7, <3>8
  <2> QED
    BY <2>1 DEF CountStands, CountOf
<1>6. CountedClassesFit'
  <2>1. ASSUME NEW c \in Class \ stray' PROVE Cardinality(Seated(c)') <= Capacity[c]
    <3>1. /\ IsFiniteSet(Seated(c)) /\ Cardinality(Seated(c)) \in Nat
          /\ CountOf(clerk[k].seat, c) \in Nat /\ Capacity[c] \in Nat
      BY <1>0, Numbers
    <3>2. CASE c \notin Targets(k)
      <4>1. Cardinality(Seated(c)') <= Cardinality(Seated(c)) /\ Cardinality(Seated(c)') \in Nat
        BY <1>0, <3>2, WriteSeats, FewerSeated
      <4>2. Cardinality(Seated(c)) <= Capacity[c]
        BY <1>0, <1>2 DEF CountedClassesFit
      <4> QED
        BY <3>1, <4>1, <4>2
    <3>3. CASE c \in Targets(k)
      <4>1. Seated(c)' \subseteq Seated(c) \cup SeatedBy(k, c) /\ clerk[k].credit = 0
        BY <3>3, WriteSeats
      <4>2. IsFiniteSet(SeatedBy(k, c)) /\ Cardinality(SeatedBy(k, c)) <= CountOf(clerk[k].seat, c)
        BY <1>0, SeatedByCount
      <4>3. /\ IsFiniteSet(Seated(c) \cup SeatedBy(k, c))
            /\ Cardinality(Seated(c) \cup SeatedBy(k, c)) =
                 Cardinality(Seated(c)) + Cardinality(SeatedBy(k, c))
                   - Cardinality(Seated(c) \cap SeatedBy(k, c))
        BY <3>1, <4>2, FS_Union
      <4>4. /\ Cardinality(Seated(c)') <= Cardinality(Seated(c) \cup SeatedBy(k, c))
            /\ IsFiniteSet(Seated(c)')
        BY <4>1, <4>3, FS_Subset
      <4>5. IsFiniteSet(Seated(c) \cap SeatedBy(k, c))
        BY <3>1, FS_Subset
      <4>6. /\ Cardinality(Seated(c)') \in Nat /\ Cardinality(SeatedBy(k, c)) \in Nat
            /\ Cardinality(Seated(c) \cap SeatedBy(k, c)) \in Nat
        BY <4>2, <4>4, <4>5, FS_CardinalityType
      <4>7. Cardinality(Seated(c)) + CountOf(clerk[k].seat, c) <= Capacity[c]
        BY <1>0, <1>2, <3>3, <4>1 DEF CountStands
      <4> QED
        BY <3>1, <4>2, <4>3, <4>4, <4>6, <4>7
    <3> QED
      BY <3>2, <3>3
  <2> QED
    BY <2>1 DEF CountedClassesFit
<1> QED
  BY <1>3, <1>4, <1>5, <1>6 DEF CapacityInv

\* Writes that do not count, and requests that end, add to no counted class.
LEMMA UncountedStep ==
  ASSUME CapacityInv, EnrolInv',
         \/ \E k \in Clerk : Reject(k)
         \/ \E p \in Slot, c \in Class : Create(p, c)
         \/ \E p \in Slot, status \in Status : SetStatus(p, status)
  PROVE  CapacityInv'
<1>0. EnrolTypeOK
  BY DEF CapacityInv, EnrolInv
<1>1. ASSUME NEW k \in Clerk, Reject(k) PROVE CapacityInv'
  <2>1. \A o \in Clerk : clerk'[o] \in {clerk[o], NoRequest}
    BY <1>0, <1>1 DEF Reject, EnrolTypeOK
  <2>2. row' = row /\ stray' = stray
    BY <1>1 DEF Reject
  <2>3. \A c \in Class : Seated(c)' = Seated(c)
    BY <2>2 DEF Seated, ActiveIn
  <2> QED
    BY <2>1, <2>2, <2>3, QuietStep
<1>2. ASSUME NEW p \in Slot, NEW d \in Class, Create(p, d) PROVE CapacityInv'
  <2>1. clerk' = clerk /\ stray' = stray \cup {d}
    BY <1>2 DEF Create
  <2>2. ASSUME NEW c \in Class \ stray', NEW q \in Seated(c)' PROVE q \in Seated(c)
    <3>1. q \in Slot /\ row'[q] = IF q = p THEN [class |-> d, status |-> "ACTIVE"] ELSE row[q]
      BY <1>0, <1>2 DEF Seated, Create, EnrolTypeOK
    <3> QED
      BY <2>1, <3>1 DEF Seated, ActiveIn
  <2> QED
    BY <2>1, <2>2, QuietStep
<1>3. ASSUME NEW p \in Slot, NEW status \in Status, SetStatus(p, status) PROVE CapacityInv'
  <2>1. /\ clerk' = clerk /\ stray \subseteq stray'
        /\ status = "ACTIVE" => row[p].class \in stray'
    BY <1>3 DEF SetStatus
  <2>2. ASSUME NEW c \in Class \ stray', NEW q \in Seated(c)' PROVE q \in Seated(c)
    <3>1. q \in Slot /\ row[p] \in Row
      BY <1>0 DEF Seated, EnrolTypeOK
    <3>2. row'[q] = IF q = p THEN [row[p] EXCEPT !.status = status] ELSE row[q]
      BY <1>0, <1>3, <3>1 DEF SetStatus, EnrolTypeOK
    <3>3. /\ [row[p] EXCEPT !.status = status].class = row[p].class
          /\ [row[p] EXCEPT !.status = status].status = status
      BY <3>1 DEF Row
    <3>4. row'[q].class = c /\ row'[q].status = "ACTIVE"
      BY DEF Seated, ActiveIn
    <3> QED
      BY <2>1, <3>1, <3>2, <3>3, <3>4 DEF Seated, ActiveIn
  <2> QED
    BY <2>1, <2>2, QuietStep
<1> QED
  BY <1>1, <1>2, <1>3

\* Every step keeps the invariant.
LEMMA StepCapacity == CapacityInv /\ [EnrolNext]_enrolVars => CapacityInv'
<1> SUFFICES ASSUME CapacityInv, [EnrolNext]_enrolVars PROVE CapacityInv'
  OBVIOUS
<1>0. EnrolInv'
  BY StepEnrol DEF CapacityInv
<1>1. CASE UNCHANGED enrolVars
  <2>1. row' = row /\ clerk' = clerk /\ stray' = stray
    BY <1>1 DEF enrolVars
  <2>2. \A c \in Class : Seated(c)' = Seated(c)
    BY <2>1 DEF Seated, ActiveIn
  <2> QED
    BY <1>0, <2>1, <2>2, QuietStep
<1>2. CASE EnrolNext
  BY <1>0, <1>2, ReadStep, LockCapacityStep, CountCapacityStep, WriteCapacityStep, UncountedStep
     DEF EnrolNext, Refuse, Conflict
<1> QED
  BY <1>1, <1>2

\* A class that only counted calls filled is never fuller than its capacity,
\* for any number of assignments and promotions that overlap.
THEOREM CapacityIsKept == EnrolSpec => []CountedClassesFit
<1>1. CapacityInv => CountedClassesFit
  BY DEF CapacityInv
<1> QED
  BY <1>1, InitCapacity, StepCapacity, PTL DEF EnrolSpec

\* Bulk calls neither wait for each other nor leave anybody out
\* (students/service.py).
THEOREM BulkCallsAlwaysGoThrough == EnrolSpec => BulkCallsGoThrough
  BY BulkCallsNeverDeadlock, PromotionForgetsNobody DEF BulkCallsGoThrough

-----------------------------------------------------------------------------
(***************************************************************************)
(* Accounts and schools, for any emails, organizations, schools, roles and *)
(* requests in progress.                                                   *)
(*                                                                         *)
(* Requests decide on roles they read long before, without a lock on the   *)
(* account.  What saves them is that the place of an account never changes *)
(* once it has a role: roles are added in the organization the account is  *)
(* in, and the rows that are deleted are replaced in the same place.  A    *)
(* new account is the only exception, and the unique key of its email      *)
(* makes the request that inserts it the only one.  The names of schools   *)
(* are guarded by the lock of their organization.                          *)
(***************************************************************************)

\* A request for a new school has its source, and from the lock of the
\* organization on, a name and a slug nobody took.
Building(x) ==
  x.kind \in {"found", "add"} =>
    /\ x.pc \in {"slug", "org", "email", "resolve", "insert", "commit"} => x.src # "none"
    /\ x.pc \in {"email", "resolve", "insert", "commit"} =>
         /\ <<"org", OrgOf[x.site]>> \in x.held /\ x.site \notin Built
         /\ \A t \in Built \ renamed :
              OrgOf[t] = OrgOf[x.site] => Normal[name[t]] # Normal[NameOf[x.site]]

\* A new account is unknown until its only request commits it with its role.
Creating(x) ==
  /\ x.pc \in {"slug", "org", "email", "resolve"} =>
       x.kind \in {"found", "add"} /\ ~x.fresh /\ x.drop = {}
  /\ x.pc = "insert" => x.fresh
  /\ x.pc \in {"insert", "commit"} /\ x.fresh => x.grant # {} /\ x.drop = {} /\ x.kind # "promote"
  /\ x.pc = "commit" => IF x.fresh THEN x.who \notin known /\ <<"key", x.who>> \in x.held
                        ELSE x.who \in known
  /\ x.pc = "mail" => x.who \in known

\* The roles that are given are in one place, of the right kind and in an
\* organization that is there when they are committed.
Giving(x) ==
  x.pc \in {"insert", "commit"} =>
    /\ \A g \in x.grant :
         /\ g[1] = x.who /\ (g[2] \in NonSchool => g[3] = Global)
         /\ g[3] # Global => \/ OrgAt(g[3]) \in Founded
                             \/ x.kind \in {"found", "add"} /\ OrgAt(g[3]) = OrgOf[x.site]
    /\ \A g, h \in x.grant : g = h

\* It is the place of the account, and rows that are deleted are replaced.
Keeping(x) ==
  x.pc = "commit" =>
    /\ \A g \in x.grant, r \in role : r[1] = x.who => OrgAt(r[3]) = OrgAt(g[3])
    /\ x.kind = "promote" => \A r \in role : r[1] = x.who => r[3] = Global
    /\ \A r \in x.drop : r[1] = x.who /\ (r[3] \in Site \/ r[2] = "SUPER_ADMIN")
    /\ x.grant # {} \/ x.drop = {} \/ <<x.who, "PLATFORM_OWNER", Global>> \in role

\* The administrator of a new school is given a role in it, or has one that no
\* request deletes.
Administering(x) ==
  x.pc \in {"insert", "commit"} /\ x.kind \in {"found", "add"} =>
    \/ \E g \in {x.site, OrgOf[x.site]} : <<x.who, "SCHOOL_ADMIN", g>> \in x.grant
    \/ <<x.who, "SCHOOL_ADMIN", OrgOf[x.site]>> \in role

SoundSetup(x) == Building(x) /\ Creating(x) /\ Giving(x) /\ Keeping(x) /\ Administering(x)

Exclusive == \A o, p \in Operator : o # p => setup[o].held \cap setup[p].held = {}
KnownHaveRoles == \A e \in known : \E r \in role : r[1] = e

OnboardInv ==
  /\ OnboardTypeOK /\ AccountsKeepTheirPlace /\ OneSchoolPerName /\ InvitedAccountsExist
  /\ KnownHaveRoles /\ Exclusive
  /\ \A o \in Operator : SoundSetup(setup[o])

\* A request that is not there.
LEMMA NoSetupFields ==
  /\ NoSetup \in Setup /\ NoSetup.pc = "idle" /\ NoSetup.held = {} /\ NoSetup.grant = {}
  /\ NoSetup.drop = {} /\ ~NoSetup.fresh
  /\ SoundSetup(NoSetup)
<1>1. NoSetup \in Setup
  <2>1. (CHOOSE e \in Email : TRUE) \in Email /\ (CHOOSE s \in Site : TRUE) \in Site
    BY RowsAssumption
  <2> QED
    BY <2>1 DEF NoSetup, Setup, Source
<1>2. /\ NoSetup.pc = "idle" /\ NoSetup.held = {} /\ NoSetup.grant = {} /\ NoSetup.drop = {}
      /\ ~NoSetup.fresh
  BY DEF NoSetup
<1> QED
  BY <1>1, <1>2 DEF SoundSetup, Building, Creating, Giving, Keeping, Administering

\* The place without an organization is one of its own.
LEMMA Places ==
  /\ \A x \in Scope : OrgAt(x) = Global <=> x = Global
  /\ \A s \in Site : OrgAt(s) = OrgOf[s] /\ OrgOf[s] \in Org /\ s # Global /\ s \in Scope
  /\ \A g \in Org : OrgAt(g) = g /\ g # Global /\ g \notin Site /\ g \in Scope
  /\ \A r \in Role : r = <<r[1], r[2], r[3]>> /\ r[1] \in Email /\ r[3] \in Scope
BY ScopeAssumption DEF Scope, OrgAt, Role

LEMMA InitOnboard == OnboardInit => OnboardInv
<1> SUFFICES ASSUME OnboardInit PROVE OnboardInv
  OBVIOUS
<1>1. Built = FirstSites
  BY RolesAssumption, RowsAssumption DEF OnboardInit, Built
<1>2. AccountsKeepTheirPlace
  <2>1. \A r \in role : r \in Role
    BY RolesAssumption DEF OnboardInit
  <2>2. \A r, q \in role : r[1] = q[1] => OrgAt(r[3]) = OrgAt(q[3])
    BY RolesAssumption DEF OnboardInit
  <2>3. ASSUME NEW r \in role, r[2] \in NonSchool \/ r[1] \in flagged PROVE r[3] = Global
    <3>1. PICK q \in role : q[1] = r[1] /\ q[2] \in NonSchool
      BY <2>3 DEF OnboardInit, NonSchool
    <3>2. q[3] = Global
      BY <3>1, RolesAssumption DEF OnboardInit
    <3> QED
      BY <2>1, <2>2, <3>1, <3>2, Places
  <2> QED
    BY <2>2, <2>3 DEF AccountsKeepTheirPlace
<1>3. OneSchoolPerName
  BY <1>1, NamesAssumption, RolesAssumption DEF OnboardInit, OneSchoolPerName
<1>4. OnboardTypeOK
  <2>1. \A r \in role : r[1] \in known /\ (r[3] # Global => OrgAt(r[3]) \in Founded)
    BY <1>1, RolesAssumption DEF OnboardInit, Founded
  <2>2. known \subseteq Email /\ role \subseteq Role /\ flagged \subseteq known /\ active \subseteq known
    BY RolesAssumption, Places DEF OnboardInit
  <2>3. /\ name \in [Site -> {NameOf[s] : s \in Site} \cup {NoName}] /\ renamed \subseteq Built
        /\ source \in [Site -> Source] /\ \A s \in Site : source[s] = "none" <=> s \notin Built
    BY <1>1, RolesAssumption, RowsAssumption DEF OnboardInit, Source
  <2>4. setup \in [Operator -> Setup] /\ invited \subseteq Email /\ setups \in 0 .. MaxSetups
    BY NoSetupFields, ScopeAssumption DEF OnboardInit
  <2> QED
    BY <2>1, <2>2, <2>3, <2>4 DEF OnboardTypeOK
<1>5. InvitedAccountsExist /\ KnownHaveRoles /\ Exclusive
  BY NoSetupFields DEF OnboardInit, InvitedAccountsExist, KnownHaveRoles, Exclusive
<1>6. \A o \in Operator : SoundSetup(setup[o])
  BY NoSetupFields DEF OnboardInit
<1> QED
  BY <1>2, <1>3, <1>4, <1>5, <1>6 DEF OnboardInv

\* A step that only moves a request.
LEMMA MoveSetup ==
  ASSUME OnboardInv, NEW o \in Operator, NEW x \in Setup, SoundSetup(x), Became(o, x),
         \A l \in x.held : l \in setup[o].held \/ ~HeldByOther(o, l),
         UNCHANGED <<Accounts, Schools, invited>>, setups' \in 0 .. MaxSetups
  PROVE  OnboardInv'
<1>1. UNCHANGED <<known, active, flagged, role, name, renamed, source, invited>>
  BY DEF Accounts, Schools
<1>2. Built' = Built /\ Founded' = Founded
  BY <1>1 DEF Built, Founded
<1>3. setup' \in [Operator -> Setup] /\ setup'[o] = x /\ \A p \in Operator : p # o => setup'[p] = setup[p]
  BY DEF OnboardInv, OnboardTypeOK, Became
<1>4. OnboardTypeOK'
  BY <1>1, <1>2, <1>3 DEF OnboardInv, OnboardTypeOK
<1>5. AccountsKeepTheirPlace' /\ OneSchoolPerName' /\ InvitedAccountsExist' /\ KnownHaveRoles'
  BY <1>1, <1>2 DEF OnboardInv, AccountsKeepTheirPlace, OneSchoolPerName, InvitedAccountsExist, KnownHaveRoles
<1>6. Exclusive'
  <2> SUFFICES ASSUME NEW p \in Operator, p # o PROVE x.held \cap setup[p].held = {}
    BY <1>3 DEF OnboardInv, Exclusive
  <2> SUFFICES ASSUME NEW l \in x.held, l \in setup[p].held PROVE FALSE
    OBVIOUS
  <2>1. setup[o].held \cap setup[p].held = {}
    BY DEF OnboardInv, Exclusive
  <2> QED
    BY <2>1 DEF HeldByOther
<1>7. ASSUME NEW p \in Operator PROVE SoundSetup(setup[p])'
  <2>1. PICK y : y = setup'[p] /\ SoundSetup(y)
    BY <1>3 DEF OnboardInv
  <2>2. Building(y)' /\ Creating(y)' /\ Giving(y)' /\ Keeping(y)' /\ Administering(y)'
    BY <1>1, <1>2, <2>1 DEF SoundSetup, Building, Creating, Giving, Keeping, Administering
  <2> QED
    BY <2>1, <2>2 DEF SoundSetup, Building, Creating, Giving, Keeping, Administering
<1> QED
  BY <1>4, <1>5, <1>6, <1>7 DEF OnboardInv

LEMMA AskedSetup ==
  ASSUME OnboardInv, NEW o \in Operator, NEW x \in Setup, SoundSetup(x), AskSetup(o, x), x.held = {}
  PROVE  OnboardInv'
<1>1. setups' \in 0 .. MaxSetups
  BY ScopeAssumption DEF AskSetup, OnboardInv, OnboardTypeOK
<1> QED
  BY <1>1, MoveSetup DEF AskSetup

LEMMA AskSchool ==
  ASSUME OnboardInv, NEW o \in Operator, NEW s \in Site, NEW e \in Email, NEW src \in Source \ {"none"},
         AskFound(o, s, e, src) \/ AskAdd(o, s, e, src)
  PROVE  OnboardInv'
<1>1. PICK pc \in {"slug", "org"}, kind \in {"found", "add"} :
        AskSetup(o, [NoSetup EXCEPT !.pc = pc, !.kind = kind, !.who = e, !.site = s, !.src = src])
  BY DEF AskFound, AskAdd
<1> DEFINE x == [NoSetup EXCEPT !.pc = pc, !.kind = kind, !.who = e, !.site = s, !.src = src]
<1>2. /\ x \in Setup /\ x.pc = pc /\ x.kind = kind /\ x.src = src /\ x.held = {} /\ ~x.fresh
      /\ x.drop = {}
  BY NoSetupFields DEF Setup
<1> HIDE DEF x
<1>3. SoundSetup(x)
  BY <1>2 DEF SoundSetup, Building, Creating, Giving, Keeping, Administering
<1> QED
  BY <1>1, <1>2, <1>3, AskedSetup DEF x

LEMMA AskStaff ==
  ASSUME OnboardInv, NEW o \in Operator, NEW s \in Site, NEW e \in Email, NEW code \in Schooling,
         AskInvite(o, s, e, code)
  PROVE  OnboardInv'
<1> DEFINE given == <<e, code, s>>
           call == [NoSetup EXCEPT !.kind = "invite", !.who = e, !.site = s]
<1>1. s \in Built /\ OrgAt(s) = OrgOf[s] /\ OrgOf[s] \in Founded
  BY Places DEF AskInvite, Built, Founded
<1>2. given \in Role /\ given[1] = e /\ given[2] \notin NonSchool /\ given[3] = s
  BY DEF Role, Scope, Schooling, NonSchool
<1> HIDE DEF given
<1>3. CASE /\ e \notin known
           /\ AskSetup(o, [call EXCEPT !.pc = "insert", !.fresh = TRUE, !.grant = {given}])
  <2> DEFINE x == [call EXCEPT !.pc = "insert", !.fresh = TRUE, !.grant = {given}]
  <2>1. /\ x \in Setup /\ x.pc = "insert" /\ x.kind = "invite" /\ x.who = e /\ x.held = {} /\ x.fresh
        /\ x.grant = {given} /\ x.drop = {}
    BY <1>2, NoSetupFields DEF Setup
  <2> HIDE DEF x
  <2>2. SoundSetup(x)
    BY <1>1, <1>2, <2>1 DEF SoundSetup, Building, Creating, Giving, Keeping, Administering
  <2> QED
    BY <1>3, <2>1, <2>2, AskedSetup DEF x
<1>4. CASE /\ e \in known /\ Eligible(e, s, code)
           /\ AskSetup(o, [call EXCEPT !.pc = "commit",
                !.grant = IF given \in role \/ (code = "SCHOOL_ADMIN" /\ CoversAll(e, OrgOf[s]))
                          THEN {} ELSE {given}])
  <2>1. PICK rows \in {{}, {given}} : AskSetup(o, [call EXCEPT !.pc = "commit", !.grant = rows])
    BY <1>4
  <2> DEFINE x == [call EXCEPT !.pc = "commit", !.grant = rows]
  <2>2. /\ x \in Setup /\ x.pc = "commit" /\ x.kind = "invite" /\ x.who = e /\ x.held = {} /\ ~x.fresh
        /\ x.grant = rows /\ x.drop = {}
    BY <1>2, NoSetupFields DEF Setup
  <2> HIDE DEF x
  <2>3. \A r \in role : r[1] = e => OrgAt(r[3]) = OrgOf[s]
    BY <1>4 DEF Eligible, RolesOf, OnboardInv, AccountsKeepTheirPlace
  <2>4. SoundSetup(x)
    BY <1>1, <1>2, <1>4, <2>2, <2>3 DEF SoundSetup, Building, Creating, Giving, Keeping, Administering
  <2> QED
    BY <2>1, <2>2, <2>4, AskedSetup DEF x
<1> QED
  BY <1>3, <1>4 DEF AskInvite, given

LEMMA AskRoles ==
  ASSUME OnboardInv, NEW o \in Operator, NEW s \in Site, NEW e \in Email, NEW code \in Schooling,
         AskChange(o, s, e, code)
  PROVE  OnboardInv'
<1> DEFINE rows == {r \in RolesOf(e) : r[3] = s}
           given == <<e, code, s>>
           x == [NoSetup EXCEPT !.pc = "commit", !.kind = "change", !.who = e, !.site = s,
                   !.drop = rows, !.grant = {given}]
<1>1. AskSetup(o, x)
  BY DEF AskChange
<1>2. given \in Role /\ given[1] = e /\ given[2] \notin NonSchool /\ given[3] = s
  BY DEF Role, Scope, Schooling, NonSchool
<1>3. rows \in SUBSET Role /\ \A r \in rows : r \in role /\ r[1] = e /\ r[3] = s
  BY DEF RolesOf, OnboardInv, OnboardTypeOK
<1>4. PICK r \in rows : TRUE
  BY DEF AskChange
<1>5. e \in known /\ OrgAt(s) \in Founded
  BY <1>3, <1>4, Places DEF OnboardInv, OnboardTypeOK
<1>6. \A q \in role : q[1] = e => OrgAt(q[3]) = OrgAt(s)
  BY <1>3, <1>4 DEF OnboardInv, AccountsKeepTheirPlace
<1> HIDE DEF given, rows
<1>7. /\ x \in Setup /\ x.pc = "commit" /\ x.kind = "change" /\ x.who = e /\ x.held = {} /\ ~x.fresh
      /\ x.grant = {given} /\ x.drop = rows
  BY <1>2, <1>3, NoSetupFields DEF Setup
<1> HIDE DEF x
<1>8. SoundSetup(x)
  BY <1>2, <1>3, <1>5, <1>6, <1>7 DEF SoundSetup, Building, Creating, Giving, Keeping, Administering
<1> QED
  BY <1>1, <1>7, <1>8, AskedSetup

LEMMA AskPlatform ==
  ASSUME OnboardInv, NEW o \in Operator, NEW e \in Email, AskPartner(o, e) \/ AskPromote(o, e)
  PROVE  OnboardInv'
<1>1. CASE AskPartner(o, e)
  <2> DEFINE given == <<e, "PARTNER_ADMIN", Global>>
             x == [NoSetup EXCEPT !.pc = "insert", !.kind = "partner", !.who = e, !.fresh = TRUE,
                     !.grant = {given}]
  <2>1. AskSetup(o, x)
    BY <1>1 DEF AskPartner
  <2>2. given \in Role /\ given[1] = e /\ given[3] = Global
    BY DEF Role, Scope, NonSchool
  <2> HIDE DEF given
  <2>3. /\ x \in Setup /\ x.pc = "insert" /\ x.kind = "partner" /\ x.who = e /\ x.held = {} /\ x.fresh
        /\ x.grant = {given} /\ x.drop = {}
    BY <2>2, NoSetupFields DEF Setup
  <2> HIDE DEF x
  <2>4. SoundSetup(x)
    BY <2>2, <2>3 DEF SoundSetup, Building, Creating, Giving, Keeping, Administering
  <2> QED
    BY <2>1, <2>3, <2>4, AskedSetup
<1>2. CASE AskPromote(o, e)
  <2> DEFINE given == <<e, "PLATFORM_OWNER", Global>>
             rows == {given} \ role
             old == {r \in RolesOf(e) : r[2] = "SUPER_ADMIN"}
             x == [NoSetup EXCEPT !.pc = "commit", !.kind = "promote", !.who = e, !.drop = old,
                     !.grant = rows]
  <2>1. AskSetup(o, x)
    BY <1>2 DEF AskPromote
  <2>2. given \in Role /\ given[1] = e /\ given[3] = Global
    BY DEF Role, Scope, NonSchool
  <2>3. old \in SUBSET Role /\ \A r \in old : r[1] = e /\ r[2] = "SUPER_ADMIN"
    BY DEF RolesOf, OnboardInv, OnboardTypeOK
  <2>4. e \in known /\ \A r \in role : r[1] = e => r[3] = Global
    BY <1>2 DEF AskPromote, RolesOf, OnboardInv, OnboardTypeOK
  <2>5. rows \in SUBSET {given} /\ (rows # {} \/ <<e, "PLATFORM_OWNER", Global>> \in role)
    OBVIOUS
  <2> HIDE DEF given, rows, old
  <2>6. /\ x \in Setup /\ x.pc = "commit" /\ x.kind = "promote" /\ x.who = e /\ x.held = {} /\ ~x.fresh
        /\ x.grant = rows /\ x.drop = old
    BY <2>2, <2>3, <2>5, NoSetupFields DEF Setup
  <2> HIDE DEF x
  <2>7. SoundSetup(x)
    BY <2>2, <2>3, <2>4, <2>5, <2>6 DEF SoundSetup, Building, Creating, Giving, Keeping, Administering
  <2> QED
    BY <2>1, <2>6, <2>7, AskedSetup
<1> QED
  BY <1>1, <1>2

LEMMA GivenUp ==
  ASSUME OnboardInv, NEW o \in Operator, GiveUp(o)
  PROVE  OnboardInv'
<1>1. setups' \in 0 .. MaxSetups
  BY DEF GiveUp, OnboardInv, OnboardTypeOK
<1> QED
  BY <1>1, NoSetupFields, MoveSetup DEF GiveUp

\* The request goes on with other locks and roles.
LEMMA GoesOn ==
  ASSUME OnboardInv, NEW o \in Operator, NEW x \in Setup, SoundSetup(x), Became(o, x),
         \A l \in x.held : l \in setup[o].held \/ ~HeldByOther(o, l),
         UNCHANGED <<Accounts, Schools, invited, setups>>
  PROVE  OnboardInv'
<1>1. setups' \in 0 .. MaxSetups
  BY DEF OnboardInv, OnboardTypeOK
<1> QED
  BY <1>1, MoveSetup

LEMMA LockSteps ==
  ASSUME OnboardInv, NEW o \in Operator, TakeSlug(o) \/ LockOrg(o) \/ LockEmail(o)
  PROVE  OnboardInv'
<1> DEFINE y == setup[o]
           g == OrgOf[y.site]
           x == [y EXCEPT !.pc = "email", !.held = {<<"org", g>>}]
           z == [y EXCEPT !.pc = "resolve", !.held = @ \cup {<<"mail", y.who>>}]
<1>1. /\ y \in Setup /\ SoundSetup(y) /\ g \in Org /\ y.site \in Site /\ y.who \in Email /\ y.held \subseteq Latch
      /\ y.pc \in {"slug", "org", "email"}
  BY ScopeAssumption DEF OnboardInv, OnboardTypeOK, Setup, TakeSlug, LockOrg, LockEmail
<1>2. y.kind \in {"found", "add"} /\ ~y.fresh /\ y.drop = {} /\ y.src # "none"
  BY <1>1 DEF SoundSetup, Creating, Building
<1> DEFINE mine == {<<"org", g>>}
           both == y.held \cup {<<"mail", y.who>>}
<1>9. mine \in SUBSET Latch /\ both \in SUBSET Latch
  BY <1>1 DEF Latch
<1> HIDE DEF y, g, mine, both
<1>10. [y EXCEPT !.pc = "email", !.held = mine] \in Setup
  BY <1>1, <1>9 DEF Setup
<1>11. [y EXCEPT !.pc = "resolve", !.held = both] \in Setup
  BY <1>1, <1>9 DEF Setup
<1>3. /\ x \in Setup /\ x.pc = "email" /\ x.held = {<<"org", g>>} /\ x.kind = y.kind /\ x.src = y.src
      /\ x.site = y.site /\ x.fresh = y.fresh /\ x.drop = y.drop
  BY <1>1, <1>10 DEF Setup, mine
<1>4. /\ z \in Setup /\ z.pc = "resolve" /\ z.held = y.held \cup {<<"mail", y.who>>} /\ z.kind = y.kind
      /\ z.src = y.src /\ z.site = y.site /\ z.fresh = y.fresh /\ z.drop = y.drop
  BY <1>1, <1>11 DEF Setup, both
<1> USE DEF y, g
<1>5. /\ TakeSlug(o) => /\ ~HeldByOther(o, <<"org", g>>)
                        /\ \/ GiveUp(o)
                           \/ /\ g \notin Founded /\ Became(o, x)
                              /\ UNCHANGED <<Accounts, Schools, invited, setups>>
      /\ LockOrg(o) => \/ GiveUp(o)
                       \/ /\ g \in Founded /\ ~Taken(y.site) /\ ~HeldByOther(o, <<"org", g>>)
                          /\ Became(o, x) /\ UNCHANGED <<Accounts, Schools, invited, setups>>
      /\ LockEmail(o) => /\ y.pc = "email" /\ ~HeldByOther(o, <<"mail", y.who>>) /\ Became(o, z)
                         /\ UNCHANGED <<Accounts, Schools, invited, setups>>
  BY DEF TakeSlug, LockOrg, LockEmail
<1> HIDE DEF x, z
<1>6. CASE GiveUp(o)
  BY <1>6, GivenUp
<1>7. CASE Became(o, x) /\ ~HeldByOther(o, <<"org", g>>) /\ (g \notin Founded \/ ~Taken(y.site))
  <2>1. /\ y.site \notin Built
        /\ \A t \in Built \ renamed : OrgOf[t] = g => Normal[name[t]] # Normal[NameOf[y.site]]
    BY <1>1, <1>7 DEF Founded, Taken
  <2>2. SoundSetup(x)
    BY <1>2, <1>3, <2>1 DEF SoundSetup, Building, Creating, Giving, Keeping, Administering
  <2> QED
    BY <1>3, <1>5, <1>6, <1>7, <2>2, GoesOn DEF TakeSlug
<1>8. CASE LockEmail(o)
  <2>1. SoundSetup(z)
    BY <1>1, <1>2, <1>4, <1>5, <1>8 DEF SoundSetup, Building, Creating, Giving, Keeping, Administering
  <2> QED
    BY <1>4, <1>5, <1>8, <2>1, GoesOn
<1> QED
  BY <1>5, <1>6, <1>7, <1>8

LEMMA ResolveStep ==
  ASSUME OnboardInv, NEW o \in Operator, Resolve(o)
  PROVE  OnboardInv'
<1> DEFINE y == setup[o]
           e == y.who
           s == y.site
           g == OrgOf[s]
           admin == <<e, "SCHOOL_ADMIN", IF y.kind = "found" THEN g ELSE s>>
           here == <<e, "SCHOOL_ADMIN", s>>
<1>1. /\ y \in Setup /\ SoundSetup(y) /\ y.pc = "resolve" /\ s \in Site /\ e \in Email
      /\ y.drop \in SUBSET Role
  BY DEF OnboardInv, OnboardTypeOK, Setup, Resolve
<1>2. /\ y.kind \in {"found", "add"} /\ ~y.fresh /\ y.src # "none"
      /\ <<"org", g>> \in y.held /\ s \notin Built
      /\ \A t \in Built \ renamed : OrgOf[t] = g => Normal[name[t]] # Normal[NameOf[s]]
  BY <1>1 DEF SoundSetup, Creating, Building
<1>3. g \in Org /\ OrgAt(g) = g /\ OrgAt(s) = g /\ s \in Scope /\ g \in Scope
  BY <1>1, Places
<1>4. admin \in Role /\ here \in Role
  BY <1>1, <1>3 DEF Role, NonSchool, Schooling
<1>5. /\ admin[1] = e /\ admin[2] \notin NonSchool /\ OrgAt(admin[3]) = g
      /\ here[1] = e /\ here[2] \notin NonSchool /\ OrgAt(here[3]) = g
      /\ \E h \in {s, g} : admin = <<e, "SCHOOL_ADMIN", h>>
  BY <1>3 DEF NonSchool
<1>6. \/ GiveUp(o)
      \/ /\ e \notin known
         /\ Became(o, [y EXCEPT !.pc = "insert", !.fresh = TRUE, !.grant = {admin}])
         /\ UNCHANGED <<Accounts, Schools, invited, setups>>
      \/ /\ e \in known /\ Reusable(e, g)
         /\ Became(o, [y EXCEPT !.pc = "commit",
              !.grant = IF CoversAll(e, g) THEN {} ELSE {here}])
         /\ UNCHANGED <<Accounts, Schools, invited, setups>>
  BY DEF Resolve
<1>7. CASE /\ e \notin known
           /\ Became(o, [y EXCEPT !.pc = "insert", !.fresh = TRUE, !.grant = {admin}])
           /\ UNCHANGED <<Accounts, Schools, invited, setups>>
  <2> DEFINE x == [y EXCEPT !.pc = "insert", !.fresh = TRUE, !.grant = {admin}]
  <2> HIDE DEF admin, y
  <2>1. /\ x \in Setup /\ x.pc = "insert" /\ x.fresh /\ x.grant = {admin} /\ x.kind = y.kind
        /\ x.who = y.who /\ x.site = y.site /\ x.src = y.src /\ x.drop = y.drop /\ x.held = y.held
    BY <1>1, <1>4 DEF Setup
  <2>2. y.drop = {}
    BY <1>1 DEF SoundSetup, Creating
  <2> HIDE DEF x
  <2>3. SoundSetup(x)
    BY <1>1, <1>2, <1>5, <2>1, <2>2 DEF SoundSetup, Building, Creating, Giving, Keeping, Administering
  <2> QED
    BY <1>7, <2>1, <2>3, GoesOn DEF x, y
<1>8. CASE /\ e \in known /\ Reusable(e, g)
           /\ Became(o, [y EXCEPT !.pc = "commit",
                !.grant = IF CoversAll(e, g) THEN {} ELSE {here}])
           /\ UNCHANGED <<Accounts, Schools, invited, setups>>
  <2> DEFINE rows == IF CoversAll(e, g) THEN {} ELSE {here}
             x == [y EXCEPT !.pc = "commit", !.grant = rows]
  <2>1. rows \in SUBSET {here} /\ (here \in rows \/ <<e, "SCHOOL_ADMIN", g>> \in role)
    BY DEF CoversAll
  <2>2. \A r \in role : r[1] = e => OrgAt(r[3]) = g
    BY <1>8 DEF Reusable, RolesOf, OnboardInv, AccountsKeepTheirPlace
  <2>3. Became(o, x)
    BY <1>8
  <2>4. y.drop = {}
    BY <1>1 DEF SoundSetup, Creating
  <2>5. here = <<e, "SCHOOL_ADMIN", s>>
    OBVIOUS
  <2> HIDE DEF here, y, rows
  <2>6. /\ x \in Setup /\ x.pc = "commit" /\ x.fresh = y.fresh /\ x.grant = rows /\ x.kind = y.kind
        /\ x.who = y.who /\ x.site = y.site /\ x.src = y.src /\ x.drop = y.drop /\ x.held = y.held
    BY <1>1, <1>4, <2>1 DEF Setup
  <2> HIDE DEF x
  <2>7. SoundSetup(x)
    BY <1>1, <1>2, <1>5, <1>8, <2>1, <2>2, <2>4, <2>5, <2>6
       DEF SoundSetup, Building, Creating, Giving, Keeping, Administering
  <2> QED
    BY <1>8, <2>3, <2>6, <2>7, GoesOn DEF y
<1> QED
  BY <1>6, <1>7, <1>8, GivenUp

LEMMA InsertStep ==
  ASSUME OnboardInv, NEW o \in Operator, Insert(o)
  PROVE  OnboardInv'
<1> DEFINE y == setup[o]
           held == y.held \cup {<<"key", y.who>>}
           x == [y EXCEPT !.pc = "commit", !.held = held]
<1>1. /\ y \in Setup /\ SoundSetup(y) /\ y.pc = "insert" /\ y.held \subseteq Latch /\ y.who \in Email
      /\ y.who \notin known
  BY DEF OnboardInv, OnboardTypeOK, Setup, Insert
<1>2. held \in SUBSET Latch
  BY <1>1 DEF Latch
<1>3. /\ Became(o, x) /\ UNCHANGED <<Accounts, Schools, invited, setups>>
      /\ ~HeldByOther(o, <<"key", y.who>>)
  BY DEF Insert
<1>4. \A r \in role : r[1] \in known
  BY DEF OnboardInv, OnboardTypeOK
<1>5. \A l \in held : l \in setup[o].held \/ ~HeldByOther(o, l)
  BY <1>3
<1>6. <<"key", y.who>> \in held /\ y.held \subseteq held
  OBVIOUS
<1> HIDE DEF y, held
<1>7. /\ x \in Setup /\ x.pc = "commit" /\ x.held = held /\ x.fresh = y.fresh /\ x.grant = y.grant
      /\ x.kind = y.kind /\ x.who = y.who /\ x.site = y.site /\ x.src = y.src /\ x.drop = y.drop
  BY <1>1, <1>2 DEF Setup
<1> HIDE DEF x
<1>8. SoundSetup(x)
  <2>1. Building(x) /\ Creating(x) /\ Giving(x)
    BY <1>1, <1>6, <1>7 DEF SoundSetup, Building, Creating, Giving
  <2>2. Keeping(x)
    BY <1>1, <1>4, <1>7 DEF SoundSetup, Creating, Keeping
  <2>3. Administering(x)
    BY <1>1, <1>7 DEF SoundSetup, Creating, Administering
  <2> QED
    BY <2>1, <2>2, <2>3 DEF SoundSetup
<1> QED
  BY <1>3, <1>5, <1>7, <1>8, GoesOn

\* What a commit does, for a request y that is sound.
Commits(o, y) ==
  /\ y.pc = "commit" /\ y = setup[o]
  /\ known' = known \cup (IF y.fresh THEN {y.who} ELSE {})
  /\ active' = active \cup (IF y.fresh THEN {y.who} ELSE {})
  /\ flagged' = IF y.kind = "promote" THEN flagged \cup {y.who} ELSE flagged
  /\ role' = (role \ y.drop) \cup y.grant
  /\ IF y.kind \in {"found", "add"}
     THEN /\ name' = [name EXCEPT ![y.site] = NameOf[y.site]]
          /\ source' = [source EXCEPT ![y.site] = y.src]
     ELSE UNCHANGED <<name, source>>
  /\ Became(o, IF y.fresh /\ y.kind \in {"invite", "partner"}
               THEN [NoSetup EXCEPT !.pc = "mail", !.who = y.who] ELSE NoSetup)
  /\ UNCHANGED <<renamed, invited, setups>>

LEMMA CommitsFacts ==
  ASSUME OnboardInv, NEW o \in Operator, CommitSetup(o)
  PROVE  \E y \in Setup : SoundSetup(y) /\ Commits(o, y)
<1>1. setup[o] \in Setup /\ SoundSetup(setup[o])
  BY DEF OnboardInv, OnboardTypeOK
<1>2. Commits(o, setup[o])
  BY DEF CommitSetup, Commits, SourceRow
<1> QED
  BY <1>1, <1>2

\* The schools and the rows that a commit leaves.
LEMMA CommitSchools ==
  ASSUME OnboardInv, NEW o \in Operator, NEW y \in Setup, SoundSetup(y), Commits(o, y)
  PROVE  /\ Built' = IF y.kind \in {"found", "add"} THEN Built \cup {y.site} ELSE Built
         /\ Founded \subseteq Founded'
         /\ y.kind \in {"found", "add"} =>
              y.site \in Site /\ y.site \notin Built /\ OrgOf[y.site] \in Founded'
         /\ \A t \in Built : name'[t] = name[t]
         /\ name' \in [Site -> {NameOf[s] : s \in Site} \cup {NoName}]
         /\ source' \in [Site -> Source] /\ \A s \in Site : source'[s] = "none" <=> s \notin Built'
<1>1. y.site \in Site /\ y.src \in Source /\ NameOf[y.site] # NoName
  BY RowsAssumption DEF Setup
<1>2. y.kind \in {"found", "add"} => y.site \notin Built /\ y.src # "none"
  BY DEF SoundSetup, Building, Commits
<1>3. Built' = IF y.kind \in {"found", "add"} THEN Built \cup {y.site} ELSE Built
  BY <1>1 DEF Built, Commits, OnboardInv, OnboardTypeOK
<1>4. Founded \subseteq Founded' /\ (y.kind \in {"found", "add"} => OrgOf[y.site] \in Founded')
  BY <1>3 DEF Founded
<1>5. \A t \in Built : name'[t] = name[t]
  BY <1>2 DEF Commits, Built, OnboardInv, OnboardTypeOK
<1>6. name' \in [Site -> {NameOf[s] : s \in Site} \cup {NoName}]
  <2>1. NameOf[y.site] \in {NameOf[s] : s \in Site} \cup {NoName}
    BY <1>1
  <2>2. name \in [Site -> {NameOf[s] : s \in Site} \cup {NoName}]
    BY DEF OnboardInv, OnboardTypeOK
  <2> QED
    BY <1>1, <2>1, <2>2 DEF Commits
<1>7. source' \in [Site -> Source]
  BY <1>1 DEF Commits, OnboardInv, OnboardTypeOK
<1>8. \A s \in Site : source'[s] = "none" <=> s \notin Built'
  BY <1>1, <1>2, <1>3 DEF Commits, OnboardInv, OnboardTypeOK
<1> QED
  BY <1>1, <1>2, <1>3, <1>4, <1>5, <1>6, <1>7, <1>8

\* The roles that a commit leaves.
LEMMA CommitRoles ==
  ASSUME OnboardInv, NEW o \in Operator, NEW y \in Setup, SoundSetup(y), Commits(o, y)
  PROVE  /\ role' \subseteq Role
         /\ \A r \in role' : r \in role \/ r \in y.grant
         /\ \A r \in role : r[3] \notin Site /\ r[2] # "SUPER_ADMIN" => r \in role'
         /\ \A r \in role : r[1] # y.who => r \in role'
         /\ \A r \in y.grant : r[1] = y.who /\ r \in role'
         /\ KnownHaveRoles'
<1>1. y.grant \subseteq Role /\ y.pc = "commit" /\ y.who \in Email
  BY DEF Setup, Commits
<1>2. role' \subseteq Role
  BY <1>1 DEF Commits, OnboardInv, OnboardTypeOK
<1>3. \A r \in y.drop : r[1] = y.who /\ (r[3] \in Site \/ r[2] = "SUPER_ADMIN")
  BY <1>1 DEF SoundSetup, Keeping
<1>4. \A r \in y.grant : r[1] = y.who
  BY <1>1 DEF SoundSetup, Giving
<1>5. \E r \in role' : r[1] = y.who
  <2>1. CASE y.grant # {}
    BY <1>4, <2>1 DEF Commits
  <2>2. CASE y.grant = {} /\ y.drop = {}
    <3>1. y.who \in known
      BY <1>1, <2>2 DEF SoundSetup, Creating
    <3> QED
      BY <2>2, <3>1 DEF Commits, OnboardInv, KnownHaveRoles
  <2>3. CASE y.grant = {} /\ y.drop # {}
    <3>1. <<y.who, "PLATFORM_OWNER", Global>> \in role
      BY <1>1, <2>3 DEF SoundSetup, Keeping
    <3>2. <<y.who, "PLATFORM_OWNER", Global>> \notin y.drop
      BY <1>3, ScopeAssumption
    <3>3. <<y.who, "PLATFORM_OWNER", Global>> \in role'
      BY <3>1, <3>2 DEF Commits
    <3> QED
      BY <3>3
  <2> QED
    BY <2>1, <2>2, <2>3
<1>6. \A r \in role : r[1] # y.who => r \in role'
  BY <1>3 DEF Commits
<1>7. KnownHaveRoles'
  <2> SUFFICES ASSUME NEW e \in known', e # y.who PROVE \E r \in role' : r[1] = e
    BY <1>5 DEF KnownHaveRoles
  <2>1. e \in known
    BY DEF Commits
  <2> QED
    BY <1>6, <2>1 DEF OnboardInv, KnownHaveRoles
<1> QED
  BY <1>2, <1>3, <1>4, <1>6, <1>7 DEF Commits

\* The place of an account that a commit gives roles to.
LEMMA CommitPlaces ==
  ASSUME OnboardInv, NEW o \in Operator, NEW y \in Setup, SoundSetup(y), Commits(o, y)
  PROVE  AccountsKeepTheirPlace'
<1>1. /\ role' \subseteq Role /\ \A r \in role' : r \in role \/ r \in y.grant
      /\ \A r \in y.grant : r[1] = y.who
  BY CommitRoles
<1>2. /\ \A g \in y.grant, r \in role : r[1] = y.who => OrgAt(r[3]) = OrgAt(g[3])
      /\ \A g, h \in y.grant : g = h
      /\ \A g \in y.grant : g[2] \in NonSchool => g[3] = Global
      /\ y.kind = "promote" => y.who \in known /\ \A r \in role : r[1] = y.who => r[3] = Global
  BY DEF SoundSetup, Keeping, Giving, Creating, Commits
<1>3. \A r, q \in role' : r[1] = q[1] => OrgAt(r[3]) = OrgAt(q[3])
  BY <1>1, <1>2 DEF OnboardInv, AccountsKeepTheirPlace
<1>4. ASSUME NEW r \in role', r[2] \in NonSchool \/ r[1] \in flagged' PROVE r[3] = Global
  <2>1. CASE r \in role
    BY <1>2, <1>4, <2>1 DEF Commits, OnboardInv, AccountsKeepTheirPlace
  <2>2. CASE r \in y.grant /\ r[2] \in NonSchool
    BY <1>2, <2>2
  <2>3. CASE r \in y.grant /\ r[1] \in flagged'
    <3>1. r[1] = y.who /\ y.who \in known
      BY <1>1, <1>2, <2>3 DEF Commits, OnboardInv, OnboardTypeOK
    <3>2. PICK q \in role : q[1] = y.who
      BY <3>1 DEF OnboardInv, KnownHaveRoles
    <3>3. q[3] = Global
      BY <1>2, <2>3, <3>1, <3>2 DEF Commits, OnboardInv, AccountsKeepTheirPlace
    <3>4. OrgAt(q[3]) = OrgAt(r[3]) /\ r \in Role /\ q \in Role
      BY <1>1, <1>2, <2>3, <3>2 DEF OnboardInv, OnboardTypeOK
    <3> QED
      BY <3>3, <3>4, Places
  <2> QED
    BY <1>1, <1>4, <2>1, <2>2, <2>3
<1> QED
  BY <1>3, <1>4 DEF AccountsKeepTheirPlace

\* What other requests know is not changed by a commit.
LEMMA CommitOthers ==
  ASSUME OnboardInv, NEW o \in Operator, NEW y \in Setup, SoundSetup(y), Commits(o, y),
         NEW p \in Operator, p # o, NEW z \in Setup, z = setup[p]
  PROVE  SoundSetup(z)'
<1>1. /\ SoundSetup(z) /\ z.held \cap y.held = {} /\ y.pc = "commit"
  BY DEF OnboardInv, Exclusive, Commits
<1>2. /\ role' \subseteq Role /\ \A r \in role' : r \in role \/ r \in y.grant
      /\ \A r \in role : r[3] \notin Site /\ r[2] # "SUPER_ADMIN" => r \in role'
      /\ \A r \in y.grant : r[1] = y.who
  BY CommitRoles
<1>3. /\ Built' = IF y.kind \in {"found", "add"} THEN Built \cup {y.site} ELSE Built
      /\ Founded \subseteq Founded' /\ \A t \in Built : name'[t] = name[t]
      /\ y.kind \in {"found", "add"} => y.site \notin Built
  BY CommitSchools
<1>4. UNCHANGED renamed
  BY DEF Commits
<1>5. Building(z)'
  <2> SUFFICES ASSUME z.kind \in {"found", "add"}, z.pc \in {"email", "resolve", "insert", "commit"}
               PROVE  /\ z.site \notin Built'
                      /\ \A t \in Built' \ renamed' :
                           OrgOf[t] = OrgOf[z.site] => Normal[name'[t]] # Normal[NameOf[z.site]]
    BY <1>1 DEF SoundSetup, Building
  <2>1. /\ <<"org", OrgOf[z.site]>> \in z.held /\ z.site \notin Built
        /\ \A t \in Built \ renamed : OrgOf[t] = OrgOf[z.site] => Normal[name[t]] # Normal[NameOf[z.site]]
    BY <1>1 DEF SoundSetup, Building
  <2>2. y.kind \in {"found", "add"} => OrgOf[y.site] # OrgOf[z.site]
    <3>1. y.kind \in {"found", "add"} => <<"org", OrgOf[y.site]>> \in y.held
      BY <1>1 DEF SoundSetup, Building
    <3> QED
      BY <1>1, <2>1, <3>1
  <2> QED
    BY <1>3, <1>4, <2>1, <2>2
<1>6. z.pc = "commit" => /\ z.fresh => z.who # y.who \/ (y.who \in known /\ ~y.fresh)
                         /\ ~z.fresh /\ z.who = y.who => ~y.fresh
  BY <1>1 DEF SoundSetup, Creating
<1>7. Creating(z)'
  <2>1. z.pc = "commit" /\ z.fresh => z.who \notin known'
    BY <1>1, <1>6 DEF SoundSetup, Creating, Commits
  <2>2. known \subseteq known'
    BY DEF Commits
  <2> QED
    BY <1>1, <2>1, <2>2 DEF SoundSetup, Creating
<1>8. Giving(z)'
  BY <1>1, <1>3 DEF SoundSetup, Giving
<1>9. Keeping(z)'
  <2> SUFFICES ASSUME z.pc = "commit"
               PROVE  /\ \A g \in z.grant, r \in role' : r[1] = z.who => OrgAt(r[3]) = OrgAt(g[3])
                      /\ z.kind = "promote" => \A r \in role' : r[1] = z.who => r[3] = Global
                      /\ z.grant # {} \/ z.drop = {} \/ <<z.who, "PLATFORM_OWNER", Global>> \in role'
    BY <1>1 DEF SoundSetup, Keeping
  <2>1. ASSUME NEW r \in y.grant, r[1] = z.who
        PROVE  \E q \in role : q[1] = z.who /\ OrgAt(q[3]) = OrgAt(r[3])
    <3>1. z.who = y.who /\ z.who \in known
      BY <1>1, <1>2, <1>6, <2>1 DEF SoundSetup, Creating
    <3>2. PICK q \in role : q[1] = z.who
      BY <3>1 DEF OnboardInv, KnownHaveRoles
    <3> QED
      BY <1>1, <2>1, <3>1, <3>2 DEF SoundSetup, Keeping
  <2>2. \A r \in role' : r[1] = z.who => \E q \in role : q[1] = z.who /\ OrgAt(q[3]) = OrgAt(r[3])
    BY <1>2, <2>1
  <2>3. \A g \in z.grant, r \in role' : r[1] = z.who => OrgAt(r[3]) = OrgAt(g[3])
    BY <1>1, <2>2 DEF SoundSetup, Keeping
  <2>4. z.kind = "promote" => \A r \in role' : r[1] = z.who => r[3] = Global
    <3>1. z.kind = "promote" => \A q \in role : q[1] = z.who => OrgAt(q[3]) = Global
      BY <1>1, Places DEF SoundSetup, Keeping, Scope
    <3> QED
      BY <1>2, <2>2, <3>1, Places
  <2>5. z.grant # {} \/ z.drop = {} \/ <<z.who, "PLATFORM_OWNER", Global>> \in role'
    <3>1. z.grant # {} \/ z.drop = {} \/ <<z.who, "PLATFORM_OWNER", Global>> \in role
      BY <1>1 DEF SoundSetup, Keeping
    <3> QED
      BY <1>2, <3>1, ScopeAssumption
  <2> QED
    BY <2>3, <2>4, <2>5
<1>10. Administering(z)'
  <2>1. <<z.who, "SCHOOL_ADMIN", OrgOf[z.site]>> \in role
          => <<z.who, "SCHOOL_ADMIN", OrgOf[z.site]>> \in role'
    <3>1. OrgOf[z.site] \notin Site
      BY Places DEF Setup
    <3> QED
      BY <1>2, <3>1
  <2> QED
    BY <1>1, <2>1 DEF SoundSetup, Administering
<1> QED
  BY <1>5, <1>7, <1>8, <1>9, <1>10 DEF SoundSetup

LEMMA CommitSetupStep ==
  ASSUME OnboardInv, NEW o \in Operator, CommitSetup(o)
  PROVE  OnboardInv'
<1>1. PICK y \in Setup : SoundSetup(y) /\ Commits(o, y)
  BY CommitsFacts
<1>2. /\ role' \subseteq Role /\ \A r \in role' : r \in role \/ r \in y.grant
      /\ \A r \in y.grant : r[1] = y.who
      /\ KnownHaveRoles'
  BY <1>1, CommitRoles
<1>3. /\ Built' = IF y.kind \in {"found", "add"} THEN Built \cup {y.site} ELSE Built
      /\ Founded \subseteq Founded'
      /\ y.kind \in {"found", "add"} =>
           y.site \in Site /\ y.site \notin Built /\ OrgOf[y.site] \in Founded'
      /\ \A t \in Built : name'[t] = name[t]
      /\ name' \in [Site -> {NameOf[s] : s \in Site} \cup {NoName}]
      /\ source' \in [Site -> Source] /\ \A s \in Site : source'[s] = "none" <=> s \notin Built'
  BY <1>1, CommitSchools
<1>4. y.who \in Email /\ (y.fresh \/ y.who \in known) /\ y.who \in known'
  BY <1>1 DEF Setup, SoundSetup, Creating, Commits
<1>5. PICK x \in Setup : SoundSetup(x)' /\ Became(o, x) /\ x.held = {}
  <2>1. CASE y.fresh /\ y.kind \in {"invite", "partner"}
    <3> DEFINE x == [NoSetup EXCEPT !.pc = "mail", !.who = y.who]
    <3>1. x \in Setup /\ x.pc = "mail" /\ x.held = {} /\ x.who = y.who /\ x.kind = "found"
      BY <1>4, NoSetupFields DEF Setup, NoSetup
    <3>2. Became(o, x)
      BY <1>1, <2>1 DEF Commits
    <3> HIDE DEF x
    <3>3. SoundSetup(x)'
      BY <1>4, <3>1 DEF SoundSetup, Building, Creating, Giving, Keeping, Administering
    <3> QED
      BY <3>1, <3>2, <3>3
  <2>2. CASE ~(y.fresh /\ y.kind \in {"invite", "partner"})
    <3>1. Became(o, NoSetup)
      BY <1>1, <2>2 DEF Commits
    <3>2. SoundSetup(NoSetup)'
      BY NoSetupFields DEF SoundSetup, Building, Creating, Giving, Keeping, Administering
    <3> QED
      BY <3>1, <3>2, NoSetupFields
  <2> QED
    BY <2>1, <2>2
<1>6. /\ setup' \in [Operator -> Setup] /\ setup'[o] = x
      /\ \A p \in Operator : p # o => setup'[p] = setup[p]
  BY <1>5 DEF OnboardInv, OnboardTypeOK, Became
<1>7. OnboardTypeOK'
  <2>1. active' \subseteq known' /\ flagged' \subseteq known' /\ known' \subseteq Email
    BY <1>1, <1>4 DEF Commits, OnboardInv, OnboardTypeOK
  <2>2. \A r \in role' : r[1] \in known'
    <3>1. known \subseteq known'
      BY <1>1 DEF Commits
    <3> QED
      BY <1>2, <1>4, <3>1 DEF OnboardInv, OnboardTypeOK
  <2>3. \A r \in role' : r[3] # Global => OrgAt(r[3]) \in Founded'
    <3>1. \A r \in y.grant : r[3] # Global =>
            OrgAt(r[3]) \in Founded \/ (y.kind \in {"found", "add"} /\ OrgAt(r[3]) = OrgOf[y.site])
      BY <1>1 DEF SoundSetup, Giving, Commits
    <3> QED
      BY <1>2, <1>3, <3>1 DEF OnboardInv, OnboardTypeOK
  <2>4. renamed' \subseteq Built' /\ invited' \subseteq Email /\ setups' \in 0 .. MaxSetups
    BY <1>1, <1>3 DEF Commits, OnboardInv, OnboardTypeOK
  <2> QED
    BY <1>2, <1>3, <1>6, <2>1, <2>2, <2>3, <2>4 DEF OnboardTypeOK
<1>8. AccountsKeepTheirPlace'
  BY <1>1, CommitPlaces
<1>9. OneSchoolPerName'
  <2>1. y.kind \in {"found", "add"} => \A t \in Built \ renamed :
          OrgOf[t] = OrgOf[y.site] => Normal[name[t]] # Normal[NameOf[y.site]]
    BY <1>1 DEF SoundSetup, Building, Commits
  <2>2. y.kind \in {"found", "add"} => name'[y.site] = NameOf[y.site]
    BY <1>1, <1>3 DEF Commits, OnboardInv, OnboardTypeOK
  <2>3. UNCHANGED renamed
    BY <1>1 DEF Commits
  <2> QED
    BY <1>3, <2>1, <2>2, <2>3 DEF OnboardInv, OneSchoolPerName
<1>10. InvitedAccountsExist'
  BY <1>1 DEF Commits, OnboardInv, InvitedAccountsExist
<1>11. Exclusive'
  BY <1>5, <1>6 DEF OnboardInv, Exclusive
<1>12. ASSUME NEW p \in Operator PROVE SoundSetup(setup[p])'
  <2>1. CASE p = o
    BY <1>5, <1>6, <2>1 DEF SoundSetup, Building, Creating, Giving, Keeping, Administering
  <2>2. CASE p # o
    <3>1. PICK z \in Setup : z = setup[p]
      BY DEF OnboardInv, OnboardTypeOK
    <3>2. SoundSetup(z)' /\ setup'[p] = z
      BY <1>1, <1>6, <2>2, <3>1, CommitOthers
    <3> QED
      BY <3>2 DEF SoundSetup, Building, Creating, Giving, Keeping, Administering
  <2> QED
    BY <2>1, <2>2
<1> QED
  BY <1>2, <1>7, <1>8, <1>9, <1>10, <1>11, <1>12 DEF OnboardInv

\* The link is sent to an account that is there.
LEMMA InviteStep ==
  ASSUME OnboardInv, NEW o \in Operator, Invite(o)
  PROVE  OnboardInv'
<1>1. SoundSetup(setup[o]) /\ setup[o].pc = "mail"
  BY DEF OnboardInv, Invite
<1>2. setup[o].who \in known
  BY <1>1 DEF SoundSetup, Creating
<1>3. /\ UNCHANGED <<known, active, flagged, role, name, renamed, source, setups>>
      /\ invited' = invited \cup {setup[o].who}
  BY DEF Invite, Accounts, Schools
<1>4. Built' = Built /\ Founded' = Founded
  BY <1>3 DEF Built, Founded
<1>5. /\ setup' \in [Operator -> Setup] /\ setup'[o] = NoSetup
      /\ \A p \in Operator : p # o => setup'[p] = setup[p]
  BY NoSetupFields DEF OnboardInv, OnboardTypeOK, Invite, Became
<1>6. OnboardTypeOK'
  BY <1>2, <1>3, <1>4, <1>5 DEF OnboardInv, OnboardTypeOK
<1>7. AccountsKeepTheirPlace' /\ OneSchoolPerName' /\ InvitedAccountsExist' /\ KnownHaveRoles'
  BY <1>2, <1>3, <1>4
     DEF OnboardInv, AccountsKeepTheirPlace, OneSchoolPerName, InvitedAccountsExist, KnownHaveRoles
<1>8. Exclusive'
  BY <1>5, NoSetupFields DEF OnboardInv, Exclusive
<1>9. ASSUME NEW p \in Operator PROVE SoundSetup(setup[p])'
  <2>1. PICK y : y = setup'[p] /\ SoundSetup(y)
    BY <1>5, NoSetupFields DEF OnboardInv
  <2>2. Building(y)' /\ Creating(y)' /\ Giving(y)' /\ Keeping(y)' /\ Administering(y)'
    BY <1>3, <1>4, <2>1 DEF SoundSetup, Building, Creating, Giving, Keeping, Administering
  <2> QED
    BY <2>1, <2>2 DEF SoundSetup, Building, Creating, Giving, Keeping, Administering
<1> QED
  BY <1>6, <1>7, <1>8, <1>9 DEF OnboardInv

\* A school is renamed, an account is switched off or on: no request notices.
LEMMA RenameStep ==
  ASSUME OnboardInv, NEW s \in Site, NEW t \in Site, Rename(s, NameOf[t])
  PROVE  OnboardInv'
<1>1. /\ UNCHANGED <<known, active, flagged, role, source, setup, invited>>
      /\ name' = [name EXCEPT ![s] = NameOf[t]] /\ renamed' = renamed \cup {s}
      /\ s \in Built /\ setups' \in 0 .. MaxSetups
  BY ScopeAssumption DEF Rename, Accounts, OnboardInv, OnboardTypeOK
<1>2. NameOf[t] # NoName /\ NameOf[t] \in {NameOf[u] : u \in Site}
  BY RowsAssumption
<1>3. /\ \A u \in Site : u # s => name'[u] = name[u]
      /\ name'[s] = NameOf[t]
  BY <1>1 DEF OnboardInv, OnboardTypeOK
<1>4. Built' = Built /\ Founded' = Founded
  <2>1. Built' = Built
    BY <1>1, <1>2, <1>3 DEF Built
  <2> QED
    BY <2>1 DEF Founded
<1>5. \A u \in Built \ renamed' : u \in Built \ renamed /\ name'[u] = name[u]
  BY <1>1, <1>3 DEF Built
<1>6. OnboardTypeOK'
  <2>1. name' \in [Site -> {NameOf[u] : u \in Site} \cup {NoName}]
    <3>1. name \in [Site -> {NameOf[u] : u \in Site} \cup {NoName}]
      BY DEF OnboardInv, OnboardTypeOK
    <3>2. NameOf[t] \in {NameOf[u] : u \in Site} \cup {NoName}
      BY <1>2
    <3> QED
      BY <1>1, <3>1, <3>2
  <2>2. renamed' \subseteq Built'
    BY <1>1, <1>4 DEF OnboardInv, OnboardTypeOK
  <2> QED
    BY <1>1, <1>4, <2>1, <2>2 DEF OnboardInv, OnboardTypeOK
<1>7. OneSchoolPerName'
  <2> SUFFICES ASSUME NEW u \in Built \ renamed', NEW v \in Built \ renamed', u # v, OrgOf[u] = OrgOf[v]
               PROVE  Normal[name'[u]] # Normal[name'[v]]
    BY <1>4 DEF OneSchoolPerName
  <2>1. u \in Built \ renamed /\ v \in Built \ renamed /\ name'[u] = name[u] /\ name'[v] = name[v]
    BY <1>5
  <2> QED
    BY <2>1 DEF OnboardInv, OneSchoolPerName
<1>8. AccountsKeepTheirPlace' /\ InvitedAccountsExist' /\ KnownHaveRoles' /\ Exclusive'
  BY <1>1 DEF OnboardInv, AccountsKeepTheirPlace, InvitedAccountsExist, KnownHaveRoles, Exclusive
<1>9. ASSUME NEW p \in Operator PROVE SoundSetup(setup[p])'
  <2>1. PICK y : y = setup'[p] /\ SoundSetup(y)
    BY <1>1 DEF OnboardInv
  <2>2. Building(y)'
    <3> SUFFICES ASSUME y.kind \in {"found", "add"}, y.pc \in {"email", "resolve", "insert", "commit"},
                        NEW u \in Built \ renamed', OrgOf[u] = OrgOf[y.site]
                 PROVE  Normal[name'[u]] # Normal[NameOf[y.site]]
      BY <1>4, <2>1 DEF SoundSetup, Building
    <3> QED
      BY <1>5, <2>1 DEF SoundSetup, Building
  <2>3. Creating(y)' /\ Giving(y)' /\ Keeping(y)' /\ Administering(y)'
    BY <1>1, <1>4, <2>1 DEF SoundSetup, Creating, Giving, Keeping, Administering
  <2> QED
    BY <2>1, <2>2, <2>3 DEF SoundSetup, Building, Creating, Giving, Keeping, Administering
<1> QED
  BY <1>6, <1>7, <1>8, <1>9 DEF OnboardInv

LEMMA ActiveStep ==
  ASSUME OnboardInv, NEW e \in Email, SetActive(e)
  PROVE  OnboardInv'
<1>1. /\ UNCHANGED <<known, flagged, role, name, renamed, source, setup, invited>>
      /\ active' = (IF e \in active THEN active \ {e} ELSE active \cup {e})
      /\ e \in known /\ setups' \in 0 .. MaxSetups
  BY ScopeAssumption DEF SetActive, RolesOf, Schools, OnboardInv, OnboardTypeOK
<1>2. Built' = Built /\ Founded' = Founded
  BY <1>1 DEF Built, Founded
<1>3. OnboardTypeOK'
  BY <1>1, <1>2 DEF OnboardInv, OnboardTypeOK
<1>4. /\ AccountsKeepTheirPlace' /\ OneSchoolPerName' /\ InvitedAccountsExist' /\ KnownHaveRoles'
      /\ Exclusive'
  BY <1>1, <1>2 DEF OnboardInv, AccountsKeepTheirPlace, OneSchoolPerName, InvitedAccountsExist,
                    KnownHaveRoles, Exclusive
<1>5. ASSUME NEW p \in Operator PROVE SoundSetup(setup[p])'
  <2>1. PICK y : y = setup'[p] /\ SoundSetup(y)
    BY <1>1 DEF OnboardInv
  <2>2. Building(y)' /\ Creating(y)' /\ Giving(y)' /\ Keeping(y)' /\ Administering(y)'
    BY <1>1, <1>2, <2>1 DEF SoundSetup, Building, Creating, Giving, Keeping, Administering
  <2> QED
    BY <2>1, <2>2 DEF SoundSetup, Building, Creating, Giving, Keeping, Administering
<1> QED
  BY <1>3, <1>4, <1>5 DEF OnboardInv

LEMMA NextOnboard == OnboardInv /\ [OnboardNext]_setupVars => OnboardInv'
<1> SUFFICES ASSUME OnboardInv, [OnboardNext]_setupVars PROVE OnboardInv'
  OBVIOUS
<1>1. ASSUME NEW o \in Operator, NEW s \in Site, NEW e \in Email, NEW src \in Source \ {"none"},
             AskFound(o, s, e, src) \/ AskAdd(o, s, e, src)
      PROVE  OnboardInv'
  BY <1>1, AskSchool
<1>2. ASSUME NEW o \in Operator, NEW s \in Site, NEW e \in Email, NEW code \in Schooling,
             AskInvite(o, s, e, code) \/ AskChange(o, s, e, code)
      PROVE  OnboardInv'
  BY <1>2, AskStaff, AskRoles
<1>3. ASSUME NEW o \in Operator, NEW e \in Email, AskPartner(o, e) \/ AskPromote(o, e)
      PROVE  OnboardInv'
  BY <1>3, AskPlatform
<1>4. ASSUME NEW o \in Operator, TakeSlug(o) \/ LockOrg(o) \/ LockEmail(o)
      PROVE  OnboardInv'
  BY <1>4, LockSteps
<1>5. ASSUME NEW o \in Operator, InsertConflict(o) \/ CommitConflict(o) \/ FailSetup(o)
      PROVE  OnboardInv'
  BY <1>5, GivenUp DEF InsertConflict, CommitConflict, FailSetup
<1>6. ASSUME NEW o \in Operator, Resolve(o) \/ Insert(o) \/ CommitSetup(o) \/ Invite(o)
      PROVE  OnboardInv'
  BY <1>6, ResolveStep, InsertStep, CommitSetupStep, InviteStep
<1>7. ASSUME NEW s \in Site, NEW t \in Site, Rename(s, NameOf[t]) PROVE OnboardInv'
  BY <1>7, RenameStep
<1>8. ASSUME NEW e \in Email, SetActive(e) PROVE OnboardInv'
  BY <1>8, ActiveStep
<1>9. CASE UNCHANGED setupVars
  <2>1. UNCHANGED <<known, active, flagged, role, name, renamed, source, setup, invited, setups>>
    BY <1>9 DEF setupVars
  <2>2. Built' = Built /\ Founded' = Founded
    BY <2>1 DEF Built, Founded
  <2>3. OnboardTypeOK'
    BY <2>1, <2>2 DEF OnboardInv, OnboardTypeOK
  <2>4. /\ AccountsKeepTheirPlace' /\ OneSchoolPerName' /\ InvitedAccountsExist' /\ KnownHaveRoles'
        /\ Exclusive'
    BY <2>1, <2>2 DEF OnboardInv, AccountsKeepTheirPlace, OneSchoolPerName, InvitedAccountsExist,
                      KnownHaveRoles, Exclusive
  <2>5. ASSUME NEW p \in Operator PROVE SoundSetup(setup[p])'
    <3>1. PICK y : y = setup'[p] /\ SoundSetup(y)
      BY <2>1 DEF OnboardInv
    <3>2. Building(y)' /\ Creating(y)' /\ Giving(y)' /\ Keeping(y)' /\ Administering(y)'
      BY <2>1, <2>2, <3>1 DEF SoundSetup, Building, Creating, Giving, Keeping, Administering
    <3> QED
      BY <3>1, <3>2 DEF SoundSetup, Building, Creating, Giving, Keeping, Administering
  <2> QED
    BY <2>3, <2>4, <2>5 DEF OnboardInv
<1> QED
  BY <1>1, <1>2, <1>3, <1>4, <1>5, <1>6, <1>7, <1>8, <1>9 DEF OnboardNext

LEMMA OnboardIsInv == OnboardSpec => []OnboardInv
BY InitOnboard, NextOnboard, PTL DEF OnboardSpec

\* The rows of accounts, roles, schools and requests have their types; every
\* role is of a known account and in an organization that has a school, and
\* every school has its source.
THEOREM OnboardTypeCorrect == OnboardSpec => []OnboardTypeOK
<1>1. OnboardInv => OnboardTypeOK
  BY DEF OnboardInv
<1> QED
  BY <1>1, OnboardIsInv, PTL

\* The roles of an account are all in no organization or all in one, whatever
\* requests are decided on roles they read long before
\* (platform/service.py, users/service.py, rbac/account_resolver.py).
THEOREM PlacesAreKept == OnboardSpec => []AccountsKeepTheirPlace
<1>1. OnboardInv => AccountsKeepTheirPlace
  BY DEF OnboardInv
<1> QED
  BY <1>1, OnboardIsInv, PTL

\* The school of a request that is about to commit appears with the commit of
\* that very request: it holds the organization.
LEMMA SchoolAppears ==
  ASSUME OnboardInv, OnboardNext, NEW o \in Operator, setup[o].pc = "commit",
         setup[o].kind \in {"found", "add"}, setup[o].site \notin Built, name'[setup[o].site] # NoName
  PROVE  CommitSetup(o)
<1>1. PICK z \in Setup : z = setup[o] /\ SoundSetup(z)
  BY DEF OnboardInv, OnboardTypeOK
<1>2. z.site \in Site /\ name[z.site] = NoName /\ name'[z.site] # name[z.site] /\ <<"org", OrgOf[z.site]>> \in z.held
  BY <1>1 DEF Built, Setup, SoundSetup, Building
<1>3. ASSUME NEW p \in Operator, NEW x, AskSetup(p, x) PROVE FALSE
  BY <1>2, <1>3 DEF AskSetup, Schools
<1>4. ASSUME NEW p \in Operator, GiveUp(p) PROVE FALSE
  BY <1>2, <1>4 DEF GiveUp, Schools
<1>5. ASSUME NEW p \in Operator,
             TakeSlug(p) \/ LockOrg(p) \/ LockEmail(p) \/ Resolve(p) \/ Insert(p) \/ Invite(p)
      PROVE  FALSE
  BY <1>2, <1>4, <1>5 DEF TakeSlug, LockOrg, LockEmail, Resolve, Insert, Invite, Schools
<1>6. ASSUME NEW p \in Operator, InsertConflict(p) \/ CommitConflict(p) \/ FailSetup(p) PROVE FALSE
  BY <1>4, <1>6 DEF InsertConflict, CommitConflict, FailSetup
<1>7. ASSUME NEW p \in Operator, NEW s \in Site, NEW e \in Email, NEW src \in Source \ {"none"},
              AskFound(p, s, e, src) \/ AskAdd(p, s, e, src)
       PROVE  FALSE
  BY <1>3, <1>7 DEF AskFound, AskAdd
<1>8. ASSUME NEW p \in Operator, NEW s \in Site, NEW e \in Email, NEW code \in Schooling,
              AskInvite(p, s, e, code) \/ AskChange(p, s, e, code)
       PROVE  FALSE
  BY <1>3, <1>8 DEF AskInvite, AskChange
<1>9. ASSUME NEW p \in Operator, NEW e \in Email, AskPartner(p, e) \/ AskPromote(p, e) PROVE FALSE
  BY <1>3, <1>9 DEF AskPartner, AskPromote
<1>10. ASSUME NEW e \in Email, SetActive(e) PROVE FALSE
  BY <1>2, <1>10 DEF SetActive, Schools
<1>11. \/ \E s, t \in Site : Rename(s, NameOf[t])
      \/ \E p \in Operator : CommitSetup(p)
  BY <1>5, <1>6, <1>7, <1>8, <1>9, <1>10 DEF OnboardNext
<1>12. ASSUME NEW s \in Site, NEW t \in Site, Rename(s, NameOf[t]) PROVE FALSE
  BY <1>1, <1>2, <1>12 DEF Rename, Built, OnboardInv, OnboardTypeOK
<1>13. PICK p \in Operator : CommitSetup(p)
  BY <1>11, <1>12
<1>14. p = o
  <2> SUFFICES ASSUME p # o PROVE FALSE
    OBVIOUS
  <2>1. PICK y \in Setup : SoundSetup(y) /\ Commits(p, y)
    BY <1>13, CommitsFacts
  <2>2. y.kind \in {"found", "add"} /\ y.site = z.site
    BY <1>2, <2>1 DEF Commits, OnboardInv, OnboardTypeOK
  <2>3. <<"org", OrgOf[z.site]>> \in y.held
    BY <2>1, <2>2 DEF SoundSetup, Building, Commits
  <2>4. y.held \cap z.held = {}
    BY <1>1, <2>1 DEF Exclusive, OnboardInv, Commits
  <2> QED
    BY <1>2, <2>3, <2>4
<1> QED
  BY <1>13, <1>14

\* A new school appears with its source and with the administrator asked for.
LEMMA SchoolHasAdmin ==
  ASSUME OnboardInv, NEW o \in Operator, CommitSetup(o), setup[o].kind \in {"found", "add"}
  PROVE  /\ source'[setup[o].site] # "none"
         /\ \E g \in {setup[o].site, OrgOf[setup[o].site]} : <<setup[o].who, "SCHOOL_ADMIN", g>> \in role'
<1>1. PICK y \in Setup : SoundSetup(y) /\ Commits(o, y)
  BY CommitsFacts
<1>2. y = setup[o] /\ y.pc = "commit" /\ y.site \in Site /\ y.kind \in {"found", "add"}
  BY <1>1 DEF Commits, Setup
<1>3. source'[y.site] # "none"
  BY <1>1, <1>2, CommitSchools
<1>4. \/ \E g \in {y.site, OrgOf[y.site]} : <<y.who, "SCHOOL_ADMIN", g>> \in y.grant
      \/ <<y.who, "SCHOOL_ADMIN", OrgOf[y.site]>> \in role
  BY <1>1, <1>2 DEF SoundSetup, Administering
<1>5. /\ \A r \in y.grant : r \in role'
      /\ \A r \in role : r[3] \notin Site /\ r[2] # "SUPER_ADMIN" => r \in role'
  BY <1>1, CommitRoles
<1>6. OrgOf[y.site] \notin Site
  BY <1>2, Places
<1>7. \E g \in {y.site, OrgOf[y.site]} : <<y.who, "SCHOOL_ADMIN", g>> \in role'
  BY <1>4, <1>5, <1>6
<1> QED
  BY <1>2, <1>3, <1>7

\* Names are unique in an organization, a new school has its source and its
\* administrator, and no link goes to an account that is not there, whatever
\* other requests do between the reads of one and its commit.
THEOREM FoundationsAlwaysHold == OnboardSpec => FoundationsHold
<1>1. OnboardInv => OneSchoolPerName /\ InvitedAccountsExist
  BY DEF OnboardInv
<1>2. OnboardInv /\ [OnboardNext]_setupVars =>
        [\A o \in Operator :
           LET s == setup[o].site IN
           /\ setup[o].pc = "commit" /\ setup[o].kind \in {"found", "add"}
           /\ s \notin Built /\ name'[s] # NoName
           => /\ source'[s] # "none"
              /\ \E g \in {s, OrgOf[s]} : <<setup[o].who, "SCHOOL_ADMIN", g>> \in role']_setupVars
  BY SchoolAppears, SchoolHasAdmin
<1> QED
  BY <1>1, <1>2, OnboardIsInv, PTL DEF FoundationsHold, NewSchoolHasAdmin, OnboardSpec

-----------------------------------------------------------------------------
(***************************************************************************)
(* The students and their guardians stay one entry per person, for any     *)
(* number of requests, students and files.                                 *)
(*                                                                         *)
(* The argument is that an import knows what it has read: an identity of   *)
(* its school was there when it read them, or appeared afterwards; and the *)
(* lines it keeps are new and no two alike.  Changes read a status the     *)
(* student really had, and a tie never leaves its school.                  *)
(***************************************************************************)

\* What an import read of the identities of its school, and what appeared since.
ViewsHold ==
  \A k \in Registrar : form[k].kind = "import" /\ form[k].pc = "commit" =>
    \A p \in Entered : pupil[p].school = form[k].school =>
      \/ pupil[p].who \in form[k].whos
      \/ <<pupil[p].school, pupil[p].who>> \in unseen

\* The statuses a student had, and the status a change read is one of them.  Only
\* an import reads identities.
Had(p) == {"ACTIVE"} \cup {past[p][m][2] : m \in DOMAIN past[p]}
ReadsWereReal ==
  \A k \in Registrar :
    /\ form[k].pc = "identities" => form[k].kind = "import"
    /\ form[k].kind = "change" /\ form[k].pc = "commit" =>
         /\ form[k].picked \subseteq Entered
         /\ \A p \in form[k].picked : form[k].read[p].status \in Had(p)

\* A guardian is tied to students of its own school, and two guardian rows of a
\* school never have the same account.
TiesStayInSchool == \A x \in tie : TutorAt[x[2]] = pupil[x[1]].school
OneAccountEach ==
  \A s, t \in Tutor : TutorAt[s] = TutorAt[t] /\ account[s] \cap account[t] # {} => s = t

\* The inductive invariant of the directory.
DirectoryInv ==
  /\ DirectoryTypeOK /\ ViewsHold /\ ReadsWereReal /\ TiesStayInSchool /\ OneAccountEach
  /\ ImportMakesNoTwin /\ StatusFollowsHistory

\* Rows that took the place of other rows: nobody left or changed school.
RowsGrow(rows) ==
  /\ rows \in [Pupil -> PupilRow \cup {NoPupil}]
  /\ \A p \in Entered : rows[p] \in PupilRow /\ rows[p].school = pupil[p].school

-----------------------------------------------------------------------------
(* The lines an import keeps.                                              *)

\* A line of a file is a row that can be read, or not.
LEMMA SheetLines ==
  ASSUME NEW f \in Form
  PROVE  /\ f.sheet \in Seq((Matricule \X Identity) \cup {BadRow})
         /\ Len(f.sheet) \in Nat /\ DOMAIN f.sheet = 1 .. Len(f.sheet)
         /\ \A n \in DOMAIN f.sheet : f.sheet[n] \in (Matricule \X Identity) \cup {BadRow}
<1> DEFINE Line == (Matricule \X Identity) \cup {BadRow}
<1>1. f.sheet \in Seq(Line)
  <2>1. f.sheet \in Sheet \cup {<<>>}
    BY DEF Form
  <2>2. Sheet \subseteq Seq(Line)
    BY PupilAssumption
  <2> HIDE DEF Line
  <2>3. <<>> \in Seq(Line)
    OBVIOUS
  <2>4. CASE f.sheet = <<>>
    BY <2>3, <2>4
  <2>5. CASE f.sheet \in Sheet
    BY <2>2, <2>5
  <2> QED
    BY <2>1, <2>4, <2>5
<1> HIDE DEF Line
<1>2. Len(f.sheet) \in Nat /\ DOMAIN f.sheet = 1 .. Len(f.sheet)
      /\ \A n \in DOMAIN f.sheet : f.sheet[n] \in Line
  BY <1>1
<1> QED
  BY <1>1, <1>2 DEF Line

\* The reading of a file decides every line in turn: there are lines that are
\* exactly those that are new to the school and to the lines kept before.
LEMMA KeptIsDecided ==
  ASSUME NEW f \in Form
  PROVE  Kept(f) \in SUBSET DOMAIN f.sheet /\ KeepsNew(f, Kept(f))
<1> DEFINE New(n) == f.sheet[n] # BadRow /\ f.sheet[n][1] \notin f.mats /\ f.sheet[n][2] \notin f.whos
           Unlike(n, lines) == \A m \in lines : m < n => ~Twins(f.sheet[m], f.sheet[n])
           Decides(N, lines) ==
             \A n \in 1 .. N : n \in lines <=> New(n) /\ Unlike(n, lines)
           Bad == {N \in Nat : ~\E lines \in SUBSET (1 .. N) : Decides(N, lines)}
<1> HIDE DEF New
<1>1. Len(f.sheet) \in Nat /\ DOMAIN f.sheet = 1 .. Len(f.sheet)
  BY SheetLines
<1>2. Bad = {}
  <2> SUFFICES ASSUME Bad # {} PROVE FALSE
    OBVIOUS
  <2>1. PICK N \in Bad : \A K \in Bad : N <= K
    <3>1. Bad \in SUBSET Nat
      OBVIOUS
    <3> HIDE DEF Bad
    <3> QED
      BY <3>1, LeastNatural
  <2>2. N # 0
    <3> SUFFICES ASSUME N = 0 PROVE FALSE
      OBVIOUS
    <3>1. {} \in SUBSET (1 .. N) /\ Decides(N, {})
      OBVIOUS
    <3> HIDE DEF Decides
    <3> QED
      BY <2>1, <3>1
  <2>3. N - 1 \in Nat /\ N - 1 \notin Bad
    <3>1. N \in Nat
      BY <2>1
    <3> HIDE DEF Bad
    <3> QED
      BY <2>1, <2>2, <3>1
  <2>4. PICK lines \in SUBSET (1 .. N - 1) : Decides(N - 1, lines)
    BY <2>3
  <2> DEFINE more == IF New(N) /\ Unlike(N, lines) THEN lines \cup {N} ELSE lines
  <2>5. more \in SUBSET (1 .. N) /\ N \in Nat
    BY <2>1
  <2>6. ASSUME NEW n \in 1 .. N, n # N PROVE n \in more <=> New(n) /\ Unlike(n, more)
    <3>1. n \in 1 .. N - 1 /\ ~(N < n)
      BY <2>1, <2>6
    <3>2. n \in more <=> n \in lines
      BY <2>6
    <3>3. Unlike(n, more) <=> Unlike(n, lines)
      BY <3>1
    <3>4. n \in lines <=> New(n) /\ Unlike(n, lines)
      BY <2>4, <3>1
    <3> QED
      BY <3>2, <3>3, <3>4
  <2>7. N \in more <=> New(N) /\ Unlike(N, more)
    <3>1. N \notin lines /\ ~(N < N)
      BY <2>1
    <3>2. Unlike(N, more) <=> Unlike(N, lines)
      BY <3>1
    <3>3. N \in more <=> New(N) /\ Unlike(N, lines)
      BY <3>1
    <3> QED
      BY <3>2, <3>3
  <2>8. Decides(N, more)
    BY <2>6, <2>7
  <2> HIDE DEF more, Decides
  <2> QED
    BY <2>1, <2>5, <2>8
<1>3. PICK lines \in SUBSET (1 .. Len(f.sheet)) : Decides(Len(f.sheet), lines)
  BY <1>1, <1>2
<1>4. \E some \in SUBSET DOMAIN f.sheet : KeepsNew(f, some)
  BY <1>1, <1>3 DEF KeepsNew, New
<1> QED
  BY <1>4 DEF Kept

\* What an import kept: rows that can be read, new to the school as it read it,
\* and no two alike.
LEMMA KeptLines ==
  ASSUME NEW f \in Form
  PROVE  /\ \A n \in Kept(f) :
              /\ f.sheet[n] \in Matricule \X Identity
              /\ f.sheet[n][1] \notin f.mats /\ f.sheet[n][2] \notin f.whos
         /\ \A m, n \in Kept(f) : m # n => f.sheet[m][2] # f.sheet[n][2]
<1>1. Kept(f) \in SUBSET DOMAIN f.sheet /\ KeepsNew(f, Kept(f))
  BY KeptIsDecided
<1>2. DOMAIN f.sheet \subseteq Nat
      /\ \A n \in DOMAIN f.sheet : f.sheet[n] \in (Matricule \X Identity) \cup {BadRow}
  BY SheetLines
<1>3. ASSUME NEW n \in Kept(f)
      PROVE  /\ f.sheet[n] # BadRow /\ f.sheet[n][1] \notin f.mats /\ f.sheet[n][2] \notin f.whos
             /\ \A m \in Kept(f) : m < n => ~Twins(f.sheet[m], f.sheet[n])
  BY <1>1 DEF KeepsNew
<1>4. ASSUME NEW m \in Kept(f), NEW n \in Kept(f), m < n PROVE f.sheet[m][2] # f.sheet[n][2]
  BY <1>3, <1>4 DEF Twins
<1>5. ASSUME NEW m \in Kept(f), NEW n \in Kept(f), m # n PROVE f.sheet[m][2] # f.sheet[n][2]
  <2>1. m \in Nat /\ n \in Nat
    BY <1>1, <1>2
  <2>2. m < n \/ n < m
    BY <1>5, <2>1
  <2> QED
    BY <1>4, <2>2
<1> QED
  BY <1>1, <1>2, <1>3, <1>5

-----------------------------------------------------------------------------
(* Forms opened, and other requests about nobody's row.                    *)

\* A row that is there is not the row that is not.
LEMMA PresentRows ==
  /\ NoPupil \notin PupilRow
  /\ \A r \in PupilRow : r.who # "" /\ r.school \in Campus /\ r.mat \in Matricule
                         /\ r.who \in Identity /\ r.status \in StudentStatus
  /\ NoPupil.who = "" /\ NoPupil.school = ""
BY PupilAssumption DEF NoPupil, PupilRow

\* The rows of the students that are there.
LEMMA EnteredRows ==
  ASSUME DirectoryTypeOK
  PROVE  /\ \A p \in Entered : p \in Pupil /\ pupil[p] \in PupilRow
         /\ \A p \in Pupil \ Entered : pupil[p] = NoPupil
  BY DEF DirectoryTypeOK, Entered

\* A record with these fields is a form.
LEMMA FormRecord ==
  ASSUME NEW pc \in {"idle", "identities", "commit"}, NEW kind \in {"import", "change", "link"},
         NEW s \in Campus, NEW sheet, sheet \in Sheet \/ sheet = <<>>, NEW mats \in SUBSET Matricule,
         NEW whos \in SUBSET Identity, NEW ps \in SUBSET Pupil,
         NEW view \in [Pupil -> PupilRow \cup {NoPupil}], NEW want \in Field,
         NEW t \in Tutor, NEW user \in SUBSET ParentAccount
  PROVE  [pc |-> pc, kind |-> kind, school |-> s, sheet |-> sheet, mats |-> mats, whos |-> whos,
          picked |-> ps, read |-> view, want |-> want, about |-> t, user |-> user] \in Form
<1>1. sheet \in Sheet \cup {<<>>}
  OBVIOUS
<1> DEFINE R == [Pupil -> PupilRow \cup {NoPupil}]
           H == Sheet \cup {<<>>}
<1>2. Form = [pc : {"idle", "identities", "commit"}, kind : {"import", "change", "link"},
              school : Campus, sheet : H, mats : SUBSET Matricule, whos : SUBSET Identity,
              picked : SUBSET Pupil, read : R, want : Field, about : Tutor, user : SUBSET ParentAccount]
  BY DEF Form
<1>3. sheet \in H /\ view \in R
  BY <1>1
<1> HIDE DEF H, R
<1> QED
  BY <1>2, <1>3

\* What the empty form holds.
LEMMA EmptyForm ==
  \E s \in Campus, t \in Tutor, view \in [Pupil -> PupilRow \cup {NoPupil}], want \in Field, none \in {<<>>} :
    NoForm = [pc |-> "idle", kind |-> "import", school |-> s, sheet |-> none, mats |-> {},
                 whos |-> {}, picked |-> {}, read |-> view, want |-> want, about |-> t, user |-> {}]
<1> DEFINE read0 == [p \in Pupil |-> NoPupil]
           s0 == CHOOSE s \in Campus : TRUE
           t0 == CHOOSE t \in Tutor : TRUE
<1>1. s0 \in Campus /\ t0 \in Tutor
  BY PupilAssumption
<1>2. read0 \in [Pupil -> PupilRow \cup {NoPupil}]
  OBVIOUS
<1>3. Untouched \in Field
  BY DEF Untouched, Field
<1>4. NoForm = [pc |-> "idle", kind |-> "import", school |-> s0, sheet |-> <<>>, mats |-> {},
                whos |-> {}, picked |-> {}, read |-> read0, want |-> Untouched, about |-> t0,
                user |-> {}]
  BY DEF NoForm
<1> HIDE DEF read0, s0, t0
<1> QED
  BY <1>1, <1>2, <1>3, <1>4

\* The empty form, and the forms that are opened.
LEMMA NoFormIsForm == NoForm \in Form /\ NoForm.pc = "idle" /\ NoForm.kind = "import"
<1>1. PICK s \in Campus, t \in Tutor, view \in [Pupil -> PupilRow \cup {NoPupil}], want \in Field, none \in {<<>>} :
        NoForm = [pc |-> "idle", kind |-> "import", school |-> s, sheet |-> none, mats |-> {},
                     whos |-> {}, picked |-> {}, read |-> view, want |-> want, about |-> t, user |-> {}]
  BY EmptyForm
<1> QED
  BY <1>1, FormRecord

\* The form an import opens.
LEMMA ImportForm ==
  ASSUME NEW s \in Campus, NEW sheet \in Sheet, NEW mats \in SUBSET Matricule, NEW f,
         f = [NoForm EXCEPT !.pc = "identities", !.school = s, !.sheet = sheet, !.mats = mats]
  PROVE  f \in Form /\ f.pc = "identities" /\ f.kind = "import"
<1>1. PICK s0 \in Campus, t \in Tutor, view \in [Pupil -> PupilRow \cup {NoPupil}], want \in Field, none \in {<<>>} :
        NoForm = [pc |-> "idle", kind |-> "import", school |-> s0, sheet |-> none, mats |-> {},
                     whos |-> {}, picked |-> {}, read |-> view, want |-> want, about |-> t, user |-> {}]
  BY EmptyForm
<1>2. f = [pc |-> "identities", kind |-> "import", school |-> s, sheet |-> sheet, mats |-> mats,
           whos |-> {}, picked |-> {}, read |-> view, want |-> want, about |-> t, user |-> {}]
  BY <1>1
<1>3. [pc |-> "identities", kind |-> "import", school |-> s, sheet |-> sheet, mats |-> mats,
       whos |-> {}, picked |-> {}, read |-> view, want |-> want, about |-> t, user |-> {}] \in Form
  BY FormRecord, Zenon
<1>4. f \in Form
  BY <1>2, <1>3
<1>5. f.pc = "identities" /\ f.kind = "import"
  <2>1. PICK g : g = [pc |-> "identities", kind |-> "import", school |-> s, sheet |-> sheet,
                      mats |-> mats, whos |-> {}, picked |-> {}, read |-> view, want |-> want,
                      about |-> t, user |-> {}]
    OBVIOUS
  <2>2. g.pc = "identities" /\ g.kind = "import"
    BY <2>1
  <2>3. f = g
    BY <1>2, <2>1
  <2> QED
    BY <2>2, <2>3
<1> QED
  BY <1>4, <1>5

\* The form a change of students opens, with the rows it read.
AsksFor(f, ps, view, want) ==
  f = [NoForm EXCEPT !.pc = "commit", !.kind = "change", !.picked = ps, !.read = view, !.want = want]
LEMMA ChangeForm ==
  ASSUME NEW ps \in SUBSET Pupil, NEW view \in [Pupil -> PupilRow \cup {NoPupil}], NEW want \in Field,
         NEW f, AsksFor(f, ps, view, want)
  PROVE  f \in Form /\ f.pc = "commit" /\ f.kind = "change" /\ f.picked = ps /\ f.read = view
<1>1. PICK s \in Campus, t \in Tutor, read0 \in [Pupil -> PupilRow \cup {NoPupil}], want0 \in Field, none \in {<<>>} :
        NoForm = [pc |-> "idle", kind |-> "import", school |-> s, sheet |-> none, mats |-> {},
                     whos |-> {}, picked |-> {}, read |-> read0, want |-> want0, about |-> t, user |-> {}]
  BY EmptyForm
<1>2. f = [pc |-> "commit", kind |-> "change", school |-> s, sheet |-> none, mats |-> {},
           whos |-> {}, picked |-> ps, read |-> view, want |-> want, about |-> t, user |-> {}]
  BY <1>1 DEF AsksFor
<1>3. [pc |-> "commit", kind |-> "change", school |-> s, sheet |-> none, mats |-> {},
       whos |-> {}, picked |-> ps, read |-> view, want |-> want, about |-> t, user |-> {}] \in Form
  BY FormRecord, Zenon
<1>4. f \in Form
  BY <1>2, <1>3
<1> QED
  BY <1>2, <1>4

\* The form that links a guardian to an account opens.
LEMMA LinkForm ==
  ASSUME NEW t \in Tutor, NEW user \in SUBSET ParentAccount, NEW f,
         f = [NoForm EXCEPT !.pc = "commit", !.kind = "link", !.about = t, !.user = user]
  PROVE  f \in Form /\ f.pc = "commit" /\ f.kind = "link"
<1>1. PICK s \in Campus, t0 \in Tutor, view \in [Pupil -> PupilRow \cup {NoPupil}], want \in Field, none \in {<<>>} :
        NoForm = [pc |-> "idle", kind |-> "import", school |-> s, sheet |-> none, mats |-> {},
                     whos |-> {}, picked |-> {}, read |-> view, want |-> want, about |-> t0, user |-> {}]
  BY EmptyForm
<1>2. f = [pc |-> "commit", kind |-> "link", school |-> s, sheet |-> none, mats |-> {},
           whos |-> {}, picked |-> {}, read |-> view, want |-> want, about |-> t, user |-> user]
  BY <1>1
<1>3. [pc |-> "commit", kind |-> "link", school |-> s, sheet |-> none, mats |-> {},
       whos |-> {}, picked |-> {}, read |-> view, want |-> want, about |-> t, user |-> user] \in Form
  BY FormRecord, Zenon
<1>4. f \in Form
  BY <1>2, <1>3
<1> QED
  BY <1>2, <1>4

\* Opening a form changes no row.
LEMMA OpenKeeps ==
  ASSUME DirectoryInv, NEW k \in Registrar, NEW f \in Form, Open(k, f),
         ~(f.kind = "import" /\ f.pc = "commit"),
         f.pc = "identities" => f.kind = "import",
         f.kind = "change" /\ f.pc = "commit" =>
           f.picked \subseteq Entered /\ \A p \in f.picked : f.read[p].status \in Had(p)
  PROVE  DirectoryInv'
<1>1. /\ DirectoryTypeOK /\ ViewsHold /\ ReadsWereReal /\ TiesStayInSchool /\ OneAccountEach
      /\ ImportMakesNoTwin /\ StatusFollowsHistory
  BY DEF DirectoryInv
<1>2. /\ form' = [form EXCEPT ![k] = f] /\ entries' = entries + 1 /\ entries < MaxEntries
      /\ UNCHANGED <<pupil, past, byHand, unseen, tutor, account, tie>>
  BY DEF Open, Enter, People
<1>3. form \in [Registrar -> Form]
  BY <1>1 DEF DirectoryTypeOK
<1>4. \A o \in Registrar : form'[o] = IF o = k THEN f ELSE form[o]
  BY <1>2, <1>3
<1>5. form' \in [Registrar -> Form]
  BY <1>2, <1>3
<1>6. DirectoryTypeOK'
  <2>1. entries' \in 0 .. MaxEntries
    <3>1. entries \in 0 .. MaxEntries /\ MaxEntries \in Nat
      BY <1>1, PupilAssumption DEF DirectoryTypeOK
    <3> QED
      BY <1>2, <3>1
  <2> QED
    BY <1>1, <1>2, <1>5, <2>1 DEF DirectoryTypeOK, Entered, OneMatriculeEach
<1>7. ViewsHold'
  BY <1>1, <1>2, <1>4 DEF ViewsHold, Entered
<1>8. ReadsWereReal'
  BY <1>1, <1>2, <1>4 DEF ReadsWereReal, Entered, Had
<1>9. (TiesStayInSchool /\ OneAccountEach /\ ImportMakesNoTwin /\ StatusFollowsHistory)'
  BY <1>1, <1>2 DEF TiesStayInSchool, OneAccountEach, ImportMakesNoTwin, StatusFollowsHistory, Entered
<1> QED
  BY <1>6, <1>7, <1>8, <1>9 DEF DirectoryInv

\* The three kinds of forms.
LEMMA StartImportKeeps ==
  ASSUME DirectoryInv, NEW k \in Registrar, NEW s \in Campus, NEW sheet \in Sheet,
         StartImport(k, s, sheet)
  PROVE  DirectoryInv'
<1>1. DirectoryTypeOK
  BY DEF DirectoryInv
<1> DEFINE mats == {r.mat : r \in In(s)}
           f == [NoForm EXCEPT !.pc = "identities", !.school = s, !.sheet = sheet, !.mats = mats]
<1>2. mats \in SUBSET Matricule
  BY <1>1, EnteredRows, PresentRows DEF In
<1>3. Open(k, f)
  BY DEF StartImport
<1> HIDE DEF mats
<1>4. f \in Form /\ f.pc = "identities" /\ f.kind = "import"
  BY <1>2, ImportForm
<1> HIDE DEF f
<1> QED
  BY <1>3, <1>4, OpenKeeps

LEMMA StartChangeKeeps ==
  ASSUME DirectoryInv, NEW k \in Registrar, NEW ps \in SUBSET Pupil, NEW want \in Field,
         StartChange(k, ps, want)
  PROVE  DirectoryInv'
<1>1. DirectoryTypeOK /\ StatusFollowsHistory
  BY DEF DirectoryInv
<1> DEFINE view == [p \in Pupil |-> IF p \in ps THEN pupil[p] ELSE NoPupil]
           f == [NoForm EXCEPT !.pc = "commit", !.kind = "change", !.picked = ps, !.read = view,
                               !.want = want]
<1>2. ps \subseteq Entered /\ Open(k, f)
  BY DEF StartChange
<1>3. view \in [Pupil -> PupilRow \cup {NoPupil}] /\ \A p \in ps : view[p] = pupil[p]
  BY <1>1 DEF DirectoryTypeOK
<1> HIDE DEF view
<1>4. f \in Form /\ f.pc = "commit" /\ f.kind = "change" /\ f.picked = ps /\ f.read = view
  <2>1. PICK g : g = f
    OBVIOUS
  <2>3. view \in [Pupil -> PupilRow \cup {NoPupil}]
    BY <1>3
  <2>4. AsksFor(g, ps, view, want)
    BY <2>1 DEF AsksFor
  <2>2. g \in Form /\ g.pc = "commit" /\ g.kind = "change" /\ g.picked = ps /\ g.read = view
    BY <2>3, <2>4, ChangeForm
  <2> HIDE DEF f
  <2> QED
    BY <2>1, <2>2
<1>5. ASSUME NEW p \in ps PROVE pupil[p].status \in Had(p)
  <2>1. p \in Entered /\ past[p] \in Seq(StudentStatus \X StudentStatus)
    BY <1>1, <1>2 DEF DirectoryTypeOK
  <2>2. CASE past[p] = <<>>
    BY <1>1, <2>1, <2>2 DEF StatusFollowsHistory, Had
  <2>3. CASE past[p] # <<>>
    <3>1. Len(past[p]) \in DOMAIN past[p]
      BY <2>1, <2>3
    <3>2. past[p][Len(past[p])][2] = pupil[p].status
      BY <1>1, <2>1, <2>3 DEF StatusFollowsHistory
    <3> QED
      BY <3>1, <3>2 DEF Had
  <2> QED
    BY <2>2, <2>3
<1> HIDE DEF f
<1> QED
  BY <1>2, <1>3, <1>4, <1>5, OpenKeeps

LEMMA StartLinkKeeps ==
  ASSUME DirectoryInv, NEW k \in Registrar, NEW t \in Tutor, NEW user \in SUBSET ParentAccount,
         StartLink(k, t, user)
  PROVE  DirectoryInv'
<1> DEFINE f == [NoForm EXCEPT !.pc = "commit", !.kind = "link", !.about = t, !.user = user]
<1>1. Open(k, f)
  BY DEF StartLink
<1>2. f \in Form /\ f.pc = "commit" /\ f.kind = "link"
  BY LinkForm
<1> HIDE DEF f
<1> QED
  BY <1>1, <1>2, OpenKeeps

\* The identities of the school are read when they are right.
LEMMA ReadIdentitiesKeeps ==
  ASSUME DirectoryInv, NEW k \in Registrar, ReadIdentities(k)
  PROVE  DirectoryInv'
<1>1. /\ DirectoryTypeOK /\ ViewsHold /\ ReadsWereReal /\ TiesStayInSchool /\ OneAccountEach
      /\ ImportMakesNoTwin /\ StatusFollowsHistory
  BY DEF DirectoryInv
<1> DEFINE whos == {r.who : r \in In(form[k].school)}
<1>2. /\ form' = [form EXCEPT ![k].pc = "commit", ![k].whos = whos]
      /\ UNCHANGED <<pupil, past, byHand, unseen, tutor, account, tie, entries>>
  BY DEF ReadIdentities, People
<1>3. whos \in SUBSET Identity
  BY <1>1, EnteredRows, PresentRows DEF In
<1>4. \A p \in Entered : pupil[p].school = form[k].school => pupil[p].who \in whos
  BY DEF In
<1> HIDE DEF whos
<1>5. form \in [Registrar -> Form] /\ form[k] \in Form
  BY <1>1 DEF DirectoryTypeOK
<1>6. \A o \in Registrar : o # k => form'[o] = form[o]
  BY <1>2, <1>5
<1>7. /\ form'[k] = [form[k] EXCEPT !.pc = "commit", !.whos = whos]
      /\ form[k].pc = "identities"
  BY <1>2, <1>5 DEF ReadIdentities
<1>8. form'[k].whos = whos /\ form'[k].school = form[k].school /\ form'[k].kind = form[k].kind
      /\ form'[k].picked = form[k].picked
  BY <1>5, <1>7 DEF Form
<1>9. form'[k] \in Form
  BY <1>3, <1>5, <1>7 DEF Form
<1>10. form' \in [Registrar -> Form]
  BY <1>2, <1>5, <1>6, <1>9
<1>11. DirectoryTypeOK'
  BY <1>1, <1>2, <1>10 DEF DirectoryTypeOK, Entered, OneMatriculeEach
<1>12. ViewsHold'
  <2> SUFFICES ASSUME NEW o \in Registrar, form'[o].kind = "import", form'[o].pc = "commit",
                      NEW p \in Entered, pupil[p].school = form'[o].school
               PROVE  pupil[p].who \in form'[o].whos \/ <<pupil[p].school, pupil[p].who>> \in unseen
    BY <1>2 DEF ViewsHold, Entered
  <2>1. CASE o = k
    BY <1>4, <1>8, <2>1
  <2>2. CASE o # k
    BY <1>1, <1>6, <2>2 DEF ViewsHold
  <2> QED
    BY <2>1, <2>2
<1>13. ReadsWereReal'
  <2>1. form[k].kind = "import"
    BY <1>1, <1>7 DEF ReadsWereReal
  <2> QED
    <3>1. ASSUME NEW o \in Registrar, o # k
          PROVE  /\ form'[o].pc = "identities" => form'[o].kind = "import"
                 /\ form'[o].kind = "change" /\ form'[o].pc = "commit" =>
                      /\ form'[o].picked \subseteq Entered'
                      /\ \A p \in form'[o].picked : form'[o].read[p].status \in Had(p)'
      <4>1. form'[o] = form[o]
        BY <1>6, <3>1
      <4>2. Entered' = Entered /\ \A p : Had(p)' = Had(p)
        BY <1>2 DEF Entered, Had
      <4> QED
        BY <1>1, <4>1, <4>2 DEF ReadsWereReal
    <3>2. form'[k].kind = "import"
      BY <1>8, <2>1
    <3> QED
      BY <3>1, <3>2 DEF ReadsWereReal
<1>14. (TiesStayInSchool /\ OneAccountEach /\ ImportMakesNoTwin /\ StatusFollowsHistory)'
  BY <1>1, <1>2 DEF TiesStayInSchool, OneAccountEach, ImportMakesNoTwin, StatusFollowsHistory, Entered
<1> QED
  BY <1>11, <1>12, <1>13, <1>14 DEF DirectoryInv

-----------------------------------------------------------------------------
(* Guardians.                                                              *)

\* A closed form waits for nothing; the others are as they were.
LEMMA Closing ==
  ASSUME DirectoryTypeOK, NEW k \in Registrar, Close(k)
  PROVE  /\ form' \in [Registrar -> Form] /\ form'[k].pc = "idle"
         /\ \A o \in Registrar : o # k => form'[o] = form[o]
<1>1. form' = [form EXCEPT ![k] = NoForm] /\ form \in [Registrar -> Form]
  BY DEF Close, DirectoryTypeOK
<1>2. NoForm \in Form /\ NoForm.pc = "idle"
  BY NoFormIsForm
<1> QED
  BY <1>1, <1>2

\* What is known of requests does not depend on guardians.
LEMMA GuardiansApart ==
  ASSUME DirectoryInv, UNCHANGED <<pupil, past, byHand, unseen>>,
         NEW self \in SUBSET Registrar, \A k \in self : form'[k].pc = "idle",
         \A k \in Registrar \ self : form'[k] = form[k]
  PROVE  ViewsHold' /\ ReadsWereReal' /\ ImportMakesNoTwin' /\ StatusFollowsHistory'
<1>1. ViewsHold /\ ReadsWereReal /\ ImportMakesNoTwin /\ StatusFollowsHistory
  BY DEF DirectoryInv
<1>2. Entered' = Entered /\ \A p : Had(p)' = Had(p)
  BY DEF Entered, Had
<1>3. ViewsHold'
  BY <1>1, <1>2 DEF ViewsHold
<1>4. ReadsWereReal'
  <2>1. ASSUME NEW k \in Registrar
        PROVE  /\ form'[k].pc = "identities" => form'[k].kind = "import"
               /\ form'[k].kind = "change" /\ form'[k].pc = "commit" =>
                    /\ form'[k].picked \subseteq Entered'
                    /\ \A p \in form'[k].picked : form'[k].read[p].status \in Had(p)'
    BY <1>1, <1>2 DEF ReadsWereReal
  <2> QED
    BY <2>1 DEF ReadsWereReal
<1>5. ImportMakesNoTwin' /\ StatusFollowsHistory'
  <2>1. ImportMakesNoTwin'
    BY <1>1, <1>2 DEF ImportMakesNoTwin
  <2>2. StatusFollowsHistory'
    BY <1>1, <1>2 DEF StatusFollowsHistory
  <2> QED
    BY <2>1, <2>2
<1> QED
  BY <1>3, <1>4, <1>5

\* A request is counted.
LEMMA Counted == ASSUME DirectoryTypeOK, Enter PROVE entries' \in 0 .. MaxEntries
<1>1. entries \in 0 .. MaxEntries /\ MaxEntries \in Nat
  BY PupilAssumption DEF DirectoryTypeOK
<1> QED
  BY <1>1 DEF Enter

\* A guardian comes.
LEMMA CreateGuardianKeeps ==
  ASSUME DirectoryInv, NEW t \in Tutor, CreateGuardian(t)
  PROVE  DirectoryInv'
<1>1. DirectoryTypeOK /\ TiesStayInSchool /\ OneAccountEach
  BY DEF DirectoryInv
<1>2. tutor' = tutor \cup {t} /\ UNCHANGED <<pupil, past, account, tie, form, byHand, unseen>>
  BY DEF CreateGuardian
<1>3. DirectoryTypeOK'
  <2>1. entries' \in 0 .. MaxEntries
    BY <1>1, Counted DEF CreateGuardian
  <2> QED
    BY <1>1, <1>2, <2>1 DEF DirectoryTypeOK, Entered, OneMatriculeEach
<1>4. TiesStayInSchool' /\ OneAccountEach'
  BY <1>1, <1>2 DEF TiesStayInSchool, OneAccountEach
<1>5. ViewsHold' /\ ReadsWereReal' /\ ImportMakesNoTwin' /\ StatusFollowsHistory'
  <2>1. {} \in SUBSET Registrar /\ \A k \in Registrar \ {} : form'[k] = form[k]
    BY <1>2
  <2> QED
    BY <1>2, <2>1, GuardiansApart
<1> QED
  BY <1>3, <1>4, <1>5 DEF DirectoryInv

\* A guardian is attached in one school only, and detached.
LEMMA TieKeeps ==
  ASSUME DirectoryInv, NEW p \in Pupil, NEW t \in Tutor, AttachGuardian(p, t) \/ DetachGuardian(p, t)
  PROVE  DirectoryInv'
<1>1. DirectoryTypeOK /\ TiesStayInSchool /\ OneAccountEach
  BY DEF DirectoryInv
<1>2. Enter /\ UNCHANGED <<pupil, past, tutor, account, form, byHand, unseen>>
  BY DEF AttachGuardian, DetachGuardian
<1>3. tie \subseteq Entered \X tutor
  BY <1>1 DEF DirectoryTypeOK
<1>4. tie' \subseteq Entered \X tutor /\ TiesStayInSchool'
  <2>1. CASE AttachGuardian(p, t)
    <3>1. p \in Entered /\ t \in tutor /\ tie' = tie \cup {<<p, t>>} /\ TutorAt[t] = pupil[p].school
      BY <2>1 DEF AttachGuardian
    <3> QED
      BY <1>1, <1>2, <1>3, <3>1 DEF TiesStayInSchool
  <2>2. CASE DetachGuardian(p, t)
    <3>1. tie' = tie \ {<<p, t>>}
      BY <2>2 DEF DetachGuardian
    <3> QED
      BY <1>1, <1>2, <1>3, <3>1 DEF TiesStayInSchool
  <2> QED
    BY <2>1, <2>2
<1>5. DirectoryTypeOK'
  <2>1. entries' \in 0 .. MaxEntries
    BY <1>1, <1>2, Counted
  <2>2. Entered' = Entered
    BY <1>2 DEF Entered
  <2> QED
    BY <1>1, <1>2, <1>4, <2>1, <2>2 DEF DirectoryTypeOK, OneMatriculeEach
<1>6. OneAccountEach'
  BY <1>1, <1>2 DEF OneAccountEach
<1>7. ViewsHold' /\ ReadsWereReal' /\ ImportMakesNoTwin' /\ StatusFollowsHistory'
  <2>1. {} \in SUBSET Registrar /\ \A k \in Registrar \ {} : form'[k] = form[k]
    BY <1>2
  <2> QED
    BY <1>2, <2>1, GuardiansApart
<1> QED
  BY <1>4, <1>5, <1>6, <1>7 DEF DirectoryInv

\* An account is linked unless another guardian of the school has it.
LEMMA LinkKeeps ==
  ASSUME DirectoryInv, NEW k \in Registrar, Link(k)
  PROVE  DirectoryInv'
<1>1. DirectoryTypeOK /\ TiesStayInSchool /\ OneAccountEach
  BY DEF DirectoryInv
<1>2. Close(k) /\ UNCHANGED <<pupil, past, tutor, tie, byHand, unseen, entries>>
  BY DEF Link
<1>3. form[k].about \in Tutor /\ form[k].user \in SUBSET ParentAccount
  BY <1>1 DEF DirectoryTypeOK, Form
<1>4. account \in [Tutor -> SUBSET ParentAccount]
  BY <1>1 DEF DirectoryTypeOK
<1> DEFINE t == form[k].about
           user == form[k].user
<1>5. /\ Clashes(t, user) => account' = account
      /\ ~Clashes(t, user) => account' = [account EXCEPT ![t] = user]
  BY DEF Link
<1>6. t \in Tutor /\ user \in SUBSET ParentAccount
  BY <1>3
<1> HIDE DEF t, user
<1>7. account' \in [Tutor -> SUBSET ParentAccount]
  BY <1>4, <1>5, <1>6
<1>8. OneAccountEach'
  <2>1. CASE Clashes(t, user)
    BY <1>1, <1>5, <2>1 DEF OneAccountEach
  <2>2. CASE ~Clashes(t, user)
    <3>1. \A o \in Tutor : account'[o] = IF o = t THEN user ELSE account[o]
      BY <1>4, <1>5, <2>2
    <3>2. \A o \in Tutor : o # t /\ TutorAt[o] = TutorAt[t] => account[o] \cap user = {}
      BY <2>2 DEF Clashes
    <3> QED
      BY <1>1, <1>6, <3>1, <3>2 DEF OneAccountEach
  <2> QED
    BY <2>1, <2>2
<1>9. form' \in [Registrar -> Form] /\ form'[k].pc = "idle"
      /\ \A o \in Registrar : o # k => form'[o] = form[o]
  BY <1>1, <1>2, Closing
<1>10. DirectoryTypeOK'
  <2>1. Entered' = Entered
    BY <1>2 DEF Entered
  <2> QED
    BY <1>1, <1>2, <1>7, <1>9, <2>1 DEF DirectoryTypeOK, OneMatriculeEach
<1>11. TiesStayInSchool'
  BY <1>1, <1>2 DEF TiesStayInSchool
<1>12. ViewsHold' /\ ReadsWereReal' /\ ImportMakesNoTwin' /\ StatusFollowsHistory'
  <2>1. {k} \in SUBSET Registrar /\ \A o \in {k} : form'[o].pc = "idle"
    BY <1>9
  <2>2. \A o \in Registrar \ {k} : form'[o] = form[o]
    BY <1>9
  <2> QED
    BY <1>2, <2>1, <2>2, GuardiansApart
<1> QED
  BY <1>8, <1>10, <1>11, <1>12 DEF DirectoryInv

-----------------------------------------------------------------------------
(* Rows of students.                                                       *)

\* Students who come, or change: those who were there stay in their school.
LEMMA GrownRows ==
  ASSUME DirectoryTypeOK, NEW rows, RowsGrow(rows), pupil' = rows
  PROVE  /\ Entered \subseteq Entered'
         /\ \A p \in Entered' : pupil'[p] \in PupilRow
         /\ \A p \in Entered : pupil'[p].school = pupil[p].school
         /\ \A p \in Pupil : pupil'[p].who # pupil[p].who => pupil'[p] \in PupilRow
         /\ \A p \in Entered' : pupil'[p].who = pupil[p].who => p \in Entered
<1>1. \A p \in Pupil : pupil'[p] \in PupilRow \cup {NoPupil}
  BY DEF RowsGrow
<1>2. \A p \in Pupil : (p \in Entered' <=> pupil'[p] # NoPupil) /\ (p \in Entered <=> pupil[p] # NoPupil)
  BY DEF Entered
<1>3. \A p \in Entered : pupil'[p] \in PupilRow /\ pupil'[p].school = pupil[p].school
  BY DEF RowsGrow
<1>4. Entered \subseteq Pupil /\ Entered' \subseteq Pupil
  BY DEF Entered
<1>5. Entered \subseteq Entered'
  BY <1>2, <1>3, <1>4, PresentRows
<1>6. \A p \in Entered' : pupil'[p] \in PupilRow
  BY <1>1, <1>2, <1>4
<1>7. ASSUME NEW p \in Pupil, pupil'[p].who # pupil[p].who PROVE pupil'[p] \in PupilRow
  BY <1>1, <1>2, <1>3, <1>7
<1>8. ASSUME NEW p \in Entered', pupil'[p].who = pupil[p].who PROVE p \in Entered
  BY <1>2, <1>4, <1>6, <1>8, PresentRows
<1> QED
  BY <1>3, <1>5, <1>6, <1>7, <1>8

\* New identities are noted for the imports that cannot have read them.
LEMMA ViewsAfterRows ==
  ASSUME DirectoryTypeOK, ViewsHold, NEW rows, RowsGrow(rows), pupil' = rows,
         NEW self \in SUBSET Registrar, Noticed(rows, self),
         \A k \in self : form'[k].pc = "idle", \A k \in Registrar \ self : form'[k] = form[k]
  PROVE  ViewsHold' /\ unseen \subseteq unseen' /\ unseen' \subseteq Campus \X Identity
<1>1. /\ Entered \subseteq Entered'
      /\ \A p \in Entered' : pupil'[p] \in PupilRow
      /\ \A p \in Entered : pupil'[p].school = pupil[p].school
      /\ \A p \in Pupil : pupil'[p].who # pupil[p].who => pupil'[p] \in PupilRow
      /\ \A p \in Entered' : pupil'[p].who = pupil[p].who => p \in Entered
  BY GrownRows
<1> DEFINE new == {<<rows[p].school, rows[p].who>> : p \in {p \in Pupil : rows[p].who # pupil[p].who}}
           heard == {n \in new : \E k \in Registrar \ self :
                       form[k].kind = "import" /\ form[k].pc = "commit" /\ form[k].school = n[1]}
<1>2. unseen' = unseen \cup heard
  BY DEF Noticed
<1>3. new \subseteq Campus \X Identity
  <2>1. ASSUME NEW p \in Pupil, rows[p].who # pupil[p].who
        PROVE  rows[p].school \in Campus /\ rows[p].who \in Identity
    BY <1>1, <2>1, PresentRows
  <2> QED
    BY <2>1
<1>4. unseen \subseteq unseen' /\ unseen' \subseteq Campus \X Identity
  BY <1>2, <1>3 DEF DirectoryTypeOK
<1>5. ASSUME NEW k \in Registrar, form'[k].kind = "import", form'[k].pc = "commit",
             NEW p \in Entered', pupil'[p].school = form'[k].school
      PROVE  pupil'[p].who \in form'[k].whos \/ <<pupil'[p].school, pupil'[p].who>> \in unseen'
  <2>1. k \notin self /\ form'[k] = form[k]
    BY <1>5
  <2>2. p \in Pupil
    BY DEF Entered
  <2>3. CASE pupil'[p].who = pupil[p].who
    <3>1. p \in Entered /\ pupil'[p].school = pupil[p].school
      BY <1>1, <2>3
    <3>2. pupil[p].who \in form[k].whos \/ <<pupil[p].school, pupil[p].who>> \in unseen
      BY <1>5, <2>1, <3>1 DEF ViewsHold
    <3> QED
      BY <1>4, <2>1, <2>3, <3>1, <3>2
  <2>4. CASE pupil'[p].who # pupil[p].who
    <3> DEFINE n == <<rows[p].school, rows[p].who>>
    <3>1. n \in new
      BY <2>2, <2>4
    <3>2. n[1] = rows[p].school
      OBVIOUS
    <3> HIDE DEF n, new
    <3>3. n \in heard
      BY <1>5, <2>1, <3>1, <3>2
    <3> QED
      BY <1>2, <3>3 DEF n
  <2> QED
    BY <2>3, <2>4
<1>6. ViewsHold'
  BY <1>5 DEF ViewsHold
<1> QED
  BY <1>4, <1>6

\* What else a change of rows leaves in place.
LEMMA AfterRows ==
  ASSUME DirectoryInv, NEW rows, RowsGrow(rows), OneMatriculeEach(rows), pupil' = rows,
         past' \in [Pupil -> Seq(StudentStatus \X StudentStatus)],
         \A p \in Pupil \ Entered : past'[p] = <<>>,
         \A p \in Pupil : Had(p) \subseteq Had(p)',
         byHand' \subseteq Pupil, entries' \in 0 .. MaxEntries, form' \in [Registrar -> Form],
         NEW self \in SUBSET Registrar, Noticed(rows, self),
         \A k \in self : form'[k].pc = "idle", \A k \in Registrar \ self : form'[k] = form[k],
         UNCHANGED <<tutor, account, tie>>
  PROVE  /\ DirectoryTypeOK' /\ ViewsHold' /\ ReadsWereReal' /\ TiesStayInSchool' /\ OneAccountEach'
         /\ unseen \subseteq unseen'
<1>1. DirectoryTypeOK /\ ViewsHold /\ ReadsWereReal /\ TiesStayInSchool /\ OneAccountEach
  BY DEF DirectoryInv
<1>2. Entered \subseteq Entered' /\ \A p \in Entered : pupil'[p].school = pupil[p].school
  BY <1>1, GrownRows
<1>3. ViewsHold' /\ unseen \subseteq unseen' /\ unseen' \subseteq Campus \X Identity
  BY <1>1, ViewsAfterRows
<1>4. tie \subseteq Entered \X tutor /\ tutor \subseteq Tutor
  BY <1>1 DEF DirectoryTypeOK
<1>5. DirectoryTypeOK'
  <2>1. pupil' \in [Pupil -> PupilRow \cup {NoPupil}] /\ OneMatriculeEach(pupil)'
    BY DEF RowsGrow, OneMatriculeEach
  <2>2. \A p \in Pupil \ Entered' : past'[p] = <<>>
    BY <1>2
  <2>3. tie' \subseteq Entered' \X tutor' /\ tutor' \subseteq Tutor
    BY <1>2, <1>4
  <2>4. account' \in [Tutor -> SUBSET ParentAccount]
    BY <1>1 DEF DirectoryTypeOK
  <2> QED
    BY <1>3, <2>1, <2>2, <2>3, <2>4 DEF DirectoryTypeOK
<1>6. ReadsWereReal'
  <2>1. ASSUME NEW k \in Registrar
        PROVE  /\ form'[k].pc = "identities" => form'[k].kind = "import"
               /\ form'[k].kind = "change" /\ form'[k].pc = "commit" =>
                    /\ form'[k].picked \subseteq Entered'
                    /\ \A p \in form'[k].picked : form'[k].read[p].status \in Had(p)'
    <3>1. CASE k \in self
      BY <3>1
    <3>2. CASE k \notin self
      <4>1. form'[k] = form[k]
        BY <3>2
      <4>2. Entered \subseteq Pupil
        BY DEF Entered
      <4> QED
        BY <1>1, <1>2, <4>1, <4>2 DEF ReadsWereReal
    <3> QED
      BY <3>1, <3>2
  <2> QED
    BY <2>1 DEF ReadsWereReal
<1>7. TiesStayInSchool'
  BY <1>1, <1>2, <1>4 DEF TiesStayInSchool
<1>8. OneAccountEach'
  BY <1>1 DEF OneAccountEach
<1> QED
  BY <1>3, <1>5, <1>6, <1>7, <1>8

\* A student added by a form has a matricule the school does not know.
LEMMA CreateStudentKeeps ==
  ASSUME DirectoryInv, CreateStudent
  PROVE  DirectoryInv'
<1>1. DirectoryTypeOK /\ ImportMakesNoTwin /\ StatusFollowsHistory
  BY DEF DirectoryInv
<1>2. PICK s \in Campus, m \in Matricule, i \in Identity :
        /\ m \notin {r.mat : r \in In(s)}
        /\ Entered # Pupil
        /\ LET p == CHOOSE p \in Pupil \ Entered : TRUE IN
           /\ pupil' = [pupil EXCEPT ![p] =
                [school |-> s, mat |-> m, who |-> i, status |-> "ACTIVE"]]
           /\ byHand' = byHand \cup {p}
        /\ Noticed(pupil', {})
  BY DEF CreateStudent
<1>3. Enter /\ UNCHANGED <<past, tutor, account, tie, form>>
  BY DEF CreateStudent, People
<1> DEFINE chosen == CHOOSE p \in Pupil \ Entered : TRUE
           new == [school |-> s, mat |-> m, who |-> i, status |-> "ACTIVE"]
<1>4. chosen \in Pupil \ Entered
  BY <1>2 DEF Entered
<1>5. pupil' = [pupil EXCEPT ![chosen] = new] /\ byHand' = byHand \cup {chosen}
  BY <1>2
<1>6. new \in PupilRow /\ new.school = s /\ new.mat = m /\ new.status = "ACTIVE"
  BY PupilAssumption DEF PupilRow
<1> HIDE DEF new
<1>7. PICK one \in Pupil : one = chosen
  BY <1>4
<1>8. PICK rows : rows = pupil'
  OBVIOUS
<1> HIDE DEF chosen
<1>9. \A p \in Pupil : rows[p] = IF p = one THEN new ELSE pupil[p]
  BY <1>1, <1>5, <1>7, <1>8 DEF DirectoryTypeOK
<1>10. RowsGrow(rows)
  <2>1. rows \in [Pupil -> PupilRow \cup {NoPupil}]
    BY <1>1, <1>5, <1>6, <1>7, <1>8 DEF DirectoryTypeOK
  <2> QED
    BY <1>1, <1>4, <1>7, <1>9, <2>1, EnteredRows DEF RowsGrow
<1>11. OneMatriculeEach(rows)
  <2> SUFFICES ASSUME NEW p \in Pupil, NEW q \in Pupil, rows[p] # NoPupil,
                      rows[p].school = rows[q].school, rows[p].mat = rows[q].mat, p # q
               PROVE  FALSE
    BY DEF OneMatriculeEach
  <2>1. OneMatriculeEach(pupil)
    BY <1>1 DEF DirectoryTypeOK
  <2>2. ASSUME NEW o \in Pupil, pupil[o].school = s, pupil[o].mat = m PROVE FALSE
    <3>1. pupil[o] # NoPupil
      BY <2>2, PresentRows, PupilAssumption
    <3>2. pupil[o] \in In(s)
      BY <2>2, <3>1 DEF In, Entered
    <3> QED
      BY <1>2, <2>2, <3>2
  <2>3. CASE p = one
    BY <1>6, <1>9, <2>2, <2>3
  <2>4. CASE q = one
    BY <1>6, <1>9, <2>2, <2>4
  <2>5. CASE p # one /\ q # one
    BY <1>9, <2>1, <2>5 DEF OneMatriculeEach
  <2> QED
    BY <2>3, <2>4, <2>5
<1>12. /\ DirectoryTypeOK' /\ ViewsHold' /\ ReadsWereReal' /\ TiesStayInSchool' /\ OneAccountEach'
       /\ unseen \subseteq unseen'
  <2>1. /\ past' \in [Pupil -> Seq(StudentStatus \X StudentStatus)]
        /\ \A p \in Pupil \ Entered : past'[p] = <<>>
        /\ byHand' \subseteq Pupil /\ form' \in [Registrar -> Form]
    BY <1>1, <1>3, <1>4, <1>5 DEF DirectoryTypeOK
  <2>2. \A p \in Pupil : Had(p) \subseteq Had(p)'
    BY <1>3 DEF Had
  <2>3. entries' \in 0 .. MaxEntries
    BY <1>1, <1>3, Counted
  <2>4. {} \in SUBSET Registrar /\ \A k \in Registrar \ {} : form'[k] = form[k]
    BY <1>3
  <2>5. Noticed(rows, {})
    BY <1>2, <1>8 DEF Noticed
  <2> QED
    BY <1>3, <1>8, <1>10, <1>11, <2>1, <2>2, <2>3, <2>4, <2>5, AfterRows
<1>13. \A p \in Entered' : p \in Pupil /\ (p # one => p \in Entered /\ pupil'[p] = pupil[p])
  BY <1>8, <1>9 DEF Entered
<1>14. ImportMakesNoTwin'
  <2> SUFFICES ASSUME NEW p \in Entered', NEW q \in Entered', p # q, p \notin byHand', q \notin byHand',
                      pupil'[p].school = pupil'[q].school, pupil'[p].who = pupil'[q].who
               PROVE  <<pupil'[p].school, pupil'[p].who>> \in unseen'
    BY DEF ImportMakesNoTwin
  <2>1. p # one /\ q # one /\ p \notin byHand /\ q \notin byHand
    BY <1>5, <1>7
  <2>2. p \in Entered /\ q \in Entered /\ pupil'[p] = pupil[p] /\ pupil'[q] = pupil[q]
    BY <1>13, <2>1
  <2>3. <<pupil[p].school, pupil[p].who>> \in unseen
    BY <1>1, <2>1, <2>2 DEF ImportMakesNoTwin
  <2> QED
    BY <1>12, <2>2, <2>3
<1>15. StatusFollowsHistory'
  <2> SUFFICES ASSUME NEW p \in Entered'
               PROVE  LET h == past'[p] IN
                      /\ h # <<>> => h[Len(h)][2] = pupil'[p].status
                      /\ h = <<>> => pupil'[p].status = "ACTIVE"
                      /\ \A n \in DOMAIN h : h[n][1] \in {"ACTIVE"} \cup {h[j][2] : j \in 1 .. n - 1}
    BY DEF StatusFollowsHistory
  <2>1. past' = past
    BY <1>3
  <2>2. CASE p = one
    <3>1. past'[p] = <<>> /\ pupil'[p].status = "ACTIVE"
      BY <1>1, <1>4, <1>6, <1>7, <1>8, <1>9, <2>1, <2>2 DEF DirectoryTypeOK
    <3> QED
      BY <3>1
  <2>3. CASE p # one
    <3>1. p \in Entered /\ pupil'[p] = pupil[p]
      BY <1>13, <2>3
    <3> QED
      BY <1>1, <2>1, <3>1 DEF StatusFollowsHistory
  <2> QED
    BY <2>2, <2>3
<1> QED
  BY <1>12, <1>14, <1>15 DEF DirectoryInv

\* A request that writes nothing, and ends.
LEMMA NothingWritten ==
  ASSUME DirectoryInv, NEW k \in Registrar, Close(k),
         UNCHANGED <<pupil, past, tutor, account, tie, byHand, unseen, entries>>
  PROVE  DirectoryInv'
<1>1. DirectoryTypeOK /\ TiesStayInSchool /\ OneAccountEach
  BY DEF DirectoryInv
<1>2. form' \in [Registrar -> Form] /\ form'[k].pc = "idle"
      /\ \A o \in Registrar : o # k => form'[o] = form[o]
  BY <1>1, Closing
<1>3. Entered' = Entered
  BY DEF Entered
<1>4. DirectoryTypeOK'
  BY <1>1, <1>2, <1>3 DEF DirectoryTypeOK, OneMatriculeEach
<1>5. TiesStayInSchool' /\ OneAccountEach'
  BY <1>1 DEF TiesStayInSchool, OneAccountEach
<1>6. ViewsHold' /\ ReadsWereReal' /\ ImportMakesNoTwin' /\ StatusFollowsHistory'
  <2>1. {k} \in SUBSET Registrar /\ \A o \in {k} : form'[o].pc = "idle"
    BY <1>2
  <2>2. \A o \in Registrar \ {k} : form'[o] = form[o]
    BY <1>2
  <2> QED
    BY <2>1, <2>2, GuardiansApart
<1> QED
  BY <1>4, <1>5, <1>6 DEF DirectoryInv

\* A row of an import is the row there was, or the row of a line kept in a place
\* that was free.
BroughtIn(rows, f, place) ==
  \A p \in Pupil :
    \/ rows[p] = pupil[p] /\ p \in Entered
    \/ rows[p] = NoPupil /\ p \notin Entered
    \/ /\ p \notin Entered
       /\ \E n \in Kept(f) :
            /\ place[n] = p
            /\ rows[p] = [school |-> f.school, mat |-> f.sheet[n][1],
                          who |-> f.sheet[n][2], status |-> "ACTIVE"]

\* The rows an import makes: one for each line kept, in a place that was free.
LEMMA ImportedRows ==
  ASSUME DirectoryTypeOK, NEW f \in Form, NEW place \in Injection(Kept(f), Pupil \ Entered),
         NEW rows, rows = Imported(f, place)
  PROVE  /\ RowsGrow(rows)
         /\ BroughtIn(rows, f, place)
<1>1. place \in [Kept(f) -> Pupil \ Entered]
  BY DEF Injection
<1>2. f.school \in Campus /\ \A n \in Kept(f) : f.sheet[n][1] \in Matricule /\ f.sheet[n][2] \in Identity
  <2>1. \A n \in Kept(f) : f.sheet[n] \in Matricule \X Identity
    BY KeptLines
  <2> QED
    BY <2>1 DEF Form
<1> DEFINE Brought(n) == [school |-> f.school, mat |-> f.sheet[n][1], who |-> f.sheet[n][2],
                      status |-> "ACTIVE"]
<1>3. \A n \in Kept(f) : Brought(n) \in PupilRow
  BY <1>2, PupilAssumption DEF PupilRow
<1>4. rows = [p \in Pupil |-> IF \E n \in Kept(f) : place[n] = p
                              THEN Brought(CHOOSE n \in Kept(f) : place[n] = p) ELSE pupil[p]]
  BY DEF Imported
<1> HIDE DEF Brought
<1>5. ASSUME NEW p \in Pupil, NEW n \in Kept(f), place[n] = p
      PROVE  p \notin Entered /\ \E l \in Kept(f) : place[l] = p /\ rows[p] = Brought(l)
  <2> DEFINE l == CHOOSE l \in Kept(f) : place[l] = p
  <2>1. l \in Kept(f) /\ place[l] = p
    BY <1>5
  <2>2. rows[p] = Brought(l)
    BY <1>4, <1>5
  <2> HIDE DEF l
  <2> QED
    BY <1>1, <1>5, <2>1, <2>2
<1>6. ASSUME NEW p \in Pupil, ~\E n \in Kept(f) : place[n] = p PROVE rows[p] = pupil[p]
  BY <1>4, <1>6
<1>7. rows \in [Pupil -> PupilRow \cup {NoPupil}]
  <2>1. \A p \in Pupil : rows[p] \in PupilRow \cup {NoPupil}
    BY <1>3, <1>5, <1>6 DEF DirectoryTypeOK
  <2> QED
    BY <1>4, <2>1
<1>8. \A p \in Entered : rows[p] = pupil[p] /\ rows[p] \in PupilRow
  BY <1>5, <1>6, EnteredRows
<1>9. RowsGrow(rows)
  BY <1>7, <1>8 DEF RowsGrow
<1>10. ASSUME NEW p \in Pupil
       PROVE  \/ rows[p] = pupil[p] /\ p \in Entered
              \/ rows[p] = NoPupil /\ p \notin Entered
              \/ p \notin Entered /\ \E n \in Kept(f) : place[n] = p /\ rows[p] = Brought(n)
  <2>1. CASE \E n \in Kept(f) : place[n] = p
    BY <1>5, <2>1
  <2>2. CASE ~\E n \in Kept(f) : place[n] = p
    BY <1>6, <2>2, EnteredRows
  <2> QED
    BY <2>1, <2>2
<1> QED
  BY <1>9, <1>10 DEF Brought, BroughtIn

\* An import inserts what it kept, all of it or nothing.
LEMMA ImportKeeps ==
  ASSUME DirectoryInv, NEW k \in Registrar, Import(k)
  PROVE  DirectoryInv'
<1>1. DirectoryTypeOK /\ ViewsHold /\ ImportMakesNoTwin /\ StatusFollowsHistory
  BY DEF DirectoryInv
<1>2. PICK f \in Form : f = form[k]
  BY <1>1 DEF DirectoryTypeOK
<1> DEFINE seats == Injection(Kept(f), Pupil \ Entered)
           taken == CHOOSE place \in seats : TRUE
<1>3. taken \in seats
  BY <1>2 DEF Import
<1>4. IF OneMatriculeEach(Imported(f, taken))
      THEN pupil' = Imported(f, taken) /\ Noticed(Imported(f, taken), {k})
      ELSE UNCHANGED <<pupil, unseen>>
  BY <1>2 DEF Import
<1> HIDE DEF taken
<1>5. PICK place \in Injection(Kept(f), Pupil \ Entered) : place = taken
  BY <1>3
<1>6. PICK rows : rows = Imported(f, place)
  OBVIOUS
<1>7. IF OneMatriculeEach(rows) THEN pupil' = rows /\ Noticed(rows, {k})
                                ELSE UNCHANGED <<pupil, unseen>>
  BY <1>4, <1>5, <1>6
<1>8. /\ f.kind = "import" /\ f.pc = "commit" /\ Close(k)
      /\ UNCHANGED <<past, tutor, account, tie, byHand, entries>>
  BY <1>2 DEF Import, People
<1>9. CASE ~OneMatriculeEach(rows)
  <2>1. UNCHANGED <<pupil, unseen>>
    BY <1>7, <1>9
  <2> QED
    BY <1>8, <2>1, NothingWritten
<1>10. CASE OneMatriculeEach(rows)
  <2>1. pupil' = rows /\ Noticed(rows, {k})
    BY <1>7, <1>10
  <2>2. RowsGrow(rows) /\ BroughtIn(rows, f, place)
    BY <1>1, <1>6, ImportedRows
  <2>3. ASSUME NEW p \in Entered'
        PROVE  \/ p \in Entered /\ pupil'[p] = pupil[p]
               \/ /\ p \notin Entered /\ p \in Pupil
                  /\ \E n \in Kept(f) :
                       /\ place[n] = p
                       /\ pupil'[p].school = f.school /\ pupil'[p].who = f.sheet[n][2]
                       /\ pupil'[p].status = "ACTIVE"
    <3>1. p \in Pupil /\ rows[p] # NoPupil
      BY <2>1 DEF Entered
    <3>2. \/ rows[p] = pupil[p] /\ p \in Entered
          \/ rows[p] = NoPupil /\ p \notin Entered
          \/ /\ p \notin Entered
             /\ \E n \in Kept(f) :
                  /\ place[n] = p
                  /\ rows[p] = [school |-> f.school, mat |-> f.sheet[n][1],
                                who |-> f.sheet[n][2], status |-> "ACTIVE"]
      BY <2>2, <3>1 DEF BroughtIn
    <3>3. CASE rows[p] = pupil[p] /\ p \in Entered
      BY <2>1, <3>3
    <3>4. CASE p \notin Entered
      <4>1. PICK n \in Kept(f) :
              /\ place[n] = p
              /\ rows[p] = [school |-> f.school, mat |-> f.sheet[n][1],
                            who |-> f.sheet[n][2], status |-> "ACTIVE"]
        BY <3>1, <3>2, <3>4
      <4>2. /\ pupil'[p].school = f.school /\ pupil'[p].who = f.sheet[n][2]
            /\ pupil'[p].status = "ACTIVE"
        BY <2>1, <4>1
      <4> QED
        BY <3>1, <3>4, <4>1, <4>2
    <3> QED
      BY <3>1, <3>2, <3>3, <3>4
  <2>4. /\ DirectoryTypeOK' /\ ViewsHold' /\ ReadsWereReal' /\ TiesStayInSchool' /\ OneAccountEach'
        /\ unseen \subseteq unseen'
    <3>1. /\ form' \in [Registrar -> Form] /\ form'[k].pc = "idle"
          /\ \A o \in Registrar : o # k => form'[o] = form[o]
      BY <1>1, <1>8, Closing
    <3>2. {k} \in SUBSET Registrar /\ \A o \in {k} : form'[o].pc = "idle"
      BY <3>1
    <3>3. \A o \in Registrar \ {k} : form'[o] = form[o]
      BY <3>1
    <3>4. /\ past' \in [Pupil -> Seq(StudentStatus \X StudentStatus)]
          /\ \A p \in Pupil \ Entered : past'[p] = <<>>
          /\ byHand' \subseteq Pupil /\ entries' \in 0 .. MaxEntries
      BY <1>1, <1>8 DEF DirectoryTypeOK
    <3>5. \A p \in Pupil : Had(p) \subseteq Had(p)'
      BY <1>8 DEF Had
    <3> QED
      BY <1>8, <1>10, <2>1, <2>2, <3>1, <3>2, <3>3, <3>4, <3>5, AfterRows
  <2>5. ASSUME NEW p \in Entered', NEW q \in Entered', p \notin Entered, q \in Entered,
               pupil'[p].school = pupil'[q].school, pupil'[p].who = pupil'[q].who
        PROVE  <<pupil'[q].school, pupil'[q].who>> \in unseen
    <3>1. PICK n \in Kept(f) : pupil'[p].school = f.school /\ pupil'[p].who = f.sheet[n][2]
      BY <2>3, <2>5
    <3>2. f.sheet[n][2] \notin f.whos
      BY KeptLines
    <3>3. pupil'[q] = pupil[q]
      BY <2>3, <2>5
    <3>4. pupil[q].who \in f.whos \/ <<pupil[q].school, pupil[q].who>> \in unseen
      BY <1>1, <1>2, <1>8, <2>5, <3>1, <3>3 DEF ViewsHold
    <3> QED
      BY <2>5, <3>1, <3>2, <3>3, <3>4
  <2>6. ImportMakesNoTwin'
    <3> SUFFICES ASSUME NEW p \in Entered', NEW q \in Entered', p # q, p \notin byHand', q \notin byHand',
                        pupil'[p].school = pupil'[q].school, pupil'[p].who = pupil'[q].who
                 PROVE  <<pupil'[p].school, pupil'[p].who>> \in unseen'
      BY DEF ImportMakesNoTwin
    <3>1. CASE p \in Entered /\ q \in Entered
      <4>1. pupil'[p] = pupil[p] /\ pupil'[q] = pupil[q]
        BY <2>3, <3>1
      <4>2. <<pupil[p].school, pupil[p].who>> \in unseen
        BY <1>1, <1>8, <3>1, <4>1 DEF ImportMakesNoTwin
      <4> QED
        BY <2>4, <4>1, <4>2
    <3>2. CASE p \notin Entered /\ q \in Entered
      BY <2>4, <2>5, <3>2
    <3>3. CASE p \in Entered /\ q \notin Entered
      BY <2>4, <2>5, <3>3
    <3>4. CASE p \notin Entered /\ q \notin Entered
      <4>1. PICK m \in Kept(f) : place[m] = p /\ pupil'[p].who = f.sheet[m][2]
        BY <2>3, <3>4
      <4>2. PICK n \in Kept(f) : place[n] = q /\ pupil'[q].who = f.sheet[n][2]
        BY <2>3, <3>4
      <4>3. m # n
        BY <4>1, <4>2
      <4>4. f.sheet[m][2] # f.sheet[n][2]
        BY <4>3, KeptLines
      <4> QED
        BY <4>1, <4>2, <4>4
    <3> QED
      BY <3>1, <3>2, <3>3, <3>4
  <2>7. StatusFollowsHistory'
    <3> SUFFICES ASSUME NEW p \in Entered'
                 PROVE  LET h == past'[p] IN
                        /\ h # <<>> => h[Len(h)][2] = pupil'[p].status
                        /\ h = <<>> => pupil'[p].status = "ACTIVE"
                        /\ \A n \in DOMAIN h : h[n][1] \in {"ACTIVE"} \cup {h[j][2] : j \in 1 .. n - 1}
      BY DEF StatusFollowsHistory
    <3>1. past' = past
      BY <1>8
    <3>2. CASE p \in Entered
      BY <1>1, <2>3, <3>1, <3>2 DEF StatusFollowsHistory
    <3>3. CASE p \notin Entered
      <4>1. past'[p] = <<>> /\ pupil'[p].status = "ACTIVE"
        BY <1>1, <2>3, <3>1, <3>3 DEF DirectoryTypeOK
      <4> QED
        BY <4>1
    <3> QED
      BY <3>2, <3>3
  <2> QED
    BY <2>4, <2>6, <2>7 DEF DirectoryInv
<1> QED
  BY <1>9, <1>10

\* The statuses a student had are statuses.
LEMMA HadStatuses ==
  ASSUME DirectoryTypeOK, NEW p \in Pupil
  PROVE  Had(p) \subseteq StudentStatus
<1>1. past[p] \in Seq(StudentStatus \X StudentStatus)
  BY DEF DirectoryTypeOK
<1>2. ASSUME NEW m \in DOMAIN past[p] PROVE past[p][m][2] \in StudentStatus
  <2>1. past[p][m] \in StudentStatus \X StudentStatus
    BY <1>1
  <2> QED
    BY <2>1
<1>3. "ACTIVE" \in StudentStatus
  BY PupilAssumption
<1> QED
  BY <1>2, <1>3 DEF Had

\* A line more in the history of a student.
LEMMA OneMoreStatus ==
  ASSUME NEW h \in Seq(StudentStatus \X StudentStatus), NEW a \in StudentStatus, NEW b \in StudentStatus,
         NEW g, g = Append(h, <<a, b>>)
  PROVE  /\ g \in Seq(StudentStatus \X StudentStatus) /\ g # <<>>
         /\ Len(h) \in Nat /\ Len(g) = Len(h) + 1 /\ g[Len(g)] = <<a, b>>
         /\ DOMAIN h = 1 .. Len(h) /\ DOMAIN g = 1 .. Len(h) + 1
         /\ \A n \in 1 .. Len(h) : g[n] = h[n]
<1>1. <<a, b>> \in StudentStatus \X StudentStatus
  OBVIOUS
<1> DEFINE S == StudentStatus \X StudentStatus
           e == <<a, b>>
<1>2. h \in Seq(S) /\ e \in S /\ g = Append(h, e)
  BY <1>1
<1> HIDE DEF S, e
<1>3. /\ g \in Seq(S) /\ g # <<>>
      /\ Len(h) \in Nat /\ Len(g) = Len(h) + 1 /\ g[Len(g)] = e
      /\ DOMAIN h = 1 .. Len(h) /\ DOMAIN g = 1 .. Len(h) + 1
      /\ \A n \in 1 .. Len(h) : g[n] = h[n]
  <2>1. g \in Seq(S)
    BY <1>2
  <2>2. Len(h) \in Nat /\ Len(g) = Len(h) + 1 /\ DOMAIN h = 1 .. Len(h) /\ DOMAIN g = 1 .. Len(h) + 1
    <3>1. Len(h) \in Nat /\ Len(g) = Len(h) + 1
      BY <1>2
    <3>2. DOMAIN h = 1 .. Len(h) /\ DOMAIN g = 1 .. Len(g)
      BY <1>2, <2>1
    <3> QED
      BY <3>1, <3>2
  <2>3. g[Len(g)] = e
    <3>1. Append(h, e)[Len(h) + 1] = e
      BY <1>2, AppendProperties, Zenon
    <3> QED
      BY <1>2, <2>2, <3>1
  <2>4. g # <<>>
    BY <2>2
  <2>5. ASSUME NEW n \in 1 .. Len(h) PROVE g[n] = h[n]
    BY <1>2, AppendProperties
  <2> QED
    BY <2>1, <2>2, <2>3, <2>4, <2>5
<1> QED
  BY <1>3 DEF S, e

\* A change reads and writes: columns it does not change keep what others wrote.
LEMMA ChangedColumns ==
  ASSUME DirectoryTypeOK, NEW f \in Form, NEW p \in Entered, NEW r, r = Changed(f, p)
  PROVE  /\ r \in PupilRow /\ r.school = pupil[p].school
         /\ f.want.status \in {Same, f.read[p].status} => r.status = pupil[p].status
         /\ f.want.status \notin {Same, f.read[p].status} =>
              r.status = f.want.status /\ f.want.status \in StudentStatus
<1>1. pupil[p] \in PupilRow
  BY EnteredRows
<1>2. f.want \in Field
  BY DEF Form
<1> DEFINE m == ColumnAfter(pupil[p].mat, f.read[p].mat, f.want.mat)
           w == ColumnAfter(pupil[p].who, f.read[p].who, f.want.who)
           t == ColumnAfter(pupil[p].status, f.read[p].status, f.want.status)
<1>3. m \in Matricule /\ w \in Identity /\ t \in StudentStatus
  BY <1>1, <1>2 DEF ColumnAfter, Field, PupilRow
<1>4. /\ f.want.status \in {Same, f.read[p].status} => t = pupil[p].status
      /\ f.want.status \notin {Same, f.read[p].status} => t = f.want.status /\ f.want.status \in StudentStatus
  BY <1>2 DEF ColumnAfter, Field
<1>5. r = [pupil[p] EXCEPT !.mat = m, !.who = w, !.status = t]
  BY DEF Changed
<1> HIDE DEF m, w, t
<1>6. r \in PupilRow /\ r.school = pupil[p].school /\ r.status = t
  BY <1>1, <1>3, <1>5 DEF PupilRow
<1> QED
  BY <1>4, <1>6

\* A change of students, one or many, is written as a whole or not at all.
LEMMA ChangeKeeps ==
  ASSUME DirectoryInv, NEW k \in Registrar, Change(k)
  PROVE  DirectoryInv'
<1>1. DirectoryTypeOK /\ ReadsWereReal /\ ImportMakesNoTwin /\ StatusFollowsHistory
  BY DEF DirectoryInv
<1>2. PICK f \in Form : f = form[k]
  BY <1>1 DEF DirectoryTypeOK
<1>3. PICK rows : rows = [p \in Pupil |-> IF p \in f.picked THEN Changed(f, p) ELSE pupil[p]]
  OBVIOUS
<1>4. /\ f.kind = "change" /\ f.pc = "commit" /\ Close(k)
      /\ UNCHANGED <<tutor, account, tie, entries>>
  BY <1>2 DEF Change, People
<1>5. IF OneMatriculeEach(rows)
      THEN /\ pupil' = rows
           /\ past' = [p \in Pupil |->
                IF p \in f.picked /\ f.want.status \notin {Same, f.read[p].status}
                THEN Append(past[p], <<f.read[p].status, f.want.status>>) ELSE past[p]]
           /\ byHand' = byHand \cup {p \in f.picked : rows[p].who # pupil[p].who}
           /\ Noticed(rows, {k})
      ELSE UNCHANGED <<pupil, past, byHand, unseen>>
  BY <1>2, <1>3 DEF Change
<1>6. CASE ~OneMatriculeEach(rows)
  <2>1. UNCHANGED <<pupil, past, byHand, unseen>>
    BY <1>5, <1>6
  <2> QED
    BY <1>4, <2>1, NothingWritten
<1>7. CASE OneMatriculeEach(rows)
  <2> DEFINE moved(p) == p \in f.picked /\ f.want.status \notin {Same, f.read[p].status}
  <2>1. /\ pupil' = rows
        /\ past' = [p \in Pupil |-> IF moved(p) THEN Append(past[p], <<f.read[p].status, f.want.status>>)
                                                ELSE past[p]]
        /\ byHand' = byHand \cup {p \in f.picked : rows[p].who # pupil[p].who}
        /\ Noticed(rows, {k})
    BY <1>5, <1>7
  <2>2. f.picked \subseteq Entered /\ \A p \in f.picked : f.read[p].status \in Had(p)
    BY <1>1, <1>2, <1>4 DEF ReadsWereReal
  <2>3. Entered \subseteq Pupil
    BY DEF Entered
  <2>4. \A p \in Pupil : rows[p] = IF p \in f.picked THEN Changed(f, p) ELSE pupil[p]
    BY <1>3
  <2>5. ASSUME NEW p \in f.picked
        PROVE  /\ rows[p] \in PupilRow /\ rows[p].school = pupil[p].school
               /\ ~moved(p) => rows[p].status = pupil[p].status
               /\ moved(p) => rows[p].status = f.want.status /\ f.want.status \in StudentStatus
    <3>1. p \in Entered /\ p \in Pupil /\ rows[p] = Changed(f, p)
      BY <2>2, <2>3, <2>4
    <3>2. /\ rows[p] \in PupilRow /\ rows[p].school = pupil[p].school
          /\ f.want.status \in {Same, f.read[p].status} => rows[p].status = pupil[p].status
          /\ f.want.status \notin {Same, f.read[p].status} =>
               rows[p].status = f.want.status /\ f.want.status \in StudentStatus
      BY <1>1, <3>1, ChangedColumns
    <3> QED
      BY <3>2
  <2>6. RowsGrow(rows)
    <3>1. \A p \in Pupil : rows[p] \in PupilRow \cup {NoPupil}
      BY <1>1, <2>4, <2>5 DEF DirectoryTypeOK
    <3>2. rows \in [Pupil -> PupilRow \cup {NoPupil}]
      BY <1>3, <3>1
    <3>3. \A p \in Entered : rows[p] \in PupilRow /\ rows[p].school = pupil[p].school
      BY <1>1, <2>3, <2>4, <2>5, EnteredRows
    <3> QED
      BY <3>2, <3>3 DEF RowsGrow
  <2>7. ASSUME NEW p \in Pupil, moved(p)
        PROVE  /\ past'[p] \in Seq(StudentStatus \X StudentStatus) /\ past'[p] # <<>>
               /\ Len(past[p]) \in Nat /\ Len(past'[p]) = Len(past[p]) + 1
               /\ past'[p][Len(past'[p])] = <<f.read[p].status, f.want.status>>
               /\ DOMAIN past[p] = 1 .. Len(past[p]) /\ DOMAIN past'[p] = 1 .. Len(past[p]) + 1
               /\ \A n \in 1 .. Len(past[p]) : past'[p][n] = past[p][n]
    <3>1. past[p] \in Seq(StudentStatus \X StudentStatus)
      BY <1>1 DEF DirectoryTypeOK
    <3>2. f.read[p].status \in StudentStatus
      BY <1>1, <2>2, <2>7, HadStatuses
    <3>3. f.want.status \in StudentStatus
      BY <2>5, <2>7
    <3>4. past'[p] = Append(past[p], <<f.read[p].status, f.want.status>>)
      BY <2>1, <2>7
    <3>5. PICK h \in Seq(StudentStatus \X StudentStatus), a \in StudentStatus, b \in StudentStatus :
            h = past[p] /\ a = f.read[p].status /\ b = f.want.status
      BY <3>1, <3>2, <3>3
    <3>6. PICK g : g = past'[p]
      OBVIOUS
    <3>7. g = Append(h, <<a, b>>)
      BY <3>4, <3>5, <3>6
    <3>8. /\ g \in Seq(StudentStatus \X StudentStatus) /\ g # <<>>
          /\ Len(h) \in Nat /\ Len(g) = Len(h) + 1 /\ g[Len(g)] = <<a, b>>
          /\ DOMAIN h = 1 .. Len(h) /\ DOMAIN g = 1 .. Len(h) + 1
          /\ \A n \in 1 .. Len(h) : g[n] = h[n]
      BY <3>7, OneMoreStatus
    <3> QED
      BY <3>5, <3>6, <3>8
  <2>8. \A p \in Pupil : ~moved(p) => past'[p] = past[p]
    BY <2>1
  <2> HIDE DEF moved
  <2>9. past' \in [Pupil -> Seq(StudentStatus \X StudentStatus)]
    <3>1. \A p \in Pupil : past'[p] \in Seq(StudentStatus \X StudentStatus)
      BY <1>1, <2>7, <2>8 DEF DirectoryTypeOK
    <3> QED
      BY <2>1, <3>1
  <2>10. \A p \in Pupil : Had(p) \subseteq Had(p)'
    <3> SUFFICES ASSUME NEW p \in Pupil PROVE Had(p) \subseteq Had(p)'
      OBVIOUS
    <3>1. CASE moved(p)
      <4>1. \A n \in DOMAIN past[p] : n \in DOMAIN past'[p] /\ past'[p][n] = past[p][n]
        BY <2>7, <3>1
      <4> QED
        BY <4>1 DEF Had
    <3>2. CASE ~moved(p)
      BY <2>8, <3>2 DEF Had
    <3> QED
      BY <3>1, <3>2
  <2>11. /\ DirectoryTypeOK' /\ ViewsHold' /\ ReadsWereReal' /\ TiesStayInSchool' /\ OneAccountEach'
         /\ unseen \subseteq unseen'
    <3>1. /\ form' \in [Registrar -> Form] /\ form'[k].pc = "idle"
          /\ \A o \in Registrar : o # k => form'[o] = form[o]
      BY <1>1, <1>4, Closing
    <3>2. {k} \in SUBSET Registrar /\ \A o \in {k} : form'[o].pc = "idle"
      BY <3>1
    <3>3. \A o \in Registrar \ {k} : form'[o] = form[o]
      BY <3>1
    <3>4. byHand' \subseteq Pupil /\ entries' \in 0 .. MaxEntries
      BY <1>1, <1>4, <2>1, <2>2, <2>3 DEF DirectoryTypeOK
    <3>5. \A p \in Pupil \ Entered : past'[p] = <<>>
      BY <1>1, <2>2, <2>8 DEF DirectoryTypeOK, moved
    <3> QED
      BY <1>4, <1>7, <2>1, <2>6, <2>9, <2>10, <3>1, <3>2, <3>3, <3>4, <3>5, AfterRows
  <2>12. \A p \in Entered' : pupil'[p] \in PupilRow /\ p \in Entered /\ p \in Pupil
                             /\ pupil'[p].school = pupil[p].school
    <3> SUFFICES ASSUME NEW p \in Entered'
                 PROVE  pupil'[p] \in PupilRow /\ p \in Entered /\ p \in Pupil
                        /\ pupil'[p].school = pupil[p].school
      OBVIOUS
    <3>1. p \in Pupil /\ rows[p] # NoPupil
      BY <2>1 DEF Entered
    <3>2. p \in Entered
      BY <2>2, <2>4, <3>1 DEF Entered
    <3> QED
      BY <2>1, <2>6, <3>1, <3>2 DEF RowsGrow
  <2>13. ImportMakesNoTwin'
    <3> SUFFICES ASSUME NEW p \in Entered', NEW q \in Entered', p # q, p \notin byHand', q \notin byHand',
                        pupil'[p].school = pupil'[q].school, pupil'[p].who = pupil'[q].who
                 PROVE  <<pupil'[p].school, pupil'[p].who>> \in unseen'
      BY DEF ImportMakesNoTwin
    <3>1. ASSUME NEW o \in Entered', o \notin byHand'
          PROVE  /\ o \in Entered /\ o \notin byHand /\ pupil'[o].who = pupil[o].who
                 /\ pupil'[o].school = pupil[o].school
      BY <2>1, <2>4, <2>12, <3>1
    <3>2. <<pupil[p].school, pupil[p].who>> \in unseen
      BY <1>1, <3>1 DEF ImportMakesNoTwin
    <3> QED
      BY <2>11, <3>1, <3>2
  <2>14. StatusFollowsHistory'
    <3> SUFFICES ASSUME NEW p \in Entered'
                 PROVE  LET h == past'[p] IN
                        /\ h # <<>> => h[Len(h)][2] = pupil'[p].status
                        /\ h = <<>> => pupil'[p].status = "ACTIVE"
                        /\ \A n \in DOMAIN h : h[n][1] \in {"ACTIVE"} \cup {h[j][2] : j \in 1 .. n - 1}
      BY DEF StatusFollowsHistory
    <3>1. p \in Entered /\ p \in Pupil
      BY <2>12
    <3>2. CASE ~moved(p)
      <4>1. past'[p] = past[p]
        BY <2>8, <3>1, <3>2
      <4>2. pupil'[p].status = pupil[p].status
        BY <2>1, <2>4, <2>5, <3>1, <3>2
      <4> QED
        BY <1>1, <3>1, <4>1, <4>2 DEF StatusFollowsHistory
    <3>3. CASE moved(p)
      <4> DEFINE h == past[p]
                 g == past'[p]
      <4>1. /\ g # <<>> /\ Len(h) \in Nat /\ g[Len(g)] = <<f.read[p].status, f.want.status>>
            /\ Len(g) = Len(h) + 1
            /\ DOMAIN h = 1 .. Len(h) /\ DOMAIN g = 1 .. Len(h) + 1
            /\ \A n \in 1 .. Len(h) : g[n] = h[n]
        BY <2>7, <3>1, <3>3
      <4>2. pupil'[p].status = f.want.status /\ f.read[p].status \in Had(p)
        BY <2>1, <2>2, <2>5, <3>3 DEF moved
      <4>3. \A n \in DOMAIN h : h[n][1] \in {"ACTIVE"} \cup {h[j][2] : j \in 1 .. n - 1}
        BY <1>1, <3>1 DEF StatusFollowsHistory
      <4>4. f.read[p].status \in {"ACTIVE"} \cup {h[j][2] : j \in DOMAIN h}
        BY <4>2 DEF Had
      <4> HIDE DEF h, g
      <4>5. ASSUME NEW n \in DOMAIN g PROVE g[n][1] \in {"ACTIVE"} \cup {g[j][2] : j \in 1 .. n - 1}
        <5>1. CASE n \in 1 .. Len(h)
          <6>1. g[n][1] \in {"ACTIVE"} \cup {h[j][2] : j \in 1 .. n - 1}
            BY <4>1, <4>3, <5>1
          <6>2. \A j \in 1 .. n - 1 : j \in 1 .. Len(h) /\ g[j] = h[j]
            BY <4>1, <5>1
          <6> QED
            BY <6>1, <6>2
        <5>2. CASE n = Len(h) + 1
          <6>1. g[n][1] = f.read[p].status /\ n - 1 = Len(h)
            BY <4>1, <5>2
          <6>2. \A j \in DOMAIN h : j \in 1 .. n - 1 /\ g[j] = h[j]
            BY <4>1, <6>1
          <6> QED
            BY <4>4, <6>1, <6>2
        <5> QED
          BY <4>1, <5>1, <5>2
      <4>6. g[Len(g)][2] = pupil'[p].status
        BY <4>1, <4>2
      <4> QED
        BY <4>1, <4>5, <4>6 DEF g
    <3> QED
      BY <3>2, <3>3
  <2> QED
    BY <2>11, <2>13, <2>14 DEF DirectoryInv
<1> QED
  BY <1>6, <1>7

-----------------------------------------------------------------------------
(* Every step.                                                             *)

\* At first the students were entered by hand and have no history.
LEMMA DirectoryStarts == DirectoryInit => DirectoryInv
<1> SUFFICES ASSUME DirectoryInit PROVE DirectoryInv
  OBVIOUS
<1>1. /\ pupil = FirstPupil /\ past = [p \in Pupil |-> <<>>]
      /\ tutor = FirstTutor /\ account = FirstAccount /\ tie = {}
      /\ form = [k \in Registrar |-> NoForm]
      /\ byHand = Entered /\ unseen = {} /\ entries = 0
  BY DEF DirectoryInit
<1>2. NoForm \in Form /\ NoForm.pc = "idle" /\ NoForm.kind = "import"
  BY NoFormIsForm
<1>3. Entered \subseteq Pupil
  BY DEF Entered
<1>4. DirectoryTypeOK
  <2>1. pupil \in [Pupil -> PupilRow \cup {NoPupil}] /\ OneMatriculeEach(pupil)
    BY <1>1, PupilAssumption DEF OneMatriculeEach
  <2>2. past \in [Pupil -> Seq(StudentStatus \X StudentStatus)] /\ \A p \in Pupil \ Entered : past[p] = <<>>
    <3> DEFINE S == Seq(StudentStatus \X StudentStatus)
    <3>1. <<>> \in S
      OBVIOUS
    <3> HIDE DEF S
    <3>2. past \in [Pupil -> S]
      BY <1>1, <3>1
    <3> QED
      BY <1>1, <3>2 DEF S
  <2>3. account \in [Tutor -> SUBSET ParentAccount] /\ tutor \subseteq Tutor /\ 0 \in 0 .. MaxEntries
    <3>1. FirstAccount \in [Tutor -> SUBSET ParentAccount] /\ FirstTutor \subseteq Tutor
      BY PupilAssumption
    <3>2. MaxEntries \in Nat
      BY PupilAssumption
    <3> QED
      BY <1>1, <3>1, <3>2
  <2>4. form \in [Registrar -> Form]
    BY <1>1, <1>2
  <2> QED
    BY <1>1, <1>3, <2>1, <2>2, <2>3, <2>4 DEF DirectoryTypeOK
<1>5. ViewsHold /\ ReadsWereReal
  BY <1>1, <1>2 DEF ViewsHold, ReadsWereReal
<1>6. TiesStayInSchool
  BY <1>1 DEF TiesStayInSchool
<1>7. OneAccountEach
  BY <1>1, PupilAssumption DEF OneAccountEach
<1>8. ImportMakesNoTwin
  BY <1>1 DEF ImportMakesNoTwin
<1>9. StatusFollowsHistory
  <2> SUFFICES ASSUME NEW p \in Entered
               PROVE  LET h == past[p] IN
                      /\ h # <<>> => h[Len(h)][2] = pupil[p].status
                      /\ h = <<>> => pupil[p].status = "ACTIVE"
                      /\ \A n \in DOMAIN h : h[n][1] \in {"ACTIVE"} \cup {h[m][2] : m \in 1 .. n - 1}
    BY DEF StatusFollowsHistory
  <2>1. past[p] = <<>> /\ pupil[p].status = "ACTIVE"
    BY <1>1, PupilAssumption DEF Entered
  <2> QED
    BY <2>1
<1> QED
  BY <1>4, <1>5, <1>6, <1>7, <1>8, <1>9 DEF DirectoryInv

\* What a request may ask of a student.
LEMMA Wishes == Wish \subseteq Field /\ \A s \in StudentStatus : [Untouched EXCEPT !.status = s] \in Field
BY DEF Wish, Untouched, Field

\* No step of the directory breaks its invariant.
LEMMA DirectoryStep == DirectoryInv /\ [DirectoryNext]_directoryVars => DirectoryInv'
<1> SUFFICES ASSUME DirectoryInv, [DirectoryNext]_directoryVars PROVE DirectoryInv'
  OBVIOUS
<1>1. CASE CreateStudent
  BY <1>1, CreateStudentKeeps
<1>2. CASE \E t \in Tutor : CreateGuardian(t)
  BY <1>2, CreateGuardianKeeps
<1>3. CASE \E p \in Pupil, t \in Tutor : AttachGuardian(p, t) \/ DetachGuardian(p, t)
  BY <1>3, TieKeeps
<1>4. ASSUME NEW k \in Registrar,
             \/ \E s \in Campus, sheet \in Sheet : StartImport(k, s, sheet)
             \/ ReadIdentities(k) \/ Import(k) \/ Change(k) \/ Link(k)
             \/ \E p \in Pupil, want \in Wish : UpdateStudent(k, p, want)
             \/ \E ps \in Pick, s \in StudentStatus : BulkUpdateStatus(k, ps, s)
             \/ \E t \in Tutor, user \in {{u} : u \in ParentAccount} \cup {{}} : StartLink(k, t, user)
      PROVE  DirectoryInv'
  <2>1. CASE \E s \in Campus, sheet \in Sheet : StartImport(k, s, sheet)
    BY <2>1, StartImportKeeps
  <2>2. CASE ReadIdentities(k) \/ Import(k) \/ Change(k) \/ Link(k)
    BY <2>2, ReadIdentitiesKeeps, ImportKeeps, ChangeKeeps, LinkKeeps
  <2>3. CASE \E p \in Pupil, want \in Wish : UpdateStudent(k, p, want)
    <3>1. PICK p \in Pupil, want \in Wish : StartChange(k, {p}, want)
      BY <2>3 DEF UpdateStudent
    <3>2. {p} \in SUBSET Pupil /\ want \in Field
      BY Wishes
    <3> QED
      BY <3>1, <3>2, StartChangeKeeps
  <2>4. CASE \E ps \in Pick, s \in StudentStatus : BulkUpdateStatus(k, ps, s)
    <3>1. PICK ps \in Pick, s \in StudentStatus : BulkUpdateStatus(k, ps, s)
      BY <2>4
    <3>2. PICK want \in Field : want = [Untouched EXCEPT !.status = s]
      BY Wishes
    <3>3. ps \in SUBSET Pupil /\ StartChange(k, ps, want)
      BY <3>1, <3>2, PupilAssumption DEF BulkUpdateStatus
    <3> QED
      BY <3>3, StartChangeKeeps
  <2>5. CASE \E t \in Tutor, user \in {{u} : u \in ParentAccount} \cup {{}} : StartLink(k, t, user)
    <3>1. PICK t \in Tutor, user \in SUBSET ParentAccount : StartLink(k, t, user)
      BY <2>5
    <3> QED
      BY <3>1, StartLinkKeeps
  <2> QED
    BY <1>4, <2>1, <2>2, <2>3, <2>4, <2>5
<1>5. CASE UNCHANGED directoryVars
  <2>1. UNCHANGED <<pupil, past, tutor, account, tie, form, byHand, unseen, entries>>
    BY <1>5 DEF directoryVars
  <2>2. DirectoryTypeOK' /\ TiesStayInSchool' /\ OneAccountEach'
    BY <2>1 DEF DirectoryInv, DirectoryTypeOK, Entered, OneMatriculeEach, TiesStayInSchool, OneAccountEach
  <2>3. ViewsHold' /\ ReadsWereReal' /\ ImportMakesNoTwin' /\ StatusFollowsHistory'
    <3>1. {} \in SUBSET Registrar /\ \A k \in Registrar \ {} : form'[k] = form[k]
      BY <2>1
    <3> QED
      BY <2>1, <3>1, GuardiansApart
  <2> QED
    BY <2>2, <2>3 DEF DirectoryInv
<1> QED
  BY <1>1, <1>2, <1>3, <1>4, <1>5 DEF DirectoryNext

LEMMA DirectoryKeepsInv == DirectorySpec => []DirectoryInv
<1> QED
  BY DirectoryStarts, DirectoryStep, PTL DEF DirectorySpec

\* Rows refer to rows that are there and a matricule names one student of a
\* school (students/models.py), whatever forms and imports overlap.
THEOREM DirectoryTypeCorrect == DirectorySpec => []DirectoryTypeOK
<1>1. DirectoryInv => DirectoryTypeOK
  BY DEF DirectoryInv
<1> QED
  BY <1>1, DirectoryKeepsInv, PTL

\* The directory stays one entry per person an import brings, one line per
\* change of status and one way from a parent to a child (students/router.py,
\* students/service.py), for any number of requests, students and files.
THEOREM DirectoryStaysSound == DirectorySpec => []DirectoryIsSound
<1>1. DirectoryInv => DirectoryIsSound
  <2> SUFFICES ASSUME DirectoryInv PROVE OneWayToAChild
    BY DEF DirectoryInv, DirectoryIsSound
  <2> SUFFICES ASSUME NEW u \in ParentAccount, NEW p \in Entered, NEW s \in WaysTo(u, p), NEW t \in WaysTo(u, p)
               PROVE  s = t
    BY DEF OneWayToAChild
  <2>1. /\ s \in tutor /\ t \in tutor /\ u \in account[s] \cap account[t]
        /\ <<p, s>> \in tie /\ <<p, t>> \in tie
    BY DEF WaysTo
  <2>2. TutorAt[s] = pupil[p].school /\ TutorAt[t] = pupil[p].school
    BY <2>1 DEF DirectoryInv, TiesStayInSchool
  <2>3. s \in Tutor /\ t \in Tutor
    BY <2>1 DEF DirectoryInv, DirectoryTypeOK
  <2> QED
    BY <2>1, <2>2, <2>3 DEF DirectoryInv, OneAccountEach
<1> QED
  BY <1>1, DirectoryKeepsInv, PTL

-----------------------------------------------------------------------------
(***************************************************************************)
(* Families are told of every absence on record, once a day by email, for  *)
(* any number of writers, sessions, locks, failures and deaths.            *)
(*                                                                         *)
(* The argument is that the row of an email decides who sends it: it is    *)
(* inserted once, by the commit that queues the email, and the queues of   *)
(* two requests have no email in common.                                   *)
(***************************************************************************)

\* What a writer that sends emails knows of them: their rows were new, the
\* transport has had one of them, and no other writer sends them.
Sends(w) ==
  LET r == roll[w] IN
  /\ r.at \subseteq r.queue
  /\ r.pc # "report" => r.at = {}
  /\ r.pc \notin {"send", "report"} => r.queue = {}
  /\ \A l \in r.queue : mail[l] = "ATTEMPTED" /\ mailed[l] = IF l \in r.at THEN 1 ELSE 0

RollInv ==
  /\ RollTypeOK /\ OneEmailADay
  /\ \A w \in Writer : Sends(w)
  /\ \A v, w \in Writer : v # w => roll[v].queue \cap roll[w].queue = {}
  /\ \A l \in Letter : l \in delivered => mailed[l] = 1

\* A request that does nothing is a request.
LEMMA NoRollIsIdle ==
  /\ NoRoll \in RollState /\ NoRoll.pc = "idle" /\ NoRoll.queue = {} /\ NoRoll.at = {}
<1>1. (CHOOSE s \in Session : TRUE) \in Session
  BY RoomAssumption
<1> DEFINE s == CHOOSE x \in Session : TRUE
<1>2. s \in Session
  BY <1>1
<1> HIDE DEF s
<1>3. NoRoll = [pc |-> "idle", session |-> s, fixing |-> FALSE,
                entry |-> NoMarks, same |-> {}, before |-> NoMarks, queue |-> {}, at |-> {}]
  BY DEF NoRoll, s
<1>4. NoMarks \in [Student -> Mark]
  BY DEF NoMarks, Mark
<1> QED
  BY <1>2, <1>3, <1>4 DEF RollState

\* Nobody's request has changed but one, which sends nothing: what is known of
\* emails holds still.
LEMMA NothingSent ==
  ASSUME RollInv, NEW w \in Writer, NEW r \in RollState, roll' = [roll EXCEPT ![w] = r],
         r.pc \notin {"send", "report"}, r.queue = {}, r.at = {},
         UNCHANGED <<open, locked, record, told, Post>>, rolls' \in 0 .. MaxRolls
  PROVE  RollInv'
<1>1. RollTypeOK /\ OneEmailADay
  BY DEF RollInv
<1>2. /\ roll \in [Writer -> RollState]
      /\ UNCHANGED <<open, locked, record, told, mail, mailed, delivered>>
  BY <1>1 DEF RollTypeOK, Post
<1>3. roll' \in [Writer -> RollState]
  BY <1>2
<1>4. \A v \in Writer : roll'[v] = IF v = w THEN r ELSE roll[v]
  BY <1>2
<1>5. RollTypeOK'
  BY <1>1, <1>2, <1>3 DEF RollTypeOK
<1>6. OneEmailADay'
  BY <1>1, <1>2 DEF OneEmailADay
<1>7. ASSUME NEW v \in Writer PROVE Sends(v)'
  <2>1. CASE v = w
    BY <1>4, <2>1 DEF Sends
  <2>2. CASE v # w
    BY <1>2, <1>4, <2>2 DEF Sends, RollInv
  <2> QED
    BY <2>1, <2>2
<1>8. \A u, v \in Writer : u # v => roll'[u].queue \cap roll'[v].queue = {}
  BY <1>4 DEF RollInv
<1>9. \A l \in Letter : l \in delivered' => mailed'[l] = 1
  BY <1>2 DEF RollInv
<1> QED
  BY <1>5, <1>6, <1>7, <1>8, <1>9 DEF RollInv

\* One request or lock more is within the bound.
LEMMA RollsCounted == ASSUME RollTypeOK, Another PROVE rolls' \in 0 .. MaxRolls
  BY RoomAssumption DEF RollTypeOK, Another

\* Sessions are created, locked and unlocked beside the requests.
LEMMA SessionsKeep ==
  ASSUME RollInv, NEW s \in Session, CreateSession(s) \/ Lock(s) \/ Unlock(s)
  PROVE  RollInv'
<1>1. RollTypeOK /\ OneEmailADay
  BY DEF RollInv
<1>2. UNCHANGED <<record, told, mail, mailed, delivered, roll>> /\ Another
  BY DEF CreateSession, Lock, Unlock, Post
<1>3. open' \subseteq Session /\ locked' \subseteq open'
  BY <1>1 DEF CreateSession, Lock, Unlock, RollTypeOK
<1>4. RollTypeOK'
  BY <1>1, <1>2, <1>3, RollsCounted DEF RollTypeOK
<1>5. OneEmailADay'
  BY <1>1, <1>2 DEF OneEmailADay
<1> QED
  BY <1>2, <1>4, <1>5 DEF RollInv, Sends

\* A request is sent, with the statuses it asks for.
LEMMA SubmitKeeps ==
  ASSUME RollInv, NEW w \in Writer, NEW s \in Session, NEW who \in SUBSET Student,
         NEW sheet \in [who -> Mark \ {"none"}], Submit(w, s, sheet)
  PROVE  RollInv'
<1> DEFINE entry == [p \in Student |-> IF p \in DOMAIN sheet THEN sheet[p] ELSE "none"]
           r == [NoRoll EXCEPT !.pc = "check", !.session = s, !.entry = entry]
<1>1. entry \in [Student -> Mark]
  BY DEF Mark
<1>2. roll' = [roll EXCEPT ![w] = r] /\ Another /\ UNCHANGED <<open, locked, record, told, Post>>
  BY DEF Submit
<1> HIDE DEF entry
<1>3. r \in RollState /\ r.pc = "check" /\ r.queue = {} /\ r.at = {}
  BY <1>1, NoRollIsIdle DEF RollState
<1> HIDE DEF r
<1> QED
  BY <1>2, <1>3, RollsCounted, NothingSent DEF RollInv

LEMMA CorrectKeeps ==
  ASSUME RollInv, NEW w \in Writer, NEW s \in Session, NEW p \in Student, NEW status \in Mark,
         Correct(w, s, p, status)
  PROVE  RollInv'
<1> DEFINE wanted == IF status = "none" THEN record[<<s, p>>] ELSE status
           same == IF status = "none" THEN {p} ELSE {}
           r == [NoRoll EXCEPT !.pc = "check", !.session = s, !.fixing = TRUE, !.entry[p] = wanted,
                               !.same = same, !.before[p] = record[<<s, p>>]]
<1>1. wanted \in Mark /\ record[<<s, p>>] \in Mark /\ same \in SUBSET Student
  BY DEF RollInv, RollTypeOK
<1>2. roll' = [roll EXCEPT ![w] = r] /\ Another /\ UNCHANGED <<open, locked, record, told, Post>>
  BY DEF Correct
<1> HIDE DEF wanted, same
<1>3. r \in RollState /\ r.pc = "check" /\ r.queue = {} /\ r.at = {}
  BY <1>1, NoRollIsIdle DEF RollState
<1> HIDE DEF r
<1> QED
  BY <1>2, <1>3, RollsCounted, NothingSent DEF RollInv

\* A request is checked and loads what it corrects, or ends without an email.
LEMMA CheckKeeps ==
  ASSUME RollInv, NEW w \in Writer, Check(w) \/ Load(w)
  PROVE  RollInv'
<1>1. /\ roll[w] \in RollState /\ roll[w].pc \in {"check", "load"} /\ rolls \in 0 .. MaxRolls
      /\ record \in [Session \X Student -> Mark]
  BY DEF RollInv, RollTypeOK, Check, Load
<1>2. roll[w].queue = {} /\ roll[w].at = {}
  BY <1>1 DEF RollInv, Sends
<1>3. rolls' = rolls /\ UNCHANGED <<open, locked, record, told, Post>>
  BY DEF Check, Load
<1>4. CASE Check(w)
  <2> DEFINE pc == IF roll[w].fixing THEN "save" ELSE "load"
             r == [roll[w] EXCEPT !.pc = pc]
  <2>1. roll' = [roll EXCEPT ![w] = r]
    BY <1>4 DEF Check
  <2>2. pc \in {"save", "load"}
    OBVIOUS
  <2> HIDE DEF pc
  <2>3. r \in RollState /\ r.pc \notin {"send", "report"} /\ r.queue = {} /\ r.at = {}
    BY <1>1, <1>2, <2>2 DEF RollState
  <2> HIDE DEF r
  <2> QED
    BY <1>1, <1>3, <2>1, <2>3, NothingSent
<1>5. CASE Load(w)
  <2> DEFINE before == [p \in Student |-> IF p \in Listed(w) THEN record[<<roll[w].session, p>>] ELSE "none"]
             r == [roll[w] EXCEPT !.pc = "save", !.before = before]
  <2>1. roll' = [roll EXCEPT ![w] = r]
    BY <1>5 DEF Load
  <2>2. before \in [Student -> Mark]
    BY <1>1 DEF RollState, Mark
  <2> HIDE DEF before
  <2>3. r \in RollState /\ r.pc \notin {"send", "report"} /\ r.queue = {} /\ r.at = {}
    BY <1>1, <1>2, <2>2 DEF RollState
  <2> HIDE DEF r
  <2> QED
    BY <1>1, <1>3, <2>1, <2>3, NothingSent
<1> QED
  BY <1>4, <1>5

LEMMA EndKeeps ==
  ASSUME RollInv, NEW w \in Writer, Forbid(w) \/ SaveFails(w) \/ DieCalling(w)
  PROVE  RollInv'
<1>1. /\ roll' = [roll EXCEPT ![w] = NoRoll]
      /\ UNCHANGED <<open, locked, record, told, Post>>
      /\ rolls' = rolls \/ Another
  BY DEF Forbid, SaveFails, DieCalling
<1>2. rolls' \in 0 .. MaxRolls
  BY <1>1, RollsCounted DEF RollInv, RollTypeOK
<1> QED
  BY <1>1, <1>2, NoRollIsIdle, NothingSent

\* The statuses written are marks, and the new letters have no row yet.
LEMMA WhatIsWritten ==
  ASSUME RollTypeOK, NEW w \in Writer
  PROVE  /\ \A p \in Student : Written(w, p) \in Mark
         /\ BecameAbsent(w) \subseteq Student
         /\ NewLetters(w) \subseteq Letter /\ \A l \in NewLetters(w) : mail[l] = "none"
         /\ \A p \in BecameAbsent(w) : mail[<<p, Day[roll[w].session]>>] = "none"
              => <<p, Day[roll[w].session]>> \in NewLetters(w)
<1>1. roll[w] \in RollState /\ roll[w].session \in Session /\ record \in [Session \X Student -> Mark]
  BY DEF RollTypeOK, RollState
<1>2. ASSUME NEW p \in Student PROVE Written(w, p) \in Mark
  BY <1>1 DEF Written, RollState
<1>3. BecameAbsent(w) \subseteq Student
  BY DEF BecameAbsent, Listed
<1>4. \A p \in BecameAbsent(w) : <<p, Day[roll[w].session]>> \in LettersOf(w)
  BY DEF LettersOf
<1>5. LettersOf(w) \subseteq Letter
  BY <1>1, <1>3 DEF LettersOf, Letter
<1> QED
  BY <1>2, <1>3, <1>4, <1>5 DEF NewLetters

\* The roll call is written, its notices are issued and its emails are queued.
LEMMA SaveKeeps ==
  ASSUME RollInv, NEW w \in Writer, Save(w)
  PROVE  RollInv'
<1>1. RollTypeOK /\ OneEmailADay
  BY DEF RollInv
<1> DEFINE new == NewLetters(w)
           r == IF new = {} THEN NoRoll ELSE [NoRoll EXCEPT !.pc = "send", !.queue = new]
<1>2. new \subseteq Letter /\ \A l \in new : mail[l] = "none"
  BY <1>1, WhatIsWritten
<1>3. /\ roll' = [roll EXCEPT ![w] = r]
      /\ mail' = [l \in Letter |-> IF l \in new THEN "ATTEMPTED" ELSE mail[l]]
      /\ told' = [p \in Student |-> IF p \in BecameAbsent(w) THEN told[p] + 1 ELSE told[p]]
      /\ record' = [k \in Session \X Student |->
           IF k[1] = roll[w].session /\ k[2] \in Listed(w) THEN Written(w, k[2]) ELSE record[k]]
      /\ UNCHANGED <<open, locked, mailed, delivered, rolls>>
  BY DEF Save
<1> HIDE DEF new
<1>4. /\ r \in RollState /\ r.queue = new /\ r.at = {} /\ r.pc # "report"
      /\ r.pc # "send" => r.queue = {}
  <2>1. CASE new = {}
    BY <2>1, NoRollIsIdle
  <2>2. CASE new # {}
    BY <1>2, <2>2, NoRollIsIdle DEF RollState
  <2> QED
    BY <2>1, <2>2
<1> HIDE DEF r
<1>5. roll \in [Writer -> RollState] /\ \A v \in Writer : roll'[v] = IF v = w THEN r ELSE roll[v]
  BY <1>1, <1>3 DEF RollTypeOK
<1>6. \A l \in Letter : mail'[l] = IF l \in new THEN "ATTEMPTED" ELSE mail[l]
  BY <1>3
<1>7. \A l \in new : mailed[l] = 0 /\ l \notin delivered
  BY <1>1, <1>2 DEF OneEmailADay, RollInv
<1>8. \A v \in Writer : roll[v].queue \cap new = {} /\ roll[v].queue \subseteq Letter
  BY <1>2, <1>5 DEF RollInv, Sends, RollState
<1>9. RollTypeOK'
  <2>1. roll' \in [Writer -> RollState]
    BY <1>3, <1>4, <1>5
  <2>2. mail' \in [Letter -> MailStatus]
    BY <1>1, <1>3 DEF RollTypeOK, MailStatus
  <2>3. told' \in [Student -> Nat]
    BY <1>1, <1>3 DEF RollTypeOK
  <2>4. record' \in [Session \X Student -> Mark]
    BY <1>1, <1>3, WhatIsWritten DEF RollTypeOK
  <2> QED
    BY <1>1, <1>3, <2>1, <2>2, <2>3, <2>4 DEF RollTypeOK
<1>10. OneEmailADay'
  BY <1>1, <1>3, <1>6, <1>7 DEF OneEmailADay
<1>11. ASSUME NEW v \in Writer PROVE Sends(v)'
  <2>1. CASE v = w
    BY <1>2, <1>3, <1>4, <1>5, <1>6, <1>7, <2>1 DEF Sends
  <2>2. CASE v # w
    BY <1>3, <1>5, <1>6, <1>8, <2>2 DEF Sends, RollInv
  <2> QED
    BY <2>1, <2>2
<1>12. \A u, v \in Writer : u # v => roll'[u].queue \cap roll'[v].queue = {}
  BY <1>4, <1>5, <1>8 DEF RollInv
<1>13. \A l \in Letter : l \in delivered' => mailed'[l] = 1
  BY <1>3 DEF RollInv
<1> QED
  BY <1>9, <1>10, <1>11, <1>12, <1>13 DEF RollInv

\* An email is handed to the transport: it has left once.
LEMMA SendMailKeeps ==
  ASSUME RollInv, NEW w \in Writer, SendMail(w)
  PROVE  RollInv'
<1>1. RollTypeOK /\ OneEmailADay
  BY DEF RollInv
<1>2. PICK l \in roll[w].queue, accepted \in BOOLEAN :
        /\ mailed' = [mailed EXCEPT ![l] = @ + 1]
        /\ delivered' = IF accepted THEN delivered \cup {l} ELSE delivered
        /\ roll' = [roll EXCEPT ![w].pc = "report", ![w].at = {l}]
  BY DEF SendMail
<1>3. roll[w].pc = "send" /\ UNCHANGED <<open, locked, record, told, mail, rolls>>
  BY DEF SendMail
<1>4. roll \in [Writer -> RollState] /\ roll[w] \in RollState /\ roll[w].queue \subseteq Letter
      /\ mailed \in [Letter -> Nat]
  BY <1>1 DEF RollTypeOK, RollState
<1> DEFINE r == [roll[w] EXCEPT !.pc = "report", !.at = {l}]
<1>5. r \in RollState /\ r.pc = "report" /\ r.at = {l} /\ r.queue = roll[w].queue
  BY <1>2, <1>4 DEF RollState
<1>6. roll' = [roll EXCEPT ![w] = r]
  BY <1>2, <1>4
<1> HIDE DEF r
<1>7. \A v \in Writer : roll'[v] = IF v = w THEN r ELSE roll[v]
  BY <1>4, <1>6
<1>8. mail[l] = "ATTEMPTED" /\ mailed[l] = 0 /\ l \in Letter
  BY <1>2, <1>3, <1>4 DEF RollInv, Sends
<1>9. \A m \in Letter : mailed'[m] = IF m = l THEN 1 ELSE mailed[m]
  BY <1>2, <1>4, <1>8
<1>10. \A m \in Letter : m # l => (m \in delivered' <=> m \in delivered)
  BY <1>2
<1>11. RollTypeOK'
  <2>1. roll' \in [Writer -> RollState]
    BY <1>4, <1>5, <1>6
  <2>2. mailed' \in [Letter -> Nat] /\ delivered' \subseteq Letter
    BY <1>1, <1>2, <1>4, <1>8 DEF RollTypeOK
  <2> QED
    BY <1>1, <1>3, <2>1, <2>2 DEF RollTypeOK
<1>12. OneEmailADay'
  BY <1>1, <1>3, <1>8, <1>9, <1>10 DEF OneEmailADay
<1>13. ASSUME NEW v \in Writer PROVE Sends(v)'
  <2>1. CASE v = w
    BY <1>2, <1>3, <1>4, <1>5, <1>7, <1>9, <2>1 DEF Sends, RollInv
  <2>2. CASE v # w
    <3>1. l \notin roll[v].queue /\ roll[v].queue \subseteq Letter
      BY <1>2, <1>4, <2>2 DEF RollInv, RollState
    <3> QED
      BY <1>3, <1>7, <1>9, <2>2, <3>1 DEF Sends, RollInv
  <2> QED
    BY <2>1, <2>2
<1>14. \A u, v \in Writer : u # v => roll'[u].queue \cap roll'[v].queue = {}
  BY <1>5, <1>7 DEF RollInv
<1>15. \A m \in Letter : m \in delivered' => mailed'[m] = 1
  BY <1>9, <1>10 DEF RollInv
<1> QED
  BY <1>11, <1>12, <1>13, <1>14, <1>15 DEF RollInv

\* The row of an email is told what the transport said, and the next follows.
LEMMA ReportMailKeeps ==
  ASSUME RollInv, NEW w \in Writer, ReportMail(w)
  PROVE  RollInv'
<1>1. RollTypeOK /\ OneEmailADay
  BY DEF RollInv
<1> DEFINE r == IF roll[w].queue \subseteq roll[w].at THEN NoRoll
                ELSE [roll[w] EXCEPT !.pc = "send", !.queue = @ \ roll[w].at, !.at = {}]
<1>2. roll \in [Writer -> RollState] /\ roll[w] \in RollState
  BY <1>1 DEF RollTypeOK
<1>3. /\ roll[w].pc = "report"
      /\ mail' = [l \in Letter |->
           IF l \notin roll[w].at THEN mail[l]
           ELSE IF l \in delivered THEN "TRANSPORT_ACCEPTED" ELSE "TRANSPORT_FAILED"]
      /\ roll' = [roll EXCEPT ![w] = r]
      /\ UNCHANGED <<open, locked, record, told, mailed, delivered, rolls>>
  <2>1. roll' = [roll EXCEPT ![w] = r]
    BY Zenon DEF ReportMail
  <2> QED
    BY <2>1 DEF ReportMail
<1>4. /\ roll[w].at \subseteq roll[w].queue /\ roll[w].queue \subseteq Letter
      /\ \A l \in roll[w].queue : mail[l] = "ATTEMPTED" /\ mailed[l] = IF l \in roll[w].at THEN 1 ELSE 0
  BY <1>2 DEF RollInv, Sends, RollState
<1>5. /\ r \in RollState /\ r.queue = roll[w].queue \ roll[w].at /\ r.at = {} /\ r.pc # "report"
      /\ r.pc # "send" => r.queue = {}
  <2>1. CASE roll[w].queue \subseteq roll[w].at
    BY <2>1, NoRollIsIdle
  <2>2. CASE ~(roll[w].queue \subseteq roll[w].at)
    BY <1>2, <2>2 DEF RollState
  <2> QED
    BY <2>1, <2>2
<1> HIDE DEF r
<1>6. \A v \in Writer : roll'[v] = IF v = w THEN r ELSE roll[v]
  BY <1>3, <1>2
<1>7. \A l \in Letter : mail'[l] = IF l \notin roll[w].at THEN mail[l]
                                   ELSE IF l \in delivered THEN "TRANSPORT_ACCEPTED" ELSE "TRANSPORT_FAILED"
  BY <1>3
<1>8. RollTypeOK'
  <2>1. roll' \in [Writer -> RollState]
    BY <1>3, <1>2, <1>5
  <2>2. mail' \in [Letter -> MailStatus]
    BY <1>1, <1>3 DEF RollTypeOK, MailStatus
  <2> QED
    BY <1>1, <1>3, <2>1, <2>2 DEF RollTypeOK
<1>9. OneEmailADay'
  <2> SUFFICES ASSUME NEW l \in Letter
               PROVE  /\ mailed[l] <= 1
                      /\ mail'[l] = "none" => mailed[l] = 0
                      /\ mail'[l] = "TRANSPORT_ACCEPTED" => l \in delivered
                      /\ mail'[l] = "TRANSPORT_FAILED" => mailed[l] = 1 /\ l \notin delivered
    BY <1>3 DEF OneEmailADay
  <2>1. CASE l \in roll[w].at
    BY <1>4, <1>7, <2>1
  <2>2. CASE l \notin roll[w].at
    BY <1>1, <1>7, <2>2 DEF OneEmailADay
  <2> QED
    BY <2>1, <2>2
<1>10. ASSUME NEW v \in Writer PROVE Sends(v)'
  <2>1. CASE v = w
    BY <1>3, <1>4, <1>5, <1>6, <1>7, <2>1 DEF Sends
  <2>2. CASE v # w
    <3>1. roll[w].at \cap roll[v].queue = {} /\ roll[v].queue \subseteq Letter
      BY <1>2, <1>4, <2>2 DEF RollInv, RollState
    <3> QED
      BY <1>3, <1>6, <1>7, <2>2, <3>1 DEF Sends, RollInv
  <2> QED
    BY <2>1, <2>2
<1>11. \A u, v \in Writer : u # v => roll'[u].queue \cap roll'[v].queue = {}
  BY <1>5, <1>6 DEF RollInv
<1>12. \A l \in Letter : l \in delivered' => mailed'[l] = 1
  BY <1>3 DEF RollInv
<1> QED
  BY <1>8, <1>9, <1>10, <1>11, <1>12 DEF RollInv

-----------------------------------------------------------------------------
(* The theorems on roll calls.                                             *)

LEMMA RollStarts == RollInit => RollInv
<1> SUFFICES ASSUME RollInit PROVE RollInv
  OBVIOUS
<1>1. RollTypeOK
  BY NoRollIsIdle, RoomAssumption DEF RollInit, RollTypeOK, Mark, MailStatus
<1>2. OneEmailADay
  BY DEF RollInit, OneEmailADay
<1>3. \A w \in Writer : Sends(w) /\ roll[w].queue = {}
  BY NoRollIsIdle DEF RollInit, Sends
<1> QED
  BY <1>1, <1>2, <1>3 DEF RollInit, RollInv

LEMMA RollStep == RollInv /\ [RollNext]_rollVars => RollInv'
<1> SUFFICES ASSUME RollInv, [RollNext]_rollVars
             PROVE  RollInv'
  OBVIOUS
<1>1. ASSUME NEW s \in Session, CreateSession(s) \/ Lock(s) \/ Unlock(s) PROVE RollInv'
  BY <1>1, SessionsKeep
<1>2. ASSUME NEW w \in Writer, NEW s \in Session, NEW who \in Selection,
             NEW sheet \in [who -> Mark \ {"none"}], Submit(w, s, sheet)
      PROVE  RollInv'
  BY <1>2, SelectionAssumption, SubmitKeeps
<1>3. ASSUME NEW w \in Writer, NEW s \in Session, NEW p \in Student, NEW status \in Mark,
             Correct(w, s, p, status)
      PROVE  RollInv'
  BY <1>3, CorrectKeeps
<1>4. ASSUME NEW w \in Writer,
             \/ Check(w) \/ Forbid(w) \/ Load(w) \/ Save(w) \/ SaveFails(w)
             \/ SendMail(w) \/ ReportMail(w) \/ DieCalling(w)
      PROVE  RollInv'
  BY <1>4, CheckKeeps, EndKeeps, SaveKeeps, SendMailKeeps, ReportMailKeeps
<1>5. CASE UNCHANGED rollVars
  <2>1. UNCHANGED <<open, locked, record, told, mail, mailed, delivered, roll, rolls>>
    BY <1>5 DEF rollVars
  <2> QED
    BY <2>1 DEF RollInv, RollTypeOK, OneEmailADay, Sends
<1> QED
  BY <1>1, <1>2, <1>3, <1>4, <1>5 DEF RollNext

LEMMA RollIsInv == RollSpec => []RollInv
<1> QED
  BY RollStarts, RollStep, PTL DEF RollSpec

\* The requests of the roll call, its records and its emails are well typed
\* (attendance/router.py, attendance/service.py), for any class and writers.
THEOREM RollTypeCorrect == RollSpec => []RollTypeOK
<1>1. RollInv => RollTypeOK
  BY DEF RollInv
<1> QED
  BY <1>1, RollIsInv, PTL

\* A record turns absent in the commit that tells the family: no other action
\* writes records, and the commit compares with what it loaded.
LEMMA SaveTells ==
  ASSUME RollTypeOK, NEW w \in Writer, Save(w), NEW p \in Student
  PROVE  /\ \A s \in Session :
              record[<<s, p>>] # "ABSENT" /\ record'[<<s, p>>] = "ABSENT"
                => told'[p] > told[p] /\ mail'[<<p, Day[s]>>] # "none"
         /\ told'[p] > told[p] => \E s \in Session : record'[<<s, p>>] = "ABSENT"
<1>1. /\ told \in [Student -> Nat] /\ roll[w].session \in Session
      /\ mail \in [Letter -> MailStatus]
  BY DEF RollTypeOK, RollState
<1>2. /\ mail' = [l \in Letter |-> IF l \in NewLetters(w) THEN "ATTEMPTED" ELSE mail[l]]
      /\ told' = [q \in Student |-> IF q \in BecameAbsent(w) THEN told[q] + 1 ELSE told[q]]
      /\ record' = [k \in Session \X Student |->
           IF k[1] = roll[w].session /\ k[2] \in Listed(w) THEN Written(w, k[2]) ELSE record[k]]
  BY DEF Save
<1>3. \A s \in Session : record'[<<s, p>>] =
        IF s = roll[w].session /\ p \in Listed(w) THEN Written(w, p) ELSE record[<<s, p>>]
  BY <1>2
<1>4. told'[p] = IF p \in BecameAbsent(w) THEN told[p] + 1 ELSE told[p]
  BY <1>2
<1>5. ASSUME NEW s \in Session, record[<<s, p>>] # "ABSENT", record'[<<s, p>>] = "ABSENT"
      PROVE  told'[p] > told[p] /\ mail'[<<p, Day[s]>>] # "none"
  <2>1. s = roll[w].session /\ p \in Listed(w) /\ Written(w, p) = "ABSENT"
    BY <1>3, <1>5
  <2>2. p \in BecameAbsent(w)
    BY <1>5, <2>1 DEF BecameAbsent, Written
  <2>3. told'[p] > told[p]
    BY <1>1, <1>4, <2>2
  <2>4. <<p, Day[s]>> \in Letter
    BY DEF Letter
  <2>5. mail[<<p, Day[s]>>] = "none" => <<p, Day[s]>> \in NewLetters(w)
    BY <2>1, <2>2, WhatIsWritten
  <2> QED
    BY <1>2, <2>3, <2>4, <2>5
<1>6. ASSUME told'[p] > told[p] PROVE \E s \in Session : record'[<<s, p>>] = "ABSENT"
  <2>1. p \in BecameAbsent(w)
    BY <1>1, <1>4, <1>6
  <2>2. p \in Listed(w) /\ Written(w, p) = "ABSENT"
    BY <2>1 DEF BecameAbsent
  <2> QED
    BY <1>1, <1>3, <2>2
<1> QED
  BY <1>5, <1>6

\* Families are told of every absence on record, once a day by email, and of no
\* other, for any writers, sessions, locks, failures and deaths.
THEOREM FamiliesAreAlwaysTold == RollSpec => FamiliesTold
<1> DEFINE Tells ==
      \A p \in Student :
       /\ \A s \in Session :
            record[<<s, p>>] # "ABSENT" /\ record'[<<s, p>>] = "ABSENT"
              => told'[p] > told[p] /\ mail'[<<p, Day[s]>>] # "none"
       /\ told'[p] > told[p] => \E s \in Session : record'[<<s, p>>] = "ABSENT"
<1>1. RollInv => OneEmailADay
  BY DEF RollInv
<1>2. RollInv /\ [RollNext]_rollVars => [Tells]_rollVars
  <2> SUFFICES ASSUME RollInv, RollNext PROVE Tells
    OBVIOUS
  <2>1. RollTypeOK
    BY DEF RollInv
  <2>2. CASE \E w \in Writer : Save(w)
    BY <2>1, <2>2, SaveTells
  <2>3. CASE ~\E w \in Writer : Save(w)
    <3>1. UNCHANGED <<record, told>>
      BY <2>3 DEF RollNext, CreateSession, Lock, Unlock, Submit, Correct, Check, Forbid, Load,
         SaveFails, SendMail, ReportMail, DieCalling
    <3>2. \A p \in Student : told[p] \in Nat
      BY <2>1 DEF RollTypeOK
    <3> QED
      BY <3>1, <3>2
  <2> QED
    BY <2>2, <2>3
<1> HIDE DEF Tells
<1>3. RollSpec => [][Tells]_rollVars
  BY <1>2, RollIsInv, PTL DEF RollSpec
<1>4. RollSpec => AbsencesTold
  BY <1>3 DEF AbsencesTold, Tells
<1> QED
  BY <1>1, <1>4, RollIsInv, PTL DEF FamiliesTold

-----------------------------------------------------------------------------
(***************************************************************************)
(* The inbox is in order and without holes, for any transactions, pages    *)
(* and reloads.                                                            *)
(*                                                                         *)
(* The argument is that a cursor is a promise: it was given because a full *)
(* page was not older than it, and notices only arrive.  So a first page   *)
(* that is loaded again is never older than a page still on its way, and   *)
(* what there was at the first page is shown, or older than the cursor.    *)
(***************************************************************************)

\* The rows of one time are those of one transaction, which says one thing.
SayOneThing(rows) ==
  /\ \A q, r \in rows : q.at = r.at => q.what = r.what
  /\ \A r \in rows : r.what \in Text => r.n = 1
PostsApart ==
  /\ \A s \in Poster :
       /\ posting[s].at <= clock
       /\ posting[s].at = 0 => posting[s].rows = {}
       /\ \A r \in posting[s].rows : r.at = posting[s].at
       /\ posting[s].at # 0 => \A r \in notice : r.at # posting[s].at
       /\ SayOneThing(posting[s].rows)
  /\ \A s, t \in Poster : s # t /\ posting[s].at # 0 => posting[s].at # posting[t].at
  /\ \A r \in notice : r.at <= clock
  /\ SayOneThing(notice)

\* A page is older than no cursor, and a cursor was given because there were
\* more notices than fit: there will always be a full page that is not older.
AtLeast(c) == {r \in Mine : r.at >= c}
CursorsFollow ==
  \A c \in {screen.next, screen.more} : c # 0 =>
    /\ \A r \in Shown : r.at >= c
    /\ Cardinality(AtLeast(c)) >= PageSize

\* What there was at the first page is shown, shares its time with a notice that
\* is, or is older than the cursor.
Reached(r) == r \in Shown \/ \E o \in Shown : o.at = r.at
GoalAhead ==
  ~screen.raced =>
    /\ screen.more # 0 => screen.more = screen.next
    /\ \A r \in screen.goal : Reached(r) \/ (screen.next # 0 /\ r.at < screen.next)

NoticesInv ==
  /\ NoticesTypeOK /\ PostsApart /\ InboxInOrder /\ CursorsFollow /\ GoalAhead
  /\ Shown \subseteq Mine /\ screen.goal \subseteq Mine
  /\ marking.found \subseteq Mine /\ read \subseteq Mine

-----------------------------------------------------------------------------
(* Pages and their lists.                                                  *)

\* There are finitely many notices: they are told apart by their four columns.
LEMMA NoticesAreFinite == IsFiniteSet(Notice)
<1> DEFINE What == Text \cup {"FEE_OVERDUE"}
           D == ((Person \X Time) \X What) \X (1 .. 2)
           f == [r \in Notice |-> <<<<<<r.to, r.at>>, r.what>>, r.n>>]
<1>1. IsFiniteSet(Person) /\ IsFiniteSet(Text) /\ MaxPosts \in Nat
  BY NoticeAssumption
<1>2. IsFiniteSet(Time) /\ IsFiniteSet(1 .. 2)
  <2>1. 1 \in Int /\ 2 \in Int /\ MaxPosts \in Int
    BY <1>1
  <2>2. IsFiniteSet(1 .. MaxPosts)
    BY <2>1, FS_Interval
  <2>3. IsFiniteSet(1 .. 2)
    BY <2>1, FS_Interval
  <2> QED
    BY <2>2, <2>3 DEF Time
<1>3. IsFiniteSet(What)
  BY <1>1, FS_AddElement
<1>4. IsFiniteSet(Person \X Time)
  BY <1>1, <1>2, FS_Product
<1>5. IsFiniteSet((Person \X Time) \X What)
  BY <1>3, <1>4, FS_Product
<1>6. IsFiniteSet(D)
  BY <1>2, <1>5, FS_Product
<1>7. f \in [Notice -> D]
  BY DEF Notice
<1>8. ASSUME NEW q \in Notice, NEW r \in Notice, f[q] = f[r] PROVE q = r
  <2>1. q.to = r.to /\ q.at = r.at /\ q.what = r.what /\ q.n = r.n
    BY <1>8
  <2> QED
    BY <2>1 DEF Notice
<1>9. f \in Injection(Notice, D)
  BY <1>7, <1>8 DEF Injection, IsInjective
<1> QED
  BY <1>6, <1>9, FS_Injection

\* The lesser of two numbers, and the least of a finite set of times.
LEMMA LesserOfTwo ==
  ASSUME NEW a \in Nat, NEW b \in Nat
  PROVE  Min({a, b}) = IF a <= b THEN a ELSE b
BY DEF Min

LEMMA LeastTime ==
  ASSUME NEW times \in SUBSET Nat, times # {}
  PROVE  Min(times) \in times /\ \A t \in times : Min(times) <= t
<1>1. \E m \in times : \A t \in times : m <= t
  BY LeastNatural
<1> QED
  BY <1>1 DEF Min

\* A page that leaves something out is full, and what it leaves out is older.
LEMMA PageFacts ==
  ASSUME NoticesTypeOK, NEW before \in 0 .. MaxPosts, NEW page \in SUBSET Older(before),
         InPage(before, page)
  PROVE  /\ IsFiniteSet(page) /\ page \subseteq Mine /\ page \subseteq Notice
         /\ \A r \in page, o \in Older(before) \ page : r.at >= o.at
         /\ page # Older(before) => page # {} /\ Cardinality(page) = PageSize
         /\ Cardinality(page) <= PageSize
<1>1. Older(before) \subseteq Mine /\ Mine \subseteq Notice
  BY DEF Older, Mine, NoticesTypeOK
<1>2. IsFiniteSet(Older(before)) /\ IsFiniteSet(page)
  <2>1. Older(before) \in SUBSET Notice
    BY <1>1
  <2>2. IsFiniteSet(Older(before))
    BY <2>1, NoticesAreFinite, FS_Subset
  <2> QED
    BY <2>2, FS_Subset
<1>3. Cardinality(Older(before)) \in Nat /\ PageSize \in Nat \ {0}
  BY <1>2, FS_CardinalityType, NoticeAssumption
<1>4. /\ Cardinality(page) = Min({PageSize, Cardinality(Older(before))})
      /\ \A r \in page, o \in Older(before) \ page : r.at >= o.at
  BY DEF InPage
<1>5. page # Older(before) => Cardinality(page) # Cardinality(Older(before))
  BY <1>2, FS_Subset
<1>6. page # Older(before) => Cardinality(page) = PageSize
  BY <1>3, <1>4, <1>5, LesserOfTwo
<1>7. page # Older(before) => page # {}
  BY <1>3, <1>6, FS_EmptySet
<1>8. Cardinality(page) <= PageSize
  BY <1>3, <1>4, LesserOfTwo
<1> QED
  BY <1>1, <1>2, <1>4, <1>6, <1>7, <1>8

\* The cursor of the next page is the time of the last notice of this one.
LEMMA NextFacts ==
  ASSUME NoticesTypeOK, NEW before \in 0 .. MaxPosts, NEW page \in SUBSET Older(before),
         InPage(before, page), NEW n, n = NextBefore(before, page)
  PROVE  /\ n \in 0 .. MaxPosts
         /\ page = Older(before) => n = 0
         /\ page # Older(before) =>
              n # 0 /\ (\A r \in page : r.at >= n) /\ \E r \in page : r.at = n
<1>1. MaxPosts \in Nat
  BY NoticeAssumption
<1>2. page \subseteq Notice /\ (page # Older(before) => page # {})
  BY PageFacts
<1>3. CASE page = Older(before)
  BY <1>1, <1>3 DEF NextBefore
<1>4. CASE page # Older(before)
  <2> DEFINE times == {r.at : r \in page}
  <2>1. times \in SUBSET Time /\ times # {}
    BY <1>2, <1>4 DEF Notice
  <2>2. times \in SUBSET Nat
    BY <1>1, <2>1 DEF Time
  <2>3. n = Min(times)
    BY <1>4 DEF NextBefore
  <2>4. \A r \in page : r.at \in times
    OBVIOUS
  <2>5. \A t \in times : \E r \in page : r.at = t
    OBVIOUS
  <2> HIDE DEF times
  <2>6. n \in times /\ \A t \in times : n <= t
    BY <2>1, <2>2, <2>3, LeastTime
  <2>7. n \in 1 .. MaxPosts /\ \A r \in page : r.at >= n
    BY <2>1, <2>2, <2>4, <2>6 DEF Time
  <2>8. \E r \in page : r.at = n
    BY <2>5, <2>6
  <2> QED
    BY <1>1, <1>4, <2>7, <2>8
<1> QED
  BY <1>3, <1>4

\* A list of notices without repetition, the latest first, and what it shows.
Sorted(list) ==
  \A i, j \in DOMAIN list : i < j => list[i] # list[j] /\ list[i].at >= list[j].at
Elements(list) == {list[i] : i \in DOMAIN list}

LEMMA ListFacts ==
  ASSUME NEW page \in SUBSET Notice, NEW list \in InOrder(page)
  PROVE  list \in Seq(Notice) /\ Elements(list) = page /\ Sorted(list)
<1> DEFINE n == Cardinality(page)
<1>1. IsFiniteSet(page) /\ n \in Nat
  BY NoticesAreFinite, FS_Subset, FS_CardinalityType
<1>2. /\ list \in [1 .. n -> page]
      /\ \A r \in page : \E i \in DOMAIN list : list[i] = r
      /\ \A i, j \in DOMAIN list : i < j => list[i].at >= list[j].at
  BY DEF InOrder
<1> HIDE DEF n
<1>3. DOMAIN list = 1 .. n
  BY <1>2
<1>4. list \in Surjection(1 .. n, page)
  BY <1>2, <1>3 DEF Surjection
<1>5. IsFiniteSet(1 .. n) /\ Cardinality(1 .. n) = n
  BY <1>1, FS_Interval
<1>6. list \in Injection(1 .. n, page)
  BY <1>4, <1>5, FS_Surjection DEF n
<1>7. \A i, j \in 1 .. n : list[i] = list[j] => i = j
  BY <1>6 DEF Injection, IsInjective
<1>8. Sorted(list)
  BY <1>1, <1>2, <1>3, <1>7 DEF Sorted
<1>9. Elements(list) = page
  BY <1>2, <1>3 DEF Elements
<1>10. list \in [1 .. n -> Notice]
  BY <1>2
<1>11. list \in Seq(Notice)
  BY <1>1, <1>10, SeqDef
<1> QED
  BY <1>8, <1>9, <1>11

\* The elements of a list of notices are notices.
LEMMA ElementsAreNotices ==
  ASSUME NEW list \in Seq(Notice)
  PROVE  Elements(list) \subseteq Notice /\ \A r \in Elements(list) : r.at \in Int
<1>1. \A i \in DOMAIN list : list[i] \in Notice
  OBVIOUS
<1>2. Elements(list) \subseteq Notice
  BY <1>1 DEF Elements
<1>3. \A r \in Notice : r.at \in Int
  BY NoticeAssumption DEF Notice, Time
<1> QED
  BY <1>2, <1>3

\* A sorted list is continued with what is older than all of it.
LEMMA JoinedLists ==
  ASSUME NEW first \in Seq(Notice), NEW then \in Seq(Notice), NEW c \in 0 .. MaxPosts,
         Sorted(first), Sorted(then),
         \A r \in Elements(first) : r.at >= c, \A r \in Elements(then) : r.at < c,
         NEW both, both = first \o then
  PROVE  both \in Seq(Notice) /\ Sorted(both) /\ Elements(both) = Elements(first) \cup Elements(then)
<1>1. /\ Len(first) \in Nat /\ Len(then) \in Nat /\ DOMAIN first = 1 .. Len(first)
      /\ DOMAIN then = 1 .. Len(then)
  OBVIOUS
<1>2. both \in Seq(Notice) /\ Len(both) = Len(first) + Len(then)
  BY ConcatProperties
<1>3. DOMAIN both = 1 .. Len(first) + Len(then)
  BY <1>1, <1>2
<1>4. \A i \in 1 .. Len(first) + Len(then) :
        both[i] = IF i <= Len(first) THEN first[i] ELSE then[i - Len(first)]
  BY <1>1, ConcatProperties, Zenon
<1>5. \A i \in DOMAIN first : both[i] = first[i] /\ first[i] \in Elements(first) /\ i \in DOMAIN both
  BY <1>1, <1>3, <1>4 DEF Elements
<1>6. \A i \in DOMAIN both \ DOMAIN first :
        i - Len(first) \in DOMAIN then /\ both[i] = then[i - Len(first)] /\ both[i] \in Elements(then)
  BY <1>1, <1>3, <1>4 DEF Elements
<1>7. ASSUME NEW i \in DOMAIN then
      PROVE  i + Len(first) \in DOMAIN both /\ both[i + Len(first)] = then[i]
  BY <1>1, <1>3, <1>4
<1>8. \A r \in Elements(first) : r.at \in Int
  BY ElementsAreNotices
<1>9. \A r \in Elements(then) : r.at \in Int
  BY ElementsAreNotices
<1>10. c \in Int
  BY NoticeAssumption
<1>11. ASSUME NEW i \in DOMAIN both, NEW j \in DOMAIN both, i < j
       PROVE  both[i] # both[j] /\ both[i].at >= both[j].at
  <2>1. CASE i \in DOMAIN first /\ j \in DOMAIN first
    <3>1. both[i] = first[i] /\ both[j] = first[j]
      BY <1>5, <2>1
    <3> QED
      BY <1>11, <2>1, <3>1 DEF Sorted
  <2>2. CASE i \in DOMAIN first /\ j \notin DOMAIN first
    <3>1. both[i] \in Elements(first) /\ both[j] \in Elements(then)
      BY <1>5, <1>6, <2>2
    <3>2. \A q \in Elements(first), r \in Elements(then) : q.at > r.at
      BY <1>8, <1>9, <1>10
    <3>3. \A q \in Elements(first), r \in Elements(then) : q # r /\ q.at >= r.at
      BY <1>8, <1>9, <3>2
    <3> QED
      BY <3>1, <3>3, Zenon
  <2>3. CASE i \notin DOMAIN first
    <3>1. i \in Nat /\ j \in Nat /\ Len(first) \in Nat /\ i > Len(first)
      BY <1>1, <1>3, <2>3
    <3>2. j \notin DOMAIN first
      BY <1>1, <1>11, <3>1
    <3>3. i - Len(first) < j - Len(first)
      BY <1>11, <3>1
    <3>4. /\ i - Len(first) \in DOMAIN then /\ both[i] = then[i - Len(first)]
          /\ j - Len(first) \in DOMAIN then /\ both[j] = then[j - Len(first)]
      BY <1>6, <2>3, <3>2
    <3> QED
      BY <3>3, <3>4 DEF Sorted
  <2> QED
    BY <2>1, <2>2, <2>3
<1>12. Elements(both) \subseteq Elements(first) \cup Elements(then)
  BY <1>5, <1>6 DEF Elements
<1>13. Elements(first) \cup Elements(then) \subseteq Elements(both)
  <2>1. ASSUME NEW r \in Elements(first) PROVE r \in Elements(both)
    <3>1. PICK i \in DOMAIN first : r = first[i]
      BY DEF Elements
    <3>2. i \in DOMAIN both /\ both[i] = r
      BY <1>5, <3>1
    <3> QED
      BY <3>2 DEF Elements
  <2>2. ASSUME NEW r \in Elements(then) PROVE r \in Elements(both)
    <3>1. PICK i \in DOMAIN then : r = then[i]
      BY DEF Elements
    <3>2. i + Len(first) \in DOMAIN both /\ both[i + Len(first)] = r
      BY <1>7, <3>1
    <3> QED
      BY <3>2 DEF Elements
  <2> QED
    BY <2>1, <2>2
<1> QED
  BY <1>2, <1>11, <1>12, <1>13 DEF Sorted

-----------------------------------------------------------------------------
(* Transactions that issue notices.                                        *)

\* Notices that arrive leave the page as it was: there is still a full page that
\* is not older than its cursor.
LEMMA PageStays ==
  ASSUME NoticesInv, UNCHANGED <<read, Page1>>, notice \subseteq notice', notice' \subseteq Notice,
         clock' \in 0 .. MaxPosts,
         posting' \in [Poster -> [at : 0 .. MaxPosts, rows : SUBSET Notice]], PostsApart'
  PROVE  NoticesInv'
<1>1. /\ NoticesTypeOK /\ InboxInOrder /\ CursorsFollow /\ GoalAhead
      /\ Shown \subseteq Mine /\ screen.goal \subseteq Mine /\ marking.found \subseteq Mine /\ read \subseteq Mine
  BY DEF NoticesInv
<1>2. read' = read /\ screen' = screen /\ marking' = marking /\ walks' = walks
  BY DEF Page1
<1>3. Mine \subseteq Mine' /\ Mine' \subseteq Notice /\ Shown' = Shown
  BY <1>2 DEF Mine, Shown
<1>4. NoticesTypeOK'
  BY <1>1, <1>2 DEF NoticesTypeOK
<1>5. InboxInOrder' /\ GoalAhead'
  BY <1>1, <1>2, <1>3 DEF InboxInOrder, GoalAhead, Reached
<1>6. CursorsFollow'
  <2> SUFFICES ASSUME NEW c \in {screen.next, screen.more}, c # 0
               PROVE  (\A r \in Shown : r.at >= c) /\ Cardinality(AtLeast(c)') >= PageSize
    BY <1>2, <1>3 DEF CursorsFollow
  <2>1. (\A r \in Shown : r.at >= c) /\ Cardinality(AtLeast(c)) >= PageSize
    BY <1>1 DEF CursorsFollow
  <2>2. AtLeast(c) \subseteq AtLeast(c)' /\ AtLeast(c)' \in SUBSET Notice
    BY <1>3 DEF AtLeast
  <2>3. IsFiniteSet(AtLeast(c)')
    BY <2>2, NoticesAreFinite, FS_Subset
  <2>4. IsFiniteSet(AtLeast(c)) /\ Cardinality(AtLeast(c)) <= Cardinality(AtLeast(c)')
    BY <2>2, <2>3, FS_Subset
  <2>5. Cardinality(AtLeast(c)) \in Nat /\ Cardinality(AtLeast(c)') \in Nat /\ PageSize \in Nat
    BY <2>3, <2>4, FS_CardinalityType, NoticeAssumption
  <2> QED
    BY <2>1, <2>4, <2>5
<1> QED
  BY <1>1, <1>2, <1>3, <1>4, <1>5, <1>6 DEF NoticesInv

\* A transaction begins with rows of its time.
LEMMA IssueKeeps ==
  ASSUME NoticesInv, NEW s \in Poster, NEW rows \in SUBSET Notice, Issue(s, rows),
         \A r \in rows : r.at = clock + 1, SayOneThing(rows)
  PROVE  NoticesInv'
<1>1. NoticesTypeOK /\ PostsApart
  BY DEF NoticesInv
<1>2. /\ clock < MaxPosts /\ clock' = clock + 1
      /\ posting' = [posting EXCEPT ![s] = [at |-> clock + 1, rows |-> rows]]
      /\ UNCHANGED <<notice, read, Page1>>
  BY DEF Issue
<1>3. /\ clock \in 0 .. MaxPosts /\ MaxPosts \in Nat
      /\ posting \in [Poster -> [at : 0 .. MaxPosts, rows : SUBSET Notice]]
  BY <1>1, NoticeAssumption DEF NoticesTypeOK
<1>4. clock' \in 0 .. MaxPosts /\ clock + 1 \in 0 .. MaxPosts
  BY <1>2, <1>3
<1>5. posting' \in [Poster -> [at : 0 .. MaxPosts, rows : SUBSET Notice]]
  BY <1>2, <1>3, <1>4
<1>6. /\ posting'[s].at = clock + 1 /\ posting'[s].rows = rows
      /\ \A t \in Poster : t # s => posting'[t] = posting[t]
      /\ \A t \in Poster : posting[t].at \in Int
  BY <1>2, <1>3
<1>7. \A r \in notice : r.at \in Int
  BY <1>1, <1>3 DEF NoticesTypeOK, Notice, Time
<1>8. PostsApart'
  <2>1. ASSUME NEW t \in Poster
        PROVE  /\ posting'[t].at <= clock'
               /\ posting'[t].at = 0 => posting'[t].rows = {}
               /\ \A r \in posting'[t].rows : r.at = posting'[t].at
               /\ posting'[t].at # 0 => \A r \in notice : r.at # posting'[t].at
               /\ SayOneThing(posting'[t].rows)
    <3>1. CASE t = s
      BY <1>1, <1>2, <1>3, <1>6, <1>7, <3>1 DEF PostsApart
    <3>2. CASE t # s
      BY <1>1, <1>2, <1>3, <1>6, <3>2 DEF PostsApart
    <3> QED
      BY <3>1, <3>2
  <2>2. \A t, u \in Poster : t # u /\ posting'[t].at # 0 => posting'[t].at # posting'[u].at
    BY <1>1, <1>3, <1>6 DEF PostsApart
  <2>3. \A r \in notice : r.at <= clock'
    BY <1>1, <1>2, <1>3, <1>7 DEF PostsApart
  <2>4. notice' = notice /\ SayOneThing(notice)
    BY <1>1, <1>2 DEF PostsApart
  <2> QED
    BY <2>1, <2>2, <2>3, <2>4 DEF PostsApart, SayOneThing
<1>9. notice' = notice /\ notice \subseteq Notice
  BY <1>1, <1>2 DEF NoticesTypeOK
<1> QED
  BY <1>2, <1>4, <1>5, <1>8, <1>9, PageStays

\* Announcements say one thing, and a run of reminders says one thing twice.
LEMMA PostKeeps ==
  ASSUME NoticesInv, NEW s \in Poster,
         (\E text \in Text : ToSchool(s, text) \/ ToClass(s, text)) \/ Remind(s)
  PROVE  NoticesInv'
<1>1. clock \in 0 .. MaxPosts /\ MaxPosts \in Nat /\ clock < MaxPosts
  BY NoticeAssumption DEF NoticesInv, NoticesTypeOK, ToSchool, ToClass, Announce, Remind, Issue
<1>2. clock + 1 \in Time
  BY <1>1 DEF Time
<1>3. ASSUME NEW text \in Text, NEW to \in SUBSET Person, Announce(s, to, text) PROVE NoticesInv'
  <2> DEFINE rows == [to : to, at : {clock + 1}, what : {text}, n : {1}]
  <2>1. rows \in SUBSET Notice /\ \A r \in rows : r.at = clock + 1 /\ r.what = text /\ r.n = 1
    BY <1>2 DEF Notice
  <2>2. Issue(s, rows)
    BY <1>3 DEF Announce
  <2> HIDE DEF rows
  <2>3. SayOneThing(rows)
    BY <2>1 DEF SayOneThing
  <2> QED
    BY <2>1, <2>2, <2>3, IssueKeeps
<1>4. CASE Remind(s)
  <2> DEFINE rows == [to : {Reader}, at : {clock + 1}, what : {"FEE_OVERDUE"}, n : 1 .. 2]
  <2>1. rows \in SUBSET Notice /\ \A r \in rows : r.at = clock + 1 /\ r.what = "FEE_OVERDUE"
    BY <1>2, NoticeAssumption DEF Notice
  <2>2. Issue(s, rows)
    BY <1>4 DEF Remind
  <2> HIDE DEF rows
  <2>3. SayOneThing(rows)
    BY <2>1, NoticeAssumption DEF SayOneThing
  <2> QED
    BY <2>1, <2>2, <2>3, IssueKeeps
<1>5. SchoolMember \in SUBSET Person /\ ClassGuardian \cup ClassTeacher \in SUBSET Person
  BY NoticeAssumption
<1>6. ASSUME NEW text \in Text, ToSchool(s, text) \/ ToClass(s, text) PROVE NoticesInv'
  BY <1>3, <1>5, <1>6 DEF ToSchool, ToClass
<1> QED
  BY <1>4, <1>6

\* Its rows appear together, or never.
LEMMA EndPostKeeps ==
  ASSUME NoticesInv, NEW s \in Poster, CommitPost(s) \/ FailPost(s)
  PROVE  NoticesInv'
<1>1. NoticesTypeOK /\ PostsApart
  BY DEF NoticesInv
<1> DEFINE rows == posting[s].rows
<1>2. /\ posting[s].at # 0 /\ clock' = clock
      /\ posting' = [posting EXCEPT ![s] = NoPost]
      /\ UNCHANGED <<read, Page1>>
      /\ notice' = notice \/ notice' = notice \cup rows
  BY DEF CommitPost, FailPost
<1>3. /\ clock \in 0 .. MaxPosts /\ MaxPosts \in Nat /\ rows \subseteq Notice /\ notice \subseteq Notice
      /\ posting \in [Poster -> [at : 0 .. MaxPosts, rows : SUBSET Notice]]
  BY <1>1, NoticeAssumption DEF NoticesTypeOK
<1>4. NoPost \in [at : 0 .. MaxPosts, rows : SUBSET Notice] /\ NoPost.at = 0 /\ NoPost.rows = {}
  BY <1>3 DEF NoPost
<1>5. posting' \in [Poster -> [at : 0 .. MaxPosts, rows : SUBSET Notice]]
  BY <1>2, <1>3, <1>4
<1>6. \A t \in Poster : posting'[t] = IF t = s THEN NoPost ELSE posting[t]
  BY <1>2, <1>3
<1>7. \A r \in rows : r.at = posting[s].at
  BY <1>1 DEF PostsApart
<1>8. \A q, r \in notice \cup rows : q.at = r.at => q.what = r.what
  <2>1. \A q, r \in notice : q.at = r.at => q.what = r.what
    BY <1>1 DEF PostsApart, SayOneThing
  <2>2. \A q, r \in rows : q.at = r.at => q.what = r.what
    BY <1>1 DEF PostsApart, SayOneThing
  <2>3. \A q \in notice, r \in rows : q.at # r.at
    BY <1>1, <1>2, <1>7 DEF PostsApart
  <2> QED
    BY <2>1, <2>2, <2>3
<1>9. \A r \in notice \cup rows : r.what \in Text => r.n = 1
  BY <1>1 DEF PostsApart, SayOneThing
<1>10. SayOneThing(notice)'
  BY <1>2, <1>8, <1>9 DEF SayOneThing
<1>11. \A r \in notice \cup rows : r.at <= clock
  BY <1>1, <1>7 DEF PostsApart
<1>12. PostsApart'
  <2>1. ASSUME NEW t \in Poster
        PROVE  /\ posting'[t].at <= clock'
               /\ posting'[t].at = 0 => posting'[t].rows = {}
               /\ \A r \in posting'[t].rows : r.at = posting'[t].at
               /\ posting'[t].at # 0 => \A r \in notice \cup rows : r.at # posting'[t].at
               /\ SayOneThing(posting'[t].rows)
    <3>1. CASE t = s
      BY <1>2, <1>3, <1>4, <1>6, <3>1 DEF SayOneThing
    <3>2. CASE t # s
      BY <1>1, <1>2, <1>6, <1>7, <3>2 DEF PostsApart
    <3> QED
      BY <3>1, <3>2
  <2>2. \A t, u \in Poster : t # u /\ posting'[t].at # 0 => posting'[t].at # posting'[u].at
    BY <1>1, <1>4, <1>6 DEF PostsApart
  <2>3. \A r \in notice' : r.at <= clock'
    BY <1>2, <1>11
  <2>4. notice' \subseteq notice \cup rows
    BY <1>2
  <2>5. \A t \in Poster : SayOneThing(posting[t].rows)'
    BY <2>1 DEF SayOneThing
  <2> QED
    BY <1>10, <2>1, <2>2, <2>3, <2>4, <2>5 DEF PostsApart
<1>13. notice \subseteq notice' /\ notice' \subseteq Notice
  BY <1>2, <1>3
<1> QED
  BY <1>2, <1>3, <1>5, <1>12, <1>13, PageStays

-----------------------------------------------------------------------------
(* The page and its requests.                                              *)

\* What does not touch rows or transactions leaves them apart.
LEMMA RowsStay ==
  ASSUME NoticesInv, UNCHANGED <<clock, posting, notice>>, read' \subseteq Mine,
         screen' \in Screen, marking'.pc \in {"idle", "write"}, marking'.found \subseteq Mine,
         walks' \in 0 .. MaxWalks,
         (InboxInOrder /\ CursorsFollow /\ GoalAhead /\ Shown \subseteq Mine /\ screen.goal \subseteq Mine)'
  PROVE  NoticesInv'
<1>1. NoticesTypeOK /\ PostsApart
  BY DEF NoticesInv
<1>2. Mine' = Mine /\ Mine \subseteq notice /\ \A r \in Mine : r.to = Reader
  BY DEF Mine
<1>3. NoticesTypeOK'
  BY <1>1, <1>2 DEF NoticesTypeOK
<1>4. PostsApart'
  BY <1>1 DEF PostsApart, SayOneThing
<1> QED
  BY <1>2, <1>3, <1>4 DEF NoticesInv

\* A page is opened, loaded again or asked for more: it still shows what it did.
LEMMA SamePage ==
  ASSUME NoticesInv, UNCHANGED <<clock, posting, notice>>, read' \subseteq Mine,
         marking'.pc \in {"idle", "write"}, marking'.found \subseteq Mine, walks' \in 0 .. MaxWalks,
         screen' \in Screen, screen'.items = screen.items, screen'.goal = screen.goal,
         screen'.next = screen.next, screen'.more \in {screen.more, screen.next},
         screen'.raced \/ ~screen.raced
  PROVE  NoticesInv'
<1>1. /\ InboxInOrder /\ CursorsFollow /\ GoalAhead /\ Shown \subseteq Mine /\ screen.goal \subseteq Mine
  BY DEF NoticesInv
<1>2. Shown' = Shown /\ Mine' = Mine
  BY DEF Shown, Mine
<1>3. \A c : AtLeast(c)' = AtLeast(c)
  BY <1>2 DEF AtLeast
<1>4. InboxInOrder'
  BY <1>1 DEF InboxInOrder
<1>5. CursorsFollow'
  BY <1>1, <1>2, <1>3 DEF CursorsFollow
<1>6. GoalAhead'
  BY <1>1, <1>2 DEF GoalAhead, Reached
<1> QED
  BY <1>1, <1>2, <1>4, <1>5, <1>6, RowsStay

\* The fields of the page.
LEMMA ScreenFields ==
  ASSUME NoticesTypeOK
  PROVE  /\ screen \in Screen /\ screen.items \in Seq(Notice) /\ screen.goal \subseteq Notice
         /\ screen.next \in 0 .. MaxPosts /\ screen.more \in 0 .. MaxPosts
         /\ screen.raced \in BOOLEAN /\ screen.reload \in BOOLEAN
         /\ read \subseteq notice /\ walks \in 0 .. MaxWalks
         /\ marking.pc \in {"idle", "write"}
BY DEF NoticesTypeOK, Screen

LEMMA OpenInboxKeeps == ASSUME NoticesInv, OpenInbox PROVE NoticesInv'
<1>1. NoticesTypeOK /\ read \subseteq Mine /\ marking.found \subseteq Mine
  BY DEF NoticesInv
<1>2. /\ walks < MaxWalks /\ walks' = walks + 1
      /\ screen' = [screen EXCEPT !.reload = TRUE]
      /\ UNCHANGED <<clock, posting, notice, read, marking>>
  BY DEF OpenInbox
<1>3. walks' \in 0 .. MaxWalks
  BY <1>1, <1>2, NoticeAssumption, ScreenFields
<1>4. /\ screen' \in Screen /\ screen'.items = screen.items /\ screen'.goal = screen.goal
      /\ screen'.next = screen.next /\ screen'.more = screen.more /\ screen'.raced = screen.raced
  BY <1>1, <1>2, ScreenFields DEF Screen
<1> QED
  BY <1>1, <1>2, <1>3, <1>4, ScreenFields, SamePage

LEMMA AskMoreKeeps == ASSUME NoticesInv, AskMore PROVE NoticesInv'
<1>1. NoticesTypeOK /\ read \subseteq Mine /\ marking.found \subseteq Mine
  BY DEF NoticesInv
<1> DEFINE raced == screen.raced \/ screen.reload
<1>2. /\ screen' = [screen EXCEPT !.more = screen.next, !.raced = raced]
      /\ UNCHANGED <<clock, posting, notice, read, marking, walks>>
  BY DEF AskMore
<1>3. raced \in BOOLEAN /\ (raced \/ ~screen.raced)
  OBVIOUS
<1> HIDE DEF raced
<1>4. /\ screen' \in Screen /\ screen'.items = screen.items /\ screen'.goal = screen.goal
      /\ screen'.next = screen.next /\ screen'.more = screen.next /\ screen'.raced = raced
  BY <1>1, <1>2, <1>3, ScreenFields DEF Screen
<1>5. screen'.raced \/ ~screen.raced
  BY <1>3, <1>4
<1> QED
  BY <1>1, <1>2, <1>4, <1>5, ScreenFields, SamePage

\* Reading: one notice of the page, or all that were found unread.
LEMMA MarkKeeps == ASSUME NoticesInv, MarkRead \/ FindUnread \/ MarkAllRead PROVE NoticesInv'
<1>1. NoticesTypeOK /\ read \subseteq Mine /\ marking.found \subseteq Mine /\ Shown \subseteq Mine
  BY DEF NoticesInv
<1>2. UNCHANGED <<clock, posting, notice>>
  BY DEF MarkRead, FindUnread, MarkAllRead, Page1
<1>3. CASE MarkRead
  <2>1. PICK r \in Shown : read' = read \cup {r}
    BY <1>3 DEF MarkRead
  <2>2. read' \subseteq Mine /\ UNCHANGED <<screen, marking, walks>>
    BY <1>1, <1>3, <2>1 DEF MarkRead, Page1
  <2> QED
    BY <1>1, <1>2, <2>2, ScreenFields, SamePage
<1>4. CASE FindUnread
  <2>1. /\ walks' \in 0 .. MaxWalks /\ marking' = [pc |-> "write", found |-> Mine \ read]
        /\ UNCHANGED <<read, screen>>
    BY <1>1, <1>4, NoticeAssumption, ScreenFields DEF FindUnread
  <2>2. marking'.pc \in {"idle", "write"} /\ marking'.found \subseteq Mine
    BY <2>1
  <2> QED
    BY <1>1, <1>2, <2>1, <2>2, ScreenFields, SamePage
<1>5. CASE MarkAllRead
  <2>1. /\ read' = read \cup marking.found /\ marking' = [pc |-> "idle", found |-> {}]
        /\ screen' = [screen EXCEPT !.reload = TRUE] /\ walks' = walks
    BY <1>5 DEF MarkAllRead
  <2>2. read' \subseteq Mine /\ marking'.pc \in {"idle", "write"} /\ marking'.found \subseteq Mine
    BY <1>1, <2>1
  <2>3. /\ screen' \in Screen /\ screen'.items = screen.items /\ screen'.goal = screen.goal
        /\ screen'.next = screen.next /\ screen'.more = screen.more /\ screen'.raced = screen.raced
    BY <1>1, <2>1, ScreenFields DEF Screen
  <2> QED
    BY <1>1, <1>2, <2>1, <2>2, <2>3, ScreenFields, SamePage
<1> QED
  BY <1>3, <1>4, <1>5

\* The latest page of an inbox is not older than a cursor that was given: there
\* is a full page that is not.
LEMMA LatestPage ==
  ASSUME NoticesInv, NEW page \in SUBSET Mine, InPage(0, page),
         NEW c \in {screen.next, screen.more}, c # 0, NEW r \in page
  PROVE  r.at >= c
<1>1. NoticesTypeOK /\ CursorsFollow
  BY DEF NoticesInv
<1>2. Older(0) = Mine /\ 0 \in 0 .. MaxPosts
  BY NoticeAssumption DEF Older
<1>3. /\ IsFiniteSet(page) /\ page \subseteq Notice /\ Cardinality(page) <= PageSize
      /\ \A o \in Mine \ page : r.at >= o.at
  BY <1>1, <1>2, PageFacts
<1>4. Cardinality(AtLeast(c)) >= PageSize /\ c \in Int
  BY <1>1, NoticeAssumption, ScreenFields DEF CursorsFollow
<1>5. Mine \subseteq Notice /\ \A o \in Notice : o.at \in Int
  BY <1>1, NoticeAssumption DEF Mine, NoticesTypeOK, Notice, Time
<1> SUFFICES ASSUME ~(r.at >= c) PROVE FALSE
  OBVIOUS
<1>6. r.at < c
  BY <1>3, <1>4, <1>5
<1>7. AtLeast(c) \subseteq page \ {r}
  BY <1>3, <1>4, <1>5, <1>6 DEF AtLeast
<1>8. IsFiniteSet(page \ {r}) /\ Cardinality(page \ {r}) = Cardinality(page) - 1
  BY <1>3, FS_RemoveElement
<1>9. IsFiniteSet(AtLeast(c)) /\ Cardinality(AtLeast(c)) <= Cardinality(page \ {r})
  BY <1>7, <1>8, FS_Subset
<1>10. Cardinality(AtLeast(c)) \in Nat /\ Cardinality(page) \in Nat /\ PageSize \in Nat
  BY <1>3, <1>9, FS_CardinalityType, NoticeAssumption
<1> QED
  BY <1>3, <1>4, <1>8, <1>9, <1>10

\* A full page that is not older than a cursor keeps it.
LEMMA FullPage ==
  ASSUME NoticesTypeOK, NEW c \in 1 .. MaxPosts, NEW page \in SUBSET Mine,
         \A r \in page : r.at >= c, Cardinality(page) >= PageSize
  PROVE  Cardinality(AtLeast(c)) >= PageSize
<1>1. page \subseteq AtLeast(c) /\ AtLeast(c) \in SUBSET Notice
  BY DEF AtLeast, Mine, NoticesTypeOK
<1>2. IsFiniteSet(AtLeast(c))
  BY <1>1, NoticesAreFinite, FS_Subset
<1>3. IsFiniteSet(page) /\ Cardinality(page) <= Cardinality(AtLeast(c))
  BY <1>1, <1>2, FS_Subset
<1>4. Cardinality(page) \in Nat /\ Cardinality(AtLeast(c)) \in Nat /\ PageSize \in Nat
  BY <1>2, <1>3, FS_CardinalityType, NoticeAssumption
<1> QED
  BY <1>3, <1>4

\* The first page shows the latest notices.
LEMMA AnswerFirstKeeps == ASSUME NoticesInv, AnswerFirst PROVE NoticesInv'
<1>1. NoticesTypeOK /\ CursorsFollow /\ read \subseteq Mine /\ marking.found \subseteq Mine
  BY DEF NoticesInv
<1>2. PICK page \in SUBSET Mine :
        /\ InPage(0, page)
        /\ \E list \in InOrder(page) :
             screen' = [screen EXCEPT !.items = list, !.next = NextBefore(0, page),
                                      !.reload = FALSE, !.goal = Mine,
                                      !.raced = @ \/ screen.more # 0]
  BY DEF AnswerFirst
<1>3. UNCHANGED <<clock, posting, notice, read, marking, walks>>
  BY DEF AnswerFirst
<1> DEFINE raced == screen.raced \/ screen.more # 0
           n == NextBefore(0, page)
<1>4. PICK list \in InOrder(page) :
        screen' = [screen EXCEPT !.items = list, !.next = n, !.reload = FALSE, !.goal = Mine,
                                 !.raced = raced]
  BY <1>2
<1>5. Older(0) = Mine /\ 0 \in 0 .. MaxPosts /\ MaxPosts \in Nat
  BY NoticeAssumption DEF Older
<1>6. /\ page \subseteq Notice /\ \A r \in page, o \in Mine \ page : r.at >= o.at
      /\ page # Mine => Cardinality(page) = PageSize
  BY <1>1, <1>2, <1>5, PageFacts
<1>7. /\ n \in 0 .. MaxPosts /\ (page = Mine => n = 0)
      /\ page # Mine => n # 0 /\ (\A r \in page : r.at >= n) /\ \E r \in page : r.at = n
  BY <1>1, <1>2, <1>5, NextFacts
<1>8. list \in Seq(Notice) /\ Elements(list) = page /\ Sorted(list)
  BY <1>6, ListFacts
<1>9. Mine \subseteq Notice /\ \A o \in Notice : o.at \in Int
  BY <1>1, <1>5 DEF Mine, NoticesTypeOK, Notice, Time
<1>10. raced \in BOOLEAN /\ (raced <=> screen.raced \/ screen.more # 0)
  OBVIOUS
<1> HIDE DEF n, raced
<1>11. /\ screen' \in Screen /\ screen'.items = list /\ screen'.goal = Mine
       /\ screen'.next = n /\ screen'.more = screen.more /\ screen'.raced = raced
  BY <1>1, <1>4, <1>7, <1>8, <1>9, <1>10, ScreenFields DEF Screen
<1>12. Shown' = page /\ Mine' = Mine
  BY <1>3, <1>8, <1>11 DEF Shown, Elements, Mine
<1>13. InboxInOrder'
  BY <1>8, <1>11 DEF InboxInOrder, Sorted
<1>14. \A c : AtLeast(c)' = AtLeast(c)
  BY <1>12 DEF AtLeast
<1>15. CursorsFollow'
  <2>1. ASSUME n # 0
        PROVE  (\A r \in page : r.at >= n) /\ Cardinality(AtLeast(n)) >= PageSize
    <3>1. page # Mine /\ n \in 1 .. MaxPosts
      BY <1>5, <1>7, <2>1
    <3>2. PageSize \in Nat
      BY NoticeAssumption
    <3> QED
      BY <1>1, <1>6, <1>7, <3>1, <3>2, FullPage
  <2>2. ASSUME screen.more # 0
        PROVE  (\A r \in page : r.at >= screen.more) /\ Cardinality(AtLeast(screen.more)) >= PageSize
    BY <1>1, <1>2, <2>2, LatestPage DEF CursorsFollow
  <2> QED
    BY <1>11, <1>12, <1>14, <2>1, <2>2 DEF CursorsFollow
<1>16. GoalAhead'
  <2> SUFFICES ASSUME ~raced
               PROVE  /\ screen.more = 0
                      /\ \A r \in Mine : \/ r \in page \/ \E o \in page : o.at = r.at
                                         \/ n # 0 /\ r.at < n
    BY <1>11, <1>12 DEF GoalAhead, Reached
  <2>1. ASSUME NEW r \in Mine, r \notin page PROVE (\E o \in page : o.at = r.at) \/ (n # 0 /\ r.at < n)
    <3>1. PICK o \in page : o.at = n
      BY <1>7, <2>1
    <3>2. o.at >= r.at /\ o.at \in Int /\ r.at \in Int /\ n # 0
      BY <1>6, <1>7, <1>9, <2>1
    <3> QED
      BY <3>1, <3>2
  <2> QED
    BY <1>10, <2>1
<1> QED
  BY <1>1, <1>3, <1>11, <1>12, <1>13, <1>15, <1>16, ScreenFields, RowsStay

\* The next page continues the list, whatever page is shown by then.
LEMMA AnswerMoreKeeps == ASSUME NoticesInv, AnswerMore PROVE NoticesInv'
<1>1. /\ NoticesTypeOK /\ CursorsFollow /\ GoalAhead /\ InboxInOrder /\ Shown \subseteq Mine
      /\ read \subseteq Mine /\ marking.found \subseteq Mine /\ screen.goal \subseteq Mine
  BY DEF NoticesInv
<1> DEFINE c == screen.more
<1>2. c # 0 /\ c \in 0 .. MaxPosts /\ MaxPosts \in Nat /\ c \in Int
  BY <1>1, NoticeAssumption, ScreenFields DEF AnswerMore
<1>3. PICK page \in SUBSET Older(c) :
        /\ InPage(c, page)
        /\ \E list \in InOrder(page) :
             screen' = [screen EXCEPT !.items = @ \o list, !.next = NextBefore(c, page), !.more = 0]
  BY DEF AnswerMore
<1>4. UNCHANGED <<clock, posting, notice, read, marking, walks>>
  BY DEF AnswerMore
<1> DEFINE n == NextBefore(c, page)
<1>5. PICK list \in InOrder(page) :
        screen' = [screen EXCEPT !.items = @ \o list, !.next = n, !.more = 0]
  BY <1>3
<1>6. /\ page \subseteq Notice /\ page \subseteq Mine
      /\ \A r \in page, o \in Older(c) \ page : r.at >= o.at
  BY <1>1, <1>2, <1>3, PageFacts
<1>7. /\ n \in 0 .. MaxPosts /\ (page = Older(c) => n = 0)
      /\ page # Older(c) => n # 0 /\ (\A r \in page : r.at >= n) /\ \E r \in page : r.at = n
  BY <1>1, <1>2, <1>3, NextFacts
<1>8. list \in Seq(Notice) /\ Elements(list) = page /\ Sorted(list)
  BY <1>6, ListFacts
<1>9. Mine \subseteq Notice /\ \A o \in Notice : o.at \in Int
  BY <1>1, <1>2 DEF Mine, NoticesTypeOK, Notice, Time
<1>10. (\A r \in Shown : r.at >= c) /\ Cardinality(AtLeast(c)) >= PageSize
  BY <1>1, <1>2 DEF CursorsFollow
<1>11. \A r \in page : r.at < c
  BY <1>2, <1>3 DEF Older
<1>12. \A r \in Mine : r.at < c => r \in Older(c)
  BY DEF Older
<1> HIDE DEF n, c
<1>13. PICK both : both = screen.items \o list
  OBVIOUS
<1>14. both \in Seq(Notice) /\ Sorted(both) /\ Elements(both) = Shown \cup page
  <2>1. screen.items \in Seq(Notice) /\ Sorted(screen.items) /\ Elements(screen.items) = Shown
    BY <1>1, ScreenFields DEF Sorted, InboxInOrder, Elements, Shown
  <2> QED
    BY <1>2, <1>8, <1>10, <1>11, <1>13, <2>1, JoinedLists
<1>15. /\ screen' \in Screen /\ screen'.items = both /\ screen'.goal = screen.goal
       /\ screen'.next = n /\ screen'.more = 0 /\ screen'.raced = screen.raced
  <2>1. screen' = [screen EXCEPT !.items = both, !.next = n, !.more = 0]
    BY <1>5, <1>13
  <2>2. 0 \in 0 .. MaxPosts
    BY <1>2
  <2> QED
    BY <1>1, <1>7, <1>14, <2>1, <2>2, ScreenFields DEF Screen
<1>16. Shown' = Shown \cup page /\ Mine' = Mine
  BY <1>4, <1>14, <1>15 DEF Shown, Elements, Mine
<1>17. InboxInOrder'
  BY <1>14, <1>15 DEF InboxInOrder, Sorted
<1>18. \A d : AtLeast(d)' = AtLeast(d)
  BY <1>16 DEF AtLeast
<1>19. CursorsFollow'
  <2> SUFFICES ASSUME n # 0
               PROVE  (\A r \in Shown \cup page : r.at >= n) /\ Cardinality(AtLeast(n)) >= PageSize
    BY <1>15, <1>16, <1>18 DEF CursorsFollow
  <2>1. PICK q \in page : q.at = n
    BY <1>7
  <2>2. n < c /\ n \in 1 .. MaxPosts /\ n \in Int
    BY <1>2, <1>7, <1>11, <2>1
  <2>3. \A r \in Shown \cup page : r.at >= n
    <3>1. \A r \in Shown : r.at \in Int
      BY <1>1, <1>9
    <3> QED
      BY <1>2, <1>7, <1>10, <2>2, <3>1
  <2>4. AtLeast(c) \in SUBSET Mine /\ \A r \in AtLeast(c) : r.at >= n
    BY <1>2, <1>9, <2>2 DEF AtLeast
  <2> QED
    BY <1>1, <1>10, <2>2, <2>3, <2>4, FullPage
<1>20. GoalAhead'
  <2> SUFFICES ASSUME ~screen.raced, NEW r \in screen.goal
               PROVE  \/ r \in Shown \cup page \/ \E o \in Shown \cup page : o.at = r.at
                      \/ n # 0 /\ r.at < n
    BY <1>15, <1>16 DEF GoalAhead, Reached
  <2>1. screen.next = c
    BY <1>1, <1>2 DEF GoalAhead, c
  <2>2. Reached(r) \/ r.at < c
    BY <1>1, <2>1 DEF GoalAhead
  <2>3. CASE Reached(r)
    BY <2>3 DEF Reached
  <2>4. CASE r.at < c /\ r \notin page
    <3>1. r \in Older(c) \ page
      BY <1>1, <1>12, <2>4
    <3>2. PICK o \in page : o.at = n
      BY <1>7, <3>1
    <3>3. o.at >= r.at /\ o.at \in Int /\ r.at \in Int /\ n # 0
      BY <1>1, <1>6, <1>7, <1>9, <3>1
    <3> QED
      BY <3>2, <3>3
  <2> QED
    BY <2>2, <2>3, <2>4
<1>21. (Shown \subseteq Mine /\ screen.goal \subseteq Mine)'
  BY <1>1, <1>6, <1>15, <1>16
<1> QED
  BY <1>1, <1>4, <1>15, <1>17, <1>19, <1>20, <1>21, ScreenFields, RowsStay

-----------------------------------------------------------------------------
(* The theorems on notices.                                                *)

LEMMA NoticesStart == NoticesInit => NoticesInv
<1> SUFFICES ASSUME NoticesInit PROVE NoticesInv
  OBVIOUS
<1>1. MaxPosts \in Nat /\ MaxWalks \in Nat
  BY NoticeAssumption
<1>2. /\ clock = 0 /\ notice = {} /\ read = {} /\ marking.pc = "idle" /\ marking.found = {} /\ walks = 0
      /\ posting = [s \in Poster |-> NoPost]
      /\ NoPost.at = 0 /\ NoPost.rows = {}
      /\ NoPost \in [at : 0 .. MaxPosts, rows : SUBSET Notice]
  BY <1>1 DEF NoticesInit, NoPost
<1>3. /\ screen = Blank /\ <<>> \in Seq(Notice) /\ DOMAIN <<>> = {}
  BY DEF NoticesInit
<1>4. /\ Blank.items = <<>> /\ Blank.next = 0 /\ Blank.more = 0 /\ Blank.goal = {}
      /\ Blank \in Screen
  BY <1>1, <1>3 DEF Blank, Screen
<1>5. Shown = {}
  BY <1>3, <1>4 DEF Shown
<1>6. NoticesTypeOK
  BY <1>1, <1>2, <1>3, <1>4 DEF NoticesTypeOK
<1>7. PostsApart
  BY <1>2 DEF PostsApart, SayOneThing
<1>8. InboxInOrder /\ CursorsFollow /\ GoalAhead
  BY <1>3, <1>4 DEF InboxInOrder, CursorsFollow, GoalAhead
<1> QED
  BY <1>2, <1>3, <1>4, <1>5, <1>6, <1>7, <1>8 DEF NoticesInv

LEMMA NoticesStep == NoticesInv /\ [NoticesNext]_noticeVars => NoticesInv'
<1> SUFFICES ASSUME NoticesInv, [NoticesNext]_noticeVars PROVE NoticesInv'
  OBVIOUS
<1>1. ASSUME NEW s \in Poster,
             \/ \E text \in Text : ToSchool(s, text) \/ ToClass(s, text)
             \/ Remind(s) \/ CommitPost(s) \/ FailPost(s)
      PROVE  NoticesInv'
  BY <1>1, PostKeeps, EndPostKeeps
<1>2. CASE OpenInbox \/ AnswerFirst \/ AskMore \/ AnswerMore
  BY <1>2, OpenInboxKeeps, AnswerFirstKeeps, AskMoreKeeps, AnswerMoreKeeps
<1>3. CASE MarkRead \/ FindUnread \/ MarkAllRead
  BY <1>3, MarkKeeps
<1>4. CASE UNCHANGED noticeVars
  <2>1. /\ UNCHANGED <<clock, posting, notice, read, Page1>>
        /\ NoticesTypeOK /\ PostsApart
    BY <1>4 DEF noticeVars, Page1, NoticesInv
  <2>2. PostsApart'
    BY <2>1 DEF PostsApart, SayOneThing
  <2> QED
    BY <2>1, <2>2, PageStays DEF NoticesTypeOK
<1> QED
  BY <1>1, <1>2, <1>3, <1>4 DEF NoticesNext

LEMMA NoticesAreInv == NoticesSpec => []NoticesInv
<1> QED
  BY NoticesStart, NoticesStep, PTL DEF NoticesSpec

\* Transactions, notices and the page of the reader are well typed
\* (notifications/service.py, notifications/page.tsx), for any people and texts.
THEOREM NoticesTypeCorrect == NoticesSpec => []NoticesTypeOK
<1>1. NoticesInv => NoticesTypeOK
  BY DEF NoticesInv
<1> QED
  BY <1>1, NoticesAreInv, PTL

\* An entry of the history has as many rows as recipients: the rows of one time
\* are of one announcement, and differ in their recipient only.
LEMMA EntriesAreExact == ASSUME NoticesInv PROVE HistoryIsExact
<1>1. notice \subseteq Notice /\ SayOneThing(notice)
  BY DEF NoticesInv, NoticesTypeOK, PostsApart
<1> SUFFICES ASSUME NEW r \in notice, r.what \in Text
             PROVE  Cardinality(SameEntry(r)) = Cardinality({q.to : q \in {q \in notice : q.at = r.at}})
  BY DEF HistoryIsExact, History
<1> DEFINE rows == {q \in notice : q.at = r.at}
           people == {q.to : q \in rows}
           f == [q \in rows |-> q.to]
<1>2. SameEntry(r) = rows /\ \A q \in rows : q.what = r.what /\ q.at = r.at /\ q.n = 1
  BY <1>1 DEF SameEntry, SayOneThing
<1>3. IsFiniteSet(rows)
  BY <1>1, NoticesAreFinite, FS_Subset
<1>4. f \in Surjection(rows, people)
  BY DEF Surjection
<1>5. ASSUME NEW o \in rows, NEW q \in rows, o.to = q.to PROVE o = q
  BY <1>1, <1>2, <1>5 DEF Notice
<1>6. f \in Injection(rows, people)
  BY <1>5 DEF Injection, IsInjective
<1>7. Cardinality(people) = Cardinality(rows)
  BY <1>3, <1>4, <1>6, FS_Surjection
<1> QED
  BY <1>2, <1>7

\* The inbox is in order and without holes, each announcement has its recipients
\* and nothing is read that nobody was shown, for any transactions, pages,
\* reloads and notices that arrive out of order.
THEOREM NoticesStayFaithful == NoticesSpec => NoticesAreFaithful
<1> DEFINE Marks == read' \ read \subseteq Shown \cup marking.found
<1>1. NoticesInv => InboxInOrder /\ HistoryIsExact
  BY EntriesAreExact DEF NoticesInv
<1>2. NoticesInv => NothingSkipped
  BY DEF NoticesInv, GoalAhead, Reached, NothingSkipped
<1>3. [NoticesNext]_noticeVars => [Marks]_noticeVars
  <2> SUFFICES ASSUME NoticesNext PROVE Marks
    OBVIOUS
  <2>1. CASE MarkRead
    BY <2>1 DEF MarkRead
  <2>2. CASE MarkAllRead
    BY <2>2 DEF MarkAllRead
  <2>3. CASE ~MarkRead /\ ~MarkAllRead
    <3>1. read' = read
      BY <2>3 DEF NoticesNext, ToSchool, ToClass, Announce, Remind, Issue, CommitPost, FailPost,
         OpenInbox, AnswerFirst, AskMore, AnswerMore, FindUnread
    <3> QED
      BY <3>1
  <2> QED
    BY <2>1, <2>2, <2>3
<1> HIDE DEF Marks
<1>4. NoticesSpec => [][Marks]_noticeVars
  BY <1>3, PTL DEF NoticesSpec
<1>5. NoticesSpec => ArrivalsStayUnread
  BY <1>4 DEF ArrivalsStayUnread, Marks
<1> QED
  BY <1>1, <1>2, <1>5, NoticesAreInv, PTL DEF NoticesAreFaithful

-----------------------------------------------------------------------------
(***************************************************************************)
(* The routers of one application on one database (main.py): whatever      *)
(* requests of all components do at the same time, each component behaves  *)
(* as it does alone, and what the parts above show of it holds.            *)
(***************************************************************************)

\* A step of the school is a step of the enrollments or leaves them alone; and
\* so for the other components.
LEMMA SchoolStepIsOfOne ==
  ASSUME [SchoolNext]_schoolVars
  PROVE  /\ [EnrolNext]_enrolVars /\ [RollNext]_rollVars /\ [FilesNext]_fileVars
         /\ [OnboardNext]_setupVars /\ [DirectoryNext]_directoryVars
         /\ [NoticesNext]_noticeVars /\ [TeachingNext]_teachingVars
<1>1. CASE EnrolMoves
  BY <1>1 DEF EnrolMoves
<1>2. CASE RollMoves
  BY <1>2 DEF RollMoves
<1>3. CASE FilesMove
  BY <1>3 DEF FilesMove
<1>4. CASE OnboardMoves
  BY <1>4 DEF OnboardMoves
<1>5. CASE DirectoryMoves
  BY <1>5 DEF DirectoryMoves
<1>6. CASE NoticesMove
  BY <1>6 DEF NoticesMove
<1>7. CASE TeachingMoves
  BY <1>7 DEF TeachingMoves
<1>8. CASE UNCHANGED schoolVars
  BY <1>8 DEF schoolVars
<1> QED
  BY <1>1, <1>2, <1>3, <1>4, <1>5, <1>6, <1>7, <1>8 DEF SchoolNext

\* In a school each component behaves as it does alone (main.py), whatever the
\* others do at the same time: what is shown of one holds in the whole.
THEOREM SchoolKeepsItsParts ==
  SchoolSpec => /\ EnrolSpec /\ RollSpec /\ FilesSpec /\ OnboardSpec
                /\ DirectorySpec /\ NoticesSpec /\ TeachingSpec
<1>1. SchoolInit => /\ EnrolInit /\ RollInit /\ FilesInit /\ OnboardInit
                    /\ DirectoryInit /\ NoticesInit /\ TeachingInit
  BY DEF SchoolInit
<1>2. [SchoolNext]_schoolVars =>
        /\ [EnrolNext]_enrolVars /\ [RollNext]_rollVars /\ [FilesNext]_fileVars
        /\ [OnboardNext]_setupVars /\ [DirectoryNext]_directoryVars
        /\ [NoticesNext]_noticeVars /\ [TeachingNext]_teachingVars
  BY SchoolStepIsOfOne
<1> QED
  BY <1>1, <1>2, PTL DEF SchoolSpec, EnrolSpec, RollSpec, FilesSpec, OnboardSpec, DirectorySpec,
     NoticesSpec, TeachingSpec

\* The rows and requests of every component are what they should be, for any
\* number of requests of all routers at the same time.
THEOREM SchoolTypesCorrect == SchoolSpec => []RecordsTypeOK
<1>1. /\ EnrolTypeOK /\ RollTypeOK /\ FilesTypeOK /\ OnboardTypeOK
      /\ DirectoryTypeOK /\ NoticesTypeOK /\ TeachingTypeOK
      => RecordsTypeOK
  BY DEF RecordsTypeOK
<1> QED
  BY <1>1, SchoolKeepsItsParts, EnrolTypeCorrect, RollTypeCorrect, FilesTypeCorrect,
     OnboardTypeCorrect, DirectoryTypeCorrect, NoticesTypeCorrect, TeachingTypeCorrect, PTL

\* Among requests of all routers at the same time, calls of the enrollments fit
\* and go through, families are told, files match their rows, accounts and
\* schools are sound, students are no twins, the inbox is faithful and marks are
\* written by those entitled.
THEOREM SchoolIsSound ==
  SchoolSpec => /\ []CountedClassesFit /\ BulkCallsGoThrough /\ FamiliesTold /\ FilesMatchRows
                /\ []AccountsKeepTheirPlace /\ FoundationsHold /\ []DirectoryIsSound
                /\ NoticesAreFaithful /\ []WritesAreEntitled /\ []SameScopeEverywhere
                /\ ElsewhereDoesNotMatter
<1> QED
  BY SchoolKeepsItsParts, CapacityIsKept, BulkCallsAlwaysGoThrough, FamiliesAreAlwaysTold,
     FilesAlwaysMatch, PlacesAreKept, FoundationsAlwaysHold, DirectoryStaysSound,
     NoticesStayFaithful, WritesAreAlwaysEntitled, ScopeIsTheSameEverywhere,
     ElsewhereNeverMatters, PTL
=============================================================================
