-------------------------- MODULE StudentDirectory --------------------------
(***************************************************************************)
(* Students and guardians of the schools (students/router.py,              *)
(* students/service.py): students added by a form or imported from a file, *)
(* their identity and status changed one by one or many at once, guardians *)
(* attached to them and linked to accounts.                                *)
(*                                                                         *)
(* Nothing is locked when it is read.  A request reads rows, decides, and  *)
(* writes at its commit only the columns whose value differs from what it  *)
(* read (the unit of work of SQLAlchemy); unique keys refuse the rest.     *)
(***************************************************************************)
EXTENDS Integers, Sequences, Functions

CONSTANTS
  Registrar,     \* requests in progress at the same time
  Campus,        \* schools
  Pupil,         \* ids of students
  Matricule, Identity,  \* identity: first name, last name, date of birth
  Sheet,         \* files to import, sequences of rows
  StudentStatus,
  FirstPupil,    \* the students there are at first, NoPupil elsewhere
  Tutor,         \* ids of guardians
  TutorAt,       \* the school of each one
  ParentAccount, \* accounts with the PARENT role in every school
  FirstTutor,    \* the guardians there are at first
  FirstAccount,  \* the account each guardian is linked to at first, if any
  Pick,          \* sets of students that are picked for a bulk change
  MaxEntries     \* bound on requests

Same == "-"      \* a field the request does not set
NoPupil == [school |-> "", mat |-> "", who |-> "", status |-> ""]
BadRow == <<"", "">>   \* a required column is missing or cannot be read
PupilRow == [school : Campus, mat : Matricule, who : Identity, status : StudentStatus]

ASSUME PupilAssumption ==
  /\ FirstPupil \in [Pupil -> PupilRow \cup {NoPupil}]
  /\ \A p \in Pupil : FirstPupil[p] # NoPupil => FirstPupil[p].status = "ACTIVE"
  /\ \A p, q \in Pupil :
       /\ FirstPupil[p] # NoPupil /\ FirstPupil[p].school = FirstPupil[q].school
       /\ FirstPupil[p].mat = FirstPupil[q].mat
       => p = q
  /\ TutorAt \in [Tutor -> Campus]
  /\ FirstTutor \subseteq Tutor
  /\ FirstAccount \in [Tutor -> SUBSET ParentAccount]
  /\ \A s, t \in Tutor :
       TutorAt[s] = TutorAt[t] /\ FirstAccount[s] \cap FirstAccount[t] # {} => s = t
  /\ Pick \subseteq SUBSET Pupil /\ MaxEntries \in Nat
  /\ Sheet \subseteq Seq((Matricule \X Identity) \cup {BadRow})
  /\ Campus # {} /\ Tutor # {} /\ "ACTIVE" \in StudentStatus /\ "" \notin Campus \cup Identity

VARIABLES
  pupil,        \* student rows
  past,         \* student_status_history, in the order of the commits
  tutor,        \* guardian rows
  account,      \* guardians.user_id: a set of at most one account
  tie,          \* student_guardians
  form,         \* each request
  byHand,       \* students whose identity was entered or changed in a form
  unseen,       \* identities that appeared while an import had read them
  entries

directoryVars == <<pupil, past, tutor, account, tie, form, byHand, unseen, entries>>

Field == [mat : Matricule \cup {Same}, who : Identity \cup {Same},
          status : StudentStatus \cup {Same}]
Untouched == [mat |-> Same, who |-> Same, status |-> Same]
(* read: the rows as the request read them; want: what it was asked; mats, *)
(* whos: what an import read; user: the account to link, or none to unlink.*)
Form ==
  [pc : {"idle", "identities", "commit"}, kind : {"import", "change", "link"},
   school : Campus, sheet : Sheet \cup {<<>>}, mats : SUBSET Matricule,
   whos : SUBSET Identity, picked : SUBSET Pupil,
   read : [Pupil -> PupilRow \cup {NoPupil}], want : Field,
   about : Tutor, user : SUBSET ParentAccount]
NoForm ==
  [pc |-> "idle", kind |-> "import", school |-> CHOOSE s \in Campus : TRUE,
   sheet |-> <<>>, mats |-> {}, whos |-> {}, picked |-> {},
   read |-> [p \in Pupil |-> NoPupil], want |-> Untouched,
   about |-> CHOOSE t \in Tutor : TRUE, user |-> {}]

Entered == {p \in Pupil : pupil[p] # NoPupil}
OneMatriculeEach(rows) ==
  \A p, q \in Pupil : rows[p] # NoPupil /\ rows[p].school = rows[q].school
                        /\ rows[p].mat = rows[q].mat => p = q

DirectoryTypeOK ==
  /\ pupil \in [Pupil -> PupilRow \cup {NoPupil}] /\ OneMatriculeEach(pupil)
  /\ past \in [Pupil -> Seq(StudentStatus \X StudentStatus)]
  /\ \A p \in Pupil \ Entered : past[p] = <<>>
  /\ account \in [Tutor -> SUBSET ParentAccount]
  /\ tutor \subseteq Tutor /\ tie \subseteq Entered \X tutor
  /\ form \in [Registrar -> Form]
  /\ byHand \subseteq Pupil /\ unseen \subseteq Campus \X Identity
  /\ entries \in 0 .. MaxEntries

DirectoryInit ==
  /\ pupil = FirstPupil
  /\ past = [p \in Pupil |-> <<>>]
  /\ tutor = FirstTutor /\ account = FirstAccount /\ tie = {}
  /\ form = [k \in Registrar |-> NoForm]
  /\ byHand = Entered /\ unseen = {} /\ entries = 0

----------------------------------------------------------------------------
People == <<tutor, account, tie>>

Enter ==
  /\ entries < MaxEntries
  /\ entries' = entries + 1
(* Requests in progress are alike: the next one takes a given free place.  *)
Open(k, f) ==
  /\ form[k].pc = "idle"
  /\ k = CHOOSE o \in Registrar : form[o].pc = "idle"
  /\ Enter
  /\ form' = [form EXCEPT ![k] = f]
  /\ UNCHANGED <<pupil, past, byHand, unseen, People>>
Close(k) == form' = [form EXCEPT ![k] = NoForm]

In(school) == {pupil[p] : p \in {p \in Entered : pupil[p].school = school}}

(* New identities that another import in progress has not seen.            *)
Noticed(rows, self) ==
  LET new == {<<rows[p].school, rows[p].who>> :
                p \in {p \in Pupil : rows[p].who # pupil[p].who}} IN
  unseen' = unseen \cup {n \in new : \E k \in Registrar \ self :
    form[k].kind = "import" /\ form[k].pc = "commit" /\ form[k].school = n[1]}

(* create_student reads nothing: the unique key refuses a matricule.       *)
CreateStudent ==
  /\ Enter
  /\ \E s \in Campus, m \in Matricule, i \in Identity :
       /\ m \notin {r.mat : r \in In(s)}
       /\ Entered # Pupil
       /\ LET p == CHOOSE p \in Pupil \ Entered : TRUE IN
          /\ pupil' = [pupil EXCEPT ![p] =
               [school |-> s, mat |-> m, who |-> i, status |-> "ACTIVE"]]
          /\ byHand' = byHand \cup {p}
       /\ Noticed(pupil', {})
  /\ UNCHANGED <<past, People, form>>

(* The file is parsed and the matricules of the school are read; then its  *)
(* identities, by another statement.                                       *)
StartImport(k, s, sheet) ==
  Open(k, [NoForm EXCEPT !.pc = "identities", !.school = s, !.sheet = sheet,
                         !.mats = {r.mat : r \in In(s)}])
ReadIdentities(k) ==
  /\ form[k].pc = "identities"
  /\ form' = [form EXCEPT ![k].pc = "commit", ![k].whos = {r.who : r \in In(form[k].school)}]
  /\ UNCHANGED <<pupil, past, People, byHand, unseen, entries>>

(* The lines kept: neither a matricule nor an identity of the school, or of *)
(* a line kept before.                                                     *)
\* Faulty variant: the identities of the file itself are not remembered.
SameMatricule(q, r) == q[1] = r[1]
Twins(q, r) == q[1] = r[1] \/ q[2] = r[2]
KeepsNew(f, lines) ==
  \A n \in DOMAIN f.sheet :
    LET r == f.sheet[n] IN
    n \in lines <=> /\ r # BadRow /\ r[1] \notin f.mats /\ r[2] \notin f.whos
                    /\ \A m \in lines : m < n => ~Twins(f.sheet[m], r)
Kept(f) == CHOOSE lines \in SUBSET DOMAIN f.sheet : KeepsNew(f, lines)

(* All the lines kept are inserted and committed together, or none when one *)
(* meets a unique key; that error answers 500.                             *)
Imported(f, seat) ==
  [p \in Pupil |->
     IF \E n \in Kept(f) : seat[n] = p
     THEN LET r == f.sheet[CHOOSE n \in Kept(f) : seat[n] = p] IN
          [school |-> f.school, mat |-> r[1], who |-> r[2], status |-> "ACTIVE"]
     ELSE pupil[p]]
Import(k) ==
  /\ form[k].kind = "import" /\ form[k].pc = "commit"
  /\ LET seats == Injection(Kept(form[k]), Pupil \ Entered)
         rows == Imported(form[k], CHOOSE seat \in seats : TRUE) IN
     /\ seats # {}
     /\ IF OneMatriculeEach(rows) THEN pupil' = rows /\ Noticed(rows, {k})
                                  ELSE UNCHANGED <<pupil, unseen>>
  /\ Close(k)
  /\ UNCHANGED <<past, People, byHand, entries>>

----------------------------------------------------------------------------
(* update_student and bulk_update_student_status: one student, any field;  *)
(* or several students of one school, their status.                        *)
StartChange(k, ps, want) ==
  /\ ps \subseteq Entered /\ ps # {}
  /\ \A p, q \in ps : pupil[p].school = pupil[q].school
  /\ Open(k, [NoForm EXCEPT !.pc = "commit", !.kind = "change", !.picked = ps,
                !.read = [p \in Pupil |-> IF p \in ps THEN pupil[p] ELSE NoPupil],
                !.want = want])
UpdateStudent(k, p, want) == StartChange(k, {p}, want)
BulkUpdateStatus(k, ps, status) == StartChange(k, ps, [Untouched EXCEPT !.status = status])

(* A column keeps what others wrote unless the request changes what it     *)
(* read.                                                                   *)
\* Faulty variant: the whole row is written back.
WholeRow(now, read, want) == IF want = Same THEN read ELSE want
\* Faulty variant: fields the request leaves out are written as null.
NullWhenUnset(now, read, want) == IF want = read THEN now ELSE want
ColumnAfter(now, read, want) == IF want \in {Same, read} THEN now ELSE want

Changed(f, p) ==
  [pupil[p] EXCEPT !.mat = ColumnAfter(@, f.read[p].mat, f.want.mat),
                   !.who = ColumnAfter(@, f.read[p].who, f.want.who),
                   !.status = ColumnAfter(@, f.read[p].status, f.want.status)]

Change(k) ==
  /\ form[k].kind = "change" /\ form[k].pc = "commit"
  /\ LET f == form[k]
         rows == [p \in Pupil |-> IF p \in f.picked THEN Changed(f, p) ELSE pupil[p]] IN
     IF OneMatriculeEach(rows) THEN
       /\ pupil' = rows
       /\ past' = [p \in Pupil |->
            IF p \in f.picked /\ f.want.status \notin {Same, f.read[p].status}
            THEN Append(past[p], <<f.read[p].status, f.want.status>>) ELSE past[p]]
       /\ byHand' = byHand \cup {p \in f.picked : rows[p].who # pupil[p].who}
       /\ Noticed(rows, {k})
     ELSE UNCHANGED <<pupil, past, byHand, unseen>>
  /\ Close(k)
  /\ UNCHANGED <<People, entries>>

----------------------------------------------------------------------------
CreateGuardian(t) ==
  /\ Enter
  /\ t \notin tutor
  /\ tutor' = tutor \cup {t}
  /\ UNCHANGED <<pupil, past, account, tie, form, byHand, unseen>>

(* update_guardian, the account of a guardian.                             *)
StartLink(k, t, user) ==
  /\ t \in tutor
  /\ Open(k, [NoForm EXCEPT !.pc = "commit", !.kind = "link", !.about = t, !.user = user])
(* uq_guardian_school_user.                                                *)
Clashes(t, user) ==
  \E o \in Tutor \ {t} : TutorAt[o] = TutorAt[t] /\ account[o] \cap user # {}
Link(k) ==
  /\ form[k].kind = "link" /\ form[k].pc = "commit"
  /\ LET t == form[k].about IN
     account' = IF Clashes(t, form[k].user) THEN account
                ELSE [account EXCEPT ![t] = form[k].user]
  /\ Close(k)
  /\ UNCHANGED <<pupil, past, tutor, tie, byHand, unseen, entries>>

(* attach_guardian: the schools of both never change; a second link of the *)
(* same two is refused.                                                    *)
\* Faulty variant: the schools are not compared.
AttachAnywhere(p, t) ==
  /\ Enter
  /\ p \in Entered /\ t \in tutor /\ <<p, t>> \notin tie
  /\ tie' = tie \cup {<<p, t>>}
  /\ UNCHANGED <<pupil, past, tutor, account, form, byHand, unseen>>
AttachGuardian(p, t) ==
  /\ Enter
  /\ p \in Entered /\ t \in tutor /\ <<p, t>> \notin tie
  /\ TutorAt[t] = pupil[p].school
  /\ tie' = tie \cup {<<p, t>>}
  /\ UNCHANGED <<pupil, past, tutor, account, form, byHand, unseen>>
DetachGuardian(p, t) ==
  /\ Enter
  /\ <<p, t>> \in tie
  /\ tie' = tie \ {<<p, t>>}
  /\ UNCHANGED <<pupil, past, tutor, account, form, byHand, unseen>>

----------------------------------------------------------------------------
(* get_child: the guardians by which an account reaches a student.         *)
WaysTo(u, p) == {t \in tutor : u \in account[t] /\ <<p, t>> \in tie}

Wish ==
  {[Untouched EXCEPT !.mat = m] : m \in Matricule}
    \cup {[Untouched EXCEPT !.who = i] : i \in Identity}
    \cup {[Untouched EXCEPT !.status = s] : s \in StudentStatus}

DirectoryNext ==
  \/ CreateStudent
  \/ \E t \in Tutor : CreateGuardian(t)
  \/ \E p \in Pupil, t \in Tutor : AttachGuardian(p, t) \/ DetachGuardian(p, t)
  \/ \E k \in Registrar :
       \/ \E s \in Campus, sheet \in Sheet : StartImport(k, s, sheet)
       \/ ReadIdentities(k) \/ Import(k) \/ Change(k) \/ Link(k)
       \/ \E p \in Pupil, want \in Wish : UpdateStudent(k, p, want)
       \/ \E ps \in Pick, s \in StudentStatus : BulkUpdateStatus(k, ps, s)
       \/ \E t \in Tutor, user \in {{u} : u \in ParentAccount} \cup {{}} : StartLink(k, t, user)

DirectorySpec == DirectoryInit /\ [][DirectoryNext]_directoryVars

----------------------------------------------------------------------------
(* An import makes nobody twice: two students of a school have the same    *)
(* name and date of birth only when one was entered or renamed in a form,  *)
(* or was committed between the reads and the commit of the import.        *)
ImportMakesNoTwin ==
  \A p, q \in Entered :
    /\ p # q /\ p \notin byHand /\ q \notin byHand
    /\ pupil[p].school = pupil[q].school /\ pupil[p].who = pupil[q].who
    => <<pupil[p].school, pupil[p].who>> \in unseen

(* The history explains the status of every student, whatever requests     *)
(* overlapped: the last change committed gave the status the student has,  *)
(* and each change starts from a status the student really had.            *)
StatusFollowsHistory ==
  \A p \in Entered :
    LET h == past[p] IN
    /\ h # <<>> => h[Len(h)][2] = pupil[p].status
    /\ h = <<>> => pupil[p].status = "ACTIVE"
    /\ \A n \in DOMAIN h : h[n][1] \in {"ACTIVE"} \cup {h[m][2] : m \in 1 .. n - 1}

(* A parent's account reaches a child by one guardian at most: the reading *)
(* of a child expects one row and fails on two.                            *)
OneWayToAChild ==
  \A u \in ParentAccount, p \in Entered : \A s, t \in WaysTo(u, p) : s = t

(* The directory stays one entry per person, one line per change and one   *)
(* way from a parent to a child, whatever forms and imports overlap.       *)
DirectoryIsSound == ImportMakesNoTwin /\ StatusFollowsHistory /\ OneWayToAChild
=============================================================================
