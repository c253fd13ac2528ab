----------------------------- MODULE Attendance -----------------------------
(***************************************************************************)
(* Roll calls and absence notices (attendance/router.py,                   *)
(* attendance/service.py).                                                 *)
(*                                                                         *)
(* A submission checks that the session is not locked and that its         *)
(* students are enrolled in the class, loads the records, and writes those *)
(* that are new or whose status differs from what it loaded.  It then      *)
(* reloads them, notifies the families of those that became absent, inserts*)
(* one email row per student, guardian and day, and commits; the emails    *)
(* are sent and reported afterwards.  A correction loads one record first. *)
(* The first write of a request and its commit are one step, as in         *)
(* Enrollment, whose enrollments decide who is in the class.               *)
(***************************************************************************)
EXTENDS Enrollment

CONSTANTS
  Teacher, Admin,  \* people who may send a request at the same time
  Session,         \* roll calls that may be opened for the class
  Room,            \* the class
  Day,             \* the date of each session
  MaxRolls         \* bound on requests, locks and deaths

Writer == Teacher \cup Admin
ASSUME WriterAssumption == Teacher \cap Admin = {}
ASSUME RoomAssumption == Room \in Class /\ Session # {} /\ MaxRolls \in Nat
ASSUME DayAssumption == \A s \in Session : Day[s] \in Nat

VARIABLES
  open,         \* sessions that exist
  locked,       \* sessions that are locked
  record,       \* committed records, "none" where there is no row
  told,         \* in-app notices of absence so far, per student
  mail,         \* email rows of the guardian without account, per day
  mailed,       \* how often each email was handed to the transport
  delivered,    \* emails the transport accepted
  roll,         \* each request
  rolls

rollVars == <<open, locked, record, told, mail, mailed, delivered, roll, rolls>>

Mark == {"none", "PRESENT", "ABSENT"}    \* LATE counts as PRESENT here
Letter == Student \X {Day[s] : s \in Session}
MailStatus == {"none", "ATTEMPTED", "TRANSPORT_ACCEPTED", "TRANSPORT_FAILED"}

(* entry: the status asked for, "none" for a student who is left out;      *)
(* same: a correction that does not touch the status; before: statuses     *)
(* loaded; queue: emails to send.                                          *)
RollState ==
  [pc : {"idle", "check", "load", "save", "send", "report"}, session : Session,
   fixing : BOOLEAN, entry : [Student -> Mark], same : SUBSET Student,
   before : [Student -> Mark], queue : SUBSET Letter, at : SUBSET Letter]

NoMarks == [p \in Student |-> "none"]
NoRoll ==
  [pc |-> "idle", session |-> CHOOSE s \in Session : TRUE, fixing |-> FALSE,
   entry |-> NoMarks, same |-> {}, before |-> NoMarks, queue |-> {}, at |-> {}]

RollTypeOK ==
  /\ open \subseteq Session /\ locked \subseteq open
  /\ record \in [Session \X Student -> Mark]
  /\ told \in [Student -> Nat]
  /\ mail \in [Letter -> MailStatus]
  /\ mailed \in [Letter -> Nat] /\ delivered \subseteq Letter
  /\ roll \in [Writer -> RollState]
  /\ rolls \in 0 .. MaxRolls

RollInit ==
  /\ open = {} /\ locked = {}
  /\ record = [k \in Session \X Student |-> "none"]
  /\ told = [p \in Student |-> 0]
  /\ mail = [l \in Letter |-> "none"]
  /\ mailed = [l \in Letter |-> 0] /\ delivered = {}
  /\ roll = [w \in Writer |-> NoRoll]
  /\ rolls = 0

----------------------------------------------------------------------------
Post == <<mail, mailed, delivered>>
InRoom(p) == \E y \in 1 .. 2 : ActiveIn(row[<<p, y>>], Room)
Another == rolls < MaxRolls /\ rolls' = rolls + 1

(* Nothing keeps a class from having two sessions on one day.              *)
CreateSession(s) ==
  /\ s \notin open
  /\ Another
  /\ open' = open \cup {s}
  /\ UNCHANGED <<locked, record, told, Post, roll>>

(* update_session: a teacher may lock, an administrator also unlocks.      *)
\* Faulty variant: the session is not looked up first.
LockUnknown(s) ==
  /\ s \notin locked
  /\ Another
  /\ locked' = locked \cup {s}
  /\ UNCHANGED <<open, record, told, Post, roll>>
Lock(s) ==
  /\ s \in open \ locked
  /\ Another
  /\ locked' = locked \cup {s}
  /\ UNCHANGED <<open, record, told, Post, roll>>
Unlock(s) ==
  /\ s \in locked
  /\ Another
  /\ locked' = locked \ {s}
  /\ UNCHANGED <<open, record, told, Post, roll>>

Submit(w, s, sheet) ==
  /\ roll[w].pc = "idle"
  /\ s \in open
  /\ Another
  /\ roll' = [roll EXCEPT ![w] =
       [NoRoll EXCEPT !.pc = "check", !.session = s,
          !.entry = [p \in Student |-> IF p \in DOMAIN sheet THEN sheet[p] ELSE "none"]]]
  /\ UNCHANGED <<open, locked, record, told, Post>>

(* A correction of one record: its status, or only its reason.             *)
Correct(w, s, p, status) ==
  /\ roll[w].pc = "idle"
  /\ record[<<s, p>>] # "none"
  /\ Another
  /\ roll' = [roll EXCEPT ![w] =
       [NoRoll EXCEPT !.pc = "check", !.session = s, !.fixing = TRUE,
          !.entry[p] = IF status = "none" THEN record[<<s, p>>] ELSE status,
          !.same = IF status = "none" THEN {p} ELSE {},
          !.before[p] = record[<<s, p>>]]]
  /\ UNCHANGED <<open, locked, record, told, Post>>

Listed(w) == {p \in Student : roll[w].entry[p] # "none"}
MayWrite(w) ==
  /\ w \in Admin \/ roll[w].session \notin locked
  /\ roll[w].fixing \/ \A p \in Listed(w) : InRoom(p)
Forbid(w) ==
  /\ roll[w].pc = "check"
  /\ ~MayWrite(w)
  /\ roll' = [roll EXCEPT ![w] = NoRoll]
  /\ UNCHANGED <<open, locked, record, told, Post, rolls>>
Check(w) ==
  /\ roll[w].pc = "check"
  /\ MayWrite(w)
  /\ roll' = [roll EXCEPT ![w].pc = IF roll[w].fixing THEN "save" ELSE "load"]
  /\ UNCHANGED <<open, locked, record, told, Post, rolls>>

Load(w) ==
  /\ roll[w].pc = "load"
  /\ roll' = [roll EXCEPT ![w].pc = "save", ![w].before =
       [p \in Student |-> IF p \in Listed(w) THEN record[<<roll[w].session, p>>] ELSE "none"]]
  /\ UNCHANGED <<open, locked, record, told, Post, rolls>>

(* The session writes a status only where it differs from what it loaded.  *)
\* Faulty variant: every status is written.
WrittenAlways(w, p) == roll[w].entry[p]
Written(w, p) ==
  IF roll[w].entry[p] # roll[w].before[p] /\ p \notin roll[w].same
  THEN roll[w].entry[p] ELSE record[<<roll[w].session, p>>]

(* Those whose record, loaded again, is absent and was not when it was     *)
(* first loaded.                                                           *)
BecameAbsent(w) ==
  {p \in Listed(w) : Written(w, p) = "ABSENT" /\ roll[w].before[p] # "ABSENT"}

LettersOf(w) == {<<p, Day[roll[w].session]>> : p \in BecameAbsent(w)}
\* Faulty variant: an email row that exists already is sent again.
NewLettersAll(w) == LettersOf(w)
NewLetters(w) == {l \in LettersOf(w) : mail[l] = "none"}

(* Two first submissions of one session: the second meets the unique key.  *)
Clash(w) == \E p \in Listed(w) : roll[w].before[p] = "none" /\ record[<<roll[w].session, p>>] # "none"
SaveFails(w) ==
  /\ roll[w].pc = "save"
  /\ Clash(w)
  /\ roll' = [roll EXCEPT ![w] = NoRoll]
  /\ UNCHANGED <<open, locked, record, told, Post, rolls>>
Save(w) ==
  /\ roll[w].pc = "save"
  /\ ~Clash(w)
  /\ record' = [k \in Session \X Student |->
       IF k[1] = roll[w].session /\ k[2] \in Listed(w) THEN Written(w, k[2]) ELSE record[k]]
  /\ told' = [p \in Student |-> IF p \in BecameAbsent(w) THEN told[p] + 1 ELSE told[p]]
  /\ mail' = [l \in Letter |-> IF l \in NewLetters(w) THEN "ATTEMPTED" ELSE mail[l]]
  /\ roll' = [roll EXCEPT ![w] =
       IF NewLetters(w) = {} THEN NoRoll
       ELSE [NoRoll EXCEPT !.pc = "send", !.queue = NewLetters(w)]]
  /\ UNCHANGED <<open, locked, mailed, delivered, rolls>>

(* Email by email: the transport accepts it or not, then its row is told.  *)
SendMail(w) ==
  /\ roll[w].pc = "send"
  /\ \E l \in roll[w].queue, accepted \in BOOLEAN :
       /\ mailed' = [mailed EXCEPT ![l] = @ + 1]
       /\ delivered' = IF accepted THEN delivered \cup {l} ELSE delivered
       /\ roll' = [roll EXCEPT ![w].pc = "report", ![w].at = {l}]
  /\ UNCHANGED <<open, locked, record, told, mail, rolls>>
ReportMail(w) ==
  /\ roll[w].pc = "report"
  /\ mail' = [l \in Letter |->
       IF l \notin roll[w].at THEN mail[l]
       ELSE IF l \in delivered THEN "TRANSPORT_ACCEPTED" ELSE "TRANSPORT_FAILED"]
  /\ roll' = [roll EXCEPT ![w] =
       IF roll[w].queue \subseteq roll[w].at THEN NoRoll
       ELSE [roll[w] EXCEPT !.pc = "send", !.queue = @ \ roll[w].at, !.at = {}]]
  /\ UNCHANGED <<open, locked, record, told, mailed, delivered, rolls>>

DieCalling(w) ==
  /\ roll[w].pc # "idle"
  /\ Another
  /\ roll' = [roll EXCEPT ![w] = NoRoll]
  /\ UNCHANGED <<open, locked, record, told, Post>>

----------------------------------------------------------------------------
RollNext ==
  \/ \E s \in Session : CreateSession(s) \/ Lock(s) \/ Unlock(s)
  \/ \E w \in Writer, s \in Session, who \in Selection :
       \E sheet \in [who -> Mark \ {"none"}] : Submit(w, s, sheet)
  \/ \E w \in Writer, s \in Session, p \in Student, status \in Mark : Correct(w, s, p, status)
  \/ \E w \in Writer :
       \/ Check(w) \/ Forbid(w) \/ Load(w) \/ Save(w) \/ SaveFails(w)
       \/ SendMail(w) \/ ReportMail(w) \/ DieCalling(w)

(* The enrollments may change as they please meanwhile.                     *)
RollSpec == RollInit /\ [][RollNext]_rollVars

----------------------------------------------------------------------------
(* A record never turns absent without a notice to the family in the same  *)
(* commit, and an email row for the day, whatever the writer had loaded    *)
(* before others wrote; and no family is told of an absence that the       *)
(* commit does not leave on record.                                        *)
AbsencesTold ==
  [][\A p \in Student :
       /\ \A s \in Session :
            record[<<s, p>>] # "ABSENT" /\ record'[<<s, p>>] = "ABSENT"
              => told'[p] > told[p] /\ mail'[<<p, Day[s]>>] # "none"
       /\ told'[p] > told[p] => \E s \in Session : record'[<<s, p>>] = "ABSENT"]_rollVars

(* One email a day for a student and a guardian, over all sessions of the  *)
(* day, resubmissions, corrections and deaths; and its row tells what the  *)
(* transport said.                                                         *)
OneEmailADay ==
  \A l \in Letter :
    /\ mailed[l] <= 1
    /\ mail[l] = "none" => mailed[l] = 0
    /\ mail[l] = "TRANSPORT_ACCEPTED" => l \in delivered
    /\ mail[l] = "TRANSPORT_FAILED" => mailed[l] = 1 /\ l \notin delivered

(* Families are told of every absence on record, once a day by email, and  *)
(* of no other, whoever wrote the roll call in between.                    *)
FamiliesTold == []OneEmailADay /\ AbsencesTold
=============================================================================
