----------------------- MODULE OverdueRemindersProofs -----------------------
(***************************************************************************)
(* The reminders of overdue fees, for any fees, guardians, thresholds and  *)
(* runs that overlap, and any number of crashes.                           *)
(*                                                                         *)
(* A tracking row is the property of the run that inserted it: while its   *)
(* transaction is open nobody else can insert the same row, and once it is *)
(* committed nobody else finds it missing.  So a message that is still to  *)
(* be sent is in the queue of one run and was never sent, whatever becomes *)
(* of the other runs.                                                      *)
(***************************************************************************)
EXTENDS OverdueReminders, TLAPS

Open == {"insert", "commit"}
Sending == {"send", "report"}
Earlier(k, s) == [k EXCEPT !.stage = s]

\* What a run knows of the rows R, the messages sent S and the fees F.
SoundJob(s, R, S, F) ==
  /\ s.pc \in {"balances", "accounts", "others"} =>
       \A f \in s.late : \A t \in s.reached[f], r \in REMINDER_STAGES : r < t => r \in s.reached[f]
  /\ s.pc \in {"accounts", "others"} => s.late \cap s.clear = {}
  /\ \A f \in s.clear : F[f].owed = FALSE
  /\ \A k \in s.mine \cup s.todo \cup s.at :
       \A r \in REMINDER_STAGES : r < k.stage => R[Earlier(k, r)] # "none"
  /\ \A k \in s.mine \cup s.todo \cup s.at : k.fee \notin s.clear
  /\ s.pc \in Reading \cup {"idle"} => s.mine = {} /\ s.queue = {} /\ s.at = {}
  /\ s.pc \in {"idle", "fees", "balances", "accounts"} => s.todo = {}
  /\ s.pc \in Open => /\ \A k \in s.mine : R[k] = "none"
                      /\ s.queue = {k \in s.mine : k.channel \in Network}
  /\ s.pc \in Sending => /\ s.queue \subseteq s.mine
                         /\ \A k \in s.mine : R[k] = "ATTEMPTED" <=> k \in s.queue
                         /\ \A k \in s.mine : R[k] # "none"
                         /\ \A k \in s.queue : s.pc = "send" \/ k \notin s.at => S[k] = 0
  /\ s.pc = "report" => s.at \subseteq s.queue /\ \A k \in s.at : S[k] = 1

\* Two runs never have a row or a message in common.
Apart(s, o) ==
  /\ s.pc \in Open /\ o.pc \in Open => s.mine \cap o.mine = {}
  /\ s.pc \in Sending /\ o.pc \in Sending => s.queue \cap o.queue = {}

\* What the rows say of the messages.
RowsOfMessages ==
  \A k \in Key :
    /\ sent[k] \in {0, 1} /\ (sent[k] = 1 => rows[k] # "none")
    /\ k \in taken => sent[k] = 1
    /\ rows[k] = "TRANSPORT_ACCEPTED" => sent[k] = 1 /\ k \in taken
    /\ rows[k] = "TRANSPORT_FAILED" => sent[k] = 1 /\ k \notin taken

ReminderInv ==
  /\ TypeOK
  /\ \A j \in Job : SoundJob(job[j], rows, sent, fee)
  /\ \A i, j \in Job : i # j => Apart(job[i], job[j])
  /\ RowsOfMessages
  /\ StagesInOrder

\* A process at rest.
LEMMA RestingFields ==
  /\ Resting \in JobState
  /\ Resting.pc = "idle" /\ Resting.late = {} /\ Resting.todo = {} /\ Resting.at = {}
  /\ Resting.mine = {} /\ Resting.queue = {} /\ Resting.clear = {}
  BY DEF Resting, JobState, Step, Reading

\* Earlier rows are rows.
LEMMA EarlierKeys ==
  ASSUME NEW k \in Key, NEW s \in REMINDER_STAGES
  PROVE  /\ Earlier(k, s) \in Key /\ Earlier(k, s).stage = s
         /\ Earlier(k, s).channel = k.channel /\ Earlier(k, s).fee = k.fee
         /\ Earlier(k, s) = [channel |-> k.channel, fee |-> k.fee, who |-> k.who, stage |-> s]
  BY DEF Earlier, Key

\* A process at rest knows nothing.
LEMMA RestingSound ==
  ASSUME NEW R, NEW S, NEW F
  PROVE  SoundJob(Resting, R, S, F) /\ \A o : Apart(Resting, o) /\ Apart(o, Resting)
  BY RestingFields DEF SoundJob, Apart, Open, Sending

\* At first nothing is recorded and nothing runs.
LEMMA InitReminders == Init => ReminderInv
<1> SUFFICES ASSUME Init PROVE ReminderInv
  OBVIOUS
<1>1. \A j \in Job : job[j] = Resting
  BY DEF Init
<1>2. TypeOK
  <2>1. job \in [Job -> JobState]
    BY RestingFields DEF Init
  <2>2. fee \in [Fee -> [due : 0 .. MaxDay, owed : BOOLEAN]]
    <3>1. 0 \in 0 .. MaxDay
      BY BoundAssumption
    <3>2. [due : {0}, owed : BOOLEAN] \subseteq [due : 0 .. MaxDay, owed : BOOLEAN]
      BY <3>1
    <3> QED
      BY <3>2 DEF Init
  <2>3. today \in 0 .. MaxDay /\ deaths \in 0 .. MaxEvents /\ edits \in 0 .. MaxEvents
    BY BoundAssumption DEF Init
  <2>4. contact \in [Guardian -> SUBSET {"account", "phone", "email"}]
    BY ContactAssumption DEF Init
  <2>5. rows \in [Key -> Status] /\ sent \in [Key -> Nat] /\ taken \subseteq Key
    BY DEF Init, Status
  <2> QED
    BY <2>1, <2>2, <2>3, <2>4, <2>5 DEF TypeOK
<1>3. \A j \in Job : SoundJob(job[j], rows, sent, fee)
  BY <1>1, RestingSound
<1>4. \A i, j \in Job : i # j => Apart(job[i], job[j])
  BY <1>1, RestingSound
<1>5. RowsOfMessages /\ StagesInOrder
  BY DEF Init, RowsOfMessages, StagesInOrder
<1> QED
  BY <1>2, <1>3, <1>4, <1>5 DEF ReminderInv

\* A step of one run that writes no row and sends nothing.
LEMMA OwnStep ==
  ASSUME ReminderInv, NEW j \in Job, NEW s \in JobState,
         job' = [job EXCEPT ![j] = s], SoundJob(s, rows, sent, fee),
         \A i \in Job : i # j => Apart(s, job[i]) /\ Apart(job[i], s),
         UNCHANGED <<today, edits, fee, contact, rows, Outbox>>, deaths' \in 0 .. MaxEvents
  PROVE  ReminderInv'
<1>0. /\ TypeOK /\ RowsOfMessages /\ StagesInOrder
      /\ \A i \in Job : SoundJob(job[i], rows, sent, fee)
      /\ \A i, o \in Job : i # o => Apart(job[i], job[o])
  BY DEF ReminderInv
<1>1. \A i \in Job : job'[i] = IF i = j THEN s ELSE job[i]
  BY <1>0 DEF TypeOK
<1>2. rows' = rows /\ sent' = sent /\ taken' = taken /\ fee' = fee
  BY DEF Outbox
<1>3. TypeOK'
  BY <1>0 DEF TypeOK, Outbox
<1>4. \A i \in Job : SoundJob(job'[i], rows', sent', fee')
  BY <1>0, <1>1, <1>2
<1>5. \A i, o \in Job : i # o => Apart(job'[i], job'[o])
  BY <1>0, <1>1
<1>6. RowsOfMessages' /\ StagesInOrder'
  BY <1>0, <1>2 DEF RowsOfMessages, StagesInOrder
<1> QED
  BY <1>3, <1>4, <1>5, <1>6 DEF ReminderInv

\* A run ends, by itself or not.
LEMMA EndStep ==
  ASSUME ReminderInv, NEW j \in Job, job' = [job EXCEPT ![j] = Resting],
         UNCHANGED <<today, edits, fee, contact, rows, Outbox>>, deaths' \in 0 .. MaxEvents
  PROVE  ReminderInv'
  BY RestingFields, RestingSound, OwnStep

\* What a run may start to insert: the earlier stages are recorded.
LEMMA WantedRows ==
  ASSUME ReminderInv, NEW j \in Job, job[j].pc \in {"accounts", "others"},
         NEW cs, NEW k \in Wanted(j, cs)
  PROVE  /\ k \in Key /\ k.fee \notin job[j].clear
         /\ \A r \in REMINDER_STAGES : r < k.stage => rows[Earlier(k, r)] # "none"
<1>1. /\ k \in Key /\ k.fee \in job[j].late
      /\ k.stage \in NextStage(job[j].reached[k.fee], Recorded(k.channel, k.fee, k.who))
  BY DEF Wanted
<1>2. SoundJob(job[j], rows, sent, fee)
  BY DEF ReminderInv
<1>3. k.fee \notin job[j].clear
  BY <1>1, <1>2 DEF SoundJob
<1>4. ASSUME NEW r \in REMINDER_STAGES, r < k.stage PROVE rows[Earlier(k, r)] # "none"
  <2>1. k.stage \in job[j].reached[k.fee]
    BY <1>1 DEF NextStage
  <2>2. r \in job[j].reached[k.fee]
    BY <1>1, <1>2, <1>4, <2>1 DEF SoundJob
  <2>3. r \in Recorded(k.channel, k.fee, k.who)
    <3>1. k.stage \in Nat /\ r \in Nat
      BY <1>1 DEF Key, REMINDER_STAGES
    <3> QED
      BY <1>1, <1>4, <2>2, <3>1 DEF NextStage
  <2> QED
    BY <1>1, <2>3, EarlierKeys DEF Recorded
<1> QED
  BY <1>1, <1>3, <1>4

\* The reads of a run up to the notifications.
LEMMA ReadStep ==
  ASSUME ReminderInv, NEW j \in Job,
         Start(j) \/ ReadFees(j) \/ ReadBalances(j) \/ ReadAccounts(j)
  PROVE  ReminderInv'
<1>0. TypeOK /\ job[j] \in JobState /\ SoundJob(job[j], rows, sent, fee)
  BY DEF ReminderInv, TypeOK
<1>1. UNCHANGED <<today, edits, fee, contact, rows, Outbox>> /\ deaths' \in 0 .. MaxEvents
  BY <1>0 DEF Start, ReadFees, ReadBalances, ReadAccounts, People, TypeOK
<1>2. CASE Start(j)
  <2> DEFINE s == [Resting EXCEPT !.pc = "fees", !.clear = {f \in Fee : ~fee[f].owed}]
  <2>1. /\ s \in JobState /\ s.pc = "fees" /\ s.clear = {f \in Fee : ~fee[f].owed}
        /\ s.mine = {} /\ s.todo = {} /\ s.at = {} /\ s.queue = {}
    BY RestingFields DEF JobState, Step, Reading
  <2>2. job' = [job EXCEPT ![j] = s]
    BY <1>2 DEF Start
  <2> HIDE DEF s
  <2>3. \A f \in s.clear : fee[f].owed = FALSE
    BY <1>0, <2>1 DEF TypeOK
  <2>4. SoundJob(s, rows, sent, fee)
    BY <2>1, <2>3 DEF SoundJob, Open, Sending, Reading
  <2>5. \A o : Apart(s, o) /\ Apart(o, s)
    BY <2>1 DEF Apart, Open, Sending
  <2> QED
    BY <1>1, <2>1, <2>2, <2>4, <2>5, OwnStep
<1>3. CASE ReadFees(j)
  <2> DEFINE late == {f \in Fee : Eligible(f)}
  <2> DEFINE reached == [f \in Fee |->
               {x \in REMINDER_STAGES : f \in late /\ today - fee[f].due >= Threshold[x]}]
  <2> DEFINE s == [job[j] EXCEPT !.pc = "balances", !.late = late, !.reached = reached]
  <2>1. reached \in [Fee -> SUBSET REMINDER_STAGES]
    OBVIOUS
  <2>2. \A f \in late : \A t \in reached[f], r \in REMINDER_STAGES : r < t => r \in reached[f]
    <3>1. \A f \in Fee : today - fee[f].due \in Int
      BY <1>0, BoundAssumption DEF TypeOK
    <3>2. \A t \in REMINDER_STAGES : Threshold[t] \in Int
      BY ThresholdAssumption
    <3> QED
      BY <3>1, <3>2, ThresholdAssumption
  <2>3. job' = [job EXCEPT ![j] = s]
    BY <1>0, <1>3 DEF ReadFees, TypeOK
  <2> HIDE DEF late, reached
  <2>4. /\ s.pc = "balances" /\ s.late = late /\ s.reached = reached
        /\ s.clear = job[j].clear /\ s.mine = job[j].mine /\ s.todo = job[j].todo
        /\ s.at = job[j].at /\ s.queue = job[j].queue
    BY <1>0 DEF JobState
  <2>5. late \subseteq Fee
    BY DEF late
  <2>6. s \in JobState
    BY <1>0, <2>1, <2>5 DEF JobState, Step, Reading
  <2> HIDE DEF s
  <2>7. s.mine = {} /\ s.todo = {} /\ s.at = {} /\ s.queue = {}
    BY <1>0, <1>3, <2>4 DEF SoundJob, ReadFees, Reading
  <2>8. SoundJob(s, rows, sent, fee)
    BY <1>0, <2>2, <2>4, <2>7 DEF SoundJob, Open, Sending, Reading
  <2>9. \A o : Apart(s, o) /\ Apart(o, s)
    BY <2>4 DEF Apart, Open, Sending
  <2> QED
    BY <1>1, <2>3, <2>6, <2>8, <2>9, OwnStep
<1>4. CASE ReadBalances(j)
  <2> DEFINE late == {f \in job[j].late : fee[f].owed}
  <2> DEFINE s == [job[j] EXCEPT !.late = late, !.pc = IF late = {} THEN "commit" ELSE "accounts"]
  <2>1. job' = [job EXCEPT ![j] = s]
    BY <1>0, <1>4 DEF ReadBalances, TypeOK
  <2>2. late \cap job[j].clear = {} /\ late \subseteq job[j].late
    BY <1>0 DEF SoundJob
  <2> HIDE DEF late
  <2>3. /\ s.pc \in {"commit", "accounts"} /\ s.late = late /\ s.reached = job[j].reached
        /\ s.clear = job[j].clear /\ s.mine = job[j].mine /\ s.todo = job[j].todo
        /\ s.at = job[j].at /\ s.queue = job[j].queue
    BY <1>0 DEF JobState
  <2>4. s \in JobState
    BY <1>0, <2>2 DEF JobState, Step, Reading
  <2> HIDE DEF s
  <2>5. s.mine = {} /\ s.todo = {} /\ s.at = {} /\ s.queue = {}
    BY <1>0, <1>4, <2>3 DEF SoundJob, ReadBalances, Reading
  <2>6. \A f \in s.late : \A t \in s.reached[f], r \in REMINDER_STAGES : r < t => r \in s.reached[f]
    BY <1>0, <1>4, <2>2, <2>3 DEF SoundJob, ReadBalances
  <2>7. SoundJob(s, rows, sent, fee)
    BY <1>0, <2>2, <2>3, <2>5, <2>6 DEF SoundJob, Open, Sending, Reading
  <2>8. \A o : Apart(s, o) /\ Apart(o, s)
    BY <2>3, <2>5 DEF Apart, Open, Sending
  <2> QED
    BY <1>1, <2>1, <2>4, <2>7, <2>8, OwnStep
<1>5. CASE ReadAccounts(j)
  <2> DEFINE todo == Wanted(j, {"app"})
  <2> DEFINE s == [job[j] EXCEPT !.pc = "others", !.todo = todo]
  <2>1. job' = [job EXCEPT ![j] = s] /\ job[j].pc = "accounts"
    BY <1>0, <1>5 DEF ReadAccounts, TypeOK
  <2>2. \A k \in todo : /\ k \in Key /\ k.fee \notin job[j].clear
                        /\ \A r \in REMINDER_STAGES : r < k.stage => rows[Earlier(k, r)] # "none"
    BY <2>1, WantedRows
  <2> HIDE DEF todo
  <2>3. /\ s.pc = "others" /\ s.late = job[j].late /\ s.reached = job[j].reached
        /\ s.clear = job[j].clear /\ s.mine = job[j].mine /\ s.todo = todo
        /\ s.at = job[j].at /\ s.queue = job[j].queue
    BY <1>0 DEF JobState
  <2>4. s \in JobState
    BY <1>0, <2>2 DEF JobState, Step, Reading
  <2> HIDE DEF s
  <2>5. s.mine = {} /\ s.at = {} /\ s.queue = {}
    BY <1>0, <2>1, <2>3 DEF SoundJob, Reading
  <2>6. s.late \cap s.clear = {}
    BY <1>0, <2>1, <2>3 DEF SoundJob
  <2>7. \A f \in s.late : \A t \in s.reached[f], r \in REMINDER_STAGES : r < t => r \in s.reached[f]
    BY <1>0, <2>1, <2>3 DEF SoundJob
  <2>8. SoundJob(s, rows, sent, fee)
    BY <1>0, <2>2, <2>3, <2>5, <2>6, <2>7 DEF SoundJob, Open, Sending, Reading
  <2>9. \A o : Apart(s, o) /\ Apart(o, s)
    BY <2>3 DEF Apart, Open, Sending
  <2> QED
    BY <1>1, <2>1, <2>4, <2>8, <2>9, OwnStep
<1> QED
  BY <1>2, <1>3, <1>4, <1>5

\* A transaction goes on with a next row, or is ready to commit.
LEMMA OnwardStep ==
  ASSUME ReminderInv, NEW j \in Job, NEW s \in JobState, Onward(j, s),
         UNCHANGED <<People, rows, Outbox>>,
         \A f \in s.clear : fee[f].owed = FALSE,
         \A k \in s.mine \cup s.todo :
           /\ k.fee \notin s.clear
           /\ \A r \in REMINDER_STAGES : r < k.stage => rows[Earlier(k, r)] # "none",
         \A k \in s.mine : rows[k] = "none",
         s.queue = {k \in s.mine : k.channel \in Network},
         \A i \in Job : i # j /\ job[i].pc \in Open => s.mine \cap job[i].mine = {}
  PROVE  ReminderInv'
<1>0. UNCHANGED <<today, edits, fee, contact, rows, Outbox>> /\ deaths' \in 0 .. MaxEvents
  BY DEF People, ReminderInv, TypeOK
<1>1. PICK r \in JobState :
        /\ job' = [job EXCEPT ![j] = r] /\ r.pc \in Open
        /\ r.mine = s.mine /\ r.queue = s.queue /\ r.clear = s.clear
        /\ r.at \subseteq s.todo /\ r.todo \subseteq s.todo
  <2>1. CASE s.todo = {}
    <3> DEFINE r == [s EXCEPT !.at = {}, !.pc = "commit"]
    <3>1. r \in JobState
      BY DEF JobState, Step, Reading
    <3>2. job' = [job EXCEPT ![j] = r]
      BY <2>1 DEF Onward
    <3>3. /\ r.pc = "commit" /\ r.mine = s.mine /\ r.queue = s.queue /\ r.clear = s.clear
          /\ r.at = {} /\ r.todo = s.todo
      BY DEF JobState
    <3> HIDE DEF r
    <3> QED
      BY <3>1, <3>2, <3>3 DEF Open
  <2>2. CASE s.todo # {}
    <3>1. PICK k \in Following(s.todo) :
            job' = [job EXCEPT ![j] = [s EXCEPT !.at = {k}, !.todo = @ \ {k}, !.pc = "insert"]]
      BY <2>2 DEF Onward
    <3> DEFINE r == [s EXCEPT !.at = {k}, !.todo = @ \ {k}, !.pc = "insert"]
    <3>2. k \in s.todo
      BY DEF Following
    <3>3. r \in JobState
      BY <3>2 DEF JobState, Step, Reading
    <3>4. /\ r.pc = "insert" /\ r.mine = s.mine /\ r.queue = s.queue /\ r.clear = s.clear
          /\ r.at = {k} /\ r.todo = s.todo \ {k}
      BY DEF JobState
    <3>5. job' = [job EXCEPT ![j] = r]
      BY <3>1
    <3> HIDE DEF r
    <3> QED
      BY <3>2, <3>3, <3>4, <3>5 DEF Open
  <2> QED
    BY <2>1, <2>2
<1>2. SoundJob(r, rows, sent, fee)
  BY <1>1 DEF SoundJob, Open, Sending, Reading
<1>3. \A i \in Job : i # j => Apart(r, job[i]) /\ Apart(job[i], r)
  BY <1>1 DEF Apart, Open, Sending
<1> QED
  BY <1>0, <1>1, <1>2, <1>3, OwnStep

\* The last reads, and each insert.
LEMMA InsertStep ==
  ASSUME ReminderInv, NEW j \in Job, ReadOthers(j) \/ Insert(j)
  PROVE  ReminderInv'
<1>0. TypeOK /\ job[j] \in JobState /\ SoundJob(job[j], rows, sent, fee)
  BY DEF ReminderInv, TypeOK
<1>1. CASE ReadOthers(j)
  <2> DEFINE todo == job[j].todo \cup Wanted(j, Network)
  <2> DEFINE s == [job[j] EXCEPT !.todo = todo, !.late = {}, !.reached = Resting.reached]
  <2>1. Onward(j, s) /\ UNCHANGED <<People, rows, Outbox>> /\ job[j].pc = "others"
    BY <1>1 DEF ReadOthers
  <2>2. \A k \in todo : /\ k \in Key /\ k.fee \notin job[j].clear
                        /\ \A r \in REMINDER_STAGES : r < k.stage => rows[Earlier(k, r)] # "none"
    BY <1>0, <2>1, WantedRows DEF SoundJob, JobState
  <2>3. Resting.reached \in [Fee -> SUBSET REMINDER_STAGES]
    BY RestingFields DEF JobState
  <2> HIDE DEF todo
  <2>4. s \in JobState
    BY <1>0, <2>2, <2>3 DEF JobState
  <2>5. /\ s.todo = todo /\ s.clear = job[j].clear /\ s.mine = job[j].mine
        /\ s.queue = job[j].queue
    BY <1>0 DEF JobState
  <2> HIDE DEF s
  <2>6. s.mine = {} /\ s.queue = {}
    BY <1>0, <2>1, <2>5 DEF SoundJob, Reading
  <2>7. \A f \in s.clear : fee[f].owed = FALSE
    BY <1>0, <2>5 DEF SoundJob
  <2> QED
    BY <2>1, <2>2, <2>4, <2>5, <2>6, <2>7, OnwardStep
<1>2. CASE Insert(j)
  <2> DEFINE new == {k \in job[j].at : rows[k] = "none"}
  <2> DEFINE s == [job[j] EXCEPT !.mine = @ \cup new,
                                 !.queue = @ \cup {k \in new : k.channel \in Network}]
  <2>1. /\ Onward(j, s) /\ UNCHANGED <<People, rows, Outbox>> /\ job[j].pc = "insert"
        /\ ~Waiting(j)
    BY <1>2 DEF Insert
  <2>2. new \subseteq job[j].at /\ \A k \in new : rows[k] = "none"
    OBVIOUS
  <2> HIDE DEF new
  <2>3. s \in JobState
    BY <1>0, <2>2 DEF JobState
  <2>4. /\ s.todo = job[j].todo /\ s.clear = job[j].clear /\ s.mine = job[j].mine \cup new
        /\ s.queue = job[j].queue \cup {k \in new : k.channel \in Network}
    BY <1>0 DEF JobState
  <2> HIDE DEF s
  <2>5. \A i \in Job : i # j /\ job[i].pc \in Open => s.mine \cap job[i].mine = {}
    <3>1. ASSUME NEW i \in Job, i # j, job[i].pc \in Open PROVE job[j].at \cap job[i].mine = {}
      BY <2>1, <3>1 DEF Waiting, HeldByOthers, Open
    <3>2. ASSUME NEW i \in Job, i # j, job[i].pc \in Open PROVE job[j].mine \cap job[i].mine = {}
      BY <2>1, <3>2 DEF ReminderInv, Apart, Open
    <3> QED
      BY <2>2, <2>4, <3>1, <3>2
  <2>6. /\ \A k \in job[j].mine : rows[k] = "none"
        /\ job[j].queue = {k \in job[j].mine : k.channel \in Network}
    BY <1>0, <2>1 DEF SoundJob, Open
  <2>7. s.queue = {k \in s.mine : k.channel \in Network} /\ \A k \in s.mine : rows[k] = "none"
    BY <2>2, <2>4, <2>6
  <2>8. /\ \A f \in s.clear : fee[f].owed = FALSE
        /\ \A k \in s.mine \cup s.todo :
             /\ k.fee \notin s.clear
             /\ \A r \in REMINDER_STAGES : r < k.stage => rows[Earlier(k, r)] # "none"
    BY <1>0, <2>2, <2>4 DEF SoundJob
  <2> QED
    BY <2>1, <2>3, <2>5, <2>7, <2>8, OnwardStep
<1> QED
  BY <1>1, <1>2

\* A process that the database aborts, or that dies, sent what it sent.
LEMMA StopStep ==
  ASSUME ReminderInv, NEW j \in Job, Abort(j) \/ Crash(j)
  PROVE  ReminderInv'
<1>1. deaths' \in 0 .. MaxEvents
  BY BoundAssumption DEF Abort, Crash, People, ReminderInv, TypeOK
<1>2. job' = [job EXCEPT ![j] = Resting] /\ UNCHANGED <<today, edits, fee, contact, rows, Outbox>>
  BY DEF Abort, Crash, People
<1> QED
  BY <1>1, <1>2, EndStep

\* What another run does to rows and messages that are not its own leaves
\* what a run knows alone.
LEMMA OtherSound ==
  ASSUME NEW o \in JobState, SoundJob(o, rows, sent, fee), fee' = fee,
         \A k \in Key : rows[k] # "none" => rows'[k] # "none",
         o.pc \in Open \cup Sending => \A k \in o.mine : rows'[k] = rows[k],
         o.pc \in Sending => \A k \in o.queue : sent'[k] = sent[k]
  PROVE  SoundJob(o, rows', sent', fee')
<1>1. o.mine \subseteq Key /\ o.todo \subseteq Key /\ o.at \subseteq Key
  BY DEF JobState
<1>2. \A k \in o.mine \cup o.todo \cup o.at :
        \A r \in REMINDER_STAGES : r < k.stage => rows'[Earlier(k, r)] # "none"
  BY <1>1, EarlierKeys DEF SoundJob
<1>3. o.pc \in Open => \A k \in o.mine : rows'[k] = "none"
  BY DEF SoundJob
<1>4. o.pc \in Sending => /\ \A k \in o.mine : rows'[k] = "ATTEMPTED" <=> k \in o.queue
                          /\ \A k \in o.mine : rows'[k] # "none"
                          /\ \A k \in o.queue : o.pc = "send" \/ k \notin o.at => sent'[k] = 0
  BY DEF SoundJob
<1>5. o.pc = "report" => \A k \in o.at : sent'[k] = 1
  BY DEF SoundJob, Sending
<1> QED
  BY <1>2, <1>3, <1>4, <1>5 DEF SoundJob

\* The rows of a run are committed together.
LEMMA CommitStep ==
  ASSUME ReminderInv, NEW j \in Job, Commit(j)
  PROVE  ReminderInv'
<1>0. /\ TypeOK /\ RowsOfMessages /\ StagesInOrder
      /\ \A i \in Job : SoundJob(job[i], rows, sent, fee) /\ job[i] \in JobState
      /\ \A i, o \in Job : i # o => Apart(job[i], job[o])
  BY DEF ReminderInv, TypeOK
<1> DEFINE mine == job[j].mine
<1> DEFINE s == IF job[j].queue = {} THEN Resting
                ELSE [job[j] EXCEPT !.pc = "send", !.late = {}, !.clear = {}]
<1>1. /\ job[j].pc = "commit" /\ sent' = sent /\ taken' = taken /\ fee' = fee
      /\ today' = today /\ deaths' = deaths /\ edits' = edits /\ contact' = contact
  BY DEF Commit, Outbox, People
<1>2. /\ mine \subseteq Key /\ \A k \in mine : rows[k] = "none"
      /\ job[j].queue = {k \in mine : k.channel \in Network}
  BY <1>0, <1>1 DEF SoundJob, Open, JobState
<1>3. \A k \in Key : rows'[k] = IF k \notin mine THEN rows[k]
                                ELSE IF k.channel = "app" THEN "CREATED" ELSE "ATTEMPTED"
  BY DEF Commit
<1>4. rows' \in [Key -> Status]
  <2>1. \A k \in Key : rows'[k] \in Status
    BY <1>0, <1>3 DEF TypeOK, Status
  <2>2. rows' = [k \in Key |-> rows'[k]]
    BY DEF Commit
  <2> QED
    BY <2>1, <2>2
<1>5. job' = [job EXCEPT ![j] = s]
  BY <1>0 DEF Commit, TypeOK
<1>6. s \in JobState
  BY <1>0, RestingFields DEF JobState, Step, Reading
<1>7. \A k \in Key : rows[k] # "none" => rows'[k] # "none"
  BY <1>3
<1>8. SoundJob(s, rows', sent', fee')
  <2>1. CASE job[j].queue = {}
    BY <2>1, RestingSound
  <2>2. CASE job[j].queue # {}
    <3>1. /\ s.pc = "send" /\ s.clear = {} /\ s.mine = mine /\ s.queue = job[j].queue
          /\ s.todo = job[j].todo /\ s.at = job[j].at
      BY <1>0, <2>2 DEF JobState
    <3>2. mine \cup job[j].todo \cup job[j].at \subseteq Key
      BY <1>0 DEF JobState
    <3>3. \A k \in mine \cup job[j].todo \cup job[j].at :
            \A r \in REMINDER_STAGES : r < k.stage => rows'[Earlier(k, r)] # "none"
      BY <1>0, <1>7, <3>2, EarlierKeys DEF SoundJob
    <3>4. \A k \in mine : /\ rows'[k] = "ATTEMPTED" <=> k \in job[j].queue
                          /\ rows'[k] # "none"
      BY <1>2, <1>3 DEF Key, Channel, Network
    <3>5. \A k \in mine : sent'[k] = 0
      BY <1>0, <1>1, <1>2 DEF RowsOfMessages
    <3>6. job[j].queue \subseteq mine
      BY <1>2
    <3> HIDE DEF s, mine
    <3> QED
      BY <3>1, <3>3, <3>4, <3>5, <3>6 DEF SoundJob, Open, Sending, Reading
  <2> QED
    BY <2>1, <2>2
<1>9. ASSUME NEW i \in Job, i # j
      PROVE  SoundJob(job[i], rows', sent', fee') /\ Apart(s, job[i]) /\ Apart(job[i], s)
  <2>1. job[i].pc \in Open => job[i].mine \cap mine = {}
    BY <1>0, <1>1, <1>9 DEF Apart, Open
  <2>2. job[i].pc \in Sending => job[i].mine \cap mine = {} /\ job[i].queue \subseteq job[i].mine
    BY <1>0, <1>2 DEF SoundJob
  <2>3. job[i].pc \in Open \cup Sending => \A k \in job[i].mine : rows'[k] = rows[k]
    <3>1. job[i].mine \subseteq Key
      BY <1>0 DEF JobState
    <3> QED
      BY <1>3, <2>1, <2>2, <3>1
  <2>4. SoundJob(job[i], rows', sent', fee')
    BY <1>0, <1>1, <1>7, <2>3, OtherSound
  <2>5. CASE job[j].queue = {}
    BY <2>4, <2>5, RestingSound
  <2>6. CASE job[j].queue # {}
    <3>1. s.pc = "send" /\ s.queue = job[j].queue
      BY <1>0, <2>6 DEF JobState
    <3>2. job[j].queue \subseteq mine
      BY <1>2
    <3> HIDE DEF s, mine
    <3> QED
      BY <2>2, <2>4, <3>1, <3>2 DEF Apart, Open, Sending
  <2> QED
    BY <2>5, <2>6
<1> HIDE DEF s
<1>10. \A i \in Job : job'[i] = IF i = j THEN s ELSE job[i]
  BY <1>0, <1>5 DEF TypeOK
<1>11. TypeOK'
  BY <1>0, <1>1, <1>4, <1>5, <1>6 DEF TypeOK
<1>12. RowsOfMessages'
  BY <1>0, <1>1, <1>2, <1>3 DEF RowsOfMessages
<1>13. StagesInOrder'
  <2>1. ASSUME NEW k \in Key, rows'[k] # "none", NEW r \in REMINDER_STAGES, r < k.stage
        PROVE  rows'[Earlier(k, r)] # "none"
    <3>1. rows[Earlier(k, r)] # "none"
      <4>1. CASE k \in mine
        BY <1>0, <2>1, <4>1 DEF SoundJob
      <4>2. CASE k \notin mine
        BY <1>0, <1>3, <2>1, <4>2 DEF StagesInOrder, Earlier
      <4> QED
        BY <4>1, <4>2
    <3> QED
      BY <1>7, <3>1, EarlierKeys
  <2> QED
    BY <2>1 DEF StagesInOrder, Earlier
<1> QED
  BY <1>8, <1>9, <1>10, <1>0, <1>11, <1>12, <1>13 DEF ReminderInv

\* A message leaves once: it is in one queue and was not sent before.
LEMMA SendStep ==
  ASSUME ReminderInv, NEW j \in Job, Send(j)
  PROVE  ReminderInv'
<1>0. /\ TypeOK /\ RowsOfMessages /\ StagesInOrder
      /\ \A i \in Job : SoundJob(job[i], rows, sent, fee) /\ job[i] \in JobState
      /\ \A i, o \in Job : i # o => Apart(job[i], job[o])
  BY DEF ReminderInv, TypeOK
<1>1. PICK k \in FirstToSend(j), accepted \in BOOLEAN :
        /\ sent' = [sent EXCEPT ![k] = @ + 1]
        /\ taken' = IF accepted THEN taken \cup {k} ELSE taken
        /\ job' = [job EXCEPT ![j].pc = "report", ![j].at = {k}]
  BY DEF Send
<1> DEFINE s == [job[j] EXCEPT !.pc = "report", !.at = {k}]
<1>2. /\ job[j].pc = "send" /\ rows' = rows /\ fee' = fee
      /\ today' = today /\ deaths' = deaths /\ edits' = edits /\ contact' = contact
  BY DEF Send, People
<1>3. k \in job[j].queue /\ k \in Key /\ k \in job[j].mine /\ rows[k] = "ATTEMPTED" /\ sent[k] = 0
  <2>1. k \in job[j].queue
    BY DEF FirstToSend
  <2>2. k \in Key
    BY <1>0, <2>1 DEF JobState
  <2> QED
    BY <1>0, <1>2, <2>1, <2>2 DEF SoundJob, Sending
<1>4. \A o \in Key : sent'[o] = IF o = k THEN 1 ELSE sent[o]
  BY <1>0, <1>1, <1>3 DEF TypeOK
<1>5. job' = [job EXCEPT ![j] = s]
  BY <1>0, <1>1 DEF TypeOK
<1>6. s \in JobState
  BY <1>0, <1>3 DEF JobState, Step, Reading
<1>7. /\ s.pc = "report" /\ s.at = {k} /\ s.mine = job[j].mine /\ s.queue = job[j].queue
      /\ s.todo = job[j].todo /\ s.clear = job[j].clear
  BY <1>0 DEF JobState
<1> HIDE DEF s
<1>8. SoundJob(s, rows', sent', fee')
  <2>1. job[j].queue \subseteq Key
    BY <1>0 DEF JobState
  <2>2. \A o \in s.queue : o \notin s.at => sent'[o] = 0
    BY <1>0, <1>2, <1>4, <1>7, <2>1 DEF SoundJob, Sending
  <2>3. \A o \in s.mine \cup s.todo \cup s.at :
          /\ \A r \in REMINDER_STAGES : r < o.stage => rows'[Earlier(o, r)] # "none"
          /\ o.fee \notin s.clear
    BY <1>0, <1>2, <1>3, <1>7 DEF SoundJob
  <2>4. /\ s.queue \subseteq s.mine /\ \A o \in s.mine : rows'[o] = "ATTEMPTED" <=> o \in s.queue
        /\ \A o \in s.mine : rows'[o] # "none"
        /\ \A f \in s.clear : fee'[f].owed = FALSE
    BY <1>0, <1>2, <1>7 DEF SoundJob, Sending
  <2> QED
    BY <1>3, <1>4, <1>7, <2>2, <2>3, <2>4 DEF SoundJob, Open, Sending, Reading
<1>9. ASSUME NEW i \in Job, i # j
      PROVE  SoundJob(job[i], rows', sent', fee') /\ Apart(s, job[i]) /\ Apart(job[i], s)
  <2>1. job[i].pc \in Sending => k \notin job[i].queue
    BY <1>0, <1>2, <1>3, <1>9 DEF Apart, Sending
  <2>2. job[i].queue \subseteq Key
    BY <1>0 DEF JobState
  <2>3. SoundJob(job[i], rows', sent', fee')
    BY <1>0, <1>2, <1>4, <2>1, <2>2, OtherSound
  <2> QED
    BY <1>0, <1>2, <1>7, <1>9, <2>3 DEF Apart, Open, Sending
<1>10. \A i \in Job : job'[i] = IF i = j THEN s ELSE job[i]
  BY <1>0, <1>5 DEF TypeOK
<1>11. TypeOK'
  <2>1. taken' \subseteq Key
    BY <1>0, <1>1, <1>3 DEF TypeOK
  <2>2. sent' \in [Key -> Nat]
    <3>1. sent[k] + 1 \in Nat
      BY <1>3
    <3> QED
      BY <1>0, <1>1, <3>1 DEF TypeOK
  <2>3. job' \in [Job -> JobState]
    BY <1>0, <1>5, <1>6 DEF TypeOK
  <2> QED
    BY <1>0, <1>2, <2>1, <2>2, <2>3 DEF TypeOK
<1>12. RowsOfMessages'
  BY <1>0, <1>1, <1>2, <1>3, <1>4 DEF RowsOfMessages
<1>13. StagesInOrder'
  BY <1>0, <1>2 DEF StagesInOrder
<1> QED
  BY <1>0, <1>8, <1>9, <1>10, <1>11, <1>12, <1>13 DEF ReminderInv

\* The outcome of a message is written to its own row.
LEMMA ReportStep ==
  ASSUME ReminderInv, NEW j \in Job, Report(j)
  PROVE  ReminderInv' /\ (job'[j].pc = "idle" => \A k \in job[j].mine : rows'[k] # "ATTEMPTED")
<1>0. /\ TypeOK /\ RowsOfMessages /\ StagesInOrder
      /\ \A i \in Job : SoundJob(job[i], rows, sent, fee) /\ job[i] \in JobState
      /\ \A i, o \in Job : i # o => Apart(job[i], job[o])
  BY DEF ReminderInv, TypeOK
<1> DEFINE left == job[j].queue \ job[j].at
<1> DEFINE s == IF left = {} THEN Resting ELSE [job[j] EXCEPT !.pc = "send", !.queue = left, !.at = {}]
<1>1. /\ job[j].pc = "report" /\ sent' = sent /\ taken' = taken /\ fee' = fee
      /\ today' = today /\ deaths' = deaths /\ edits' = edits /\ contact' = contact
  BY DEF Report, People, Outbox
<1>2. /\ job[j].at \subseteq job[j].queue /\ job[j].queue \subseteq job[j].mine
      /\ job[j].mine \subseteq Key
      /\ \A k \in job[j].at : sent[k] = 1 /\ rows[k] = "ATTEMPTED"
      /\ \A k \in job[j].mine : rows[k] = "ATTEMPTED" <=> k \in job[j].queue
      /\ \A k \in left : sent[k] = 0
  BY <1>0, <1>1 DEF SoundJob, Sending, JobState
<1>3. \A k \in Key : rows'[k] = IF k \in job[j].at THEN Outcome(k) ELSE rows[k]
  BY DEF Report
<1>4. \A k \in Key : Outcome(k) \in {"TRANSPORT_ACCEPTED", "TRANSPORT_FAILED"}
  BY DEF Outcome
<1>5. rows' \in [Key -> Status]
  <2>1. \A k \in Key : rows'[k] \in Status
    BY <1>0, <1>3, <1>4 DEF TypeOK, Status
  <2>2. rows' = [k \in Key |-> rows'[k]]
    BY DEF Report
  <2> QED
    BY <2>1, <2>2
<1>6. job' = [job EXCEPT ![j] = s]
  BY <1>0 DEF Report, Unqueued, TypeOK
<1>7. left \subseteq job[j].queue /\ \A k \in left : k \notin job[j].at
  OBVIOUS
<1>8. \A k \in job[j].mine : rows'[k] # "none" /\ (rows'[k] = "ATTEMPTED" <=> k \in left)
  BY <1>0, <1>1, <1>2, <1>3, <1>4 DEF SoundJob, Sending
<1> HIDE DEF left
<1>9. \A k \in Key : rows[k] # "none" => rows'[k] # "none"
  BY <1>3, <1>4
<1>10. s \in JobState
  BY <1>0, <1>7, RestingFields DEF JobState, Step, Reading
<1>11. SoundJob(s, rows', sent', fee')
  <2>1. CASE left = {}
    BY <2>1, RestingSound
  <2>2. CASE left # {}
    <3>1. /\ s.pc = "send" /\ s.mine = job[j].mine /\ s.queue = left
          /\ s.todo = job[j].todo /\ s.at = {} /\ s.clear = job[j].clear
      BY <1>0, <2>2 DEF JobState
    <3> HIDE DEF s
    <3>2. s.mine \cup s.todo \subseteq Key
      BY <1>0, <3>1 DEF JobState
    <3>3. \A k \in s.mine \cup s.todo \cup s.at :
            /\ \A r \in REMINDER_STAGES : r < k.stage => rows'[Earlier(k, r)] # "none"
            /\ k.fee \notin s.clear
      BY <1>0, <1>9, <3>1, <3>2, EarlierKeys DEF SoundJob
    <3>4. \A f \in s.clear : fee'[f].owed = FALSE
      BY <1>0, <1>1, <3>1 DEF SoundJob
    <3> QED
      BY <1>1, <1>2, <1>7, <1>8, <3>1, <3>3, <3>4 DEF SoundJob, Open, Sending, Reading
  <2> QED
    BY <2>1, <2>2
<1>12. ASSUME NEW i \in Job, i # j
       PROVE  SoundJob(job[i], rows', sent', fee') /\ Apart(s, job[i]) /\ Apart(job[i], s)
  <2>1. job[i].pc \in Open => job[i].mine \cap job[j].at = {}
    BY <1>0, <1>2 DEF SoundJob
  <2>2. job[i].pc \in Sending => job[i].mine \cap job[j].at = {}
    <3>1. job[i].pc \in Sending => job[i].queue \cap job[j].queue = {}
      BY <1>0, <1>1, <1>12 DEF Apart, Sending
    <3>2. job[i].pc \in Sending => \A k \in job[i].mine : rows[k] = "ATTEMPTED" <=> k \in job[i].queue
      BY <1>0 DEF SoundJob
    <3> QED
      BY <1>2, <3>1, <3>2
  <2>3. job[i].pc \in Open \cup Sending => \A k \in job[i].mine : rows'[k] = rows[k]
    <3>1. job[i].mine \subseteq Key
      BY <1>0 DEF JobState
    <3> QED
      BY <1>3, <2>1, <2>2, <3>1
  <2>4. SoundJob(job[i], rows', sent', fee')
    BY <1>0, <1>1, <1>9, <2>3, OtherSound
  <2>5. CASE left = {}
    BY <2>4, <2>5, RestingSound
  <2>6. CASE left # {}
    <3>1. s.pc = "send" /\ s.queue = left
      BY <1>0, <2>6 DEF JobState
    <3> HIDE DEF s
    <3>2. job[i].pc \in Sending => job[i].queue \cap job[j].queue = {}
      BY <1>0, <1>1, <1>12 DEF Apart, Sending
    <3> QED
      BY <1>7, <2>4, <3>1, <3>2 DEF Apart, Open, Sending
  <2> QED
    BY <2>5, <2>6
<1>13. job'[j].pc = "idle" => left = {}
  BY <1>0, <1>6 DEF TypeOK, JobState
<1> HIDE DEF s
<1>14. \A i \in Job : job'[i] = IF i = j THEN s ELSE job[i]
  BY <1>0, <1>6 DEF TypeOK
<1>15. TypeOK'
  BY <1>0, <1>1, <1>5, <1>6, <1>10 DEF TypeOK
<1>16. RowsOfMessages'
  BY <1>0, <1>1, <1>2, <1>3 DEF RowsOfMessages, Outcome
<1>17. StagesInOrder'
  <2>1. ASSUME NEW k \in Key, rows'[k] # "none", NEW r \in REMINDER_STAGES, r < k.stage
        PROVE  rows'[Earlier(k, r)] # "none"
    <3>1. rows[k] # "none"
      BY <1>2, <1>3, <2>1
    <3>2. rows[Earlier(k, r)] # "none"
      BY <1>0, <2>1, <3>1 DEF StagesInOrder, Earlier
    <3> QED
      BY <1>9, <3>2, EarlierKeys
  <2> QED
    BY <2>1 DEF StagesInOrder, Earlier
<1>18. ReminderInv'
  BY <1>0, <1>11, <1>12, <1>14, <1>15, <1>16, <1>17 DEF ReminderInv
<1>19. job'[j].pc = "idle" => \A k \in job[j].mine : rows'[k] # "ATTEMPTED"
  BY <1>8, <1>13
<1> QED
  BY <1>18, <1>19

\* Days pass, fees are paid and moved, guardians change: no row is touched,
\* and a fee that is owed again is no longer one that stayed paid.
LEMMA EnvironmentStep ==
  ASSUME ReminderInv, Environment
  PROVE  ReminderInv'
<1>0. /\ TypeOK /\ RowsOfMessages /\ StagesInOrder
      /\ \A i \in Job : SoundJob(job[i], rows, sent, fee) /\ job[i] \in JobState
      /\ \A i, o \in Job : i # o => Apart(job[i], job[o])
  BY DEF ReminderInv, TypeOK
<1>1. ASSUME fee' = fee, job' = job, rows' = rows, sent' = sent, taken' = taken, TypeOK'
      PROVE  ReminderInv'
  BY <1>0, <1>1 DEF ReminderInv, RowsOfMessages, StagesInOrder
<1>2. CASE NextDay
  <2>1. today' \in 0 .. MaxDay
    BY <1>0, <1>2, BoundAssumption DEF NextDay, TypeOK
  <2>2. TypeOK'
    BY <1>0, <1>2, <2>1 DEF NextDay, Outbox, TypeOK
  <2> QED
    BY <1>1, <1>2, <2>2 DEF NextDay, Outbox
<1>3. ASSUME NEW g \in Guardian, NEW what \in {"account", "phone", "email"}, ChangeContact(g, what)
      PROVE  ReminderInv'
  <2>1. edits' \in 0 .. MaxEvents
    BY <1>0, <1>3, BoundAssumption DEF ChangeContact, Edit, TypeOK
  <2>2. contact' \in [Guardian -> SUBSET {"account", "phone", "email"}]
    BY <1>0, <1>3 DEF ChangeContact, TypeOK
  <2>3. TypeOK'
    BY <1>0, <1>3, <2>1, <2>2 DEF ChangeContact, Outbox, TypeOK
  <2> QED
    BY <1>1, <1>3, <2>3 DEF ChangeContact, Outbox
<1>4. ASSUME NEW f \in Fee, NEW row \in [due : 0 .. MaxDay, owed : BOOLEAN], ChangeFee(f, row)
      PROVE  ReminderInv'
  <2>1. edits' \in 0 .. MaxEvents
    BY <1>0, <1>4, BoundAssumption DEF ChangeFee, Edit, TypeOK
  <2>2. /\ rows' = rows /\ sent' = sent /\ taken' = taken /\ today' = today
        /\ deaths' = deaths /\ contact' = contact
    BY <1>4 DEF ChangeFee, Outbox
  <2>3. \A e \in Fee : fee'[e] = IF e = f THEN row ELSE fee[e]
    BY <1>0, <1>4 DEF ChangeFee, TypeOK
  <2>4. ASSUME NEW i \in Job
        PROVE  /\ job'[i] = [job[i] EXCEPT !.clear = IF row.owed THEN @ \ {f} ELSE @]
               /\ job'[i] \in JobState
               /\ job'[i].clear \subseteq job[i].clear
               /\ \A e \in job'[i].clear : fee'[e].owed = FALSE
               /\ job'[i].pc = job[i].pc /\ job'[i].late = job[i].late
               /\ job'[i].reached = job[i].reached /\ job'[i].todo = job[i].todo
               /\ job'[i].at = job[i].at /\ job'[i].mine = job[i].mine
               /\ job'[i].queue = job[i].queue
    <3> DEFINE clear == IF row.owed THEN job[i].clear \ {f} ELSE job[i].clear
    <3>1. job'[i] = [job[i] EXCEPT !.clear = clear]
      BY <1>4 DEF ChangeFee
    <3>2. clear \subseteq job[i].clear /\ (f \in clear => row.owed = FALSE)
      OBVIOUS
    <3>3. clear \subseteq Fee
      BY <1>0, <3>2 DEF JobState
    <3>4. \A e \in clear : fee'[e].owed = FALSE
      BY <1>0, <2>3, <3>2, <3>3 DEF SoundJob
    <3> HIDE DEF clear
    <3>5. /\ job'[i].clear = clear /\ job'[i] \in JobState
          /\ job'[i].pc = job[i].pc /\ job'[i].late = job[i].late
          /\ job'[i].reached = job[i].reached /\ job'[i].todo = job[i].todo
          /\ job'[i].at = job[i].at /\ job'[i].mine = job[i].mine
          /\ job'[i].queue = job[i].queue
      BY <1>0, <3>1, <3>3 DEF JobState
    <3> QED
      BY <3>1, <3>2, <3>4, <3>5 DEF clear
  <2>5. job' \in [Job -> JobState]
    <3>1. job' = [i \in Job |-> job'[i]]
      BY <1>4 DEF ChangeFee
    <3> QED
      BY <2>4, <3>1
  <2>6. fee' \in [Fee -> [due : 0 .. MaxDay, owed : BOOLEAN]]
    BY <1>0, <1>4 DEF ChangeFee, TypeOK
  <2>7. TypeOK'
    BY <1>0, <2>1, <2>2, <2>5, <2>6 DEF TypeOK
  <2>8. ASSUME NEW i \in Job PROVE SoundJob(job'[i], rows', sent', fee')
    <3> DEFINE s == job'[i]
    <3> DEFINE o == job[i]
    <3>1. SoundJob(o, rows, sent, fee)
      BY <1>0
    <3>2. /\ s.clear \subseteq o.clear /\ \A e \in s.clear : fee'[e].owed = FALSE
          /\ s.pc = o.pc /\ s.late = o.late /\ s.reached = o.reached /\ s.todo = o.todo
          /\ s.at = o.at /\ s.mine = o.mine /\ s.queue = o.queue
      BY <2>4
    <3> HIDE DEF s, o
    <3>3. /\ s.pc \in {"accounts", "others"} => s.late \cap s.clear = {}
          /\ \A k \in s.mine \cup s.todo \cup s.at : k.fee \notin s.clear
      BY <3>1, <3>2 DEF SoundJob
    <3>4. SoundJob(s, rows, sent, fee')
      BY <3>1, <3>2, <3>3 DEF SoundJob
    <3> QED
      BY <2>2, <3>4 DEF s
  <2>9. \A i, o \in Job : i # o => Apart(job'[i], job'[o])
    BY <1>0, <2>4 DEF Apart
  <2>10. RowsOfMessages' /\ StagesInOrder'
    BY <1>0, <2>2 DEF RowsOfMessages, StagesInOrder
  <2> QED
    BY <2>7, <2>8, <2>9, <2>10 DEF ReminderInv
<1>5. ASSUME NEW f \in Fee, Settle(f) \/ Unsettle(f) PROVE ReminderInv'
  <2>1. /\ [fee[f] EXCEPT !.owed = FALSE] \in [due : 0 .. MaxDay, owed : BOOLEAN]
        /\ [fee[f] EXCEPT !.owed = TRUE] \in [due : 0 .. MaxDay, owed : BOOLEAN]
    BY <1>0 DEF TypeOK
  <2> QED
    BY <1>4, <1>5, <2>1 DEF Settle, Unsettle
<1>6. ASSUME NEW f \in Fee, NEW d \in 0 .. MaxDay, MoveDueDate(f, d) PROVE ReminderInv'
  <2>1. [fee[f] EXCEPT !.due = d] \in [due : 0 .. MaxDay, owed : BOOLEAN]
    BY <1>0 DEF TypeOK
  <2> QED
    BY <1>4, <1>6, <2>1 DEF MoveDueDate
<1> QED
  BY <1>2, <1>3, <1>5, <1>6 DEF Environment

\* Every step keeps the invariant.
LEMMA StepReminders == ReminderInv /\ [Next]_vars => ReminderInv'
<1> SUFFICES ASSUME ReminderInv, [Next]_vars PROVE ReminderInv'
  OBVIOUS
<1>1. CASE UNCHANGED vars
  BY <1>1 DEF vars, ReminderInv, TypeOK, RowsOfMessages, StagesInOrder
<1>2. ASSUME NEW j \in Job, Run(j) \/ Crash(j) PROVE ReminderInv'
  BY <1>2, ReadStep, InsertStep, StopStep, CommitStep, SendStep, ReportStep DEF Run
<1>3. CASE Environment
  BY <1>3, EnvironmentStep
<1> QED
  BY <1>1, <1>2, <1>3 DEF Next

\* Rows, messages and runs are what they should be.
THEOREM RemindersTypeCorrect == Spec => []TypeOK
<1>1. ReminderInv => TypeOK
  BY DEF ReminderInv
<1> QED
  BY <1>1, InitReminders, StepReminders, PTL DEF Spec

\* On each channel a guardian is told the stages of a fee one after the
\* other, however many runs overlap and however due dates move.
THEOREM StagesComeInOrder == Spec => []StagesInOrder
<1>1. ReminderInv => StagesInOrder
  BY DEF ReminderInv
<1> QED
  BY <1>1, InitReminders, StepReminders, PTL DEF Spec

\* No message is sent twice, nor without its row, for any runs and crashes.
THEOREM MessagesLeaveOnce == Spec => []SentOnce
<1>1. ReminderInv => SentOnce
  BY DEF ReminderInv, RowsOfMessages, SentOnce
<1> QED
  BY <1>1, InitReminders, StepReminders, PTL DEF Spec

\* What a row says was accepted or refused was.
THEOREM RowsSayWhatHappened == Spec => []StatusIsTrue
<1>1. ReminderInv => StatusIsTrue
  BY DEF ReminderInv, RowsOfMessages, StatusIsTrue
<1> QED
  BY <1>1, InitReminders, StepReminders, PTL DEF Spec

\* Nobody is reminded of a fee that was paid when the run began and still
\* is.
THEOREM PaidFeesAreLeftAlone == Spec => []SettledLeftAlone
<1>1. ReminderInv => SettledLeftAlone
  BY DEF ReminderInv, SoundJob, SettledLeftAlone
<1> QED
  BY <1>1, InitReminders, StepReminders, PTL DEF Spec

\* A run that ends by itself has reported the outcome of all its messages.
LEMMA LastReport ==
  ASSUME ReminderInv, [Next]_vars, NEW j \in Job,
         job[j].pc = "report", job'[j].pc = "idle", deaths' = deaths
  PROVE  \A k \in job[j].mine : rows'[k] # "ATTEMPTED"
<1>0. TypeOK
  BY DEF ReminderInv
<1>1. ASSUME NEW i \in Job, NEW s, job' = [job EXCEPT ![i] = s] PROVE i = j
  BY <1>0, <1>1 DEF TypeOK
<1>2. ASSUME NEW i \in Job, Report(i) PROVE i = j
  BY <1>1, <1>2 DEF Report
<1>3. ASSUME NEW i \in Job,
             Start(i) \/ ReadFees(i) \/ ReadBalances(i) \/ ReadAccounts(i) \/ ReadOthers(i)
      PROVE  FALSE
  <2>1. \E s : job' = [job EXCEPT ![i] = s]
    BY <1>0, <1>3 DEF Start, ReadFees, ReadBalances, ReadAccounts, ReadOthers, Onward, TypeOK
  <2> QED
    BY <1>1, <1>3, <2>1 DEF Start, ReadFees, ReadBalances, ReadAccounts, ReadOthers
<1>4. ASSUME NEW i \in Job, Insert(i) \/ Abort(i) \/ Commit(i) \/ Send(i) PROVE FALSE
  <2>1. \E s : job' = [job EXCEPT ![i] = s]
    BY <1>0, <1>4 DEF Insert, Onward, Abort, Commit, Send, TypeOK
  <2> QED
    BY <1>1, <1>4, <2>1 DEF Insert, Abort, Deadlocked, Waiting, Commit, Send
<1>5. ASSUME NEW i \in Job, Crash(i) PROVE FALSE
  BY <1>0, <1>5 DEF Crash, TypeOK
<1>6. CASE Environment
  <2>1. \A i \in Job : job'[i].pc = job[i].pc
    <3>1. job' = job \/ \E f \in Fee : \E row : ChangeFee(f, row)
      BY <1>6 DEF Environment, NextDay, ChangeContact, Settle, Unsettle, MoveDueDate
    <3>2. ASSUME NEW f \in Fee, NEW row, ChangeFee(f, row), NEW i \in Job
          PROVE  job'[i].pc = job[i].pc
      <4>1. job'[i] = [job[i] EXCEPT !.clear = IF row.owed THEN @ \ {f} ELSE @]
        BY <3>2 DEF ChangeFee
      <4> QED
        BY <1>0, <4>1 DEF TypeOK, JobState
    <3> QED
      BY <3>1, <3>2
  <2> QED
    BY <2>1
<1>7. CASE UNCHANGED vars
  BY <1>7 DEF vars
<1>8. CASE Report(j)
  BY <1>8, ReportStep
<1> QED
  BY <1>2, <1>3, <1>4, <1>5, <1>6, <1>7, <1>8 DEF Next, Run

\* No message of a run that ends by itself is left without its outcome.
THEOREM RunsReportEverything == Spec => RunReportsAll
<1>1. ASSUME ReminderInv, [Next]_vars
      PROVE  [\A j \in Job :
                job[j].pc = "report" /\ job'[j].pc = "idle" /\ deaths' = deaths
                  => \A k \in job[j].mine : rows'[k] # "ATTEMPTED"]_vars
  BY <1>1, LastReport
<1> QED
  BY <1>1, InitReminders, StepReminders, PTL DEF Spec, RunReportsAll

\* Stages follow each other and paid fees are left alone
\* (fees/overdue_reminders.py).
THEOREM RemindersAreAlwaysDue == Spec => []RemindersAreDue
<1>1. StagesInOrder /\ SettledLeftAlone => RemindersAreDue
  BY DEF RemindersAreDue
<1> QED
  BY <1>1, StagesComeInOrder, PaidFeesAreLeftAlone, PTL

\* Every message has its row, sent once and reported truly, for any number of
\* overlapping runs and deaths (fees/overdue_reminders.py).
THEOREM MessagesAreAccountedFor == Spec => MessagesAccountedFor
  BY MessagesLeaveOnce, RowsSayWhatHappened, RunsReportEverything DEF MessagesAccountedFor

-----------------------------------------------------------------------------
(***************************************************************************)
(* The staff's report reads the rows the job leaves behind.  What it shows *)
(* of a guardian is the furthest stage among the rows of every channel the *)
(* report looks at; a step of the job only adds rows and outcomes.         *)
(***************************************************************************)

\* The stages the report looks at: notifications belong to an account.
LookedUp(c, f, g) ==
  IF c = "app" /\ "account" \notin contact[g] THEN {} ELSE Recorded(c, f, g)

\* The entries e are the furthest of the stages S.
Tops(e, S) ==
  /\ S \subseteq REMINDER_STAGES
  /\ e = {} => S = {}
  /\ \A k \in e : k.stage \in S /\ \A s \in S : s <= k.stage

\* What the report shows of f and g is the furthest stage it looks at.
ShowsFurthest(f, g) ==
  /\ StageShown(f, g) \in 0 .. 3
  /\ \A c \in Channel : \A s \in LookedUp(c, f, g) : s <= StageShown(f, g)
  /\ StageShown(f, g) # 0 => \E c \in Channel : StageShown(f, g) \in LookedUp(c, f, g)
ReportShowsFurthest == \A f \in Fee, g \in Guardian : ShowsFurthest(f, g)

\* The furthest row of a channel: some stage is the last of a few.
LEMMA FurthestTops ==
  ASSUME NEW c, NEW f, NEW g
  PROVE  Tops(Furthest(c, f, g), LookedUp(c, f, g))
<1> DEFINE S == LookedUp(c, f, g)
<1>1. S \subseteq REMINDER_STAGES
  BY DEF LookedUp, Recorded
<1>2. S # {} => \E s \in S : \A r \in S : r <= s
  <2> HIDE DEF S
  <2>1. \A s \in S : s \in {1, 2, 3}
    BY <1>1 DEF REMINDER_STAGES
  <2>2. CASE 3 \in S
    BY <2>1, <2>2
  <2>3. CASE 3 \notin S /\ 2 \in S
    BY <2>1, <2>3
  <2>4. CASE 3 \notin S /\ 2 \notin S
    BY <2>1, <2>4
  <2> QED
    BY <2>2, <2>3, <2>4
<1>3. Furthest(c, f, g) = {[channel |-> c, fee |-> f, who |-> g, stage |-> s] :
                            s \in {s \in S : \A r \in S : r <= s}}
  BY DEF Furthest, LookedUp
<1> HIDE DEF S
<1>4. ASSUME NEW k \in Furthest(c, f, g) PROVE k.stage \in S /\ \A s \in S : s <= k.stage
  BY <1>3
<1>5. Furthest(c, f, g) = {} => S = {}
  BY <1>2, <1>3
<1>6. Tops(Furthest(c, f, g), S)
  BY <1>1, <1>4, <1>5 DEF Tops
<1> QED
  BY <1>6 DEF S

\* An entry takes the place of another when it is further.
LEMMA OverrideTops ==
  ASSUME NEW e, NEW S, NEW h, NEW T, Tops(e, S), Tops(h, T)
  PROVE  Tops(Override(e, h), S \cup T)
<1>0. /\ \A s \in S \cup T : s \in Int
      /\ S \cup T \subseteq REMINDER_STAGES
  BY DEF Tops, REMINDER_STAGES
<1>1. CASE (\A x \in h, y \in e : x.stage > y.stage) /\ h = {}
  BY <1>1 DEF Override, Tops
<1>2. CASE (\A x \in h, y \in e : x.stage > y.stage) /\ h # {}
  <2>1. Override(e, h) = h
    BY <1>2 DEF Override
  <2>2. ASSUME NEW k \in h PROVE k.stage \in T /\ \A s \in S \cup T : s <= k.stage
    <3>1. k.stage \in T /\ \A s \in T : s <= k.stage
      BY DEF Tops
    <3>2. ASSUME NEW s \in S PROVE s <= k.stage
      <4>1. PICK y \in e : y.stage \in S /\ s <= y.stage
        BY DEF Tops
      <4> QED
        BY <1>0, <1>2, <3>1, <4>1
    <3> QED
      BY <3>1, <3>2
  <2> QED
    BY <1>0, <1>2, <2>1, <2>2 DEF Tops
<1>3. CASE ~\A x \in h, y \in e : x.stage > y.stage
  <2>1. Override(e, h) = e
    BY <1>3 DEF Override
  <2>2. PICK x \in h, y \in e : ~(x.stage > y.stage)
    BY <1>3
  <2>3. /\ x.stage \in T /\ \A t \in T : t <= x.stage
        /\ y.stage \in S
    BY DEF Tops
  <2>4. ASSUME NEW k \in e PROVE k.stage \in S /\ \A s \in S \cup T : s <= k.stage
    <3>1. k.stage \in S /\ \A s \in S : s <= k.stage
      BY DEF Tops
    <3> QED
      BY <1>0, <2>2, <2>3, <3>1
  <2> QED
    BY <1>0, <2>1, <2>2, <2>4 DEF Tops
<1> QED
  BY <1>1, <1>2, <1>3

\* The report shows the furthest stage of all channels, and none without rows.
LEMMA ReportIsFurthest == ReportShowsFurthest
<1> SUFFICES ASSUME NEW f \in Fee, NEW g \in Guardian PROVE ShowsFurthest(f, g)
  BY DEF ReportShowsFurthest
<1> DEFINE S == (LookedUp("app", f, g) \cup LookedUp("email", f, g)) \cup LookedUp("sms", f, g)
<1> DEFINE e == Contact(f, g).latest
<1>1. Tops(e, S)
  <2>1. e = Override(Override(Furthest("app", f, g), Furthest("email", f, g)),
                     Furthest("sms", f, g))
    BY DEF Contact
  <2>2. /\ Tops(Furthest("app", f, g), LookedUp("app", f, g))
        /\ Tops(Furthest("email", f, g), LookedUp("email", f, g))
        /\ Tops(Furthest("sms", f, g), LookedUp("sms", f, g))
    BY FurthestTops
  <2>3. Tops(Override(Furthest("app", f, g), Furthest("email", f, g)),
             LookedUp("app", f, g) \cup LookedUp("email", f, g))
    BY <2>2, OverrideTops
  <2> QED
    BY <2>1, <2>2, <2>3, OverrideTops
<1>2. \A s : s \in S <=> \E c \in Channel : s \in LookedUp(c, f, g)
  BY DEF Channel
<1>3. StageShown(f, g) = IF e = {} THEN 0 ELSE (CHOOSE k \in e : TRUE).stage
  BY DEF StageShown
<1> HIDE DEF e, S
<1>4. CASE e = {}
  <2>1. StageShown(f, g) = 0 /\ S = {}
    BY <1>1, <1>3, <1>4 DEF Tops
  <2> QED
    BY <1>2, <2>1 DEF ShowsFurthest
<1>5. CASE e # {}
  <2>1. PICK k \in e : StageShown(f, g) = k.stage
    BY <1>3, <1>5
  <2>2. k.stage \in S /\ k.stage \in 1 .. 3 /\ \A s \in S : s <= k.stage
    BY <1>1 DEF Tops, REMINDER_STAGES
  <2> QED
    BY <1>2, <2>1, <2>2 DEF ShowsFurthest
<1> QED
  BY <1>4, <1>5

\* A row is never taken back, and its outcome is written once.
LEMMA RowsGoForward ==
  ASSUME ReminderInv, [Next]_vars, NEW k \in Key, rows[k] # "none"
  PROVE  rows'[k] # "none" /\ (rows'[k] = rows[k] \/ rows[k] = "ATTEMPTED")
<1>1. CASE \E j \in Job : Commit(j)
  <2>1. PICK j \in Job : Commit(j)
    BY <1>1
  <2>2. \A m \in job[j].mine : rows[m] = "none"
    BY <2>1 DEF ReminderInv, SoundJob, Commit, Open
  <2> QED
    BY <2>1, <2>2 DEF Commit
<1>2. CASE \E j \in Job : Report(j)
  <2>1. PICK j \in Job : Report(j)
    BY <1>2
  <2>2. \A m \in job[j].at : rows[m] = "ATTEMPTED"
    BY <2>1 DEF ReminderInv, SoundJob, Report, Sending
  <2> QED
    BY <2>1, <2>2 DEF Report, Outcome
<1>3. CASE ~(\E j \in Job : Commit(j) \/ Report(j))
  <2>1. rows' = rows
    BY <1>3 DEF Next, Run, Environment, Start, ReadFees, ReadBalances, ReadAccounts, ReadOthers,
       Insert, Abort, Send, Crash, NextDay, Settle, Unsettle, MoveDueDate, ChangeFee,
       ChangeContact, vars
  <2> QED
    BY <2>1
<1> QED
  BY <1>1, <1>2, <1>3

\* A stage the report looks at is there to stay, unless the account goes.
LEMMA LookedUpStays ==
  ASSUME ReminderInv, [Next]_vars, NEW f \in Fee, NEW g \in Guardian, NEW c \in Channel,
         "account" \in contact[g] => "account" \in contact'[g],
         NEW s \in LookedUp(c, f, g)
  PROVE  s \in LookedUp(c, f, g)'
<1> DEFINE k == [channel |-> c, fee |-> f, who |-> g, stage |-> s]
<1>1. s \in REMINDER_STAGES /\ rows[k] # "none" /\ ~(c = "app" /\ "account" \notin contact[g])
  BY DEF LookedUp, Recorded
<1>2. k \in Key
  BY <1>1 DEF Key
<1> HIDE DEF k
<1>3. rows'[k] # "none"
  BY <1>1, <1>2, RowsGoForward
<1> QED
  BY <1>1, <1>3 DEF LookedUp, Recorded, k

\* The entries of a guardian are rows, with their statuses.
LEMMA StatusesAreRows ==
  ASSUME NEW f \in Fee, NEW g \in Guardian, NEW p \in Contact(f, g).statuses
  PROVE  \E k \in Key : p = <<k, rows[k]>> /\ rows[k] # "none"
<1>1. PICK k \in UNION {Furthest(c, f, g) : c \in Channel} : p = <<k, rows[k]>>
  BY DEF Contact
<1>2. PICK c \in Channel : k \in Furthest(c, f, g)
  BY <1>1
<1>3. PICK s \in LookedUp(c, f, g) : k = [channel |-> c, fee |-> f, who |-> g, stage |-> s]
  BY <1>2 DEF Furthest, LookedUp
<1>4. s \in REMINDER_STAGES /\ rows[k] # "none"
  BY <1>3 DEF LookedUp, Recorded
<1>5. k \in Key
  BY <1>3, <1>4 DEF Key
<1> QED
  BY <1>1, <1>4, <1>5

\* The report never goes back on what it told the staff (list_overdue_fees): a
\* stage falls only with the account it was notified to, an outcome is final.
THEOREM ReportsNeverGoBack == Spec => ReportNeverGoesBack
<1> DEFINE Stays ==
      \A f \in Listed \cap Listed', g \in Guardian :
        ("account" \in contact[g] => "account" \in contact'[g])
          => /\ StageShown(f, g)' >= StageShown(f, g)
             /\ \A p \in Contact(f, g).statuses, q \in Contact(f, g).statuses' :
                  p[1] = q[1] => p[2] = q[2] \/ p[2] = "ATTEMPTED"
<1>1. ReminderInv /\ ReportShowsFurthest /\ ReportShowsFurthest' /\ [Next]_vars => [Stays]_vars
  <2> SUFFICES ASSUME ReminderInv, ReportShowsFurthest, ReportShowsFurthest', [Next]_vars
               PROVE  Stays
    OBVIOUS
  <2> SUFFICES ASSUME NEW f \in Listed \cap Listed', NEW g \in Guardian,
                      "account" \in contact[g] => "account" \in contact'[g]
               PROVE  /\ StageShown(f, g)' >= StageShown(f, g)
                      /\ \A p \in Contact(f, g).statuses, q \in Contact(f, g).statuses' :
                           p[1] = q[1] => p[2] = q[2] \/ p[2] = "ATTEMPTED"
    BY Zenon
  <2>1. f \in Fee
    BY DEF Listed
  <2>2. StageShown(f, g)' >= StageShown(f, g)
    <3> DEFINE n == StageShown(f, g)
    <3>1. n \in 0 .. 3 /\ (n # 0 => \E c \in Channel : n \in LookedUp(c, f, g))
      BY <2>1 DEF ReportShowsFurthest, ShowsFurthest
    <3>2. /\ StageShown(f, g)' \in 0 .. 3
          /\ \A c \in Channel : \A s \in LookedUp(c, f, g)' : s <= StageShown(f, g)'
      BY <2>1 DEF ReportShowsFurthest, ShowsFurthest
    <3>3. CASE n = 0
      BY <3>1, <3>2, <3>3
    <3>4. CASE n # 0
      <4>1. PICK c \in Channel : n \in LookedUp(c, f, g)
        BY <3>1, <3>4
      <4>2. n \in LookedUp(c, f, g)'
        BY <2>1, <4>1, LookedUpStays
      <4> QED
        BY <3>1, <3>2, <4>2
    <3> QED
      BY <3>3, <3>4
  <2>3. ASSUME NEW p \in Contact(f, g).statuses, NEW q \in Contact(f, g).statuses', p[1] = q[1]
        PROVE  p[2] = q[2] \/ p[2] = "ATTEMPTED"
    <3>1. PICK k \in Key : p = <<k, rows[k]>> /\ rows[k] # "none"
      BY <2>1, StatusesAreRows
    <3>2. \E m : q = <<m, rows'[m]>>
      BY DEF Contact
    <3>3. q = <<k, rows'[k]>>
      BY <2>3, <3>1, <3>2
    <3>4. rows'[k] = rows[k] \/ rows[k] = "ATTEMPTED"
      BY <3>1, RowsGoForward
    <3> QED
      BY <3>1, <3>3, <3>4
  <2> QED
    BY <2>2, <2>3
<1>2. Spec => []ReminderInv
  BY InitReminders, StepReminders, PTL DEF Spec
<1> QED
  BY <1>1, <1>2, ReportIsFurthest, PTL DEF Spec, ReportNeverGoesBack
=============================================================================
