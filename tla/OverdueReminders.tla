-------------------------- MODULE OverdueReminders --------------------------
(***************************************************************************)
(* The daily job that reminds guardians of overdue fees                    *)
(* (fees/overdue_reminders.py, jobs/overdue_fee_reminders.py).             *)
(*                                                                         *)
(* A run reads the fees, who is to be told and what was already told, in   *)
(* separate statements of one READ COMMITTED transaction; inserts one      *)
(* tracking row per message, each under its own SAVEPOINT; commits; and    *)
(* only then sends, reporting the outcome of each message in a transaction *)
(* of its own.  Runs may overlap (the timer and an operator, or a restart) *)
(* and a process may die anywhere.  Meanwhile fees are paid and moved and  *)
(* guardians change how they can be reached.                               *)
(***************************************************************************)
EXTENDS Integers, FiniteSets

CONSTANTS
  Job,          \* processes that may run the job at the same time
  Fee,          \* student fees
  Guardian,     \* guardians, all of them guardians of every student
  Threshold,    \* _STAGE_THRESHOLD_DAYS, by stage: 0, 7, 30
  FirstContact, \* what each guardian has at first: account, phone, email
  SmsEnabled,   \* the SMS_ENABLED setting
  MaxDay,       \* bound on the calendar
  MaxEvents     \* bound on processes that die and on changes made by people

REMINDER_STAGES == 1 .. 3     \* J0, J7, J30
ASSUME ThresholdAssumption ==
  /\ Threshold \in [REMINDER_STAGES -> Nat]
  /\ \A s, r \in REMINDER_STAGES : s < r => Threshold[s] < Threshold[r]
ASSUME ContactAssumption == FirstContact \in [Guardian -> SUBSET {"account", "phone", "email"}]
ASSUME SmsAssumption == SmsEnabled \in BOOLEAN
ASSUME BoundAssumption == MaxDay \in Nat /\ MaxEvents \in Nat

Channel == {"app", "sms", "email"}
Network == {"sms", "email"}
Key == [channel : Channel, fee : Fee, who : Guardian, stage : REMINDER_STAGES]
Status == {"none", "CREATED", "ATTEMPTED", "TRANSPORT_ACCEPTED", "TRANSPORT_FAILED"}

VARIABLES
  today,
  deaths,       \* processes that died
  edits,        \* changes made by people
  fee,          \* due day, something still owed; no code cancels a fee
  contact,      \* what each guardian has: an account, a phone, an email
  rows,         \* committed tracking rows and their transport status
  sent,         \* how often each message was handed to the transport
  taken,        \* messages the transport accepted
  job           \* each process and the transaction it holds

vars == <<today, deaths, edits, fee, contact, rows, sent, taken, job>>

Reading == {"fees", "balances", "accounts", "others"}
Step == {"idle", "insert", "commit", "send", "report"} \cup Reading

(* reached: stages whose threshold the due date read has passed; todo:     *)
(* rows still to insert; at: the row being inserted; mine: rows inserted;  *)
(* queue: messages to send; clear: fees that were and stay paid since the  *)
(* run began.                                                              *)
JobState ==
  [pc : Step, late : SUBSET Fee, reached : [Fee -> SUBSET REMINDER_STAGES],
   todo : SUBSET Key, at : SUBSET Key, mine : SUBSET Key, queue : SUBSET Key,
   clear : SUBSET Fee]

Resting ==
  [pc |-> "idle", late |-> {}, reached |-> [f \in Fee |-> {}], todo |-> {},
   at |-> {}, mine |-> {}, queue |-> {}, clear |-> {}]

TypeOK ==
  /\ today \in 0 .. MaxDay /\ deaths \in 0 .. MaxEvents /\ edits \in 0 .. MaxEvents
  /\ fee \in [Fee -> [due : 0 .. MaxDay, owed : BOOLEAN]]
  /\ contact \in [Guardian -> SUBSET {"account", "phone", "email"}]
  /\ rows \in [Key -> Status]
  /\ sent \in [Key -> Nat]
  /\ taken \subseteq Key
  /\ job \in [Job -> JobState]

Init ==
  /\ today = 0 /\ deaths = 0 /\ edits = 0
  /\ fee \in [Fee -> [due : {0}, owed : BOOLEAN]]
  /\ contact = FirstContact
  /\ rows = [k \in Key |-> "none"]
  /\ sent = [k \in Key |-> 0]
  /\ taken = {}
  /\ job = [j \in Job |-> Resting]

----------------------------------------------------------------------------
People == <<today, deaths, edits, fee, contact>>
Outbox == <<sent, taken>>

Eligible(f) == fee[f].due < today

(* _next_stage_to_send: the earliest stage that is due and not recorded,   *)
(* as a set of at most one stage.                                          *)
\* Faulty variant: the most advanced stage reached is sent straight away.
LatestStage(reached, already) ==
  {s \in reached \ already : \A r \in reached : r <= s}
\* Faulty variant: whoever received one reminder receives no other.
OneStageOnly(reached, already) ==
  {s \in reached : already = {} /\ \A r \in reached : s <= r}
NextStage(reached, already) ==
  {s \in reached \ already : \A r \in reached \ already : s <= r}

Recorded(c, f, g) ==
  {s \in REMINDER_STAGES : rows[[channel |-> c, fee |-> f, who |-> g, stage |-> s]] # "none"}

(* _route_guardians_without_account: SMS first, email otherwise.           *)
Route(g) ==
  CASE "account" \in contact[g] -> {"app"}
    [] "account" \notin contact[g] /\ SmsEnabled /\ "phone" \in contact[g] -> {"sms"}
    [] OTHER -> {"email"} \cap contact[g]

(* The rows to insert for the channels cs, from the reads made so far.     *)
Wanted(j, cs) ==
  {k \in Key : /\ k.channel \in cs
               /\ k.fee \in job[j].late
               /\ k.channel \in Route(k.who)
               /\ k.stage \in NextStage(job[j].reached[k.fee],
                                        Recorded(k.channel, k.fee, k.who))}

(* Within a fee, notifications first, then SMS, then emails; guardians and *)
(* fees come in the order the database and the sets give.                  *)
Before(k, o) ==
  o.fee = k.fee => \/ k.channel = "app" \/ k.channel = o.channel
                   \/ k.channel = "sms" /\ o.channel = "email"
Following(todo) == {k \in todo : \A o \in todo : Before(k, o)}

(* The transaction goes on with a next row, or commits when none is left.  *)
Onward(j, s) ==
  IF s.todo = {} THEN job' = [job EXCEPT ![j] = [s EXCEPT !.at = {}, !.pc = "commit"]]
  ELSE \E k \in Following(s.todo) :
         job' = [job EXCEPT ![j] = [s EXCEPT !.at = {k}, !.todo = @ \ {k}, !.pc = "insert"]]

----------------------------------------------------------------------------
Start(j) ==
  /\ job[j].pc = "idle"
  /\ job' = [job EXCEPT ![j] = [Resting EXCEPT !.pc = "fees",
                                 !.clear = {f \in Fee : ~fee[f].owed}]]
  /\ UNCHANGED <<People, rows, Outbox>>

ReadFees(j) ==
  /\ job[j].pc = "fees"
  /\ LET late == {f \in Fee : Eligible(f)} IN
     job' = [job EXCEPT ![j] =
       [@ EXCEPT !.pc = "balances", !.late = late,
                 !.reached = [f \in Fee |->
                   {s \in REMINDER_STAGES : f \in late /\ today - fee[f].due >= Threshold[s]}]]]
  /\ UNCHANGED <<People, rows, Outbox>>

\* Faulty variant: the balance is not looked at.
ReadNoBalances(j) ==
  /\ job[j].pc = "balances"
  /\ job' = [job EXCEPT ![j].pc = IF job[j].late = {} THEN "commit" ELSE "accounts"]
  /\ UNCHANGED <<People, rows, Outbox>>

ReadBalances(j) ==
  /\ job[j].pc = "balances"
  /\ LET late == {f \in job[j].late : fee[f].owed} IN
     job' = [job EXCEPT ![j] = [@ EXCEPT !.late = late,
                                 !.pc = IF late = {} THEN "commit" ELSE "accounts"]]
  /\ UNCHANGED <<People, rows, Outbox>>

(* The guardians with an account, and the notifications they already have. *)
ReadAccounts(j) ==
  /\ job[j].pc = "accounts"
  /\ job' = [job EXCEPT ![j] = [@ EXCEPT !.pc = "others", !.todo = Wanted(j, {"app"})]]
  /\ UNCHANGED <<People, rows, Outbox>>

(* The guardians without one, and the SMS and emails already recorded.     *)
ReadOthers(j) ==
  /\ job[j].pc = "others"
  /\ Onward(j, [job[j] EXCEPT !.todo = @ \cup Wanted(j, Network),
                               !.late = {}, !.reached = Resting.reached])
  /\ UNCHANGED <<People, rows, Outbox>>

(* Rows of other transactions in progress: their unique key makes an       *)
(* insert of the same row wait for them.                                   *)
HeldByOthers(j) == UNION {job[i].mine : i \in {i \in Job \ {j} : job[i].pc \in {"insert", "commit"}}}
Waiting(j) == job[j].pc = "insert" /\ job[j].at \cap HeldByOthers(j) # {}

\* Faulty variant: a row that already exists is sent all the same.
InsertKept(j) ==
  /\ job[j].pc = "insert"
  /\ ~Waiting(j)
  /\ Onward(j, [job[j] EXCEPT !.mine = @ \cup {k \in job[j].at : rows[k] = "none"},
                               !.queue = @ \cup {k \in job[j].at : k.channel \in Network}])
  /\ UNCHANGED <<People, rows, Outbox>>

(* One row under its SAVEPOINT; a row that exists by now is left out.      *)
Insert(j) ==
  /\ job[j].pc = "insert"
  /\ ~Waiting(j)
  /\ LET new == {k \in job[j].at : rows[k] = "none"} IN
     Onward(j, [job[j] EXCEPT !.mine = @ \cup new,
                               !.queue = @ \cup {k \in new : k.channel \in Network}])
  /\ UNCHANGED <<People, rows, Outbox>>

(* Two runs that insert the same rows in different orders wait for each    *)
(* other; PostgreSQL aborts one, whose process ends having sent nothing.   *)
Deadlocked(j) ==
  /\ Waiting(j)
  /\ \E i \in Job \ {j} : /\ job[j].at \cap job[i].mine # {}
                          /\ Waiting(i) /\ job[i].at \cap job[j].mine # {}
\* Faulty variant: the aborted run goes on to send what it had prepared.
AbortAndSend(j) ==
  /\ Deadlocked(j)
  /\ job' = [job EXCEPT ![j] = [@ EXCEPT !.todo = {}, !.at = {}, !.mine = {}, !.pc = "send"]]
  /\ UNCHANGED <<People, rows, Outbox>>
Abort(j) ==
  /\ Deadlocked(j)
  /\ job' = [job EXCEPT ![j] = Resting]
  /\ UNCHANGED <<People, rows, Outbox>>

Commit(j) ==
  /\ job[j].pc = "commit"
  /\ rows' = [k \in Key |-> IF k \notin job[j].mine THEN rows[k]
                            ELSE IF k.channel = "app" THEN "CREATED" ELSE "ATTEMPTED"]
  /\ job' = [job EXCEPT ![j] =
       IF job[j].queue = {} THEN Resting ELSE [@ EXCEPT !.pc = "send", !.late = {}, !.clear = {}]]
  /\ UNCHANGED <<People, Outbox>>

(* Emails first, then SMS, one at a time; the transport accepts the        *)
(* message or does not, and never raises.                                  *)
FirstToSend(j) ==
  {k \in job[j].queue : k.channel = "email" \/ \A o \in job[j].queue : o.channel = "sms"}
Send(j) ==
  /\ job[j].pc = "send"
  /\ \E k \in FirstToSend(j), accepted \in BOOLEAN :
       /\ sent' = [sent EXCEPT ![k] = @ + 1]
       /\ taken' = IF accepted THEN taken \cup {k} ELSE taken
       /\ job' = [job EXCEPT ![j].pc = "report", ![j].at = {k}]
  /\ UNCHANGED <<People, rows>>

\* Faulty variant: a status that no reader of the row knows.
OutcomeUnknown(k) == IF k \in taken THEN "DELIVERED" ELSE "TRANSPORT_FAILED"
Outcome(k) == IF k \in taken THEN "TRANSPORT_ACCEPTED" ELSE "TRANSPORT_FAILED"
Unqueued(j) ==
  LET left == job[j].queue \ job[j].at IN
  IF left = {} THEN Resting ELSE [job[j] EXCEPT !.pc = "send", !.queue = left, !.at = {}]

(* The platform-wide context is set again, for it ends with each commit,   *)
(* and the row takes the outcome of its message.                           *)
\* Faulty variant: the context is set once, before the first message: the
\* updates after the first commit touch no row.
ReportInContextOnce(j) ==
  /\ job[j].pc = "report"
  /\ rows' = [k \in Key |->
       IF k \in job[j].at /\ job[j].queue = {q \in job[j].mine : q.channel \in Network}
       THEN Outcome(k) ELSE rows[k]]
  /\ job' = [job EXCEPT ![j] = Unqueued(j)]
  /\ UNCHANGED <<People, Outbox>>
\* Faulty variant: whatever was handed over is reported as accepted.
ReportAccepted(j) ==
  /\ job[j].pc = "report"
  /\ rows' = [k \in Key |-> IF k \in job[j].at THEN "TRANSPORT_ACCEPTED" ELSE rows[k]]
  /\ job' = [job EXCEPT ![j] = Unqueued(j)]
  /\ UNCHANGED <<People, Outbox>>
Report(j) ==
  /\ job[j].pc = "report"
  /\ rows' = [k \in Key |-> IF k \in job[j].at THEN Outcome(k) ELSE rows[k]]
  /\ job' = [job EXCEPT ![j] = Unqueued(j)]
  /\ UNCHANGED <<People, Outbox>>

(* The process dies; an open transaction is rolled back.                   *)
Crash(j) ==
  /\ job[j].pc # "idle"
  /\ deaths + edits < MaxEvents
  /\ deaths' = deaths + 1
  /\ job' = [job EXCEPT ![j] = Resting]
  /\ UNCHANGED <<today, edits, fee, contact, rows, Outbox>>

----------------------------------------------------------------------------
NextDay ==
  /\ today < MaxDay
  /\ today' = today + 1
  /\ UNCHANGED <<deaths, edits, fee, contact, rows, Outbox, job>>

Edit == deaths + edits < MaxEvents /\ edits' = edits + 1

(* A fee is paid, a payment of it is cancelled, its amount is adjusted, or *)
(* its due date is moved.                                                  *)
ChangeFee(f, row) ==
  /\ Edit
  /\ fee[f] # row
  /\ fee' = [fee EXCEPT ![f] = row]
  /\ job' = [j \in Job |-> [job[j] EXCEPT !.clear =
       IF row.owed THEN @ \ {f} ELSE @]]
  /\ UNCHANGED <<today, deaths, contact, rows, Outbox>>
Settle(f) == ChangeFee(f, [fee[f] EXCEPT !.owed = FALSE])
Unsettle(f) == ChangeFee(f, [fee[f] EXCEPT !.owed = TRUE])
MoveDueDate(f, d) == ChangeFee(f, [fee[f] EXCEPT !.due = d])

(* A guardian gets or loses an account, a phone number, an email.          *)
ChangeContact(g, what) ==
  /\ Edit
  /\ contact' = [contact EXCEPT ![g] = (@ \ {what}) \cup ({what} \ @)]
  /\ UNCHANGED <<today, deaths, fee, rows, Outbox, job>>

----------------------------------------------------------------------------
(* list_overdue_fees, the staff's report: it writes nothing and reads the  *)
(* rows that the job leaves behind, of every channel at once.              *)
Listed == {f \in Fee : fee[f].due < today /\ fee[f].owed}

(* The furthest row of a guardian on one channel, as a set of at most one; *)
(* a notification is looked up by the account the guardian has now.        *)
Furthest(c, f, g) ==
  LET own == IF c = "app" /\ "account" \notin contact[g] THEN {} ELSE Recorded(c, f, g) IN
  {[channel |-> c, fee |-> f, who |-> g, stage |-> s] :
     s \in {s \in own : \A r \in own : r <= s}}

(* What the report has so far, replaced by an entry that is further.       *)
\* Faulty variant: what was found first stays.
KeepFirst(shown, entry) == IF shown = {} THEN entry ELSE shown
Override(shown, entry) ==
  IF \A e \in entry, s \in shown : e.stage > s.stage
  THEN IF entry = {} THEN shown ELSE entry ELSE shown

(* Notifications, then emails, then SMS: the entry that dates the contact, *)
(* and the status of every channel.                                        *)
Contact(f, g) ==
  [latest |-> Override(Override(Furthest("app", f, g), Furthest("email", f, g)),
                       Furthest("sms", f, g)),
   statuses |-> {<<k, rows[k]>> : k \in UNION {Furthest(c, f, g) : c \in Channel}}]

StageShown(f, g) ==
  IF Contact(f, g).latest = {} THEN 0 ELSE (CHOOSE k \in Contact(f, g).latest : TRUE).stage

----------------------------------------------------------------------------
Run(j) ==
  \/ Start(j) \/ ReadFees(j) \/ ReadBalances(j) \/ ReadAccounts(j)
  \/ ReadOthers(j) \/ Insert(j) \/ Abort(j) \/ Commit(j) \/ Send(j) \/ Report(j)

Environment ==
  \/ NextDay
  \/ \E f \in Fee : Settle(f) \/ Unsettle(f)
  \/ \E f \in Fee, d \in 0 .. MaxDay : MoveDueDate(f, d)
  \/ \E g \in Guardian, what \in {"account", "phone", "email"} : ChangeContact(g, what)

Next ==
  \/ \E j \in Job : Run(j) \/ Crash(j)
  \/ Environment

Spec == Init /\ [][Next]_vars

(* The timer starts the job again and again and a started run goes on.     *)
(* When a transaction is aborted the one waiting for it gets its row, well *)
(* before a new run has read its way back to that row: a last insert that  *)
(* becomes possible again and again is made.                               *)
FairSpec ==
  /\ Spec
  /\ \A j \in Job : WF_vars(Run(j)) /\ SF_vars(Insert(j) /\ job[j].todo = {})

----------------------------------------------------------------------------
(* Each channel tells a guardian of a fee J0, then J7, then J30: a later   *)
(* stage is never recorded before an earlier one, whatever overlapping     *)
(* runs read and wrote, and however the due date moved in between.         *)
StagesInOrder ==
  \A k \in Key : rows[k] # "none" =>
    \A s \in REMINDER_STAGES : s < k.stage => rows[[k EXCEPT !.stage = s]] # "none"

(* No message leaves twice, and none leaves that the database does not     *)
(* remember: overlapping runs, an aborted one and a process that dies      *)
(* between the commit and the report send no message again.                *)
SentOnce ==
  \A k \in Key : sent[k] <= 1 /\ (sent[k] = 1 => rows[k] # "none")

(* A row never says more than the transport did: accepted and refused are  *)
(* what happened to the one message sent; what a dead process left unsent  *)
(* or unreported stays ATTEMPTED.                                          *)
StatusIsTrue ==
  \A k \in Key :
    /\ rows[k] = "TRANSPORT_ACCEPTED" => sent[k] = 1 /\ k \in taken
    /\ rows[k] = "TRANSPORT_FAILED" => sent[k] = 1 /\ k \notin taken

(* A fee that was paid when the run began, and still is, gets no reminder, *)
(* although fees and balances are read one after the other.                *)
SettledLeftAlone ==
  \A j \in Job : \A k \in job[j].mine \cup job[j].todo : k.fee \notin job[j].clear

(* A run that ends by itself leaves none of its own messages ATTEMPTED:    *)
(* the report of each one reaches its row.                                 *)
RunReportsAll ==
  [][\A j \in Job :
       job[j].pc = "report" /\ job'[j].pc = "idle" /\ deaths' = deaths
         => \A k \in job[j].mine : rows'[k] # "ATTEMPTED"]_vars

(* The right people are reminded at the right stage: later stages follow   *)
(* earlier ones, and a fee found paid is left alone, although every        *)
(* reading of a run may be out of date when it writes.                     *)
RemindersAreDue == StagesInOrder /\ SettledLeftAlone

(* Messages and rows tell the same story: at most one message for a row,   *)
(* with the outcome it had, reported before a run ends.                    *)
MessagesAccountedFor == []SentOnce /\ []StatusIsTrue /\ RunReportsAll

(* The report never goes back on what it told the staff: the stage of a    *)
(* guardian falls only when the account the notifications belong to goes,  *)
(* although the channel changes and each one starts again at J0; and an    *)
(* outcome shown is final.                                                 *)
ReportNeverGoesBack ==
  [][\A f \in Listed \cap Listed', g \in Guardian :
       ("account" \in contact[g] => "account" \in contact'[g])
         => /\ StageShown(f, g)' >= StageShown(f, g)
            /\ \A p \in Contact(f, g).statuses, q \in Contact(f, g).statuses' :
                 p[1] = q[1] => p[2] = q[2] \/ p[2] = "ATTEMPTED"]_vars

(* Once people stop making changes and time stands still, every guardian   *)
(* of every overdue fee has been told every stage reached, on the channel  *)
(* that reaches them, one stage a run: no deadlock, no crash and no refused*)
(* message stops the progression for good.                                 *)
CaughtUp ==
  \A f \in Fee, g \in Guardian : Eligible(f) /\ fee[f].owed =>
    \A c \in Route(g) : \A s \in REMINDER_STAGES :
      today - fee[f].due >= Threshold[s] => s \in Recorded(c, f, g)
EveryStageReached == <>[]CaughtUp

=============================================================================
