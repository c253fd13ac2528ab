----------------------------- MODULE ReportCards -----------------------------
(***************************************************************************)
(* Marks, averages, ranks and report cards of one class and one term, at   *)
(* the level of the database transactions of the API (modules/grades,      *)
(* modules/report_cards).                                                  *)
(*                                                                         *)
(* A worker is one HTTP request: a READ COMMITTED transaction and the      *)
(* SQLAlchemy session in front of it.  The session matters as much as the  *)
(* database: a SELECT does not overwrite what the session already holds,   *)
(* and a flush writes only the columns that differ from what was loaded.   *)
(* A request that is refused changes nothing and is not a step.            *)
(***************************************************************************)
EXTENDS ClassAverages

CONSTANTS
  Worker,       \* requests that can be in progress at the same time
  Director,     \* the workers that generate and publish report cards
  Marks,        \* the assessments each worker submits marks for
  Remarkable,   \* the subjects each worker writes appreciations for
  Score,        \* the scores that are given
  Remark,       \* the appreciations that are written
  MaxRequests   \* bound on the number of requests

ASSUME RequestAssumption ==
  /\ Director \subseteq Worker
  /\ Marks \in [Worker -> SUBSET Assessment]
  /\ Remarkable \in [Worker -> SUBSET Subject]
  /\ Score \subseteq Nat
  /\ Remark \cap Empty = {}
  /\ MaxRequests \in Nat

VARIABLES
  stored,     \* the committed cells of results and averages
  cards,      \* the report card of each student
  announced,  \* in-app announcements made for each student's card
  asked,      \* requests so far
  pc,         \* next statement of each worker
  req,        \* the request each worker serves
  mem,        \* the cells the session of each worker holds
  todo,       \* the cells it will flush next
  dirty,      \* the cells it flushed, whose rows it keeps locked
  draft       \* what a director read about each student

vars == <<stored, cards, announced, asked, pc, req, mem, todo, dirty, draft>>

-----------------------------------------------------------------------------
(* Rows and requests                                                       *)

Columns(h) == IF h = General THEN {"average", "rank"}
              ELSE {"average", "rank", "appreciation"}
AverageCells(h, S) == {<<"average", h, s>> : s \in S}
RowCells(h, S) == {<<col, h, s>> : col \in Columns(h), s \in S}
ScoreCells(a, S) == {<<"score", a, s>> : s \in S}
Cell == (UNION {RowCells(h, Student) : h \in Heading})
          \cup (UNION {ScoreCells(a, Student) : a \in Assessment})
Value == Int \cup Empty \cup Remark
Rows(C) == {<<c[2], c[3]>> : c \in C}
NoCells == [c \in {} |-> None]
NothingRead == [s \in {} |-> None]

NoPdf == [path |-> 0, average |-> None, rank |-> None]
NoCard == [status |-> "NONE", published |-> FALSE, pdf |-> NoPdf,
           average |-> None, rank |-> None]
Pdf == [path : Nat, average : Int \cup {None}, rank : Int \cup {None}]
\* published: published_at is set.
ReportCard == [status : {"NONE", "DRAFT", "PUBLISHED"}, published : BOOLEAN,
               pdf : Pdf, average : Int \cup {None}, rank : Int \cup {None}]
\* What the generation of one student's card read; was: the card it loaded.
Draft == [was : ReportCard, average : Int \cup {None}, rank : Int \cup {None}]

SubmitPc == {"submit-marks", "submit-averages", "submit-subject",
             "submit-ranks", "submit-general", "submit-term", "submit-commit"}
Pc == SubmitPc \cup {"idle", "remark", "generate", "publish"}
NoReq == [op |-> "none"]

-----------------------------------------------------------------------------
(* The session and the database                                            *)

\* A SELECT of the cells C by a session that holds m.
Loaded(m, C) == [c \in DOMAIN m \cup C |->
  IF c \in DOMAIN m /\ m[c] # Missing THEN m[c] ELSE stored[c]]

\* The cells of new that a flush would write.
Changes(m, new) == [c \in {x \in DOMAIN new : m[x] # new[x]} |-> new[c]]

\* What the session holds, and what its transaction sees, after a flush.
Flushed(w) == [c \in DOMAIN mem[w] \cup DOMAIN todo[w] |->
  IF c \in DOMAIN todo[w] THEN todo[w][c] ELSE mem[w][c]]
Written(w) == dirty[w] \cup DOMAIN todo[w]
InColumn(c, v) == IF c[1] = "average" THEN RoundedToCent(v) ELSE v
Table(w) == [c \in Cell |->
  IF c \in Written(w) THEN InColumn(c, Flushed(w)[c]) ELSE stored[c]]

\* A row another transaction wrote makes the flush wait; a row that someone
\* else inserted since makes it fail.
CanFlush(w) ==
  /\ \A v \in Worker \ {w} : Rows(DOMAIN todo[w]) \cap Rows(dirty[v]) = {}
  /\ \A c \in DOMAIN todo[w] : mem[w][c] = Missing => stored[c] = Missing

\* Faulty variant: a row that exists keeps its average.
UpsertInsertOnly(m, h, average) ==
  [c \in {x \in RowCells(h, {y[3] : y \in DOMAIN average}) : m[x] = Missing} |->
     IF c[1] = "average" THEN average[c] ELSE None]

\* The rows of heading h whose average is computed: insert or update.
Upsert(m, h, average) ==
  [c \in {x \in RowCells(h, {y[3] : y \in DOMAIN average}) :
            \/ m[x] = Missing
            \/ x[1] = "average" /\ m[x] # average[x]} |->
     IF c[1] = "average" THEN average[c] ELSE None]

Init ==
  /\ stored = [c \in Cell |-> Missing]
  /\ cards = [s \in Student |-> NoCard]
  /\ announced = [s \in Student |-> 0]
  /\ asked = 0
  /\ pc = [w \in Worker |-> "idle"]
  /\ req = [w \in Worker |-> NoReq]
  /\ mem = [w \in Worker |-> NoCells]
  /\ todo = [w \in Worker |-> NoCells]
  /\ dirty = [w \in Worker |-> {}]
  /\ draft = [w \in Worker |-> NothingRead]

\* A statement of a transaction that goes on.
Step(w, label, m, t, d) ==
  /\ pc' = [pc EXCEPT ![w] = label]
  /\ mem' = [mem EXCEPT ![w] = m]
  /\ todo' = [todo EXCEPT ![w] = t]
  /\ dirty' = [dirty EXCEPT ![w] = d]
  /\ UNCHANGED <<stored, cards, announced, draft>>

\* The end of the request, with its session and its locks.
Finish(w) ==
  /\ pc' = [pc EXCEPT ![w] = "idle"]
  /\ req' = [req EXCEPT ![w] = NoReq]
  /\ mem' = [mem EXCEPT ![w] = NoCells]
  /\ todo' = [todo EXCEPT ![w] = NoCells]
  /\ dirty' = [dirty EXCEPT ![w] = {}]
  /\ draft' = [draft EXCEPT ![w] = NothingRead]
  /\ UNCHANGED asked

\* A rollback: a failing statement, a stopped process, a deadlock victim.
Abort(w) ==
  /\ pc[w] # "idle"
  /\ Finish(w)
  /\ UNCHANGED <<stored, cards, announced>>

\* A request starts.
Ask(w, r) ==
  /\ pc[w] = "idle"
  /\ asked < MaxRequests
  /\ asked' = asked + 1
  /\ req' = [req EXCEPT ![w] = r]

-----------------------------------------------------------------------------
(* submit_results, update_result: apply_results_and_recompute              *)

Published(S) == \E s \in S : cards[s].published

Batch(w) == DOMAIN req[w].marks
TaughtIn(w) == SubjectOf[req[w].assessment]

\* Faulty variant: marks are accepted whatever the report cards are.
BeginSubmitUnchecked(w) ==
  \E a \in Marks[w], S \in SUBSET Student \ {{}} :
    \E marks \in [S -> Score \cup {None}] :
      LET m == Loaded(NoCells, ScoreCells(a, S))
          entered == [c \in ScoreCells(a, S) |-> marks[c[3]]]
      IN /\ Ask(w, [op |-> "submit", assessment |-> a, marks |-> marks])
         /\ Step(w, "submit-marks", m, Changes(m, entered), {})

\* ensure_report_card_not_published, a plain SELECT, and the marks on record.
\* A mark of None is an absence or no score.
BeginSubmit(w) ==
  \E a \in Marks[w], S \in SUBSET Student \ {{}} :
    \E marks \in [S -> Score \cup {None}] :
      LET m == Loaded(NoCells, ScoreCells(a, S))
          entered == [c \in ScoreCells(a, S) |-> marks[c[3]]]
      IN /\ ~ Published(S)
         /\ Ask(w, [op |-> "submit", assessment |-> a, marks |-> marks])
         /\ Step(w, "submit-marks", m, Changes(m, entered), {})

\* The marks are flushed and recompute_subject_averages reads the results.
SubmitMarks(w) ==
  /\ pc[w] = "submit-marks"
  /\ CanFlush(w)
  /\ Step(w, "submit-averages", Flushed(w),
          [c \in AverageCells(TaughtIn(w), Batch(w)) |->
             SubjectAverage(Table(w), TaughtIn(w), c[3])],
          Written(w))
  /\ UNCHANGED <<asked, req>>

\* It reads the average rows that exist.
SubmitAverages(w) ==
  /\ pc[w] = "submit-averages"
  /\ LET m == Loaded(mem[w], RowCells(TaughtIn(w), Batch(w)))
     IN Step(w, "submit-subject", m, Upsert(m, TaughtIn(w), todo[w]), dirty[w])
  /\ UNCHANGED <<asked, req>>

\* A flush, then the ranks of every average row of heading h.
RankStep(w, h, label) ==
  /\ CanFlush(w)
  /\ LET table == Table(w)
         ranked == {s \in Student : table[<<"average", h, s>>] # Missing}
         m == Loaded(Flushed(w), RowCells(h, ranked))
         average == [s \in ranked |-> m[<<"average", h, s>>]]
     IN \E order \in SortedByAverage(table, h, ranked) :
          Step(w, label, m, Changes(m, RanksOf(order, average, h)), Written(w))
  /\ UNCHANGED <<asked, req>>

SubmitSubject(w) ==
  /\ pc[w] = "submit-subject"
  /\ RankStep(w, TaughtIn(w), "submit-ranks")

\* The ranks are flushed and recompute_term_averages reads the term rows.
SubmitRanks(w) ==
  /\ pc[w] = "submit-ranks"
  /\ CanFlush(w)
  /\ Step(w, "submit-general",
          Loaded(Flushed(w), RowCells(General, Batch(w))), NoCells, Written(w))
  /\ UNCHANGED <<asked, req>>

\* Faulty variant: it reads the averages as they were before the request.
SubmitGeneralBefore(w) ==
  /\ pc[w] = "submit-general"
  /\ LET average == [c \in AverageCells(General, Batch(w)) |-> GeneralAverage(stored, c[3])]
     IN Step(w, "submit-term", mem[w], Upsert(mem[w], General, average), dirty[w])
  /\ UNCHANGED <<asked, req>>

\* It reads the subject averages of the students of the batch.
SubmitGeneral(w) ==
  /\ pc[w] = "submit-general"
  /\ LET m == Loaded(mem[w], UNION {AverageCells(h, Batch(w)) : h \in Subject})
         average == [c \in AverageCells(General, Batch(w)) |-> GeneralAverage(m, c[3])]
     IN Step(w, "submit-term", m, Upsert(m, General, average), dirty[w])
  /\ UNCHANGED <<asked, req>>

\* Faulty variant: the general ranks are left as they were.
SubmitTermNoRanks(w) ==
  /\ pc[w] = "submit-term"
  /\ CanFlush(w)
  /\ Step(w, "submit-commit", Flushed(w), NoCells, Written(w))
  /\ UNCHANGED <<asked, req>>

SubmitTerm(w) ==
  /\ pc[w] = "submit-term"
  /\ RankStep(w, General, "submit-commit")

\* Faulty variant: everything the session holds is written back.
SubmitCommitAll(w) ==
  /\ pc[w] = "submit-commit"
  /\ CanFlush(w)
  /\ stored' = [c \in Cell |->
       IF c \in DOMAIN Flushed(w) /\ Flushed(w)[c] # Missing
       THEN InColumn(c, Flushed(w)[c]) ELSE stored[c]]
  /\ Finish(w)
  /\ UNCHANGED <<cards, announced>>

SubmitCommit(w) ==
  /\ pc[w] = "submit-commit"
  /\ CanFlush(w)
  /\ stored' = Table(w)
  /\ Finish(w)
  /\ UNCHANGED <<cards, announced>>

-----------------------------------------------------------------------------
(* update_subject_average_appreciation                                     *)

BeginRemark(w) ==
  \E h \in Remarkable[w], s \in Student, text \in Remark \cup {None} :
    LET cell == <<"appreciation", h, s>>
        m == Loaded(NoCells, {cell})
    IN /\ stored[cell] # Missing
       /\ ~ Published({s})
       /\ Ask(w, [op |-> "remark", subject |-> h, student |-> s, text |-> text])
       /\ Step(w, "remark", m, Changes(m, [c \in {cell} |-> text]), {})

RemarkCommit(w) ==
  /\ pc[w] = "remark"
  /\ CanFlush(w)
  /\ stored' = Table(w)
  /\ Finish(w)
  /\ UNCHANGED <<cards, announced>>

-----------------------------------------------------------------------------
(* generate_report_cards_for_class, publish_report_card                    *)

\* Faulty variant: a student without an average is not told apart.
ClearedNever(x) == x

Cleared(x) == IF x = Missing THEN None ELSE x
ReadBy(s) == [was |-> cards[s],
              average |-> Cleared(stored[<<"average", General, s>>]),
              rank |-> Cleared(stored[<<"rank", General, s>>])]

\* The cards a generation has flushed; the one it read last is still pending.
HeldCards(w) ==
  IF pc[w] = "generate" THEN DOMAIN draft[w] \ {req[w].last} ELSE {}

\* The row of the card of s can be written: inserted if it was not there when
\* it was read, which fails if someone else inserted it since, or updated.
CanFlushCard(w, s) ==
  /\ \A v \in Worker \ {w} : s \notin HeldCards(v)
  /\ draft[w][s].was.status = "NONE" => cards[s].status = "NONE"

BeginGenerate(w) ==
  /\ w \in Director
  /\ Ask(w, [op |-> "generate", path |-> asked + 1, last |-> None])
  /\ pc' = [pc EXCEPT ![w] = "generate"]
  /\ draft' = [draft EXCEPT ![w] = NothingRead]
  /\ UNCHANGED <<stored, cards, announced, mem, todo, dirty>>

\* One turn of the loop over the enrollments: read, render, upload.  The first
\* query of a turn flushes the card of the turn before.
GenerateStudent(w) ==
  /\ pc[w] = "generate"
  /\ DOMAIN draft[w] # {} => CanFlushCard(w, req[w].last)
  /\ \E s \in Student \ DOMAIN draft[w] :
       /\ draft' = [draft EXCEPT ![w] = [t \in DOMAIN @ \cup {s} |->
                      IF t = s THEN ReadBy(s) ELSE @[t]]]
       /\ req' = [req EXCEPT ![w].last = s]
  /\ UNCHANGED <<stored, cards, announced, asked, pc, mem, todo, dirty>>

\* A column is written only if it differs from what was loaded.
Emit(was, now, new) == IF new # was THEN new ELSE now

FirstCard(d, path) ==
  [status |-> "DRAFT", published |-> FALSE,
   pdf |-> [path |-> path, average |-> d.average, rank |-> d.rank],
   average |-> d.average, rank |-> d.rank]

\* Faulty variant: the figures of the card stay those of the first PDF.
RefilledPdfOnly(now, d, path) ==
  [now EXCEPT !.pdf = [path |-> path, average |-> d.average, rank |-> d.rank]]

Refilled(now, d, path) ==
  [now EXCEPT !.pdf = [path |-> path, average |-> d.average, rank |-> d.rank],
              !.average = Emit(d.was.average, @, d.average),
              !.rank = Emit(d.was.rank, @, d.rank)]

\* Faulty variants: the regenerated card keeps its status, or its date.
RegeneratedKeepingStatus(now, d, path) ==
  IF d.was.status = "NONE" THEN FirstCard(d, path) ELSE Refilled(now, d, path)
RegeneratedKeepingDate(now, d, path) ==
  IF d.was.status = "NONE" THEN FirstCard(d, path)
  ELSE [Refilled(now, d, path) EXCEPT !.status = Emit(d.was.status, @, "DRAFT")]

\* The row of a card whose generation read d, the row being now.
Regenerated(now, d, path) ==
  IF d.was.status = "NONE" THEN FirstCard(d, path)
  ELSE [Refilled(now, d, path) EXCEPT
          !.status = Emit(d.was.status, @, "DRAFT"),
          !.published = Emit(d.was.published, @, FALSE)]

\* The last card is flushed and the cards of the class are committed.
GenerateCommit(w) ==
  /\ pc[w] = "generate"
  /\ DOMAIN draft[w] = Student
  /\ CanFlushCard(w, req[w].last)
  /\ cards' = [s \in Student |-> Regenerated(cards[s], draft[w][s], req[w].path)]
  /\ Finish(w)
  /\ UNCHANGED <<stored, announced>>

\* The request starts by loading the card it publishes.
BeginPublish(w) ==
  /\ w \in Director
  /\ \E s \in Student :
       /\ cards[s].status # "NONE"
       /\ Ask(w, [op |-> "publish", student |-> s])
       /\ draft' = [draft EXCEPT ![w] = [t \in {s} |-> ReadBy(s)]]
  /\ pc' = [pc EXCEPT ![w] = "publish"]
  /\ UNCHANGED <<stored, cards, announced, mem, todo, dirty>>

\* Faulty variant: every publication is announced.
PublishCommitAnnouncing(w) ==
  /\ pc[w] = "publish"
  /\ LET s == req[w].student
         was == draft[w][s].was
     IN /\ CanFlushCard(w, s)
        /\ cards' = [cards EXCEPT
             ![s].status = Emit(was.status, @, "PUBLISHED"),
             ![s].published = TRUE]
        /\ announced' = [announced EXCEPT ![s] = @ + 1]
  /\ Finish(w)
  /\ UNCHANGED stored

\* published_at is a new timestamp each time, so it is always written.
PublishCommit(w) ==
  /\ pc[w] = "publish"
  /\ LET s == req[w].student
         was == draft[w][s].was
     IN /\ CanFlushCard(w, s)
        /\ cards' = [cards EXCEPT
             ![s].status = Emit(was.status, @, "PUBLISHED"),
             ![s].published = TRUE]
        /\ announced' = [announced EXCEPT ![s] = IF was.published THEN @ ELSE @ + 1]
  /\ Finish(w)
  /\ UNCHANGED stored

-----------------------------------------------------------------------------
Submit(w) ==
  \/ BeginSubmit(w) \/ SubmitMarks(w) \/ SubmitAverages(w) \/ SubmitSubject(w)
  \/ SubmitRanks(w) \/ SubmitGeneral(w) \/ SubmitTerm(w) \/ SubmitCommit(w)
Appreciate(w) == BeginRemark(w) \/ RemarkCommit(w)
Direct(w) ==
  \/ BeginGenerate(w) \/ GenerateStudent(w) \/ GenerateCommit(w)
  \/ BeginPublish(w) \/ PublishCommit(w)

Next == \E w \in Worker : Submit(w) \/ Appreciate(w) \/ Direct(w) \/ Abort(w)

Spec == Init /\ [][Next]_vars

-----------------------------------------------------------------------------
(* Properties                                                              *)

\* Every variable keeps its type: what sessions hold and flush are cells of the
\* two tables, and cards are report_cards rows.
TypeOK ==
  /\ stored \in [Cell -> Value]
  /\ cards \in [Student -> ReportCard]
  /\ announced \in [Student -> Nat]
  /\ asked \in 0 .. MaxRequests
  /\ pc \in [Worker -> Pc]
  /\ \A w \in Worker :
       /\ DOMAIN mem[w] \subseteq Cell /\ \A c \in DOMAIN mem[w] : mem[w][c] \in Value
       /\ DOMAIN todo[w] \subseteq Cell /\ \A c \in DOMAIN todo[w] : todo[w][c] \in Value
       /\ dirty[w] \subseteq DOMAIN mem[w]
       /\ DOMAIN draft[w] \subseteq Student /\ \A s \in DOMAIN draft[w] : draft[w][s] \in Draft

\* A student who has a mark in a subject has the average of the marks on record.
SubjectAveragesCurrent ==
  \A h \in Subject, s \in Student :
    LET cell == <<"average", h, s>> IN
    IF stored[cell] = Missing THEN Noted(stored, h, s) = {}
    ELSE stored[cell] = RoundedToCent(SubjectAverage(stored, h, s))

\* The general average is the mean of the subject averages on record, up to the
\* cent lost when it is computed from an average that is not yet rounded.
GeneralAveragesCurrent ==
  \A s \in Student :
    LET kept == stored[<<"average", General, s>>]
        mean == GeneralAverage(stored, s)
    IN IF mean = None THEN kept \in Empty
       ELSE kept # Missing /\ kept # None /\ kept - mean \in -Cent .. Cent

\* A better average on record never has a worse or equal rank.
RanksFollowAverages ==
  \A h \in Heading, s, t \in Student :
    LET average(x) == stored[<<"average", h, x>>]
        rank(x) == stored[<<"rank", h, x>>]
    IN average(s) \notin Empty /\ average(t) \notin Empty
       => /\ rank(s) # None
          /\ average(s) > average(t) => rank(s) < rank(t)

\* _assign_ranks: "les ex aequo partagent le meme rang".
EqualAveragesShareRank ==
  \A h \in Heading, s, t \in Student :
    stored[<<"average", h, s>>] = stored[<<"average", h, t>>]
    => stored[<<"rank", h, s>>] = stored[<<"rank", h, t>>]

\* The verification page of a card shows what its PDF prints.
CardShowsItsPdf ==
  \A s \in Student :
    cards[s].average = cards[s].pdf.average /\ cards[s].rank = cards[s].pdf.rank

\* A card has a publication date exactly when its status says so.
DateMatchesStatus ==
  \A s \in Student : cards[s].published <=> cards[s].status = "PUBLISHED"

\* A step that changes the document of a card leaves it a draft.
RegenerationUnpublishes ==
  [][\A s \in Student :
       cards'[s].pdf # cards[s].pdf => cards'[s].status = "DRAFT"]_vars

\* Families are told once each time a card becomes published, and only then.
AnnouncedOnce ==
  [][\A s \in Student :
       announced'[s] - announced[s]
         = IF ~ cards[s].published /\ cards'[s].published THEN 1 ELSE 0]_vars

\* The marks and appreciations of a student do not change while the card of the
\* student is published.
PublishedMarksFrozen ==
  [][\A s \in Student : cards[s].published =>
       \A c \in Cell : c[1] \in {"score", "appreciation"} /\ c[3] = s
                         => stored'[c] = stored[c]]_vars

=============================================================================
