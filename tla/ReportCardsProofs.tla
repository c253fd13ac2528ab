-------------------------- MODULE ReportCardsProofs --------------------------
(***************************************************************************)
(* What the marks and the report cards of a term keep, for any number of   *)
(* students, teachers, subjects, assessments and requests: the types of    *)
(* every session and row, the averages that follow the marks on record,    *)
(* the ranks that follow the averages, the marks that stay as published,   *)
(* and the cards that show what their PDF shows.                           *)
(*                                                                         *)
(* The argument is about what a session has loaded.  A row nobody else     *)
(* writes is still what the session read when it flushes, so the columns   *)
(* it leaves out because they did not change are right: that is what one   *)
(* submitter of a subject, one submitter at a time or one director at a    *)
(* time means in the theorems that suppose it.                             *)
(***************************************************************************)
EXTENDS ReportCards, SumLemmas, TLAPS

OneDirector == \A v, w \in Director : v = w

\* What the director read is what the rows hold.
ReadIsCurrent ==
  \A w \in Worker :
    /\ pc[w] \in {"generate", "publish"} => w \in Director
    /\ pc[w] = "generate" =>
         \A s \in DOMAIN draft[w] : draft[w][s].was = cards[s]
    /\ pc[w] = "publish" =>
         /\ req[w].student \in Student
         /\ draft[w][req[w].student].was = cards[req[w].student]

\* A report_cards row, whatever the figures it shows.
IsCard(c) ==
  /\ c = [status |-> c.status, published |-> c.published, pdf |-> c.pdf,
          average |-> c.average, rank |-> c.rank]
  /\ c.status \in {"NONE", "DRAFT", "PUBLISHED"}
  /\ c.published \in BOOLEAN

Shape ==
  /\ cards = [s \in Student |-> cards[s]]
  /\ \A s \in Student : IsCard(cards[s])
  /\ announced \in [Student -> Nat]
  /\ pc \in [Worker -> Pc]
  /\ req = [w \in Worker |-> req[w]]
  /\ draft = [w \in Worker |-> draft[w]]

CardsInv == Shape /\ ReadIsCurrent /\ DateMatchesStatus /\ CardShowsItsPdf
\* What the three properties say of one step.
GoodStep ==
  /\ \A s \in Student : cards'[s].pdf # cards[s].pdf => cards'[s].status = "DRAFT"
  /\ \A s \in Student :
       announced'[s] - announced[s]
         = IF ~ cards[s].published /\ cards'[s].published THEN 1 ELSE 0

\* Before the first request there is no card.
LEMMA InitCards == Init => CardsInv
<1> SUFFICES ASSUME Init PROVE CardsInv
  OBVIOUS
<1>1. IsCard(NoCard)
  BY DEF NoCard, IsCard
<1>2. Shape
  BY <1>1 DEF Init, Shape, Pc
<1>3. ReadIsCurrent
  BY DEF Init, ReadIsCurrent
<1>4. DateMatchesStatus
  BY DEF Init, DateMatchesStatus, NoCard
<1>5. CardShowsItsPdf
  BY DEF Init, CardShowsItsPdf, NoCard, NoPdf
<1> QED
  BY <1>2, <1>3, <1>4, <1>5 DEF CardsInv

\* A step that leaves the cards alone and moves one worker to a step where it
\* holds nothing it read about them.
LEMMA OtherSteps ==
  ASSUME CardsInv, NEW w \in Worker, NEW label \in Pc \ {"generate", "publish"},
         pc' = [pc EXCEPT ![w] = label], UNCHANGED <<cards, announced>>,
         \/ UNCHANGED req
         \/ \E r : req' = [req EXCEPT ![w] = r],
         \/ UNCHANGED draft
         \/ \E d : draft' = [draft EXCEPT ![w] = d]
  PROVE  CardsInv' /\ GoodStep
<1>1. Shape'
  BY DEF CardsInv, Shape
<1>2. ReadIsCurrent'
  <2> SUFFICES ASSUME NEW v \in Worker
               PROVE  /\ pc'[v] \in {"generate", "publish"} => v \in Director
                      /\ pc'[v] = "generate" =>
                           \A s \in DOMAIN draft'[v] : draft'[v][s].was = cards'[s]
                      /\ pc'[v] = "publish" =>
                           /\ req'[v].student \in Student
                           /\ draft'[v][req'[v].student].was = cards'[req'[v].student]
    BY DEF ReadIsCurrent
  <2>1. CASE v = w
    <3>1. pc'[v] \notin {"generate", "publish"}
      BY <2>1 DEF CardsInv, Shape
    <3> QED
      BY <3>1
  <2>2. CASE v # w
    <3>1. pc'[v] = pc[v] /\ req'[v] = req[v] /\ draft'[v] = draft[v]
      BY <2>2 DEF CardsInv, Shape
    <3> QED
      BY <3>1 DEF CardsInv, ReadIsCurrent
  <2> QED
    BY <2>1, <2>2
<1>3. DateMatchesStatus' /\ CardShowsItsPdf'
  BY DEF CardsInv, DateMatchesStatus, CardShowsItsPdf
<1>4. GoodStep
  BY DEF CardsInv, Shape, GoodStep
<1> QED
  BY <1>1, <1>2, <1>3, <1>4 DEF CardsInv

\* The submissions of marks, the appreciations and the rollbacks.
LEMMA TeacherSteps ==
  ASSUME CardsInv, NEW w \in Worker, Submit(w) \/ Appreciate(w) \/ Abort(w)
  PROVE  CardsInv' /\ GoodStep
<1> DEFINE Moves(label) ==
      /\ pc' = [pc EXCEPT ![w] = label]
      /\ UNCHANGED <<cards, announced>>
      /\ UNCHANGED req \/ \E r : req' = [req EXCEPT ![w] = r]
      /\ UNCHANGED draft \/ \E d : draft' = [draft EXCEPT ![w] = d]
<1>1. ASSUME NEW label, NEW m, NEW t, NEW d, Step(w, label, m, t, d),
             \/ UNCHANGED <<asked, req>>
             \/ \E r : Ask(w, r)
      PROVE  Moves(label)
  BY <1>1 DEF Step, Ask
<1>2. ASSUME Finish(w), UNCHANGED <<cards, announced>>
      PROVE  Moves("idle")
  BY <1>2 DEF Finish
<1>3. CASE Abort(w)
  BY <1>3, <1>2, OtherSteps DEF Abort, Pc
<1>4. CASE BeginSubmit(w)
  <2>1. Moves("submit-marks")
    BY <1>4, <1>1 DEF BeginSubmit
  <2> QED
    BY <2>1, OtherSteps DEF Pc, SubmitPc
<1>5. CASE SubmitMarks(w)
  <2>1. Moves("submit-averages")
    BY <1>5, <1>1 DEF SubmitMarks
  <2> QED
    BY <2>1, OtherSteps DEF Pc, SubmitPc
<1>6. CASE SubmitAverages(w)
  <2>1. Moves("submit-subject")
    BY <1>6, <1>1 DEF SubmitAverages
  <2> QED
    BY <2>1, OtherSteps DEF Pc, SubmitPc
<1>7. CASE SubmitSubject(w)
  <2>1. Moves("submit-ranks")
    BY <1>7, <1>1 DEF SubmitSubject, RankStep
  <2> QED
    BY <2>1, OtherSteps DEF Pc, SubmitPc
<1>8. CASE SubmitRanks(w)
  <2>1. Moves("submit-general")
    BY <1>8, <1>1 DEF SubmitRanks
  <2> QED
    BY <2>1, OtherSteps DEF Pc, SubmitPc
<1>9. CASE SubmitGeneral(w)
  <2>1. Moves("submit-term")
    BY <1>9, <1>1 DEF SubmitGeneral
  <2> QED
    BY <2>1, OtherSteps DEF Pc, SubmitPc
<1>10. CASE SubmitTerm(w)
  <2>1. Moves("submit-commit")
    BY <1>10, <1>1 DEF SubmitTerm, RankStep
  <2> QED
    BY <2>1, OtherSteps DEF Pc, SubmitPc
<1>11. CASE SubmitCommit(w)
  BY <1>11, <1>2, OtherSteps DEF SubmitCommit, Pc
<1>12. CASE BeginRemark(w)
  <2>1. Moves("remark")
    BY <1>12, <1>1 DEF BeginRemark
  <2> QED
    BY <2>1, OtherSteps DEF Pc
<1>13. CASE RemarkCommit(w)
  BY <1>13, <1>2, OtherSteps DEF RemarkCommit, Pc
<1> QED
  BY <1>3, <1>4, <1>5, <1>6, <1>7, <1>8, <1>9, <1>10, <1>11, <1>12, <1>13
     DEF Submit, Appreciate

\* A director's step that only reads.
LEMMA ReadingSteps ==
  ASSUME CardsInv, NEW w \in Worker,
         BeginGenerate(w) \/ GenerateStudent(w) \/ BeginPublish(w)
  PROVE  CardsInv' /\ GoodStep
<1>1. UNCHANGED <<cards, announced>>
  BY DEF BeginGenerate, GenerateStudent, BeginPublish
<1>2. Shape'
  BY <1>1 DEF CardsInv, Shape, BeginGenerate, GenerateStudent, BeginPublish, Ask, Pc
<1>3. DateMatchesStatus' /\ CardShowsItsPdf' /\ GoodStep
  BY <1>1 DEF CardsInv, Shape, DateMatchesStatus, CardShowsItsPdf, GoodStep
<1>4. \A v \in Worker \ {w} :
        pc'[v] = pc[v] /\ req'[v] = req[v] /\ draft'[v] = draft[v]
  BY DEF CardsInv, Shape, BeginGenerate, GenerateStudent, BeginPublish, Ask
<1> DEFINE Current(v) ==
      /\ pc'[v] \in {"generate", "publish"} => v \in Director
      /\ pc'[v] = "generate" =>
           \A s \in DOMAIN draft'[v] : draft'[v][s].was = cards'[s]
      /\ pc'[v] = "publish" =>
           /\ req'[v].student \in Student
           /\ draft'[v][req'[v].student].was = cards'[req'[v].student]
<1>5. \A v \in Worker \ {w} : Current(v)
  BY <1>1, <1>4 DEF CardsInv, ReadIsCurrent
<1>6. CASE BeginGenerate(w)
  <2>1. pc'[w] = "generate" /\ w \in Director /\ DOMAIN draft'[w] = {}
    BY <1>6 DEF BeginGenerate, Ask, CardsInv, Shape, NothingRead
  <2>2. Current(w)
    BY <2>1
  <2> QED
    BY <2>2, <1>2, <1>3, <1>5 DEF CardsInv, ReadIsCurrent
<1>7. CASE GenerateStudent(w)
  <2>1. pc[w] = "generate" /\ pc'[w] = "generate"
    BY <1>7 DEF GenerateStudent
  <2>2. PICK s \in Student :
          draft' = [draft EXCEPT ![w] = [t \in DOMAIN @ \cup {s} |->
                      IF t = s THEN ReadBy(s) ELSE @[t]]]
    BY <1>7 DEF GenerateStudent
  <2>3. draft'[w] = [t \in DOMAIN draft[w] \cup {s} |->
                       IF t = s THEN ReadBy(s) ELSE draft[w][t]]
    BY <2>2 DEF CardsInv, Shape
  <2>4. ReadBy(s).was = cards[s]
    BY DEF ReadBy
  <2>5. Current(w)
    BY <2>1, <2>3, <2>4, <1>1 DEF CardsInv, ReadIsCurrent
  <2> QED
    BY <2>5, <1>2, <1>3, <1>5 DEF CardsInv, ReadIsCurrent
<1>8. CASE BeginPublish(w)
  <2>1. w \in Director /\ pc'[w] = "publish"
    BY <1>8 DEF BeginPublish, CardsInv, Shape
  <2>2. PICK s \in Student :
          /\ Ask(w, [op |-> "publish", student |-> s])
          /\ draft' = [draft EXCEPT ![w] = [t \in {s} |-> ReadBy(s)]]
    BY <1>8 DEF BeginPublish
  <2>3. req'[w].student = s /\ draft'[w][s] = ReadBy(s)
    BY <2>2 DEF Ask, CardsInv, Shape
  <2>4. ReadBy(s).was = cards[s]
    BY DEF ReadBy
  <2>5. Current(w)
    BY <2>1, <2>3, <2>4, <1>1
  <2> QED
    BY <2>5, <1>2, <1>3, <1>5 DEF CardsInv, ReadIsCurrent
<1> QED
  BY <1>6, <1>7, <1>8

\* The only director of the class writes: nobody else had read the cards.
LEMMA NobodyElseRead ==
  ASSUME OneDirector, CardsInv, NEW w \in Worker, Finish(w),
         pc[w] \in {"generate", "publish"}
  PROVE  ReadIsCurrent' /\ pc' \in [Worker -> Pc]
           /\ req' = [v \in Worker |-> req'[v]] /\ draft' = [v \in Worker |-> draft'[v]]
<1>1. w \in Director
  BY DEF CardsInv, ReadIsCurrent
<1>2. \A v \in Worker : pc'[v] \notin {"generate", "publish"}
  <2> SUFFICES ASSUME NEW v \in Worker, v # w
               PROVE  pc'[v] \notin {"generate", "publish"}
    BY DEF Finish, CardsInv, Shape
  <2>1. pc[v] \notin {"generate", "publish"}
    BY <1>1 DEF CardsInv, ReadIsCurrent, OneDirector
  <2> QED
    BY <2>1 DEF Finish, CardsInv, Shape
<1>3. pc' \in [Worker -> Pc]
        /\ req' = [v \in Worker |-> req'[v]] /\ draft' = [v \in Worker |-> draft'[v]]
  BY DEF Finish, CardsInv, Shape, Pc
<1> QED
  BY <1>2, <1>3 DEF ReadIsCurrent

\* What the flush of a card that was read as it is makes of it.
LEMMA RegeneratedCard ==
  ASSUME NEW now, IsCard(now), NEW d, d.was = now, NEW path
  PROVE  LET new == Regenerated(now, d, path)
         IN /\ IsCard(new) /\ new.status = "DRAFT" /\ ~ new.published
            /\ new.average = new.pdf.average /\ new.rank = new.pdf.rank
<1>1. CASE now.status = "NONE"
  BY <1>1 DEF Regenerated, FirstCard, IsCard
<1>2. CASE now.status # "NONE"
  <2> DEFINE pdf == [path |-> path, average |-> d.average, rank |-> d.rank]
             old == Refilled(now, d, path)
  <2>1. Regenerated(now, d, path) = [old EXCEPT !.status = "DRAFT", !.published = FALSE]
    BY <1>2 DEF Regenerated, Refilled, Emit, IsCard
  <2>2. LET new == Regenerated(now, d, path)
        IN IsCard(new) /\ new.status = "DRAFT" /\ ~ new.published
    BY <2>1 DEF Refilled, IsCard
  <2>3. pdf.average = d.average /\ pdf.rank = d.rank
    OBVIOUS
  <2>4. \A x, y : Emit(x, x, y) = y
    BY DEF Emit
  <2>5. old = [now EXCEPT !.pdf = pdf, !.average = d.average, !.rank = d.rank]
    BY <2>4 DEF Refilled
  <2> HIDE DEF pdf
  <2>6. old.pdf = pdf /\ old.average = d.average /\ old.rank = d.rank
    BY <2>5 DEF IsCard
  <2>7. DOMAIN old = {"status", "published", "pdf", "average", "rank"}
    BY <2>5 DEF IsCard
  <2> HIDE DEF old
  <2>8. LET new == Regenerated(now, d, path)
        IN new.pdf = old.pdf /\ new.average = old.average /\ new.rank = old.rank
    BY <2>1, <2>7
  <2> QED
    BY <2>2, <2>3, <2>6, <2>8
<1> QED
  BY <1>1, <1>2

\* The commit of a class.
LEMMA GenerationStep ==
  ASSUME OneDirector, CardsInv, NEW w \in Worker, GenerateCommit(w)
  PROVE  CardsInv' /\ GoodStep
<1>1. Finish(w) /\ pc[w] = "generate" /\ UNCHANGED announced
  BY DEF GenerateCommit
<1>2. /\ cards' = [s \in Student |-> cards'[s]]
      /\ \A s \in Student : cards'[s] = Regenerated(cards[s], draft[w][s], req[w].path)
  BY DEF GenerateCommit
<1>3. \A s \in Student : draft[w][s].was = cards[s]
  BY <1>1 DEF GenerateCommit, CardsInv, ReadIsCurrent
<1>4. \A s \in Student :
        /\ IsCard(cards'[s]) /\ cards'[s].status = "DRAFT" /\ ~ cards'[s].published
        /\ cards'[s].average = cards'[s].pdf.average /\ cards'[s].rank = cards'[s].pdf.rank
  BY <1>2, <1>3, RegeneratedCard DEF CardsInv, Shape
<1>5. Shape' /\ ReadIsCurrent'
  BY <1>1, <1>2, <1>4, NobodyElseRead DEF CardsInv, Shape
<1>6. DateMatchesStatus' /\ CardShowsItsPdf'
  BY <1>4 DEF DateMatchesStatus, CardShowsItsPdf
<1>7. GoodStep
  BY <1>1, <1>4 DEF GoodStep, CardsInv, Shape
<1> QED
  BY <1>5, <1>6, <1>7 DEF CardsInv

\* The commit of a publication.
LEMMA PublicationStep ==
  ASSUME OneDirector, CardsInv, NEW w \in Worker, PublishCommit(w)
  PROVE  CardsInv' /\ GoodStep
<1> DEFINE s == req[w].student
<1>1. Finish(w) /\ pc[w] = "publish"
  BY DEF PublishCommit
<1>2. s \in Student /\ draft[w][s].was = cards[s]
  BY <1>1 DEF CardsInv, ReadIsCurrent
<1>3. IsCard(cards[s])
  BY <1>2 DEF CardsInv, Shape
<1>4. cards' = [cards EXCEPT ![s].status = Emit(cards[s].status, @, "PUBLISHED"),
                             ![s].published = TRUE]
  BY <1>2 DEF PublishCommit
<1>5. cards'[s] = [cards[s] EXCEPT !.status = "PUBLISHED", !.published = TRUE]
  BY <1>2, <1>3, <1>4 DEF Emit, CardsInv, Shape, IsCard
<1>6. /\ IsCard(cards'[s]) /\ cards'[s].pdf = cards[s].pdf
      /\ cards'[s].status = "PUBLISHED" /\ cards'[s].published
      /\ cards'[s].average = cards[s].average /\ cards'[s].rank = cards[s].rank
  BY <1>3, <1>5 DEF IsCard
<1>7. /\ cards' = [t \in Student |-> cards'[t]]
      /\ \A t \in Student \ {s} : cards'[t] = cards[t]
  BY <1>4 DEF CardsInv, Shape
<1>8. announced' = [announced EXCEPT ![s] = IF cards[s].published THEN @ ELSE @ + 1]
  BY <1>2 DEF PublishCommit
<1>9. Shape' /\ ReadIsCurrent'
  BY <1>1, <1>2, <1>6, <1>7, <1>8, NobodyElseRead DEF CardsInv, Shape
<1>10. DateMatchesStatus' /\ CardShowsItsPdf'
  BY <1>2, <1>6, <1>7 DEF CardsInv, DateMatchesStatus, CardShowsItsPdf
<1>11. \A t \in Student : cards'[t].pdf # cards[t].pdf => cards'[t].status = "DRAFT"
  BY <1>6, <1>7
<1>12. \A t \in Student :
         announced'[t] - announced[t]
           = IF ~ cards[t].published /\ cards'[t].published THEN 1 ELSE 0
  BY <1>2, <1>6, <1>7, <1>8 DEF CardsInv, Shape
<1> QED
  BY <1>9, <1>10, <1>11, <1>12 DEF CardsInv, GoodStep

\* Every step of the specification.
LEMMA NextCards ==
  ASSUME OneDirector, CardsInv, [Next]_vars
  PROVE  CardsInv' /\ [GoodStep]_vars
<1>1. CASE UNCHANGED vars
  BY <1>1 DEF vars, CardsInv, Shape, ReadIsCurrent, DateMatchesStatus, CardShowsItsPdf
<1>2. ASSUME NEW w \in Worker, Submit(w) \/ Appreciate(w) \/ Abort(w)
      PROVE  CardsInv' /\ GoodStep
  BY <1>2, TeacherSteps
<1>3. ASSUME NEW w \in Worker, Direct(w)
      PROVE  CardsInv' /\ GoodStep
  BY <1>3, ReadingSteps, GenerationStep, PublicationStep DEF Direct
<1> QED
  BY <1>1, <1>2, <1>3 DEF Next

\* With one director a report card has a publication date exactly when its
\* status says it is published.
THEOREM DatesMatchStatuses ==
  ASSUME OneDirector
  PROVE  Spec => []DateMatchesStatus
<1>1. CardsInv => DateMatchesStatus
  BY DEF CardsInv
<1>2. OneDirector /\ CardsInv /\ [Next]_vars => CardsInv'
  BY NextCards
<1> QED
  BY <1>1, <1>2, InitCards, PTL DEF Spec

\* With one director the verification page of a card shows what its PDF prints,
\* though the flush of a regenerated card leaves out the columns that did not
\* change since they were loaded (generate_report_cards_for_class).
THEOREM CardsShowTheirPdf ==
  ASSUME OneDirector
  PROVE  Spec => []CardShowsItsPdf
<1>1. CardsInv => CardShowsItsPdf
  BY DEF CardsInv
<1>2. OneDirector /\ CardsInv /\ [Next]_vars => CardsInv'
  BY NextCards
<1> QED
  BY <1>1, <1>2, InitCards, PTL DEF Spec

\* With one director a step that changes the document of a card leaves it a
\* draft, whatever was published before.
THEOREM RegenerationsUnpublish ==
  ASSUME OneDirector
  PROVE  Spec => RegenerationUnpublishes
<1>1. OneDirector /\ CardsInv /\ [Next]_vars
        => CardsInv' /\ [\A s \in Student :
             cards'[s].pdf # cards[s].pdf => cards'[s].status = "DRAFT"]_vars
  BY NextCards DEF GoodStep
<1> QED
  BY <1>1, InitCards, PTL DEF Spec, RegenerationUnpublishes

\* With one director families are told once each time a card becomes published.
THEOREM AnnouncementsOnce ==
  ASSUME OneDirector
  PROVE  Spec => AnnouncedOnce
<1>1. OneDirector /\ CardsInv /\ [Next]_vars
        => CardsInv' /\ [\A s \in Student :
             announced'[s] - announced[s]
               = IF ~ cards[s].published /\ cards'[s].published THEN 1 ELSE 0]_vars
  BY NextCards DEF GoodStep
<1> QED
  BY <1>1, InitCards, PTL DEF Spec, AnnouncedOnce

-----------------------------------------------------------------------------
(* The arithmetic of averages and ranks.                                   *)

\* What a cell may hold.
ValueOf(c) == IF c[1] = "appreciation" THEN Remark \cup Empty ELSE Int \cup Empty
Holds(f) == DOMAIN f \subseteq Cell /\ \A c \in DOMAIN f : f[c] \in ValueOf(c)
RankCells(h) == {<<"rank", h, s>> : s \in Student}

\* The cells of a class.
LEMMA CellFacts ==
  /\ \A h \in Heading, s \in Student : <<"average", h, s>> \in Cell /\ <<"rank", h, s>> \in Cell
  /\ \A h \in Subject, s \in Student : <<"appreciation", h, s>> \in Cell
  /\ \A a \in Assessment, s \in Student : <<"score", a, s>> \in Cell
  /\ \A h \in Heading : RowCells(h, Student) \subseteq Cell /\ RankCells(h) \subseteq Cell
  /\ \A a \in Assessment : ScoreCells(a, Student) \subseteq Cell
  /\ \A c \in Cell : \E h, s : /\ s \in Student
                              /\ \/ c = <<"score", h, s>> /\ h \in Assessment
                                 \/ h \in Heading /\ \E col \in Columns(h) : c = <<col, h, s>>
<1>1. ASSUME NEW h \in Heading, NEW s \in Student, NEW col \in Columns(h)
      PROVE  <<col, h, s>> \in RowCells(h, Student) /\ <<col, h, s>> \in Cell
  <2>1. <<col, h, s>> \in RowCells(h, Student)
    BY DEF RowCells
  <2> QED
    BY <2>1 DEF Cell
<1>2. \A h \in Heading : "average" \in Columns(h) /\ "rank" \in Columns(h)
  BY DEF Columns
<1>3. \A h \in Subject : h \in Heading /\ "appreciation" \in Columns(h)
  BY ClassAssumption DEF Columns, Heading
<1>4. ASSUME NEW a \in Assessment, NEW s \in Student
      PROVE  <<"score", a, s>> \in ScoreCells(a, Student) /\ <<"score", a, s>> \in Cell
  <2>1. <<"score", a, s>> \in ScoreCells(a, Student)
    BY DEF ScoreCells
  <2> QED
    BY <2>1 DEF Cell
<1>5. \A h \in Heading : RowCells(h, Student) \subseteq Cell
  BY DEF Cell
<1>6. \A h \in Heading : RankCells(h) \subseteq Cell
  BY <1>1, <1>2 DEF RankCells
<1>7. \A a \in Assessment : ScoreCells(a, Student) \subseteq Cell
  BY DEF Cell
<1>8. ASSUME NEW c \in Cell
      PROVE  \E h, s : /\ s \in Student
                      /\ \/ c = <<"score", h, s>> /\ h \in Assessment
                         \/ h \in Heading /\ \E col \in Columns(h) : c = <<col, h, s>>
  <2>1. CASE \E h \in Heading : c \in RowCells(h, Student)
    BY <2>1 DEF RowCells
  <2>2. CASE \E a \in Assessment : c \in ScoreCells(a, Student)
    BY <2>2 DEF ScoreCells
  <2> QED
    BY <2>1, <2>2 DEF Cell
<1> QED
  BY <1>1, <1>2, <1>3, <1>4, <1>5, <1>6, <1>7, <1>8

LEMMA RowFacts ==
  ASSUME NEW h \in Heading, NEW S \in SUBSET Student
  PROVE  /\ RowCells(h, S) \subseteq Cell /\ AverageCells(h, S) \subseteq RowCells(h, S)
         /\ \A c \in RowCells(h, S) : c[2] = h /\ c[3] \in S /\ c[1] \in Columns(h)
                                      /\ c = <<c[1], c[2], c[3]>>
         /\ \A c \in AverageCells(h, S) : c[3] \in S /\ c = <<"average", h, c[3]>>
         /\ \A s \in S : <<"average", h, s>> \in AverageCells(h, S)
<1>1. RowCells(h, S) \subseteq RowCells(h, Student)
  BY DEF RowCells
<1>2. RowCells(h, Student) \subseteq Cell
  BY CellFacts
<1>3. "average" \in Columns(h)
  BY DEF Columns
<1>4. AverageCells(h, S) \subseteq RowCells(h, S)
  BY <1>3 DEF AverageCells, RowCells
<1>5. \A c \in RowCells(h, S) : c[2] = h /\ c[3] \in S /\ c[1] \in Columns(h) /\ c = <<c[1], c[2], c[3]>>
  BY DEF RowCells
<1>6. \A c \in AverageCells(h, S) : c[3] \in S /\ c = <<"average", h, c[3]>>
  BY DEF AverageCells
<1>7. \A s \in S : <<"average", h, s>> \in AverageCells(h, S)
  BY DEF AverageCells
<1> QED
  BY <1>1, <1>2, <1>4, <1>5, <1>6, <1>7

LEMMA ScoreFacts ==
  ASSUME NEW a \in Assessment, NEW S \in SUBSET Student
  PROVE  /\ ScoreCells(a, S) \subseteq Cell
         /\ \A c \in ScoreCells(a, S) : c[3] \in S /\ c = <<"score", a, c[3]>> /\ c[1] = "score" /\ c[2] = a
         /\ \A s \in S : <<"score", a, s>> \in ScoreCells(a, S)
<1>1. \A s \in S : <<"score", a, s>> \in Cell
  BY CellFacts
<1> QED
  BY <1>1 DEF ScoreCells

\* A mean is a number, or None when there is nothing to average.
LEMMA MeanType ==
  ASSUME NEW S, IsFiniteSet(S), NEW value \in [S -> Int], NEW weight,
         \A x \in S : weight[x] \in Nat \ {0}
  PROVE  /\ WeightedMean(value, weight, S) \in Int \cup {None}
         /\ WeightedMean(value, weight, S) # Missing
         /\ WeightedMean(value, weight, S) = None <=> S = {}
<1>1. CASE S = {}
  BY <1>1, ClassAssumption DEF WeightedMean
<1>2. CASE S # {}
  <2> DEFINE f == [x \in S |-> weight[x] * value[x]]
             g == [x \in S |-> weight[x]]
  <2>1. f \in [S -> Int] /\ g \in [S -> Nat]
    OBVIOUS
  <2> HIDE DEF f
  <2>2. SumFunction(f) \in Int
    BY <2>1, SumType
  <2>3. PICK x \in S : TRUE
    BY <1>2
  <2>4. g[x] <= SumFunction(g) /\ SumFunction(g) \in Nat
    BY <2>1, SumPart, SumNat
  <2>5. g[x] >= 1 /\ g[x] \in Nat
    OBVIOUS
  <2> HIDE DEF g
  <2>6. SumFunction(f) \div SumFunction(g) \in Int
    BY <2>2, <2>4, <2>5
  <2>7. WeightedMean(value, weight, S) = SumFunction(f) \div SumFunction(g)
    BY <1>2 DEF WeightedMean, f, g
  <2> QED
    BY <1>2, <2>6, <2>7, ClassAssumption
<1> QED
  BY <1>1, <1>2

\* A table whose averages and scores are numbers or empty.
Numbers(table) ==
  /\ \A h \in Heading, s \in Student : table[<<"average", h, s>>] \in Int \cup Empty
  /\ \A a \in Assessment, s \in Student : table[<<"score", a, s>>] \in Int \cup Empty

LEMMA SubjectAverageType ==
  ASSUME NEW table, Numbers(table), NEW h \in Subject, NEW s \in Student
  PROVE  SubjectAverage(table, h, s) \in Int \cup {None} /\ SubjectAverage(table, h, s) # Missing
<1> DEFINE noted == Noted(table, h, s)
           outOf20 == [a \in noted |-> (table[<<"score", a, s>>] * TargetScale * Point) \div MaxScore[a]]
<1>1. noted \subseteq Assessment /\ IsFiniteSet(noted)
  BY FS_Subset, ClassAssumption DEF Noted
<1>2. outOf20 \in [noted -> Int]
  <2> SUFFICES ASSUME NEW a \in noted
               PROVE  (table[<<"score", a, s>>] * TargetScale * Point) \div MaxScore[a] \in Int
    OBVIOUS
  <2>1. table[<<"score", a, s>>] \in Int /\ MaxScore[a] \in Nat \ {0}
    BY ClassAssumption DEF Noted, Numbers
  <2>2. table[<<"score", a, s>>] * TargetScale * Point \in Int
    BY <2>1 DEF TargetScale, Point
  <2> QED
    BY <2>1, <2>2
<1>3. \A a \in noted : Weight[a] \in Nat \ {0}
  BY <1>1, ClassAssumption
<1>4. SubjectAverage(table, h, s) = WeightedMean(outOf20, Weight, noted)
  BY DEF SubjectAverage
<1> HIDE DEF noted, outOf20
<1> QED
  BY <1>1, <1>2, <1>3, <1>4, MeanType

LEMMA GeneralAverageType ==
  ASSUME NEW table, NEW s \in Student,
         \A h \in Subject : table[<<"average", h, s>>] \in Int \cup Empty
  PROVE  GeneralAverage(table, s) \in Int \cup {None} /\ GeneralAverage(table, s) # Missing
<1> DEFINE averaged == {h \in Subject : table[<<"average", h, s>>] \notin Empty}
           value == [h \in averaged |-> table[<<"average", h, s>>]]
<1>1. averaged \subseteq Subject /\ IsFiniteSet(averaged)
  BY FS_Subset, ClassAssumption
<1>2. value \in [averaged -> Int]
  OBVIOUS
<1>3. \A h \in averaged : Coefficient[h] \in Nat \ {0}
  BY <1>1, ClassAssumption
<1>4. GeneralAverage(table, s) = WeightedMean(value, Coefficient, averaged)
  BY DEF GeneralAverage
<1> HIDE DEF averaged, value
<1> QED
  BY <1>1, <1>2, <1>3, <1>4, MeanType

\* The rows from the first one to the last one have the same average.
SameFrom(order, average, first, last) ==
  \A k \in first .. last : average[order[k]] = average[order[last]]

\* The rank of a row is the position of the first row of its run of equals.
LEMMA RankOfRow ==
  ASSUME NEW n \in Nat, NEW order, NEW average, NEW i \in 1 .. n, average[order[i]] # None
  PROVE  /\ RankAt(order, average, i) \in 1 .. i
         /\ SameFrom(order, average, RankAt(order, average, i), i)
<1> DEFINE Run(j) == /\ \A k \in j .. i : average[order[k]] = average[order[i]]
                     /\ j > 1 => average[order[j - 1]] # average[order[i]]
           T == {j \in 1 .. i : \A k \in j .. i : average[order[k]] = average[order[i]]}
<1>1. T \in SUBSET Nat /\ i \in T
  OBVIOUS
<1>2. PICK m \in T : \A k \in T : m <= k
  BY <1>1, LeastNatural
<1>3. m \in 1 .. i /\ Run(m)
  <2>1. ASSUME m > 1, average[order[m - 1]] = average[order[i]] PROVE FALSE
    <3>1. m - 1 \in 1 .. i
      BY <1>2, <2>1
    <3>2. \A k \in m - 1 .. i : k = m - 1 \/ k \in m .. i
      BY <1>2
    <3>3. m - 1 \in T
      BY <1>2, <2>1, <3>1, <3>2
    <3> QED
      BY <1>2, <3>1, <3>3
  <2> QED
    BY <1>2, <2>1
<1>4. RankAt(order, average, i) = CHOOSE j \in 1 .. i : Run(j)
  BY DEF RankAt
<1> QED
  BY <1>3, <1>4 DEF SameFrom

-----------------------------------------------------------------------------
(* What a session holds.                                                   *)

\* Cells keep the kind of value they are made for.  What is flushed, or was,
\* is a value: a row that is missing is never written.
SessionShape ==
  /\ stored = [c \in Cell |-> stored[c]] /\ Holds(stored)
  /\ mem = [w \in Worker |-> mem[w]] /\ todo = [w \in Worker |-> todo[w]]
  /\ dirty = [w \in Worker |-> dirty[w]] /\ req = [w \in Worker |-> req[w]]
  /\ draft = [w \in Worker |-> draft[w]]
  /\ pc \in [Worker -> Pc]
  /\ \A w \in Worker :
       /\ Holds(mem[w]) /\ Holds(todo[w]) /\ dirty[w] \subseteq DOMAIN mem[w]
       /\ \A c \in DOMAIN todo[w] : todo[w][c] # Missing
       /\ \A c \in dirty[w] : mem[w][c] # Missing

\* What a step may have flushed and is about to flush.
May(w, label, done, next) ==
  pc[w] = label => dirty[w] \subseteq done /\ DOMAIN todo[w] \subseteq next

Scored(w) == ScoreCells(req[w].assessment, Batch(w))
SubjectRows(w) == RowCells(TaughtIn(w), Batch(w))
SubjectDone(w) == Scored(w) \cup SubjectRows(w) \cup RankCells(TaughtIn(w))
TermRows(w) == RowCells(General, Batch(w))

Flushing(w) ==
  /\ May(w, "idle", {}, {}) /\ May(w, "generate", {}, {}) /\ May(w, "publish", {}, {})
  /\ May(w, "submit-marks", {}, Scored(w))
  /\ May(w, "submit-averages", Scored(w), AverageCells(TaughtIn(w), Batch(w)))
  /\ May(w, "submit-subject", Scored(w), SubjectRows(w))
  /\ May(w, "submit-ranks", Scored(w) \cup SubjectRows(w), RankCells(TaughtIn(w)))
  /\ May(w, "submit-general", SubjectDone(w), {})
  /\ May(w, "submit-term", SubjectDone(w), TermRows(w))
  /\ May(w, "submit-commit", SubjectDone(w) \cup TermRows(w), RankCells(General))
  /\ May(w, "remark", {}, {<<"appreciation", req[w].subject, req[w].student>>})

\* The request of a worker, as far as marks go.
Requested(w) ==
  /\ pc[w] \in SubmitPc => /\ req[w].assessment \in Marks[w]
                           /\ req[w].assessment \in Assessment
                           /\ TaughtIn(w) \in Subject
                           /\ Batch(w) \subseteq Student
  /\ pc[w] = "submit-averages" => DOMAIN todo[w] = AverageCells(TaughtIn(w), Batch(w))
  /\ pc[w] = "remark" => req[w].subject \in Remarkable[w] /\ req[w].student \in Student

Sessions == SessionShape /\ \A w \in Worker : Flushing(w) /\ Requested(w)

\* What a SELECT adds to a session.
LEMMA LoadedFacts ==
  ASSUME Holds(stored), DOMAIN stored = Cell, NEW m, Holds(m), NEW C \in SUBSET Cell
  PROVE  Holds(Loaded(m, C)) /\ DOMAIN Loaded(m, C) = DOMAIN m \cup C
<1>1. DOMAIN Loaded(m, C) = DOMAIN m \cup C
  BY DEF Loaded
<1>2. \A c \in DOMAIN m \cup C :
        Loaded(m, C)[c] = IF c \in DOMAIN m /\ m[c] # Missing THEN m[c] ELSE stored[c]
  BY DEF Loaded
<1>3. DOMAIN stored = Cell
  OBVIOUS
<1>4. \A c \in DOMAIN m \cup C : c \in Cell /\ Loaded(m, C)[c] \in ValueOf(c)
  BY <1>2, <1>3 DEF Holds
<1> QED
  BY <1>1, <1>2, <1>4 DEF Holds

\* What a flush of new would write.
LEMMA ChangesFacts ==
  ASSUME NEW m, NEW new
  PROVE  /\ DOMAIN Changes(m, new) = {c \in DOMAIN new : m[c] # new[c]}
         /\ \A c \in DOMAIN Changes(m, new) : Changes(m, new)[c] = new[c]
         /\ Holds(new) => Holds(Changes(m, new))
<1>1. DOMAIN Changes(m, new) = {c \in DOMAIN new : m[c] # new[c]}
  BY DEF Changes
<1>2. \A c \in DOMAIN Changes(m, new) : Changes(m, new)[c] = new[c]
  BY DEF Changes
<1> QED
  BY <1>1, <1>2 DEF Holds

\* What a session may flush: a row that is missing is never written.
Writable(t) == Holds(t) /\ \A c \in DOMAIN t : t[c] # Missing

LEMMA StudentsOfCells ==
  ASSUME NEW h \in Heading, NEW S \in SUBSET Student
  PROVE  {y[3] : y \in AverageCells(h, S)} = S
<1>1. \A y \in AverageCells(h, S) : y[3] \in S
  BY RowFacts
<1>2. \A s \in S : <<"average", h, s>> \in AverageCells(h, S) /\ <<"average", h, s>>[3] = s
  BY RowFacts
<1> QED
  BY <1>1, <1>2

\* The rows whose average is computed.
LEMMA UpsertFacts ==
  ASSUME NEW h \in Heading, NEW S \in SUBSET Student, NEW m, NEW average,
         DOMAIN average = AverageCells(h, S), \A c \in AverageCells(h, S) : average[c] \in Int \cup {None}
  PROVE  LET t == Upsert(m, h, average) IN Writable(t) /\ DOMAIN t \subseteq RowCells(h, S)
<1> DEFINE t == Upsert(m, h, average)
<1>1. {y[3] : y \in DOMAIN average} = S
  BY StudentsOfCells
<1>2. DOMAIN t = {c \in RowCells(h, S) : m[c] = Missing \/ (c[1] = "average" /\ m[c] # average[c])}
  BY <1>1 DEF Upsert
<1>3. \A c \in DOMAIN t : t[c] = IF c[1] = "average" THEN average[c] ELSE None
  BY DEF Upsert
<1> HIDE DEF t
<1>4. \A c \in DOMAIN t : c \in Cell /\ c = <<c[1], c[2], c[3]>> /\ c[2] = h /\ c[3] \in S
  BY <1>2, RowFacts
<1>5. \A c \in DOMAIN t : c[1] = "average" => c \in AverageCells(h, S)
  BY <1>4 DEF AverageCells
<1>6. \A c \in DOMAIN t : t[c] \in ValueOf(c) /\ t[c] # Missing
  BY <1>3, <1>5, ClassAssumption DEF ValueOf, Empty
<1>7. Holds(t)
  BY <1>4, <1>6 DEF Holds
<1> QED
  BY <1>2, <1>6, <1>7 DEF t, Writable

\* A flush.
LEMMA FlushedFacts ==
  ASSUME SessionShape, NEW w \in Worker
  PROVE  /\ DOMAIN Flushed(w) = DOMAIN mem[w] \cup DOMAIN todo[w]
         /\ \A c \in DOMAIN mem[w] \cup DOMAIN todo[w] :
              Flushed(w)[c] = IF c \in DOMAIN todo[w] THEN todo[w][c] ELSE mem[w][c]
         /\ Holds(Flushed(w)) /\ Written(w) \subseteq DOMAIN Flushed(w)
         /\ \A c \in Written(w) : Flushed(w)[c] # Missing
<1>1. DOMAIN Flushed(w) = DOMAIN mem[w] \cup DOMAIN todo[w]
  BY DEF Flushed
<1>2. \A c \in DOMAIN mem[w] \cup DOMAIN todo[w] :
        Flushed(w)[c] = IF c \in DOMAIN todo[w] THEN todo[w][c] ELSE mem[w][c]
  BY DEF Flushed
<1>3. Holds(Flushed(w))
  BY <1>1, <1>2 DEF Holds, SessionShape
<1> QED
  BY <1>1, <1>2, <1>3 DEF SessionShape, Written

\* Rounding keeps what is empty, and rounds a number once.
LEMMA Rounding ==
  /\ \A x \in Int : RoundedToCent(x) \in Int /\ x - RoundedToCent(x) \in -50 .. 50
  /\ \A x \in Int \cup Empty : RoundedToCent(RoundedToCent(x)) = RoundedToCent(x)
  /\ \A x \in Empty : RoundedToCent(x) = x
<1>1. \A x \in Int : x \notin Empty
  BY ClassAssumption DEF Empty
<1>2. \A x \in Int : RoundedToCent(x) = ((x + 50) \div 100) * 100
  BY <1>1 DEF RoundedToCent, Cent
<1>3. ASSUME NEW x \in Int PROVE RoundedToCent(x) \in Int /\ x - RoundedToCent(x) \in -50 .. 50
  <2> DEFINE q == (x + 50) \div 100
  <2>1. q \in Int /\ 100 * q <= x + 50 /\ x + 50 < 100 * q + 100
    OBVIOUS
  <2>2. RoundedToCent(x) = q * 100
    BY <1>2
  <2> HIDE DEF q
  <2> QED
    BY <2>1, <2>2
<1>4. \A x \in Empty : RoundedToCent(x) = x
  BY DEF RoundedToCent
<1>5. ASSUME NEW x \in Int PROVE RoundedToCent(RoundedToCent(x)) = RoundedToCent(x)
  <2> DEFINE q == (x + 50) \div 100
  <2>1. q \in Int /\ RoundedToCent(x) = q * 100
    BY <1>2
  <2> HIDE DEF q
  <2>2. q * 100 \in Int /\ (q * 100 + 50) \div 100 = q
    BY <2>1
  <2>3. RoundedToCent(q * 100) = q * 100
    BY <1>2, <2>2
  <2> QED
    BY <2>1, <2>3
<1> QED
  BY <1>3, <1>4, <1>5

\* What the transaction of a worker sees.
LEMMA TableFacts ==
  ASSUME SessionShape, NEW w \in Worker
  PROVE  /\ DOMAIN Table(w) = Cell
         /\ \A c \in Cell : Table(w)[c] = IF c \in DOMAIN todo[w] THEN InColumn(c, todo[w][c])
                                          ELSE IF c \in dirty[w] THEN InColumn(c, mem[w][c])
                                          ELSE stored[c]
         /\ Holds(Table(w)) /\ Numbers(Table(w))
<1>1. DOMAIN Table(w) = Cell
  BY DEF Table
<1>2. \A c \in Cell : Table(w)[c] = IF c \in DOMAIN todo[w] THEN InColumn(c, todo[w][c])
                                    ELSE IF c \in dirty[w] THEN InColumn(c, mem[w][c])
                                    ELSE stored[c]
  BY FlushedFacts DEF Table, Written
<1>3. \A c \in Cell : \A x \in ValueOf(c) : InColumn(c, x) \in ValueOf(c)
  BY Rounding DEF InColumn, ValueOf
<1>4. \A c \in Cell : Table(w)[c] \in ValueOf(c)
  BY <1>2, <1>3 DEF SessionShape, Holds
<1>5. Holds(Table(w))
  BY <1>1, <1>4 DEF Holds
<1>6. Numbers(Table(w))
  <2>1. \A h \in Heading, s \in Student : Table(w)[<<"average", h, s>>] \in Int \cup Empty
    <3> SUFFICES ASSUME NEW h \in Heading, NEW s \in Student
                 PROVE Table(w)[<<"average", h, s>>] \in Int \cup Empty
      OBVIOUS
    <3> DEFINE c == <<"average", h, s>>
    <3>1. c \in Cell /\ c[1] = "average"
      BY CellFacts
    <3> QED
      BY <1>4, <3>1 DEF ValueOf
  <2>2. \A a \in Assessment, s \in Student : Table(w)[<<"score", a, s>>] \in Int \cup Empty
    <3> SUFFICES ASSUME NEW a \in Assessment, NEW s \in Student
                 PROVE Table(w)[<<"score", a, s>>] \in Int \cup Empty
      OBVIOUS
    <3> DEFINE c == <<"score", a, s>>
    <3>1. c \in Cell /\ c[1] = "score"
      BY CellFacts
    <3> QED
      BY <1>4, <3>1 DEF ValueOf
  <2> QED
    BY <2>1, <2>2 DEF Numbers
<1> QED
  BY <1>1, <1>2, <1>5, <1>6

\* A statement moves one worker.
Same(v) ==
  /\ pc'[v] = pc[v] /\ mem'[v] = mem[v] /\ todo'[v] = todo[v] /\ dirty'[v] = dirty[v]
  /\ req'[v] = req[v]

LEMMA StepFacts ==
  ASSUME SessionShape, NEW w \in Worker, NEW label \in Pc, NEW m, NEW t, NEW d, Step(w, label, m, t, d),
         UNCHANGED req \/ \E r : req' = [req EXCEPT ![w] = r]
  PROVE  /\ pc'[w] = label /\ mem'[w] = m /\ todo'[w] = t /\ dirty'[w] = d
         /\ UNCHANGED <<stored, cards, announced, draft>>
         /\ \A v \in Worker : v # w => Same(v)
         /\ mem' = [v \in Worker |-> mem'[v]] /\ todo' = [v \in Worker |-> todo'[v]]
         /\ dirty' = [v \in Worker |-> dirty'[v]] /\ req' = [v \in Worker |-> req'[v]]
         /\ pc' \in [Worker -> Pc]
BY DEF SessionShape, Step, Same

LEMMA FinishFacts ==
  ASSUME SessionShape, NEW w \in Worker, Finish(w)
  PROVE  /\ pc'[w] = "idle" /\ mem'[w] = NoCells /\ todo'[w] = NoCells /\ dirty'[w] = {}
         /\ \A v \in Worker : v # w => Same(v)
         /\ mem' = [v \in Worker |-> mem'[v]] /\ todo' = [v \in Worker |-> todo'[v]]
         /\ dirty' = [v \in Worker |-> dirty'[v]] /\ req' = [v \in Worker |-> req'[v]]
         /\ draft' = [v \in Worker |-> draft'[v]]
         /\ pc' \in [Worker -> Pc]
BY DEF SessionShape, Finish, Same, Pc

LEMMA NothingHeld == Holds(NoCells) /\ DOMAIN NoCells = {}
BY DEF Holds, NoCells

\* A worker that does not move keeps what is said of it.
LEMMA SameKeeps ==
  ASSUME NEW v \in Worker, Same(v), Flushing(v), Requested(v)
  PROVE  Flushing(v)' /\ Requested(v)'
<1>1. Batch(v)' = Batch(v) /\ TaughtIn(v)' = TaughtIn(v)
  BY DEF Same, Batch, TaughtIn
<1>2. /\ Scored(v)' = Scored(v) /\ SubjectRows(v)' = SubjectRows(v)
      /\ SubjectDone(v)' = SubjectDone(v) /\ TermRows(v)' = TermRows(v)
  BY <1>1 DEF Same, Scored, SubjectRows, SubjectDone, TermRows
<1>3. Flushing(v)'
  BY <1>1, <1>2 DEF Same, Flushing, May
<1>4. Requested(v)'
  BY <1>1 DEF Same, Requested
<1> QED
  BY <1>3, <1>4

LEMMA StepSessions ==
  ASSUME Sessions, NEW w \in Worker, NEW label \in Pc, NEW m, NEW t, NEW d, Step(w, label, m, t, d),
         UNCHANGED req \/ \E r : req' = [req EXCEPT ![w] = r],
         Holds(m), Holds(t), d \subseteq DOMAIN m,
         \A c \in DOMAIN t : t[c] # Missing, \A c \in d : m[c] # Missing,
         Flushing(w)', Requested(w)'
  PROVE  Sessions'
<1>1. /\ pc'[w] = label /\ mem'[w] = m /\ todo'[w] = t /\ dirty'[w] = d
      /\ UNCHANGED <<stored, draft>>
      /\ \A v \in Worker : v # w => Same(v)
      /\ mem' = [v \in Worker |-> mem'[v]] /\ todo' = [v \in Worker |-> todo'[v]]
      /\ dirty' = [v \in Worker |-> dirty'[v]] /\ req' = [v \in Worker |-> req'[v]]
      /\ pc' \in [Worker -> Pc]
  BY StepFacts DEF Sessions
<1>2. \A v \in Worker : v # w => Flushing(v)' /\ Requested(v)'
  BY <1>1, SameKeeps DEF Sessions
<1>3. \A v \in Worker :
       /\ Holds(mem'[v]) /\ Holds(todo'[v]) /\ dirty'[v] \subseteq DOMAIN mem'[v]
       /\ \A c \in DOMAIN todo'[v] : todo'[v][c] # Missing
       /\ \A c \in dirty'[v] : mem'[v][c] # Missing
  BY <1>1 DEF Sessions, SessionShape, Same
<1>4. SessionShape'
  BY <1>1, <1>3 DEF Sessions, SessionShape, Holds, ValueOf
<1> QED
  BY <1>2, <1>4 DEF Sessions

LEMMA FinishSessions ==
  ASSUME Sessions, NEW w \in Worker, Finish(w), stored' = stored \/ stored' = Table(w)
  PROVE  Sessions'
<1>1. /\ pc'[w] = "idle" /\ mem'[w] = NoCells /\ todo'[w] = NoCells /\ dirty'[w] = {}
      /\ \A v \in Worker : v # w => Same(v)
      /\ mem' = [v \in Worker |-> mem'[v]] /\ todo' = [v \in Worker |-> todo'[v]]
      /\ dirty' = [v \in Worker |-> dirty'[v]] /\ req' = [v \in Worker |-> req'[v]]
      /\ draft' = [v \in Worker |-> draft'[v]]
      /\ pc' \in [Worker -> Pc]
  BY FinishFacts DEF Sessions
<1>2. \A v \in Worker : v # w => Flushing(v)' /\ Requested(v)'
  BY <1>1, SameKeeps DEF Sessions
<1>3. Flushing(w)' /\ Requested(w)'
  BY <1>1, NothingHeld DEF Flushing, May, Requested, SubmitPc
<1>4. Holds(stored') /\ stored' = [c \in Cell |-> stored'[c]]
  BY TableFacts DEF Sessions, SessionShape, Table
<1>5. \A v \in Worker :
       /\ Holds(mem'[v]) /\ Holds(todo'[v]) /\ dirty'[v] \subseteq DOMAIN mem'[v]
       /\ \A c \in DOMAIN todo'[v] : todo'[v][c] # Missing
       /\ \A c \in dirty'[v] : mem'[v][c] # Missing
  BY <1>1, NothingHeld DEF Sessions, SessionShape, Same
<1>6. SessionShape'
  BY <1>1, <1>4, <1>5 DEF SessionShape, Holds, ValueOf
<1> QED
  BY <1>2, <1>3, <1>6 DEF Sessions

\* The ranks that an order of the rows gives.
RowRanks(h, S) == {<<"rank", h, s>> : s \in S}
GivesRanks(r, order, average, h, S) ==
  \A s \in S : \E i \in 1 .. Cardinality(S) :
    order[i] = s /\ r[<<"rank", h, s>>] = RankAt(order, average, i)

LEMMA RanksFacts ==
  ASSUME NEW h \in Heading, NEW S \in SUBSET Student, NEW table, NEW average,
         NEW order \in SortedByAverage(table, h, S)
  PROVE  LET r == RanksOf(order, average, h)
         IN Writable(r) /\ DOMAIN r = RowRanks(h, S) /\ GivesRanks(r, order, average, h, S)
<1> DEFINE r == RanksOf(order, average, h)
           n == Cardinality(S)
<1>1. n \in Nat
  BY FS_Subset, FS_CardinalityType, ClassAssumption
<1>2. order \in [1 .. n -> S] /\ {order[i] : i \in 1 .. n} = S
  BY DEF SortedByAverage
<1> HIDE DEF n
<1>3. DOMAIN r = RowRanks(h, S)
  BY <1>2 DEF RanksOf, RowRanks
<1>4. ASSUME NEW s \in S
      PROVE  \E i \in 1 .. n : order[i] = s /\ r[<<"rank", h, s>>] = RankAt(order, average, i)
  <2> DEFINE c == <<"rank", h, s>>
             i == CHOOSE j \in DOMAIN order : order[j] = c[3]
  <2>1. c \in {<<"rank", h, order[j]>> : j \in DOMAIN order} /\ c[3] = s
    BY <1>2
  <2>2. r[c] = RankAt(order, average, i)
    BY <2>1 DEF RanksOf
  <2>3. i \in 1 .. n /\ order[i] = s
    BY <1>2, <2>1
  <2> HIDE DEF i
  <2> QED
    BY <2>2, <2>3
<1>5. \A i \in 1 .. n : RankAt(order, average, i) \in Int \cup {None}
  <2> SUFFICES ASSUME NEW i \in 1 .. n
               PROVE  RankAt(order, average, i) \in Int \cup {None}
    OBVIOUS
  <2>1. CASE average[order[i]] = None
    BY <2>1 DEF RankAt
  <2>2. CASE average[order[i]] # None
    BY <2>2, <1>1, RankOfRow
  <2> QED
    BY <2>1, <2>2
<1> HIDE DEF r
<1>6. ASSUME NEW c \in DOMAIN r
      PROVE  c \in Cell /\ r[c] \in ValueOf(c) /\ r[c] # Missing
  <2>1. PICK s \in S : c = <<"rank", h, s>>
    BY <1>3 DEF RowRanks
  <2>2. r[c] \in Int \cup {None}
    BY <1>4, <1>5, <2>1
  <2>3. c \in Cell /\ c[1] = "rank"
    BY <2>1, CellFacts
  <2> QED
    BY <2>2, <2>3, ClassAssumption DEF ValueOf, Empty
<1>7. Holds(r)
  BY <1>6 DEF Holds
<1> QED
  BY <1>3, <1>4, <1>6, <1>7 DEF n, r, Writable, GivesRanks

\* A statement that goes on with the same request.
LEMMA SameRequest ==
  ASSUME NEW w, UNCHANGED req
  PROVE  /\ Batch(w)' = Batch(w) /\ TaughtIn(w)' = TaughtIn(w) /\ Scored(w)' = Scored(w)
         /\ SubjectRows(w)' = SubjectRows(w) /\ SubjectDone(w)' = SubjectDone(w)
         /\ TermRows(w)' = TermRows(w)
BY DEF Batch, TaughtIn, Scored, SubjectRows, SubjectDone, TermRows

\* What a submission is about.
LEMMA SubmissionFacts ==
  ASSUME Sessions, NEW w \in Worker, pc[w] \in SubmitPc
  PROVE  /\ req[w].assessment \in Assessment /\ TaughtIn(w) \in Subject /\ TaughtIn(w) \in Heading
         /\ Batch(w) \in SUBSET Student /\ General \in Heading
         /\ Holds(mem[w]) /\ Holds(todo[w]) /\ Holds(stored) /\ SessionShape
         /\ dirty[w] \subseteq DOMAIN mem[w]
         /\ \A c \in dirty[w] : mem[w][c] # Missing
BY DEF Sessions, Requested, SessionShape, Heading

LEMMA InitSessions == Init => Sessions
<1> SUFFICES ASSUME Init PROVE Sessions
  OBVIOUS
<1>1. \A c \in Cell : Missing \in ValueOf(c)
  BY DEF ValueOf, Empty
<1>2. Holds(stored) /\ Holds(NoCells) /\ stored = [c \in Cell |-> stored[c]]
  BY <1>1, NothingHeld DEF Init, Holds
<1>3. \A w \in Worker : pc[w] = "idle" /\ mem[w] = NoCells /\ todo[w] = NoCells /\ dirty[w] = {}
  BY DEF Init
<1>4. \A w \in Worker :
       /\ Holds(mem[w]) /\ Holds(todo[w]) /\ dirty[w] \subseteq DOMAIN mem[w]
       /\ \A c \in DOMAIN todo[w] : todo[w][c] # Missing
       /\ \A c \in dirty[w] : mem[w][c] # Missing
  BY <1>2, <1>3, NothingHeld
<1>5. SessionShape
  BY <1>2, <1>4 DEF Init, SessionShape, Pc
<1>6. \A w \in Worker : Flushing(w) /\ Requested(w)
  BY <1>3, NothingHeld DEF Flushing, May, Requested, SubmitPc
<1> QED
  BY <1>5, <1>6 DEF Sessions

-----------------------------------------------------------------------------
(* What statements do to the session of their worker.                      *)

\* A cell that a session holds and has not flushed was held before, or is what
\* is stored.
Recalls(w) ==
  \A c \in DOMAIN mem'[w] \ dirty'[w] :
    \/ mem'[w][c] = stored[c]
    \/ c \in DOMAIN mem[w] \ dirty[w] /\ mem'[w][c] = mem[w][c]

\* The table that the transaction of w sees is old, but for what it flushes next.
Sees(w, old) ==
  \A c \in Cell : Table(w)'[c] = IF c \in DOMAIN todo'[w] THEN InColumn(c, todo'[w][c]) ELSE old[c]

\* What it sees without what it has not flushed.
Kept(w) == [c \in Cell |-> IF c \in dirty[w] THEN InColumn(c, mem[w][c]) ELSE stored[c]]

\* A statement that reads and flushes nothing.
LEMMA ReadStep ==
  ASSUME Sessions, NEW w \in Worker, NEW label \in Pc, NEW C \in SUBSET Cell, NEW t,
         Step(w, label, Loaded(mem[w], C), t, dirty[w]),
         UNCHANGED req, Holds(t), \A c \in DOMAIN t : t[c] # Missing,
         Flushing(w)', Requested(w)'
  PROVE  Sessions' /\ Recalls(w) /\ Sees(w, Kept(w))
<1> DEFINE m == Loaded(mem[w], C)
<1>1. /\ Holds(m) /\ DOMAIN m = DOMAIN mem[w] \cup C
      /\ \A c \in DOMAIN mem[w] \cup C :
           m[c] = IF c \in DOMAIN mem[w] /\ mem[w][c] # Missing THEN mem[w][c] ELSE stored[c]
  <2>1. Holds(mem[w]) /\ Holds(stored) /\ DOMAIN stored = Cell
    BY DEF Sessions, SessionShape
  <2>2. Holds(m) /\ DOMAIN m = DOMAIN mem[w] \cup C
    BY <2>1, LoadedFacts
  <2> QED
    BY <2>2 DEF Loaded
<1> HIDE DEF m
<1>2. Step(w, label, m, t, dirty[w])
  BY DEF m
<1>3. dirty[w] \subseteq DOMAIN mem[w] /\ \A c \in dirty[w] : mem[w][c] # Missing
  BY DEF Sessions, SessionShape
<1>4. \A c \in dirty[w] : c \in DOMAIN m /\ m[c] = mem[w][c]
  BY <1>1, <1>3
<1>5. Sessions'
  BY <1>1, <1>2, <1>3, <1>4, StepSessions
<1>6. mem'[w] = m /\ todo'[w] = t /\ dirty'[w] = dirty[w] /\ stored' = stored
  BY <1>2, StepFacts DEF Sessions
<1>7. Recalls(w)
  BY <1>1, <1>6 DEF Recalls
<1>8. \A c \in Cell : Table(w)'[c] = IF c \in DOMAIN todo'[w] THEN InColumn(c, todo'[w][c])
                                     ELSE IF c \in dirty'[w] THEN InColumn(c, mem'[w][c])
                                     ELSE stored'[c]
  <2>1. SessionShape' /\ w \in Worker
    BY <1>5 DEF Sessions
  <2> QED
    BY <2>1, TableFacts DEF Table, Written, Flushed, InColumn, SessionShape, Holds, ValueOf
<1>9. Sees(w, Kept(w))
  BY <1>4, <1>6, <1>8 DEF Sees, Kept
<1> QED
  BY <1>5, <1>7, <1>9

\* A statement that flushes, and may then read.
LEMMA FlushStep ==
  ASSUME Sessions, NEW w \in Worker, NEW label \in Pc, NEW C \in SUBSET Cell, NEW m, NEW t,
         m = Flushed(w) \/ m = Loaded(Flushed(w), C),
         Step(w, label, m, t, Written(w)),
         UNCHANGED req, Holds(t), \A c \in DOMAIN t : t[c] # Missing,
         Flushing(w)', Requested(w)'
  PROVE  Sessions' /\ Recalls(w) /\ Sees(w, Table(w))
<1>1. /\ DOMAIN Flushed(w) = DOMAIN mem[w] \cup DOMAIN todo[w]
      /\ \A c \in DOMAIN mem[w] \cup DOMAIN todo[w] :
           Flushed(w)[c] = IF c \in DOMAIN todo[w] THEN todo[w][c] ELSE mem[w][c]
      /\ Holds(Flushed(w)) /\ Written(w) \subseteq DOMAIN Flushed(w)
      /\ \A c \in Written(w) : Flushed(w)[c] # Missing
  BY FlushedFacts DEF Sessions
<1>2. /\ Holds(m) /\ DOMAIN Flushed(w) \subseteq DOMAIN m
      /\ \A c \in DOMAIN m : \/ c \in DOMAIN Flushed(w) /\ m[c] = Flushed(w)[c]
                             \/ m[c] = stored[c]
      /\ \A c \in DOMAIN Flushed(w) : Flushed(w)[c] # Missing => m[c] = Flushed(w)[c]
  <2>1. CASE m = Flushed(w)
    BY <2>1, <1>1
  <2>2. CASE m = Loaded(Flushed(w), C)
    <3> DEFINE f == Flushed(w)
    <3>1. Holds(f) /\ Holds(stored) /\ DOMAIN stored = Cell
      BY <1>1 DEF Sessions, SessionShape
    <3> HIDE DEF f
    <3>2. /\ Holds(Loaded(f, C)) /\ DOMAIN Loaded(f, C) = DOMAIN f \cup C
          /\ \A c \in DOMAIN f \cup C :
               Loaded(f, C)[c] = IF c \in DOMAIN f /\ f[c] # Missing THEN f[c] ELSE stored[c]
      <4>1. Holds(Loaded(f, C)) /\ DOMAIN Loaded(f, C) = DOMAIN f \cup C
        BY <3>1, LoadedFacts
      <4> QED
        BY <4>1 DEF Loaded
    <3> QED
      BY <3>2, <2>2 DEF f
  <2> QED
    BY <2>1, <2>2
<1>3. \A c \in Written(w) : c \in DOMAIN m /\ m[c] = Flushed(w)[c] /\ m[c] # Missing
  BY <1>1, <1>2
<1>4. Sessions'
  BY <1>2, <1>3, StepSessions
<1>5. mem'[w] = m /\ todo'[w] = t /\ dirty'[w] = Written(w) /\ stored' = stored
  BY StepFacts DEF Sessions
<1>6. Recalls(w)
  BY <1>1, <1>2, <1>5 DEF Recalls, Written
<1>7. \A c \in Cell : Table(w)'[c] = IF c \in DOMAIN todo'[w] THEN InColumn(c, todo'[w][c])
                                     ELSE IF c \in dirty'[w] THEN InColumn(c, mem'[w][c])
                                     ELSE stored'[c]
  <2>1. SessionShape' /\ w \in Worker
    BY <1>4 DEF Sessions
  <2> QED
    BY <2>1, TableFacts DEF Table, Written, Flushed, InColumn, SessionShape, Holds, ValueOf
<1>8. \A c \in Cell : Table(w)[c] = IF c \in Written(w) THEN InColumn(c, Flushed(w)[c]) ELSE stored[c]
  BY DEF Table
<1>9. Sees(w, Table(w))
  BY <1>3, <1>5, <1>7, <1>8 DEF Sees
<1> QED
  BY <1>4, <1>6, <1>9

-----------------------------------------------------------------------------
(* The statements of a submission.                                         *)

\* A request that starts: its session holds only what it has just read.
LEMMA BeginStep ==
  ASSUME Sessions, NEW w \in Worker, NEW label \in Pc, NEW C \in SUBSET Cell, NEW t, NEW r,
         Step(w, label, Loaded(NoCells, C), t, {}),
         req' = [req EXCEPT ![w] = r], Holds(t), \A c \in DOMAIN t : t[c] # Missing,
         Flushing(w)', Requested(w)'
  PROVE  Sessions' /\ Recalls(w)
<1> DEFINE m == Loaded(NoCells, C)
<1>1. Holds(stored) /\ DOMAIN stored = Cell
  BY DEF Sessions, SessionShape
<1>2. Holds(m) /\ DOMAIN m = C
  <2>1. Holds(NoCells) /\ DOMAIN NoCells = {}
    BY NothingHeld
  <2>2. Holds(m) /\ DOMAIN m = DOMAIN NoCells \cup C
    BY <1>1, <2>1, LoadedFacts
  <2> QED
    BY <2>1, <2>2
<1>3. \A c \in C : m[c] = stored[c]
  BY NothingHeld DEF Loaded
<1> HIDE DEF m
<1>4. Step(w, label, m, t, {})
  BY DEF m
<1>5. Sessions'
  <2> DEFINE d == {}
  <2>1. d \subseteq DOMAIN m /\ \A c \in d : m[c] # Missing
    OBVIOUS
  <2>2. UNCHANGED req \/ \E x : req' = [req EXCEPT ![w] = x]
    OBVIOUS
  <2>3. Step(w, label, m, t, d)
    BY <1>4
  <2> HIDE DEF d
  <2> QED
    BY <1>2, <2>1, <2>2, <2>3, StepSessions
<1>6. mem'[w] = m /\ stored' = stored
  BY <1>4, StepFacts DEF Sessions
<1>7. Recalls(w)
  BY <1>2, <1>3, <1>6 DEF Recalls
<1> QED
  BY <1>5, <1>7

LEMMA BeginSubmitStep ==
  ASSUME Sessions, NEW w \in Worker, BeginSubmit(w)
  PROVE  Sessions' /\ Recalls(w) /\ pc'[w] = "submit-marks" /\ ~ Published(Batch(w)')
<1>1. PICK a \in Marks[w], S \in SUBSET Student \ {{}} :
        \E marks \in [S -> Score \cup {None}] :
          LET m == Loaded(NoCells, ScoreCells(a, S))
              entered == [c \in ScoreCells(a, S) |-> marks[c[3]]]
          IN /\ ~ Published(S)
             /\ Ask(w, [op |-> "submit", assessment |-> a, marks |-> marks])
             /\ Step(w, "submit-marks", m, Changes(m, entered), {})
  BY DEF BeginSubmit
<1>2. PICK marks \in [S -> Score \cup {None}] :
          LET m == Loaded(NoCells, ScoreCells(a, S))
              entered == [c \in ScoreCells(a, S) |-> marks[c[3]]]
          IN /\ ~ Published(S)
             /\ Ask(w, [op |-> "submit", assessment |-> a, marks |-> marks])
             /\ Step(w, "submit-marks", m, Changes(m, entered), {})
  BY <1>1
<1> DEFINE r == [op |-> "submit", assessment |-> a, marks |-> marks]
           C == ScoreCells(a, S)
           entered == [c \in C |-> marks[c[3]]]
           m == Loaded(NoCells, C)
           t == Changes(m, entered)
<1>3. ~ Published(S) /\ req' = [req EXCEPT ![w] = r] /\ Step(w, "submit-marks", Loaded(NoCells, C), t, {})
  BY <1>2 DEF Ask
<1>4. a \in Assessment /\ SubjectOf[a] \in Subject
  BY RequestAssumption, ClassAssumption
<1>5. C \in SUBSET Cell /\ \A c \in C : c[3] \in S /\ c[1] = "score"
  BY <1>4, ScoreFacts
<1>6. \A c \in C : entered[c] \in Int \cup {None}
  <2>1. \A x \in Score \cup {None} : x \in Int \cup {None}
    <3>1. Score \subseteq Nat
      BY RequestAssumption
    <3> QED
      BY <3>1
  <2>2. \A c \in C : marks[c[3]] \in Score \cup {None}
    BY <1>5
  <2> QED
    BY <2>1, <2>2
<1>7. Holds(entered) /\ \A c \in DOMAIN entered : entered[c] # Missing
  <2>1. DOMAIN entered = C
    OBVIOUS
  <2> HIDE DEF entered, C
  <2> QED
    BY <2>1, <1>5, <1>6, ClassAssumption DEF Holds, ValueOf, Empty
<1>8. Holds(t) /\ DOMAIN t \subseteq C /\ \A c \in DOMAIN t : t[c] # Missing
  <2>1. DOMAIN entered = C
    OBVIOUS
  <2> HIDE DEF m, entered, C
  <2>2. /\ DOMAIN t = {c \in DOMAIN entered : m[c] # entered[c]}
        /\ \A c \in DOMAIN t : t[c] = entered[c]
        /\ Holds(entered) => Holds(t)
    BY ChangesFacts
  <2> HIDE DEF t
  <2> QED
    BY <1>7, <2>1, <2>2
<1> HIDE DEF t
<1>9. pc'[w] = "submit-marks" /\ todo'[w] = t /\ dirty'[w] = {} /\ req'[w] = r
  BY <1>3, StepFacts DEF Sessions, SessionShape, Pc, SubmitPc
<1>10. r.assessment = a /\ DOMAIN r.marks = S
  OBVIOUS
<1> HIDE DEF r
<1>11. Batch(w)' = S /\ TaughtIn(w)' = SubjectOf[a] /\ Scored(w)' = C
  BY <1>9, <1>10 DEF Batch, TaughtIn, Scored
<1> HIDE DEF C
<1>12. Flushing(w)'
  BY <1>8, <1>9, <1>11 DEF Flushing, May
<1>13. Requested(w)'
  BY <1>4, <1>9, <1>10, <1>11 DEF Requested
<1>14. "submit-marks" \in Pc
  BY DEF Pc, SubmitPc
<1>15. Sessions' /\ Recalls(w)
  BY <1>3, <1>5, <1>8, <1>12, <1>13, <1>14, BeginStep
<1>16. UNCHANGED cards
  BY <1>3 DEF Step
<1> QED
  BY <1>3, <1>9, <1>11, <1>15

LEMMA SubmitMarksStep ==
  ASSUME Sessions, NEW w \in Worker, SubmitMarks(w)
  PROVE  /\ Sessions' /\ Recalls(w) /\ Sees(w, Table(w)) /\ pc'[w] = "submit-averages"
         /\ todo'[w] = [c \in AverageCells(TaughtIn(w), Batch(w)) |->
                          SubjectAverage(Table(w), TaughtIn(w), c[3])]
<1> DEFINE h == TaughtIn(w)
           S == Batch(w)
           t == [c \in AverageCells(h, S) |-> SubjectAverage(Table(w), h, c[3])]
<1>1. /\ pc[w] = "submit-marks" /\ UNCHANGED req
      /\ Step(w, "submit-averages", Flushed(w), t, Written(w))
  BY DEF SubmitMarks
<1>2. /\ h \in Subject /\ h \in Heading /\ S \in SUBSET Student /\ SessionShape
  BY <1>1, SubmissionFacts DEF SubmitPc
<1>3. Numbers(Table(w))
  BY <1>2, TableFacts
<1>4. AverageCells(h, S) \subseteq Cell /\ \A c \in AverageCells(h, S) : c[3] \in S /\ c[1] = "average"
  BY <1>2, RowFacts
<1>5. \A c \in AverageCells(h, S) : t[c] \in Int \cup {None} /\ t[c] # Missing
  BY <1>2, <1>3, <1>4, SubjectAverageType
<1>6. DOMAIN t = AverageCells(h, S)
  OBVIOUS
<1> HIDE DEF t
<1>7. Holds(t) /\ \A c \in DOMAIN t : t[c] # Missing
  BY <1>4, <1>5, <1>6 DEF Holds, ValueOf, Empty
<1>8. "submit-averages" \in Pc
  BY DEF Pc, SubmitPc
<1>9. pc'[w] = "submit-averages" /\ todo'[w] = t /\ dirty'[w] = Written(w)
  BY <1>1, <1>2, <1>8, StepFacts
<1>10. Written(w) \subseteq Scored(w)
  BY <1>1 DEF Sessions, Flushing, May, Written
<1>11. Flushing(w)'
  BY <1>1, <1>6, <1>9, <1>10, SameRequest DEF Flushing, May
<1>12. Requested(w)'
  <2>1. /\ req[w].assessment \in Marks[w] /\ req[w].assessment \in Assessment
    BY <1>1 DEF Sessions, Requested, SubmitPc
  <2> QED
    BY <1>1, <1>2, <1>6, <1>9, <2>1, SameRequest DEF Requested
<1>13. Sessions' /\ Recalls(w) /\ Sees(w, Table(w))
  BY <1>1, <1>7, <1>8, <1>11, <1>12, FlushStep
<1> QED
  BY <1>9, <1>13 DEF t

LEMMA SubmitAveragesStep ==
  ASSUME Sessions, NEW w \in Worker, SubmitAverages(w)
  PROVE  /\ Sessions' /\ Recalls(w) /\ Sees(w, Kept(w)) /\ pc'[w] = "submit-subject"
         /\ RowCells(TaughtIn(w), Batch(w)) \subseteq DOMAIN mem'[w] /\ dirty'[w] = dirty[w]
         /\ \A s \in Batch(w) : LET c == <<"average", TaughtIn(w), s>>
              IN IF mem'[w][c] = todo[w][c] THEN c \notin DOMAIN todo'[w]
                 ELSE c \in DOMAIN todo'[w] /\ todo'[w][c] = todo[w][c]
<1> DEFINE h == TaughtIn(w)
           S == Batch(w)
           C == RowCells(h, S)
           m == Loaded(mem[w], C)
           average == todo[w]
           t == Upsert(m, h, average)
<1>1. /\ pc[w] = "submit-averages" /\ UNCHANGED req
      /\ Step(w, "submit-subject", m, t, dirty[w])
  BY DEF SubmitAverages
<1>2. /\ h \in Subject /\ h \in Heading /\ S \in SUBSET Student /\ SessionShape
      /\ Holds(mem[w]) /\ Holds(stored) /\ Holds(average)
  BY <1>1, SubmissionFacts DEF SubmitPc
<1>3. C \in SUBSET Cell /\ AverageCells(h, S) \subseteq C
  BY <1>2, RowFacts
<1>4. DOMAIN average = AverageCells(h, S)
  BY <1>1 DEF Sessions, Requested
<1>5. \A c \in AverageCells(h, S) : average[c] \in Int \cup {None} /\ average[c] # Missing
  <2>1. \A c \in AverageCells(h, S) : c[1] = "average"
    BY <1>2, RowFacts
  <2>2. \A c \in DOMAIN average : average[c] # Missing
    BY DEF Sessions, SessionShape
  <2> QED
    BY <1>2, <1>4, <2>1, <2>2 DEF Holds, ValueOf, Empty
<1>6. DOMAIN stored = Cell
  BY <1>2 DEF SessionShape
<1>7. DOMAIN m = DOMAIN mem[w] \cup C
  BY <1>2, <1>3, <1>6, LoadedFacts
<1>8. /\ DOMAIN t = {c \in C : m[c] = Missing \/ (c[1] = "average" /\ m[c] # average[c])}
      /\ \A c \in DOMAIN t : t[c] = IF c[1] = "average" THEN average[c] ELSE None
      /\ Holds(t) /\ \A c \in DOMAIN t : t[c] # Missing
  <2>1. \A c \in DOMAIN t : t[c] = IF c[1] = "average" THEN average[c] ELSE None
    BY DEF Upsert
  <2>2. {y[3] : y \in DOMAIN average} = S
    BY <1>2, <1>4, StudentsOfCells
  <2>3. DOMAIN t = {c \in C : m[c] = Missing \/ (c[1] = "average" /\ m[c] # average[c])}
    BY <2>2 DEF Upsert
  <2>4. Writable(t)
    <3> HIDE DEF m, average, h, S
    <3> QED
      BY <1>2, <1>4, <1>5, UpsertFacts
  <2> QED
    BY <2>1, <2>3, <2>4 DEF Writable
<1> HIDE DEF t
<1>9. "submit-subject" \in Pc
  BY DEF Pc, SubmitPc
<1>10. pc'[w] = "submit-subject" /\ mem'[w] = m /\ todo'[w] = t /\ dirty'[w] = dirty[w]
  BY <1>1, <1>2, <1>9, StepFacts
<1>11. dirty[w] \subseteq Scored(w) /\ C = SubjectRows(w) /\ DOMAIN t \subseteq C
  BY <1>1, <1>8 DEF Sessions, Flushing, May, SubjectRows
<1>12. Flushing(w)'
  BY <1>1, <1>10, <1>11, SameRequest DEF Flushing, May
<1>13. Requested(w)'
  <2>1. /\ req[w].assessment \in Marks[w] /\ req[w].assessment \in Assessment
    BY <1>1 DEF Sessions, Requested, SubmitPc
  <2> QED
    BY <1>1, <1>2, <1>10, <2>1, SameRequest DEF Requested
<1>14. Sessions' /\ Recalls(w) /\ Sees(w, Kept(w))
  BY <1>1, <1>3, <1>8, <1>9, <1>12, <1>13, ReadStep
<1>15. \A s \in S : <<"average", h, s>> \in AverageCells(h, S) /\ <<"average", h, s>>[1] = "average"
  BY <1>2, RowFacts
<1> HIDE DEF m
<1>16. ASSUME NEW s \in S
       PROVE  LET c == <<"average", h, s>>
              IN IF m[c] = average[c] THEN c \notin DOMAIN t
                 ELSE c \in DOMAIN t /\ t[c] = average[c]
  <2> DEFINE c == <<"average", h, s>>
  <2>1. c \in C /\ c[1] = "average" /\ average[c] # Missing
    BY <1>3, <1>5, <1>15
  <2> HIDE DEF c, C, average
  <2> QED
    BY <1>8, <2>1 DEF c
<1> QED
  BY <1>7, <1>10, <1>14, <1>16

\* The rows of heading h that have an average, in what w sees.
Ranked(w, h) == {s \in Student : Table(w)[<<"average", h, s>>] # Missing}

\* What the flush of the ranks in this order writes, over what was loaded.
RankChanges(w, h, order, m) ==
  Changes(m, RanksOf(order, [s \in Ranked(w, h) |-> m[<<"average", h, s>>]], h))

LEMMA RankStepFacts ==
  ASSUME Sessions, NEW w \in Worker, NEW h \in Heading, NEW label \in Pc, RankStep(w, h, label)
  PROVE  /\ UNCHANGED req /\ pc'[w] = label /\ dirty'[w] = Written(w)
         /\ DOMAIN todo'[w] \subseteq RankCells(h)
         /\ Flushing(w)' /\ Requested(w)' => Sessions' /\ Recalls(w) /\ Sees(w, Table(w))
<1> DEFINE S == Ranked(w, h)
           C == RowCells(h, S)
           m == Loaded(Flushed(w), C)
<1>1. UNCHANGED req
  BY DEF RankStep
<1>2. PICK order \in SortedByAverage(Table(w), h, S) :
        Step(w, label, m, RankChanges(w, h, order, m), Written(w))
  BY DEF RankStep, RankChanges, Ranked
<1> DEFINE average == [s \in S |-> m[<<"average", h, s>>]]
           r == RanksOf(order, average, h)
           t == Changes(m, r)
<1>3. Step(w, label, m, t, Written(w))
  BY <1>2 DEF RankChanges
<1>4. S \in SUBSET Student
  BY DEF Ranked
<1>5. C \in SUBSET Cell
  BY <1>4, RowFacts
<1>6. DOMAIN r = RowRanks(h, S) /\ Writable(r)
  <2> HIDE DEF S, m, average
  <2> QED
    BY <1>2, <1>4, RanksFacts
<1>7. DOMAIN r \subseteq RankCells(h)
  BY <1>4, <1>6 DEF RankCells, RowRanks
<1>8. Holds(t) /\ DOMAIN t \subseteq DOMAIN r /\ \A c \in DOMAIN t : t[c] # Missing
  <2> HIDE DEF r, m
  <2>1. /\ DOMAIN t = {c \in DOMAIN r : m[c] # r[c]}
        /\ \A c \in DOMAIN t : t[c] = r[c]
        /\ Holds(r) => Holds(t)
    BY ChangesFacts
  <2> HIDE DEF t
  <2> QED
    BY <1>6, <2>1 DEF Writable
<1> HIDE DEF t, C
<1>9. pc'[w] = label /\ todo'[w] = t /\ dirty'[w] = Written(w)
  BY <1>1, <1>3, StepFacts DEF Sessions
<1>10. Flushing(w)' /\ Requested(w)' => Sessions' /\ Recalls(w) /\ Sees(w, Table(w))
  BY <1>1, <1>3, <1>5, <1>8, FlushStep
<1> QED
  BY <1>1, <1>7, <1>8, <1>9, <1>10

LEMMA SubmitSubjectStep ==
  ASSUME Sessions, NEW w \in Worker, SubmitSubject(w)
  PROVE  /\ Sessions' /\ Recalls(w) /\ Sees(w, Table(w)) /\ pc'[w] = "submit-ranks"
         /\ DOMAIN todo'[w] \subseteq RankCells(TaughtIn(w))
<1> DEFINE h == TaughtIn(w)
<1>1. pc[w] = "submit-subject" /\ RankStep(w, h, "submit-ranks")
  BY DEF SubmitSubject
<1>2. h \in Heading /\ "submit-ranks" \in Pc
  BY <1>1, SubmissionFacts DEF Pc, SubmitPc
<1> HIDE DEF h
<1>3. /\ UNCHANGED req /\ pc'[w] = "submit-ranks" /\ dirty'[w] = Written(w)
      /\ DOMAIN todo'[w] \subseteq RankCells(h)
      /\ Flushing(w)' /\ Requested(w)' => Sessions' /\ Recalls(w) /\ Sees(w, Table(w))
  BY <1>1, <1>2, RankStepFacts
<1>4. Written(w) \subseteq Scored(w) \cup SubjectRows(w)
  BY <1>1 DEF Sessions, Flushing, May, Written
<1>5. Flushing(w)'
  BY <1>3, <1>4, SameRequest DEF Flushing, May, h
<1>6. Requested(w)'
  <2>1. /\ req[w].assessment \in Marks[w] /\ req[w].assessment \in Assessment
        /\ TaughtIn(w) \in Subject /\ Batch(w) \subseteq Student
    BY <1>1 DEF Sessions, Requested, SubmitPc
  <2> QED
    BY <1>3, <2>1, SameRequest DEF Requested
<1> QED
  BY <1>3, <1>5, <1>6 DEF h

LEMMA SubmitTermStep ==
  ASSUME Sessions, NEW w \in Worker, SubmitTerm(w)
  PROVE  /\ Sessions' /\ Recalls(w) /\ Sees(w, Table(w)) /\ pc'[w] = "submit-commit"
         /\ DOMAIN todo'[w] \subseteq RankCells(General)
<1>1. pc[w] = "submit-term" /\ RankStep(w, General, "submit-commit")
  BY DEF SubmitTerm
<1>2. General \in Heading /\ "submit-commit" \in Pc
  BY DEF Heading, Pc, SubmitPc
<1>3. /\ UNCHANGED req /\ pc'[w] = "submit-commit" /\ dirty'[w] = Written(w)
      /\ DOMAIN todo'[w] \subseteq RankCells(General)
      /\ Flushing(w)' /\ Requested(w)' => Sessions' /\ Recalls(w) /\ Sees(w, Table(w))
  BY <1>1, <1>2, RankStepFacts
<1>4. Written(w) \subseteq SubjectDone(w) \cup TermRows(w)
  BY <1>1 DEF Sessions, Flushing, May, Written
<1>5. Flushing(w)'
  BY <1>3, <1>4, SameRequest DEF Flushing, May
<1>6. Requested(w)'
  <2>1. /\ req[w].assessment \in Marks[w] /\ req[w].assessment \in Assessment
        /\ TaughtIn(w) \in Subject /\ Batch(w) \subseteq Student
    BY <1>1 DEF Sessions, Requested, SubmitPc
  <2> QED
    BY <1>3, <2>1, SameRequest DEF Requested
<1> QED
  BY <1>3, <1>5, <1>6

LEMMA SubmitRanksStep ==
  ASSUME Sessions, NEW w \in Worker, SubmitRanks(w)
  PROVE  /\ Sessions' /\ Recalls(w) /\ Sees(w, Table(w)) /\ pc'[w] = "submit-general"
         /\ todo'[w] = NoCells
<1> DEFINE C == RowCells(General, Batch(w))
           m == Loaded(Flushed(w), C)
<1>1. /\ pc[w] = "submit-ranks" /\ UNCHANGED req
      /\ Step(w, "submit-general", m, NoCells, Written(w))
  BY DEF SubmitRanks
<1>2. General \in Heading /\ Batch(w) \in SUBSET Student
  BY <1>1, SubmissionFacts DEF SubmitPc
<1>3. C \in SUBSET Cell
  BY <1>2, RowFacts
<1>4. "submit-general" \in Pc
  BY DEF Pc, SubmitPc
<1> HIDE DEF C
<1>5. pc'[w] = "submit-general" /\ todo'[w] = NoCells /\ dirty'[w] = Written(w)
  BY <1>1, <1>4, StepFacts DEF Sessions
<1>6. Written(w) \subseteq SubjectDone(w)
  BY <1>1 DEF Sessions, Flushing, May, Written, SubjectDone
<1>7. Flushing(w)'
  BY <1>1, <1>5, <1>6, NothingHeld, SameRequest DEF Flushing, May
<1>8. Requested(w)'
  <2>1. /\ req[w].assessment \in Marks[w] /\ req[w].assessment \in Assessment
        /\ TaughtIn(w) \in Subject /\ Batch(w) \subseteq Student
    BY <1>1 DEF Sessions, Requested, SubmitPc
  <2> QED
    BY <1>1, <1>5, <2>1, SameRequest DEF Requested
<1>9. Sessions' /\ Recalls(w) /\ Sees(w, Table(w))
  <2>1. \A c \in DOMAIN NoCells : NoCells[c] # Missing
    BY NothingHeld
  <2> QED
    BY <1>1, <1>3, <1>4, <1>7, <1>8, <2>1, NothingHeld, FlushStep
<1> QED
  BY <1>5, <1>9

LEMMA SubmitGeneralStep ==
  ASSUME Sessions, NEW w \in Worker, SubmitGeneral(w)
  PROVE  /\ Sessions' /\ Recalls(w) /\ Sees(w, Kept(w)) /\ pc'[w] = "submit-term"
         /\ DOMAIN todo'[w] \subseteq RowCells(General, Batch(w)) /\ dirty'[w] = dirty[w]
         /\ \A h \in Subject, s \in Batch(w) : <<"average", h, s>> \in DOMAIN mem'[w]
         /\ \A s \in Batch(w) :
              LET c == <<"average", General, s>>
                  mean == GeneralAverage(mem'[w], s)
              IN IF mem'[w][c] = mean THEN c \notin DOMAIN todo'[w]
                 ELSE c \in DOMAIN todo'[w] /\ todo'[w][c] = mean
<1> DEFINE S == Batch(w)
           C == UNION {AverageCells(h, S) : h \in Subject}
           m == Loaded(mem[w], C)
           average == [c \in AverageCells(General, S) |-> GeneralAverage(m, c[3])]
           t == Upsert(m, General, average)
<1>1. /\ pc[w] = "submit-general" /\ UNCHANGED req
      /\ Step(w, "submit-term", m, t, dirty[w])
  BY DEF SubmitGeneral
<1>2. /\ General \in Heading /\ S \in SUBSET Student /\ SessionShape
      /\ Holds(mem[w]) /\ Holds(stored)
  BY <1>1, SubmissionFacts DEF SubmitPc
<1> HIDE DEF S
<1>3. \A h \in Subject : /\ AverageCells(h, S) \subseteq Cell
                         /\ \A s \in S : <<"average", h, s>> \in AverageCells(h, S)
  BY <1>2, RowFacts DEF Heading
<1>4. C \in SUBSET Cell /\ \A h \in Subject, s \in S : <<"average", h, s>> \in C
  BY <1>3
<1>5. DOMAIN stored = Cell
  BY <1>2 DEF SessionShape
<1> HIDE DEF C
<1>6. Holds(m) /\ DOMAIN m = DOMAIN mem[w] \cup C
  BY <1>2, <1>4, <1>5, LoadedFacts
<1> HIDE DEF m
<1>7. \A h \in Subject, s \in S : m[<<"average", h, s>>] \in Int \cup Empty
  <2> SUFFICES ASSUME NEW h \in Subject, NEW s \in S
               PROVE  m[<<"average", h, s>>] \in Int \cup Empty
    OBVIOUS
  <2> DEFINE c == <<"average", h, s>>
  <2>1. c \in DOMAIN m /\ c[1] = "average"
    BY <1>4, <1>6
  <2> QED
    BY <1>6, <2>1 DEF Holds, ValueOf
<1>8. \A c \in AverageCells(General, S) : c[3] \in S /\ c = <<"average", General, c[3]>> /\ c[1] = "average"
  BY <1>2, RowFacts
<1>9. \A s \in S : GeneralAverage(m, s) \in Int \cup {None} /\ GeneralAverage(m, s) # Missing
  BY <1>2, <1>7, GeneralAverageType
<1>10. /\ DOMAIN average = AverageCells(General, S)
       /\ \A c \in AverageCells(General, S) : average[c] \in Int \cup {None}
  BY <1>8, <1>9
<1>11. /\ DOMAIN t = {c \in RowCells(General, S) : m[c] = Missing \/ (c[1] = "average" /\ m[c] # average[c])}
       /\ \A c \in DOMAIN t : t[c] = IF c[1] = "average" THEN average[c] ELSE None
       /\ Holds(t) /\ \A c \in DOMAIN t : t[c] # Missing
  <2>1. \A c \in DOMAIN t : t[c] = IF c[1] = "average" THEN average[c] ELSE None
    BY DEF Upsert
  <2>2. {y[3] : y \in DOMAIN average} = S
    BY <1>2, StudentsOfCells
  <2>3. DOMAIN t = {c \in RowCells(General, S) : m[c] = Missing \/ (c[1] = "average" /\ m[c] # average[c])}
    BY <2>2 DEF Upsert
  <2>4. Writable(t)
    <3> HIDE DEF average
    <3> QED
      BY <1>2, <1>10, UpsertFacts
  <2> QED
    BY <2>1, <2>3, <2>4 DEF Writable
<1> HIDE DEF t
<1>12. "submit-term" \in Pc
  BY DEF Pc, SubmitPc
<1>13. pc'[w] = "submit-term" /\ mem'[w] = m /\ todo'[w] = t /\ dirty'[w] = dirty[w]
  BY <1>1, <1>2, <1>12, StepFacts
<1>14. dirty[w] \subseteq SubjectDone(w) /\ DOMAIN t \subseteq RowCells(General, S)
  BY <1>1, <1>11 DEF Sessions, Flushing, May
<1>15. Flushing(w)'
  BY <1>1, <1>13, <1>14, SameRequest DEF Flushing, May, TermRows, S
<1>16. Requested(w)'
  <2>1. /\ req[w].assessment \in Marks[w] /\ req[w].assessment \in Assessment
        /\ TaughtIn(w) \in Subject /\ Batch(w) \subseteq Student
    BY <1>1 DEF Sessions, Requested, SubmitPc
  <2> QED
    BY <1>1, <1>13, <2>1, SameRequest DEF Requested
<1>17. Sessions' /\ Recalls(w) /\ Sees(w, Kept(w))
  BY <1>1, <1>4, <1>11, <1>12, <1>15, <1>16, ReadStep DEF m
<1>18. ASSUME NEW s \in S
       PROVE  LET c == <<"average", General, s>>
                  mean == GeneralAverage(m, s)
              IN IF m[c] = mean THEN c \notin DOMAIN t
                 ELSE c \in DOMAIN t /\ t[c] = mean
  <2> DEFINE c == <<"average", General, s>>
             mean == GeneralAverage(m, s)
  <2>1. c \in AverageCells(General, S) /\ c \in RowCells(General, S) /\ c[1] = "average" /\ c[3] = s
    BY <1>2, RowFacts
  <2>2. average[c] = mean /\ mean # Missing
    BY <1>9, <2>1
  <2> HIDE DEF c, mean, average
  <2> QED
    BY <1>11, <2>1, <2>2 DEF c, mean
<1>19. \A h \in Subject, s \in S : <<"average", h, s>> \in DOMAIN m
  BY <1>4, <1>6
<1> QED
  BY <1>13, <1>14, <1>17, <1>18, <1>19 DEF S

LEMMA BeginRemarkStep ==
  ASSUME Sessions, NEW w \in Worker, BeginRemark(w)
  PROVE  /\ Sessions' /\ Recalls(w) /\ pc'[w] = "remark"
         /\ ~ Published({req'[w].student})
<1>1. PICK h \in Remarkable[w], s \in Student, text \in Remark \cup {None} :
        LET cell == <<"appreciation", h, s>>
            m == Loaded(NoCells, {cell})
        IN /\ stored[cell] # Missing
           /\ ~ Published({s})
           /\ Ask(w, [op |-> "remark", subject |-> h, student |-> s, text |-> text])
           /\ Step(w, "remark", m, Changes(m, [c \in {cell} |-> text]), {})
  BY DEF BeginRemark
<1> DEFINE cell == <<"appreciation", h, s>>
           r == [op |-> "remark", subject |-> h, student |-> s, text |-> text]
           C == {cell}
           m == Loaded(NoCells, C)
           new == [c \in C |-> text]
           t == Changes(m, new)
<1>2. ~ Published({s}) /\ req' = [req EXCEPT ![w] = r] /\ Step(w, "remark", m, t, {})
  BY <1>1 DEF Ask
<1>3. h \in Subject
  BY RequestAssumption
<1>4. cell \in Cell /\ cell[1] = "appreciation"
  BY <1>3, CellFacts
<1>5. C \in SUBSET Cell
  BY <1>4
<1>6. text \in Remark \cup Empty /\ text # Missing
  BY RequestAssumption, ClassAssumption DEF Empty
<1>7. DOMAIN new = C /\ Writable(new)
  <2>1. \A c \in C : c \in Cell /\ new[c] = text /\ c[1] = "appreciation"
    BY <1>4
  <2> QED
    BY <1>6, <2>1 DEF Writable, Holds, ValueOf
<1>8. Holds(t) /\ DOMAIN t \subseteq C /\ \A c \in DOMAIN t : t[c] # Missing
  <2> HIDE DEF m, new, C
  <2>1. /\ DOMAIN t = {c \in DOMAIN new : m[c] # new[c]}
        /\ \A c \in DOMAIN t : t[c] = new[c]
        /\ Holds(new) => Holds(t)
    BY ChangesFacts
  <2> HIDE DEF t
  <2> QED
    BY <1>7, <2>1 DEF Writable
<1> HIDE DEF t
<1>9. pc'[w] = "remark" /\ todo'[w] = t /\ dirty'[w] = {} /\ req'[w] = r
  BY <1>2, StepFacts DEF Sessions, SessionShape, Pc
<1>10. r.subject = h /\ r.student = s
  OBVIOUS
<1> HIDE DEF r
<1>11. Flushing(w)'
  BY <1>8, <1>9, <1>10 DEF Flushing, May
<1>12. Requested(w)'
  BY <1>9, <1>10 DEF Requested, SubmitPc
<1>13. "remark" \in Pc
  BY DEF Pc
<1>14. Sessions' /\ Recalls(w)
  <2> HIDE DEF C
  <2> QED
    BY <1>2, <1>5, <1>8, <1>11, <1>12, <1>13, BeginStep
<1>15. UNCHANGED cards
  BY <1>2 DEF Step
<1>16. ~ Published({req'[w].student})
  BY <1>2, <1>9, <1>10
<1> QED
  BY <1>9, <1>14, <1>15, <1>16

\* A director's requests hold no cells.
LEMMA DirectorSessions ==
  ASSUME Sessions, NEW w \in Worker, NEW label \in {"generate", "publish"},
         pc[w] \in {"idle", "generate"}, pc' = [pc EXCEPT ![w] = label],
         UNCHANGED <<stored, mem, todo, dirty>>,
         \E r : req' = [req EXCEPT ![w] = r], \E d : draft' = [draft EXCEPT ![w] = d]
  PROVE  Sessions'
<1>1. pc'[w] = label /\ pc' \in [Worker -> Pc]
  BY DEF Sessions, SessionShape, Pc
<1>2. \A v \in Worker : v # w => Same(v)
  BY DEF Sessions, SessionShape, Same
<1>3. \A v \in Worker : v # w => Flushing(v)' /\ Requested(v)'
  BY <1>2, SameKeeps DEF Sessions
<1>4. dirty[w] \subseteq {} /\ DOMAIN todo[w] \subseteq {}
  BY DEF Sessions, Flushing, May
<1>5. Flushing(w)' /\ Requested(w)'
  BY <1>1, <1>4 DEF Flushing, May, Requested, SubmitPc
<1>6. SessionShape'
  BY <1>1 DEF Sessions, SessionShape, Holds, ValueOf
<1> QED
  BY <1>3, <1>5, <1>6 DEF Sessions

LEMMA DirectSessions ==
  ASSUME Sessions, NEW w \in Worker, Direct(w)
  PROVE  Sessions'
<1>1. CASE BeginGenerate(w)
  <2>1. /\ pc[w] = "idle" /\ pc' = [pc EXCEPT ![w] = "generate"]
        /\ UNCHANGED <<stored, mem, todo, dirty>>
        /\ \E r : req' = [req EXCEPT ![w] = r]
        /\ \E d : draft' = [draft EXCEPT ![w] = d]
    BY <1>1 DEF BeginGenerate, Ask
  <2> QED
    BY <2>1, DirectorSessions
<1>2. CASE GenerateStudent(w)
  <2>1. pc[w] = "generate" /\ pc' = [pc EXCEPT ![w] = "generate"]
    BY <1>2 DEF GenerateStudent, Sessions, SessionShape
  <2>2. UNCHANGED <<stored, mem, todo, dirty>> /\ \E d : draft' = [draft EXCEPT ![w] = d]
    BY <1>2 DEF GenerateStudent
  <2>3. PICK s \in Student : req' = [req EXCEPT ![w].last = s]
    BY <1>2 DEF GenerateStudent
  <2>4. \E r : req' = [req EXCEPT ![w] = r]
    BY <2>3
  <2> QED
    BY <2>1, <2>2, <2>4, DirectorSessions
<1>3. CASE BeginPublish(w)
  <2>1. /\ pc[w] = "idle" /\ pc' = [pc EXCEPT ![w] = "publish"]
        /\ UNCHANGED <<stored, mem, todo, dirty>>
        /\ \E r : req' = [req EXCEPT ![w] = r]
        /\ \E d : draft' = [draft EXCEPT ![w] = d]
    BY <1>3 DEF BeginPublish, Ask
  <2> QED
    BY <2>1, DirectorSessions
<1>4. CASE GenerateCommit(w) \/ PublishCommit(w)
  <2>1. Finish(w) /\ stored' = stored
    BY <1>4 DEF GenerateCommit, PublishCommit
  <2> QED
    BY <2>1, FinishSessions
<1> QED
  BY <1>1, <1>2, <1>3, <1>4 DEF Direct

\* A commit of cells, or a rollback.
LEMMA EndFacts ==
  ASSUME NEW w \in Worker, SubmitCommit(w) \/ RemarkCommit(w) \/ Abort(w)
  PROVE  /\ Finish(w)
         /\ stored' = stored \/ stored' = Table(w)
         /\ UNCHANGED <<cards, announced>>
         /\ stored' # stored => CanFlush(w) /\ pc[w] \in {"submit-commit", "remark"}
BY DEF SubmitCommit, RemarkCommit, Abort

\* Whatever the interleaving, a session holds and flushes cells of the two
\* tables with values of their columns, and only those its statement is about.
LEMMA NextSessions == Sessions /\ [Next]_vars => Sessions'
<1> SUFFICES ASSUME Sessions, [Next]_vars PROVE Sessions'
  OBVIOUS
<1>1. CASE UNCHANGED vars
  BY <1>1 DEF vars, Sessions, SessionShape, Holds, ValueOf, Flushing, May, Requested, Scored,
       SubjectRows, SubjectDone, TermRows, Batch, TaughtIn
<1>2. ASSUME NEW w \in Worker, SubmitCommit(w) \/ RemarkCommit(w) \/ Abort(w)
      PROVE  Sessions'
  BY <1>2, EndFacts, FinishSessions
<1>3. ASSUME NEW w \in Worker, Submit(w) PROVE Sessions'
  BY <1>2, <1>3, BeginSubmitStep, SubmitMarksStep, SubmitAveragesStep, SubmitSubjectStep,
     SubmitRanksStep, SubmitGeneralStep, SubmitTermStep DEF Submit
<1>4. ASSUME NEW w \in Worker, Appreciate(w) PROVE Sessions'
  BY <1>2, <1>4, BeginRemarkStep DEF Appreciate
<1> QED
  BY <1>1, <1>2, <1>3, <1>4, DirectSessions DEF Next

-----------------------------------------------------------------------------
(* Types.                                                                  *)

\* What the requests of the directors hold.
Directed(w) ==
  /\ DOMAIN draft[w] \subseteq Student
  /\ \A s \in DOMAIN draft[w] : draft[w][s] \in Draft
  /\ pc[w] = "generate" =>
       /\ req[w] = [op |-> "generate", path |-> req[w].path, last |-> req[w].last]
       /\ req[w].path \in Nat
  /\ pc[w] = "publish" => req[w].student \in Student /\ DOMAIN draft[w] = {req[w].student}

RecordTypes ==
  /\ cards \in [Student -> ReportCard]
  /\ announced \in [Student -> Nat]
  /\ asked \in 0 .. MaxRequests

TypesInv == Sessions /\ RecordTypes /\ \A w \in Worker : Directed(w)

LEMMA InitTypes == Init => TypesInv
<1> SUFFICES ASSUME Init PROVE TypesInv
  OBVIOUS
<1>1. NoCard \in ReportCard
  BY DEF NoCard, NoPdf, ReportCard, Pdf
<1>2. RecordTypes
  BY <1>1, RequestAssumption DEF Init, RecordTypes
<1>3. \A w \in Worker : Directed(w)
  BY DEF Init, Directed, NothingRead
<1> QED
  BY <1>2, <1>3, InitSessions DEF TypesInv

\* What is read about a student has the type of a draft.
LEMMA ReadType ==
  ASSUME TypesInv, NEW s \in Student
  PROVE  ReadBy(s) \in Draft
<1>1. <<"average", General, s>> \in Cell /\ <<"rank", General, s>> \in Cell
  BY CellFacts DEF Heading
<1>2. stored[<<"average", General, s>>] \in Int \cup Empty /\ stored[<<"rank", General, s>>] \in Int \cup Empty
  <2>1. <<"average", General, s>> \in DOMAIN stored /\ <<"rank", General, s>> \in DOMAIN stored
    BY <1>1 DEF TypesInv, Sessions, SessionShape
  <2>2. <<"average", General, s>>[1] # "appreciation" /\ <<"rank", General, s>>[1] # "appreciation"
    OBVIOUS
  <2> QED
    BY <2>1, <2>2 DEF TypesInv, Sessions, SessionShape, Holds, ValueOf
<1>3. \A x \in Int \cup Empty : Cleared(x) \in Int \cup {None}
  BY DEF Cleared, Empty
<1>4. cards[s] \in ReportCard
  BY DEF TypesInv, RecordTypes
<1> QED
  BY <1>2, <1>3, <1>4 DEF ReadBy, Draft

\* A statement about cells, a start or an end moves one worker away from cards.
LEMMA CellTypes ==
  ASSUME TypesInv, NEW w \in Worker, NEW label \in Pc \ {"generate", "publish"},
         pc' = [pc EXCEPT ![w] = label], UNCHANGED <<cards, announced>>,
         UNCHANGED asked \/ (asked < MaxRequests /\ asked' = asked + 1),
         UNCHANGED req \/ \E r : req' = [req EXCEPT ![w] = r],
         UNCHANGED draft \/ draft' = [draft EXCEPT ![w] = NothingRead]
  PROVE  RecordTypes' /\ \A v \in Worker : Directed(v)'
<1>1. RecordTypes'
  BY RequestAssumption DEF TypesInv, RecordTypes
<1>2. \A v \in Worker : v # w => pc'[v] = pc[v] /\ req'[v] = req[v] /\ draft'[v] = draft[v]
  BY DEF TypesInv, Sessions, SessionShape
<1>3. \A v \in Worker : v # w => Directed(v)'
  BY <1>2 DEF TypesInv, Directed
<1>4. pc'[w] = label /\ (draft'[w] = draft[w] \/ draft'[w] = NothingRead)
  BY DEF TypesInv, Sessions, SessionShape
<1>5. Directed(w)'
  BY <1>4 DEF TypesInv, Directed, NothingRead
<1> QED
  BY <1>1, <1>3, <1>5

LEMMA TeacherTypes ==
  ASSUME TypesInv, NEW w \in Worker, Submit(w) \/ Appreciate(w) \/ Abort(w)
  PROVE  RecordTypes' /\ \A v \in Worker : Directed(v)'
<1> DEFINE Moves(label) ==
      /\ pc' = [pc EXCEPT ![w] = label]
      /\ UNCHANGED <<cards, announced>>
      /\ UNCHANGED asked \/ (asked < MaxRequests /\ asked' = asked + 1)
      /\ UNCHANGED req \/ \E r : req' = [req EXCEPT ![w] = r]
      /\ UNCHANGED draft \/ draft' = [draft EXCEPT ![w] = NothingRead]
<1>1. ASSUME NEW label, NEW m, NEW t, NEW d, Step(w, label, m, t, d),
             \/ UNCHANGED <<asked, req>>
             \/ \E r : Ask(w, r)
      PROVE  Moves(label)
  BY <1>1 DEF Step, Ask
<1>2. ASSUME Finish(w), UNCHANGED <<cards, announced>>
      PROVE  Moves("idle")
  BY <1>2 DEF Finish
<1>3. \A label \in Pc \ {"generate", "publish"} :
        Moves(label) => RecordTypes' /\ \A v \in Worker : Directed(v)'
  BY CellTypes
<1>4. \E label \in SubmitPc \cup {"idle", "remark"} : Moves(label)
  <2>1. CASE Abort(w) \/ SubmitCommit(w) \/ RemarkCommit(w)
    BY <2>1, <1>2 DEF Abort, SubmitCommit, RemarkCommit
  <2>2. CASE BeginSubmit(w)
    <3>1. Moves("submit-marks")
      BY <2>2, <1>1 DEF BeginSubmit
    <3> QED
      BY <3>1 DEF SubmitPc
  <2>3. CASE BeginRemark(w)
    <3>1. Moves("remark")
      BY <2>3, <1>1 DEF BeginRemark
    <3> QED
      BY <3>1
  <2>4. CASE SubmitMarks(w)
    <3>1. Moves("submit-averages")
      BY <2>4, <1>1 DEF SubmitMarks
    <3> QED
      BY <3>1 DEF SubmitPc
  <2>5. CASE SubmitAverages(w)
    <3>1. Moves("submit-subject")
      BY <2>5, <1>1 DEF SubmitAverages
    <3> QED
      BY <3>1 DEF SubmitPc
  <2>6. CASE SubmitSubject(w)
    <3>1. Moves("submit-ranks")
      BY <2>6, <1>1 DEF SubmitSubject, RankStep
    <3> QED
      BY <3>1 DEF SubmitPc
  <2>7. CASE SubmitRanks(w)
    <3>1. Moves("submit-general")
      BY <2>7, <1>1 DEF SubmitRanks
    <3> QED
      BY <3>1 DEF SubmitPc
  <2>8. CASE SubmitGeneral(w)
    <3>1. Moves("submit-term")
      BY <2>8, <1>1 DEF SubmitGeneral
    <3> QED
      BY <3>1 DEF SubmitPc
  <2>9. CASE SubmitTerm(w)
    <3>1. Moves("submit-commit")
      BY <2>9, <1>1 DEF SubmitTerm, RankStep
    <3> QED
      BY <3>1 DEF SubmitPc
  <2> HIDE DEF Moves
  <2> QED
    BY <2>1, <2>2, <2>3, <2>4, <2>5, <2>6, <2>7, <2>8, <2>9 DEF Submit, Appreciate
<1> HIDE DEF Moves
<1> QED
  BY <1>3, <1>4 DEF Pc, SubmitPc

\* The flush of a regenerated card makes a report_cards row of it.
LEMMA RegeneratedType ==
  ASSUME NEW now \in ReportCard, NEW d \in Draft, NEW path \in Nat
  PROVE  Regenerated(now, d, path) \in ReportCard
<1> DEFINE pdf == [path |-> path, average |-> d.average, rank |-> d.rank]
<1>1. pdf \in Pdf
  BY DEF Draft, Pdf
<1>2. CASE d.was.status = "NONE"
  BY <1>1, <1>2 DEF Regenerated, FirstCard, ReportCard, Draft
<1>3. CASE d.was.status # "NONE"
  <2> DEFINE average == Emit(d.was.average, now.average, d.average)
             rank == Emit(d.was.rank, now.rank, d.rank)
             status == Emit(d.was.status, now.status, "DRAFT")
             published == Emit(d.was.published, now.published, FALSE)
  <2>1. average \in Int \cup {None} /\ rank \in Int \cup {None}
    BY DEF Emit, ReportCard, Draft
  <2>2. status \in {"NONE", "DRAFT", "PUBLISHED"} /\ published \in BOOLEAN
    BY DEF Emit, ReportCard
  <2>3. now = [status |-> now.status, published |-> now.published, pdf |-> now.pdf,
               average |-> now.average, rank |-> now.rank]
    BY DEF ReportCard
  <2>4. Refilled(now, d, path) = [now EXCEPT !.pdf = pdf, !.average = average, !.rank = rank]
    BY DEF Refilled
  <2> HIDE DEF average, rank, status, published, pdf
  <2>5. Refilled(now, d, path) = [status |-> now.status, published |-> now.published, pdf |-> pdf,
                                  average |-> average, rank |-> rank]
    BY <2>3, <2>4
  <2>6. Regenerated(now, d, path) = [status |-> status, published |-> published, pdf |-> pdf,
                                     average |-> average, rank |-> rank]
    <3> DEFINE old == Refilled(now, d, path)
    <3>1. Regenerated(now, d, path)
            = [old EXCEPT !.status = Emit(d.was.status, old.status, "DRAFT"),
                          !.published = Emit(d.was.published, old.published, FALSE)]
      BY <1>3 DEF Regenerated
    <3> HIDE DEF old
    <3>2. old = [status |-> now.status, published |-> now.published, pdf |-> pdf,
                 average |-> average, rank |-> rank]
      BY <2>5 DEF old
    <3>3. Regenerated(now, d, path) = [old EXCEPT !.status = status, !.published = published]
      BY <3>1, <3>2 DEF status, published
    <3> QED
      BY <3>2, <3>3
  <2> QED
    BY <1>1, <2>1, <2>2, <2>6 DEF ReportCard
<1> QED
  BY <1>2, <1>3

LEMMA DirectorTypes ==
  ASSUME TypesInv, NEW w \in Worker, Direct(w)
  PROVE  RecordTypes' /\ \A v \in Worker : Directed(v)'
<1>1. ASSUME \A v \in Worker : v # w => pc'[v] = pc[v] /\ req'[v] = req[v] /\ draft'[v] = draft[v]
      PROVE  \A v \in Worker : v # w => Directed(v)'
  BY <1>1 DEF TypesInv, Directed
<1>2. CASE BeginGenerate(w)
  <2> DEFINE r == [op |-> "generate", path |-> asked + 1, last |-> None]
  <2>1. /\ asked < MaxRequests /\ asked' = asked + 1 /\ UNCHANGED <<cards, announced>>
        /\ req' = [req EXCEPT ![w] = r] /\ pc' = [pc EXCEPT ![w] = "generate"]
        /\ draft' = [draft EXCEPT ![w] = NothingRead]
    BY <1>2 DEF BeginGenerate, Ask
  <2>2. req'[w] = r /\ pc'[w] = "generate" /\ draft'[w] = NothingRead
    BY <2>1 DEF TypesInv, Sessions, SessionShape
  <2>3. r.path \in Nat /\ r = [op |-> "generate", path |-> r.path, last |-> r.last]
    BY RequestAssumption DEF TypesInv, RecordTypes
  <2>4. RecordTypes'
    BY <2>1, RequestAssumption DEF TypesInv, RecordTypes
  <2>5. \A v \in Worker : v # w => Directed(v)'
    <3>1. \A v \in Worker : v # w => pc'[v] = pc[v] /\ req'[v] = req[v] /\ draft'[v] = draft[v]
      BY <2>1 DEF TypesInv, Sessions, SessionShape
    <3> QED
      BY <3>1, <1>1
  <2> HIDE DEF r
  <2>6. Directed(w)'
    BY <2>2, <2>3 DEF Directed, NothingRead
  <2> QED
    BY <2>4, <2>5, <2>6
<1>3. CASE GenerateStudent(w)
  <2>1. PICK s \in Student \ DOMAIN draft[w] :
          /\ draft' = [draft EXCEPT ![w] = [t \in DOMAIN @ \cup {s} |-> IF t = s THEN ReadBy(s) ELSE @[t]]]
          /\ req' = [req EXCEPT ![w].last = s]
    BY <1>3 DEF GenerateStudent
  <2>2. pc[w] = "generate" /\ UNCHANGED <<stored, cards, announced, asked, pc, mem, todo, dirty>>
    BY <1>3 DEF GenerateStudent
  <2>3. /\ draft'[w] = [t \in DOMAIN draft[w] \cup {s} |-> IF t = s THEN ReadBy(s) ELSE draft[w][t]]
        /\ req'[w] = [req[w] EXCEPT !.last = s]
    BY <2>1 DEF TypesInv, Sessions, SessionShape
  <2>4. ReadBy(s) \in Draft
    BY ReadType
  <2>5. /\ req[w] = [op |-> "generate", path |-> req[w].path, last |-> req[w].last]
        /\ req[w].path \in Nat
    BY <2>2 DEF TypesInv, Directed
  <2>6. req'[w] = [op |-> "generate", path |-> req[w].path, last |-> s]
    BY <2>3, <2>5
  <2>7. DOMAIN draft'[w] \subseteq Student /\ \A t \in DOMAIN draft'[w] : draft'[w][t] \in Draft
    BY <2>3, <2>4 DEF TypesInv, Directed
  <2>8. Directed(w)'
    BY <2>2, <2>5, <2>6, <2>7 DEF Directed
  <2>9. \A v \in Worker : v # w => Directed(v)'
    <3>1. \A v \in Worker : v # w => pc'[v] = pc[v] /\ req'[v] = req[v] /\ draft'[v] = draft[v]
      BY <2>1, <2>2 DEF TypesInv, Sessions, SessionShape
    <3> QED
      BY <3>1, <1>1
  <2>10. RecordTypes'
    BY <2>2 DEF TypesInv, RecordTypes
  <2> QED
    BY <2>8, <2>9, <2>10
<1>4. CASE GenerateCommit(w)
  <2>1. /\ pc[w] = "generate" /\ DOMAIN draft[w] = Student /\ Finish(w) /\ UNCHANGED announced
        /\ cards' = [s \in Student |-> Regenerated(cards[s], draft[w][s], req[w].path)]
    BY <1>4 DEF GenerateCommit
  <2>2. \A s \in Student : Regenerated(cards[s], draft[w][s], req[w].path) \in ReportCard
    BY <2>1, RegeneratedType DEF TypesInv, RecordTypes, Directed
  <2>3. RecordTypes'
    BY <2>1, <2>2 DEF TypesInv, RecordTypes, Finish
  <2>4. \A v \in Worker : v # w => Directed(v)'
    <3>1. \A v \in Worker : v # w => pc'[v] = pc[v] /\ req'[v] = req[v] /\ draft'[v] = draft[v]
      BY <2>1 DEF TypesInv, Sessions, SessionShape, Finish
    <3> QED
      BY <3>1, <1>1
  <2>5. Directed(w)'
    <3>1. pc'[w] = "idle" /\ draft'[w] = NothingRead
      BY <2>1 DEF TypesInv, Sessions, SessionShape, Finish
    <3> QED
      BY <3>1 DEF Directed, NothingRead
  <2> QED
    BY <2>3, <2>4, <2>5
<1>5. CASE BeginPublish(w)
  <2>1. PICK s \in Student :
          /\ Ask(w, [op |-> "publish", student |-> s])
          /\ draft' = [draft EXCEPT ![w] = [t \in {s} |-> ReadBy(s)]]
    BY <1>5 DEF BeginPublish
  <2>2. pc' = [pc EXCEPT ![w] = "publish"] /\ UNCHANGED <<cards, announced>>
    BY <1>5 DEF BeginPublish
  <2>3. pc'[w] = "publish" /\ req'[w].student = s /\ draft'[w] = [t \in {s} |-> ReadBy(s)]
    BY <2>1, <2>2 DEF TypesInv, Sessions, SessionShape, Ask
  <2>4. ReadBy(s) \in Draft
    BY ReadType
  <2>5. Directed(w)'
    BY <2>3, <2>4 DEF Directed
  <2>6. \A v \in Worker : v # w => Directed(v)'
    <3>1. \A v \in Worker : v # w => pc'[v] = pc[v] /\ req'[v] = req[v] /\ draft'[v] = draft[v]
      BY <2>1, <2>2 DEF TypesInv, Sessions, SessionShape, Ask
    <3> QED
      BY <3>1, <1>1
  <2>7. RecordTypes'
    BY <2>1, <2>2, RequestAssumption DEF TypesInv, RecordTypes, Ask
  <2> QED
    BY <2>5, <2>6, <2>7
<1>6. CASE PublishCommit(w)
  <2> DEFINE s == req[w].student
             was == draft[w][s].was
             status == Emit(was.status, cards[s].status, "PUBLISHED")
  <2>1. /\ pc[w] = "publish" /\ Finish(w)
        /\ cards' = [cards EXCEPT ![s].status = Emit(was.status, @, "PUBLISHED"), ![s].published = TRUE]
        /\ announced' = [announced EXCEPT ![s] = IF was.published THEN @ ELSE @ + 1]
    BY <1>6 DEF PublishCommit
  <2>2. s \in Student
    BY <2>1 DEF TypesInv, Directed
  <2>3. cards[s] \in ReportCard
    BY <2>2 DEF TypesInv, RecordTypes
  <2>4. status \in {"NONE", "DRAFT", "PUBLISHED"}
    BY <2>3 DEF Emit, ReportCard
  <2>5. cards' = [cards EXCEPT ![s] = [@ EXCEPT !.status = status, !.published = TRUE]]
    BY <2>1, <2>2, <2>3 DEF ReportCard, TypesInv, RecordTypes
  <2> HIDE DEF status
  <2>6. [cards[s] EXCEPT !.status = status, !.published = TRUE] \in ReportCard
    BY <2>3, <2>4 DEF ReportCard
  <2>7. cards' \in [Student -> ReportCard]
    BY <2>2, <2>5, <2>6 DEF TypesInv, RecordTypes
  <2>8. announced' \in [Student -> Nat]
    BY <2>1, <2>2 DEF TypesInv, RecordTypes
  <2>9. RecordTypes'
    BY <2>1, <2>7, <2>8 DEF TypesInv, RecordTypes, Finish
  <2>10. \A v \in Worker : v # w => Directed(v)'
    <3>1. \A v \in Worker : v # w => pc'[v] = pc[v] /\ req'[v] = req[v] /\ draft'[v] = draft[v]
      BY <2>1 DEF TypesInv, Sessions, SessionShape, Finish
    <3> QED
      BY <3>1, <1>1
  <2>11. Directed(w)'
    <3>1. pc'[w] = "idle" /\ draft'[w] = NothingRead
      BY <2>1 DEF TypesInv, Sessions, SessionShape, Finish
    <3> QED
      BY <3>1 DEF Directed, NothingRead
  <2> QED
    BY <2>9, <2>10, <2>11
<1> QED
  BY <1>2, <1>3, <1>4, <1>5, <1>6 DEF Direct

LEMMA NextTypes == TypesInv /\ [Next]_vars => TypesInv'
<1> SUFFICES ASSUME TypesInv, [Next]_vars PROVE TypesInv'
  OBVIOUS
<1>1. Sessions'
  BY NextSessions DEF TypesInv
<1>2. CASE UNCHANGED vars
  <2>1. RecordTypes' /\ \A w \in Worker : Directed(w)'
    BY <1>2 DEF vars, TypesInv, RecordTypes, Directed
  <2> QED
    BY <1>1, <2>1 DEF TypesInv
<1>3. ASSUME NEW w \in Worker, Submit(w) \/ Appreciate(w) \/ Direct(w) \/ Abort(w)
      PROVE  RecordTypes' /\ \A v \in Worker : Directed(v)'
  BY <1>3, TeacherTypes, DirectorTypes
<1> QED
  BY <1>1, <1>2, <1>3 DEF Next, TypesInv

\* Every variable keeps its type, with any number of requests at once: what the
\* sessions hold and flush are cells of results and averages with values of
\* their columns, whatever was loaded, computed or refused in between.
THEOREM TermTypes == Spec => []TypeOK
<1>1. TypesInv => TypeOK
  <2> SUFFICES ASSUME TypesInv PROVE TypeOK
    OBVIOUS
  <2>1. \A c : ValueOf(c) \subseteq Value
    BY DEF ValueOf, Value
  <2>2. stored \in [Cell -> Value]
    BY <2>1 DEF TypesInv, Sessions, SessionShape, Holds
  <2>3. \A w \in Worker :
       /\ DOMAIN mem[w] \subseteq Cell /\ \A c \in DOMAIN mem[w] : mem[w][c] \in Value
       /\ DOMAIN todo[w] \subseteq Cell /\ \A c \in DOMAIN todo[w] : todo[w][c] \in Value
       /\ dirty[w] \subseteq DOMAIN mem[w]
    BY <2>1 DEF TypesInv, Sessions, SessionShape, Holds
  <2>4. \A w \in Worker :
       DOMAIN draft[w] \subseteq Student /\ \A s \in DOMAIN draft[w] : draft[w][s] \in Draft
    BY DEF TypesInv, Directed
  <2>5. pc \in [Worker -> Pc] /\ RecordTypes
    BY DEF TypesInv, Sessions, SessionShape
  <2> QED
    BY <2>2, <2>3, <2>4, <2>5 DEF TypeOK, RecordTypes
<1> QED
  BY <1>1, InitTypes, NextTypes, PTL DEF Spec

-----------------------------------------------------------------------------
(* What other transactions leave alone.                                    *)

\* The cells the transaction of w has written or is about to write.
LEMMA WrittenKinds ==
  ASSUME Sessions, NEW w \in Worker, NEW c \in Written(w)
  PROVE  \/ /\ pc[w] \in SubmitPc /\ c[1] = "score"
            /\ c[2] = req[w].assessment /\ c[3] \in Batch(w)
         \/ /\ pc[w] \in SubmitPc /\ c[1] # "score" /\ c[2] \in {TaughtIn(w), General}
            /\ c[3] \in Batch(w) \/ c[1] = "rank"
         \/ pc[w] = "remark" /\ c = <<"appreciation", req[w].subject, req[w].student>>
<1>1. pc[w] \in SubmitPc \cup {"idle", "generate", "publish", "remark"}
  BY DEF Sessions, SessionShape, Pc
<1>2. CASE pc[w] \in {"idle", "generate", "publish"}
  BY <1>2 DEF Sessions, Flushing, May, Written
<1>3. CASE pc[w] = "remark"
  BY <1>3 DEF Sessions, Flushing, May, Written
<1>4. CASE pc[w] \in SubmitPc
  <2>1. /\ req[w].assessment \in Assessment /\ TaughtIn(w) \in Heading
        /\ Batch(w) \in SUBSET Student /\ General \in Heading
    BY <1>4, SubmissionFacts
  <2>2. AverageCells(TaughtIn(w), Batch(w)) \subseteq SubjectRows(w)
    BY <2>1, RowFacts DEF SubjectRows
  <2>3. Written(w) \subseteq SubjectDone(w) \cup TermRows(w) \cup RankCells(General)
    BY <1>4, <2>2 DEF Sessions, Flushing, May, Written, SubmitPc, SubjectDone
  <2>4. c \in Scored(w) \/ c \in SubjectRows(w) \/ c \in TermRows(w)
          \/ c \in RankCells(TaughtIn(w)) \/ c \in RankCells(General)
    BY <2>3 DEF SubjectDone
  <2>5. CASE c \in Scored(w)
    BY <1>4, <2>1, <2>5, ScoreFacts DEF Scored
  <2>6. CASE c \in SubjectRows(w)
    BY <1>4, <2>1, <2>6, RowFacts DEF SubjectRows, Columns
  <2>7. CASE c \in TermRows(w)
    BY <1>4, <2>1, <2>7, RowFacts DEF TermRows, Columns
  <2>8. CASE c \in RankCells(TaughtIn(w)) \/ c \in RankCells(General)
    BY <1>4, <2>8 DEF RankCells
  <2> QED
    BY <2>4, <2>5, <2>6, <2>7, <2>8
<1> QED
  BY <1>1, <1>2, <1>3, <1>4

\* The cells a worker may ever write.
Reach(v) ==
  {c \in Cell :
     \/ c[1] = "score" /\ c[2] \in Marks[v]
     \/ c[1] # "score" /\ Marks[v] # {} /\ c[2] \in {General} \cup {SubjectOf[a] : a \in Marks[v]}
     \/ c[1] = "appreciation" /\ c[2] \in Remarkable[v]}
Private(w, c) == \A v \in Worker : c \in Reach(v) => v = w

LEMMA WrittenReach ==
  ASSUME Sessions, NEW w \in Worker
  PROVE  Written(w) \subseteq Reach(w)
<1> SUFFICES ASSUME NEW c \in Written(w) PROVE c \in Reach(w)
  OBVIOUS
<1>1. c \in Cell
  BY DEF Sessions, SessionShape, Holds, Written
<1>2. pc[w] \in SubmitPc => /\ req[w].assessment \in Marks[w]
                            /\ TaughtIn(w) \in {SubjectOf[a] : a \in Marks[w]}
  BY DEF Sessions, Requested, TaughtIn
<1>3. pc[w] = "remark" => req[w].subject \in Remarkable[w]
  BY DEF Sessions, Requested
<1> QED
  BY <1>1, <1>2, <1>3, WrittenKinds DEF Reach

\* What a session holds of the cells that no other worker writes, and has not
\* written itself, is what is stored, however old it is.
MemoryIsCurrent ==
  \A w \in Worker : \A c \in DOMAIN mem[w] \ dirty[w] :
    Private(w, c) => mem[w][c] = stored[c]

\* Stored averages are whole hundredths of a point.
StoredIsRounded ==
  \A c \in Cell : c[1] = "average" => RoundedToCent(stored[c]) = stored[c]

\* A statement of w, its session going on.
Statement(w) ==
  /\ stored' = stored /\ Recalls(w)
  /\ \A v \in Worker : v # w => Same(v)

\* The end of the request of w, with a commit or without.
Ending(w) ==
  /\ Finish(w)
  /\ stored' = stored \/ stored' = Table(w)
  /\ \A v \in Worker : v # w => Same(v)

MemoryInv == Sessions /\ MemoryIsCurrent /\ StoredIsRounded

LEMMA InitMemory == Init => MemoryInv
<1> SUFFICES ASSUME Init PROVE MemoryInv
  OBVIOUS
<1>1. MemoryIsCurrent
  BY NothingHeld DEF Init, MemoryIsCurrent
<1>2. StoredIsRounded
  BY DEF Init, StoredIsRounded, RoundedToCent, Empty
<1> QED
  BY <1>1, <1>2, InitSessions DEF MemoryInv

LEMMA StatementMemory ==
  ASSUME MemoryInv, NEW w \in Worker, Statement(w), Sessions'
  PROVE  MemoryInv'
<1>1. StoredIsRounded'
  BY DEF MemoryInv, Statement, StoredIsRounded
<1>2. ASSUME NEW v \in Worker, NEW c \in DOMAIN mem'[v] \ dirty'[v], Private(v, c)
      PROVE  mem'[v][c] = stored'[c]
  <2>1. CASE v = w
    BY <1>2, <2>1 DEF MemoryInv, Statement, Recalls, MemoryIsCurrent
  <2>2. CASE v # w
    BY <1>2, <2>2 DEF MemoryInv, Statement, Same, MemoryIsCurrent
  <2> QED
    BY <2>1, <2>2
<1>3. \A v \in Worker : \A c : Private(v, c)' <=> Private(v, c)
  BY DEF Private, Reach
<1>4. MemoryIsCurrent'
  BY <1>2, <1>3 DEF MemoryIsCurrent
<1> QED
  BY <1>1, <1>4 DEF MemoryInv

LEMMA EndingMemory ==
  ASSUME MemoryInv, NEW w \in Worker, Ending(w)
  PROVE  MemoryInv'
<1>1. Sessions'
  BY FinishSessions DEF MemoryInv, Ending
<1>2. /\ DOMAIN Table(w) = Cell
      /\ \A c \in Cell : Table(w)[c] = IF c \in Written(w) THEN InColumn(c, Flushed(w)[c]) ELSE stored[c]
  BY DEF Table
<1>3. StoredIsRounded'
  <2>1. CASE stored' = stored
    BY <2>1 DEF MemoryInv, StoredIsRounded
  <2>2. CASE stored' = Table(w)
    <3> SUFFICES ASSUME NEW c \in Cell, c[1] = "average"
                 PROVE  RoundedToCent(Table(w)[c]) = Table(w)[c]
      BY <2>2 DEF StoredIsRounded
    <3>1. CASE c \in Written(w)
      <4>1. Holds(Flushed(w)) /\ c \in DOMAIN Flushed(w)
        BY <3>1, FlushedFacts DEF MemoryInv, Sessions
      <4>2. Flushed(w)[c] \in Int \cup Empty
        BY <4>1 DEF Holds, ValueOf
      <4> QED
        BY <1>2, <3>1, <4>2, Rounding DEF InColumn
    <3>2. CASE c \notin Written(w)
      BY <1>2, <3>2 DEF MemoryInv, StoredIsRounded
    <3> QED
      BY <3>1, <3>2
  <2> QED
    BY <2>1, <2>2 DEF Ending
<1>4. ASSUME NEW v \in Worker, NEW c \in DOMAIN mem'[v] \ dirty'[v], Private(v, c)
      PROVE  mem'[v][c] = stored'[c]
  <2>1. CASE v = w
    <3>1. DOMAIN mem'[w] = {}
      BY NothingHeld DEF Ending, Finish, MemoryInv, Sessions, SessionShape
    <3> QED
      BY <1>4, <2>1, <3>1
  <2>2. CASE v # w
    <3>0. mem'[v] = mem[v] /\ dirty'[v] = dirty[v] /\ Holds(mem[v])
      BY <2>2 DEF Ending, Same, MemoryInv, Sessions, SessionShape
    <3>1. mem'[v][c] = stored[c] /\ c \in Cell
      BY <1>4, <3>0 DEF MemoryInv, MemoryIsCurrent, Holds
    <3>2. c \notin Written(w)
      BY <1>4, <2>2, WrittenReach DEF MemoryInv, Private
    <3> QED
      BY <1>2, <3>1, <3>2 DEF Ending
  <2> QED
    BY <2>1, <2>2
<1>5. \A v \in Worker : \A c : Private(v, c)' <=> Private(v, c)
  BY DEF Private, Reach
<1>6. MemoryIsCurrent'
  BY <1>4, <1>5 DEF MemoryIsCurrent
<1> QED
  BY <1>1, <1>3, <1>6 DEF MemoryInv

\* Only the statements and the end of a request change anything, and they are
\* the steps of one worker.
LEMMA StatementSteps ==
  ASSUME Sessions, NEW w \in Worker, Submit(w) \/ Appreciate(w) \/ Direct(w) \/ Abort(w)
  PROVE  Sessions' /\ (Statement(w) \/ Ending(w))
<1>1. SessionShape
  BY DEF Sessions
<1>2. ASSUME NEW label \in Pc, NEW m, NEW t, NEW d, Step(w, label, m, t, d),
             UNCHANGED req \/ \E r : req' = [req EXCEPT ![w] = r]
      PROVE  stored' = stored /\ \A v \in Worker : v # w => Same(v)
  BY <1>1, <1>2, StepFacts
<1>3. ASSUME Finish(w) PROVE \A v \in Worker : v # w => Same(v)
  BY <1>1, <1>3, FinishFacts
<1>4. CASE SubmitCommit(w) \/ RemarkCommit(w) \/ Abort(w)
  BY <1>3, <1>4, EndFacts, FinishSessions DEF Ending
<1>5. CASE GenerateCommit(w) \/ PublishCommit(w)
  <2>1. Finish(w) /\ stored' = stored
    BY <1>5 DEF GenerateCommit, PublishCommit
  <2> QED
    BY <2>1, <1>3, FinishSessions DEF Ending
<1>6. CASE BeginGenerate(w) \/ GenerateStudent(w) \/ BeginPublish(w)
  <2>1. Direct(w)
    BY <1>6 DEF Direct
  <2>2. UNCHANGED <<stored, mem, todo, dirty>>
    BY <1>6 DEF BeginGenerate, GenerateStudent, BeginPublish
  <2>3. \A v \in Worker : v # w => pc'[v] = pc[v] /\ req'[v] = req[v]
    BY <1>1, <1>6 DEF BeginGenerate, GenerateStudent, BeginPublish, Ask, SessionShape
  <2>4. Recalls(w)
    BY <2>2 DEF Recalls
  <2> QED
    BY <2>1, <2>2, <2>3, <2>4, DirectSessions DEF Statement, Same
<1>7. CASE BeginSubmit(w)
  <2>1. stored' = stored /\ \A v \in Worker : v # w => Same(v)
    BY <1>2, <1>7 DEF BeginSubmit, Ask, Pc, SubmitPc
  <2> QED
    BY <1>7, <2>1, BeginSubmitStep DEF Statement
<1>8. CASE SubmitMarks(w)
  <2>1. stored' = stored /\ \A v \in Worker : v # w => Same(v)
    BY <1>2, <1>8 DEF SubmitMarks, Pc, SubmitPc
  <2> QED
    BY <1>8, <2>1, SubmitMarksStep DEF Statement
<1>9. CASE SubmitAverages(w)
  <2>1. stored' = stored /\ \A v \in Worker : v # w => Same(v)
    BY <1>2, <1>9 DEF SubmitAverages, Pc, SubmitPc
  <2> QED
    BY <1>9, <2>1, SubmitAveragesStep DEF Statement
<1>10. CASE SubmitSubject(w)
  <2>1. stored' = stored /\ \A v \in Worker : v # w => Same(v)
    BY <1>2, <1>10 DEF SubmitSubject, RankStep, Pc, SubmitPc
  <2> QED
    BY <1>10, <2>1, SubmitSubjectStep DEF Statement
<1>11. CASE SubmitRanks(w)
  <2>1. stored' = stored /\ \A v \in Worker : v # w => Same(v)
    BY <1>2, <1>11 DEF SubmitRanks, Pc, SubmitPc
  <2> QED
    BY <1>11, <2>1, SubmitRanksStep DEF Statement
<1>12. CASE SubmitGeneral(w)
  <2>1. stored' = stored /\ \A v \in Worker : v # w => Same(v)
    BY <1>2, <1>12 DEF SubmitGeneral, Pc, SubmitPc
  <2> QED
    BY <1>12, <2>1, SubmitGeneralStep DEF Statement
<1>13. CASE SubmitTerm(w)
  <2>1. stored' = stored /\ \A v \in Worker : v # w => Same(v)
    BY <1>2, <1>13 DEF SubmitTerm, RankStep, Pc, SubmitPc
  <2> QED
    BY <1>13, <2>1, SubmitTermStep DEF Statement
<1>14. CASE BeginRemark(w)
  <2>1. stored' = stored /\ \A v \in Worker : v # w => Same(v)
    BY <1>2, <1>14 DEF BeginRemark, Ask, Pc
  <2> QED
    BY <1>14, <2>1, BeginRemarkStep DEF Statement
<1> QED
  BY <1>4, <1>5, <1>6, <1>7, <1>8, <1>9, <1>10, <1>11, <1>12, <1>13, <1>14
     DEF Submit, Appreciate, Direct

LEMMA NextMemory == MemoryInv /\ [Next]_vars => MemoryInv'
<1> SUFFICES ASSUME MemoryInv, [Next]_vars PROVE MemoryInv'
  OBVIOUS
<1>1. CASE UNCHANGED vars
  <2>1. Sessions'
    BY NextSessions DEF MemoryInv
  <2>2. MemoryIsCurrent' /\ StoredIsRounded'
    BY <1>1 DEF vars, MemoryInv, MemoryIsCurrent, StoredIsRounded, Private, Reach
  <2> QED
    BY <2>1, <2>2 DEF MemoryInv
<1>2. ASSUME NEW w \in Worker, Submit(w) \/ Appreciate(w) \/ Direct(w) \/ Abort(w)
      PROVE  MemoryInv'
  <2>1. Sessions' /\ (Statement(w) \/ Ending(w))
    BY <1>2, StatementSteps DEF MemoryInv
  <2> QED
    BY <2>1, StatementMemory, EndingMemory
<1> QED
  BY <1>1, <1>2 DEF Next

-----------------------------------------------------------------------------
(* Subject averages, when the marks of a subject are submitted by one       *)
(* request at a time.                                                      *)

OneWorkerPerSubject ==
  \A v, w \in Worker : \A a \in Marks[v] : \A b \in Marks[w] :
    SubjectOf[a] = SubjectOf[b] => v = w

CurrentIn(table, h, s) ==
  LET cell == <<"average", h, s>> IN
  IF table[cell] = Missing THEN Noted(table, h, s) = {}
  ELSE table[cell] = RoundedToCent(SubjectAverage(table, h, s))

Late == {"submit-subject", "submit-ranks", "submit-general", "submit-term", "submit-commit"}

\* From the computation of the averages on, the transaction sees them right.
AveragesOf(w) ==
  /\ pc[w] = "submit-averages" =>
       \A s \in Batch(w) : todo[w][<<"average", TaughtIn(w), s>>]
                             = SubjectAverage(Table(w), TaughtIn(w), s)
  /\ pc[w] \in Late => \A s \in Student : CurrentIn(Table(w), TaughtIn(w), s)
AveragesInv == \A w \in Worker : AveragesOf(w)

SubjectsInv == MemoryInv /\ SubjectAveragesCurrent /\ AveragesInv

\* Two tables with the same scores, or averages, of the students S in a subject.
SameScores(t, u, h, S) ==
  \A a \in Assessment, s \in S : SubjectOf[a] = h => t[<<"score", a, s>>] = u[<<"score", a, s>>]
SameAverages(t, u, h, S) == \A s \in S : t[<<"average", h, s>>] = u[<<"average", h, s>>]

LEMMA AverageOfScores ==
  ASSUME NEW t, NEW u, NEW h, NEW S, NEW s \in S, SameScores(t, u, h, S)
  PROVE  Noted(t, h, s) = Noted(u, h, s) /\ SubjectAverage(t, h, s) = SubjectAverage(u, h, s)
<1>1. Noted(t, h, s) = Noted(u, h, s)
  BY DEF Noted, SameScores
<1> DEFINE N == Noted(t, h, s)
           f == [a \in N |-> (t[<<"score", a, s>>] * TargetScale * Point) \div MaxScore[a]]
           g == [a \in N |-> (u[<<"score", a, s>>] * TargetScale * Point) \div MaxScore[a]]
<1>2. \A a \in N : t[<<"score", a, s>>] = u[<<"score", a, s>>]
  BY DEF Noted, SameScores
<1>3. f = g
  <2> HIDE DEF N
  <2> QED
    BY <1>2
<1>4. SubjectAverage(t, h, s) = WeightedMean(f, Weight, N)
  BY DEF SubjectAverage
<1>5. SubjectAverage(u, h, s) = WeightedMean(g, Weight, N)
  BY <1>1 DEF SubjectAverage
<1> HIDE DEF f, g, N
<1> QED
  BY <1>1, <1>3, <1>4, <1>5

LEMMA CurrentSame ==
  ASSUME NEW t, NEW u, NEW h, NEW S, NEW s \in S, SameScores(t, u, h, S), SameAverages(t, u, h, S),
         CurrentIn(t, h, s)
  PROVE  CurrentIn(u, h, s)
BY AverageOfScores DEF CurrentIn, SameAverages

\* The transaction of w leaves the other subjects alone.
LEMMA OtherSubjects ==
  ASSUME Sessions, NEW w \in Worker, NEW h \in Subject, pc[w] \in SubmitPc => h # TaughtIn(w)
  PROVE  /\ \A s \in Student : <<"average", h, s>> \notin Written(w)
         /\ \A a \in Assessment, s \in Student : SubjectOf[a] = h => <<"score", a, s>> \notin Written(w)
<1>1. h # General
  BY ClassAssumption
<1>2. ASSUME NEW s \in Student, <<"average", h, s>> \in Written(w) PROVE FALSE
  BY <1>1, <1>2, WrittenKinds
<1>3. ASSUME NEW a \in Assessment, NEW s \in Student, SubjectOf[a] = h, <<"score", a, s>> \in Written(w)
      PROVE  FALSE
  BY <1>3, WrittenKinds DEF TaughtIn
<1> QED
  BY <1>2, <1>3

LEMMA StoredAfter ==
  ASSUME Sessions, NEW w \in Worker, stored' = stored \/ stored' = Table(w)
  PROVE  \A c \in Cell : c \notin Written(w) => stored'[c] = stored[c]
BY DEF Table

\* What the other transactions see of their subjects is not changed by a commit.
LEMMA SeenByOthers ==
  ASSUME Sessions, NEW w \in Worker, NEW v \in Worker, v # w, Same(v),
         stored' = stored \/ stored' = Table(w), NEW h \in Subject,
         pc[w] \in SubmitPc => h # TaughtIn(w)
  PROVE  SameScores(Table(v), Table(v)', h, Student) /\ SameAverages(Table(v), Table(v)', h, Student)
<1>1. Written(v)' = Written(v) /\ Flushed(v)' = Flushed(v)
  BY DEF Same, Written, Flushed
<1>2. \A c \in Cell : stored'[c] = stored[c] => Table(v)'[c] = Table(v)[c]
  BY <1>1 DEF Table
<1>3. \A s \in Student : <<"average", h, s>> \in Cell
  BY CellFacts DEF Heading
<1>4. \A a \in Assessment, s \in Student : <<"score", a, s>> \in Cell
  BY CellFacts
<1> QED
  BY <1>2, <1>3, <1>4, OtherSubjects, StoredAfter DEF SameScores, SameAverages

LEMMA InitSubjects == Init => SubjectsInv
<1> SUFFICES ASSUME Init PROVE SubjectsInv
  OBVIOUS
<1>1. \A h \in Subject, s \in Student : stored[<<"average", h, s>>] = Missing
  BY CellFacts DEF Init, Heading
<1>2. \A a \in Assessment, s \in Student : stored[<<"score", a, s>>] = Missing
  BY CellFacts DEF Init
<1>3. SubjectAveragesCurrent
  BY <1>1, <1>2 DEF SubjectAveragesCurrent, Noted, Empty
<1>4. AveragesInv
  BY DEF Init, AveragesInv, AveragesOf, Late
<1> QED
  BY <1>3, <1>4, InitMemory DEF SubjectsInv

\* The end of a request.
LEMMA EndingSubjects ==
  ASSUME OneWorkerPerSubject, SubjectsInv, NEW w \in Worker, Ending(w),
         stored' # stored => pc[w] \in {"submit-commit", "remark"}
  PROVE  SubjectsInv'
<1>1. MemoryInv' /\ Sessions
  BY EndingMemory DEF SubjectsInv, MemoryInv
<1>2. SubjectAveragesCurrent'
  <2> SUFFICES ASSUME NEW h \in Subject, NEW s \in Student PROVE CurrentIn(stored', h, s)
    BY DEF SubjectAveragesCurrent, CurrentIn, Noted
  <2>1. CurrentIn(stored, h, s)
    BY DEF SubjectsInv, SubjectAveragesCurrent, CurrentIn
  <2>2. CASE stored' = stored
    BY <2>1, <2>2
  <2>3. CASE stored' = Table(w) /\ pc[w] = "submit-commit" /\ h = TaughtIn(w)
    BY <2>3 DEF SubjectsInv, AveragesInv, AveragesOf, Late
  <2>4. CASE stored' = Table(w) /\ (pc[w] \in SubmitPc => h # TaughtIn(w))
    <3>1. \A t \in Student : <<"average", h, t>> \in Cell
      BY CellFacts DEF Heading
    <3>2. \A a \in Assessment, t \in Student : <<"score", a, t>> \in Cell
      BY CellFacts
    <3>3. SameScores(stored, stored', h, Student) /\ SameAverages(stored, stored', h, Student)
      BY <1>1, <2>4, <3>1, <3>2, OtherSubjects, StoredAfter DEF SameScores, SameAverages
    <3> QED
      BY <2>1, <3>3, CurrentSame
  <2> QED
    BY <2>2, <2>3, <2>4 DEF Ending, SubmitPc
<1>3. ASSUME NEW v \in Worker
      PROVE  /\ pc'[v] = "submit-averages" =>
                  \A s \in Batch(v)' : todo'[v][<<"average", TaughtIn(v)', s>>]
                                         = SubjectAverage(Table(v)', TaughtIn(v)', s)
             /\ pc'[v] \in Late => \A s \in Student : CurrentIn(Table(v)', TaughtIn(v)', s)
  <2>1. CASE v = w
    <3>1. pc'[w] = "idle"
      BY <1>1, FinishFacts DEF Ending, Sessions
    <3> QED
      BY <2>1, <3>1 DEF Late
  <2>2. CASE v # w
    <3>1. Same(v) /\ Batch(v)' = Batch(v) /\ TaughtIn(v)' = TaughtIn(v)
      BY <2>2 DEF Ending, Same, Batch, TaughtIn
    <3>2. CASE pc[v] \in SubmitPc
      <4>1. TaughtIn(v) \in Subject /\ Batch(v) \subseteq Student /\ req[v].assessment \in Marks[v]
        BY <1>1, <3>2 DEF Sessions, Requested
      <4>2. pc[w] \in SubmitPc => TaughtIn(v) # TaughtIn(w)
        BY <1>1, <2>2, <4>1 DEF Sessions, Requested, TaughtIn, OneWorkerPerSubject
      <4>3. SameScores(Table(v), Table(v)', TaughtIn(v), Student) /\ SameAverages(Table(v), Table(v)', TaughtIn(v), Student)
        BY <1>1, <2>2, <3>1, <4>1, <4>2, SeenByOthers DEF Ending
      <4>4. \A s \in Student : SubjectAverage(Table(v)', TaughtIn(v), s) = SubjectAverage(Table(v), TaughtIn(v), s)
        BY <4>3, AverageOfScores
      <4>5. \A s \in Student : CurrentIn(Table(v), TaughtIn(v), s) => CurrentIn(Table(v)', TaughtIn(v), s)
        BY <4>3, CurrentSame
      <4> QED
        BY <3>1, <4>1, <4>4, <4>5 DEF Same, SubjectsInv, AveragesInv, AveragesOf
    <3>3. CASE pc[v] \notin SubmitPc
      BY <3>1, <3>3 DEF Same, SubmitPc, Late
    <3> QED
      BY <3>2, <3>3
  <2> QED
    BY <2>1, <2>2
<1>4. AveragesInv'
  BY <1>3 DEF AveragesInv, AveragesOf, CurrentIn, Noted, SubjectAverage
<1> QED
  BY <1>1, <1>2, <1>4 DEF SubjectsInv

\* A worker that does not move, while nothing is committed.
LEMMA SameAveragesOf ==
  ASSUME NEW v \in Worker, Same(v), stored' = stored, AveragesOf(v)
  PROVE  AveragesOf(v)'
<1>1. Table(v)' = Table(v) /\ Batch(v)' = Batch(v) /\ TaughtIn(v)' = TaughtIn(v)
  BY DEF Same, Table, Written, Flushed, Batch, TaughtIn
<1>2. pc'[v] = pc[v] /\ todo'[v] = todo[v]
  BY DEF Same
<1>3. ASSUME pc'[v] = "submit-averages", NEW s \in Batch(v)'
      PROVE  (todo[v][<<"average", TaughtIn(v), s>>] = SubjectAverage(Table(v), TaughtIn(v), s))'
  <2>1. todo[v][<<"average", TaughtIn(v), s>>] = SubjectAverage(Table(v), TaughtIn(v), s)
    BY <1>1, <1>2, <1>3 DEF AveragesOf
  <2> QED
    BY <1>1, <1>2, <2>1 DEF Noted, SubjectAverage
<1>4. ASSUME pc'[v] \in Late, NEW s \in Student PROVE CurrentIn(Table(v), TaughtIn(v), s)'
  <2>1. CurrentIn(Table(v), TaughtIn(v), s)
    BY <1>2, <1>4 DEF AveragesOf
  <2> QED
    BY <1>1, <2>1 DEF CurrentIn, Noted, SubjectAverage
<1> QED
  BY <1>3, <1>4 DEF AveragesOf

\* A statement of w, as far as the averages in what w sees are right after it.
LEMMA StatementSubjects ==
  ASSUME SubjectsInv, NEW w \in Worker, Statement(w), Sessions', AveragesOf(w)'
  PROVE  SubjectsInv'
<1>1. MemoryInv'
  BY StatementMemory DEF SubjectsInv
<1>2. SubjectAveragesCurrent'
  BY DEF SubjectsInv, SubjectAveragesCurrent, Statement, Noted, SubjectAverage
<1>3. ASSUME NEW v \in Worker, v # w PROVE AveragesOf(v)'
  BY <1>3, SameAveragesOf DEF Statement, SubjectsInv, AveragesInv
<1> QED
  BY <1>1, <1>2, <1>3 DEF SubjectsInv, AveragesInv

\* Cells of other columns do not change averages.
LEMMA SeenApart ==
  ASSUME NEW w \in Worker, NEW old, NEW h \in Subject, Sees(w, old),
         \A s \in Student : <<"average", h, s>> \notin DOMAIN todo'[w],
         \A a \in Assessment, s \in Student : <<"score", a, s>> \notin DOMAIN todo'[w]
  PROVE  SameScores(old, Table(w)', h, Student) /\ SameAverages(old, Table(w)', h, Student)
<1>1. \A s \in Student : <<"average", h, s>> \in Cell
  BY CellFacts DEF Heading
<1>2. \A a \in Assessment, s \in Student : <<"score", a, s>> \in Cell
  BY CellFacts
<1> QED
  BY <1>1, <1>2 DEF Sees, SameScores, SameAverages

\* From the computation of the averages on, nothing else changes them.
LEMMA LateSubjects ==
  ASSUME SubjectsInv, NEW w \in Worker, pc[w] \in Late, pc'[w] \in Late, UNCHANGED req,
         NEW old, Sees(w, old), SameScores(Table(w), old, TaughtIn(w), Student),
         SameAverages(Table(w), old, TaughtIn(w), Student),
         \A c \in DOMAIN todo'[w] : c[1] # "score" /\ (c[1] = "average" => c[2] # TaughtIn(w))
  PROVE  AveragesOf(w)'
<1> DEFINE h == TaughtIn(w)
<1>1. TaughtIn(w)' = h /\ h \in Subject
  BY SameRequest DEF SubjectsInv, MemoryInv, Sessions, Requested, Late, SubmitPc
<1>2. /\ \A s \in Student : <<"average", h, s>> \notin DOMAIN todo'[w]
      /\ \A a \in Assessment, s \in Student : <<"score", a, s>> \notin DOMAIN todo'[w]
  OBVIOUS
<1> HIDE DEF h
<1>3. SameScores(old, Table(w)', h, Student) /\ SameAverages(old, Table(w)', h, Student)
  BY <1>1, <1>2, SeenApart
<1>4. \A s \in Student : CurrentIn(Table(w), h, s)
  BY DEF SubjectsInv, AveragesInv, AveragesOf, h
<1>5. \A s \in Student : CurrentIn(old, h, s)
  BY <1>4, CurrentSame DEF h
<1>6. \A s \in Student : CurrentIn(Table(w)', h, s)
  BY <1>3, <1>5, CurrentSame
<1> QED
  BY <1>1, <1>6 DEF AveragesOf, Late, CurrentIn, Noted, SubjectAverage

LEMMA SubmitMarksAverages ==
  ASSUME SubjectsInv, NEW w \in Worker, SubmitMarks(w)
  PROVE  AveragesOf(w)'
<1> DEFINE h == TaughtIn(w)
<1>1. pc[w] = "submit-marks" /\ UNCHANGED req /\ Sessions
  BY DEF SubmitMarks, SubjectsInv, MemoryInv
<1>2. /\ Sees(w, Table(w)) /\ pc'[w] = "submit-averages"
      /\ todo'[w] = [c \in AverageCells(h, Batch(w)) |-> SubjectAverage(Table(w), h, c[3])]
  BY <1>1, SubmitMarksStep
<1>3. /\ TaughtIn(w)' = h /\ Batch(w)' = Batch(w) /\ h \in Heading /\ Batch(w) \in SUBSET Student
  BY <1>1, SameRequest, SubmissionFacts DEF SubmitPc
<1>4. \A s \in Batch(w) : <<"average", h, s>> \in AverageCells(h, Batch(w))
  BY <1>3, RowFacts
<1>5. \A c \in AverageCells(h, Batch(w)) : c[1] = "average"
  BY <1>3, RowFacts
<1>6. \A a \in Assessment, s \in Student : <<"score", a, s>> \in Cell
  BY CellFacts
<1>7. SameScores(Table(w), Table(w)', h, Student)
  BY <1>2, <1>5, <1>6 DEF Sees, SameScores
<1>8. \A s \in Student : SubjectAverage(Table(w)', h, s) = SubjectAverage(Table(w), h, s)
  <2> HIDE DEF h
  <2> QED
    BY <1>7, AverageOfScores
<1>9. \A s \in Batch(w) : todo'[w][<<"average", h, s>>] = SubjectAverage(Table(w)', h, s)
  BY <1>2, <1>3, <1>4, <1>8
<1>10. pc'[w] = "submit-averages" /\ pc'[w] \notin Late
  BY <1>2 DEF Late
<1> HIDE DEF h
<1>11. \A s \in Batch(w)' : todo'[w][<<"average", TaughtIn(w)', s>>] = SubjectAverage(Table(w)', TaughtIn(w)', s)
  BY <1>3, <1>9
<1> QED
  BY <1>10, <1>11 DEF AveragesOf, SubjectAverage, Noted

LEMMA SubmitAveragesAverages ==
  ASSUME OneWorkerPerSubject, SubjectsInv, NEW w \in Worker, SubmitAverages(w)
  PROVE  AveragesOf(w)'
<1> DEFINE h == TaughtIn(w)
           S == Batch(w)
           t == todo'[w]
<1>1. pc[w] = "submit-averages" /\ UNCHANGED req /\ Sessions
  BY DEF SubmitAverages, SubjectsInv, MemoryInv
<1>2. /\ Sessions' /\ Sees(w, Kept(w)) /\ pc'[w] = "submit-subject"
      /\ RowCells(h, S) \subseteq DOMAIN mem'[w] /\ dirty'[w] = dirty[w]
      /\ \A s \in S : LET c == <<"average", h, s>>
           IN IF mem'[w][c] = todo[w][c] THEN c \notin DOMAIN t
              ELSE c \in DOMAIN t /\ t[c] = todo[w][c]
  BY <1>1, SubmitAveragesStep
<1>3. /\ TaughtIn(w)' = h /\ Batch(w)' = S /\ h \in Heading /\ h \in Subject /\ S \in SUBSET Student
      /\ req[w].assessment \in Assessment
  BY <1>1, SameRequest, SubmissionFacts DEF SubmitPc
<1>4. dirty[w] \subseteq Scored(w) /\ DOMAIN todo[w] = AverageCells(h, S)
  BY <1>1 DEF Sessions, Flushing, May, Requested
<1>5. DOMAIN t \subseteq RowCells(h, S)
  <2>1. DOMAIN t \subseteq SubjectRows(w)'
    BY <1>2 DEF Sessions, Flushing, May
  <2> QED
    BY <1>1, <2>1, SameRequest DEF SubjectRows
<1>6. \A c \in Scored(w) : c[1] = "score" /\ c[3] \in S
  BY <1>3, ScoreFacts DEF Scored
<1>7. \A c \in AverageCells(h, S) : c[1] = "average"
  BY <1>3, RowFacts
<1>8. \A c \in RowCells(h, S) : c[1] # "score" /\ c[3] \in S
  BY <1>3, RowFacts DEF Columns
<1>9. \A a \in Assessment, s \in Student : <<"score", a, s>> \in Cell
  BY CellFacts
<1>10. \A s \in Student : <<"average", h, s>> \in Cell
  BY <1>3, CellFacts
<1>11. \A c \in Cell :
         /\ c \notin DOMAIN t => Table(w)'[c] = Kept(w)[c]
         /\ c \in DOMAIN t => Table(w)'[c] = InColumn(c, t[c])
  BY <1>2 DEF Sees
<1>12. \A c \in Cell : c \notin DOMAIN todo[w] => Table(w)[c] = Kept(w)[c]
  BY <1>1, TableFacts DEF Sessions, Kept
<1>13. \A c \in Cell : c \notin dirty[w] => Kept(w)[c] = stored[c]
  BY DEF Kept
<1> HIDE DEF t
<1>14. SameScores(Table(w), Table(w)', h, Student)
  BY <1>4, <1>5, <1>7, <1>8, <1>9, <1>11, <1>12 DEF SameScores
<1> HIDE DEF h, S
<1>15. \A s \in Student : SubjectAverage(Table(w)', h, s) = SubjectAverage(Table(w), h, s)
  BY <1>14, AverageOfScores
<1>16. \A s \in Student : SubjectAverage(Table(w), h, s) \in Int \cup {None}
  BY <1>1, <1>3, TableFacts, SubjectAverageType DEF Sessions
<1>17. ASSUME NEW s \in S PROVE CurrentIn(Table(w)', h, s)
  <2> DEFINE c == <<"average", h, s>>
             A == SubjectAverage(Table(w), h, s)
  <2>1. todo[w][c] = A
    BY <1>1 DEF SubjectsInv, AveragesInv, AveragesOf, h, S
  <2>2. A \in Int \cup {None} /\ RoundedToCent(A) # Missing
    BY <1>3, <1>16, Rounding, ClassAssumption DEF Empty
  <2>3. c \in Cell /\ c[1] = "average" /\ c[2] = h /\ c \in RowCells(h, S)
    BY <1>3, RowFacts
  <2>4. Table(w)'[c] = RoundedToCent(A)
    <3>1. CASE mem'[w][c] = todo[w][c]
      <4>1. c \notin DOMAIN t /\ c \notin dirty[w]
        BY <1>2, <1>4, <1>6, <2>3, <3>1 DEF t
      <4>2. Table(w)'[c] = stored[c]
        BY <1>11, <1>13, <2>3, <4>1
      <4>3. Private(w, c)
        <5> SUFFICES ASSUME NEW v \in Worker, c \in Reach(v) PROVE v = w
          BY DEF Private
        <5>1. h # General
          BY <1>3, ClassAssumption
        <5>2. h \in {SubjectOf[a] : a \in Marks[v]}
          BY <2>3, <5>1 DEF Reach
        <5>3. req[w].assessment \in Marks[w] /\ h = SubjectOf[req[w].assessment]
          BY <1>1 DEF Sessions, Requested, SubmitPc, h, TaughtIn
        <5> QED
          BY <5>2, <5>3 DEF OneWorkerPerSubject
      <4>4. MemoryIsCurrent' /\ stored' = stored
        <5>1. Statement(w) \/ Ending(w)
          BY <1>1, StatementSteps DEF Submit
        <5>2. MemoryInv'
          BY <1>2, <5>1, StatementMemory, EndingMemory DEF SubjectsInv
        <5>3. stored' = stored
          BY DEF SubmitAverages, Step
        <5> QED
          BY <5>2, <5>3 DEF MemoryInv
      <4>5. mem'[w][c] = stored[c]
        <5>1. \A x : Private(w, x)' <=> Private(w, x)
          BY DEF Private, Reach
        <5>2. c \in DOMAIN mem'[w] \ dirty'[w]
          BY <1>2, <2>3, <4>1 DEF h, S
        <5> QED
          BY <4>3, <4>4, <5>1, <5>2 DEF MemoryIsCurrent
      <4>6. RoundedToCent(stored[c]) = stored[c]
        BY <2>3 DEF SubjectsInv, MemoryInv, StoredIsRounded
      <4> QED
        BY <2>1, <3>1, <4>2, <4>5, <4>6
    <3>2. CASE mem'[w][c] # todo[w][c]
      <4>1. c \in DOMAIN t /\ t[c] = A
        BY <1>2, <2>1, <3>2 DEF h, S, t
      <4> QED
        BY <1>11, <2>3, <4>1 DEF InColumn
    <3> QED
      BY <3>1, <3>2
  <2>5. SubjectAverage(Table(w)', h, s) = A
    BY <1>3, <1>15
  <2> HIDE DEF A
  <2> QED
    BY <2>2, <2>4, <2>5 DEF CurrentIn
<1>18. ASSUME NEW s \in Student \ S PROVE CurrentIn(Table(w)', h, s)
  <2>1. CurrentIn(stored, h, s)
    BY <1>3 DEF SubjectsInv, SubjectAveragesCurrent, CurrentIn
  <2>2. SameScores(stored, Table(w)', h, {s})
    <3> SUFFICES ASSUME NEW a \in Assessment PROVE Table(w)'[<<"score", a, s>>] = stored[<<"score", a, s>>]
      BY DEF SameScores
    <3> DEFINE c == <<"score", a, s>>
    <3>1. c \in Cell /\ c[3] = s /\ c[1] = "score"
      BY <1>9
    <3>2. c \notin DOMAIN t /\ c \notin dirty[w]
      BY <1>4, <1>5, <1>6, <1>8, <3>1 DEF h, S
    <3> QED
      BY <1>11, <1>13, <3>1, <3>2
  <2>3. SameAverages(stored, Table(w)', h, {s})
    <3> DEFINE c == <<"average", h, s>>
    <3>1. c \in Cell /\ c[3] = s
      BY <1>10
    <3>2. c \notin DOMAIN t /\ c \notin dirty[w]
      BY <1>4, <1>5, <1>6, <1>8, <3>1
    <3> QED
      BY <1>11, <1>13, <3>1, <3>2 DEF SameAverages
  <2> QED
    BY <2>1, <2>2, <2>3, CurrentSame
<1>19. ASSUME NEW s \in Student PROVE CurrentIn(Table(w), TaughtIn(w), s)'
  <2>1. CurrentIn(Table(w)', h, s)
    BY <1>17, <1>18
  <2> QED
    BY <1>3, <2>1 DEF CurrentIn, Noted, SubjectAverage
<1> QED
  BY <1>2, <1>19 DEF AveragesOf

LEMMA OtherAverages ==
  ASSUME SubjectsInv, NEW w \in Worker,
         SubmitSubject(w) \/ SubmitRanks(w) \/ SubmitGeneral(w) \/ SubmitTerm(w)
  PROVE  AveragesOf(w)'
<1> DEFINE h == TaughtIn(w)
<1>1. pc[w] \in Late /\ UNCHANGED req /\ Sessions
  BY DEF SubmitSubject, SubmitRanks, SubmitGeneral, SubmitTerm, RankStep, Late, SubjectsInv, MemoryInv
<1>2. h \in Subject /\ Batch(w) \in SUBSET Student /\ General \in Heading /\ h # General
  BY <1>1, SubmissionFacts, ClassAssumption DEF Late, SubmitPc
<1> HIDE DEF h
<1>3. ASSUME Sees(w, Table(w)), pc'[w] \in Late,
             \A c \in DOMAIN todo'[w] : c[1] # "score" /\ (c[1] = "average" => c[2] # h)
      PROVE  AveragesOf(w)'
  <2>1. SameScores(Table(w), Table(w), h, Student) /\ SameAverages(Table(w), Table(w), h, Student)
    BY DEF SameScores, SameAverages
  <2> QED
    BY <1>1, <1>3, <2>1, LateSubjects DEF h
<1>4. ASSUME DOMAIN todo'[w] \subseteq RankCells(h) \/ DOMAIN todo'[w] \subseteq RankCells(General)
      PROVE  \A c \in DOMAIN todo'[w] : c[1] # "score" /\ (c[1] = "average" => c[2] # h)
  BY <1>4 DEF RankCells
<1>5. CASE SubmitSubject(w)
  BY <1>1, <1>3, <1>4, <1>5, SubmitSubjectStep DEF Late, h
<1>6. CASE SubmitTerm(w)
  BY <1>1, <1>3, <1>4, <1>6, SubmitTermStep DEF Late
<1>7. CASE SubmitRanks(w)
  <2>1. DOMAIN todo'[w] = {}
    BY <1>1, <1>7, SubmitRanksStep, NothingHeld
  <2> QED
    BY <1>1, <1>3, <1>7, <2>1, SubmitRanksStep DEF Late
<1>8. CASE SubmitGeneral(w)
  <2>1. /\ Sees(w, Kept(w)) /\ pc'[w] = "submit-term"
        /\ DOMAIN todo'[w] \subseteq RowCells(General, Batch(w))
    BY <1>1, <1>8, SubmitGeneralStep
  <2>2. \A c \in Cell : Kept(w)[c] = Table(w)[c]
    <3>1. DOMAIN todo[w] \subseteq {}
      BY <1>1, <1>8 DEF SubmitGeneral, Sessions, Flushing, May
    <3> QED
      BY <1>1, <3>1, TableFacts DEF Sessions, Kept
  <2>3. Sees(w, Table(w))
    BY <2>1, <2>2 DEF Sees
  <2>4. \A c \in DOMAIN todo'[w] : c[1] # "score" /\ (c[1] = "average" => c[2] # h)
    BY <1>2, <2>1, RowFacts DEF Columns
  <2> QED
    BY <1>3, <2>1, <2>3, <2>4 DEF Late
<1> QED
  BY <1>5, <1>6, <1>7, <1>8

LEMMA NextSubjects ==
  ASSUME OneWorkerPerSubject, SubjectsInv, [Next]_vars
  PROVE  SubjectsInv'
<1>1. CASE UNCHANGED vars
  <2>1. MemoryInv'
    BY NextMemory DEF SubjectsInv
  <2>2. AveragesInv'
    BY <1>1, SameAveragesOf DEF vars, Same, SubjectsInv, AveragesInv
  <2>3. SubjectAveragesCurrent'
    BY <1>1 DEF vars, SubjectsInv, SubjectAveragesCurrent, Noted, SubjectAverage
  <2> QED
    BY <2>1, <2>2, <2>3 DEF SubjectsInv
<1>2. ASSUME NEW w \in Worker, Submit(w) \/ Appreciate(w) \/ Direct(w) \/ Abort(w)
      PROVE  SubjectsInv'
  <2>1. Sessions /\ Sessions' /\ (Statement(w) \/ Ending(w))
    BY <1>2, StatementSteps DEF SubjectsInv, MemoryInv
  <2>2. pc'[w] \notin Late \cup {"submit-averages"} => AveragesOf(w)'
    BY DEF AveragesOf
  <2>3. CASE Ending(w)
    <3>1. stored' # stored => pc[w] \in {"submit-commit", "remark"}
      <4>1. CASE stored' = stored
        BY <4>1
      <4>2. CASE SubmitCommit(w) \/ RemarkCommit(w)
        BY <4>2, EndFacts
      <4>3. stored' = stored \/ SubmitCommit(w) \/ RemarkCommit(w)
        BY <1>2 DEF Submit, Appreciate, Direct, Abort, BeginSubmit, SubmitMarks, SubmitAverages,
             SubmitSubject, SubmitRanks, SubmitGeneral, SubmitTerm, RankStep, BeginRemark, Step,
             BeginGenerate, GenerateStudent, GenerateCommit, BeginPublish, PublishCommit
      <4> QED
        BY <4>1, <4>2, <4>3
    <3> QED
      BY <2>3, <3>1, EndingSubjects
  <2>4. CASE Statement(w)
    <3>1. CASE BeginSubmit(w)
      BY <2>1, <2>2, <2>4, <3>1, BeginSubmitStep, StatementSubjects DEF Late
    <3>2. CASE BeginRemark(w)
      BY <2>1, <2>2, <2>4, <3>2, BeginRemarkStep, StatementSubjects DEF Late
    <3>3. CASE SubmitMarks(w)
      BY <2>1, <2>4, <3>3, SubmitMarksAverages, StatementSubjects
    <3>4. CASE SubmitAverages(w)
      BY <2>1, <2>4, <3>4, SubmitAveragesAverages, StatementSubjects
    <3>5. CASE SubmitSubject(w) \/ SubmitRanks(w) \/ SubmitGeneral(w) \/ SubmitTerm(w)
      BY <2>1, <2>4, <3>5, OtherAverages, StatementSubjects
    <3>6. CASE Direct(w) \/ Abort(w) \/ SubmitCommit(w) \/ RemarkCommit(w)
      <4>1. pc'[w] \in {"idle", "generate", "publish"}
        BY <2>1, <3>6 DEF Direct, Abort, SubmitCommit, RemarkCommit, Finish, BeginGenerate,
             GenerateStudent, GenerateCommit, BeginPublish, PublishCommit, Sessions, SessionShape
      <4> QED
        BY <2>1, <2>2, <2>4, <4>1, StatementSubjects DEF Late
    <3> QED
      BY <1>2, <3>1, <3>2, <3>3, <3>4, <3>5, <3>6 DEF Submit, Appreciate
  <2> QED
    BY <2>1, <2>3, <2>4
<1> QED
  BY <1>1, <1>2 DEF Next

\* When the marks of a subject are submitted by one request at a time, a student
\* who has a mark in a subject has the average of the marks on record, however
\* the requests of the other subjects and of the directors interleave
\* (recompute_subject_averages reads the marks its own transaction flushed).
THEOREM SubjectAveragesFollowMarks ==
  ASSUME OneWorkerPerSubject
  PROVE  Spec => []SubjectAveragesCurrent
<1>1. SubjectsInv => SubjectAveragesCurrent
  BY DEF SubjectsInv
<1>2. OneWorkerPerSubject /\ SubjectsInv /\ [Next]_vars => SubjectsInv'
  BY NextSubjects
<1> QED
  BY <1>1, <1>2, InitSubjects, PTL DEF Spec

-----------------------------------------------------------------------------
(* Requests served one at a time: the marks of published cards.            *)

OneWorker == \A v, w \in Worker : v = w

\* What a request checked when it started still holds.
CheckedOf(w) ==
  /\ pc[w] \in SubmitPc => ~ Published(Batch(w))
  /\ pc[w] = "remark" => ~ Published({req[w].student})

FrozenInv == Sessions /\ \A w \in Worker : CheckedOf(w)

FrozenStep ==
  \A s \in Student : cards[s].published =>
    \A c \in Cell : c[1] \in {"score", "appreciation"} /\ c[3] = s => stored'[c] = stored[c]

LEMMA CommitsOnly ==
  ASSUME NEW w \in Worker, Submit(w) \/ Appreciate(w) \/ Direct(w) \/ Abort(w)
  PROVE  stored' = stored \/ SubmitCommit(w) \/ RemarkCommit(w)
BY DEF Submit, Appreciate, Direct, Abort, BeginSubmit, SubmitMarks, SubmitAverages,
     SubmitSubject, SubmitRanks, SubmitGeneral, SubmitTerm, RankStep, BeginRemark, Step,
     BeginGenerate, GenerateStudent, GenerateCommit, BeginPublish, PublishCommit

\* The steps of a submission keep its request and the cards.
LEMMA SubmissionGoesOn ==
  ASSUME SessionShape, NEW w \in Worker,
         \/ SubmitMarks(w) \/ SubmitAverages(w) \/ SubmitSubject(w)
         \/ SubmitRanks(w) \/ SubmitGeneral(w) \/ SubmitTerm(w)
  PROVE  UNCHANGED <<req, cards>> /\ pc[w] \in SubmitPc /\ pc'[w] \in SubmitPc
BY DEF SubmitMarks, SubmitAverages, SubmitSubject, SubmitRanks, SubmitGeneral, SubmitTerm, RankStep,
     Step, SessionShape, SubmitPc

LEMMA NextFrozen ==
  ASSUME OneWorker, FrozenInv, [Next]_vars
  PROVE  FrozenInv' /\ [FrozenStep]_vars
<1>1. Sessions'
  BY NextSessions DEF FrozenInv
<1>2. CASE UNCHANGED vars
  BY <1>1, <1>2 DEF vars, FrozenInv, CheckedOf, Published, Batch
<1>3. ASSUME NEW w \in Worker, Submit(w) \/ Appreciate(w) \/ Direct(w) \/ Abort(w)
      PROVE  CheckedOf(w)' /\ FrozenStep
  <2>1. Sessions /\ SessionShape /\ CheckedOf(w)
    BY DEF FrozenInv, Sessions
  <2>2. FrozenStep
    <3>1. CASE stored' = stored
      BY <3>1 DEF FrozenStep
    <3>2. CASE SubmitCommit(w) \/ RemarkCommit(w)
      <4> SUFFICES ASSUME NEW s \in Student, cards[s].published, NEW c \in Cell,
                          c[1] \in {"score", "appreciation"}, c[3] = s
                   PROVE  stored'[c] = stored[c]
        BY DEF FrozenStep
      <4>1. stored' = stored \/ stored' = Table(w)
        BY <3>2, EndFacts
      <4>2. c \notin Written(w)
        <5> SUFFICES ASSUME c \in Written(w) PROVE FALSE
          OBVIOUS
        <5>1. \/ pc[w] \in SubmitPc /\ c[3] \in Batch(w)
              \/ pc[w] = "remark" /\ c[3] = req[w].student
          BY <2>1, WrittenKinds
        <5> QED
          BY <2>1, <5>1 DEF CheckedOf, Published
      <4> QED
        BY <2>1, <4>1, <4>2, StoredAfter
    <3> QED
      BY <1>3, <3>1, <3>2, CommitsOnly
  <2>3. CheckedOf(w)'
    <3>1. CASE BeginSubmit(w)
      <4>1. pc'[w] = "submit-marks" /\ ~ Published(Batch(w)')
        BY <2>1, <3>1, BeginSubmitStep
      <4>2. UNCHANGED cards
        BY <3>1 DEF BeginSubmit, Step
      <4> QED
        BY <4>1, <4>2 DEF CheckedOf, Published
    <3>2. CASE BeginRemark(w)
      <4>1. pc'[w] = "remark" /\ ~ Published({req'[w].student})
        BY <2>1, <3>2, BeginRemarkStep
      <4>2. UNCHANGED cards
        BY <3>2 DEF BeginRemark, Step
      <4> QED
        BY <4>1, <4>2 DEF CheckedOf, Published, SubmitPc
    <3>3. CASE SubmitMarks(w) \/ SubmitAverages(w) \/ SubmitSubject(w)
                 \/ SubmitRanks(w) \/ SubmitGeneral(w) \/ SubmitTerm(w)
      <4>1. UNCHANGED <<req, cards>> /\ pc[w] \in SubmitPc /\ pc'[w] \in SubmitPc
        BY <2>1, <3>3, SubmissionGoesOn
      <4> QED
        BY <2>1, <4>1 DEF CheckedOf, Published, SubmitPc, Batch
    <3>4. CASE Direct(w) \/ Abort(w) \/ SubmitCommit(w) \/ RemarkCommit(w)
      <4>1. pc'[w] \in {"idle", "generate", "publish"}
        BY <2>1, <3>4 DEF Direct, Abort, SubmitCommit, RemarkCommit, Finish, BeginGenerate,
             GenerateStudent, GenerateCommit, BeginPublish, PublishCommit, SessionShape
      <4> QED
        BY <4>1 DEF CheckedOf, SubmitPc
    <3> QED
      BY <1>3, <3>1, <3>2, <3>3, <3>4 DEF Submit, Appreciate
  <2> QED
    BY <2>2, <2>3
<1>4. ASSUME NEW w \in Worker, CheckedOf(w)'
      PROVE  \A v \in Worker : CheckedOf(v)'
  BY <1>4 DEF OneWorker
<1> QED
  BY <1>1, <1>2, <1>3, <1>4 DEF Next, FrozenInv

\* When requests are served one at a time, no sequence of submissions,
\* appreciations, generations and publications changes the marks or the
\* appreciations of a student whose card is published
\* (ensure_report_card_not_published).
THEOREM PublishedMarksStay ==
  ASSUME OneWorker
  PROVE  Spec => PublishedMarksFrozen
<1>1. Init => FrozenInv
  <2> SUFFICES ASSUME Init PROVE FrozenInv
    OBVIOUS
  <2>1. \A w \in Worker : CheckedOf(w)
    BY DEF Init, CheckedOf, SubmitPc
  <2> QED
    BY <2>1, InitSessions DEF FrozenInv
<1>2. OneWorker /\ FrozenInv /\ [Next]_vars
        => FrozenInv' /\ [\A s \in Student : cards[s].published =>
             \A c \in Cell : c[1] \in {"score", "appreciation"} /\ c[3] = s
                               => stored'[c] = stored[c]]_vars
  BY NextFrozen DEF FrozenStep
<1> QED
  BY <1>1, <1>2, PTL DEF Spec, PublishedMarksFrozen

-----------------------------------------------------------------------------
(* Marks submitted by one request at a time: ranks.                        *)

OneSubmitter == \A v, w \in Worker : Marks[v] # {} /\ Marks[w] # {} => v = w

RanksIn(table, h) ==
  \A s, t \in Student :
    LET average(x) == table[<<"average", h, x>>]
        rank(x) == table[<<"rank", h, x>>]
    IN average(s) \notin Empty /\ average(t) \notin Empty
       => /\ rank(s) # None
          /\ average(s) > average(t) => rank(s) < rank(t)

\* A better average has a better rank, when what is ranked are the averages of
\* the table before they are rounded.
LEMMA OrderedRanks ==
  ASSUME NEW n \in Nat, NEW S, NEW order \in [1 .. n -> S], NEW exact, NEW kept,
         \A s \in S : exact[s] \in Int \cup {None} /\ kept[s] = RoundedToCent(exact[s]),
         \A i, j \in 1 .. n : i < j =>
           \/ kept[order[j]] = None
           \/ kept[order[i]] # None /\ kept[order[i]] >= kept[order[j]],
         NEW i \in 1 .. n, NEW j \in 1 .. n,
         kept[order[i]] \notin Empty, kept[order[j]] \notin Empty
  PROVE  /\ RankAt(order, exact, i) # None
         /\ kept[order[i]] > kept[order[j]] => RankAt(order, exact, i) < RankAt(order, exact, j)
<1> DEFINE s == order[i]
           t == order[j]
<1>1. s \in S /\ t \in S
  OBVIOUS
<1>2. exact[s] \in Int /\ exact[t] \in Int /\ exact[s] # None /\ exact[t] # None
  BY <1>1, Rounding, ClassAssumption DEF Empty
<1>3. kept[s] \in Int /\ kept[t] \in Int
  BY <1>1, <1>2, Rounding
<1>4. /\ RankAt(order, exact, i) \in 1 .. i
      /\ RankAt(order, exact, j) \in 1 .. j
      /\ \A k \in RankAt(order, exact, j) .. j : exact[order[k]] = exact[t]
  <2>1. exact[order[i]] # None /\ exact[order[j]] # None
    BY <1>2
  <2>2. RankAt(order, exact, i) \in 1 .. i
    BY <2>1, RankOfRow, Zenon
  <2>3. RankAt(order, exact, j) \in 1 .. j /\ SameFrom(order, exact, RankAt(order, exact, j), j)
    BY <2>1, RankOfRow, Zenon
  <2> QED
    BY <2>2, <2>3 DEF SameFrom
<1>5. RankAt(order, exact, i) # None
  BY <1>4, ClassAssumption
<1>6. ASSUME kept[s] > kept[t] PROVE RankAt(order, exact, i) < RankAt(order, exact, j)
  <2>1. i < j
    <3>1. i # j
      BY <1>3, <1>6
    <3>2. ASSUME j < i PROVE FALSE
      <4>1. kept[s] = None \/ kept[t] >= kept[s]
        BY <3>2
      <4> QED
        BY <1>3, <1>6, <4>1, ClassAssumption
    <3> QED
      BY <3>1, <3>2
  <2> DEFINE q == RankAt(order, exact, j)
             p == RankAt(order, exact, i)
  <2>2. ASSUME q <= i PROVE FALSE
    <3>1. i \in q .. j
      BY <1>4, <2>1, <2>2
    <3>2. exact[s] = exact[t]
      BY <1>4, <3>1
    <3>3. kept[s] = kept[t]
      BY <1>1, <3>2
    <3> QED
      BY <1>3, <1>6, <3>3
  <2>3. p \in Int /\ q \in Int /\ p <= i
    BY <1>4
  <2> HIDE DEF p, q
  <2>4. p < q
    BY <2>2, <2>3
  <2> QED
    BY <2>4 DEF p, q
<1> QED
  BY <1>5, <1>6

\* What the session of the only submitter holds agrees with what it sees.
LEMMA SeesWhatItHolds ==
  ASSUME OneSubmitter, MemoryInv, NEW w \in Worker, pc[w] \in SubmitPc,
         NEW C \in SUBSET Cell, NEW c \in C, c[1] \in {"average", "rank"}
  PROVE  Table(w)[c] = InColumn(c, Loaded(Flushed(w), C)[c])
<1> DEFINE f == Flushed(w)
           m == Loaded(f, C)
<1>1. /\ DOMAIN f = DOMAIN mem[w] \cup DOMAIN todo[w]
      /\ \A x \in DOMAIN mem[w] \cup DOMAIN todo[w] :
           f[x] = IF x \in DOMAIN todo[w] THEN todo[w][x] ELSE mem[w][x]
      /\ Written(w) \subseteq DOMAIN f
      /\ \A x \in Written(w) : f[x] # Missing
  BY FlushedFacts DEF MemoryInv, Sessions
<1>2. Table(w)[c] = IF c \in Written(w) THEN InColumn(c, f[c]) ELSE stored[c]
  BY DEF Table
<1>3. m[c] = IF c \in DOMAIN f /\ f[c] # Missing THEN f[c] ELSE stored[c]
  BY DEF Loaded
<1> HIDE DEF f, m
<1>4. CASE c \in Written(w)
  BY <1>1, <1>2, <1>3, <1>4 DEF f, m
<1>5. CASE c \notin Written(w)
  <2>1. Private(w, c)
    <3>1. Marks[w] # {}
      BY DEF MemoryInv, Sessions, Requested
    <3> QED
      BY <3>1 DEF Private, Reach, OneSubmitter
  <2>2. m[c] = stored[c]
    <3>1. CASE c \in DOMAIN f /\ f[c] # Missing
      <4>1. c \in DOMAIN mem[w] \ dirty[w] /\ f[c] = mem[w][c]
        BY <1>1, <1>5, <3>1 DEF Written
      <4> QED
        BY <1>3, <2>1, <3>1, <4>1 DEF MemoryInv, MemoryIsCurrent
    <3>2. CASE ~ (c \in DOMAIN f /\ f[c] # Missing)
      BY <1>3, <3>2
    <3> QED
      BY <3>1, <3>2
  <2>3. c[1] = "average" => RoundedToCent(stored[c]) = stored[c]
    BY DEF MemoryInv, StoredIsRounded
  <2> QED
    BY <1>2, <1>5, <2>2, <2>3 DEF InColumn, f, m
<1> QED
  BY <1>4, <1>5

\* The ranks of heading h are right once they are flushed.
LEMMA RankStepRanks ==
  ASSUME OneSubmitter, MemoryInv, NEW w \in Worker, pc[w] \in SubmitPc, NEW h \in Heading,
         NEW label \in Pc, RankStep(w, h, label), Sees(w, Table(w))
  PROVE  RanksIn(Table(w)', h)
<1> DEFINE T == Table(w)
           S == Ranked(w, h)
           C == RowCells(h, S)
           m == Loaded(Flushed(w), C)
           exact == [s \in S |-> m[<<"average", h, s>>]]
           kept == [s \in S |-> T[<<"average", h, s>>]]
           n == Cardinality(S)
<1>1. PICK order \in SortedByAverage(T, h, S) :
        Step(w, label, m, RankChanges(w, h, order, m), Written(w))
  BY DEF RankStep, RankChanges, Ranked
<1> DEFINE r == RanksOf(order, exact, h)
           t == Changes(m, r)
<1>2. S \in SUBSET Student /\ C \in SUBSET Cell /\ SessionShape /\ Sessions
  <2>1. S \in SUBSET Student
    BY DEF Ranked
  <2> QED
    BY <2>1, RowFacts DEF MemoryInv, Sessions
<1>3. n \in Nat /\ order \in [1 .. n -> S] /\ {order[i] : i \in 1 .. n} = S
  <2>1. n \in Nat
    BY <1>2, FS_Subset, FS_CardinalityType, ClassAssumption
  <2> QED
    BY <1>1, <2>1 DEF SortedByAverage
<1>4. todo'[w] = t
  <2>1. Step(w, label, m, t, Written(w)) /\ UNCHANGED req
    BY <1>1 DEF RankChanges, RankStep
  <2> HIDE DEF m, t
  <2> QED
    BY <1>2, <2>1, StepFacts
<1>5. \A s \in S : /\ <<"average", h, s>> \in C /\ <<"rank", h, s>> \in C
                    /\ <<"average", h, s>> \in Cell /\ <<"rank", h, s>> \in Cell
  BY <1>2, CellFacts DEF RowCells, Columns
<1>6. \A s \in S : /\ kept[s] = RoundedToCent(exact[s])
                    /\ T[<<"rank", h, s>>] = m[<<"rank", h, s>>]
  BY <1>2, <1>5, SeesWhatItHolds DEF InColumn
<1>7. \A s \in S : exact[s] \in Int \cup {None}
  <2> SUFFICES ASSUME NEW s \in S PROVE exact[s] \in Int \cup {None}
    OBVIOUS
  <2> DEFINE c == <<"average", h, s>>
  <2>1. Holds(m) /\ c \in DOMAIN m
    <3>1. Holds(Flushed(w)) /\ Holds(stored) /\ DOMAIN stored = Cell
      BY <1>2, FlushedFacts DEF SessionShape
    <3>2. Holds(m) /\ DOMAIN m = DOMAIN Flushed(w) \cup C
      <4> HIDE DEF C
      <4> QED
        BY <1>2, <3>1, LoadedFacts
    <3> QED
      BY <1>5, <3>2
  <2>2. m[c] \in Int \cup Empty
    <3>1. c[1] = "average"
      OBVIOUS
    <3> HIDE DEF c, m
    <3> QED
      BY <2>1, <3>1 DEF Holds, ValueOf
  <2>3. kept[s] # Missing
    BY DEF Ranked
  <2>4. exact[s] = m[c] /\ kept[s] = RoundedToCent(exact[s])
    BY <1>6
  <2> HIDE DEF exact, kept
  <2> QED
    BY <2>2, <2>3, <2>4 DEF Empty, RoundedToCent
<1>8. \A i, j \in 1 .. n : i < j =>
        \/ kept[order[j]] = None
        \/ kept[order[i]] # None /\ kept[order[i]] >= kept[order[j]]
  BY <1>1, <1>3 DEF SortedByAverage
<1> HIDE DEF T, S, m, exact, kept, n, C
<1>9. DOMAIN r = RowRanks(h, S) /\ GivesRanks(r, order, exact, h, S)
  BY <1>1, <1>2, RanksFacts
<1> HIDE DEF r
<1>10. \A s \in S : Table(w)'[<<"rank", h, s>>] = r[<<"rank", h, s>>]
  <2> SUFFICES ASSUME NEW s \in S PROVE Table(w)'[<<"rank", h, s>>] = r[<<"rank", h, s>>]
    OBVIOUS
  <2> DEFINE c == <<"rank", h, s>>
  <2>1. c \in DOMAIN r /\ c \in Cell /\ c[1] # "average"
    BY <1>5, <1>9 DEF RowRanks
  <2>2. DOMAIN t = {x \in DOMAIN r : m[x] # r[x]} /\ \A x \in DOMAIN t : t[x] = r[x]
    BY DEF Changes
  <2>3. Table(w)'[c] = IF c \in DOMAIN t THEN InColumn(c, t[c]) ELSE T[c]
    BY <1>4, <2>1 DEF Sees, T
  <2>4. T[c] = m[c]
    BY <1>6
  <2> HIDE DEF t, c
  <2> QED
    BY <2>1, <2>2, <2>3, <2>4 DEF InColumn, c
<1>11. \A s \in Student : Table(w)'[<<"average", h, s>>] = T[<<"average", h, s>>]
  <2>1. \A s \in Student : <<"average", h, s>> \in Cell
    BY CellFacts
  <2>2. \A s \in Student : <<"average", h, s>> \notin DOMAIN todo'[w]
    BY RankStepFacts DEF MemoryInv, RankCells
  <2> QED
    BY <2>1, <2>2 DEF Sees, T
<1>12. \A s \in Student : T[<<"average", h, s>>] \notin Empty
                           => s \in S /\ kept[s] = T[<<"average", h, s>>]
  BY DEF S, T, kept, Ranked, Empty
<1> DEFINE U == Table(w)'
<1>13. U = Table(w)'
  OBVIOUS
<1> HIDE DEF U
<1>14. RanksIn(U, h)
  <2> SUFFICES ASSUME NEW a \in Student, NEW b \in Student,
                      U[<<"average", h, a>>] \notin Empty, U[<<"average", h, b>>] \notin Empty
               PROVE  /\ U[<<"rank", h, a>>] # None
                      /\ U[<<"average", h, a>>] > U[<<"average", h, b>>]
                           => U[<<"rank", h, a>>] < U[<<"rank", h, b>>]
    BY DEF RanksIn
  <2>1. /\ a \in S /\ b \in S /\ kept[a] = U[<<"average", h, a>>] /\ kept[b] = U[<<"average", h, b>>]
        /\ U[<<"rank", h, a>>] = r[<<"rank", h, a>>] /\ U[<<"rank", h, b>>] = r[<<"rank", h, b>>]
    BY <1>10, <1>11, <1>12, <1>13
  <2>2. PICK i \in 1 .. n : order[i] = a /\ r[<<"rank", h, a>>] = RankAt(order, exact, i)
    BY <1>9, <2>1 DEF GivesRanks, n
  <2>3. PICK j \in 1 .. n : order[j] = b /\ r[<<"rank", h, b>>] = RankAt(order, exact, j)
    BY <1>9, <2>1 DEF GivesRanks, n
  <2>4. /\ RankAt(order, exact, i) # None
        /\ kept[a] > kept[b] => RankAt(order, exact, i) < RankAt(order, exact, j)
    <3>1. kept[order[i]] \notin Empty /\ kept[order[j]] \notin Empty
      BY <2>1, <2>2, <2>3
    <3>2. \A s \in S : exact[s] \in Int \cup {None} /\ kept[s] = RoundedToCent(exact[s])
      BY <1>6, <1>7
    <3>3. /\ RankAt(order, exact, i) # None
          /\ kept[order[i]] > kept[order[j]] => RankAt(order, exact, i) < RankAt(order, exact, j)
      BY <1>3, <1>8, <3>1, <3>2, OrderedRanks
    <3> QED
      BY <2>2, <2>3, <3>3
  <2> QED
    BY <2>1, <2>2, <2>3, <2>4
<1> QED
  BY <1>13, <1>14 DEF RanksIn

\* From the flush of the ranks on, the transaction sees them right.
RightRanks(w) ==
  /\ pc[w] \in {"submit-ranks", "submit-general", "submit-term", "submit-commit"} =>
       RanksIn(Table(w), TaughtIn(w))
  /\ pc[w] = "submit-commit" => RanksIn(Table(w), General)

RanksInv == MemoryInv /\ RanksFollowAverages /\ \A w \in Worker : RightRanks(w)

SameRows(t, u, h) ==
  \A s \in Student : /\ t[<<"average", h, s>>] = u[<<"average", h, s>>]
                     /\ t[<<"rank", h, s>>] = u[<<"rank", h, s>>]

LEMMA RanksSame ==
  ASSUME NEW t, NEW u, NEW h, SameRows(t, u, h), RanksIn(t, h)
  PROVE  RanksIn(u, h)
BY DEF SameRows, RanksIn

LEMMA InitRanks == Init => RanksInv
<1> SUFFICES ASSUME Init PROVE RanksInv
  OBVIOUS
<1>1. \A h \in Heading, s \in Student : stored[<<"average", h, s>>] = Missing
  BY CellFacts DEF Init
<1>2. RanksFollowAverages
  BY <1>1 DEF RanksFollowAverages, Empty
<1>3. \A w \in Worker : RightRanks(w)
  BY DEF Init, RightRanks
<1> QED
  BY <1>2, <1>3, InitMemory DEF RanksInv

LEMMA StoredRanks == RanksFollowAverages <=> \A h \in Heading : RanksIn(stored, h)
BY DEF RanksFollowAverages, RanksIn

LEMMA SameRightRanks ==
  ASSUME NEW v \in Worker, Same(v), RightRanks(v),
         SameRows(Table(v), Table(v)', TaughtIn(v)), SameRows(Table(v), Table(v)', General)
  PROVE  RightRanks(v)'
<1>1. TaughtIn(v)' = TaughtIn(v)
  BY DEF Same, TaughtIn
<1>2. /\ RanksIn(Table(v), TaughtIn(v)) => RanksIn(Table(v)', TaughtIn(v))
      /\ RanksIn(Table(v), General) => RanksIn(Table(v)', General)
  BY RanksSame
<1> QED
  BY <1>1, <1>2 DEF RightRanks, Same, RanksIn

\* A statement of w, as far as the ranks in what w sees are right after it.
LEMMA StatementRanks ==
  ASSUME RanksInv, NEW w \in Worker, Statement(w), Sessions', RightRanks(w)'
  PROVE  RanksInv'
<1>1. MemoryInv'
  BY StatementMemory DEF RanksInv
<1>2. RanksFollowAverages'
  BY DEF RanksInv, RanksFollowAverages, Statement
<1>3. ASSUME NEW v \in Worker, v # w PROVE RightRanks(v)'
  <2>1. Same(v) /\ stored' = stored
    BY <1>3 DEF Statement
  <2>2. Table(v)' = Table(v)
    BY <2>1 DEF Same, Table, Written, Flushed
  <2>3. SameRows(Table(v), Table(v)', TaughtIn(v)) /\ SameRows(Table(v), Table(v)', General)
    BY <2>2 DEF SameRows
  <2> QED
    BY <2>1, <2>3, SameRightRanks DEF RanksInv
<1> QED
  BY <1>1, <1>2, <1>3 DEF RanksInv

\* The rows of a heading that the transaction of w has not written.
LEMMA OtherRows ==
  ASSUME Sessions, NEW w \in Worker, NEW h \in Heading,
         pc[w] \in SubmitPc => h \notin {TaughtIn(w), General}
  PROVE  \A s \in Student : <<"average", h, s>> \notin Written(w) /\ <<"rank", h, s>> \notin Written(w)
<1> SUFFICES ASSUME NEW s \in Student, NEW col \in {"average", "rank"}, <<col, h, s>> \in Written(w)
             PROVE  FALSE
  OBVIOUS
<1> QED
  BY WrittenKinds

LEMMA EndingRanks ==
  ASSUME OneSubmitter, RanksInv, NEW w \in Worker, Ending(w),
         stored' # stored => pc[w] \in {"submit-commit", "remark"}
  PROVE  RanksInv'
<1>1. MemoryInv' /\ Sessions
  BY EndingMemory DEF RanksInv, MemoryInv
<1>2. \A h \in Heading, s \in Student : <<"average", h, s>> \in Cell /\ <<"rank", h, s>> \in Cell
  BY CellFacts
<1>3. ASSUME NEW h \in Heading PROVE RanksIn(stored', h)
  <2>1. RanksIn(stored, h)
    BY StoredRanks DEF RanksInv
  <2>2. CASE stored' = stored
    BY <2>1, <2>2
  <2>3. CASE stored' = Table(w) /\ pc[w] = "submit-commit" /\ h \in {TaughtIn(w), General}
    BY <2>3 DEF RanksInv, RightRanks
  <2>4. CASE stored' = Table(w) /\ (pc[w] \in SubmitPc => h \notin {TaughtIn(w), General})
    <3>1. SameRows(stored, stored', h)
      BY <1>1, <1>2, <2>4, OtherRows, StoredAfter DEF SameRows
    <3> QED
      BY <2>1, <3>1, RanksSame
  <2> QED
    BY <2>2, <2>3, <2>4 DEF Ending, SubmitPc
<1>4. RanksFollowAverages'
  BY <1>3 DEF RanksFollowAverages, RanksIn
<1>5. ASSUME NEW v \in Worker PROVE RightRanks(v)'
  <2>1. CASE v = w
    <3>1. pc'[w] = "idle"
      BY <1>1, FinishFacts DEF Ending, Sessions
    <3> QED
      BY <2>1, <3>1 DEF RightRanks
  <2>2. CASE v # w /\ pc[v] \in SubmitPc
    <3>1. Same(v) /\ RightRanks(v) /\ TaughtIn(v) \in Heading /\ General \in Heading
      BY <1>1, <2>2, SubmissionFacts DEF Ending, RanksInv
    <3>2. pc[w] \notin SubmitPc
      BY <1>1, <2>2 DEF Sessions, Requested, OneSubmitter
    <3>3. \A c \in Cell : c \notin Written(w) => Table(v)'[c] = Table(v)[c]
      <4>1. Written(v)' = Written(v) /\ Flushed(v)' = Flushed(v)
        BY <3>1 DEF Same, Written, Flushed
      <4>2. \A c \in Cell : c \notin Written(w) => stored'[c] = stored[c]
        BY <1>1, StoredAfter DEF Ending
      <4> QED
        BY <4>1, <4>2 DEF Table
    <3>4. SameRows(Table(v), Table(v)', TaughtIn(v)) /\ SameRows(Table(v), Table(v)', General)
      BY <1>1, <1>2, <3>1, <3>2, <3>3, OtherRows DEF SameRows
    <3> QED
      BY <3>1, <3>4, SameRightRanks
  <2>3. CASE v # w /\ pc[v] \notin SubmitPc
    BY <2>3 DEF Ending, Same, RightRanks, SubmitPc
  <2> QED
    BY <2>1, <2>2, <2>3
<1> QED
  BY <1>1, <1>4, <1>5 DEF RanksInv

\* After the flush of the ranks of a heading, nothing else changes its rows.
LEMMA LaterRanks ==
  ASSUME Sessions, NEW w \in Worker, NEW h \in Heading, Sees(w, Table(w)), RanksIn(Table(w), h),
         \A c \in DOMAIN todo'[w] : c[1] \in {"average", "rank"} => c[2] # h
  PROVE  RanksIn(Table(w)', h)
<1>1. \A s \in Student : /\ <<"average", h, s>> \in Cell /\ <<"rank", h, s>> \in Cell
                         /\ <<"average", h, s>> \notin DOMAIN todo'[w]
                         /\ <<"rank", h, s>> \notin DOMAIN todo'[w]
  BY CellFacts
<1>2. SameRows(Table(w), Table(w)', h)
  BY <1>1 DEF Sees, SameRows
<1> QED
  BY <1>2, RanksSame

LEMMA SubmissionRanks ==
  ASSUME OneSubmitter, RanksInv, NEW w \in Worker,
         \/ SubmitMarks(w) \/ SubmitAverages(w) \/ SubmitSubject(w)
         \/ SubmitRanks(w) \/ SubmitGeneral(w) \/ SubmitTerm(w)
  PROVE  RightRanks(w)'
<1> DEFINE h == TaughtIn(w)
<1>1. Sessions /\ MemoryInv /\ RightRanks(w) /\ UNCHANGED req /\ pc[w] \in SubmitPc
  BY SubmissionGoesOn DEF RanksInv, MemoryInv, Sessions
<1>2. /\ h \in Heading /\ General \in Heading /\ Batch(w) \in SUBSET Student /\ TaughtIn(w)' = h
      /\ h # General
  BY <1>1, SameRequest, SubmissionFacts, ClassAssumption
<1> HIDE DEF h
<1>3. CASE SubmitMarks(w)
  <2>1. pc'[w] = "submit-averages"
    BY <1>1, <1>3, SubmitMarksStep
  <2> QED
    BY <2>1 DEF RightRanks
<1>4. CASE SubmitAverages(w)
  <2>1. pc'[w] = "submit-subject"
    BY <1>1, <1>4, SubmitAveragesStep
  <2> QED
    BY <2>1 DEF RightRanks
<1>5. CASE SubmitSubject(w)
  <2>1. pc'[w] = "submit-ranks" /\ Sees(w, Table(w))
    BY <1>1, <1>5, SubmitSubjectStep
  <2>2. RankStep(w, h, "submit-ranks") /\ "submit-ranks" \in Pc
    BY <1>5 DEF SubmitSubject, h, Pc, SubmitPc
  <2>3. RanksIn(Table(w)', h)
    BY <1>1, <1>2, <2>1, <2>2, RankStepRanks
  <2> QED
    BY <1>2, <2>1, <2>3 DEF RightRanks, RanksIn
<1>6. CASE SubmitRanks(w)
  <2>1. pc'[w] = "submit-general" /\ Sees(w, Table(w)) /\ DOMAIN todo'[w] = {}
    BY <1>1, <1>6, SubmitRanksStep, NothingHeld
  <2>2. RanksIn(Table(w), h)
    BY <1>1, <1>6 DEF SubmitRanks, RightRanks, h
  <2>3. RanksIn(Table(w)', h)
    BY <1>1, <1>2, <2>1, <2>2, LaterRanks
  <2> QED
    BY <1>2, <2>1, <2>3 DEF RightRanks, RanksIn
<1>7. CASE SubmitGeneral(w)
  <2>1. /\ Sees(w, Kept(w)) /\ pc'[w] = "submit-term"
        /\ DOMAIN todo'[w] \subseteq RowCells(General, Batch(w))
    BY <1>1, <1>7, SubmitGeneralStep
  <2>2. Sees(w, Table(w))
    <3>1. DOMAIN todo[w] \subseteq {}
      BY <1>1, <1>7 DEF SubmitGeneral, Sessions, Flushing, May
    <3>2. \A c \in Cell : Kept(w)[c] = Table(w)[c]
      BY <1>1, <3>1, TableFacts DEF Sessions, Kept
    <3> QED
      BY <2>1, <3>2 DEF Sees
  <2>3. \A c \in DOMAIN todo'[w] : c[2] # h
    BY <1>2, <2>1, RowFacts
  <2>4. RanksIn(Table(w), h)
    BY <1>1, <1>7 DEF SubmitGeneral, RightRanks, h
  <2>5. RanksIn(Table(w)', h)
    BY <1>1, <1>2, <2>2, <2>3, <2>4, LaterRanks
  <2> QED
    BY <1>2, <2>1, <2>5 DEF RightRanks, RanksIn
<1>8. CASE SubmitTerm(w)
  <2>1. /\ pc'[w] = "submit-commit" /\ Sees(w, Table(w))
        /\ DOMAIN todo'[w] \subseteq RankCells(General)
    BY <1>1, <1>8, SubmitTermStep
  <2>2. RankStep(w, General, "submit-commit") /\ "submit-commit" \in Pc
    BY <1>8 DEF SubmitTerm, Pc, SubmitPc
  <2>3. RanksIn(Table(w)', General)
    BY <1>1, <1>2, <2>1, <2>2, RankStepRanks
  <2>4. \A c \in DOMAIN todo'[w] : c[2] # h
    BY <1>2, <2>1 DEF RankCells
  <2>5. RanksIn(Table(w), h)
    BY <1>1, <1>8 DEF SubmitTerm, RightRanks, h
  <2>6. RanksIn(Table(w)', h)
    BY <1>1, <1>2, <2>1, <2>4, <2>5, LaterRanks
  <2> QED
    BY <1>2, <2>1, <2>3, <2>6 DEF RightRanks, RanksIn
<1> QED
  BY <1>3, <1>4, <1>5, <1>6, <1>7, <1>8

LEMMA NextRanks ==
  ASSUME OneSubmitter, RanksInv, [Next]_vars
  PROVE  RanksInv'
<1>1. CASE UNCHANGED vars
  <2>1. MemoryInv'
    BY NextMemory DEF RanksInv
  <2>2. RanksFollowAverages'
    BY <1>1 DEF vars, RanksInv, RanksFollowAverages
  <2>3. ASSUME NEW v \in Worker PROVE RightRanks(v)'
    <3>1. Same(v) /\ Table(v)' = Table(v)
      BY <1>1 DEF vars, Same, Table, Written, Flushed
    <3>2. SameRows(Table(v), Table(v)', TaughtIn(v)) /\ SameRows(Table(v), Table(v)', General)
      BY <3>1 DEF SameRows
    <3> QED
      BY <3>1, <3>2, SameRightRanks DEF RanksInv
  <2> QED
    BY <2>1, <2>2, <2>3 DEF RanksInv
<1>2. ASSUME NEW w \in Worker, Submit(w) \/ Appreciate(w) \/ Direct(w) \/ Abort(w)
      PROVE  RanksInv'
  <2>1. Sessions /\ Sessions' /\ (Statement(w) \/ Ending(w))
    BY <1>2, StatementSteps DEF RanksInv, MemoryInv
  <2>2. CASE Ending(w)
    <3>1. stored' # stored => pc[w] \in {"submit-commit", "remark"}
      BY <1>2, CommitsOnly, EndFacts
    <3> QED
      BY <2>2, <3>1, EndingRanks
  <2>3. CASE Statement(w)
    <3>1. CASE BeginSubmit(w)
      <4>1. pc'[w] = "submit-marks"
        BY <2>1, <3>1, BeginSubmitStep
      <4>2. RightRanks(w)'
        BY <4>1 DEF RightRanks
      <4> QED
        BY <2>1, <2>3, <4>2, StatementRanks
    <3>2. CASE BeginRemark(w)
      <4>1. pc'[w] = "remark"
        BY <2>1, <3>2, BeginRemarkStep
      <4>2. RightRanks(w)'
        BY <4>1 DEF RightRanks
      <4> QED
        BY <2>1, <2>3, <4>2, StatementRanks
    <3>3. CASE SubmitMarks(w) \/ SubmitAverages(w) \/ SubmitSubject(w)
                 \/ SubmitRanks(w) \/ SubmitGeneral(w) \/ SubmitTerm(w)
      BY <2>1, <2>3, <3>3, SubmissionRanks, StatementRanks
    <3>4. CASE Direct(w) \/ Abort(w) \/ SubmitCommit(w) \/ RemarkCommit(w)
      <4>1. pc'[w] \in {"idle", "generate", "publish"}
        BY <2>1, <3>4 DEF Direct, Abort, SubmitCommit, RemarkCommit, Finish, BeginGenerate,
             GenerateStudent, GenerateCommit, BeginPublish, PublishCommit, Sessions, SessionShape
      <4>2. RightRanks(w)'
        BY <4>1 DEF RightRanks
      <4> QED
        BY <2>1, <2>3, <4>2, StatementRanks
    <3> QED
      BY <1>2, <3>1, <3>2, <3>3, <3>4 DEF Submit, Appreciate
  <2> QED
    BY <2>1, <2>2, <2>3
<1> QED
  BY <1>1, <1>2 DEF Next

\* When marks are submitted by one request at a time, a better average on
\* record never has a worse or equal rank, although _assign_ranks takes the rows
\* in the order of the averages the columns keep, and tells ties apart by the
\* averages of its session, which may not be rounded yet.
THEOREM RanksFollow ==
  ASSUME OneSubmitter
  PROVE  Spec => []RanksFollowAverages
<1>1. RanksInv => RanksFollowAverages
  BY DEF RanksInv
<1>2. OneSubmitter /\ RanksInv /\ [Next]_vars => RanksInv'
  BY NextRanks
<1> QED
  BY <1>1, <1>2, InitRanks, PTL DEF Spec

-----------------------------------------------------------------------------
(* Marks submitted by one request at a time: general averages.             *)

\* Numbers that are at most half a cent apart have means that are.
LEMMA MeansWithin ==
  ASSUME NEW S, IsFiniteSet(S), S # {}, NEW x \in [S -> Int], NEW y \in [S -> Int], NEW weight,
         \A i \in S : weight[i] \in Nat \ {0} /\ x[i] - y[i] \in -50 .. 50
  PROVE  /\ WeightedMean(x, weight, S) \in Int /\ WeightedMean(y, weight, S) \in Int
         /\ WeightedMean(x, weight, S) - WeightedMean(y, weight, S) \in -50 .. 50
<1> DEFINE f == [i \in S |-> weight[i] * x[i]]
           g == [i \in S |-> weight[i] * y[i]]
           e == [i \in S |-> weight[i]]
<1>1. f \in [S -> Int] /\ g \in [S -> Int] /\ e \in [S -> Nat] /\ e \in [S -> Int]
  OBVIOUS
<1>2. \A i \in S : f[i] <= g[i] + 50 * e[i] /\ g[i] <= f[i] + 50 * e[i]
  <2> SUFFICES ASSUME NEW i \in S PROVE f[i] <= g[i] + 50 * e[i] /\ g[i] <= f[i] + 50 * e[i]
    OBVIOUS
  <2>1. weight[i] \in Nat /\ x[i] \in Int /\ y[i] \in Int /\ x[i] <= y[i] + 50 /\ y[i] <= x[i] + 50
    OBVIOUS
  <2>2. \A n \in Nat, a, b \in Int : a <= b + 50 => n * a <= n * b + 50 * n
    <3> SUFFICES ASSUME NEW n \in Nat, NEW a \in Int, NEW b \in Int, a <= b + 50
                 PROVE  n * a <= n * b + 50 * n
      OBVIOUS
    <3>1. n * a <= n * (b + 50) /\ n * (b + 50) = n * b + 50 * n
      OBVIOUS
    <3> QED
      BY <3>1
  <2> QED
    BY <2>1, <2>2
<1>3. PICK i \in S : e[i] \in Nat \ {0}
  OBVIOUS
<1> HIDE DEF f, g, e
<1>4. SumFunction(f) \in Int /\ SumFunction(g) \in Int
  BY <1>1, SumType
<1>5. SumFunction(e) \in Nat \ {0}
  <2>1. e[i] <= SumFunction(e) /\ SumFunction(e) \in Nat
    BY <1>1, SumPart, SumNat
  <2> QED
    BY <1>3, <2>1
<1>6. SumFunction(f) <= SumFunction(g) + 50 * SumFunction(e)
  BY <1>1, <1>2, SumWithin
<1>7. SumFunction(g) <= SumFunction(f) + 50 * SumFunction(e)
  BY <1>1, <1>2, SumWithin
<1> DEFINE p == SumFunction(f) \div SumFunction(e)
           q == SumFunction(g) \div SumFunction(e)
<1>8. p <= q + 50 /\ q <= p + 50
  BY <1>4, <1>5, <1>6, <1>7, QuotientWithin
<1>9. p \in Int /\ q \in Int
  BY <1>4, <1>5
<1>10. WeightedMean(x, weight, S) = p /\ WeightedMean(y, weight, S) = q
  BY DEF WeightedMean, f, g, e
<1> HIDE DEF p, q
<1> QED
  BY <1>8, <1>9, <1>10

\* The general averages made of subject averages and of the same ones rounded.
LEMMA GeneralWithin ==
  ASSUME NEW t, NEW u, NEW s \in Student,
         \A h \in Subject : /\ t[<<"average", h, s>>] \in Int \cup Empty
                            /\ u[<<"average", h, s>>] = RoundedToCent(t[<<"average", h, s>>])
  PROVE  \/ GeneralAverage(t, s) = None /\ GeneralAverage(u, s) = None
         \/ /\ GeneralAverage(t, s) \in Int /\ GeneralAverage(u, s) \in Int
            /\ GeneralAverage(t, s) - GeneralAverage(u, s) \in -50 .. 50
<1> DEFINE S == {h \in Subject : t[<<"average", h, s>>] \notin Empty}
           x == [h \in S |-> t[<<"average", h, s>>]]
           y == [h \in S |-> u[<<"average", h, s>>]]
<1>1. S = {h \in Subject : u[<<"average", h, s>>] \notin Empty}
  <2>1. \A v \in Int \cup Empty : v \in Empty <=> RoundedToCent(v) \in Empty
    BY Rounding, ClassAssumption DEF Empty
  <2> QED
    BY <2>1
<1>2. GeneralAverage(t, s) = WeightedMean(x, Coefficient, S)
  BY DEF GeneralAverage
<1>3. GeneralAverage(u, s) = WeightedMean(y, Coefficient, S)
  BY <1>1 DEF GeneralAverage
<1>4. S \subseteq Subject /\ IsFiniteSet(S)
  BY FS_Subset, ClassAssumption
<1>5. \A h \in S : /\ x[h] \in Int /\ y[h] = RoundedToCent(x[h])
                   /\ Coefficient[h] \in Nat \ {0}
  BY ClassAssumption
<1>6. /\ x \in [S -> Int] /\ y \in [S -> Int]
      /\ \A h \in S : Coefficient[h] \in Nat \ {0} /\ x[h] - y[h] \in -50 .. 50
  <2> HIDE DEF S
  <2>1. \A h \in S : y[h] \in Int /\ x[h] - y[h] \in -50 .. 50
    BY <1>5, Rounding
  <2> QED
    BY <1>5, <2>1
<1> HIDE DEF S, x, y
<1>7. CASE S = {}
  BY <1>2, <1>3, <1>7 DEF WeightedMean
<1>8. CASE S # {}
  BY <1>2, <1>3, <1>4, <1>6, <1>8, MeansWithin
<1> QED
  BY <1>7, <1>8

\* The general average of s in a table is that of its subject averages.
GeneralIn(table, s) ==
  LET kept == table[<<"average", General, s>>]
      mean == GeneralAverage(table, s)
  IN IF mean = None THEN kept \in Empty
     ELSE kept # Missing /\ kept # None /\ kept - mean \in -Cent .. Cent

LEMMA StoredGeneral == GeneralAveragesCurrent <=> \A s \in Student : GeneralIn(stored, s)
BY DEF GeneralAveragesCurrent, GeneralIn

\* It does not change while the averages of s do not.
AveragesAgree(t, u, s) == \A h \in Heading : t[<<"average", h, s>>] = u[<<"average", h, s>>]

LEMMA GeneralSame ==
  ASSUME NEW t, NEW u, NEW s, AveragesAgree(t, u, s), GeneralIn(t, s)
  PROVE  GeneralIn(u, s)
<1>1. {h \in Subject : t[<<"average", h, s>>] \notin Empty}
        = {h \in Subject : u[<<"average", h, s>>] \notin Empty}
  BY DEF AveragesAgree, Heading
<1> DEFINE S == {h \in Subject : t[<<"average", h, s>>] \notin Empty}
<1>2. [h \in S |-> t[<<"average", h, s>>]] = [h \in S |-> u[<<"average", h, s>>]]
  BY DEF AveragesAgree, Heading
<1>3. GeneralAverage(t, s) = GeneralAverage(u, s)
  BY <1>1, <1>2 DEF GeneralAverage
<1>4. t[<<"average", General, s>>] = u[<<"average", General, s>>]
  BY DEF AveragesAgree, Heading
<1> QED
  BY <1>3, <1>4 DEF GeneralIn

\* A general average that was computed from averages that are not rounded yet,
\* once it is itself rounded.
LEMMA GeneralRounded ==
  ASSUME NEW t, NEW u, NEW s \in Student,
         \A h \in Subject : /\ t[<<"average", h, s>>] \in Int \cup Empty
                            /\ u[<<"average", h, s>>] = RoundedToCent(t[<<"average", h, s>>]),
         u[<<"average", General, s>>] = RoundedToCent(GeneralAverage(t, s))
  PROVE  GeneralIn(u, s)
<1> DEFINE p == GeneralAverage(t, s)
           q == GeneralAverage(u, s)
           k == u[<<"average", General, s>>]
<1>1. \/ p = None /\ q = None
      \/ p \in Int /\ q \in Int /\ p - q \in -50 .. 50
  BY GeneralWithin
<1>2. k = RoundedToCent(p) /\ (GeneralIn(u, s) <=> IF q = None THEN k \in Empty
        ELSE k # Missing /\ k # None /\ k - q \in -Cent .. Cent)
  BY DEF GeneralIn
<1> HIDE DEF p, q, k
<1>3. CASE p = None /\ q = None
  BY <1>2, <1>3, Rounding DEF Empty
<1>4. CASE p \in Int /\ q \in Int /\ p - q \in -50 .. 50
  <2>1. k \in Int /\ p - k \in -50 .. 50
    BY <1>2, <1>4, Rounding
  <2>2. k - q \in -100 .. 100
    BY <1>4, <2>1
  <2> QED
    BY <1>2, <1>4, <2>1, <2>2, ClassAssumption DEF Cent
<1> QED
  BY <1>1, <1>3, <1>4

\* Once the general averages of the batch are computed, and flushed, the
\* transaction sees those of the whole class right.  Before, its session holds
\* the rows it is going to compare them with.
TermsOf(w) ==
  /\ pc[w] = "submit-general" =>
       \A s \in Batch(w) : <<"average", General, s>> \in DOMAIN mem[w]
  /\ pc[w] \in {"submit-term", "submit-commit"} =>
       \A s \in Student : GeneralIn(Table(w), s)

GeneralInv == MemoryInv /\ GeneralAveragesCurrent /\ \A w \in Worker : TermsOf(w)

LEMMA InitGeneral == Init => GeneralInv
<1> SUFFICES ASSUME Init PROVE GeneralInv
  OBVIOUS
<1>1. \A h \in Heading, s \in Student : stored[<<"average", h, s>>] = Missing
  BY CellFacts DEF Init
<1>2. ASSUME NEW s \in Student PROVE GeneralIn(stored, s)
  <2>1. {h \in Subject : stored[<<"average", h, s>>] \notin Empty} = {}
    BY <1>1 DEF Empty, Heading
  <2>2. GeneralAverage(stored, s) = None
    BY <2>1 DEF GeneralAverage, WeightedMean
  <2>3. stored[<<"average", General, s>>] \in Empty
    BY <1>1 DEF Empty, Heading
  <2> QED
    BY <2>2, <2>3 DEF GeneralIn
<1>3. \A w \in Worker : TermsOf(w)
  BY DEF Init, TermsOf
<1> QED
  BY <1>2, <1>3, InitMemory, StoredGeneral DEF GeneralInv

LEMMA SameTerms ==
  ASSUME NEW v \in Worker, Same(v), TermsOf(v),
         \A s \in Student : AveragesAgree(Table(v), Table(v)', s)
  PROVE  TermsOf(v)'
<1>1. Batch(v)' = Batch(v)
  BY DEF Same, Batch
<1>2. \A s \in Student : GeneralIn(Table(v), s) => GeneralIn(Table(v)', s)
  BY GeneralSame
<1> QED
  BY <1>1, <1>2 DEF TermsOf, Same, GeneralIn, GeneralAverage

\* A statement of w, as far as the general averages w sees are right after it.
LEMMA StatementGeneral ==
  ASSUME GeneralInv, NEW w \in Worker, Statement(w), Sessions', TermsOf(w)'
  PROVE  GeneralInv'
<1>1. MemoryInv'
  BY StatementMemory DEF GeneralInv
<1>2. GeneralAveragesCurrent'
  BY DEF GeneralInv, GeneralAveragesCurrent, Statement, GeneralAverage
<1>3. ASSUME NEW v \in Worker, v # w PROVE TermsOf(v)'
  <2>1. Same(v) /\ stored' = stored
    BY <1>3 DEF Statement
  <2>2. Table(v)' = Table(v)
    BY <2>1 DEF Same, Table, Written, Flushed
  <2>3. \A s \in Student : AveragesAgree(Table(v), Table(v)', s)
    BY <2>2 DEF AveragesAgree
  <2> QED
    BY <2>1, <2>3, SameTerms DEF GeneralInv
<1> QED
  BY <1>1, <1>2, <1>3 DEF GeneralInv

LEMMA EndingGeneral ==
  ASSUME OneSubmitter, GeneralInv, NEW w \in Worker, Ending(w),
         stored' # stored => pc[w] \in {"submit-commit", "remark"}
  PROVE  GeneralInv'
<1>1. MemoryInv' /\ Sessions
  BY EndingMemory DEF GeneralInv, MemoryInv
<1>2. \A h \in Heading, s \in Student : <<"average", h, s>> \in Cell
  BY CellFacts
<1>3. pc[w] \notin SubmitPc =>
        \A h \in Heading, s \in Student : <<"average", h, s>> \notin Written(w)
  BY <1>1, OtherRows
<1>4. \A c \in Cell : c \notin Written(w) => stored'[c] = stored[c]
  BY <1>1, StoredAfter DEF Ending
<1>5. ASSUME NEW s \in Student PROVE GeneralIn(stored', s)
  <2>1. GeneralIn(stored, s)
    BY StoredGeneral DEF GeneralInv
  <2>2. CASE stored' = stored
    BY <2>1, <2>2
  <2>3. CASE stored' = Table(w) /\ pc[w] = "submit-commit"
    BY <2>3 DEF GeneralInv, TermsOf
  <2>4. CASE pc[w] = "remark"
    <3>1. AveragesAgree(stored, stored', s)
      BY <1>2, <1>3, <1>4, <2>4 DEF AveragesAgree, SubmitPc
    <3> QED
      BY <2>1, <3>1, GeneralSame
  <2> QED
    BY <2>2, <2>3, <2>4 DEF Ending
<1>6. GeneralAveragesCurrent'
  BY <1>5 DEF GeneralAveragesCurrent, GeneralIn, GeneralAverage
<1>7. ASSUME NEW v \in Worker PROVE TermsOf(v)'
  <2>1. CASE v = w
    <3>1. pc'[w] = "idle"
      BY <1>1, FinishFacts DEF Ending, Sessions
    <3> QED
      BY <2>1, <3>1 DEF TermsOf
  <2>2. CASE v # w /\ pc[v] \in SubmitPc
    <3>1. Same(v) /\ TermsOf(v)
      BY <2>2 DEF Ending, GeneralInv
    <3>2. pc[w] \notin SubmitPc
      BY <1>1, <2>2 DEF Sessions, Requested, OneSubmitter
    <3>3. \A c \in Cell : c \notin Written(w) => Table(v)'[c] = Table(v)[c]
      <4>1. Written(v)' = Written(v) /\ Flushed(v)' = Flushed(v)
        BY <3>1 DEF Same, Written, Flushed
      <4> QED
        BY <1>4, <4>1 DEF Table
    <3>4. \A s \in Student : AveragesAgree(Table(v), Table(v)', s)
      BY <1>2, <1>3, <3>2, <3>3 DEF AveragesAgree
    <3> QED
      BY <3>1, <3>4, SameTerms
  <2>3. CASE v # w /\ pc[v] \notin SubmitPc
    BY <2>3 DEF Ending, Same, TermsOf, SubmitPc
  <2> QED
    BY <2>1, <2>2, <2>3
<1> QED
  BY <1>1, <1>6, <1>7 DEF GeneralInv

\* recompute_term_averages.
LEMMA SubmitGeneralTerms ==
  ASSUME OneSubmitter, GeneralInv, NEW w \in Worker, SubmitGeneral(w), NEW s \in Student
  PROVE  GeneralIn(Table(w)', s)
<1> DEFINE S == Batch(w)
           C == UNION {AverageCells(h, S) : h \in Subject}
           m == Loaded(mem[w], C)
<1>1. /\ Sessions /\ MemoryInv /\ pc[w] = "submit-general" /\ pc[w] \in SubmitPc
      /\ SessionShape /\ S \in SUBSET Student /\ General \in Heading /\ General \notin Subject
  BY SubmissionFacts, ClassAssumption DEF SubmitGeneral, GeneralInv, MemoryInv, SubmitPc
<1>2. C \in SUBSET Cell /\ \A h \in Subject, t \in S : <<"average", h, t>> \in C
  <2>1. \A h \in Subject : /\ AverageCells(h, S) \subseteq Cell
                           /\ \A t \in S : <<"average", h, t>> \in AverageCells(h, S)
    BY <1>1, RowFacts DEF Heading
  <2> QED
    BY <2>1
<1>3. mem'[w] = m
  <2> DEFINE average == [c \in AverageCells(General, S) |-> GeneralAverage(m, c[3])]
             t == Upsert(m, General, average)
  <2>1. Step(w, "submit-term", m, t, dirty[w]) /\ UNCHANGED req
    BY DEF SubmitGeneral
  <2>2. "submit-term" \in Pc
    BY DEF Pc, SubmitPc
  <2> HIDE DEF m, t
  <2> QED
    BY <1>1, <2>1, <2>2, StepFacts
<1>4. /\ Sees(w, Kept(w)) /\ Sessions'
      /\ DOMAIN todo'[w] \subseteq RowCells(General, S)
      /\ \A t \in S : LET c == <<"average", General, t>>
                          mean == GeneralAverage(mem'[w], t)
                      IN IF mem'[w][c] = mean THEN c \notin DOMAIN todo'[w]
                         ELSE c \in DOMAIN todo'[w] /\ todo'[w][c] = mean
  BY <1>1, SubmitGeneralStep
<1>5. DOMAIN todo[w] = {}
  BY <1>1 DEF Sessions, Flushing, May
<1>6. \A c \in Cell : Table(w)'[c] = IF c \in DOMAIN todo'[w] THEN InColumn(c, todo'[w][c])
                                     ELSE Table(w)[c]
  <2>1. \A c \in Cell : Kept(w)[c] = Table(w)[c]
    BY <1>1, <1>5, TableFacts DEF Kept
  <2> QED
    BY <1>4, <2>1 DEF Sees
<1> HIDE DEF C, S
<1>7. ASSUME NEW c \in DOMAIN mem[w] \cup C, c[1] = "average"
      PROVE  Table(w)[c] = RoundedToCent(m[c])
  <2> DEFINE D == DOMAIN mem[w] \cup C
  <2>1. D \in SUBSET Cell
    BY <1>1, <1>2 DEF SessionShape, Holds
  <2>2. Loaded(Flushed(w), D)[c] = m[c]
    <3>1. /\ DOMAIN Flushed(w) = DOMAIN mem[w]
          /\ \A x \in DOMAIN mem[w] : Flushed(w)[x] = mem[w][x]
      BY <1>1, <1>5, FlushedFacts
    <3> QED
      BY <3>1 DEF Loaded
  <2> HIDE DEF D, m
  <2>3. Table(w)[c] = InColumn(c, Loaded(Flushed(w), D)[c])
    BY <1>1, <1>7, <2>1, SeesWhatItHolds DEF GeneralInv, D
  <2> QED
    BY <1>7, <2>2, <2>3 DEF InColumn
<1>8. Holds(m) /\ DOMAIN m = DOMAIN mem[w] \cup C
  <2>1. Holds(m)
    BY <1>3, <1>4 DEF Sessions, SessionShape
  <2> QED
    BY <2>1 DEF Loaded
<1> HIDE DEF m
<1> DEFINE u == Table(w)'
<1>9. \A c \in Cell : u[c] = IF c \in DOMAIN todo'[w] THEN InColumn(c, todo'[w][c]) ELSE Table(w)[c]
  BY <1>6
<1>10. \A h \in Heading : <<"average", h, s>> \in Cell
  BY CellFacts
<1>11. \A c \in DOMAIN todo'[w] : c[2] = General /\ c[3] \in S
  BY <1>1, <1>4, RowFacts
<1>12. CASE s \in S
  <2>1. \A h \in Subject : /\ m[<<"average", h, s>>] \in Int \cup Empty
                           /\ u[<<"average", h, s>>] = RoundedToCent(m[<<"average", h, s>>])
    <3> SUFFICES ASSUME NEW h \in Subject
                 PROVE  /\ m[<<"average", h, s>>] \in Int \cup Empty
                        /\ u[<<"average", h, s>>] = RoundedToCent(m[<<"average", h, s>>])
      OBVIOUS
    <3> DEFINE c == <<"average", h, s>>
    <3>1. c \in C /\ c \in Cell /\ c[1] = "average" /\ c[2] # General
      BY <1>1, <1>2, <1>12
    <3> HIDE DEF c, u
    <3>2. u[c] = Table(w)[c]
      BY <1>9, <1>11, <3>1
    <3>3. m[c] \in Int \cup Empty
      BY <1>8, <3>1 DEF Holds, ValueOf
    <3> QED
      BY <1>7, <3>1, <3>2, <3>3 DEF c
  <2>2. u[<<"average", General, s>>] = RoundedToCent(GeneralAverage(m, s))
    <3> DEFINE c == <<"average", General, s>>
               mean == GeneralAverage(m, s)
    <3>1. c \in Cell /\ c[1] = "average"
      BY <1>1, <1>10
    <3>2. c \in DOMAIN mem[w]
      BY <1>1, <1>12 DEF GeneralInv, TermsOf, S
    <3>3. IF m[c] = mean THEN c \notin DOMAIN todo'[w]
          ELSE c \in DOMAIN todo'[w] /\ todo'[w][c] = mean
      BY <1>3, <1>4, <1>12
    <3> HIDE DEF c, u, mean
    <3>4. Table(w)[c] = RoundedToCent(m[c])
      BY <1>7, <3>1, <3>2
    <3>5. u[c] = RoundedToCent(mean)
      BY <1>9, <3>1, <3>3, <3>4 DEF InColumn
    <3> QED
      BY <3>5 DEF c, mean
  <2> HIDE DEF u
  <2>3. GeneralIn(u, s)
    BY <2>1, <2>2, GeneralRounded
  <2> QED
    BY <2>3 DEF u
<1>13. CASE s \notin S
  <2>1. \A h \in Heading : <<"average", h, s>> \notin Written(w)
    <3> SUFFICES ASSUME NEW h \in Heading, <<"average", h, s>> \in Written(w) PROVE FALSE
      OBVIOUS
    <3> QED
      BY <1>1, <1>13, WrittenKinds DEF S, SubmitPc
  <2>2. \A h \in Heading : <<"average", h, s>> \notin DOMAIN todo'[w]
    BY <1>11, <1>13
  <2>3. \A h \in Heading : u[<<"average", h, s>>] = stored[<<"average", h, s>>]
    <3>1. \A h \in Heading : Table(w)[<<"average", h, s>>] = stored[<<"average", h, s>>]
      BY <1>10, <2>1 DEF Table
    <3> HIDE DEF u
    <3> QED
      BY <1>9, <1>10, <2>2, <3>1
  <2>4. GeneralIn(stored, s)
    BY StoredGeneral DEF GeneralInv
  <2> HIDE DEF u
  <2>5. GeneralIn(u, s)
    BY <2>3, <2>4, GeneralSame DEF AveragesAgree
  <2> QED
    BY <2>5 DEF u
<1> QED
  BY <1>12, <1>13

LEMMA SubmissionGeneral ==
  ASSUME OneSubmitter, GeneralInv, NEW w \in Worker,
         \/ SubmitMarks(w) \/ SubmitAverages(w) \/ SubmitSubject(w)
         \/ SubmitRanks(w) \/ SubmitGeneral(w) \/ SubmitTerm(w)
  PROVE  TermsOf(w)'
<1>1. Sessions /\ TermsOf(w) /\ UNCHANGED req /\ pc[w] \in SubmitPc
  BY SubmissionGoesOn DEF GeneralInv, MemoryInv, Sessions
<1>2. CASE SubmitMarks(w)
  <2>1. pc'[w] = "submit-averages"
    BY <1>1, <1>2, SubmitMarksStep
  <2> QED
    BY <2>1 DEF TermsOf
<1>3. CASE SubmitAverages(w)
  <2>1. pc'[w] = "submit-subject"
    BY <1>1, <1>3, SubmitAveragesStep
  <2> QED
    BY <2>1 DEF TermsOf
<1>4. CASE SubmitSubject(w)
  <2>1. pc'[w] = "submit-ranks"
    BY <1>1, <1>4, SubmitSubjectStep
  <2> QED
    BY <2>1 DEF TermsOf
<1>5. CASE SubmitRanks(w)
  <2> DEFINE C == RowCells(General, Batch(w))
             m == Loaded(Flushed(w), C)
  <2>1. Step(w, "submit-general", m, NoCells, Written(w)) /\ "submit-general" \in Pc
    BY <1>5 DEF SubmitRanks, Pc, SubmitPc
  <2>2. \A s \in Batch(w) : <<"average", General, s>> \in C
    BY DEF RowCells, Columns
  <2>3. C \subseteq DOMAIN m
    BY DEF Loaded
  <2> HIDE DEF m, C
  <2>4. pc'[w] = "submit-general" /\ mem'[w] = m
    BY <1>1, <2>1, StepFacts DEF Sessions
  <2>5. Batch(w)' = Batch(w)
    BY <1>1 DEF Batch
  <2> QED
    BY <2>2, <2>3, <2>4, <2>5 DEF TermsOf
<1>6. CASE SubmitGeneral(w)
  <2>1. pc'[w] = "submit-term"
    BY <1>1, <1>6, SubmitGeneralStep
  <2>2. \A s \in Student : GeneralIn(Table(w)', s)
    BY <1>6, SubmitGeneralTerms
  <2> QED
    BY <2>1, <2>2 DEF TermsOf, GeneralIn, GeneralAverage
<1>7. CASE SubmitTerm(w)
  <2>1. /\ pc'[w] = "submit-commit" /\ Sees(w, Table(w))
        /\ DOMAIN todo'[w] \subseteq RankCells(General)
    BY <1>1, <1>7, SubmitTermStep
  <2>2. \A s \in Student : GeneralIn(Table(w), s)
    BY <1>1, <1>7 DEF SubmitTerm, TermsOf
  <2>3. \A c \in DOMAIN todo'[w] : c[1] = "rank"
    BY <2>1 DEF RankCells
  <2>4. \A s \in Student : AveragesAgree(Table(w), Table(w)', s)
    BY <2>1, <2>3, CellFacts DEF Sees, AveragesAgree
  <2>5. \A s \in Student : GeneralIn(Table(w)', s)
    BY <2>2, <2>4, GeneralSame
  <2> QED
    BY <2>1, <2>5 DEF TermsOf, GeneralIn, GeneralAverage
<1> QED
  BY <1>2, <1>3, <1>4, <1>5, <1>6, <1>7

LEMMA NextGeneral ==
  ASSUME OneSubmitter, GeneralInv, [Next]_vars
  PROVE  GeneralInv'
<1>1. CASE UNCHANGED vars
  <2>1. MemoryInv'
    BY NextMemory DEF GeneralInv
  <2>2. GeneralAveragesCurrent'
    BY <1>1 DEF vars, GeneralInv, GeneralAveragesCurrent, GeneralAverage
  <2>3. ASSUME NEW v \in Worker PROVE TermsOf(v)'
    <3>1. Same(v) /\ Table(v)' = Table(v)
      BY <1>1 DEF vars, Same, Table, Written, Flushed
    <3>2. \A s \in Student : AveragesAgree(Table(v), Table(v)', s)
      BY <3>1 DEF AveragesAgree
    <3> QED
      BY <3>1, <3>2, SameTerms DEF GeneralInv
  <2> QED
    BY <2>1, <2>2, <2>3 DEF GeneralInv
<1>2. ASSUME NEW w \in Worker, Submit(w) \/ Appreciate(w) \/ Direct(w) \/ Abort(w)
      PROVE  GeneralInv'
  <2>1. Sessions /\ Sessions' /\ (Statement(w) \/ Ending(w))
    BY <1>2, StatementSteps DEF GeneralInv, MemoryInv
  <2>2. CASE Ending(w)
    <3>1. stored' # stored => pc[w] \in {"submit-commit", "remark"}
      BY <1>2, CommitsOnly, EndFacts
    <3> QED
      BY <2>2, <3>1, EndingGeneral
  <2>3. CASE Statement(w)
    <3>1. CASE BeginSubmit(w)
      <4>1. pc'[w] = "submit-marks"
        BY <2>1, <3>1, BeginSubmitStep
      <4>2. TermsOf(w)'
        BY <4>1 DEF TermsOf
      <4> QED
        BY <2>1, <2>3, <4>2, StatementGeneral
    <3>2. CASE BeginRemark(w)
      <4>1. pc'[w] = "remark"
        BY <2>1, <3>2, BeginRemarkStep
      <4>2. TermsOf(w)'
        BY <4>1 DEF TermsOf
      <4> QED
        BY <2>1, <2>3, <4>2, StatementGeneral
    <3>3. CASE SubmitMarks(w) \/ SubmitAverages(w) \/ SubmitSubject(w)
                 \/ SubmitRanks(w) \/ SubmitGeneral(w) \/ SubmitTerm(w)
      BY <2>1, <2>3, <3>3, SubmissionGeneral, StatementGeneral
    <3>4. CASE Direct(w) \/ Abort(w) \/ SubmitCommit(w) \/ RemarkCommit(w)
      <4>1. pc'[w] \in {"idle", "generate", "publish"}
        BY <2>1, <3>4 DEF Direct, Abort, SubmitCommit, RemarkCommit, Finish, BeginGenerate,
             GenerateStudent, GenerateCommit, BeginPublish, PublishCommit, Sessions, SessionShape
      <4>2. TermsOf(w)'
        BY <4>1 DEF TermsOf
      <4> QED
        BY <2>1, <2>3, <4>2, StatementGeneral
    <3> QED
      BY <1>2, <3>1, <3>2, <3>3, <3>4 DEF Submit, Appreciate
  <2> QED
    BY <2>1, <2>2, <2>3
<1> QED
  BY <1>1, <1>2 DEF Next

\* When marks are submitted by one request at a time, the general average of
\* every student is the mean of the subject averages on record, up to the cent
\* that recompute_term_averages loses by computing it from averages its session
\* has not rounded yet: half a cent for them, half a cent for itself.
THEOREM GeneralAveragesFollow ==
  ASSUME OneSubmitter
  PROVE  Spec => []GeneralAveragesCurrent
<1>1. GeneralInv => GeneralAveragesCurrent
  BY DEF GeneralInv
<1>2. OneSubmitter /\ GeneralInv /\ [Next]_vars => GeneralInv'
  BY NextGeneral
<1> QED
  BY <1>1, <1>2, InitGeneral, PTL DEF Spec
=============================================================================
