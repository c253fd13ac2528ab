---------------------------- MODULE MCReportCards ----------------------------
(***************************************************************************)
(* Small instances of ReportCards for TLC: a class of two subjects.        *)
(***************************************************************************)
EXTENDS ReportCards, TLC

CONSTANTS Maths, French, Test, Exam, Essay, Teacher, Other, Principal, Deputy

\* Scores out of 3 do not divide evenly: 2 of 3 is 13.33 of 20.
MCSubjectOf == [a \in Assessment |-> IF a = Essay THEN French ELSE Maths]
MCMaxScore == [a \in Assessment |-> 3]
MCWeight == [a \in Assessment |-> IF a = Exam THEN 2 ELSE 1]
MCCoefficient == [h \in Subject |-> IF h = Maths THEN 2 ELSE 1]

\* One teacher gives all the marks, the directors none.
OneTeacher == [w \in Worker |-> IF w = Teacher THEN Assessment ELSE {}]
OneTeacherRemarks == [w \in Worker |-> IF w = Teacher THEN Subject ELSE {}]
\* Each subject has its teacher.
OneTeacherEach == [w \in Worker |->
  IF w = Teacher THEN {a \in Assessment : MCSubjectOf[a] = Maths}
  ELSE IF w = Other THEN {a \in Assessment : MCSubjectOf[a] = French} ELSE {}]
\* Two teachers share a subject.
SharedSubject == [w \in Worker |-> Assessment]
Symmetry == Permutations(Student)

NoRemarks == [w \in Worker |-> {}]
=============================================================================
