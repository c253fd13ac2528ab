------------------------------ MODULE Teaching ------------------------------
(***************************************************************************)
(* Who teaches what, and what an account may do and see because of it: the *)
(* subjects of the classes and the assignments of teachers                 *)
(* (academics/router.py), the scoped permissions (core/permissions.py),    *)
(* the checks of the marks (grades/router.py), the teacher portal          *)
(* (teacher/service.py) and the teachers a class announcement is for       *)
(* (notifications/service.py).                                             *)
(*                                                                         *)
(* The schools are those of one organization.  An assignment outlives the  *)
(* role it was given for.  A request that writes marks reads the roles     *)
(* twice and then the assignments, each time as they are committed.        *)
(***************************************************************************)
EXTENDS Integers

CONSTANTS
  Grader,       \* requests in progress at the same time
  Account,
  House,        \* the schools
  Course,       \* class_subjects rows that are there, or may be added
  CourseOf,     \* the school, class and subject of each
  FirstCourses, FirstGrants, FirstSeat,  \* what is there at first; one assignment at most
  MaxMoves      \* bound on requests

NULL == "NULL"
Organization == "organization"
(* STAFF stands for every role that does not manage marks, PARENT included.*)
Code == {"TEACHER", "SCHOOL_ADMIN", "STAFF", "SUPER_ADMIN"}
InSchool == {"TEACHER", "STAFF"}
(* user_roles: both columns are NULL on a platform, the school's column    *)
(* alone in an organization.                                               *)
UserRole == [code : Code, org : {Organization, NULL}, school : House \cup {NULL}]
RoleIn(code, s) == [code |-> code, org |-> Organization, school |-> s]
SeatRow == [id : Nat, who : Account, course : Course, school : House]

ASSUME CourseAssumption ==
  /\ Account # {} /\ Course # {} /\ NULL \notin House
  /\ \A c \in Course : CourseOf[c].school \in House
  /\ \A c, d \in Course : CourseOf[c].class = CourseOf[d].class => CourseOf[c].school = CourseOf[d].school
  /\ FirstCourses \subseteq Course
  /\ FirstGrants \in [Account -> SUBSET UserRole]
  /\ \A u \in Account, r \in UserRole :
       r \in FirstGrants[u] /\ r.code \in InSchool => r.school \in House /\ r.org = Organization
  /\ \A c, d \in FirstCourses :
       CourseOf[c].class = CourseOf[d].class /\ CourseOf[c].subject = CourseOf[d].subject => c = d
  /\ FirstSeat \subseteq Account \X FirstCourses /\ \A a, b \in FirstSeat : a = b
  /\ MaxMoves \in Nat

VARIABLES
  grant,        \* the roles of each account
  enabled,      \* is_active
  course,       \* class_subjects
  spent,        \* their identifiers that were given out
  seat,         \* teacher_assignments
  quiz,         \* assessments, by course and author
  marks,        \* results, by the course of their assessment and author
  job,          \* each request
  moves

teachingVars == <<grant, enabled, course, spent, seat, quiz, marks, job, moves>>

(* entitled: the rule held when the request read last; swapped: the roles  *)
(* of the account changed between its reads.                               *)
Job ==
  [pc : {"idle", "confine", "assigned", "write", "seat"}, kind : {"quiz", "marks", "assign", "reassign"},
   who : Account, course : Course, id : Nat, entitled : BOOLEAN, swapped : BOOLEAN]
NewJob(pc, kind, u, c, id) ==
  [pc |-> pc, kind |-> kind, who |-> u, course |-> c, id |-> id,
   entitled |-> FALSE, swapped |-> FALSE]
NoJob == NewJob("idle", "quiz", CHOOSE u \in Account : TRUE, CHOOSE c \in Course : TRUE, 0)

(* Rows refer to rows that are there, and are unique.                      *)
TeachingTypeOK ==
  /\ grant \in [Account -> SUBSET UserRole] /\ enabled \subseteq Account
  /\ course \subseteq spent /\ spent \subseteq Course
  /\ \A c, d \in course :
       CourseOf[c].class = CourseOf[d].class /\ CourseOf[c].subject = CourseOf[d].subject => c = d
  /\ seat \subseteq SeatRow /\ \A a \in seat : a.course \in course /\ a.school = CourseOf[a.course].school
  /\ \A a, b \in seat : a.id = b.id \/ (a.who = b.who /\ a.course = b.course) => a = b
  /\ quiz \subseteq course \X Account
  /\ marks \subseteq course \X Account /\ \A m \in marks : \E q \in quiz : q[1] = m[1]
  /\ job \in [Grader -> Job] /\ moves \in 0 .. MaxMoves

TeachingInit ==
  /\ grant = FirstGrants /\ enabled = Account
  /\ course = FirstCourses /\ spent = FirstCourses
  /\ seat = {[id |-> 0, who |-> a[1], course |-> a[2], school |-> CourseOf[a[2]].school] : a \in FirstSeat}
  /\ quiz = {} /\ marks = {}
  /\ job = [g \in Grader |-> NoJob]
  /\ moves = 0

----------------------------------------------------------------------------
(* The scope of roles                                                      *)

\* Faulty variant: a role in any school of the organization counts.
ScopeAnySchool(r, s) ==
  \/ r.org = NULL /\ r.school = NULL
  \/ r.org = Organization
  \/ r.school = s
(* _scope_conditions.                                                      *)
ScopeConditions(r, s) ==
  \/ r.org = NULL /\ r.school = NULL
  \/ r.org = Organization /\ r.school = NULL
  \/ r.school = s
CodesIn(u, s) == {r.code : r \in {x \in grant[u] : ScopeConditions(x, s)}}

Grants == [permission \in {"grades.manage"} |-> {"TEACHER", "SCHOOL_ADMIN", "SUPER_ADMIN"}]
EnsurePermission(u, permission, s) == CodesIn(u, s) \cap Grants[permission] # {}

\* Faulty variant: who has another role in any school is not confined.
TeacherOnlyAnywhere(u, s) == {r.code : r \in grant[u]} = {"TEACHER"}
IsTeacherOnly(u, s) == CodesIn(u, s) = {"TEACHER"}

PlatformAdmin(u) == \E r \in grant[u] : r.code = "SUPER_ADMIN"
TeachesIn(u, s) == RoleIn("TEACHER", s) \in grant[u]
SeatsOf(u) == {a \in seat : a.who = u}

(* Where a teacher is confined to: the subjects and classes by the school  *)
(* of the assignment (_teacher_assignment_scope), or the classes by the    *)
(* school of the subject (_teacher_enrolled_class_ids).                    *)
MarksScope(u, s) == {a.course : a \in {x \in SeatsOf(u) : x.school = s}}
ClassesOf(courses) == {CourseOf[c].class : c \in courses}
RecordsScope(u, s) ==
  ClassesOf({a.course : a \in {x \in SeatsOf(u) : CourseOf[x.course].school = s}})

(* The portal: the assignments in the schools where the account teaches.   *)
EnsureTeacher(u) == u \in enabled /\ ~PlatformAdmin(u) /\ \E s \in House : TeachesIn(u, s)
TeacherScope(u) ==
  {a.course : a \in {x \in SeatsOf(u) : TeachesIn(u, CourseOf[x.course].school)}}
PortalScope(u) == IF EnsureTeacher(u) THEN TeacherScope(u) ELSE {}

(* The teachers an announcement to a class is for.                         *)
\* Faulty variant: the assignment is enough.
ReachedByAssignment(class) ==
  {u \in enabled : ~PlatformAdmin(u) /\ class \in ClassesOf({a.course : a \in SeatsOf(u)})}
ClassTeachers(class) ==
  {u \in enabled :
     /\ ~PlatformAdmin(u)
     /\ \E a \in SeatsOf(u) :
          CourseOf[a.course].class = class /\ TeachesIn(u, CourseOf[a.course].school)}

(* What the business rule says of marks.  A second role in the school,     *)
(* whatever it is, lifts the restriction of a teacher.                     *)
Rule(u, c) ==
  LET s == CourseOf[c].school
      over == {s, NULL}
      has == {r.code : r \in {x \in grant[u] : x.school \in over}} IN
  \/ has \cap {"SCHOOL_ADMIN", "SUPER_ADMIN"} # {}
  \/ "TEACHER" \in has /\ (\E a \in seat : a.who = u /\ a.course = c)
  \/ "TEACHER" \in has /\ has # {"TEACHER"}

----------------------------------------------------------------------------
TeachingRows == <<grant, enabled, course, spent, seat, quiz, marks>>
Becomes(g, j) == job' = [job EXCEPT ![g] = j]
Move == moves < MaxMoves /\ moves' = moves + 1
EndJob(g) == Becomes(g, NoJob) /\ UNCHANGED <<TeachingRows, moves>>

(* create_assessment and submit_results: the permission is read, then      *)
(* whether the account is a teacher only, then its assignment.             *)
StartMarks(g, u, c, kind) ==
  /\ job[g].pc = "idle" /\ Move
  /\ u \in enabled /\ c \in course
  /\ kind = "marks" => \E q \in quiz : q[1] = c
  /\ EnsurePermission(u, "grades.manage", CourseOf[c].school)
  /\ Becomes(g, NewJob("confine", kind, u, c, 0))
  /\ UNCHANGED TeachingRows
Confine(g) ==
  LET j == job[g] IN
  /\ j.pc = "confine"
  /\ Becomes(g, [j EXCEPT
       !.pc = IF IsTeacherOnly(j.who, CourseOf[j.course].school) THEN "assigned" ELSE "write",
       !.entitled = Rule(j.who, j.course)])
  /\ UNCHANGED <<TeachingRows, moves>>
\* Faulty variant: an assignment to the class is enough.
AssignedToClass(u, c) == CourseOf[c].class \in ClassesOf({a.course : a \in SeatsOf(u)})
AssignedTo(u, c) == \E a \in SeatsOf(u) : a.course = c
CheckAssigned(g) ==
  LET j == job[g] IN
  /\ j.pc = "assigned"
  /\ IF AssignedTo(j.who, j.course)
     THEN /\ Becomes(g, [j EXCEPT !.pc = "write", !.entitled = Rule(j.who, j.course)])
          /\ UNCHANGED <<TeachingRows, moves>>
     ELSE EndJob(g)
(* A subject that was removed meanwhile makes the insert fail.             *)
WriteQuiz(g) ==
  LET j == job[g] IN
  /\ j.pc = "write" /\ j.kind = "quiz" /\ j.course \in course
  /\ quiz' = quiz \cup {<<j.course, j.who>>}
  /\ Becomes(g, NoJob)
  /\ UNCHANGED <<grant, enabled, course, spent, seat, marks, moves>>
WriteMarks(g) ==
  LET j == job[g] IN
  /\ j.pc = "write" /\ j.kind = "marks" /\ j.course \in course
  /\ marks' = marks \cup {<<j.course, j.who>>}
  /\ Becomes(g, NoJob)
  /\ UNCHANGED <<grant, enabled, course, spent, seat, quiz, moves>>
WriteFails(g) ==
  /\ job[g].pc = "write" /\ job[g].course \notin course
  /\ EndJob(g)

(* _ensure_school_teacher, then the insert or the update: a subject or an  *)
(* assignment that is gone, or one that is there already, makes it fail.   *)
SchoolTeacher(u, s) == u \in enabled /\ ~PlatformAdmin(u) /\ TeachesIn(u, s)
StartAssign(g, u, c) ==
  /\ job[g].pc = "idle" /\ Move
  /\ c \in course /\ SchoolTeacher(u, CourseOf[c].school)
  /\ Becomes(g, NewJob("seat", "assign", u, c, moves + 1))
  /\ UNCHANGED TeachingRows
StartReassign(g, a, u) ==
  /\ job[g].pc = "idle" /\ Move
  /\ a.who # u /\ SchoolTeacher(u, a.school)
  /\ Becomes(g, NewJob("seat", "reassign", u, a.course, a.id))
  /\ UNCHANGED TeachingRows
SeatFor(j) == [id |-> j.id, who |-> j.who, course |-> j.course, school |-> CourseOf[j.course].school]
OtherSeats(j) == {a \in seat : a.id # j.id}
\* Faulty variant: nothing makes two assignments of one teacher conflict.
SeatGone(j) ==
  \/ j.course \notin course
  \/ j.kind = "reassign" /\ OtherSeats(j) = seat
SeatConflict(j) ==
  \/ j.course \notin course
  \/ j.kind = "reassign" /\ OtherSeats(j) = seat
  \/ \E a \in OtherSeats(j) : a.who = j.who /\ a.course = j.course
CommitSeat(g) ==
  LET j == job[g] IN
  /\ j.pc = "seat" /\ ~SeatConflict(j)
  /\ seat' = OtherSeats(j) \cup {SeatFor(j)}
  /\ Becomes(g, NoJob)
  /\ UNCHANGED <<grant, enabled, course, spent, quiz, marks, moves>>
SeatFails(g) ==
  /\ job[g].pc = "seat" /\ SeatConflict(job[g])
  /\ EndJob(g)

RemoveAssignment(a) ==
  /\ Move
  /\ seat' = seat \ {a}
  /\ UNCHANGED <<grant, enabled, course, spent, quiz, marks, job>>

(* One row for each class and subject.                                     *)
AddCourse(c) ==
  /\ Move
  /\ \A d \in course : CourseOf[d].class = CourseOf[c].class => CourseOf[d].subject # CourseOf[c].subject
  /\ course' = course \cup {c} /\ spent' = spent \cup {c}
  /\ UNCHANGED <<grant, enabled, seat, quiz, marks, job>>
\* Faulty variant: the assignments are left behind.
RemoveCourseOnly(c) ==
  /\ Move
  /\ course' = course \ {c}
  /\ quiz' = {q \in quiz : q[1] # c} /\ marks' = {m \in marks : m[1] # c}
  /\ UNCHANGED <<grant, enabled, spent, seat, job>>
(* remove_class_subject: everything that refers to it goes with it.        *)
RemoveCourse(c) ==
  /\ Move
  /\ course' = course \ {c}
  /\ seat' = {a \in seat : a.course # c}
  /\ quiz' = {q \in quiz : q[1] # c} /\ marks' = {m \in marks : m[1] # c}
  /\ UNCHANGED <<grant, enabled, spent, job>>

(* Roles change (see Onboarding); who is in the middle of its reads then   *)
(* may have read both.                                                     *)
Regrant(u, roles) ==
  /\ Move
  /\ grant[u] # roles /\ ~PlatformAdmin(u)
  /\ grant' = [grant EXCEPT ![u] = roles]
  /\ job' = [g \in Grader |->
       IF job[g].who = u /\ job[g].pc \in {"confine", "assigned"}
       THEN [job[g] EXCEPT !.swapped = TRUE] ELSE job[g]]
  /\ UNCHANGED <<enabled, course, spent, seat, quiz, marks>>
ReplaceRole(u, s, code) ==
  LET here == {r \in grant[u] : r.school = s} IN
  here # {} /\ Regrant(u, (grant[u] \ here) \cup {RoleIn(code, s)})
AttachRole(u, s, code) == u \in enabled /\ Regrant(u, grant[u] \cup {RoleIn(code, s)})
SetEnabled(u) ==
  /\ Move /\ ~PlatformAdmin(u) /\ \E r \in grant[u] : r.school # NULL
  /\ enabled' = IF u \in enabled THEN enabled \ {u} ELSE enabled \cup {u}
  /\ UNCHANGED <<grant, course, spent, seat, quiz, marks, job>>

----------------------------------------------------------------------------
TeachingNext ==
  \/ \E g \in Grader, u \in Account, c \in Course :
       \/ StartMarks(g, u, c, "quiz") \/ StartMarks(g, u, c, "marks")
       \/ StartAssign(g, u, c)
  \/ \E g \in Grader, a \in seat, u \in Account : StartReassign(g, a, u)
  \/ \E g \in Grader :
       \/ Confine(g) \/ CheckAssigned(g) \/ WriteQuiz(g) \/ WriteMarks(g) \/ WriteFails(g)
       \/ CommitSeat(g) \/ SeatFails(g)
  \/ \E a \in seat : RemoveAssignment(a)
  \/ \E c \in Course \ spent : AddCourse(c)
  \/ \E c \in course : RemoveCourse(c)
  \/ \E u \in Account, s \in House, code \in InSchool : ReplaceRole(u, s, code) \/ AttachRole(u, s, code)
  \/ \E u \in Account : SetEnabled(u)

TeachingSpec == TeachingInit /\ [][TeachingNext]_teachingVars

----------------------------------------------------------------------------
(* Nothing is written about a subject by an account that the rule did not  *)
(* allow to: three reads, one after the other, decide as the rule does in  *)
(* one, unless the roles of the account changed between them.              *)
WritesAreEntitled ==
  \A g \in Grader : job[g].pc = "write" => job[g].entitled \/ job[g].swapped

(* Every part of the program has the same idea of what a teacher is        *)
(* confined to, however assignments and roles came and went: the marks,    *)
(* the records of students and report cards, and the portal agree, and an  *)
(* announcement reaches those whose portal shows the class.                *)
SameScopeEverywhere ==
  /\ \A u \in enabled, s \in House : IsTeacherOnly(u, s) /\ ~PlatformAdmin(u) =>
       /\ MarksScope(u, s) = {c \in PortalScope(u) : CourseOf[c].school = s}
       /\ RecordsScope(u, s) = ClassesOf(MarksScope(u, s))
  /\ \A class \in ClassesOf(Course) :
       ClassTeachers(class) = {u \in Account : class \in ClassesOf(PortalScope(u))}

(* What an account may do in a school does not depend on its roles in the  *)
(* other schools of the organization.                                      *)
MayGrade(u, c) ==
  /\ EnsurePermission(u, "grades.manage", CourseOf[c].school)
  /\ IsTeacherOnly(u, CourseOf[c].school) => AssignedTo(u, c)
RolesOver(u, s) == {r \in grant[u] : r.school \in {s, NULL}}
ElsewhereDoesNotMatter ==
  [][seat' = seat => \A u \in {v \in Account : grant'[v] # grant[v]}, c \in Course :
       LET s == CourseOf[c].school IN
       RolesOver(u, s)' = RolesOver(u, s) => MayGrade(u, c)' = MayGrade(u, c)]_teachingVars

=============================================================================
