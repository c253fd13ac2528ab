----------------------------- MODULE Enrollment -----------------------------
(***************************************************************************)
(* Places in classes (students/service.py, students/router.py): bulk       *)
(* assignment to a class, bulk promotion from one school year to the next, *)
(* and the enrollments a secretary writes one at a time.                   *)
(*                                                                         *)
(* A bulk call reads the enrollments, locks the classes it wants to fill   *)
(* in the order of their ids, counts, and writes.  What it read before the *)
(* locks may have changed by then, the session writes only the columns     *)
(* that differ from what it loaded, and single writes look at no lock.     *)
(* The first write of a call and its commit are one step: whoever meets an *)
(* uncommitted row waits for that commit.                                  *)
(***************************************************************************)
EXTENDS Integers, FiniteSets

CONSTANTS
  Clerk,        \* people who may send a request at the same time
  Student,
  Class,        \* class ids, in the order of the database
  ClassYear,    \* the school year of each class: 1, then 2
  Capacity,     \* seats of each class; no limit is a number none reaches
  FirstClass,   \* the class of each student at first, 0 for none
  Selection,    \* sets of students that are picked for a bulk call
  Mapping,      \* class mappings and exit dispositions of promotions
  MaxRequests   \* bound on requests

ASSUME ClassAssumption == Class \subseteq Nat \ {0} /\ IsFiniteSet(Class)
ASSUME YearAssumption == ClassYear \in [Class -> 1 .. 2]
ASSUME CapacityAssumption == Capacity \in [Class -> Nat] /\ IsFiniteSet(Student)
ASSUME FirstAssumption == FirstClass \in [Student -> Class \cup {0}]
ASSUME SelectionAssumption == Selection \subseteq SUBSET Student
ASSUME MappingAssumption ==
  \A m \in Mapping : /\ m \in [Class -> Class \cup {0, -1}]
                     /\ \A c \in Class : m[c] # 0 => ClassYear[c] = 1
                     /\ \A c \in Class : m[c] \in Class => ClassYear[m[c]] = 2
ASSUME RequestAssumption == MaxRequests \in Nat

NoClass == 0
Leaves == -1            \* in a mapping: an exit disposition
Status == {"ACTIVE", "WITHDRAWN"}
NoRow == [class |-> NoClass, status |-> "WITHDRAWN"]
Row == [class : Class \cup {NoClass}, status : Status]
Slot == Student \X (1 .. 2)       \* UNIQUE (student_id, academic_year_id)

VARIABLES
  row,          \* committed enrollments
  exits,        \* students who left after the first year (student_exits)
  clerk,        \* each request with the locks it holds
  stray,        \* classes too full at first, or where someone was seated without a count
  asked         \* requests so far

enrolVars == <<row, exits, clerk, stray, asked>>

(* seat: rows to insert or to move, with the class; seen: what was loaded; *)
(* leave: exits to insert; credit: selected students already in the class; *)
(* left: selected students with neither class nor exit; lock: class rows   *)
(* still to lock; held: class rows locked.                                 *)
Request ==
  [pc : {"idle", "lock", "count", "write"}, kind : {"assign", "promote"},
   who : SUBSET Student, seat : SUBSET (Slot \X Class), seen : [Student -> Row],
   leave : SUBSET Student, credit : Nat, left : SUBSET Student,
   lock : SUBSET Class, held : SUBSET Class]

NoRequest ==
  [pc |-> "idle", kind |-> "assign", who |-> {}, seat |-> {},
   seen |-> [s \in Student |-> NoRow], leave |-> {}, credit |-> 0,
   left |-> {}, lock |-> {}, held |-> {}]

EnrolTypeOK ==
  /\ row \in [Slot -> Row]
  /\ exits \subseteq Student
  /\ clerk \in [Clerk -> Request]
  /\ stray \subseteq Class
  /\ asked \in 0 .. MaxRequests

Enrolled(p) == row[p].class # NoClass
ActiveIn(r, c) == r.class = c /\ r.status = "ACTIVE"
Seated(c) == {p \in Slot : ActiveIn(row[p], c)}

EnrolInit ==
  /\ row = [p \in Slot |->
       IF FirstClass[p[1]] # NoClass /\ ClassYear[FirstClass[p[1]]] = p[2]
       THEN [class |-> FirstClass[p[1]], status |-> "ACTIVE"] ELSE NoRow]
  /\ exits = {}
  /\ clerk = [k \in Clerk |-> NoRequest]
  /\ stray = {c \in Class : Cardinality(Seated(c)) > Capacity[c]}
  /\ asked = 0

----------------------------------------------------------------------------
Held(c) == \E k \in Clerk : c \in clerk[k].held
CountOf(seat, c) == Cardinality({x \in seat : x[2] = c})

Ask == asked < MaxRequests /\ asked' = asked + 1
Reject(k) ==
  /\ clerk' = [clerk EXCEPT ![k] = NoRequest]
  /\ UNCHANGED <<row, exits, stray, asked>>

(* bulk_assign_students_to_class: the enrollments of the year are read     *)
(* before the class is locked.                                             *)
Assign(k, c, who) ==
  /\ clerk[k].pc = "idle"
  /\ Ask
  /\ LET y == ClassYear[c]
         unchanged == {s \in who : ActiveIn(row[<<s, y>>], c)} IN
     clerk' = [clerk EXCEPT ![k] =
       [pc |-> "lock", kind |-> "assign", who |-> who,
        seat |-> {<<<<s, y>>, c>> : s \in who \ unchanged},
        seen |-> [s \in Student |-> IF s \in who THEN row[<<s, y>>] ELSE NoRow],
        leave |-> {}, credit |-> Cardinality(unchanged), left |-> {}, lock |-> {c}, held |-> {}]]
  /\ UNCHANGED <<row, exits, stray>>

\* Faulty variant: an exit is taken for a class.
MovingOrLeaving(m, who) == {s \in who : m[row[<<s, 1>>].class] # NoClass}
Moving(m, who) == {s \in who : m[row[<<s, 1>>].class] \in Class}

(* bulk_promote_students: everybody must be active in the first year; who  *)
(* is enrolled in the second is left alone, who has an exit keeps it.      *)
Promote(k, m, who) ==
  /\ clerk[k].pc = "idle"
  /\ \A s \in who : Enrolled(<<s, 1>>) /\ row[<<s, 1>>].status = "ACTIVE"
  /\ Ask
  /\ LET goesTo(s) == m[row[<<s, 1>>].class]
         open == {s \in who : ~Enrolled(<<s, 2>>)}
         moving == Moving(m, open) IN
     clerk' = [clerk EXCEPT ![k] =
       [pc |-> IF moving = {} THEN "count" ELSE "lock", kind |-> "promote", who |-> who,
        seat |-> {<<<<s, 2>>, goesTo(s)>> : s \in moving}, seen |-> NoRequest.seen,
        leave |-> {s \in open : goesTo(s) = Leaves /\ s \notin exits}, credit |-> 0,
        left |-> {s \in open : goesTo(s) = NoClass},
        lock |-> {goesTo(s) : s \in moving}, held |-> {}]]
  /\ UNCHANGED <<row, exits, stray>>

(* SELECT ... ORDER BY id FOR UPDATE takes the rows one by one.            *)
\* Faulty variant: the rows are locked in the order the scan meets them.
AnyOf(lock) == lock
FirstOf(lock) == {c \in lock : \A d \in lock : c <= d}
\* Faulty variant: the class is not locked.
NoLock(k) ==
  /\ clerk[k].pc = "lock"
  /\ clerk' = [clerk EXCEPT ![k].lock = {}, ![k].pc = "count"]
  /\ UNCHANGED <<row, exits, stray, asked>>
LockClass(k) ==
  /\ clerk[k].pc = "lock"
  /\ \E c \in FirstOf(clerk[k].lock) :
       /\ ~Held(c)
       /\ clerk' = [clerk EXCEPT
            ![k].lock = @ \ {c}, ![k].held = @ \cup {c},
            ![k].pc = IF clerk[k].lock = {c} THEN "count" ELSE "lock"]
  /\ UNCHANGED <<row, exits, stray, asked>>

(* The seats asked for against the capacity; the students of an assignment *)
(* who are in the class already are given back to it.                      *)
Fits(k, c) ==
  CountOf(clerk[k].seat, c) <= Capacity[c] - Cardinality(Seated(c)) + clerk[k].credit
Wants(k) == {x[2] : x \in clerk[k].seat} \cup clerk[k].held
\* Faulty variant: students nobody decided about are passed over.
CountSeatsOnly(k) ==
  /\ clerk[k].pc = "count"
  /\ \A c \in Wants(k) : Fits(k, c)
  /\ clerk' = [clerk EXCEPT ![k].pc = "write"]
  /\ UNCHANGED <<row, exits, stray, asked>>
Count(k) ==
  /\ clerk[k].pc = "count"
  /\ clerk[k].left = {}
  /\ \A c \in Wants(k) : Fits(k, c)
  /\ clerk' = [clerk EXCEPT ![k].pc = "write"]
  /\ UNCHANGED <<row, exits, stray, asked>>
Refuse(k) ==
  /\ clerk[k].pc = "count"
  /\ clerk[k].left # {} \/ \E c \in Wants(k) : ~Fits(k, c)
  /\ Reject(k)

(* A row that was not there when it was read is inserted; of a row that    *)
(* was, only the columns that differ from what was read are written.       *)
Placed(seen, now, c) ==
  IF seen.class = NoClass THEN [class |-> c, status |-> "ACTIVE"]
  ELSE [class |-> IF seen.class # c THEN c ELSE now.class,
        status |-> IF seen.status # "ACTIVE" THEN "ACTIVE" ELSE now.status]
Seat(k, p) == CHOOSE c \in Class : <<p, c>> \in clerk[k].seat
Seats(k) == {x[1] : x \in clerk[k].seat}
(* Someone else inserted the same key meanwhile.                           *)
Duplicate(k) ==
  \/ \E p \in Seats(k) : clerk[k].seen[p[1]].class = NoClass /\ Enrolled(p)
  \/ clerk[k].leave \cap exits # {}
Conflict(k) == clerk[k].pc = "write" /\ Duplicate(k) /\ Reject(k)

Write(k) ==
  /\ clerk[k].pc = "write"
  /\ ~Duplicate(k)
  /\ row' = [p \in Slot |->
       IF p \in Seats(k) THEN Placed(clerk[k].seen[p[1]], row[p], Seat(k, p)) ELSE row[p]]
  /\ exits' = exits \cup clerk[k].leave
  /\ stray' = stray \cup {row'[p].class : p \in {p \in Seats(k) : row'[p].class # Seat(k, p)}}
                    \cup (IF clerk[k].credit > 0 THEN {x[2] : x \in clerk[k].seat} ELSE {})
  /\ clerk' = [clerk EXCEPT ![k] = NoRequest]
  /\ UNCHANGED asked

(* create_enrollment: no lock and no count.                                *)
Create(p, c) ==
  /\ ~Enrolled(p) /\ ClassYear[c] = p[2]
  /\ Ask
  /\ row' = [row EXCEPT ![p] = [class |-> c, status |-> "ACTIVE"]]
  /\ stray' = stray \cup {c}
  /\ UNCHANGED <<exits, clerk>>

(* update_enrollment: the status alone.                                    *)
SetStatus(p, status) ==
  /\ Enrolled(p) /\ row[p].status # status
  /\ Ask
  /\ row' = [row EXCEPT ![p].status = status]
  /\ stray' = IF status = "ACTIVE" THEN stray \cup {row[p].class} ELSE stray
  /\ UNCHANGED <<exits, clerk>>

----------------------------------------------------------------------------
EnrolNext ==
  \/ \E k \in Clerk, c \in Class, who \in Selection : Assign(k, c, who)
  \/ \E k \in Clerk, m \in Mapping, who \in Selection : Promote(k, m, who)
  \/ \E k \in Clerk : LockClass(k) \/ Count(k) \/ Refuse(k) \/ Conflict(k) \/ Write(k)
  \/ \E p \in Slot, c \in Class : Create(p, c)
  \/ \E p \in Slot, status \in Status : SetStatus(p, status)

EnrolSpec == EnrolInit /\ [][EnrolNext]_enrolVars

----------------------------------------------------------------------------
(* A class that was filled by counted calls alone is never fuller than its *)
(* capacity, however assignments and promotions of the same students and   *)
(* classes overlap.                                                        *)
CountedClassesFit ==
  \A c \in Class \ stray : Cardinality(Seated(c)) <= Capacity[c]

(* Calls that lock several classes never wait for each other in a circle.  *)
WaitsFor(k, o) ==
  clerk[k].pc = "lock" /\ FirstOf(clerk[k].lock) \cap clerk[o].held # {}
NoLockCircle ==
  \A k, o \in Clerk : ~(WaitsFor(k, o) /\ WaitsFor(o, k))

Writes(k, kind) ==
  /\ clerk[k].pc = "write" /\ clerk[k].kind = kind
  /\ ~Duplicate(k)
  /\ clerk'[k].pc = "idle"

(* After a promotion nobody who was selected is forgotten: each has an     *)
(* enrollment in the new year, or an exit.                                 *)
NobodyForgotten ==
  [][\A k \in Clerk : Writes(k, "promote") =>
       \A s \in clerk[k].who : row'[<<s, 2>>].class # NoClass \/ s \in exits']_enrolVars

(* Bulk calls that lock many classes and write many rows go through whole: *)
(* they never wait for each other in a circle, and leave nobody out.       *)
BulkCallsGoThrough == []NoLockCircle /\ NobodyForgotten

(* What the capacity check is for: an assignment never takes a class       *)
(* beyond its capacity.                                                    *)
AssignmentWithinCapacity ==
  [][\A k \in Clerk, c \in Class : Writes(k, "assign") /\ c \in clerk[k].held =>
       Cardinality({p \in Slot : ActiveIn(row'[p], c)}) <= Capacity[c]]_enrolVars
=============================================================================
