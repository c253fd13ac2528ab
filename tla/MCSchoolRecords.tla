--------------------------- MODULE MCSchoolRecords ---------------------------
(***************************************************************************)
(* The records of a school for TLC.  A behaviour looks at requests of one  *)
(* component only: SchoolRecordsProofs shows that a step of the school is  *)
(* a step of one component or leaves it alone, so that interleaving them   *)
(* would show nothing else.                                                *)
(*                                                                         *)
(* Two classes of a first year lead to two of a second one.  One partner   *)
(* enrolled the only school there is; two more of its organization have    *)
(* names that differ in case, and another organization is not there yet.   *)
(***************************************************************************)
EXTENDS SchoolRecords, TLC

CONSTANTS a, b, c, s1, s2
FourClasses == 1 .. 4
TwoYears == <<1, 1, 2, 2>>
FewSeats == <<3, 3, 1, 2>>
ThreeStudents == (a :> 1) @@ (b :> 1) @@ (c :> 2)
OneInSecondYear == (a :> 3) @@ (b :> 0) @@ (c :> 0)
Groups == {{a, b}, {b, c}}
Pair == {{a, b}}
Goes(one, two) == <<one, two, 0, 0>>
Moves == {Goes(3, 4), Goes(4, 3), Goes(4, Leaves), Goes(3, 0)}
SameDay == (s1 :> 1) @@ (s2 :> 1)

CONSTANTS chief, director, partner, super, newcomer
Slugs == {"north", "south"}
Sites == {"n1", "n2", "n3", "s1"}
SlugOf == [s \in Sites |-> IF s = "s1" THEN "south" ELSE "north"]
Names == "n1" :> "Hill" @@ "n2" :> "River" @@ "n3" :> "RIVER" @@ "s1" :> "Hill"
LowerCase == "Hill" :> "hill" @@ "River" :> "river" @@ "RIVER" :> "river"
Built1 == {"n1"}
Staff ==
  {<<chief, "SCHOOL_ADMIN", "north">>, <<director, "DIRECTOR", "n1">>,
   <<partner, "PARTNER_ADMIN", "platform">>, <<super, "SUPER_ADMIN", "platform">>}

CONSTANTS hill, lake, t1, t2, t3, parent
Anna == [school |-> hill, mat |-> "m1", who |-> "Anna", status |-> "ACTIVE"]
OnePupil == <<Anna, NoPupil, NoPupil, NoPupil>>
(* A newcomer twice and a line that cannot be read; a known name with a    *)
(* new matricule and a newcomer.                                           *)
Sheets == {<<<<"m2", "Cid">>, BadRow, <<"m3", "Cid">>>>, <<<<"m3", "Anna">>, <<"m2", "Cid">>>>}
TutorSchool == t1 :> hill @@ t2 :> hill @@ t3 :> lake
TwoSchools == t1 :> {parent} @@ t2 :> {} @@ t3 :> {parent}

CONSTANTS reader, colleague

CONSTANTS ana, head, root, hillside, lakeside
Courses == 1 .. 4
Plan ==
  <<[school |-> hillside, class |-> "6A", subject |-> "art"],
    [school |-> hillside, class |-> "6A", subject |-> "music"],
    [school |-> lakeside, class |-> "5B", subject |-> "art"],
    [school |-> hillside, class |-> "6A", subject |-> "art"]>>
Hired ==
  ana :> {RoleIn("TEACHER", hillside), RoleIn("TEACHER", lakeside)}
  @@ head :> {[code |-> "SCHOOL_ADMIN", org |-> Organization, school |-> NULL], RoleIn("TEACHER", hillside)}
  @@ root :> {[code |-> "SUPER_ADMIN", org |-> NULL, school |-> NULL]}
ThreeOfThem == 1 .. 3
AnaTeachesArt == {<<ana, 1>>}

(* Requests of another kind are there.                                     *)
Busy ==
  [records |-> asked > 0, rolls |-> rolls > 0, files |-> uploads > 0,
   schools |-> setups > 0, students |-> entries > 0, notices |-> clock + walks > 0,
   teaching |-> moves > 0]
Only(kind) == \A k \in DOMAIN Busy \ {kind} : ~Busy[k]

Next ==
  \/ Only("records") /\ EnrolMoves
  \/ Only("rolls") /\ RollMoves
  \/ Only("files") /\ FilesMove
  \/ Only("schools") /\ OnboardMoves
  \/ Only("students") /\ DirectoryMoves
  \/ Only("notices") /\ NoticesMove
  \/ Only("teaching") /\ TeachingMoves
Spec == SchoolInit /\ [][Next]_schoolVars
=============================================================================
