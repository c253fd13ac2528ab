---------------------------- MODULE SchoolRecords ----------------------------
(***************************************************************************)
(* A school and its accounts, students, enrollments, roll calls, student   *)
(* files, notices and teaching side by side: the routers of one            *)
(* application (main.py) on one database.  A step is a step of one         *)
(* component.  They share no rows but the enrollments a roll call reads.   *)
(***************************************************************************)
EXTENDS Attendance, StudentFiles, Onboarding, StudentDirectory, Notices, Teaching

SchoolInit ==
  TeachingInit /\ NoticesInit /\ DirectoryInit /\ EnrolInit /\ RollInit /\ FilesInit /\ OnboardInit

EnrolMoves ==
  EnrolNext /\ UNCHANGED <<rollVars, fileVars, setupVars, directoryVars, noticeVars, teachingVars>>
RollMoves ==
  RollNext /\ UNCHANGED <<enrolVars, fileVars, setupVars, directoryVars, noticeVars, teachingVars>>
FilesMove ==
  FilesNext /\ UNCHANGED <<enrolVars, rollVars, setupVars, directoryVars, noticeVars, teachingVars>>
OnboardMoves ==
  OnboardNext /\ UNCHANGED <<enrolVars, rollVars, fileVars, directoryVars, noticeVars, teachingVars>>
DirectoryMoves ==
  DirectoryNext /\ UNCHANGED <<enrolVars, rollVars, fileVars, setupVars, noticeVars, teachingVars>>
NoticesMove ==
  NoticesNext /\ UNCHANGED <<enrolVars, rollVars, fileVars, setupVars, directoryVars, teachingVars>>
TeachingMoves ==
  TeachingNext /\ UNCHANGED <<enrolVars, rollVars, fileVars, setupVars, directoryVars, noticeVars>>

SchoolNext ==
  \/ EnrolMoves \/ RollMoves \/ FilesMove \/ OnboardMoves
  \/ DirectoryMoves \/ NoticesMove \/ TeachingMoves

schoolVars == <<enrolVars, rollVars, fileVars, setupVars, directoryVars, noticeVars, teachingVars>>
SchoolSpec == SchoolInit /\ [][SchoolNext]_schoolVars

(* The rows and requests of every component are what they should be.       *)
RecordsTypeOK ==
  /\ EnrolTypeOK /\ RollTypeOK /\ FilesTypeOK /\ OnboardTypeOK
  /\ DirectoryTypeOK /\ NoticesTypeOK /\ TeachingTypeOK
=============================================================================
