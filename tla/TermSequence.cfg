SPECIFICATION Spec
CONSTANTS
  Maths = Maths
  French = French
  Test = Test
  Exam = Exam
  Essay = Essay
  Teacher = Teacher
  Other = Other
  Principal = Principal
  Deputy = Deputy
  General = General
  None = None
  Missing = Missing
  Worker = {Teacher}
  Director = {Teacher}
  Marks <- OneTeacher
  Remarkable <- OneTeacherRemarks
  Score = {2, 3}
  Remark = {praise}
  Student = {s1, s2}
  Subject = {Maths, French}
  Assessment = {Test, Essay}
  SubjectOf <- MCSubjectOf
  MaxScore <- MCMaxScore
  Weight <- MCWeight
  Coefficient <- MCCoefficient
  MaxRequests = 4
CHECK_DEADLOCK FALSE
SYMMETRY Symmetry
INVARIANTS GeneralAveragesCurrent RanksFollowAverages
 
