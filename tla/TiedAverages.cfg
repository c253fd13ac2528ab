SPECIFICATION Spec
CONSTANTS
  Maths = Maths
  French = French
  Test = Test
  Exam = Exam
  Essay = Essay
  Teacher = Teacher
  Other = Other
  Principal = Principal
  Deputy = Deputy
  General = General
  None = None
  Missing = Missing
  Worker = {Teacher}
  Director = {}
  Marks <- OneTeacher
  Remarkable <- NoRemarks
  Score = {2, 3}
  Remark = {}
  Student = {s1, s2}
  Subject = {Maths, French}
  Assessment = {Test, Essay}
  SubjectOf <- MCSubjectOf
  MaxScore <- MCMaxScore
  Weight <- MCWeight
  Coefficient <- MCCoefficient
  MaxRequests = 2
CHECK_DEADLOCK FALSE
INVARIANTS EqualAveragesShareRank
