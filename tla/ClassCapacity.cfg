SPECIFICATION Spec
CONSTANTS
  Student = {a, b, c}
  a = a
  b = b
  c = c
  Clerk = {k1}
  Class <- FourClasses
  ClassYear <- TwoYears
  Capacity <- FewSeats
  FirstClass <- OneInSecondYear
  Selection <- Pair
  Mapping <- Moves
  MaxRequests = 1
  Teacher = {t1}
  Admin = {h1}
  Session = {s1, s2}
  s1 = s1
  s2 = s2
  Room = 1
  Day <- SameDay
  MaxRolls = 0
  Uploader = {u1, u2}
  File = {f1}
  MaxUploads = 0
  MaxTroubles = 0
  chief = chief
  director = director
  partner = partner
  super = super
  newcomer = newcomer
  Operator = {o1, o2}
  Email = {chief, director, partner, super, newcomer}
  Org <- Slugs
  Site <- Sites
  OrgOf <- SlugOf
  NameOf <- Names
  Normal <- LowerCase
  Global = "platform"
  FirstSites <- Built1
  FirstRoles <- Staff
  FirstSource = partner
  Invitable = {"SCHOOL_ADMIN", "TEACHER"}
  MaxSetups = 0
  hill = hill
  lake = lake
  t1 = t1
  t2 = t2
  t3 = t3
  parent = parent
  Registrar = {r1, r2}
  Campus = {hill, lake}
  Pupil = {1, 2, 3, 4}
  Matricule = {"m1", "m2", "m3"}
  Identity = {"Anna", "Cid"}
  Sheet <- Sheets
  StudentStatus = {"ACTIVE", "WITHDRAWN"}
  FirstPupil <- OnePupil
  Tutor = {t1, t2, t3}
  TutorAt <- TutorSchool
  ParentAccount = {parent}
  FirstTutor = {t1, t3}
  FirstAccount <- TwoSchools
  Pick = {{1, 2}}
  MaxEntries = 0
  reader = reader
  colleague = colleague
  Poster = {w1, w2}
  Person = {reader, colleague}
  Reader = reader
  SchoolMember = {reader, colleague}
  ClassGuardian = {reader}
  ClassTeacher = {}
  Text = {"hello"}
  PageSize = 1
  MaxPosts = 0
  MaxWalks = 0
  ana = ana
  head = head
  root = root
  hillside = hillside
  lakeside = lakeside
  Grader = {g1, g2}
  Account = {ana, head, root}
  House = {hillside, lakeside}
  Course <- Courses
  CourseOf <- Plan
  FirstCourses <- ThreeOfThem
  FirstGrants <- Hired
  FirstSeat <- AnaTeachesArt
  MaxMoves = 0
CHECK_DEADLOCK FALSE
PROPERTIES AssignmentWithinCapacity
