CONSTANTS
  n1 = n1
  n2 = n2
  n3 = n3
  o1 = o1
  o2 = o2
  None = None
  Node = {n1, n2, n3}
  Offender = {o1, o2}
  MaxKeygens = 2
  Scenes <- MCScenes
  ReportScenes <- MCReportScenes
  Courses <- MCCourses
  MAX_SUBMISSION_DELAY = 1
  UnsignedInterval = 1
  MaxUnjails = 1
SPECIFICATION SubmissionsSpec
INVARIANTS KeyHasReporters 
PROPERTIES EventuallyOnChain 
CHECK_DEADLOCK FALSE
