SPECIFICATION FairSpec
CONSTANTS
  NotRead = NotRead
  FailureThreshold = 3
  MaxRotations = 3
  MaxCalls = 2
INVARIANTS
  TypeOK
  FailsOnlyAfterRotation
PROPERTIES
  AdmissionResumes
