SPECIFICATION Spec
CONSTANTS
  Apps = {"a1"}
  Handlers = {"h1"}
  Policy = "AfterChangesUploaded"
  MaxSessions = 2
  MaxOpens = 2
  MaxCommits = 1
  MaxEvents = 2
INVARIANTS TypeOK SessionSafe
PROPERTIES UploadedBeforeDeath
CHECK_DEADLOCK FALSE
