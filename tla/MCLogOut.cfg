SPECIFICATION Spec
CONSTANTS
  Apps = {"a1"}
  Handlers = {}
  Policy = "AfterChangesUploaded"
  MaxSessions = 2
  MaxOpens = 2
  MaxCommits = 1
  MaxEvents = 1
PROPERTIES LogOutEnds
CHECK_DEADLOCK FALSE
