SPECIFICATION ContainerSpec
CONSTANTS
  Controllers = {splash, a, b, c}
  Splash = splash
  Reuse = FALSE
  Embedding = "loaded"
INVARIANTS
  ContainerTypeOK
  ContainedStaysShown
CHECK_DEADLOCK FALSE
