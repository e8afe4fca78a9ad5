SPECIFICATION Spec
CONSTANTS
  Manifests <- PreciseManifests
  None = None
INVARIANTS HazardsOrdered ReadsVisible 
PROPERTY AllComplete
CHECK_DEADLOCK FALSE
