SPECIFICATION Spec
CONSTANTS
  Manifests <- OrderedManifests
  None = None
INVARIANTS HazardsOrdered
CHECK_DEADLOCK FALSE
