SPECIFICATION Spec
CONSTANTS
  s1 = s1
  s2 = s2
  s3 = s3
  Sources <- MCSources
  Closed <- MCClosed
  Kinds = {"c", "cpp", "rust", "unknown"}
  MaxEdits = 2
  MaxTroubles = 1
  Absent = Absent
  Torn = Torn
INVARIANTS TypeOK ReturnedIsOfInputs SharedInPairs ForcedRunRecovers RaisesForCause
SYMMETRY MCSymmetry
