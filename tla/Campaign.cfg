SPECIFICATION FairSpec
CONSTANTS
  NRoots = 2
  Versions = {v1, v2}
  First = v1
  Blocked = {v2}
  Retained = {2}
  Modes <- MCModes
  MaxEdits = 1
  MaxCrashes = 1
  MaxFails = 1
  None = None
  Torn = Torn
INVARIANTS TypeOK RowsAreOfSources PacketsAreOfRows RaisesForCause
PROPERTIES EvidenceKept CampaignEnds
