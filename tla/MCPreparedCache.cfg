CONSTANTS
  MaxPrepared = 3
  Queries = {q1, q2}
  MaxMinted = 7
SPECIFICATION CacheSpec
INVARIANTS
  CacheTypeOK
  WithinCapacity
  MarkersTrackLive
  MarkersBounded
  SurvivesUntilDisplaced
PROPERTIES
  EvictsOldestFirst
  ImplementsOldestFirstMap
