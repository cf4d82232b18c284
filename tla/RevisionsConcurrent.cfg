SPECIFICATION Spec
CONSTANTS
  Requests = {r1, r2, r3}
  Authors = {alice, bob}
  Keep = 1
  Routes <- AllRoutes
  MaxInFlight = 2
  StoreFaults <- AllFaults
  Seed = seed
SYMMETRY Symmetry
VIEW Seen
INVARIANT RevisionsInv
INVARIANT HistoryBounded
PROPERTY AmendsOwnRevisions
PROPERTY CheckpointsFrozen
PROPERTY NextSaveHeals
PROPERTY HistoryPromise
CHECK_DEADLOCK FALSE
