SPECIFICATION StudySpec
CONSTANTS
  Generation = {g1}
  Worker = {w1, w2, w3}
  Nobody = Nobody
  Nothing = Nothing
  MaxFaults = 2
  None = None
  Seeder = {s1, s2}
  Reader = {r1}
  Asked <- Seeded
  Executable = {1, 2, 3}
  Measured <- Measurements
  Mode = {"auto", "hybrid", "commercial_only"}
  Budget = {0, 5}
  Capability = "image"
  MaxSeeds = 3
  Absent = Absent
  Prompt <- Prompts
  Identity <- Worlds
  Target <- Targets
  PerShot <- PerShots
  Image <- Images
  Film <- Films
  MaxShots = 3
  MaxReaps = 1
  LockKey = {k1, k2}
  Process = {p1, p2, p3}
  Owner = {p1, p2, p3}
  Token <- OwnToken
  NoRow = NoRow
  LeaseFor = {1, 2}
  MaxClock = 5
INVARIANTS
  SpendOnce
  AnnouncedIfCompleted
  CatalogueIsSound
  ManifestFits
  RunsAreSound
  AtMostOneLiveHolder
PROPERTIES
  LiveRunNotReaped
  ClaimedEnds
  OnlyItsRunRevives
  ImplementsLease
CHECK_DEADLOCK FALSE
