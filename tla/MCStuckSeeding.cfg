SPECIFICATION CatalogueSpec
CONSTANTS
  None = None
  Seeder = {s1}
  Reader = {}
  Asked <- Seeded
  Executable = {1, 2, 3}
  Measured <- Measurements
  Mode = {"auto"}
  Budget = {0}
  Capability = "image"
  MaxSeeds = 3
INVARIANTS
  SeedingConverges
CHECK_DEADLOCK FALSE
