\* Two nodes and the pool started together; starts end when all are online.
SPECIFICATION Spec
CONSTANTS
  node1 = node1
  node2 = node2
  Processes = {node1, node2}
  VAULTS = 2
  MaxSeeds = 5
  MaxCrashes = 2
SYMMETRY symmetry
INVARIANTS TypeOK SeedMatchesAddress TreasuryRecoverable IdentityKept
CHECK_DEADLOCK FALSE
