SPECIFICATION Spec
CONSTANTS
  privateHub = privateHub
  lab = lab
  page = page
  registry = registry
  repository = repository
  mirror = mirror
  map = map
  NoJob = NoJob
  Archive <- MCArchive
  Bootstraps <- MCBootstraps
  KindOf <- MCKindOf
  SecretRef <- MCSecretRef
  Charts <- MCCharts
  MaxAttempts = 2
  MaxCrashes = 1
  MaxEdits = 1
  MaxStuck = 1
INVARIANTS TypeOK WhoMayHang LeftBehind ConnectionsKept BundleMatchesChart
PROPERTIES WorkerComesBack
CHECK_DEADLOCK FALSE
