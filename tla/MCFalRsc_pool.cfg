SPECIFICATION Spec
CONSTANTS
    WORD = 8
    Sites <- MCSites
    Site <- MCSite
    Tiles <- MCTiles
    MaxRscs <- SameNumbers
    Partition <- MCPartition
    ShimSites <- MCShimSites
    Objects = {"a", "b", "c"}
    Programs <- MCPrograms
    Metadata <- MCMetadata
    ErrorBcast = 0
    EccBcast = 3
    EccPerf = 0
    MaxErrorBcs = 3
    MaxVRscs = 4
    NoFile = NoFile
    Manager = "manager"
INVARIANTS
  NoTwoOwners
PROPERTIES
  NoNewLeak
  RoundTrip
  Implements
