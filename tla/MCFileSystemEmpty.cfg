SPECIFICATION Spec
CONSTANTS
  Files <- MCFiles
  MaxFiles = 4
  VolumeName = "volume A"
  SectorBytes = 2
  BootSectors = 1
  FatSectors = 1
  RootSectors = 2
  TableEntries = 18
  RootEntries = 4
  KernelName = "kernel"
  FileName = "file"
  CountModulus = 4
CHECK_DEADLOCK FALSE
INVARIANTS
  EmptyFileHasNoCluster
