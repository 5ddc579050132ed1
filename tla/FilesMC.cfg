CONSTANTS
  Publishers = {"node1", "node2"}
  Count = 2
  Releases = {"r1", "r2"}
  OneManifest = TRUE
  Runs = {q1, q2, q3}
  Tensors = 2
  Concurrent = FALSE
  NoFile = NoFile
  MaxCalls = 4
  Sources = {"medium", "large", "flow", "vae"}
  MaxSteps = 2
SPECIFICATION FilesSpec
INVARIANTS
  NeverReplaced
  PublishedIsWhole
  ManifestIsTrue
  RetryIsWelcome
  InstalledFilesAgree
  PairsAgree
  ArtifactsAgree
PROPERTY NeverOverwritten
