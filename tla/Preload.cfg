CONSTANTS
  Plugins = {p1, p2}
  Browsers = {b1, b2}
  Names = {"one", "two"}
  NoName <- Unnamed
  Modules <- Exposed
  MountOf <- Mounts
  Packages <- Fixtures
  MaxStarts = 2
SYMMETRY Symmetric
SPECIFICATION Spec
INVARIANTS TypeOK ShimAgreesWithRemotes PreloadsOnlyExposed
