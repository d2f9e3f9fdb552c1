CONSTANTS
  c1 = c1
  c2 = c2
  r1 = r1
  r2 = r2
  Containers <- TwoContainers
  Refs <- TwoRefs
  Grid <- GridOfTwo
  Png <- PngOfTwo
  MaxStarts = 3
SPECIFICATION FairSpec
INVARIANTS
  TypeOK
  SeededAccountsAreWhole
  PicturesAreOfTheBuild
PROPERTIES
  StartsUnlessDisturbed
CHECK_DEADLOCK FALSE
