\* The pair is rotated while the process starts.
SPECIFICATION FairSpec
CONSTANTS
  MaxRotations = 3
  Nothing = Nothing
  Disturbances = {"AtStart"}
PROPERTIES
  InstalledPairIsServed
