\* Four resources, two bridges of at most two.
CONSTANTS
  r1 = r1
  r2 = r2
  r3 = r3
  r4 = r4
  default = default
  Resource = {r1, r2, r3, r4}
  Info = {default}
  Default = default
  MaxResources = 2
  MaxBridgeIndex = 2
SPECIFICATION RegistrySpec
SYMMETRY MCSymmetry
INVARIANTS MapsAgree BridgesAreComponents
