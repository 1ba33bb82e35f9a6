CONSTANTS
  k1 = k1
  k2 = k2
  k3 = k3
  k4 = k4
  k5 = k5
  k6 = k6
  NoKey = NoKey
  Key <- MCKey
  CityHash <- MCCityHash
  HashLimit = 16
  InitialCapacity = 2
  MaxCapacity = 16
SPECIFICATION Spec
INVARIANTS
  TypeOK
  RobinHood
  NoItemLost
  FindSymbolKeyInverts
PROPERTIES
  CallsReturn
  Interns
