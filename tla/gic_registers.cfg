SPECIFICATION DriverSpec
CONSTANTS
  Followed = {0, 31, 32, 63, 1019}
  Asked = {0, 16, 31, 32, 63, 1019, 1020}
  Intids = {15, 31, 32, 33, 1021}
  Core = 0
INVARIANTS
  StoresMapped
PROPERTIES
  ImplementsGic
  OthersKeepTrigger
  InitReturns
