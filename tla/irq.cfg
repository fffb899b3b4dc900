SPECIFICATION FairSpec
CONSTANTS
  Intids = {0, 30, 31, 32, 1019}
  Drivers = {30, 31, 1019}
INVARIANTS
  TypeOK
  EnabledIsComplete
  RequestedIsDeliverable
  ActiveIsHandled
  DisabledIsQuiet
PROPERTY PendingIsServed
