CONSTANTS
  Controllers = {c1, c2}
  Launches = {l1, l2}
  NoController = NoController
  NoLaunch = NoLaunch
  NoMarker = NoMarker
  MaxFaults = 2
  MaxLogins = 1
SPECIFICATION Spec
INVARIANTS
  TypeOK
  DangerIsOnRecord
  OneTenant
PROPERTIES
  RecordsGoAway
