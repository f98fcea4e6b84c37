SPECIFICATION Spec
CONSTANTS
  alice = alice
  Users = {alice}
  DeviceKeys = {laptop, phone}
  RecoveryKeys = {recovery}
  Owner <- MCOwner
  Elsewhere = {laptop}
  Creds = {c1}
  Sessions = {s1,s2}
  MaxVersion = 3
  NoVault = NoVault
  Unused = Unused
  Gone = Gone
  Idle = Idle
  Nobody = Nobody
SYMMETRY Interchangeable
PROPERTY RevokedStaysOut
