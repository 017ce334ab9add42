CONSTANTS
  Device = {desk, phone, page}
  Remote = {phone}
  Foreign = {page}
  PAIRING_TTL = 1
  MAX_PAIRING_ATTEMPTS = 2
  MaxCodes = 2
  MaxPairs = 2
  MaxDrops = 1
  MaxRestarts = 1
SPECIFICATION Spec
INVARIANTS CodesHold OpenIsAuthorized
PROPERTY DevicesServed
