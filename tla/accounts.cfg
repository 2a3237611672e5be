SPECIFICATION Spec
CONSTANTS
  Emails = {ann, bob}
  Passwords = {pw1, pw2}
  Handlers = {h1, h2}
  AccessExpireTime = 1
  RefreshExpireTime = 2
  Second = 5
  Epoch = 3
  MaxTime = 1
  MaxInserts = 2
  MaxFaults = 1
SYMMETRY Symmetry
INVARIANT
  SignedUpCanLogin
PROPERTY ImplementsDirectory
