SPECIFICATION Spec
CONSTANTS
  Tabs = {t1, t2}
  Logins = {1, 2, 3, 4}
  None = None
  TokenLife = 2
  RenewOffset = 1
  Expirations = {0, 2}
  MaxTime = 3
INVARIANTS TypeOK ReturnsToPage
PROPERTIES AccessBounded LoginCompletes
