\* Two workers: every interleaving of two requests' statements.
CONSTANTS
  Workers = {w1, w2}
  Browsers = {b1, b2}
  Emails = {e1, e2}
  Ips = {ip1}
  Hosts = {h1}
  OwnPwds = {own1}
  Codes = {}
  MaxUserId = 2
  MaxClusterId = 2
  None = None
SPECIFICATION Spec
INVARIANTS TypeOK RefIntegrity UniqueEmail SessionIdentity
PROPERTY RegistryRefined
SYMMETRY Symmetry
