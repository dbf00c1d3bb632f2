\* Two workers: two people who register or log in at the same moment.
CONSTANTS
  Workers = {w1, w2}
  Browsers = {b1, b2}
  Emails = {e1, e2}
  Ips = {ip1}
  Hosts = {h1}
  OwnPwds = {own1}
  Codes = {}
  MaxUserId = 3
  MaxClusterId = 1
  None = None
SPECIFICATION Spec
INVARIANT ExclusiveCluster
