\* One worker: requests one at a time, over longer histories.
CONSTANTS
  Workers = {w1}
  Browsers = {b1, b2}
  Emails = {e1, e2}
  Ips = {ip1}
  Hosts = {h1, h2}
  OwnPwds = {own1}
  Codes = {code1}
  MaxUserId = 3
  MaxClusterId = 2
  None = None
SPECIFICATION Spec
INVARIANTS ExclusiveCluster SingleAdmin
PROPERTIES LoginAssigns AssignmentStable
