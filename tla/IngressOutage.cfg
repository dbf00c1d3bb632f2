CONSTANTS
  Users = {u1}
  Ips = {ip1, ip2}
  AdminIps = {ip2}
  LaunchIp = ip2
  ManualIps = {}
  Cloud = "aws"
  None = None
SPECIFICATION Spec
INVARIANT LeavesNobodyOut
