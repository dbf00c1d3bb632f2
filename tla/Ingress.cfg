CONSTANTS
  Users = {u1, u2}
  Ips = {ip1, ip2}
  AdminIps = {ip2}
  LaunchIp = ip1
  ManualIps = {ip1}
  Cloud = "aws"
  None = None
SPECIFICATION Spec
INVARIANTS TypeOK Granted StaleRevoked LeavesNobodyOutIfAnswered
SYMMETRY UserSymmetry
