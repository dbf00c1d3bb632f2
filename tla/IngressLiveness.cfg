CONSTANTS
  Users = {u1}
  Ips = {ip1, ip2}
  AdminIps = {ip1, ip2}
  LaunchIp = ip1
  ManualIps = {}
  Cloud = "azure"
  None = None
SPECIFICATION FairSpec
PROPERTY UserLetIn
