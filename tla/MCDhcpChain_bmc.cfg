SPECIFICATION FairChainSpec
CONSTANTS
  m1 = m1  m2 = m2  t1 = t1  t2 = t2  s1 = s1  s2 = s2  gw = gw  pool = pool
  NoIp = NoIp  NoMac = NoMac  NoPool = NoPool  Unspecified = Unspecified
  Ip <- MCIp  Pool <- MCPool  Cidr <- MCCidr  PoolRange <- MCRange  Configs <- MCConfigs
  Giaddr <- MCGiaddr  SmdIp <- MCSmdIp
  Mac <- MCMac1
  Firmware <- MCOther
  Discoverable = {}
  MayFail = {}
  MaxFaults = 0
  MaxCrashes = 0
  MaxLosses = 0
  MaxReboots = 0
  MaxChanges = 0
PROPERTY UnknownGetsAddress
