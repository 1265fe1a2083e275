SPECIFICATION FairSpec
CONSTANTS
  m1 = m1  m2 = m2  m3 = m3
  a1 = a1  a2 = a2  a3 = a3  a4 = a4  gw1 = gw1  gw2 = gw2
  rack1 = rack1  rack2 = rack2  site = site  flat = flat
  NoIp = NoIp  NoMac = NoMac  NoPool = NoPool  Unspecified = Unspecified
  Ip <- MCIp  Pool <- MCPool  Cidr <- MCCidr  PoolRange <- MCPoolRange
  Mac <- MCMac2
  Configs <- RackConfig
  MayFail = {"delete"}
  MaxFaults = 1
  MaxCrashes = 1
PROPERTY OldFileNoObstacle
