SPECIFICATION Spec
CONSTANTS
  a = a  b = b  ra = ra  rb = rb  ro = ro  v = v
  rackA = rackA  rackB = rackB  wide = wide  six = six
  m24 = m24  m64 = m64  mx = mx  nid = nid  racked = racked  gwA = gwA  gwB = gwB  lab = lab  site = site
  Garbage = Garbage  DefaultName = DefaultName
  NoIp = NoIp  NoMask = NoMask  NoName = NoName  NoRouter = NoRouter  NoDomain = NoDomain  NoComp = NoComp
  Unspecified = Unspecified  Omitted = Omitted
  Comp <- MCComp  Ip4 <- MCIp4  Ip6 <- MCIp6  Subnet <- MCSubnet
  Holds <- MCHolds  MaskOf <- MCMaskOf  Written <- MCWritten
  Mask4 = {m24, mx}  Mask6 = {m64}
  Name = {nid, racked}  Router = {gwA, gwB}
  Domain = {lab, site}
  MaxIps = 2
  MaxRules = 3
CHECK_DEADLOCK FALSE
INVARIANT TypeOK AnswerFollowsRules RelayConfined
