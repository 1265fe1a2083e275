SPECIFICATION FairDnsSpec
CONSTANTS
  e1 = e1  e2 = e2  e3 = e3  n1 = n1  b1 = b1  h1 = h1
  x1 = x1  x2 = x2  y1 = y1  nid1 = nid1
  Garbled = Garbled  NoAddr = NoAddr  NoEi = NoEi  Unset = Unset  DefaultDuration = "30s"
  Stanzas <- MCStanzas
  Mac <- MCMac  Comp <- MCComp  Type <- MCType  V4 <- MCV4  V6 <- MCV6
  Host <- MCHost  DefaultZone <- MCDefaultZone  Startable <- MCStartable
  Inventories <- MCInventories
  MaxChanges = 1
  MaxFaults = 2
  MaxReloads = 1
CHECK_DEADLOCK FALSE
INVARIANT DnsTypeOK ForwardExact ReverseConfirmed ZonesAsWritten SettingsAsWritten JudgedAsWritten
PROPERTY NameComesBack
