SPECIFICATION StartSpec
CONSTANTS
  url = url  cert = cert  nocert = nocert  nid = nid  x86 = x86  riscv = riscv
  Bad = Bad  Empty = Empty  Unset = Unset  NoFile = NoFile
  DefaultPort = 69  DefaultDir = "/tftpboot"  DefaultValid = 30  DefaultLease = 3600
  DefaultLog = "info"  DefaultBootLease = 300  DefaultScript = "default"
  Deployments <- DualStack
  Readable = {cert}
  Client <- MCClient  BootFile <- MCBootFile  Served <- MCServed
  MaxSetups = 3
  MaxFaults = 2
CHECK_DEADLOCK FALSE
INVARIANT DualStackStays
