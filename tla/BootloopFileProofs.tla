------------------------- MODULE BootloopFileProofs -------------------------
(***************************************************************************)
(* Theorems about Bootloop that relate its three copies of the leases: the *)
(* lease file, the table and the bitmaps; and, as a consequence, that the  *)
(* plugin implements LeaseService when its file works.                     *)
(***************************************************************************)
EXTENDS BootloopProofs

\* A call that hands out an address is for a client without one.
NewHasNone == op.pc \in {"save", "install"} => records[op.mac] = NoIp

\* No client has two rows.
OneRow == \A m \in Mac, a, b \in Ip : <<m, a>> \in db /\ <<m, b>> \in db => a = b

\* The table has the lease, but for the call between its two writes.
InTable(m, a) == \/ records[m] = a /\ ~(op.pc = "free" /\ op.mac = m)
                 \/ op.pc = "install" /\ op.mac = m /\ op.ip = a

\* The file has rows of the table alone; it has all of them if each was saved.
NoStaleRow  == status = "up" => \A m \in Mac, a \in Ip : <<m, a>> \in db => InTable(m, a)
FileFollows == status = "up" => \A m \in Mac, a \in Ip : InTable(m, a) => <<m, a>> \in db

FileInv ==
  /\ NewHasNone
  /\ DeletesWork => OneRow /\ NoStaleRow
  /\ faults = 0 => FileFollows

-----------------------------------------------------------------------------
LEMMA FileInvInit == Init => FileInv
  BY SentinelAssumption
     DEF Init, FileInv, NewHasNone, OneRow, NoStaleRow, FileFollows, InTable, Idle

LEMMA FileInvNext == LeaseInv /\ TypeOK' /\ FileInv /\ [Next]_vars => FileInv'
<1> SUFFICES ASSUME LeaseInv, TypeOK', FileInv, [Next]_vars PROVE FileInv'
  OBVIOUS
<1>a. /\ TypeOK /\ records \in [Mac -> Ip \cup {NoIp}] /\ faults \in Nat
      /\ db \subseteq Mac \X Ip
  BY BoundAssumption DEF LeaseInv, TypeOK
\* After a failed operation less is to be shown.
<1>b. ASSUME NEW o, StorageFault(o)
      PROVE  faults' # 0 /\ (DeletesWork' => DeletesWork /\ o # "delete")
  BY <1>a, <1>b DEF StorageFault, DeletesWork
<1>c. ASSUME UNCHANGED <<status, db, records, op, faults>> PROVE FileInv'
  BY <1>c DEF FileInv, DeletesWork, NewHasNone, OneRow, NoStaleRow, FileFollows, InTable
<1>d. ASSUME status' # "up", MemoryCleared, UNCHANGED db, UNCHANGED faults \/ StorageFault("open")
      PROVE  FileInv'
  <2>1. NewHasNone'
    BY <1>d DEF MemoryCleared, NewHasNone, Idle
  <2>2. (DeletesWork' => OneRow) /\ OneRow' = OneRow
    BY <1>b, <1>d DEF FileInv, OneRow, DeletesWork
  <2> QED
    BY <1>d, <2>1, <2>2 DEF FileInv, NoStaleRow, FileFollows
<1>1. CASE Setup
  <2>1. PICK r \in LoadableRecords :
            \/ status' = "up" /\ records' = r /\ UNCHANGED op
            \/ status' = "refused" /\ MemoryCleared
    BY <1>1 DEF Setup
  <2>2. UNCHANGED <<db, faults>>
    BY <1>1 DEF Setup
  <2>3. CASE status' = "refused" /\ MemoryCleared
    BY <1>d, <2>2, <2>3
  <2>4. CASE status' = "up" /\ records' = r /\ UNCHANGED op
    <3>1. op' = Idle
      BY <1>1, <1>a, <2>4 DEF Setup, TypeOK
    <3>2. ASSUME OneRow, NEW m \in Mac, NEW a \in Ip
          PROVE  <<m, a>> \in db <=> r[m] = a
      <4>1. IF \E b \in Ip : <<m, b>> \in db THEN <<m, r[m]>> \in db ELSE r[m] = NoIp
        BY DEF LoadableRecords
      <4>2. <<m, r[m]>> \in db => r[m] \in Ip
        BY <1>a
      <4> QED
        BY <3>2, <4>1, <4>2, SentinelAssumption DEF OneRow
    <3>3. \A m \in Mac, a \in Ip : InTable(m, a)' <=> r[m] = a
      BY <2>4, <3>1 DEF InTable, Idle
    <3>4. NewHasNone' /\ OneRow' = OneRow /\ DeletesWork' = DeletesWork
      BY <2>2, <3>1 DEF NewHasNone, OneRow, DeletesWork, Idle
    <3>5. faults = 0 => DeletesWork
      BY DEF DeletesWork
    <3>6. OneRow => NoStaleRow' /\ FileFollows'
      BY <2>2, <3>2, <3>3 DEF NoStaleRow, FileFollows
    <3> QED
      BY <2>2, <3>4, <3>5, <3>6 DEF FileInv
  <2> QED
    BY <2>1, <2>3, <2>4
<1>2. CASE SetupStorageFault
  BY <1>2, <1>d DEF SetupStorageFault
<1>3. CASE Crash
  BY <1>3, <1>d DEF Crash
<1>4. ASSUME NEW m \in Mac, NEW giaddr \in Ip \cup {Unspecified}, NEW ipxe \in BOOLEAN,
             HandleNew(m, giaddr, ipxe)
      PROVE  FileInv'
  <2>1. /\ op = Idle /\ op'.pc = "save" /\ op'.mac = m /\ records[m] = NoIp
        /\ UNCHANGED <<status, db, records, faults>>
    BY <1>4 DEF HandleNew, Receives
  <2> QED
    BY <2>1 DEF FileInv, DeletesWork, NewHasNone, OneRow, NoStaleRow, FileFollows, InTable, Idle
<1>5. ASSUME NEW m \in Mac, NEW giaddr \in Ip \cup {Unspecified}, HandleUnserved(m, giaddr)
      PROVE  FileInv'
  BY <1>5, <1>c DEF HandleUnserved
<1>6. CASE SaveLease
  <2>1. /\ op.pc = "save" /\ op'.pc = "install" /\ op'.mac = op.mac /\ op'.ip = op.ip
        /\ op.mac \in Mac /\ op.ip \in Ip /\ status = "up" /\ UNCHANGED <<status, records>>
    BY <1>6, <1>a DEF SaveLease, TypeOK, Idle
  <2>2. NewHasNone' /\ records[op.mac] = NoIp
    BY <2>1 DEF FileInv, NewHasNone
  <2>3. DeletesWork => \A a \in Ip : <<op.mac, a>> \notin db
    BY <2>1, <2>2, SentinelAssumption DEF FileInv, NoStaleRow, InTable
  <2>4. \A m \in Mac, a \in Ip : InTable(m, a)' <=> InTable(m, a) \/ (m = op.mac /\ a = op.ip)
    BY <2>1, <2>2 DEF InTable
  <2>5. CASE db' = db \cup {<<op.mac, op.ip>>} /\ UNCHANGED faults
    <3>1. DeletesWork => OneRow'
      BY <2>3, <2>5 DEF FileInv, OneRow
    <3>2. DeletesWork => NoStaleRow'
      BY <2>1, <2>4, <2>5 DEF FileInv, NoStaleRow
    <3>3. faults = 0 => FileFollows'
      BY <2>1, <2>4, <2>5 DEF FileInv, FileFollows
    <3> QED
      BY <2>2, <2>5, <3>1, <3>2, <3>3 DEF FileInv, DeletesWork
  <2>6. CASE StorageFault("save") /\ UNCHANGED db
    <3>1. DeletesWork => OneRow' /\ NoStaleRow'
      BY <2>1, <2>4, <2>6 DEF FileInv, OneRow, NoStaleRow
    <3> QED
      BY <1>b, <2>2, <2>6, <3>1 DEF FileInv
  <2> QED
    BY <1>6, <2>5, <2>6 DEF SaveLease
<1>7. CASE InstallLease
  <2>1. /\ op.pc = "install" /\ op.mac \in Mac /\ op.ip \in Ip /\ op' = Idle
        /\ records' = [records EXCEPT ![op.mac] = op.ip] /\ UNCHANGED <<status, db, faults>>
    BY <1>7, <1>a DEF InstallLease, TypeOK, Idle
  <2>2. records[op.mac] = NoIp
    BY <2>1 DEF FileInv, NewHasNone
  <2>3. \A m \in Mac, a \in Ip : InTable(m, a)' <=> InTable(m, a)
    BY <1>a, <2>1, <2>2, SentinelAssumption DEF InTable, Idle
  <2> QED
    BY <2>1, <2>3 DEF FileInv, DeletesWork, NewHasNone, OneRow, NoStaleRow, FileFollows, Idle
<1>8. ASSUME NEW m \in Mac, HandleScript(m) PROVE FileInv'
  BY <1>8, <1>c DEF HandleScript
<1>9. ASSUME NEW m \in Mac, HandleNak(m) PROVE FileInv'
  <2>1. op = Idle /\ op'.pc \in {"idle", "delete"} /\ UNCHANGED <<status, db, records, faults>>
    BY <1>9 DEF HandleNak, Receives, Idle
  <2> QED
    BY <2>1 DEF FileInv, DeletesWork, NewHasNone, OneRow, NoStaleRow, FileFollows, InTable, Idle
<1>10. CASE DeleteLease
  <2>1. /\ op.pc = "delete" /\ op'.pc = "free" /\ op'.mac = op.mac
        /\ op.mac \in Mac /\ status = "up" /\ UNCHANGED <<status, records>>
    BY <1>10, <1>a DEF DeleteLease, TypeOK, Idle
  <2>2. NewHasNone'
    BY <2>1 DEF NewHasNone
  <2>3. CASE db' = {row \in db : row[1] # op.mac} /\ UNCHANGED faults
    <3>1. \A m \in Mac, a \in Ip : <<m, a>> \in db' <=> <<m, a>> \in db /\ m # op.mac
      BY <2>3
    <3>2. \A m \in Mac, a \in Ip : InTable(m, a)' <=> InTable(m, a) /\ m # op.mac
      BY <2>1 DEF InTable
    <3> QED
      BY <2>1, <2>2, <2>3, <3>1, <3>2 DEF FileInv, DeletesWork, OneRow, NoStaleRow, FileFollows
  <2> QED
    BY <1>10, <1>b, <2>2, <2>3 DEF DeleteLease, FileInv
<1>11. CASE FreeLease
  <2>1. /\ op.pc = "free" /\ op.mac \in Mac /\ op' = Idle
        /\ records' = [records EXCEPT ![op.mac] = NoIp] /\ UNCHANGED <<status, db, faults>>
    BY <1>11, <1>a DEF FreeLease, TypeOK, Idle
  <2>2. \A m \in Mac, a \in Ip : InTable(m, a)' <=> InTable(m, a)
    BY <1>a, <2>1, SentinelAssumption DEF InTable, Idle
  <2> QED
    BY <2>1, <2>2 DEF FileInv, DeletesWork, NewHasNone, OneRow, NoStaleRow, FileFollows, Idle
<1>12. CASE UNCHANGED vars
  BY <1>12, <1>c DEF vars
<1> QED
  BY <1>1, <1>2, <1>3, <1>4, <1>5, <1>6, <1>7, <1>8, <1>9, <1>10, <1>11, <1>12
     DEF Next, Request, Progress

\* As long as no operation failed, the file and the table agree both ways.
LEMMA FileIsTable ==
  ASSUME FileInv, faults = 0, status = "up", NEW m \in Mac, NEW a \in Ip
  PROVE  OneRow /\ (<<m, a>> \in db <=> InTable(m, a))
  BY DEF FileInv, DeletesWork, NoStaleRow, FileFollows

\* FileInv, the relation of file, table and running call, holds of every run.
THEOREM FileInvCorrect == Spec => []FileInv
<1>1. Spec => []TypeOK
  BY TypeCorrect
<1>2. Spec => []LeaseInv
  BY LeaseInvCorrect
<1> QED
  BY <1>1, <1>2, FileInvInit, FileInvNext, PTL DEF Spec

\* As long as no operation on it failed, the lease file is the table between two
\* calls, whatever was stopped and reconfigured (saveIPAddress, deleteIPAddress,
\* loadRecords).
THEOREM FileAlwaysMatches == Spec => []FileMatchesTable
<1>1. ASSUME TypeOK, FileInv PROVE FileMatchesTable
  <2> SUFFICES ASSUME faults = 0, status = "up", op = Idle
               PROVE  db = {row \in Mac \X Ip : records[row[1]] = row[2]}
    BY DEF FileMatchesTable
  <2>1. \A m \in Mac, a \in Ip : <<m, a>> \in db <=> records[m] = a
    BY <1>1, FileIsTable DEF InTable, Idle
  <2>2. db \subseteq Mac \X Ip
    BY <1>1 DEF TypeOK
  <2> QED
    BY <2>1, <2>2
<1> QED
  BY <1>1, TypeCorrect, FileInvCorrect, PTL

-----------------------------------------------------------------------------
(***************************************************************************)
(* The bitmaps.  An address is freed from the pool whose subnet holds it,  *)
(* and that is the pool it was taken from only if the subnets are disjoint.*)
(***************************************************************************)

SubnetsDisjoint(c) == c.useSubnetPools => CidrsDisjoint(c)

LEMMA DisjointSubnets ==
  ASSUME NEW c \in Configs, SubnetsDisjoint(c)
  PROVE  /\ RangesDisjoint(c)
         /\ \A p \in c.pools : \A a \in PoolRange[p] : HomePools(c, a) = {p}
<1>1. CASE c.useSubnetPools
  <2>1. \A p \in c.pools : p \in Pool /\ PoolRange[p] \subseteq Cidr[p] /\ PoolRange[p] \subseteq Ip
    BY <1>1, ConfigAssumption
  <2>2. RangesDisjoint(c)
    BY <1>1, <2>1 DEF SubnetsDisjoint, CidrsDisjoint, RangesDisjoint
  <2>3. ASSUME NEW p \in c.pools, NEW a \in PoolRange[p] PROVE HomePools(c, a) = {p}
    BY <1>1, <2>1, <2>3, SentinelAssumption DEF SubnetsDisjoint, CidrsDisjoint, HomePools
  <2> QED
    BY <2>2, <2>3
<1>2. CASE ~c.useSubnetPools
  <2>1. PICK p \in Pool : c.pools = {p}
    BY <1>2, ConfigAssumption
  <2>2. PoolRange[p] \subseteq Ip
    BY ConfigAssumption
  <2> QED
    BY <1>2, <2>1, <2>2, SentinelAssumption DEF RangesDisjoint, HomePools
<1> QED
  BY <1>1, <1>2

LEMMA BitmapsNext ==
  LeaseInv /\ TypeOK' /\ FileInv /\ BitmapsMatchTable /\ [Next]_vars => BitmapsMatchTable'
<1> SUFFICES ASSUME LeaseInv, TypeOK', FileInv, BitmapsMatchTable, [Next]_vars,
                    status' = "up", SubnetsDisjoint(config')
             PROVE  \A p \in Pool :
                      used'[p] = {a \in Ip : /\ p \in config'.pools
                                             /\ a \in PoolRange[p]
                                             /\ \/ \E m \in Mac : records'[m] = a
                                                \/ op'.pc \in {"save", "install"} /\ op'.ip = a}
  BY DEF BitmapsMatchTable, SubnetsDisjoint, CidrsDisjoint
<1> DEFINE Busy(a) == \/ \E m \in Mac : records[m] = a
                      \/ op.pc \in {"save", "install"} /\ op.ip = a
<1>a. /\ TypeOK /\ config \in Configs /\ config' \in Configs /\ used' \in [Pool -> SUBSET Ip]
      /\ used \in [Pool -> SUBSET Ip] /\ records \in [Mac -> Ip \cup {NoIp}]
  BY DEF LeaseInv, TypeOK
<1>b. ASSUME status = "up", config' = config, NEW p \in Pool, NEW a \in Ip
      PROVE  a \in used[p] <=> p \in config.pools /\ a \in PoolRange[p] /\ Busy(a)
  BY <1>b DEF BitmapsMatchTable, SubnetsDisjoint
<1>c. ASSUME config' = config PROVE RangesDisjoint(config)
  BY <1>a, <1>c, DisjointSubnets
\* It is enough to say which address becomes busy or free, and where.
<1>d. SUFFICES ASSUME NEW p \in Pool, NEW a \in Ip
               PROVE  a \in used'[p] <=>
                        /\ p \in config'.pools /\ a \in PoolRange[p]
                        /\ \/ \E m \in Mac : records'[m] = a
                           \/ op'.pc \in {"save", "install"} /\ op'.ip = a
  BY <1>a
<1>e. ASSUME UNCHANGED <<status, config, records, used>>,
             \/ UNCHANGED op
             \/ op.pc \notin {"save", "install"} /\ op'.pc \notin {"save", "install"}
             \/ /\ op.pc \in {"save", "install"} /\ op'.pc \in {"save", "install"}
                /\ op'.ip = op.ip
      PROVE  a \in used'[p] <=>
               /\ p \in config'.pools /\ a \in PoolRange[p]
               /\ \/ \E m \in Mac : records'[m] = a
                  \/ op'.pc \in {"save", "install"} /\ op'.ip = a
  BY <1>b, <1>e
<1>1. CASE Setup
  <2>1. PICK c \in Configs, r \in LoadableRecords :
          \E home \in {h \in [Mac -> Pool \cup {NoPool}] :
                         \A m \in Mac : h[m] \in HomePools(c, r[m])} :
            /\ config' = c
            /\ Reallocates(r, home)
            /\ records' = r
            /\ used' = [q \in Pool |-> {r[m] : m \in {n \in Mac : home[n] = q}}]
            /\ UNCHANGED op
    BY <1>1 DEF Setup
  <2>2. PICK home \in [Mac -> Pool \cup {NoPool}] :
            /\ \A m \in Mac : home[m] \in HomePools(c, r[m])
            /\ config' = c
            /\ Reallocates(r, home)
            /\ records' = r
            /\ used' = [q \in Pool |-> {r[m] : m \in {n \in Mac : home[n] = q}}]
            /\ UNCHANGED op
    BY <2>1
  <2>3. op' = Idle
    BY <1>1, <1>a, <2>2 DEF Setup, TypeOK
  <2>4. r \in [Mac -> Ip \cup {NoIp}] /\ p # NoPool
    BY SentinelAssumption DEF LoadableRecords
  <2>5. \A m \in Mac, q \in c.pools : r[m] \in PoolRange[q] => home[m] = q
    BY <2>2, <2>4, DisjointSubnets, SetupLeases
  <2>6. \A m \in Mac : home[m] = p => p \in c.pools /\ r[m] \in PoolRange[p]
    BY <2>2, <2>4, HomePoolsType DEF Reallocates
  <2> QED
    BY <2>2, <2>3, <2>5, <2>6 DEF Idle
<1>2. CASE SetupStorageFault \/ Crash
  BY <1>2 DEF SetupStorageFault, Crash
<1>3. ASSUME NEW m \in Mac, NEW giaddr \in Ip \cup {Unspecified}, NEW ipxe \in BOOLEAN,
             HandleNew(m, giaddr, ipxe)
      PROVE  a \in used'[p] <=>
               /\ p \in config'.pools /\ a \in PoolRange[p]
               /\ \/ \E n \in Mac : records'[n] = a
                  \/ op'.pc \in {"save", "install"} /\ op'.ip = a
  <2>1. PICK q \in PoolsForGiaddr(config, giaddr) : \E b \in PoolRange[q] \ used[q] :
            /\ used' = [used EXCEPT ![q] = @ \cup {b}]
            /\ op' = [pc |-> "save", mac |-> m, ip |-> b, ipxe |-> ipxe]
    BY <1>3 DEF HandleNew
  <2>2. PICK b \in PoolRange[q] :
            /\ used' = [used EXCEPT ![q] = @ \cup {b}]
            /\ op' = [pc |-> "save", mac |-> m, ip |-> b, ipxe |-> ipxe]
    BY <2>1
  <2>3. UNCHANGED <<status, config, records>> /\ op = Idle
    BY <1>3 DEF HandleNew, Receives
  <2>4. q \in config.pools /\ q \in Pool
    BY <1>a, ConfigAssumption DEF PoolsForGiaddr
  <2>5. p \in config.pools /\ b \in PoolRange[p] => p = q
    BY <1>c, <2>3, <2>4 DEF RangesDisjoint
  <2>6. a \in used'[p] <=> a \in used[p] \/ (p = q /\ a = b)
    BY <1>a, <2>2
  <2> QED
    BY <1>b, <2>2, <2>3, <2>4, <2>5, <2>6 DEF Idle
<1>4. ASSUME NEW m \in Mac, NEW giaddr \in Ip \cup {Unspecified}, HandleUnserved(m, giaddr)
      PROVE  UNCHANGED <<status, config, records, used, op>>
  BY <1>4 DEF HandleUnserved
<1>5. CASE SaveLease
  <2>1. op'.pc = "install" /\ op'.ip = op.ip
    BY <1>5, <1>a DEF SaveLease, TypeOK
  <2> QED
    BY <1>5, <1>e, <2>1 DEF SaveLease
<1>6. CASE InstallLease
  <2>1. /\ op.pc = "install" /\ op.mac \in Mac /\ op' = Idle
        /\ records' = [records EXCEPT ![op.mac] = op.ip] /\ UNCHANGED <<status, config, used>>
    BY <1>6, <1>a DEF InstallLease, TypeOK, Idle
  <2>2. records[op.mac] = NoIp
    BY <2>1 DEF FileInv, NewHasNone
  <2>3. (\E n \in Mac : records'[n] = a) <=> (\E n \in Mac : records[n] = a) \/ a = op.ip
    BY <1>a, <2>1, <2>2, SentinelAssumption
  <2> QED
    BY <1>b, <2>1, <2>3 DEF Idle
<1>7. ASSUME NEW m \in Mac, HandleScript(m)
      PROVE  UNCHANGED <<status, config, records, used, op>>
  BY <1>7 DEF HandleScript
<1>8. ASSUME NEW m \in Mac, HandleNak(m)
      PROVE  /\ UNCHANGED <<status, config, records, used>>
             /\ op.pc = "idle" /\ op'.pc \in {"idle", "delete"}
  BY <1>8 DEF HandleNak, Receives, Idle
<1>9. CASE DeleteLease
  <2>1. op.pc = "delete" /\ op'.pc = "free"
    BY <1>9, <1>a DEF DeleteLease, TypeOK
  <2> QED
    BY <1>9, <1>e, <2>1 DEF DeleteLease
<1>10. CASE FreeLease
  <2>1. /\ op.pc = "free" /\ op.mac \in Mac /\ op.ip \in Ip /\ op' = Idle
        /\ records' = [records EXCEPT ![op.mac] = NoIp] /\ UNCHANGED <<status, config>>
    BY <1>10, <1>a DEF FreeLease, TypeOK, Idle
  <2>2. PICK home \in HomePools(config, op.ip) :
          used' = [q \in Pool |-> IF q = home THEN used[q] \ {op.ip} ELSE used[q]]
    BY <1>10 DEF FreeLease
  <2>3. records[op.mac] = op.ip
    BY <2>1 DEF LeaseInv, RefusedIsLeased
  <2>4. CASE a # op.ip
    <3>1. (\E n \in Mac : records'[n] = a) <=> (\E n \in Mac : records[n] = a)
      BY <1>a, <2>1, <2>3, <2>4, SentinelAssumption
    <3> QED
      BY <1>b, <2>1, <2>2, <2>4, <3>1 DEF Idle
  <2>5. CASE a = op.ip /\ p \in config.pools /\ a \in PoolRange[p]
    <3>1. home = p
      BY <1>a, <2>1, <2>2, <2>5, DisjointSubnets
    <3>2. \A n \in Mac : records'[n] # a
      <4>1. a \in Served(config) /\ RangesDisjoint(config)
        BY <1>c, <2>1, <2>5 DEF Served
      <4>2. \A n \in Mac \ {op.mac} : records[n] # op.ip
        BY <2>1, <2>3, <2>5, <4>1 DEF LeaseInv, LeaseUnique
      <4> QED
        BY <1>a, <2>1, <2>5, <4>2, SentinelAssumption
    <3> QED
      BY <2>1, <2>2, <2>5, <3>1, <3>2 DEF Idle
  <2>6. CASE ~(p \in config.pools /\ a \in PoolRange[p])
    BY <1>b, <2>1, <2>2, <2>6
  <2> QED
    BY <2>4, <2>5, <2>6
<1>11. CASE UNCHANGED vars
  BY <1>11, <1>e DEF vars
<1> QED
  BY <1>e, <1>1, <1>2, <1>3, <1>4, <1>5, <1>6, <1>7, <1>8, <1>9, <1>10, <1>11
     DEF Next, Request, Progress

\* The bitmaps are exactly the table and the address about to be handed out, if the
\* running subnets are disjoint: no refusal, failure or stop leaks an address or
\* frees one in use (setup4, Handler4).
THEOREM BitmapsAlwaysMatch == Spec => []BitmapsMatchTable
<1>1. Init => BitmapsMatchTable
  BY DEF Init, BitmapsMatchTable
<1>2. Spec => []TypeOK /\ []LeaseInv /\ []FileInv
  BY TypeCorrect, LeaseInvCorrect, FileInvCorrect, PTL
<1> QED
  BY <1>1, <1>2, BitmapsNext, PTL DEF Spec

-----------------------------------------------------------------------------
(***************************************************************************)
(* Restarts.  What the file holds must be such that the allocators of the  *)
(* next start give every address back: served by the pools, and no address *)
(* twice, whatever the call was doing when the process stopped.            *)
(***************************************************************************)

\* No address has two rows, and every row's address is one of the pools'.
RowsServed ==
  /\ \A m \in Mac, a \in Ip : <<m, a>> \in db => a \in Served(config)
  /\ \A m, n \in Mac, a \in Ip : <<m, a>> \in db /\ <<n, a>> \in db => m = n

RestartInv ==
  /\ DeletesWork => RowsServed
  /\ faults = 0 \/ MayFail \subseteq {"save"} => status # "refused"

LEMMA RestartNext ==
  ASSUME NEW c \in Configs, Configs = {c}, SubnetsDisjoint(c),
         LeaseInv, TypeOK', FileInv, RestartInv, [Next]_vars
  PROVE  RestartInv'
<1> DEFINE Working == faults = 0 \/ MayFail \subseteq {"save"}
<1>a. /\ TypeOK /\ config = c /\ config' = c /\ faults \in Nat /\ db \subseteq Mac \X Ip
      /\ records \in [Mac -> Ip \cup {NoIp}]
  BY BoundAssumption DEF LeaseInv, TypeOK
<1>b. ASSUME NEW o, StorageFault(o)
      PROVE  /\ DeletesWork' => DeletesWork /\ o # "delete"
             /\ Working' => Working /\ o = "save"
  BY <1>a, <1>b DEF StorageFault, DeletesWork
<1>c. ASSUME db' \subseteq db, DeletesWork' => DeletesWork, Working' => Working,
             status' \in {status, "up", "down"} \/ ~Working'
      PROVE  RestartInv'
  BY <1>a, <1>c DEF RestartInv, RowsServed, Served
<1>d. ASSUME UNCHANGED faults PROVE DeletesWork' = DeletesWork /\ Working' = Working
  BY <1>d DEF DeletesWork
<1>e. Working => DeletesWork
  BY DEF DeletesWork
<1>1. CASE Setup
  <2>1. PICK r \in LoadableRecords :
          \E home \in {h \in [Mac -> Pool \cup {NoPool}] :
                         \A m \in Mac : h[m] \in HomePools(c, r[m])} :
            status' = "up" \/ ~Reallocates(r, home)
    BY <1>1, <1>a DEF Setup
  <2>2. PICK home \in [Mac -> Pool \cup {NoPool}] :
          /\ \A m \in Mac : home[m] \in HomePools(c, r[m])
          /\ status' = "up" \/ ~Reallocates(r, home)
    BY <2>1
  <2>3. UNCHANGED <<db, faults>>
    BY <1>1 DEF Setup
  <2>4. ASSUME DeletesWork, NEW m \in Mac, home[m] # NoPool
        PROVE  <<m, r[m]>> \in db /\ r[m] \in PoolRange[home[m]]
    <3>1. r[m] # NoIp
      BY <2>2, <2>4 DEF HomePools
    <3>2. <<m, r[m]>> \in db /\ r[m] \in Ip
      BY <1>a, <3>1 DEF LoadableRecords
    <3>3. PICK p \in c.pools : r[m] \in PoolRange[p]
      BY <1>a, <2>4, <3>2 DEF RestartInv, RowsServed, Served
    <3>4. HomePools(c, r[m]) = {p}
      BY <3>3, DisjointSubnets
    <3> QED
      BY <2>2, <3>2, <3>3, <3>4
  <2>5. DeletesWork =>
          \A m, n \in Mac : m # n /\ home[m] # NoPool /\ home[n] = home[m] => r[n] # r[m]
    BY <1>a, <2>4 DEF RestartInv, RowsServed
  <2>6. DeletesWork => Reallocates(r, home)
    BY <2>4, <2>5 DEF Reallocates
  <2> QED
    BY <1>c, <1>d, <1>e, <2>2, <2>3, <2>6
<1>2. CASE SetupStorageFault
  BY <1>2, <1>b, <1>c DEF SetupStorageFault
<1>3. CASE Crash
  BY <1>3, <1>c, <1>d DEF Crash
<1>4. ASSUME NEW m \in Mac, Request(m) PROVE UNCHANGED <<db, faults, status>>
  BY <1>4 DEF Request, HandleNew, HandleUnserved, HandleScript, HandleNak
<1>5. CASE SaveLease
  <2>1. /\ op.pc = "save" /\ op.mac \in Mac /\ op.ip \in Ip /\ status = "up" /\ status' = status
    BY <1>5, <1>a DEF SaveLease, TypeOK, Idle
  <2>2. CASE db' = db \cup {<<op.mac, op.ip>>} /\ UNCHANGED faults
    <3>1. /\ op.ip \in Served(c)
          /\ \A m \in Mac : records[m] # op.ip
      BY <1>a, <2>1, DisjointSubnets DEF LeaseInv, TakenIsFree, Served
    <3>2. DeletesWork => \A m \in Mac : <<m, op.ip>> \notin db
      BY <2>1, <3>1 DEF FileInv, NoStaleRow, InTable
    <3>3. DeletesWork => RowsServed'
      BY <1>a, <2>1, <2>2, <3>1, <3>2 DEF RestartInv, RowsServed
    <3> QED
      BY <1>d, <2>1, <2>2, <3>3 DEF RestartInv
  <2>3. CASE StorageFault("save") /\ UNCHANGED db
    BY <1>b, <1>c, <2>1, <2>3
  <2> QED
    BY <1>5, <2>2, <2>3 DEF SaveLease
<1>6. CASE DeleteLease
  BY <1>6, <1>b, <1>c, <1>d DEF DeleteLease
<1>7. CASE InstallLease \/ FreeLease
  BY <1>7, <1>c, <1>d DEF InstallLease, FreeLease
<1>8. CASE UNCHANGED vars
  BY <1>8, <1>c, <1>d DEF vars
<1> QED
  BY <1>1, <1>2, <1>3, <1>4, <1>5, <1>6, <1>7, <1>8, <1>c, <1>d DEF Next, Progress

\* A server that is started again as it was before is never refused for the leases
\* its predecessor left, wherever that was stopped and whichever leases could not be
\* saved, if deletions work, the file can be opened and the subnets are disjoint
\* (saveIPAddress, deleteIPAddress; setup4).
THEOREM RestartAlwaysAccepted ==
  ASSUME NEW c \in Configs, Configs = {c}, SubnetsDisjoint(c)
  PROVE  Spec => []RestartAccepted
<1>1. Init => RestartInv
  BY DEF Init, RestartInv, RowsServed
<1>2. ASSUME LeaseInv, TypeOK', FileInv, RestartInv, [Next]_vars PROVE RestartInv'
  BY <1>2, RestartNext
<1>3. RestartInv => RestartAccepted
  BY DEF RestartInv, RestartAccepted
<1>4. Spec => []TypeOK /\ []LeaseInv /\ []FileInv
  BY TypeCorrect, LeaseInvCorrect, FileInvCorrect, PTL
<1> QED
  BY <1>1, <1>2, <1>3, <1>4, PTL DEF Spec

-----------------------------------------------------------------------------
(***************************************************************************)
(* Refinement.  With a file that works and pools that do not overlap, each *)
(* step maps to one of LeaseService, or changes nothing it can see.        *)
(***************************************************************************)

\* A step that leaves file and answer alone, or only the answer behind.
LEMMA QuietStep ==
  ASSUME UNCHANGED db, UNCHANGED reply \/ reply'.kind \in {"none", "drop"}
  PROVE  [Service!Next]_(Service!vars)
<1>1. Leased' = Leased
  BY DEF Leased
<1>2. Answered' = Answered \/ Answered' = <<>>
  BY DEF Answered
<1> QED
  BY <1>1, <1>2 DEF Service!Next, Service!Hush, Service!Silence, Service!vars

\* What the mapping makes of a file with a row for a client, and with none.
LEMMA LeasedRow ==
  ASSUME OneRow, NEW m \in Mac
  PROVE  /\ \A a \in Ip : <<m, a>> \in db => Leased[m] = a
         /\ (\A a \in Ip : <<m, a>> \notin db) => Leased[m] = NoIp
  BY DEF Leased, OneRow

LEMMA LeasedRowNext ==
  ASSUME OneRow', NEW m \in Mac
  PROVE  /\ \A a \in Ip : <<m, a>> \in db' => Leased'[m] = a
         /\ (\A a \in Ip : <<m, a>> \notin db') => Leased'[m] = NoIp
  BY DEF Leased, OneRow

LEMMA StepImplements ==
  ASSUME faults = 0, faults' = 0, LeaseInv, RangesDisjoint(config), FileInv, FileInv', [Next]_vars
  PROVE  [Service!Next]_(Service!vars)
<1>a. /\ TypeOK /\ OneRow /\ OneRow' /\ TakenIsFree
      /\ records \in [Mac -> Ip \cup {NoIp}]
  BY DEF LeaseInv, FileInv, DeletesWork, TypeOK
<1>b. \A o : ~StorageFault(o)
  BY DEF StorageFault
<1>1. CASE Setup \/ SetupStorageFault \/ Crash
  BY <1>1, QuietStep DEF Setup, SetupStorageFault, Crash, MemoryCleared, NoReply
<1>2. ASSUME NEW m \in Mac, Request(m) PROVE [Service!Next]_(Service!vars)
  <2>1. CASE UNCHANGED reply \/ reply'.kind \in {"none", "drop"}
    <3>1. UNCHANGED db
      BY <1>2 DEF Request, HandleNew, HandleUnserved, HandleScript, HandleNak
    <3> QED
      BY <2>1, <3>1, QuietStep
  <2>2. CASE HandleScript(m)
    <3>1. /\ reply' = [kind |-> "script", mac |-> m, ip |-> records[m], ipxe |-> TRUE]
          /\ UNCHANGED db /\ records[m] \in Ip /\ status = "up" /\ op = Idle
      BY <1>a, <2>2 DEF HandleScript, Receives
    <3>2. <<m, records[m]>> \in db
      BY <1>a, <3>1, FileIsTable DEF InTable, Idle
    <3>3. Leased[m] = records[m] /\ Leased' = Leased
      BY <1>a, <3>1, <3>2, LeasedRow DEF Leased
    <3>4. Answered' = <<m, Leased[m]>>
      BY <3>1, <3>3 DEF Answered
    <3> QED
      BY <3>3, <3>4 DEF Service!Next, Service!Tell
  <2> QED
    <3>1. NoReply.kind = "none" /\ [NoReply EXCEPT !.kind = "drop", !.mac = m].kind = "drop"
      BY DEF NoReply
    <3>2. ~HandleScript(m) => reply' = NoReply \/ reply' = [NoReply EXCEPT !.kind = "drop", !.mac = m]
      BY <1>2 DEF Request, HandleNew, HandleUnserved, HandleNak
    <3> QED
      BY <2>1, <2>2, <3>1, <3>2
<1>3. CASE SaveLease
  <2>1. /\ op.pc = "save" /\ op.mac \in Mac /\ op.ip \in Ip /\ status = "up"
        /\ db' = db \cup {<<op.mac, op.ip>>} /\ UNCHANGED reply
    BY <1>3, <1>a, <1>b DEF SaveLease, TypeOK, Idle
  <2>2. \A a \in Ip : <<op.mac, a>> \notin db
    BY <1>a, <2>1, FileIsTable, SentinelAssumption DEF FileInv, NewHasNone, InTable
  <2>3. \A n \in Mac : <<n, op.ip>> \notin db
    BY <1>a, <2>1, FileIsTable DEF TakenIsFree, InTable
  <2>4. Leased[op.mac] = NoIp /\ Leased'[op.mac] = op.ip
    BY <1>a, <2>1, <2>2, LeasedRow, LeasedRowNext
  <2>5. \A n \in Mac : Leased[n] # op.ip
    BY <1>a, <2>1, <2>3, LeasedRow, SentinelAssumption DEF Leased
  <2>6. \A n \in Mac \ {op.mac} : Leased'[n] = Leased[n]
    <3> SUFFICES ASSUME NEW n \in Mac \ {op.mac} PROVE Leased'[n] = Leased[n]
      OBVIOUS
    <3>1. \A a \in Ip : <<n, a>> \in db' <=> <<n, a>> \in db
      BY <2>1
    <3> QED
      BY <1>a, <3>1, LeasedRow, LeasedRowNext
  <2>7. Leased' = [Leased EXCEPT ![op.mac] = op.ip]
    BY <2>4, <2>6 DEF Leased
  <2>8. Answered' = Answered
    BY <2>1 DEF Answered
  <2>9. Service!Grant(op.mac, op.ip)
    BY <2>4, <2>5, <2>7, <2>8 DEF Service!Grant
  <2> QED
    BY <2>1, <2>9 DEF Service!Next
<1>4. CASE InstallLease
  <2>1. /\ op.pc = "install" /\ op.mac \in Mac /\ op.ip \in Ip /\ status = "up" /\ UNCHANGED db
        /\ reply'.kind \in {"lease", "bootloader"} /\ reply'.mac = op.mac /\ reply'.ip = op.ip
    BY <1>4, <1>a DEF InstallLease, TypeOK, Idle
  <2>2. <<op.mac, op.ip>> \in db
    BY <1>a, <2>1, FileIsTable DEF InTable
  <2>3. Leased[op.mac] = op.ip /\ Leased' = Leased
    BY <1>a, <2>1, <2>2, LeasedRow DEF Leased
  <2>4. Answered' = <<op.mac, Leased[op.mac]>>
    BY <2>1, <2>3 DEF Answered
  <2> QED
    BY <2>1, <2>3, <2>4 DEF Service!Next, Service!Tell
<1>5. CASE DeleteLease
  <2>1. /\ op.pc = "delete" /\ op.mac \in Mac /\ op.ip \in Ip /\ status = "up"
        /\ db' = {row \in db : row[1] # op.mac} /\ UNCHANGED reply
    BY <1>5, <1>a, <1>b DEF DeleteLease, TypeOK, Idle
  <2>2. \A n \in Mac, a \in Ip : <<n, a>> \in db' <=> <<n, a>> \in db /\ n # op.mac
    BY <2>1
  <2>3. <<op.mac, op.ip>> \in db
    BY <1>a, <2>1, FileIsTable DEF LeaseInv, RefusedIsLeased, InTable
  <2>4. Leased[op.mac] = op.ip /\ Leased'[op.mac] = NoIp
    BY <1>a, <2>1, <2>2, <2>3, LeasedRow, LeasedRowNext
  <2>5. \A n \in Mac \ {op.mac} : Leased'[n] = Leased[n]
    <3> SUFFICES ASSUME NEW n \in Mac \ {op.mac} PROVE Leased'[n] = Leased[n]
      OBVIOUS
    <3> QED
      BY <1>a, <2>2, LeasedRow, LeasedRowNext
  <2>6. Leased' = [Leased EXCEPT ![op.mac] = NoIp]
    BY <2>4, <2>5 DEF Leased
  <2>7. Answered' = Answered
    BY <2>1 DEF Answered
  <2>8. Service!Revoke(op.mac)
    BY <2>1, <2>4, <2>6, <2>7, SentinelAssumption DEF Service!Revoke
  <2> QED
    BY <2>1, <2>8 DEF Service!Next
<1>6. CASE FreeLease
  <2>1. /\ op.pc = "free" /\ op.mac \in Mac /\ status = "up" /\ UNCHANGED db
        /\ reply' = [NoReply EXCEPT !.kind = "nak", !.mac = op.mac]
    BY <1>6, <1>a DEF FreeLease, TypeOK, Idle
  <2>2. reply'.kind = "nak" /\ reply'.mac = op.mac /\ reply'.ip = NoIp
    BY <2>1 DEF NoReply
  <2>3. \A a \in Ip : <<op.mac, a>> \notin db
    BY <1>a, <2>1, FileIsTable DEF InTable
  <2>4. Leased[op.mac] = NoIp /\ Leased' = Leased
    BY <1>a, <2>1, <2>3, LeasedRow DEF Leased
  <2>5. Answered' = <<op.mac, Leased[op.mac]>>
    BY <2>2, <2>4 DEF Answered
  <2> QED
    BY <2>1, <2>4, <2>5 DEF Service!Next, Service!Tell
<1>7. CASE UNCHANGED vars
  BY <1>7, QuietStep DEF vars
<1> QED
  BY <1>1, <1>2, <1>3, <1>4, <1>5, <1>6, <1>7 DEF Next, Progress

\* With a lease file that never fails and pools that never overlap, the plugin is
\* an implementation of the lease service, in which nothing stops and nothing is
\* forgotten: for any clients, any pools and any number of stops.
THEOREM ServiceImplemented ==
  ASSUME MaxFaults = 0, \A c \in Configs : RangesDisjoint(c)
  PROVE  Spec => ImplementsLeaseService
<1>1. Init => Service!Init
  BY DEF Init, Service!Init, Service!Silence, Leased, Answered, NoReply
<1>2. TypeOK => faults = 0 /\ RangesDisjoint(config)
  BY DEF TypeOK
<1>3. /\ TypeOK /\ TypeOK' /\ LeaseInv /\ FileInv /\ FileInv' /\ [Next]_vars
      => [Service!Next]_(Service!vars)
  BY <1>2, StepImplements DEF TypeOK
<1>4. Spec => []TypeOK /\ []LeaseInv /\ []FileInv
  BY TypeCorrect, LeaseInvCorrect, FileInvCorrect, PTL
<1> QED
  BY <1>1, <1>3, <1>4, PTL DEF Spec, ImplementsLeaseService, Service!Spec
=============================================================================
