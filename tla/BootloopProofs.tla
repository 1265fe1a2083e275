--------------------------- MODULE BootloopProofs ---------------------------
(***************************************************************************)
(* Theorems about Bootloop, for every set of clients, addresses and        *)
(* configurations, and any number of stops and failed database operations. *)
(***************************************************************************)
EXTENDS Bootloop, TLAPS

-----------------------------------------------------------------------------
\* HomePools names pools of the configuration, or NoPool.
LEMMA HomePoolsType ==
  ASSUME NEW c \in Configs, NEW a \in Ip \cup {NoIp}
  PROVE  /\ HomePools(c, a) \subseteq Pool \cup {NoPool}
         /\ HomePools(c, a) \subseteq c.pools \cup {NoPool}
BY ConfigAssumption DEF HomePools

\* An address a pool hands out is charged to, and freed from, a pool of the
\* configuration: setup4 never skips it with a warning.
LEMMA ServedHasHome ==
  ASSUME NEW c \in Configs, NEW a \in Served(c)
  PROVE  HomePools(c, a) \subseteq c.pools
BY ConfigAssumption, SentinelAssumption DEF HomePools, Served

\* Types of the locals of Handler4 and of its answers.
LEMMA InitialTypes ==
  /\ Idle \in [pc : {"idle", "save", "install", "delete", "free"},
               mac : Mac \cup {NoMac}, ip : Ip \cup {NoIp}, ipxe : BOOLEAN]
  /\ NoReply \in [kind : {"none", "drop", "bootloader", "lease", "script", "nak"},
                  mac : Mac \cup {NoMac}, ip : Ip \cup {NoIp}, ipxe : BOOLEAN]
  /\ Idle.pc = "idle"
  /\ NoRecords \in [Mac -> Ip \cup {NoIp}]
  /\ NoneUsed \in [Pool -> SUBSET Ip]
BY DEF Idle, NoReply, NoRecords, NoneUsed

\* Every step keeps the types: setup4, Handler4 and a stop keep the table, the
\* bitmaps and the locals well formed.
LEMMA TypeNext == TypeOK /\ [Next]_vars => TypeOK'
<1> SUFFICES ASSUME TypeOK, [Next]_vars PROVE TypeOK'
  OBVIOUS
<1> USE InitialTypes
<1>1. CASE Setup
  <2>1. PICK c \in Configs, r \in LoadableRecords :
          \E home \in {h \in [Mac -> Pool \cup {NoPool}] :
                         \A m \in Mac : h[m] \in HomePools(c, r[m])} :
            /\ config' = c
            /\ \/ /\ Reallocates(r, home)
                  /\ status' = "up"
                  /\ records' = r
                  /\ used' = [p \in Pool |-> {r[m] : m \in {n \in Mac : home[n] = p}}]
                  /\ UNCHANGED <<op, reply>>
               \/ /\ ~Reallocates(r, home)
                  /\ status' = "refused"
                  /\ MemoryCleared
    BY <1>1 DEF Setup
  <2>2. PICK home \in [Mac -> Pool \cup {NoPool}] :
            /\ config' = c
            /\ \/ /\ Reallocates(r, home)
                  /\ status' = "up"
                  /\ records' = r
                  /\ used' = [p \in Pool |-> {r[m] : m \in {n \in Mac : home[n] = p}}]
                  /\ UNCHANGED <<op, reply>>
               \/ /\ status' = "refused"
                  /\ MemoryCleared
    BY <2>1
  <2>3. r \in [Mac -> Ip \cup {NoIp}]
    BY DEF LoadableRecords
  <2>4. UNCHANGED <<db, faults, crashes>>
    BY <1>1 DEF Setup
  <2>5. CASE status' = "refused" /\ MemoryCleared
    BY <2>2, <2>4, <2>5 DEF TypeOK, MemoryCleared
  <2>6. CASE /\ Reallocates(r, home) /\ status' = "up" /\ records' = r
             /\ used' = [p \in Pool |-> {r[m] : m \in {n \in Mac : home[n] = p}}]
             /\ UNCHANGED <<op, reply>>
    <3>1. ASSUME NEW p \in Pool PROVE {r[m] : m \in {n \in Mac : home[n] = p}} \subseteq Ip
      <4>1. ASSUME NEW m \in Mac, home[m] = p PROVE r[m] \in Ip
        <5>1. p # NoPool
          BY SentinelAssumption
        <5>2. r[m] \in PoolRange[p]
          BY <2>6, <4>1, <5>1 DEF Reallocates
        <5> QED BY <5>2, ConfigAssumption
      <4> QED BY <4>1
    <3>2. used' \in [Pool -> SUBSET Ip]
      BY <2>6, <3>1
    <3> QED BY <2>2, <2>3, <2>4, <2>6, <3>2 DEF TypeOK
  <2> QED BY <2>2, <2>5, <2>6
<1>2. CASE SetupStorageFault
  BY <1>2, BoundAssumption DEF SetupStorageFault, StorageFault, MemoryCleared, TypeOK
<1>3. CASE Crash
  BY <1>3, BoundAssumption DEF Crash, MemoryCleared, TypeOK
<1>4. ASSUME NEW m \in Mac, NEW giaddr \in Ip \cup {Unspecified}, NEW ipxe \in BOOLEAN,
             HandleNew(m, giaddr, ipxe)
      PROVE  TypeOK'
  <2>1. PICK p \in PoolsForGiaddr(config, giaddr) : \E a \in PoolRange[p] \ used[p] :
          /\ used' = [used EXCEPT ![p] = @ \cup {a}]
          /\ op' = [pc |-> "save", mac |-> m, ip |-> a, ipxe |-> ipxe]
    BY <1>4 DEF HandleNew
  <2>2. p \in Pool
    BY ConfigAssumption DEF PoolsForGiaddr, TypeOK
  <2>3. PICK a \in Ip : /\ used' = [used EXCEPT ![p] = @ \cup {a}]
                        /\ op' = [pc |-> "save", mac |-> m, ip |-> a, ipxe |-> ipxe]
    BY <2>1, <2>2, ConfigAssumption
  <2> QED BY <1>4, <2>2, <2>3 DEF HandleNew, Receives, TypeOK, Idle
<1>5. ASSUME NEW m \in Mac, NEW giaddr \in Ip \cup {Unspecified}, HandleUnserved(m, giaddr)
      PROVE  TypeOK'
  BY <1>5 DEF HandleUnserved, NoReply, TypeOK
<1>6. CASE SaveLease
  BY <1>6, BoundAssumption DEF SaveLease, StorageFault, TypeOK, Idle
<1>7. CASE InstallLease
  BY <1>7 DEF InstallLease, TypeOK, Idle
<1>8. ASSUME NEW m \in Mac, HandleScript(m) PROVE TypeOK'
  <2>1. records[m] \in Ip
    BY <1>8 DEF HandleScript, TypeOK
  <2>2. reply' \in [kind : {"none", "drop", "bootloader", "lease", "script", "nak"},
                    mac : Mac \cup {NoMac}, ip : Ip \cup {NoIp}, ipxe : BOOLEAN]
    BY <1>8, <2>1 DEF HandleScript
  <2> QED BY <1>8, <2>2 DEF HandleScript, TypeOK
<1>9. ASSUME NEW m \in Mac, HandleNak(m) PROVE TypeOK'
  <2>1. records[m] \in Ip
    BY <1>9 DEF HandleNak, TypeOK
  <2>2. CASE /\ op' = [pc |-> "delete", mac |-> m, ip |-> records[m], ipxe |-> FALSE]
             /\ reply' = NoReply
    BY <1>9, <2>1, <2>2 DEF HandleNak, Receives, TypeOK, Idle
  <2>3. CASE reply' = [NoReply EXCEPT !.kind = "drop", !.mac = m] /\ UNCHANGED op
    BY <1>9, <2>3 DEF HandleNak, NoReply, TypeOK
  <2> QED BY <1>9, <2>2, <2>3 DEF HandleNak
<1>10. CASE DeleteLease
  BY <1>10, BoundAssumption DEF DeleteLease, StorageFault, TypeOK, Idle
<1>11. CASE FreeLease
  <2>1. op.mac \in Mac
    BY <1>11 DEF FreeLease, TypeOK, Idle
  <2>2. used' \in [Pool -> SUBSET Ip]
    BY <1>11 DEF FreeLease, TypeOK
  <2>3. reply' \in [kind : {"none", "drop", "bootloader", "lease", "script", "nak"},
                    mac : Mac \cup {NoMac}, ip : Ip \cup {NoIp}, ipxe : BOOLEAN]
    BY <1>11, <2>1 DEF FreeLease, NoReply
  <2> QED BY <1>11, <2>2, <2>3 DEF FreeLease, TypeOK
<1>12. CASE UNCHANGED vars
  BY <1>12 DEF vars, TypeOK
<1> QED
  BY <1>1, <1>2, <1>3, <1>4, <1>5, <1>6, <1>7, <1>8, <1>9, <1>10, <1>11, <1>12
     DEF Next, Request, Progress

\* Every state of the plugin is of the expected type, and no call is in progress
\* unless the server is up.
THEOREM TypeCorrect == Spec => []TypeOK
<1>1. Init => TypeOK
  BY InitialTypes, BoundAssumption DEF Init, TypeOK
<1> QED BY <1>1, TypeNext, PTL DEF Spec

-----------------------------------------------------------------------------
(***************************************************************************)
(* Uniqueness of leases.  LeaseUnique alone is not inductive: that a fresh *)
(* address is nobody's lease follows from the bitmaps, which must mark     *)
(* every lease of a running pool, also while a call has taken an address   *)
(* it has not installed, or is about to free one still installed.          *)
(***************************************************************************)

\* A lease of a running pool is marked in that pool's bitmap.
LeasesMarked ==
  \A m \in Mac, p \in config.pools : records[m] \in PoolRange[p] => records[m] \in used[p]

\* The address a call has taken is marked and is nobody's lease.
TakenIsFree ==
  op.pc \in {"save", "install"} =>
    /\ \E p \in config.pools : op.ip \in PoolRange[p] \cap used[p]
    /\ \A m \in Mac : records[m] # op.ip

\* The address a call is about to free is still its client's lease.
RefusedIsLeased == op.pc \in {"delete", "free"} => records[op.mac] = op.ip

LeaseInv ==
  /\ TypeOK
  /\ status # "up" => records = NoRecords
  /\ RefusedIsLeased
  /\ RangesDisjoint(config) => LeasesMarked /\ TakenIsFree
  /\ LeaseUnique

\* A start marks and separates the leases it loads, if the ranges are disjoint.
LEMMA SetupLeases ==
  ASSUME NEW c \in Configs, RangesDisjoint(c),
         NEW r \in [Mac -> Ip \cup {NoIp}], NEW home,
         \A m \in Mac : home[m] \in HomePools(c, r[m]), Reallocates(r, home)
  PROVE  /\ \A m \in Mac, p \in c.pools : r[m] \in PoolRange[p] => home[m] = p
         /\ \A m, n \in Mac : m # n /\ r[m] = r[n] => r[m] \notin Served(c)
<1>1. ASSUME NEW m \in Mac, NEW p \in c.pools, r[m] \in PoolRange[p]
      PROVE  home[m] = p
  <2>1. r[m] \in Served(c)
    BY <1>1 DEF Served
  <2>2. home[m] \in c.pools
    BY <2>1, ServedHasHome
  <2>3. home[m] # NoPool
    BY <2>2, ConfigAssumption, SentinelAssumption
  <2>4. r[m] \in PoolRange[home[m]]
    BY <2>3 DEF Reallocates
  <2> QED BY <1>1, <2>2, <2>4 DEF RangesDisjoint
<1>2. ASSUME NEW m \in Mac, NEW n \in Mac, m # n, r[m] = r[n], r[m] \in Served(c)
      PROVE  FALSE
  <2>1. PICK p \in c.pools : r[m] \in PoolRange[p]
    BY <1>2 DEF Served
  <2>2. home[m] = p /\ home[n] = p
    BY <1>1, <1>2, <2>1
  <2>3. p # NoPool
    BY ConfigAssumption, SentinelAssumption
  <2> QED BY <1>2, <2>2, <2>3 DEF Reallocates
<1> QED BY <1>1, <1>2

LEMMA LeaseInvInit == Init => LeaseInv
<1> SUFFICES ASSUME Init PROVE LeaseInv
  OBVIOUS
<1>1. TypeOK
  BY InitialTypes, BoundAssumption DEF Init, TypeOK
<1>2. \A p \in config.pools : NoIp \notin PoolRange[p]
  BY <1>1, ConfigAssumption, SentinelAssumption DEF TypeOK
<1> QED
  BY <1>1, <1>2 DEF Init, LeaseInv, RefusedIsLeased, LeasesMarked, TakenIsFree,
                    LeaseUnique, Served, NoRecords, Idle

LEMMA LeaseInvNext == LeaseInv /\ TypeOK' /\ [Next]_vars => LeaseInv'
<1> SUFFICES ASSUME LeaseInv, TypeOK', [Next]_vars PROVE LeaseInv'
  OBVIOUS
<1>a. /\ config \in Configs /\ config' \in Configs
      /\ records \in [Mac -> Ip \cup {NoIp}] /\ used \in [Pool -> SUBSET Ip]
  BY DEF LeaseInv, TypeOK
<1>b. ASSUME NEW c \in Configs PROVE NoIp \notin Served(c)
  BY ConfigAssumption, SentinelAssumption DEF Served
<1>c. ASSUME NEW c \in Configs, NEW p \in c.pools
      PROVE  p \in Pool /\ p # NoPool /\ PoolRange[p] \subseteq Ip /\ PoolRange[p] \subseteq Served(c)
  BY ConfigAssumption, SentinelAssumption DEF Served
\* Memory without leases satisfies the invariant.
<1>d. ASSUME status' # "up", MemoryCleared PROVE LeaseInv'
  <2>1. \A p \in config'.pools : NoIp \notin PoolRange[p]
    BY <1>a, <1>b, <1>c
  <2> QED
    BY <1>a, <1>b, <1>d, <2>1
       DEF MemoryCleared, LeaseInv, RefusedIsLeased, LeasesMarked, TakenIsFree,
           LeaseUnique, NoRecords, Idle
\* So does a step that touches neither leases nor bitmaps nor the call.
<1>e. ASSUME UNCHANGED <<status, config, records, used, op>> PROVE LeaseInv'
  BY <1>e DEF LeaseInv, RefusedIsLeased, LeasesMarked, TakenIsFree, LeaseUnique,
              RangesDisjoint, Served
\* ... or only passes from one write to the next.
<1>f. ASSUME UNCHANGED <<status, config, records, used>>,
             \/ op.pc = "save" /\ op' = [op EXCEPT !.pc = "install"]
             \/ op.pc = "delete" /\ op' = [op EXCEPT !.pc = "free"]
      PROVE  LeaseInv'
  <2>1. op'.mac = op.mac /\ op'.ip = op.ip
    BY <1>f DEF LeaseInv, TypeOK
  <2>2. /\ op'.pc \in {"save", "install"} => op.pc \in {"save", "install"}
        /\ op'.pc \in {"delete", "free"} => op.pc \in {"delete", "free"}
    BY <1>f DEF LeaseInv, TypeOK
  <2> QED
    BY <1>f, <2>1, <2>2
       DEF LeaseInv, RefusedIsLeased, LeasesMarked, TakenIsFree, LeaseUnique,
           RangesDisjoint, Served
<1>1. CASE Setup
  <2>1. PICK c \in Configs, r \in LoadableRecords, home \in [Mac -> Pool \cup {NoPool}] :
            /\ \A m \in Mac : home[m] \in HomePools(c, r[m])
            /\ config' = c
            /\ \/ /\ Reallocates(r, home)
                  /\ status' = "up"
                  /\ records' = r
                  /\ used' = [p \in Pool |-> {r[m] : m \in {n \in Mac : home[n] = p}}]
                  /\ UNCHANGED <<op, reply>>
               \/ /\ ~Reallocates(r, home)
                  /\ status' = "refused"
                  /\ MemoryCleared
    BY <1>1 DEF Setup
  <2>2. CASE status' = "refused"
    BY <2>1, <2>2, <1>d
  <2>3. CASE status' = "up"
    <3>1. Reallocates(r, home) /\ records' = r /\ op' = op
          /\ used' = [p \in Pool |-> {r[m] : m \in {n \in Mac : home[n] = p}}]
      BY <2>1, <2>3
    <3>2. op = Idle
      BY <1>1 DEF Setup, LeaseInv, TypeOK
    <3>3. r \in [Mac -> Ip \cup {NoIp}]
      BY DEF LoadableRecords
    <3>4. RefusedIsLeased' /\ TakenIsFree'
      BY <3>1, <3>2 DEF RefusedIsLeased, TakenIsFree, Idle
    <3>5. ASSUME RangesDisjoint(c)
          PROVE  /\ \A m \in Mac, p \in c.pools : r[m] \in PoolRange[p] => home[m] = p
                 /\ \A m, n \in Mac : m # n /\ r[m] = r[n] => r[m] \notin Served(c)
      BY <2>1, <3>1, <3>3, <3>5, SetupLeases
    <3>6. ASSUME RangesDisjoint(c) PROVE LeasesMarked'
      <4>1. ASSUME NEW m \in Mac, NEW p \in c.pools, r[m] \in PoolRange[p]
            PROVE  r[m] \in used'[p]
        BY <3>1, <3>5, <3>6, <4>1, <1>c
      <4> QED BY <2>1, <3>1, <4>1 DEF LeasesMarked
    <3>7. LeaseUnique'
      BY <2>1, <3>1, <3>5 DEF LeaseUnique, RangesDisjoint, Served
    <3>8. RangesDisjoint(config)' => LeasesMarked'
      BY <2>1, <3>6 DEF RangesDisjoint
    <3> QED BY <2>3, <3>4, <3>7, <3>8 DEF LeaseInv
  <2> QED BY <2>1, <2>2, <2>3
<1>2. CASE SetupStorageFault
  BY <1>2, <1>d DEF SetupStorageFault
<1>3. CASE Crash
  BY <1>3, <1>d DEF Crash
<1>4. ASSUME NEW m \in Mac, NEW giaddr \in Ip \cup {Unspecified}, NEW ipxe \in BOOLEAN,
             HandleNew(m, giaddr, ipxe)
      PROVE  LeaseInv'
  <2>0. PICK p \in PoolsForGiaddr(config, giaddr) : \E a \in PoolRange[p] \ used[p] :
            /\ used' = [used EXCEPT ![p] = @ \cup {a}]
            /\ op' = [pc |-> "save", mac |-> m, ip |-> a, ipxe |-> ipxe]
    BY <1>4 DEF HandleNew
  <2>1. PICK a \in PoolRange[p] \ used[p] :
            /\ used' = [used EXCEPT ![p] = @ \cup {a}]
            /\ op' = [pc |-> "save", mac |-> m, ip |-> a, ipxe |-> ipxe]
    BY <2>0
  <2>2. p \in config.pools
    BY DEF PoolsForGiaddr
  <2>3. UNCHANGED <<status, config, records>> /\ status = "up"
    BY <1>4 DEF HandleNew, Receives
  <2>4. ASSUME RangesDisjoint(config)
        PROVE  LeasesMarked' /\ TakenIsFree'
    <3>1. LeasesMarked
      BY <2>4 DEF LeaseInv
    <3>2. \A n \in Mac : records[n] # a
      BY <3>1, <2>1, <2>2 DEF LeasesMarked
    <3>3. a \in PoolRange[p] /\ a \in used'[p]
      BY <2>1, <2>2, <1>a, <1>c
    <3>4. LeasesMarked'
      BY <3>1, <2>1, <2>3, <1>a, <1>c DEF LeasesMarked
    <3>5. TakenIsFree'
      BY <3>2, <3>3, <2>1, <2>2, <2>3 DEF TakenIsFree
    <3> QED BY <3>4, <3>5
  <2>5. RefusedIsLeased'
    BY <2>1 DEF RefusedIsLeased
  <2>6. LeaseUnique'
    BY <2>3 DEF LeaseInv, LeaseUnique, RangesDisjoint, Served
  <2> QED BY <2>3, <2>4, <2>5, <2>6 DEF LeaseInv, RangesDisjoint
<1>5. ASSUME NEW m \in Mac, NEW giaddr \in Ip \cup {Unspecified}, HandleUnserved(m, giaddr)
      PROVE  LeaseInv'
  BY <1>5, <1>e DEF HandleUnserved
<1>6. CASE SaveLease
  BY <1>6, <1>f DEF SaveLease
<1>7. CASE InstallLease
  <2>1. /\ op.mac \in Mac /\ status = "up"
        /\ records' = [records EXCEPT ![op.mac] = op.ip]
        /\ op' = Idle
        /\ UNCHANGED <<status, config, used>>
    BY <1>7 DEF InstallLease, LeaseInv, TypeOK, Idle
  <2>2. ASSUME RangesDisjoint(config)
        PROVE  LeasesMarked' /\ TakenIsFree'
    <3>1. LeasesMarked /\ TakenIsFree
      BY <2>2 DEF LeaseInv
    <3>2. PICK p \in config.pools : op.ip \in PoolRange[p] \cap used[p]
      BY <3>1, <1>7 DEF TakenIsFree, InstallLease
    <3>3. \A q \in config.pools : op.ip \in PoolRange[q] => op.ip \in used[q]
      BY <2>2, <3>2 DEF RangesDisjoint
    <3>4. LeasesMarked'
      BY <3>1, <3>3, <2>1, <1>a DEF LeasesMarked
    <3>5. TakenIsFree'
      BY <2>1 DEF TakenIsFree, Idle
    <3> QED BY <3>4, <3>5
  <2>3. RefusedIsLeased'
    BY <2>1 DEF RefusedIsLeased, Idle
  <2>4. LeaseUnique'
    <3> SUFFICES ASSUME RangesDisjoint(config), NEW m \in Mac, NEW n \in Mac, m # n,
                        records'[m] = records'[n]
                 PROVE  records'[m] \notin Served(config)
      BY <2>1 DEF LeaseUnique, RangesDisjoint, Served
    <3>1. TakenIsFree
      BY DEF LeaseInv
    <3>2. \A k \in Mac : records[k] # op.ip
      BY <3>1, <1>7 DEF TakenIsFree, InstallLease
    <3>3. m # op.mac /\ n # op.mac
      BY <3>2, <2>1, <1>a
    <3> QED BY <3>3, <2>1, <1>a DEF LeaseInv, LeaseUnique
  <2> QED BY <2>1, <2>2, <2>3, <2>4 DEF LeaseInv, RangesDisjoint
<1>8. ASSUME NEW m \in Mac, HandleScript(m) PROVE LeaseInv'
  BY <1>8, <1>e DEF HandleScript
<1>9. ASSUME NEW m \in Mac, HandleNak(m) PROVE LeaseInv'
  <2>1. UNCHANGED <<status, config, records, used>> /\ status = "up"
    BY <1>9 DEF HandleNak, Receives
  <2>2. CASE op' = [pc |-> "delete", mac |-> m, ip |-> records[m], ipxe |-> FALSE]
    <3>1. RefusedIsLeased' /\ TakenIsFree'
      BY <2>1, <2>2 DEF RefusedIsLeased, TakenIsFree
    <3> QED BY <2>1, <3>1 DEF LeaseInv, LeasesMarked, LeaseUnique, RangesDisjoint, Served
  <2>3. CASE op' = op
    BY <2>1, <2>3, <1>e
  <2> QED BY <1>9, <2>2, <2>3 DEF HandleNak
<1>10. CASE DeleteLease
  BY <1>10, <1>f DEF DeleteLease
<1>11. CASE FreeLease
  <2>1. /\ op.mac \in Mac /\ status = "up" /\ op' = Idle
        /\ records' = [records EXCEPT ![op.mac] = NoIp]
        /\ UNCHANGED <<status, config>>
    BY <1>11 DEF FreeLease, LeaseInv, TypeOK, Idle
  <2>2. \A p \in Pool : used[p] \ {op.ip} \subseteq used'[p]
    BY <1>11, <1>a DEF FreeLease
  <2>3. records[op.mac] = op.ip
    BY <1>11 DEF FreeLease, LeaseInv, RefusedIsLeased
  <2>4. RefusedIsLeased' /\ TakenIsFree'
    BY <2>1 DEF RefusedIsLeased, TakenIsFree, Idle
  <2>5. ASSUME RangesDisjoint(config) PROVE LeasesMarked'
    <3> SUFFICES ASSUME NEW m \in Mac, NEW p \in config.pools, records'[m] \in PoolRange[p]
                 PROVE  records'[m] \in used'[p]
      BY <2>1 DEF LeasesMarked
    <3>1. m # op.mac
      BY <2>1, <1>a, <1>c, SentinelAssumption
    <3>2. records'[m] = records[m]
      BY <3>1, <2>1, <1>a
    <3>3. records[m] \in used[p]
      BY <3>2, <2>5 DEF LeaseInv, LeasesMarked
    <3>4. records[m] # op.ip
      BY <3>1, <3>2, <2>1, <2>3, <2>5, <1>a, <1>c DEF LeaseInv, LeaseUnique
    <3> QED BY <3>2, <3>3, <3>4, <2>2, <1>a, <1>c
  <2>6. LeaseUnique'
    <3> SUFFICES ASSUME RangesDisjoint(config), NEW m \in Mac, NEW n \in Mac, m # n,
                        records'[m] = records'[n]
                 PROVE  records'[m] \notin Served(config)
      BY <2>1 DEF LeaseUnique, RangesDisjoint, Served
    <3>1. CASE records'[m] = NoIp
      BY <3>1, <1>a, <1>b
    <3>2. CASE records'[m] # NoIp
      BY <3>2, <2>1, <1>a DEF LeaseInv, LeaseUnique
    <3> QED BY <3>1, <3>2
  <2> QED BY <2>1, <2>4, <2>5, <2>6 DEF LeaseInv, RangesDisjoint
<1>12. CASE UNCHANGED vars
  BY <1>12, <1>e DEF vars
<1> QED
  BY <1>1, <1>2, <1>3, <1>4, <1>5, <1>6, <1>7, <1>8, <1>9, <1>10, <1>11, <1>12
     DEF Next, Request, Progress

\* LeaseInv, of which uniqueness is the last conjunct, holds of every run.
THEOREM LeaseInvCorrect == Spec => []LeaseInv
<1>1. Spec => []TypeOK
  BY TypeCorrect
<1> QED BY <1>1, LeaseInvInit, LeaseInvNext, PTL DEF Spec

\* No two clients ever hold one address of the running pools, provided these hand
\* out disjoint ranges: not after failed writes to the lease file, not after a
\* stop between two writes, not after a start with other pools.
THEOREM LeasesUnique == Spec => []LeaseUnique
<1>1. LeaseInv => LeaseUnique
  BY DEF LeaseInv
<1> QED BY <1>1, LeaseInvCorrect, PTL
=============================================================================
