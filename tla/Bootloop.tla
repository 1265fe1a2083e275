------------------------------ MODULE Bootloop ------------------------------
(***************************************************************************)
(* The bootloop plugin of CoreDHCP (plugin/coredhcp/bootloop): temporary   *)
(* IPv4 leases for MAC addresses SMD does not know.  Its state is a table  *)
(* MAC -> address in memory (Recordsv4), a bitmap of used addresses per    *)
(* pool, and an SQLite file that outlives the process.  Handler4 runs      *)
(* under one mutex, so requests never overlap, but it writes the file and  *)
(* the memory one after the other: the process may stop between two steps, *)
(* and a failed write to the file is logged and ignored.                   *)
(*                                                                         *)
(* A configuration names the pools the server is started with, and the     *)
(* operator may start it with another one than before.  With subnet pools  *)
(* each pool belongs to a subnet (CIDR); the legacy single pool belongs to *)
(* none and serves every request.  The expiry of a record is written but   *)
(* never read by the plugin, and the DHCP message type is never consulted, *)
(* so neither appears here.                                                *)
(***************************************************************************)
EXTENDS Naturals

CONSTANTS
  Mac,          \* hardware addresses of clients
  Ip,           \* IPv4 addresses: leasable ones, gateways, others
  Pool,         \* every pool some configuration names
  Cidr,         \* Cidr[p]: the addresses of pool p's subnet
  PoolRange,    \* PoolRange[p]: the addresses from pool p's start to its end
  Configs,      \* the configurations the server may be started with
  NoIp, NoMac, NoPool, Unspecified,
  MayFail,      \* operations on the lease file that may fail
  MaxFaults,    \* bound: failed operations on the lease database
  MaxCrashes    \* bound: times the process stops

ASSUME SentinelAssumption ==
  /\ NoIp \notin Ip /\ Unspecified \notin Ip
  /\ NoMac \notin Mac
  /\ NoPool \notin Pool

\* AddPool refuses a range that leaves its subnet; a configuration has either
\* subnet pools or the one legacy pool (Config.validate).
ASSUME ConfigAssumption ==
  /\ Cidr \in [Pool -> SUBSET Ip]
  /\ PoolRange \in [Pool -> SUBSET Ip]
  /\ Configs \subseteq [useSubnetPools : BOOLEAN, pools : SUBSET Pool]
  /\ \A c \in Configs :
       /\ c.pools # {}
       /\ c.useSubnetPools => \A p \in c.pools : PoolRange[p] \subseteq Cidr[p]
       /\ ~c.useSubnetPools => \E p \in Pool : c.pools = {p}

ASSUME FaultAssumption == MayFail \subseteq {"open", "save", "delete"}

ASSUME BoundAssumption == MaxFaults \in Nat /\ MaxCrashes \in Nat

VARIABLES
  status,    \* "down", "up", or "refused": setup4 returned an error
  config,    \* the configuration of the last start
  db,        \* rows <<mac, ip>> of table leases4, in the lease file
  records,   \* Recordsv4: the lease of each MAC, or NoIp
  used,      \* the allocator bitmaps
  op,        \* the Handler4 call that holds the mutex, and its locals
  reply,     \* the answer of the last finished Handler4 call
  faults,    \* failed database operations so far
  crashes    \* stops of the process so far

vars == <<status, config, db, records, used, op, reply, faults, crashes>>

-----------------------------------------------------------------------------
Idle    == [pc |-> "idle", mac |-> NoMac, ip |-> NoIp, ipxe |-> FALSE]
NoReply == [kind |-> "none", mac |-> NoMac, ip |-> NoIp, ipxe |-> FALSE]

NoRecords == [m \in Mac |-> NoIp]
NoneUsed  == [p \in Pool |-> {}]

\* Memory is lost, whatever the handler was doing.
MemoryCleared ==
  /\ records' = NoRecords
  /\ used' = NoneUsed
  /\ op' = Idle
  /\ reply' = NoReply

\* One more operation on the database fails.
StorageFault(operation) ==
  /\ operation \in MayFail
  /\ faults < MaxFaults
  /\ faults' = faults + 1

\* Slip for HomePools: the subnet of a pool is not looked at.
HomePoolsAnySubnet(c, a) == IF a = NoIp THEN {NoPool} ELSE c.pools

\* Pools an address may be charged to or freed from: the loops over Pools stop
\* at the first subnet that contains it, in the random order of a Go map.
HomePools(c, a) ==
  LET homes == {p \in c.pools : c.useSubnetPools => a \in Cidr[p]}
  IN  IF a = NoIp \/ homes = {} THEN {NoPool} ELSE homes

\* Pools a request relayed by giaddr may be served from.
PoolsForGiaddr(c, giaddr) ==
  IF ~c.useSubnetPools THEN c.pools
  ELSE IF giaddr = Unspecified
       THEN {p \in c.pools : c.pools = {p}}
       ELSE {p \in c.pools : giaddr \in Cidr[p]}

-----------------------------------------------------------------------------
Init ==
  /\ status = "down"
  /\ config \in Configs
  /\ db = {}
  /\ records = NoRecords
  /\ used = NoneUsed
  /\ op = Idle
  /\ reply = NoReply
  /\ faults = 0
  /\ crashes = 0

\* Slip for LoadableRecords: the lease file is emptied instead of loaded.
LoadableRecordsNone == {NoRecords}

\* Tables loadRecords can build: of several rows with one MAC the last scanned
\* wins, and the query orders nothing.
LoadableRecords ==
  {r \in [Mac -> Ip \cup {NoIp}] :
     \A m \in Mac : IF \E a \in Ip : <<m, a>> \in db
                    THEN <<m, r[m]>> \in db
                    ELSE r[m] = NoIp}

\* Slip for Reallocates: the address the allocator returns is not compared with
\* the leased one.
ReallocatesUnchecked(r, home) == TRUE

\* Each loaded lease is allocated again; the allocator returns another address
\* when the hint is taken or out of range, and setup4 gives up.
Reallocates(r, home) ==
  \A m \in Mac : home[m] # NoPool =>
    /\ r[m] \in PoolRange[home[m]]
    /\ \A n \in Mac \ {m} : home[n] = home[m] => r[n] # r[m]

\* setup4: open the lease file, load it, mark the loaded leases as used.
Setup ==
  /\ status # "up"
  /\ \E c \in Configs, r \in LoadableRecords :
       \E home \in {h \in [Mac -> Pool \cup {NoPool}] :
                      \A m \in Mac : h[m] \in HomePools(c, r[m])} :
         /\ config' = c
         /\ \/ /\ Reallocates(r, home)
               /\ status' = "up"
               /\ records' = r
               /\ used' = [p \in Pool |-> {r[m] : m \in {n \in Mac : home[n] = p}}]
               /\ UNCHANGED <<op, reply>>
            \/ /\ ~Reallocates(r, home)
               /\ status' = "refused"
               /\ MemoryCleared
  /\ UNCHANGED <<db, faults, crashes>>

\* setup4 when the lease file cannot be opened or read.
SetupStorageFault ==
  /\ status # "up"
  /\ StorageFault("open")
  /\ config' \in Configs
  /\ status' = "refused"
  /\ MemoryCleared
  /\ UNCHANGED <<db, crashes>>

\* The process stops: killed, or ended by any other part of the server.
Crash ==
  /\ status = "up"
  /\ crashes < MaxCrashes
  /\ crashes' = crashes + 1
  /\ status' = "down"
  /\ MemoryCleared
  /\ UNCHANGED <<config, db, faults>>

-----------------------------------------------------------------------------
\* Handler4 gets the mutex for a packet of client m.
Receives(m) == status = "up" /\ op = Idle

\* A MAC without a lease: an address of the chosen pool is taken.
HandleNew(m, giaddr, ipxe) ==
  /\ Receives(m)
  /\ records[m] = NoIp
  /\ \E p \in PoolsForGiaddr(config, giaddr) : \E a \in PoolRange[p] \ used[p] :
       /\ used' = [used EXCEPT ![p] = @ \cup {a}]
       /\ op' = [pc |-> "save", mac |-> m, ip |-> a, ipxe |-> ipxe]
  /\ reply' = NoReply
  /\ UNCHANGED <<status, config, db, records, faults, crashes>>

\* A MAC without a lease and no pool for its relay, or an exhausted one: the
\* packet is dropped.
HandleUnserved(m, giaddr) ==
  /\ Receives(m)
  /\ records[m] = NoIp
  /\ \/ PoolsForGiaddr(config, giaddr) = {}
     \/ \E p \in PoolsForGiaddr(config, giaddr) : PoolRange[p] \subseteq used[p]
  /\ reply' = [NoReply EXCEPT !.kind = "drop", !.mac = m]
  /\ UNCHANGED <<status, config, db, records, used, op, faults, crashes>>

\* saveIPAddress: the row is written, or the failure is only logged.
SaveLease ==
  /\ op.pc = "save"
  /\ \/ db' = db \cup {<<op.mac, op.ip>>} /\ UNCHANGED faults
     \/ StorageFault("save") /\ UNCHANGED db
  /\ op' = [op EXCEPT !.pc = "install"]
  /\ UNCHANGED <<status, config, records, used, reply, crashes>>

\* The record enters the table and the client is offered its address; the boot
\* file, the iPXE bootloader, is named unless the client already is iPXE.
InstallLease ==
  /\ op.pc = "install"
  /\ records' = [records EXCEPT ![op.mac] = op.ip]
  /\ reply' = [kind |-> IF op.ipxe THEN "lease" ELSE "bootloader",
               mac |-> op.mac, ip |-> op.ip, ipxe |-> op.ipxe]
  /\ op' = Idle
  /\ UNCHANGED <<status, config, db, used, faults, crashes>>

\* iPXE with a lease: the same address again, and the boot script.
HandleScript(m) ==
  /\ Receives(m)
  /\ records[m] # NoIp
  /\ reply' = [kind |-> "script", mac |-> m, ip |-> records[m], ipxe |-> TRUE]
  /\ UNCHANGED <<status, config, db, records, used, op, faults, crashes>>

\* Slip for HandleNak: the record is dropped before its address is kept.
HandleNakForgetsIp(m) ==
  /\ Receives(m)
  /\ records[m] # NoIp
  /\ op' = [pc |-> "delete", mac |-> m, ip |-> NoIp, ipxe |-> FALSE]
  /\ reply' = NoReply
  /\ UNCHANGED <<status, config, db, records, used, faults, crashes>>

\* Any other client with a lease is to be refused: the DHCPNAK is built first,
\* and when that fails nothing is touched.
HandleNak(m) ==
  /\ Receives(m)
  /\ records[m] # NoIp
  /\ \/ /\ op' = [pc |-> "delete", mac |-> m, ip |-> records[m], ipxe |-> FALSE]
        /\ reply' = NoReply
     \/ /\ reply' = [NoReply EXCEPT !.kind = "drop", !.mac = m]
        /\ UNCHANGED op
  /\ UNCHANGED <<status, config, db, records, used, faults, crashes>>

\* Slip for DeleteLease: the row of a refused client stays in the file.
DeleteLeaseKeepsRow ==
  /\ op.pc = "delete"
  /\ op' = [op EXCEPT !.pc = "free"]
  /\ UNCHANGED <<status, config, db, records, used, reply, faults, crashes>>

\* deleteIPAddress: every row of the MAC goes, or the failure is only logged.
DeleteLease ==
  /\ op.pc = "delete"
  /\ \/ db' = {row \in db : row[1] # op.mac} /\ UNCHANGED faults
     \/ StorageFault("delete") /\ UNCHANGED db
  /\ op' = [op EXCEPT !.pc = "free"]
  /\ UNCHANGED <<status, config, records, used, reply, crashes>>

\* The record leaves the table and its address is free at once, before the
\* DHCPNAK is on the wire.  Freeing an address its pool has not given out is an
\* error of the allocator that changes nothing.
FreeLease ==
  /\ op.pc = "free"
  /\ records' = [records EXCEPT ![op.mac] = NoIp]
  /\ \E home \in HomePools(config, op.ip) :
       used' = [p \in Pool |-> IF p = home THEN used[p] \ {op.ip} ELSE used[p]]
  /\ reply' = [NoReply EXCEPT !.kind = "nak", !.mac = op.mac]
  /\ op' = Idle
  /\ UNCHANGED <<status, config, db, faults, crashes>>

-----------------------------------------------------------------------------
Request(m) ==
  \/ \E giaddr \in Ip \cup {Unspecified} :
       \/ \E ipxe \in BOOLEAN : HandleNew(m, giaddr, ipxe)
       \/ HandleUnserved(m, giaddr)
  \/ HandleScript(m)
  \/ HandleNak(m)

Progress == SaveLease \/ InstallLease \/ DeleteLease \/ FreeLease

Next ==
  \/ Setup \/ SetupStorageFault \/ Crash
  \/ \E m \in Mac : Request(m)
  \/ Progress

Spec == Init /\ [][Next]_vars

\* A supervisor starts the server again, and a Handler4 call that has the mutex
\* runs to its end.  No client has to send anything.
Fairness == WF_vars(Setup) /\ WF_vars(Progress)

FairSpec == Spec /\ Fairness

-----------------------------------------------------------------------------
(***************************************************************************)
(* Properties                                                              *)
(***************************************************************************)

\* Type correctness of the plugin's state and of the call in progress.
TypeOK ==
  /\ status \in {"down", "up", "refused"}
  /\ config \in Configs
  /\ db \subseteq Mac \X Ip
  /\ records \in [Mac -> Ip \cup {NoIp}]
  /\ used \in [Pool -> SUBSET Ip]
  /\ op \in [pc : {"idle", "save", "install", "delete", "free"},
             mac : Mac \cup {NoMac}, ip : Ip \cup {NoIp}, ipxe : BOOLEAN]
  /\ op.pc = "idle" <=> op = Idle
  /\ op # Idle => op.mac \in Mac /\ op.ip \in Ip /\ status = "up"
  /\ reply \in [kind : {"none", "drop", "bootloader", "lease", "script", "nak"},
                mac : Mac \cup {NoMac}, ip : Ip \cup {NoIp}, ipxe : BOOLEAN]
  /\ faults \in 0..MaxFaults
  /\ crashes \in 0..MaxCrashes

\* The addresses the server hands out under configuration c.
Served(c) == UNION {PoolRange[p] : p \in c.pools}

\* Neither AddPool nor validate compares pools with one another, so a
\* configuration may overlap; what needs that it does not says so.
RangesDisjoint(c) ==
  \A p, q \in c.pools : p # q => PoolRange[p] \cap PoolRange[q] = {}

CidrsDisjoint(c) ==
  \A p, q \in c.pools : p # q => Cidr[p] \cap Cidr[q] = {}

\* No two clients hold one address of the running pools, whatever writes to the
\* lease file failed, wherever the process stopped and however the pools were
\* reconfigured between starts (Handler4's allocate/install and delete/free,
\* setup4's re-allocation).  An address no running pool serves may be held
\* twice: setup4 only warns about it.
LeaseUnique ==
  RangesDisjoint(config) =>
    \A m, n \in Mac : m # n /\ records[m] = records[n] => records[m] \notin Served(config)

\* The bitmaps are exactly the table: an address is marked used iff some client
\* holds it or the running call is about to hand it out, so that NAKs leak no
\* address and free none in use (Handler4's Free loop, setup4's re-allocation).
BitmapsMatchTable ==
  status = "up" /\ (config.useSubnetPools => CidrsDisjoint(config)) =>
    \A p \in Pool :
      used[p] = {a \in Ip : /\ p \in config.pools
                            /\ a \in PoolRange[p]
                            /\ \/ \E m \in Mac : records[m] = a
                               \/ op.pc \in {"save", "install"} /\ op.ip = a}

\* As long as no database operation failed, between two requests the lease file
\* holds the table's leases and nothing else, so that a stop at any point loses
\* or invents no lease (saveIPAddress before the table, deleteIPAddress before it).
FileMatchesTable ==
  faults = 0 /\ status = "up" /\ op = Idle =>
    db = {row \in Mac \X Ip : records[row[1]] = row[2]}

\* A deletion from the lease file never failed.
DeletesWork == faults = 0 \/ "delete" \notin MayFail

\* Unless a deletion failed, or the file cannot be opened, setup4 accepts the leases
\* its predecessor left, wherever that was stopped and whichever leases it could not
\* save (Handler4's writes; setup4's "allocator did not re-allocate requested leased
\* ip").  It may still refuse when the operator changed the pools: for runs with one
\* configuration.
RestartAccepted == faults = 0 \/ MayFail \subseteq {"save"} => status # "refused"

\* Unless a deletion failed, the server always comes back (setup4 after a stop,
\* Handler4 before one): no sequence of requests of any clients leaves a lease file
\* that keeps it from starting with the same configuration.
ServerReturns == []<>(DeletesWork => status = "up")

\* The abstract service: a lease is a row of the lease file.
Leased == [m \in Mac |-> IF \E a \in Ip : <<m, a>> \in db
                         THEN CHOOSE a \in Ip : <<m, a>> \in db
                         ELSE NoIp]

Answered ==
  IF reply.kind \in {"none", "drop"} THEN <<>> ELSE <<reply.mac, reply.ip>>

Service == INSTANCE LeaseService WITH lease <- Leased, answer <- Answered

\* With a lease file that works, every run of the server, stops included, is a
\* run of the abstract service: leases survive restarts, end only by a DHCPNAK
\* and are never shared, and each answer states the standing in the file.
ImplementsLeaseService == Service!Spec

-----------------------------------------------------------------------------
(***************************************************************************)
(* A claim of the documentation the code departs from                      *)
(***************************************************************************)

\* examples/coredhcp/coredhcp.yaml on lease_file: it "is not expected to exist,
\* though it will be overwritten if so", so that nothing in an old file keeps the
\* server from starting.  setup4 loads it; when a failed deletion has left two
\* clients with one address in it, every later start is refused.
OldFileNoObstacle == []<>(status = "up")
=============================================================================
