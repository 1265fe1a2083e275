# A verification development of coresmd

TLA+ specifications of the DHCP and DNS plugins in this repository, checked
with TLC on small instances and, where it matters most, proved with TLAPS for
every value of the constants. Paths are relative to the repository; on disk
they are below `src/`.

## 1. Inventory

coresmd is a set of plugins. CoreDHCP loads **coresmd** and **bootloop**, in
this order, and hands every packet to them on a goroutine of its own; CoreDNS
loads its **coresmd** plugin. coresmd answers what it knows from the State
Management Database (SMD), bootloop gives everything else a temporary address.

| component | state it keeps | operations | talks to |
|---|---|---|---|
| bootloop (`plugin/coredhcp/bootloop`) | `Recordsv4` (MAC to lease), the SQLite file, one mutex | `setup4`, `Handler4`, `saveIPAddress`, `deleteIPAddress`, `loadRecords` | the pools; runs after coresmd in the chain |
| IPv4 pools (`internal/subnet/pool.go`) | one bitmap of used addresses per subnet | `AddPool`, `GetAllocatorForGiaddr`, allocate, free | called by bootloop under its mutex |
| SMD cache (`internal/cache`, `internal/smdclient`) | two maps, `LastUpdated`, a read-write lock | `RefreshLoop`, `Refresh`, `APIGet` | SMD over HTTP; read by both plugins |
| coresmd DHCP (`plugin/coredhcp/coresmd`) | package globals `smdCache`, `globalConfig` | `setup4`, `setup6`, `parseConfig`, `validate`, `Handler4`, `Handler6` | cache, lookup, rules, iPXE, TFTP |
| interface lookup (`internal/iface`) | none | `LookupMAC`, `LookupMACWithSubnet` | reads the cache under the caller's lock |
| subnet context (`internal/subnet/subnet.go`) | subnets of the configuration | `FindSubnetForIP`, ... | lookup, rules |
| rule engine (`internal/rule`, `internal/hostname`) | none | `ParseRule`, `Evaluate4`, `Evaluate6`, `lookupHostname` | coresmd's configuration and handlers |
| CoreDNS plugin (`plugin/coredns`) | zones, a cache of its own, one per reload | `parse`, `parseZone`, `OnStartup`, `ServeDNS`, `lookupA/AAAA/PTR`, `Ready` | cache; the next plugin |
| helpers (`internal/parse`, `internal/ipxe`) | none | pieces of a rule's text; a bootloader for an architecture | configuration, handlers |
| TFTP server (`internal/tftp`) | its port | `Start`, read handler, built-in reboot script | started by each setup of coresmd; ends the process if the port is taken |

What is hard in it:

* **Two stores, no transaction.** bootloop writes the SQLite file and then its
  memory; a failed write is only logged, and the process can stop in between.
  The next start rebuilds memory and bitmaps from the file, perhaps with other
  pools, and refuses to start when an address cannot be allocated again, as after
  a deletion that failed: two clients may then have the address in the file, and
  nothing removes either row.
* **Address before answer.** A lease exists once the DISCOVER is handled, and is
  gone, and its address free, before the DHCPNAK is on the wire. Packets get
  lost or are sent again in between.
* **One decision per packet.** Whether coresmd or bootloop answers is decided
  anew for every packet, from a cache that changes.
* **Two documents, two maps.** The cache fetches interfaces and components with
  two GETs, and handlers look in both maps. SMD changes meanwhile; refreshes
  fail; the refresh goroutine must survive, and get its lock.
* **Map order.** Pools and subnets that overlap, and components with several
  interfaces, are resolved in the random order of a Go map.
* **Setups that share variables.** `setup4` and `setup6` of coresmd replace the
  same globals, and each starts a refresh loop and a TFTP server. A goroutine that
  cannot go on ends the process, long after the setup has succeeded.
* **Words read one by one.** Comments, rules and the CoreDNS stanza are read by
  small state machines; an error is mostly logged and skipped, and what is left
  must still mean what was written.

What makes each component correct: *bootloop* - no two clients hold an address;
the bitmaps are exactly the leases; the file survives a stop and, unless a
deletion from it failed, never keeps a server of unchanged pools from starting;
*chain* - an iPXE client gets an address and holds it while it runs its script;
a node that becomes known ends on SMD's address; *cache* - a node that was in
SMD throughout a refresh is found, one that was not is not found, and the cache
converges; *lookup and rules* - the address given lies in the relay's subnet,
rules apply in order until one stops; *DNS* - an answer names an address of the
component asked for, and the name of an address leads back to it;
*configuration* - what is in force is what was written outside comments, and no
rule applies to more than its text says; *start-up* - handlers that serve find
all they use, and clients boot again and again. The list of hazards, each at its
line, is in `PROJECT.json`.

## 2. Plan

Done, in this order:

1. `LeaseService`, `Bootloop`, `MCBootloop`: the lease table against its file.
2. `DhcpChain`, `MCDhcpChain`: `Bootloop` extended with coresmd's decision,
   clients and a network.
3. `CacheService`, `SmdCache`, `MCSmdCache`: what the cache promises, and the cache
   with its readers.
4. `Coresmd`, `MCCoresmd`: coresmd's answer to one packet, lookup by subnet and
   rule walk included.
5. `Corefile`, `Dns`, `MCDns`: the CoreDNS plugin, from its stanza to the answers
   a resolver gets.
6. `PluginConfig`, `Startup`, `MCStartup`: the configuration of the DHCP plugins,
   the process they run in, and the stages in which clients boot.
7. `BootloopProofs`, `BootloopFileProofs`, `ChainProofs`, `SmdCacheProofs`,
   `CoresmdProofs`, `DnsProofs`, `StartupProofs`, with the induction they share in
   `Induction`: section 5.

Next:

8. What the bitmaps hold when subnets overlap: which addresses leak, and that none
   in use is handed out by the pool that served it.
9. The age of the cache that `Ready` looks at.

## 3. The modules

### Bootloop, with its abstract specification LeaseService

| variable | in the code |
|---|---|
| `status` | whether the process runs; `refused` when `setup4` returned an error |
| `config` | the pools `validate` accepted: subnet pools or the one legacy pool |
| `db` | the rows of table `leases4` |
| `records` | `Recordsv4` |
| `used` | the bitmaps of the allocators |
| `op` | the `Handler4` call that holds the mutex: its program counter and locals |
| `reply` | what the last finished call answered |

`Setup` is one step: nobody sees `setup4` half done, and a process that ends in
the middle of it has changed nothing but memory. `Handler4` is cut where its
effects can be told apart by a stop: `HandleNew` (allocate), `SaveLease` (write
the row), `InstallLease` (table and answer); `HandleNak`, `DeleteLease`,
`FreeLease` for a refusal; `HandleScript` and `HandleUnserved` are one step. The
mutex is the conjunct `op = Idle` of `Receives`. The allocator, a library, gives
any free address of its range when asked for any, and the hinted one when that
is free. `HomePools` and `PoolsForGiaddr` are the loops over the map of pools:
which of several matching pools they find is a choice. Any operation on the file
named in `MayFail` (opening it, saving a lease, deleting one) may fail, `MaxFaults`
times in all. Left out: the `expires`
and `hostname` columns, which are written and never read; the DHCP message
type, which the handler does not look at; rows that do not parse.

`LeaseService` promises that a client holds at most one address, no address is
held twice, and an answer tells a client its own standing. It has no crash. A
lease is a *row of the file*: with that mapping a stop is a stutter or the end of
an answer (`Hush`), the row's insertion is `Grant`, its deletion `Revoke`, and
the last step of a call `Tell`.

### DhcpChain

Extends `Bootloop`: the packet of a client is `request` on the wire, `waiting`
once coresmd has passed it on and bootloop's mutex is awaited, and `answer` on
the way back. `Dispatch` is coresmd's `Handler4` up to its decision: `known` holds
the MACs it finds an IPv4 address for, and only a node in `Discoverable` ever is
one. `Bootloop4` and `Bootloop4Goes` run the
actions of `Bootloop` for that packet. Clients are external: a DHCP state
machine (`init`, `selecting`, `requesting`, `bound`, `renewing`) that resends,
renews, lets leases lapse and is reset, as the server must expect of any client;
`Firmware` says which of them may run iPXE, something else, or now one and now the
other.
Packets of one client keep their order, a newer one replaces one in flight, and
one packet per client is inside the server at a time; packets of different
clients interleave in every order.

### SmdCache, with its abstract specification CacheService

`pc` walks the refresh goroutine through `Refresh`: two GETs, decoding, the lock,
two assignments, the time stamp. A GET fails, returns what is not JSON, or, if
`ErrorDocuments`, returns a JSON error object: the status is not looked at, so
only decoding tells. An array is required of the interfaces; an object without
the member `Components` is an inventory of none. Readers take the read lock,
which Go denies them once a writer waits, read the interface, then the
component, and return. A node stands for one interface and its component.
`lasting`, `sighted`, `vouched`, `excused` are history variables: what SMD held
throughout, and at some time during, the current refresh and the one the cache
comes from. Nothing reads them but properties.

`CacheService` promises that the two documents in force are replaced together, never
while a lookup is under way, and that a lookup is answered from both at one point
in time. The documents served (`Served`) are the maps, except that between the two
assignments the components are those about to be assigned; a reader is told its
answer when it has looked in the second map, or not found the node in the first
(`Told`). It is by this service that `DhcpChain`, `Dns` and `Startup` take a lookup,
and the end of a refresh, for one step.

### Coresmd

One packet of one MAC, from the lookup to the handler's return. `packet` is all
the outside world decides: the DHCP version, the relay's address, and what the
cache holds for the MAC (no interface, or a component with a list of addresses of
both families, some unreadable). `rules` is a configuration. `Lookup4` is
`LookupMAC`, or, if any rule names a subnet, `LookupMACWithSubnet`, up to the
assignment of `IPList[0]`; `Lookup6` is `Handler6` up to the address it looks
for. `RuleFails`, `RuleIgnores`, `RuleApplies` are one iteration each of the loop
in `Evaluate4` and `Evaluate6`, and `Finish` is the code after it. `outcome` tells
how the handler ended; `panic` is the index out of range of an empty list. The
subnet of a relay is a choice among those that hold it, as the loop is over a
map. `ParseRule` is kept as far as it changes what a rule does, the implicit mask
and the demand for an action. What a rule matches by type and id is the set of
components it matches. A host name is a pattern and the domains behind it, which
`LookupHostname` chooses from the rule's, the plugin's and `domain_append`, as
`lookupHostname` does; names are labels, and no domain is called none, which
`ParseRule` refuses. The boot file, the root path and the lease time, on which no
rule has a say, are left out. `DhcpChain` needs of all this only whether coresmd
answers.

`AnswerFollowsRules` says declaratively what the loop does by steps: which rules
count for a packet, and that each option comes from the last of them that sets
it. `RelayConfined` joins two readings of a subnet, the lookup's filter by relay
and the match by first address.

### Corefile and Dns

`Corefile` reads the stanza: `text` is its words with their lines, `cursor` the
dispenser that CoreDNS hands to the plugin. `parse` and `parseZone` share it:
`parse` moves by `NextBlock` and `NextArg`, which does not leave the line, and
`parseZone` by `Next`, which reads the zone's braces itself. `ReadDirective` and
`ReadZone` are one turn each of their loops. `parseZone` gives its zone back also
at the word `zone`, so a closing brace that is missing is not missed; CoreDNS
itself refuses a file whose braces do not match before the plugin sees it.

`Dns` extends it. `OnStartup` makes a client and a cache, refreshes it once, failed
or not, and sets the default zone; `RefreshCache` is a tick of the loop; `Reload`
is a plugin of the same stanza with an empty cache that takes over. Each refresh
(`Copies`) is one step with the outcomes `SmdCache` has: SMD's two documents, those
of two moments if SMD changes between the GETs, interfaces without components after
an error document, or no change. `Lookup` is `lookupA` and `lookupAAAA`: for each
zone a loop over the interfaces of nodes, then one over those of BMCs, the first
that finds an address ending it; each loop runs over a Go map, so that of several
interfaces any may be the one. `LookupPTR` is `lookupPTR`. A resolver (external) asks for names and addresses and confirms
the name of an address by asking for the name's addresses. `undisturbed` is a
history variable: the confirmation saw the cache of the first answer.

`ForwardExact` compares the nested loops with the set of all addresses a name can
mean. `ReverseConfirmed` relates two functions that decide independently whether
a component has a name in a zone. `ZonesAsWritten` says without a cursor where in a
stanza a zone stands: at the word `zone` at the start of a line, with its brace and
its pattern; none is left out where the braces match as CoreDNS demands
(`WellBraced`). `SettingsAsWritten` compares the settings with the last lines for
them. `JudgedAsWritten` says of any stanza what it must look like to be accepted: its
words divide, from the first to the last, into directives with their arguments
(`IsDirective`, `DividesStanza`), one of which names SMD, with no `smd_url` after it
(`InForm`). It is refused only if there is no such division; where braces match, it
is accepted only if there is one. `NameComesBack` is about failed first refreshes
and reloads.

### PluginConfig and Startup

`PluginConfig` has no variables: `ParseConfig`, `ParseBootConfig`, `ParseRule` are
functions of a list of words. A value stands for what it parses to, `Bad` if it
does not, `Empty` if nothing is left without quotes and blanks. `InComment` is the
flag of the loop in both `parseConfig`s, where a word may open a comment, close
one or both; `TakeArg` and `TakeBootArg` are the cases of its switch;
`RuleRefused` and `ParseRule` go through the keys of a rule. `WithDefaults` is the
second half of `validate`.

`Startup` runs a deployment, a sequence of setups, those of server6 before those
of server4, as CoreDHCP does. Each setup of coresmd replaces `globalConfig` and
`smdCache`, and adds a cache with its refresh loop to `caches` and a TFTP server
to `servers`, which starts to listen on its own (`Listen`) and ends the process if
the port is taken. A duration of zero ends it too, since `time.NewTicker` panics.
Clients are off, fetch a file by TFTP, run iPXE, are booted, or run a script that
reboots them: a ROM is named a bootloader by its architecture, iPXE the URL of its
script, and what coresmd does not find gets bootloop's script. An exchange of DHCP
is one step, as `DhcpChain` has its steps, and so is a refresh, which `SmdCache`
has.

## 4. Runs

| run | instance | shows |
|---|---|---|
| `bootloop_faults` | 3 clients, 4 pools in 4 configurations, 2 failed writes, 2 stops | `LeaseUnique`, `BitmapsMatchTable` in spite of overlapping subnets, reconfiguration, failures and stops |
| `bootloop_reliable` | 3 clients, 3 configurations with disjoint ranges, 2 stops, no failed write | `FileMatchesTable`; refinement of `LeaseService` |
| `smdcache_refresh` | 1 node, 2 readers, 3 changes of SMD, 2 faults, fair, error documents | `NoSpuriousMiss`, `NoPhantom`; refinement of `CacheService`; `RefreshNotStarved`, `EventuallyFresh` |
| `chain_safe` | 2 clients, one of either firmware and one iPXE, a stop, a loss, a reset, a lease that cannot be saved | `ScriptRunsOnLease`, `RestartAccepted` |
| `chain_live` | 2 clients, one of either firmware, which becomes known, and one iPXE; a stop; fair; no failure of the file | `IpxeGetsAddress`, `KnownMovesToSmdIp`, `ServerReturns` |
| `coresmd_rules` | every packet with 2 addresses, every configuration of up to 3 rules out of 9, 4 subnets of which two overlap a third, 2 domains | `AnswerFollowsRules`, `RelayConfined` |
| `dns_lookup` | 10 stanzas, and each with any one word left out; 3 interfaces, a node, a BMC and another component, 4 inventories; a change, 2 faults, a reload; fair | `ZonesAsWritten`, `SettingsAsWritten`, `JudgedAsWritten`, `ForwardExact`, `ReverseConfirmed`, `NameComesBack` |
| `startup_boot` | coresmd alone with every list of words, bootloop alone, coresmd in either or both servers with bootloop; 16 rule texts; 5 kinds of client; 2 faults; fair | `ConfigAsWritten`, `RulesKeepTheirLimits`, `HandlersConfigured`, `ClientsServed` |

`coresmd_rules` is the largest, 6 million states in about a minute; `chain_live`,
with its three liveness properties, takes two.

`IpxeGetsAddress`, `KnownMovesToSmdIp` and `ServerReturns` promise nothing once a
deletion from the lease file has failed (`DeletesWork`), and cannot: a client is
refused, its row stays (`main.go:501` only logs), its address goes to the next
client, which is stored under it too, and from the next stop on `setup4` cannot
allocate both rows (`:183`, `:202`). It takes two clients, a failure and a stop.
`bootloop_refused` shows it as the violation of what the example says of the file.
In `chain_live` no operation fails, but its two clients do hand an address from one
to the other around a stop: left without its deletion, the program violates
`ServerReturns` there. Leases that cannot be *saved* are harmless: `chain_safe` has
one, and `RestartAlwaysAccepted` (section 5) is for any number.

Four runs end in a violation on purpose: a document says one thing, the code
does another.

| run | document | code |
|---|---|---|
| `chain_bmc` | unknown nodes and BMCs have a short address (`README.md:55`) | a client that is not iPXE never gets past its REQUEST |
| `coresmd_family` | DHCPv4 uses IPv4 addresses if there are both (`examples/coredhcp/README.md:80`) | `Handler4` takes the first address; an IPv6 one becomes none |
| `startup_dual` | coresmd may be in server4 and server6 (`examples/coredhcp/README.md:71`), with port 69 in both (`coredhcp.yaml:196`, `:377`) | the second TFTP server finds the port taken and ends the process |
| `bootloop_refused` | an existing lease file is overwritten (`examples/coredhcp/coredhcp.yaml:272`) | `setup4` loads it; after one failed deletion it can have one address for two clients, and every later start is refused |

More of the kind that no run repeats:

* `plugin/coredns/README.md:136` says that ready means populated, but an error
  document of SMD empties the components of a cache that stays ready.
* A comment at `internal/rule/rule.go:692` says that only IPv4 masks are applied
  implicitly; `ParseRule` (`:434`) has taken the mask of the first subnet, of any
  family.
* `plugin/coredns/README.md` shows a PTR answer made by the zone's pattern; the
  name given is the component's ID.
* `Handler4` and `Handler6` answer with the configuration of the setup that ran
  last, whichever server a packet came to; `examples/coredhcp/coredhcp.yaml`
  configures them apart.
* `examples/coredhcp/coredhcp.yaml:113` says that `ca_cert` can be omitted, but both
  setups read its file whatever it is, and with the name "" are refused
  (`plugin/coredhcp/coresmd/main.go:172`).
* `Handler6` puts the server's DUID into the TFTP URL where an address is meant
  (`plugin/coredhcp/coresmd/main.go:626`).
* Leases which `README.md:45` calls temporary are kept for ever, as their expiry is
  never read.

**Bounds.** Every counter that limits a model is a constant `Max...`; only the
environment is limited (stops, failures, losses, resets, changes of SMD), never
an operation of the program. Collisions need two clients and one address; the
third client of `bootloop_faults` holds the address a stale row names while two
others meet. Two stops and two failures let a stale row survive a start and a
second one meet it. The two passing runs of the chain have two clients, and `m1`
may give up a lease that `m2` then gets. In `chain_live` the packets that get
lost are those inside the server when it stops; losses on the wire and resets of
clients are in `chain_safe` alone, since with them the liveness check does not
end in minutes. SMD comes to know `m1` once, at any moment. A pool of one
address is exhausted at once, a pool of two leaves a choice. One node is enough
for the cache: nodes never interact, and a second one only multiplies states;
two readers show that they do not exclude each other and that one may enter
while another is inside. Clients are interchangeable in `bootloop_faults`, which
alone uses symmetry and has no temporal property. In `coresmd_rules` three rules
are one to set an option, one to override it and one to stop in between, and two
addresses of a list are one to be chosen and one to be passed over. In
`dns_lookup` two interfaces of one node differ in the families they have, an
address is on a node and on a BMC, and two zones of one name shadow each other;
stanzas have a zone with a pattern, one without, and braces on lines of their
own. In `startup_boot` each word comes after a complete configuration, or within
an open comment; deployments of three setups are the longest the two servers can
have here. Deadlock is not checked in `coresmd_*`, `dns_*` and `startup_*`: the
handler returns, a stanza is refused, a process ends.

**Fairness.** `Bootloop`: a supervisor restarts the process (the containers are
deployed that way) and a call that has the mutex runs on: weak fairness of
`Setup` and `Progress`. `DhcpChain`: goroutines run and `sync.Mutex` starves no
waiter, hence strong fairness of `Bootloop4(m)`, whose guard other clients
disable now and then; a client without an address keeps asking, and lease times
pass; nobody needs to renew or to reboot. `SmdCache`: the ticker fires, readers
return, and every GET ends; the last is an assumption, since the body of an
answer is read without a deadline. `Dns`: the
stanza is read, the plugin started, its ticker ticks and queries are served; a
resolver takes its answer, but need not ask. `Startup`: setups run, tickers tick,
the goroutines of the TFTP servers are scheduled, and a client that can go on does
so, being reset when it is up. All of these are weak; a refresh that succeeds is
not assumed, only that faults are `MaxFaults` at most.

## 5. Proofs

For any clients, addresses, pools, configurations, nodes, readers, zones and
deployments and any bounds; the assumptions are those the modules name: sentinels
are no addresses or clients, a pool's range lies in its subnet (`AddPool` checks
it), the legacy pool is alone (`validate` checks it), a component's own name is no
other's, the words of a configuration are a finite sequence, of which those that
stand for values are what their kind of value can be (`ParseAssumption`: nothing is
assumed of what the parsers make of them).

All safety properties of the runs that pass are proved.

* `BootloopProofs`: `TypeCorrect`; `LeasesUnique`. Uniqueness is not inductive:
  `InstallLease` gives out `op.ip` because nobody held it when it was allocated.
  `LeaseInv` adds that a server that is down has an empty table, that the call
  that refuses a client still holds that client's address (`RefusedIsLeased`),
  and, if the ranges are disjoint, that every served lease is marked in its pool
  (`LeasesMarked`) and that an address about to be handed out is marked and held
  by nobody (`TakenIsFree`). The last two need disjointness because the pool of
  an address is otherwise not determined. `Setup` establishes them
  (`SetupLeases`) from the check that allocation returned the leased address.
* `BootloopFileProofs`: `FileAlwaysMatches` and `BitmapsAlwaysMatch`. `FileInv`
  says that the call that grants a lease is for a client without one
  (`NewHasNone`); as long as no deletion has failed, that a client has one row at
  most (`OneRow`) and no row is other than a lease of the table or the one in hand
  (`NoStaleRow`); and as long as nothing has failed, that every lease has its row
  (`FileFollows`). For the bitmaps, the inductive invariant is the
  property itself together with that of the leases, for disjoint subnets. `ServiceImplemented` is the refinement of `LeaseService`,
  one lemma per step (`StepImplements`), for a file that works and disjoint
  ranges. `RestartAlwaysAccepted` is for one configuration of disjoint subnets, and
  holds however many leases could not be saved: `RestartInv` says that, unless a
  deletion failed, every row's address is one of the pools' and no other row's, so
  that the next `Setup` can allocate them all again, wherever the last process was
  stopped. A new row keeps that, since nobody in the table has its address
  (`TakenIsFree`) and no row is stale. The condition is needed: `bootloop_refused`.
* `ChainProofs`: `ChainTypeCorrect`; `ChainRunsBootloop`, that every step of the
  chain is a step of `Bootloop` or leaves its variables alone, so that the
  theorems above hold of the chain as well; and `ScriptAlwaysOnLease`, while the
  file works. Only a packet that is not iPXE's can take a lease away. `BootInv`
  says that none is left, on the wire, waiting or being handled, when a client
  that is told its address is iPXE's (`Harmless`), that a client which trusts an
  address has it in the table or finds the server down (`Keeps`), and that an
  answer under way says what the table says (`Settled`).
* `SmdCacheProofs`: `CacheTypeCorrect`, `NoPhantomCorrect`, and
  `NoSpuriousMissCorrect`, which lets off only a cache filled from an error
  document. `ReadInv` states that the writer is inside only while all readers are
  idle, that what a reader has found is still in the maps, and which of the two
  maps come from the running refresh at each program counter; `LastingNext`
  carries what lasted through both fetched bodies. `CacheServiceImplemented` is the
  refinement of `CacheService`: `SetEi` is `Replace`, the read that decides a lookup
  is `Answer`, and every other step is one of the reader's or a stutter
  (`RefreshMaps`, `ReaderMaps`). It needs that nobody reads while the writer is
  inside, and that what a reader found in the first map is what the service has.
* `CoresmdProofs`: `RulesFollowed`. `WalkInv` states after each rule that the
  answer is that of the rules dealt with that count (`AnswerSoFar`), and that, if
  a rule is still to come, none before it has stopped the walk (`NotStopped`);
  the latter makes a matching rule count, and one that stops the last to count
  (`PastApply`). `AcceptedRule` shows that the implicit mask `Evaluate4` looks for
  is one `ParseRule` has already left in the rule. `TypeCorrect` and
  `RelayConfinedCorrect` need what the lookup leaves behind (`ListInv`): a list that
  is not empty while rules are walked, and whose addresses all lie in a subnet the
  relay is in, if the configuration names one. `KeptMembers` shows of the recursive
  filter `Kept` that it keeps those members and no others. If no other subnet
  shares an address with the relay's, the subnet the lookup found is that one, and
  a rule that matches the first address of the list by a subnet names it.
* `DnsProofs`: `DnsTypeCorrect`, `ForwardAlwaysExact`, `ReverseAlwaysConfirmed`. The
  lookups take the first zone, loop and address that will do; `LeastElement` gives
  such a first one. `DnsInv` adds to the types what reading leaves (`ReadInv`), that
  the stages of the plugin and of the conversation fit (`StageInv`), and, for
  reverse names, that what is being confirmed is what was answered in this cache
  (`TrailInv`). `ZonesAlwaysAsWritten` rests on what holds at every word
  (`ZonesInv`, `ReadUpTo`): the zones read so far stand at increasing places before
  the cursor, the open one at a distance behind it that `seenNodes` tells, and every
  zone on a line of its own up to the cursor is among them. If the braces match, a
  closing brace at the cursor is either that of the open zone (`ZoneClosed`), or
  the last word, since the zone it would close has been closed already (`EndIsEnd`).
  `SettingsAlwaysAsWritten` carries along what the words up to the cursor say of each
  setting (`Says`), and uses the same end. `AlwaysJudgedAsWritten` keeps two facts
  from turn to turn (`JudgeInv`): the heads read so far divide the stanza up to the
  cursor, so that what is accepted is divided to its end; and every division of the
  whole stanza goes on at the cursor, with the URL set exactly if it has named SMD
  before, so that at a word which is refused (`RefusedRightly`) there is none.
* `StartupProofs`: `StartTypeCorrect`, `HandlersAlwaysConfigured`. `StartInv` keeps
  `Configured` from the first handler on, through setups that replace the globals
  again or fail half-way: a setup that fails after its assignment has ended the
  process. `ConfigReadAsWritten` compares the parsers, which go through the words
  with a flag for comments and overwrite what they have, with the last good word
  outside comments. `InCommentIsOpen` says which words are in a comment without a
  flag, `ConfigWritten` and its counterpart for bootloop carry the comparison from
  word to word. `RulesLimited` does it for the rules: a text that parses gives a rule
  with each limit it names, and a text that does not gives none.
* `Induction` is what these share. The library's induction takes a predicate, which
  the provers cannot supply, so it is stated here of sets: a set with zero that is
  closed under successors is all of `Nat` (`SetInduction`, from the least number
  not in it), or an interval (`IntervalInduction`). A recursive function such as
  `ParseConfig` is a `CHOOSE`, of which nothing is known before there is a function
  with its equation. `FiniteRecursion` gives one on an interval, for a step that is
  a function of the value so far and the index (`Steps`), in a closed set of values;
  `RunTyped` keeps what is chosen in that set.

Only model-checked: liveness (`RefreshNotStarved`, `EventuallyFresh`,
`IpxeGetsAddress`, `KnownMovesToSmdIp`, `ServerReturns`, `NameComesBack`,
`ClientsServed`), since the prover has no `ENABLED`, so that
fairness cannot be used in a proof. `LeaseUnique` and `BitmapsMatchTable` say nothing
of pools whose ranges, or subnets, overlap: two pools may then give out one address,
and an address may go back to the other bitmap.

## 6. Not modelled

Logging, versions, metrics and the wording of errors; TLS; the packets of a TFTP
transfer; the characters of quotes, escapes, comma lists and host name patterns,
of which only the result is kept (parsed, bad or empty); sets of IDs, which
`CompileIDSet` does not implement yet, so that no rule can have one; root path and
lease time; the text of a pool and the library that allocates in it, beyond which
addresses it may give. `Ready` compares the age of the cache with five
minutes, whatever its duration: the models have no clock, so readiness is left
out. Of routers, the ones
a subnet could have are left out, as nothing sets them. The refresh loops that
reloads of CoreDNS leave behind only read SMD. SQLite's own durability is trusted:
a write that returns without error is in the file after a stop.
