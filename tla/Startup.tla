------------------------------ MODULE Startup -------------------------------
(***************************************************************************)
(* The CoreDHCP process from its configuration file to the nodes that boot:*)
(* the setups of the plugins run one after the other, those of server6     *)
(* before those of server4; each setup of coresmd replaces the variables   *)
(* of the package (globalConfig, smdCache), starts a refresh loop and a    *)
(* TFTP server of its own, and whatever ends one of them in the wrong way  *)
(* ends the process.  Clients boot in stages meanwhile: a PXE ROM is named *)
(* a bootloader and fetches it over TFTP, the iPXE so started is named a   *)
(* boot script; a client SMD does not know gets bootloop's script.         *)
(*                                                                         *)
(* A DHCP exchange is one step here; modules DhcpChain, Bootloop and       *)
(* Coresmd have its steps, module SmdCache those of a refresh.             *)
(***************************************************************************)
EXTENDS PluginConfig

CONSTANTS
  Deployments, \* sequences of setups [plugin, proto, args], in the order they run
  Readable,    \* certificates that can be read
  Client,      \* records of proto (4 or 6), firmware ("rom" or "ipxe"), arch, and
               \* known (SMD has an interface and a component for it)
  BootFile,    \* BootFile[arch]: the bootloader for an architecture
  Served,      \* Served[dir]: the files of a TFTP directory
  NoFile,
  MaxSetups,   \* bound: setups of a deployment
  MaxFaults    \* bound: refreshes, lease files and transfers that fail

ASSUME StartupAssumption ==
  /\ {MaxSetups, MaxFaults} \subseteq Nat
  /\ \A d \in Deployments : Len(d) <= MaxSetups
  /\ IsPort(DefaultPort) /\ DefaultPort # 0
  /\ DefaultValid \in Nat \ {0} /\ DefaultLease \in Nat \ {0}
  /\ \A x \in {Unset, Bad, Empty} :
       /\ x \notin Nat
       /\ x \notin {DefaultDir, DefaultLog, DefaultScript, DefaultBootLease}
  /\ Unset \notin Readable \cup {Bad, Empty} /\ {Bad, Empty} \cap BOOLEAN = {}

Setups == UNION {{d[i] : i \in DOMAIN d} : d \in Deployments}

\* A word whose key wants a value that parses has one, or a Bad one; a key that
\* takes any text has one, or an Empty one.
WellRead(a) ==
  /\ a.key \in {"svc_base_uri", "ipxe_base_uri", "cache_valid", "lease_time", "single_port",
                "rule_log", "ipv4_start", "ipv4_end"} => a.val # Empty
  /\ a.key \in {"ca_cert", "tftp_dir", "domain", "lease_file", "script_path"} => a.val # Bad

ASSUME ParseAssumption ==
  /\ \A d \in Deployments : d \in Seq(Setups)
  /\ \A s \in Setups :
       /\ s.plugin \in {"coresmd", "bootloop"} /\ s.proto \in {4, 6}
       /\ DOMAIN s.args = 1..Len(s.args) /\ Len(s.args) \in Nat
       /\ \A i \in DOMAIN s.args : WellRead(s.args[i])

VARIABLES
  todo,         \* setups that have not run
  process,      \* "starting", "serving", "refused" by a setup, or "exited"
  globalConfig, \* of coresmd
  smdCache,     \* of coresmd: which of the caches its handlers look into
  caches,       \* the caches made, each with a refresh loop: filled or not
  servers,      \* the TFTP servers started: [port, dir, up]
  bootConfig,   \* globalConfig of bootloop
  handlers,     \* handlers installed: <<plugin, proto>>
  stage,        \* stage[c]: "off", "fetching", "ipxe", "booted", "rebooting"
  file,         \* file[c]: what it fetches over TFTP
  faults

setupVars  == <<todo, globalConfig, smdCache, bootConfig, handlers>>
clientVars == <<stage, file>>
startVars  == <<setupVars, process, caches, servers, clientVars, faults>>

StartInit ==
  /\ todo \in Deployments
  /\ process = "starting"
  /\ globalConfig = NoConfig
  /\ smdCache = 0
  /\ caches = <<>>
  /\ servers = <<>>
  /\ bootConfig = NoBootConfig
  /\ handlers = {}
  /\ stage = [c \in Client |-> "off"]
  /\ file = [c \in Client |-> NoFile]
  /\ faults = 0

Fault == faults < MaxFaults /\ faults' = faults + 1
Succeeds == UNCHANGED faults

-----------------------------------------------------------------------------
(* Setups *)

Current == Head(todo)
Stop(how) == process' = how

\* setup4 and setup6 of coresmd, once the configuration is accepted: the first
\* refresh may fail, and a duration that is not positive panics the ticker.
RunCoresmd(cfg) ==
  /\ globalConfig' = cfg
  /\ IF cfg.ca_cert \notin Readable
     THEN /\ Stop("refused")
          /\ UNCHANGED <<todo, smdCache, caches, servers, handlers, faults>>
     ELSE /\ \/ caches' = Append(caches, TRUE) /\ Succeeds
             \/ caches' = Append(caches, FALSE) /\ Fault
          /\ smdCache' = Len(caches) + 1
          /\ IF cfg.cache_valid <= 0
             THEN Stop("exited") /\ UNCHANGED <<todo, servers, handlers>>
             ELSE /\ servers' = Append(servers, [port |-> cfg.tftp_port, dir |-> cfg.tftp_dir,
                                                 up |-> FALSE])
                  /\ handlers' = handlers \cup {<<"coresmd", Current.proto>>}
                  /\ todo' = Tail(todo)
                  /\ UNCHANGED process

\* Slip for SetupCoresmd: the configuration is made global before validate fills
\* in the defaults.
SetupCoresmdEarly ==
  /\ Current.plugin = "coresmd"
  /\ LET cfg == ParseConfig(Current.args) IN
     IF Complete(cfg)
     THEN RunCoresmd([cfg EXCEPT !.cache_valid = Or(@, DefaultValid)])
     ELSE /\ Stop("refused")
          /\ UNCHANGED <<todo, globalConfig, smdCache, caches, servers, handlers, faults>>
  /\ UNCHANGED bootConfig

SetupCoresmd ==
  /\ Current.plugin = "coresmd"
  /\ LET cfg == ParseConfig(Current.args) IN
     IF Complete(cfg)
     THEN RunCoresmd(WithDefaults(cfg))
     ELSE /\ Stop("refused")
          /\ UNCHANGED <<todo, globalConfig, smdCache, caches, servers, handlers, faults>>
  /\ UNCHANGED bootConfig

\* setup6 of bootloop always refuses; setup4 makes the pools of the subnets and
\* takes the leases of the file into them (module Bootloop), which may fail.
SetupBootloop ==
  /\ Current.plugin = "bootloop"
  /\ LET cfg == ParseBootConfig(Current.args) IN
     IF Current.proto = 4 /\ BootComplete(cfg)
     THEN /\ bootConfig' = WithBootDefaults(cfg)
          /\ \/ /\ \A c \in DOMAIN cfg.pools : cfg.pools[c].start <= cfg.pools[c].end
                /\ handlers' = handlers \cup {<<"bootloop", 4>>}
                /\ todo' = Tail(todo)
                /\ UNCHANGED process /\ Succeeds
             \/ Stop("refused") /\ UNCHANGED <<todo, handlers>> /\ Fault
             \/ /\ \E c \in DOMAIN cfg.pools : cfg.pools[c].start > cfg.pools[c].end
                /\ Stop("refused") /\ UNCHANGED <<todo, handlers>> /\ Succeeds
     ELSE Stop("refused") /\ UNCHANGED <<todo, handlers, bootConfig, faults>>
  /\ UNCHANGED <<globalConfig, smdCache, caches, servers>>

Setup ==
  /\ process = "starting" /\ todo # <<>>
  /\ SetupCoresmd \/ SetupBootloop
  /\ UNCHANGED clientVars

\* The servers listen once every setup has run.
Serve ==
  /\ process = "starting" /\ todo = <<>>
  /\ Stop("serving")
  /\ UNCHANGED <<setupVars, caches, servers, clientVars, faults>>

-----------------------------------------------------------------------------
(* Goroutines of the setups *)

Alive == process \in {"starting", "serving"}

\* Slip for Tick: a loop whose first refresh failed makes no other.
TickOnlyFilled(k) ==
  /\ Alive /\ caches[k]
  /\ Succeeds
  /\ UNCHANGED <<setupVars, process, caches, servers, clientVars>>

\* A tick of the refresh loop of cache k.
Tick(k) ==
  /\ Alive
  /\ \/ caches' = [caches EXCEPT ![k] = TRUE] /\ Succeeds
     \/ UNCHANGED caches /\ Fault
  /\ UNCHANGED <<setupVars, process, servers, clientVars>>

\* TftpServer.Start: the port is free, or the process ends with a fatal error.
Listen(k) ==
  /\ Alive /\ ~servers[k].up
  /\ IF \E j \in DOMAIN servers : servers[j].up /\ servers[j].port = servers[k].port
     THEN Stop("exited") /\ UNCHANGED servers
     ELSE servers' = [servers EXCEPT ![k].up = TRUE] /\ UNCHANGED process
  /\ UNCHANGED <<setupVars, caches, clientVars, faults>>

-----------------------------------------------------------------------------
(* Clients *)

\* coresmd finds the client in the cache its handlers look into.
Found(c) == <<"coresmd", c.proto>> \in handlers /\ c.known /\ caches[smdCache]

Goes(c, to) == stage' = [stage EXCEPT ![c] = to]

\* The firmware a client boots with, or the one it has fetched.
RunsIpxe(c) == stage[c] = "ipxe" \/ (stage[c] = "off" /\ c.firmware = "ipxe")

\* A bootloader by TFTP for a ROM, by its architecture; over DHCPv6 the name of
\* the server in the URL is its DUID, and nothing can be fetched.
NameBootloader(c) ==
  /\ Found(c) /\ stage[c] = "off" /\ c.firmware = "rom"
  /\ c.proto = 4 /\ c.arch \in DOMAIN BootFile
  /\ Goes(c, "fetching")
  /\ file' = [file EXCEPT ![c] = BootFile[c.arch]]

\* The URL of its boot script for iPXE.
NameBootScript(c) ==
  /\ Found(c) /\ RunsIpxe(c)
  /\ Goes(c, "booted")
  /\ UNCHANGED file

\* bootloop names its script, a file on the TFTP server, to iPXE only.
NameScript(c) ==
  /\ ~Found(c) /\ RunsIpxe(c)
  /\ c.proto = 4 /\ <<"bootloop", 4>> \in handlers
  /\ Goes(c, "fetching")
  /\ file' = [file EXCEPT ![c] = bootConfig.script_path]

Exchange(c) ==
  /\ process = "serving"
  /\ NameBootloader(c) \/ NameBootScript(c) \/ NameScript(c)
  /\ UNCHANGED <<setupVars, process, caches, servers, faults>>

\* What a running TFTP server has under a name: the script that reboots, which is
\* built in, or a file of its directory.
Sends(f) ==
  \E k \in DOMAIN servers :
    /\ servers[k].up /\ servers[k].port = 69
    /\ f = DefaultScript \/ f \in Served[servers[k].dir]

\* The client asks the port of TFTP, the only one a DHCPv4 answer can mean, and
\* starts over when it gets nothing or the transfer breaks off.
Fetch(c) ==
  /\ process = "serving" /\ stage[c] = "fetching"
  /\ \/ /\ Sends(file[c])
        /\ Goes(c, IF file[c] \in {BootFile[a] : a \in DOMAIN BootFile} THEN "ipxe"
                   ELSE "rebooting")
        /\ Succeeds
     \/ ~Sends(file[c]) /\ Goes(c, "off") /\ Succeeds
     \/ Goes(c, "off") /\ Fault
  /\ file' = [file EXCEPT ![c] = NoFile]
  /\ UNCHANGED <<setupVars, process, caches, servers>>

\* iPXE gives up when nobody names a script; a system or a script ends in a reset.
Reset(c) ==
  /\ \/ stage[c] \in {"booted", "rebooting"}
     \/ stage[c] = "ipxe" /\ ~Found(c) /\ <<"bootloop", c.proto>> \notin handlers
  /\ Goes(c, "off")
  /\ UNCHANGED <<setupVars, process, caches, servers, file, faults>>

StartNext ==
  \/ Setup \/ Serve
  \/ \E k \in DOMAIN caches : Tick(k)
  \/ \E k \in DOMAIN servers : Listen(k)
  \/ \E c \in Client : Exchange(c) \/ Fetch(c) \/ Reset(c)

StartSpec == StartInit /\ [][StartNext]_startVars

\* Setups run, goroutines are scheduled and tickers tick; a client whose exchange or
\* transfer can go on goes on, and one that is up or has given up is reset again.
StartFairness ==
  /\ WF_startVars(Setup) /\ WF_startVars(Serve)
  /\ \A k \in 1..MaxSetups : WF_startVars(k \in DOMAIN caches /\ Tick(k))
  /\ \A k \in 1..MaxSetups : WF_startVars(k \in DOMAIN servers /\ Listen(k))
  /\ \A c \in Client : WF_startVars(Exchange(c) \/ Fetch(c) \/ Reset(c))

FairStartSpec == StartSpec /\ StartFairness

-----------------------------------------------------------------------------
(***************************************************************************)
(* Properties                                                              *)
(***************************************************************************)

\* Type correctness; settings are what they parse to, and what is started is
\* started with a port and a duration that can be used.
StartTypeOK ==
  /\ process \in {"starting", "serving", "refused", "exited"}
  /\ IsPort(globalConfig.tftp_port)
  /\ \A k \in DOMAIN NoConfig \ {"rules"} : globalConfig[k] \notin {Bad, Empty}
  /\ \A k \in DOMAIN NoBootConfig \ {"pools"} : bootConfig[k] \notin {Bad, Empty}
  /\ caches \in Seq(BOOLEAN) /\ smdCache \in 0..Len(caches)
  /\ \A k \in DOMAIN servers : IsPort(servers[k].port) /\ servers[k].port # 0 /\ servers[k].up \in BOOLEAN
  /\ handlers \subseteq {"coresmd", "bootloop"} \X {4, 6}
  /\ stage \in [Client -> {"off", "fetching", "ipxe", "booted", "rebooting"}]
  /\ faults \in 0..MaxFaults

\* The words an operator reads as settings: plain ones, with every comment that is
\* opened before them closed in between.
Plain(args) ==
  {i \in DOMAIN args :
     /\ args[i].mark = "none"
     /\ \A o \in 1..(i - 1) : Opens(args[o]) => \E e \in o..(i - 1) : Closes(args[e])}

\* What the last of them that has a good value for a key says.
Says(args, key, default) ==
  LET good == {i \in Plain(args) : args[i].key = key /\ args[i].val \notin {Bad, Empty}}
  IN  IF good = {} THEN default
      ELSE args[CHOOSE i \in good : \A j \in good : j <= i].val

\* A setting has the value of the last good word for it outside comments, whatever
\* comments, bad values and unknown words stand around it (parseConfig of both
\* plugins): a comment swallows nothing but what is in it.
ConfigAsWritten ==
  todo # <<>> =>
    LET args == Current.args IN
    /\ Current.plugin = "coresmd" =>
         LET cfg == ParseConfig(args) IN
         \A key \in DOMAIN cfg \ {"tftp_port", "rules"} :
           cfg[key] = Says(args, key, NoConfig[key])
    /\ Current.plugin = "bootloop" =>
         LET cfg == ParseBootConfig(args) IN
         \A key \in {"lease_file", "lease_time", "ipv4_start", "ipv4_end"} :
           cfg[key] = Says(args, key, Unset)

\* A rule in force applies to no more than its text says: each limit written in it
\* (type, subnet, id) is in the rule, so that a mistake in one refuses the rule and
\* never turns it into one for every node (ParseRule, parseConfig).
RulesKeepTheirLimits ==
  todo # <<>> /\ Current.plugin = "coresmd" =>
    LET args   == Current.args
        texts  == {args[i].val : i \in {j \in Plain(args) : args[j].key = "rule"}}
        pats   == {TypeRule(PatternType(args[i].key), args[i].val) :
                     i \in {j \in Plain(args) : args[j].key \in {"node_pattern", "bmc_pattern"}}}
        Limit(t, key) == {t[i].val : i \in {j \in DOMAIN t : t[j].key = key}} \ {Empty}
    IN  \A i \in DOMAIN ParseConfig(args).rules :
          LET r == ParseConfig(args).rules[i] IN
          \E t \in texts \cup pats :
            /\ Limit(t, "type") \subseteq {r.types}
            /\ Limit(t, "subnet") \subseteq {r.subnets}
            /\ Limit(t, "id") \subseteq {r.id}

\* When the process serves, its handlers find all they use: nothing they follow
\* without looking is unset (Handler6 takes lease_time for granted, both take
\* ipxe_base_uri and the cache), every rule has a level to log at, and every TFTP
\* server has a directory.
HandlersConfigured ==
  process = "serving" =>
    /\ (\E proto \in {4, 6} : <<"coresmd", proto>> \in handlers) =>
         /\ smdCache \in DOMAIN caches
         /\ \A k \in DOMAIN NoConfig \ {"domain", "single_port", "rules"} :
              globalConfig[k] # Unset
         /\ \A i \in DOMAIN globalConfig.rules : globalConfig.rules[i].log # Unset
         /\ Len(servers) = Len(caches)
         /\ \A k \in DOMAIN servers : servers[k].dir # Unset
    /\ <<"bootloop", 4>> \in handlers =>
         /\ BootComplete(bootConfig)
         /\ Unset \notin {bootConfig.script_path, bootConfig.lease_time}

\* What a client's boot needs besides the process: a handler for its protocol, and
\* its file on a TFTP server at the port of TFTP.
Bootable(c) ==
  /\ c.known /\ <<"coresmd", c.proto>> \in handlers
  /\ c.firmware = "rom" => c.proto = 4 /\ c.arch \in DOMAIN BootFile /\ Sends(BootFile[c.arch])

Discoverable(c) ==
  /\ ~c.known /\ <<"bootloop", c.proto>> \in handlers
  /\ c.firmware = "ipxe" /\ Sends(bootConfig.script_path)

\* As long as the process serves, a node SMD knows boots again and again, and one
\* it does not know gets bootloop's script again and again, whatever setups ran
\* and whichever refresh failed, the first included (setup4, setup6, RefreshLoop,
\* Start, readHandler).
ClientsServed ==
  \A c \in Client :
    /\ <>[](process = "serving" /\ Bootable(c)) => []<>(stage[c] = "booted")
    /\ <>[](process = "serving" /\ Discoverable(c)) => []<>(stage[c] = "rebooting")

-----------------------------------------------------------------------------
(***************************************************************************)
(* A claim of the documentation the code departs from                      *)
(***************************************************************************)

\* examples/coredhcp/README.md: "The coresmd plugin supports both DHCPv4 (via
\* server4) and DHCPv6 (via server6)"; the example configures both for port 69.
\* No deployment that is accepted ends by itself.
DualStackStays == process # "exited"
=============================================================================
