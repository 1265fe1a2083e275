-------------------------------- MODULE Dns ---------------------------------
(***************************************************************************)
(* The CoreDNS plugin: it reads its stanza (module Corefile), fills its    *)
(* cache of SMD, and answers A, AAAA and PTR queries from it               *)
(* (plugin/coredns/handler.go, setup.go).  What it cannot answer it passes *)
(* to the next plugin.  A resolver asks for names and addresses, and       *)
(* confirms the name of an address by asking for the addresses of the name.*)
(*                                                                         *)
(* A lookup holds the read lock of the cache and is one step; so is a      *)
(* refresh (module SmdCache has its steps).  The loops over the interfaces *)
(* are over a Go map: where the result depends on the order, any is        *)
(* possible.  Host names have no dots, so among the zones a name ends in   *)
(* only the one it is in can match.                                        *)
(***************************************************************************)
EXTENDS Corefile

CONSTANTS
  Mac, Comp,
  Type,        \* Type[c]: "Node", "NodeBMC" or another type of component
  V4, V6,      \* addresses of the two families
  Garbled,     \* what SMD stores as an address and does not parse
  Host,        \* Host[p][c]: the name pattern p makes of the NID and ID of c, for
               \* the patterns that stanzas use
  DefaultZone, \* cluster.local, with pattern nid{04d}
  Startable,   \* words for which OnStartup succeeds: URLs that parse,
               \* certificates that can be read, positive durations
  Inventories, \* what SMD may hold: [ei, comps]
  NoAddr, NoEi,
  MaxChanges,  \* bound: changes to SMD
  MaxFaults,   \* bound: refreshes and responses that fail
  MaxReloads   \* bound: reloads of CoreDNS

Addr == V4 \cup V6
Pattern == DOMAIN Host

\* A component's own name is its ID, and no pattern makes a name that is the ID
\* of another component.
ASSUME DnsAssumption ==
  /\ V4 \cap V6 = {} /\ NoAddr \notin Addr
  /\ \A p \in Pattern, c, d \in Comp : Host[p][c] = d => c = d
  /\ Unset \notin Pattern /\ DefaultZone.pattern \in Pattern
  /\ \A inv \in Inventories :
       /\ inv.comps \subseteq Comp
       /\ \A m \in Mac : inv.ei[m] # NoEi =>
            inv.ei[m].comp \in Comp /\ inv.ei[m].addrs \in Seq(Addr \cup {Garbled})
  /\ {MaxChanges, MaxFaults, MaxReloads} \subseteq Nat

ASSUME StanzaAssumption ==
  \A s \in Stanzas :
    /\ Len(s) \in Nat /\ DOMAIN s = 1..Len(s)
    /\ \A i \in 1..(Len(s) - 1) :
         s[i].word = "nodes" /\ s[i + 1].line = s[i].line => s[i + 1].word \in Pattern

VARIABLES
  stage,       \* "off", "serving", "failed"
  smd,         \* SMD's inventory
  cache,       \* the plugin's copy
  query,       \* what the resolver has asked
  answer,      \* what it got
  reversed,    \* the address whose name it is confirming
  undisturbed, \* history: the cache is that of the last PTR answer
  changes, faults, reloads

resolverVars == <<query, answer, reversed>>
counters == <<changes, faults, reloads>>
dnsVars == <<corefileVars, stage, smd, cache, resolverVars, undisturbed, counters>>

Empty    == [ei |-> [m \in Mac |-> NoEi], comps |-> {}]
NoName   == [host |-> Unset, zone |-> Unset]
NoQuery  == [type |-> "none", addr |-> NoAddr, name |-> NoName]
NoAnswer == [kind |-> "none", addr |-> NoAddr, name |-> NoName]

-----------------------------------------------------------------------------
(* The lookups, in an inventory and for a list of zones *)

Family(type) == IF type = "A" THEN V4 ELSE V6

\* The interfaces whose component is in the inventory, and their addresses.
Usable(inv) == {m \in Mac : inv.ei[m] # NoEi /\ inv.ei[m].comp \in inv.comps}
Holds(inv, m, a) == \E k \in DOMAIN inv.ei[m].addrs : inv.ei[m].addrs[k] = a

\* Slip for FirstOf: the first address, of whatever family.
FirstOfAny(inv, m, fam) == {inv.ei[m].addrs[k] : k \in DOMAIN inv.ei[m].addrs \cap {1}}

\* The first address of a family on an interface, if it has one.
FirstOf(inv, m, fam) ==
  {inv.ei[m].addrs[k] : k \in
     {k \in DOMAIN inv.ei[m].addrs :
        /\ inv.ei[m].addrs[k] \in fam
        /\ \A j \in 1..(k - 1) : inv.ei[m].addrs[j] \notin fam}}

\* A component of type t bears a name in zone z: by its ID, and a node also by
\* what the zone's pattern makes of it.
Bears(c, t, name, z) ==
  /\ Type[c] = t
  /\ name.zone = z.name
  /\ \/ name.host = c
     \/ t = "Node" /\ z.pattern # Unset /\ name.host = Host[z.pattern][c]

\* Interfaces a loop of lookupA or lookupAAAA returns an address from.
Hits(inv, fam, name, z, t) ==
  {m \in Usable(inv) : Bears(inv.ei[m].comp, t, name, z) /\ FirstOf(inv, m, fam) # {}}

Loops(zones) == (1..Len(zones)) \X {"Node", "NodeBMC"}
Before(p, q) == p[1] < q[1] \/ (p[1] = q[1] /\ p[2] = "Node" /\ q[2] = "NodeBMC")

\* Slip for Lookup: the first interface of a component with the name decides,
\* and when it has no address of the family there is no answer.
LookupFirstInterface(inv, zones, fam, name) ==
  LET bearers == {m \in Usable(inv) : \E p \in Loops(zones) :
                     Bears(inv.ei[m].comp, p[2], name, zones[p[1]])}
  IN  IF \E m \in bearers : FirstOf(inv, m, fam) = {} THEN {}
      ELSE UNION {FirstOf(inv, m, fam) : m \in bearers}

\* lookupA, lookupAAAA: for each zone a loop over the interfaces of nodes, then
\* one over those of BMCs; the first loop that finds an address ends the lookup.
Lookup(inv, zones, fam, name) ==
  LET hits(p) == Hits(inv, fam, name, zones[p[1]], p[2])
      first   == {p \in Loops(zones) : \A q \in Loops(zones) : Before(q, p) => hits(q) = {}}
  IN  UNION {UNION {FirstOf(inv, m, fam) : m \in hits(p)} : p \in first}

\* Slip for Names: components of every type have a name.
NamesAny(c, z) == TRUE

\* lookupPTR names a component in a zone: a node only where the zone has a
\* pattern, although the name it gives is the ID.
Names(c, z) ==
  \/ Type[c] = "Node" /\ z.pattern # Unset
  \/ Type[c] = "NodeBMC"

LookupPTR(inv, zones, a) ==
  {[host |-> inv.ei[p[1]].comp, zone |-> zones[p[2]].name] : p \in
     {p \in Usable(inv) \X (1..Len(zones)) :
        /\ Holds(inv, p[1], a)
        /\ Names(inv.ei[p[1]].comp, zones[p[2]])
        /\ \A j \in 1..(p[2] - 1) : ~Names(inv.ei[p[1]].comp, zones[j])}}

-----------------------------------------------------------------------------
DnsInit ==
  /\ CorefileInit
  /\ stage = "off"
  /\ smd \in Inventories
  /\ cache = Empty
  /\ query = NoQuery /\ answer = NoAnswer /\ reversed = NoAddr
  /\ undisturbed = FALSE
  /\ changes = 0 /\ faults = 0 /\ reloads = 0

Read == ReadCorefile /\ UNCHANGED <<stage, smd, cache, resolverVars, undisturbed, counters>>

Fault == faults < MaxFaults /\ faults' = faults + 1

\* Discovery or an administrator changes SMD.
Changes ==
  /\ changes < MaxChanges /\ changes' = changes + 1
  /\ smd' \in Inventories \ {smd}

\* A cache with the interfaces of i and the components of j.
Copy(i, j) == [ei |-> i.ei, comps |-> j.comps]

\* What a cache may hold.
Held == {Copy(i, j) : i, j \in Inventories \cup {Empty}}

\* A refresh makes two GETs, and SMD may change between them.  It fails and leaves
\* the cache as it is, or takes an error document for a list of no components.
Copies(from) ==
  \/ cache' = Copy(smd, smd) /\ UNCHANGED <<smd, changes, faults>>
  \/ Changes /\ cache' = Copy(smd, smd') /\ UNCHANGED faults
  \/ Fault /\ cache' \in {from, Copy(smd, Empty)} /\ UNCHANGED <<smd, changes>>

\* OnStartup: client, certificate and cache are made from the configuration, the
\* cache is refreshed once, and without zones there is the default one.
OnStartup ==
  /\ reading = "done" /\ stage = "off"
  /\ IF {conf.smdURL, conf.caCert, conf.cacheDuration} \ {Unset} \subseteq Startable
     THEN /\ Copies(Empty)
          /\ stage' = "serving"
          /\ conf' = [conf EXCEPT !.zones = IF @ = <<>> THEN <<DefaultZone>> ELSE @]
     ELSE stage' = "failed" /\ UNCHANGED <<smd, cache, conf, changes, faults>>
  /\ UNCHANGED <<text, cursor, reading, zone, seenNodes>>
  /\ UNCHANGED <<resolverVars, undisturbed, reloads>>

SmdChanges ==
  /\ Changes
  /\ UNCHANGED <<corefileVars, stage, cache, resolverVars, undisturbed, faults, reloads>>

\* Slip for RefreshCache: when the first refresh fails, there is no other.
RefreshOnlyFilled ==
  /\ stage = "serving" /\ cache # Empty
  /\ Copies(cache)
  /\ undisturbed' = (undisturbed /\ cache' = cache)
  /\ UNCHANGED <<corefileVars, stage, resolverVars, reloads>>

\* A tick of RefreshLoop.
RefreshCache ==
  /\ stage = "serving"
  /\ Copies(cache)
  /\ undisturbed' = (undisturbed /\ cache' = cache)
  /\ UNCHANGED <<corefileVars, stage, resolverVars, reloads>>

\* CoreDNS reloads: the same stanza sets up a plugin with a cache of its own,
\* which takes over after its first refresh, failed or not.
Reload ==
  /\ stage = "serving"
  /\ reloads < MaxReloads /\ reloads' = reloads + 1
  /\ Copies(Empty)
  /\ undisturbed' = (undisturbed /\ cache' = cache)
  /\ UNCHANGED <<corefileVars, stage, resolverVars>>

-----------------------------------------------------------------------------
(* The resolver *)

Name == [host : Comp \cup {Host[p][c] : p \in Pattern, c \in Comp},
         zone : {conf.zones[i].name : i \in DOMAIN conf.zones}]

Queries ==
  [type : {"A", "AAAA"}, addr : {NoAddr}, name : Name]
    \cup [type : {"PTR"}, addr : Addr \cup {NoAddr}, name : {NoName}]
    \cup {[NoQuery EXCEPT !.type = "other"]}

\* The resolver asks: for the addresses of a name, the name of an address (NoAddr
\* is a reverse name that reverseToIP does not understand), or something else.
Ask(q) ==
  /\ stage = "serving"
  /\ query = NoQuery
  /\ query' = q
  /\ UNCHANGED <<corefileVars, stage, smd, cache, answer, reversed, undisturbed, counters>>

\* It asks for the addresses of the name it was given for an address.
Confirm ==
  /\ answer.kind = "name"
  /\ query' = [NoQuery EXCEPT !.type = IF query.addr \in V4 THEN "A" ELSE "AAAA",
                              !.name = answer.name]
  /\ reversed' = query.addr
  /\ answer' = NoAnswer
  /\ UNCHANGED <<corefileVars, stage, smd, cache, undisturbed, counters>>

\* It has its answer, or gave up waiting for it.
Conclude ==
  /\ answer # NoAnswer
  /\ query' = NoQuery /\ answer' = NoAnswer /\ reversed' = NoAddr
  /\ undisturbed' = FALSE
  /\ UNCHANGED <<corefileVars, stage, smd, cache, counters>>

\* A response is written, or cannot be.
Respond(r) ==
  \/ answer' = r /\ UNCHANGED faults
  \/ answer' = [NoAnswer EXCEPT !.kind = "failed"] /\ Fault

PassOn == answer' = [NoAnswer EXCEPT !.kind = "next"] /\ UNCHANGED faults

ServeForward ==
  /\ query.type \in {"A", "AAAA"}
  /\ LET found == Lookup(cache, conf.zones, Family(query.type), query.name) IN
     \/ \E a \in found : Respond([NoAnswer EXCEPT !.kind = "address", !.addr = a])
     \/ found = {} /\ PassOn
  /\ UNCHANGED undisturbed

ServeReverse ==
  /\ query.type = "PTR"
  /\ LET found == LookupPTR(cache, conf.zones, query.addr) IN
     \/ \E n \in found : Respond([NoAnswer EXCEPT !.kind = "name", !.name = n])
     \/ found = {} /\ PassOn
  /\ undisturbed' = TRUE

ServeOther == query.type = "other" /\ PassOn /\ UNCHANGED undisturbed

ServeDNS ==
  /\ query # NoQuery /\ answer = NoAnswer
  /\ ServeForward \/ ServeReverse \/ ServeOther
  /\ UNCHANGED <<corefileVars, stage, smd, cache, query, reversed, changes, reloads>>

DnsNext ==
  \/ Read \/ OnStartup \/ SmdChanges \/ RefreshCache \/ Reload
  \/ \E q \in Queries : Ask(q)
  \/ Confirm \/ Conclude \/ ServeDNS

DnsSpec == DnsInit /\ [][DnsNext]_dnsVars

\* The stanza is read and the plugin started; the ticker ticks and goroutines run.
\* A resolver takes its answer, but need not ask.
DnsFairness ==
  /\ WF_dnsVars(Read)
  /\ WF_dnsVars(OnStartup)
  /\ WF_dnsVars(RefreshCache)
  /\ WF_dnsVars(ServeDNS)
  /\ WF_dnsVars(Conclude)

FairDnsSpec == DnsSpec /\ DnsFairness

-----------------------------------------------------------------------------
(***************************************************************************)
(* Properties                                                              *)
(***************************************************************************)

\* Type correctness; a plugin that serves has at least one zone.
DnsTypeOK ==
  /\ reading \in {"block", "zone", "done", "refused"}
  /\ stage \in {"off", "serving", "failed"}
  /\ stage = "serving" => conf.zones # <<>>
  /\ smd \in Inventories /\ cache \in Held
  /\ query = NoQuery \/ query.type \in {"A", "AAAA", "PTR", "other"}
  /\ answer.kind \in {"none", "address", "name", "next", "failed"}
  /\ answer.kind = "address" => answer.addr \in Family(query.type)
  /\ reversed \in Addr \cup {NoAddr}
  /\ changes \in 0..MaxChanges /\ faults \in 0..MaxFaults /\ reloads \in 0..MaxReloads

\* The zones in force are those of the stanza, each with its own pattern, none
\* left out and none twice, or the default one if it has none (parse, parseZone
\* and OnStartup: both parsers move one cursor, and NextBlock does not see the
\* braces of zones).
ZonesAsWritten ==
  reading = "done" =>
    \/ AreWritten(conf.zones)
    \/ stage = "serving" /\ conf.zones = <<DefaultZone>> /\ AreWritten(<<>>)

\* The settings in force are what the last line for each says, wherever it stands
\* between the zones; without one there is the default or none, and SMD is named
\* (parse's switch and final validation, with parseZone between).
SettingsAsWritten ==
  reading = "done" /\ WellBraced =>
    /\ Says("smd_url", conf.smdURL, Len(text)) /\ conf.smdURL # Unset
    /\ Says("ca_cert", conf.caCert, Len(text))
    /\ \/ Says("cache_duration", conf.cacheDuration, Len(text))
       \/ conf.cacheDuration = DefaultDuration /\ Says("cache_duration", Unset, Len(text))

\* A stanza is accepted only if it is directives from its first word to its last,
\* with nothing left out and SMD named once, and refused only if it is not: the two
\* parsers never take a word of one directive, a missing argument or a brace for
\* another's (the errors of parse and parseZone).
JudgedAsWritten ==
  /\ reading = "done" /\ WellBraced => InForm
  /\ reading = "refused" => ~InForm

\* Addresses of a family that the interfaces of a component have.
AddressesOf(inv, c, fam) ==
  {a \in fam : \E m \in Usable(inv) : inv.ei[m].comp = c /\ Holds(inv, m, a)}

\* The components that bear a name in some zone.
BearersOf(zones, name) ==
  {c \in Comp : \E i \in DOMAIN zones, t \in {"Node", "NodeBMC"} :
                   Bears(c, t, name, zones[i])}

\* A name is passed to the next plugin only if no component that bears it has an
\* address of the family, and answered only with one of theirs: no zone, loop or
\* interface that is looked at first hides an address further on (lookupA and
\* lookupAAAA).  Said of the lookup in the cache of the moment, for every name.
ForwardExact ==
  query.type \in {"A", "AAAA"} =>
    LET fam   == Family(query.type)
        found == Lookup(cache, conf.zones, fam, query.name)
        all   == UNION {AddressesOf(cache, c, fam) : c \in BearersOf(conf.zones, query.name)}
    IN  found \subseteq all /\ (found = {} => all = {})

\* Forward-confirmed reverse DNS: the name given for an address leads back to an
\* address of the same family and component, and to the very address if the
\* component has no other, as long as the cache is the same (lookupPTR's choice of
\* zone and type against that of lookupA and lookupAAAA).
ReverseConfirmed ==
  reversed # NoAddr /\ undisturbed /\ answer.kind \notin {"none", "failed"} =>
    /\ answer.kind = "address"
    /\ \E c \in Comp :
         LET its == AddressesOf(cache, c, Family(query.type)) IN
         /\ {reversed, answer.addr} \subseteq its
         /\ its = {reversed} => answer.addr = reversed

\* Once SMD holds a name for good it is not passed on for ever: failed refreshes,
\* the first of an instance included, and reloads only delay it (OnStartup,
\* RefreshLoop, ServeDNS).
NameComesBack ==
  \A t \in {"A", "AAAA"}, n \in [host : Comp, zone : {DefaultZone.name}] :
    <>[](stage = "serving" /\ Lookup(smd, conf.zones, Family(t), n) # {})
      => <>[]~(query = [NoQuery EXCEPT !.type = t, !.name = n] /\ answer.kind = "next")
=============================================================================
