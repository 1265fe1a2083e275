------------------------------- MODULE Coresmd -------------------------------
(***************************************************************************)
(* How the coresmd plugin of CoreDHCP answers one packet of a MAC: it      *)
(* looks the interface up in the cache, picks addresses by the relay's     *)
(* subnet, and walks the rules of the configuration, each of which may set *)
(* options, drop the packet, and stop the walk or not (internal/iface,     *)
(* internal/rule, Handler4 and Handler6).  The cache cannot change         *)
(* meanwhile: the handler holds its read lock.                             *)
(*                                                                         *)
(* A name stands for a pattern, which the names of components come from.   *)
(* The boot file, which no rule touches, and the lease time are left out.  *)
(***************************************************************************)
EXTENDS Naturals, Sequences

CONSTANTS
  Comp,           \* components: records of a type and an id
  Ip4, Ip6,       \* addresses of either family
  Garbage,        \* what SMD stores as an address and does not parse
  Subnet,         \* subnets that rules name
  Holds,          \* Holds[s]: the addresses of subnet s
  Mask4, Mask6,   \* network masks of either family, /0 aside
  MaskOf,         \* MaskOf[s]: the mask of s, or NoMask for /0
  Name, Router,   \* hostnames and lists of routers that rules set
  Domain,         \* domains, of the configuration or of a rule
  Written,        \* rules as an operator may write them
  DefaultName,    \* the hostname when no rule sets one
  NoIp, NoMask, NoName, NoRouter, NoDomain, NoComp, Unspecified,
  Omitted,        \* the domain_append of a rule without one
  MaxIps,         \* bound: addresses of an interface
  MaxRules        \* bound: rules of a configuration

Ip == Ip4 \cup Ip6
Address == Ip \cup {Garbage}
Mask == Mask4 \cup Mask6

ASSUME FamilyAssumption ==
  /\ Ip4 \cap Ip6 = {} /\ Mask4 \cap Mask6 = {}
  /\ NoIp \notin Address /\ Garbage \notin Ip /\ Unspecified \notin Ip
  /\ NoMask \notin Mask
  /\ DefaultName # NoName /\ NoComp \notin Comp

ASSUME SubnetAssumption ==
  /\ Holds \in [Subnet -> SUBSET Ip]
  /\ MaskOf \in [Subnet -> Mask \cup {NoMask}]

\* What normalizeDomainAppend makes of a domain_append: which domains follow the
\* name, and in which order; none is <<>>.  No domain is called none: ParseRule
\* refuses a rule that says so.
Modes == {<<>>, <<"global">>, <<"rule">>, <<"global", "rule">>, <<"rule", "global">>}

ASSUME DomainAssumption == NoDomain \notin Domain /\ Omitted \notin Modes

Rule == [comps    : SUBSET Comp,   \* the components its type and id match
         subnets  : Seq(Subnet),   \* any subnet when empty
         name     : Name \cup {NoName},
         routers  : Router \cup {NoRouter},
         mask     : Mask \cup {NoMask},
         domain   : Domain \cup {NoDomain},
         append   : Modes \cup {Omitted},
         continue : BOOLEAN,
         ignore   : BOOLEAN]

ASSUME RuleAssumption == Written \subseteq Rule

ASSUME BoundAssumption == MaxIps \in Nat /\ MaxRules \in Nat

VARIABLES
  packet,   \* the packet: DHCP version, relay, and the interface in the cache
  rules,    \* globalConfig.rules
  domain,   \* globalConfig.domain
  pc,       \* where the handler is: "lookup", "rules", "done"
  list,     \* the addresses the lookup returned; NoIp for one that did not parse
  idx,      \* the rule the walk has come to
  answer,   \* what the response carries so far
  outcome   \* how the handler ended

vars == <<packet, rules, domain, pc, list, idx, answer, outcome>>

-----------------------------------------------------------------------------
(* Configuration *)

\* The sequences of at most n elements of S.
UpTo(n, S) == UNION {[1..k -> S] : k \in 0..n}

\* ParseRule takes the mask of the first subnet for a rule that sets none ...
ParseRule(w) ==
  IF w.mask = NoMask /\ w.subnets # <<>>
  THEN [w EXCEPT !.mask = MaskOf[w.subnets[1]]]
  ELSE w

\* ... and wants at least one action of it.
HasAction(r) ==
  \/ r.name # NoName
  \/ r.routers # NoRouter
  \/ r.ignore
  \/ r.mask # NoMask

\* The configurations: one rule that is refused is logged and skipped, so they
\* are the sequences of those that are not.
Accepted == {ParseRule(w) : w \in {u \in Written : HasAction(ParseRule(u))}}
Configs  == UpTo(MaxRules, Accepted)

\* The subnet context, built from the subnets of all rules.
Registered == {s \in Subnet : \E i \in DOMAIN rules :
                                 \E j \in DOMAIN rules[i].subnets : s = rules[i].subnets[j]}

-----------------------------------------------------------------------------
\* NoComp: the cache has no interface for the MAC, or no component for it.
Packet == [version : {4, 6},
           giaddr  : Ip4 \cup {Unspecified},
           comp    : Comp \cup {NoComp},
           ips     : UpTo(MaxIps, Address)]

NoAnswer == [ip |-> NoIp, name |-> <<>>, routers |-> NoRouter, mask |-> NoMask]

Init ==
  /\ packet \in Packet
  /\ packet.comp = NoComp => packet.ips = <<>>
  /\ packet.version = 6 => packet.giaddr = Unspecified
  /\ rules \in Configs
  /\ domain \in Domain \cup {NoDomain}
  /\ pc = "lookup"
  /\ list = <<>>
  /\ idx = 1
  /\ answer = NoAnswer
  /\ outcome = "none"

\* The handler returns: the packet goes to the next plugin, is dropped or is
\* answered; or it dies of an index out of range.
Return(how) ==
  /\ pc' = "done"
  /\ outcome' = how

-----------------------------------------------------------------------------
(* The lookup *)

\* LookupMAC fails: no interface, no component, or no address at all.
LookupFails == packet.comp = NoComp \/ packet.ips = <<>>

\* The elements of a list that lie in S, in their order.
Kept(l, S) ==
  LET kept[i \in 0..Len(l)] ==
        IF i = 0 THEN <<>>
        ELSE IF l[i] \in S THEN Append(kept[i - 1], l[i]) ELSE kept[i - 1]
  IN  kept[Len(l)]

\* LookupMAC keeps a nil for each address that does not parse,
\* LookupMACWithSubnet leaves it out.
Parsed   == [i \in DOMAIN packet.ips |-> IF packet.ips[i] = Garbage THEN NoIp ELSE packet.ips[i]]
Readable == Kept(packet.ips, Ip)

\* The addresses among them that lie in subnet s.
Within(s) == Kept(Readable, Holds[s])

\* The subnets FindSubnetForIP may find for the relay: of several that overlap,
\* the first in the random order of a Go map.
RelaySubnets == {s \in Registered : packet.giaddr # Unspecified /\ packet.giaddr \in Holds[s]}

\* Handler4 takes the first address of the list, as an IPv4 address or as none.
Assign4(l) ==
  /\ list' = l
  /\ answer' = [answer EXCEPT !.ip = IF l[1] \in Ip4 THEN l[1] ELSE NoIp]
  /\ pc' = "rules"
  /\ UNCHANGED outcome

\* Slip for Lookup4: the relay's subnet is not looked for.
Lookup4Anywhere ==
  /\ pc = "lookup" /\ packet.version = 4
  /\ \/ LookupFails /\ Return("next") /\ UNCHANGED <<list, answer>>
     \/ ~LookupFails /\ Assign4(Parsed)
  /\ UNCHANGED <<packet, rules, domain, idx>>

Lookup4 ==
  /\ pc = "lookup" /\ packet.version = 4
  /\ \/ LookupFails /\ Return("next") /\ UNCHANGED <<list, answer>>
     \/ ~LookupFails /\ Registered = {} /\ Assign4(Parsed)
     \/ /\ ~LookupFails /\ Registered # {} /\ RelaySubnets = {}
        /\ IF Readable = <<>>
           THEN Return("panic") /\ UNCHANGED <<list, answer>>
           ELSE Assign4(Readable)
     \/ /\ ~LookupFails
        /\ \E s \in RelaySubnets :
             IF Within(s) = <<>>
             THEN Return("next") /\ UNCHANGED <<list, answer>>
             ELSE Assign4(Within(s))
  /\ UNCHANGED <<packet, rules, domain, idx>>

\* Handler6 never looks at a relay, and wants an IPv6 address on the list.
Lookup6 ==
  /\ pc = "lookup" /\ packet.version = 6
  /\ IF LookupFails \/ \A i \in DOMAIN packet.ips : packet.ips[i] \notin Ip6
     THEN Return("next") /\ UNCHANGED list
     ELSE pc' = "rules" /\ list' = Parsed /\ UNCHANGED outcome
  /\ UNCHANGED <<packet, rules, domain, idx, answer>>

-----------------------------------------------------------------------------
(* Evaluate4 and Evaluate6: the walk over the rules *)

\* MatchIface: every criterion of the rule is met; a subnet is compared with the
\* first address of the list, in both versions.
Matches(r) ==
  /\ packet.comp \in r.comps
  /\ r.subnets # <<>> => \E j \in DOMAIN r.subnets : list[1] \in Holds[r.subnets[j]]

\* The mask a matching rule sets: its own, or that of its first subnet.
MaskSet(r) ==
  IF r.mask = NoMask /\ r.subnets # <<>> /\ MaskOf[r.subnets[1]] \in Mask4
  THEN MaskOf[r.subnets[1]]
  ELSE r.mask

Given(d) == IF d = NoDomain THEN <<>> ELSE <<d>>

\* The domain a token of domain_append asks for, if there is one.
Asked(r, k) ==
  IF k \in DOMAIN r.append
  THEN Given(IF r.append[k] = "global" THEN domain ELSE r.domain)
  ELSE <<>>

\* Slip for LookupHostname: the domain of the rule is appended to the global one.
LookupHostnameBoth(name, r) ==
  <<name>> \o (IF r.append = Omitted THEN Given(domain) \o Given(r.domain)
              ELSE Asked(r, 1) \o Asked(r, 2))

\* The labels of a name: what domain_append asks for, or the rule's domain rather
\* than the global one.
LookupHostname(name, r) ==
  <<name>> \o (IF r.append # Omitted THEN Asked(r, 1) \o Asked(r, 2)
              ELSE Given(IF r.domain # NoDomain THEN r.domain ELSE domain))

\* Go's Rule{}, for a name no rule has set.
NoRule == [domain |-> NoDomain, append |-> Omitted]

\* The response with the settings of rule r; DHCPv6 has the hostname only.
Apply(r) ==
  [answer EXCEPT
     !.name    = IF r.name # NoName THEN LookupHostname(r.name, r) ELSE @,
     !.routers = IF packet.version = 4 /\ r.routers # NoRouter THEN r.routers ELSE @,
     !.mask    = IF packet.version = 4 /\ MaskSet(r) # NoMask THEN MaskSet(r) ELSE @]

Here == pc = "rules" /\ idx \in DOMAIN rules

RuleFails ==
  /\ Here
  /\ ~Matches(rules[idx])
  /\ idx' = idx + 1
  /\ UNCHANGED <<packet, rules, domain, pc, list, answer, outcome>>

RuleIgnores ==
  /\ Here
  /\ Matches(rules[idx])
  /\ rules[idx].ignore
  /\ Return("drop")
  /\ UNCHANGED <<packet, rules, domain, list, idx, answer>>

\* Slip for RuleApplies: the walk goes on after a rule that should end it.
RuleAppliesOn ==
  /\ Here
  /\ Matches(rules[idx])
  /\ ~rules[idx].ignore
  /\ answer' = Apply(rules[idx])
  /\ idx' = idx + 1
  /\ UNCHANGED <<packet, rules, domain, pc, list, outcome>>

RuleApplies ==
  /\ Here
  /\ Matches(rules[idx])
  /\ ~rules[idx].ignore
  /\ answer' = Apply(rules[idx])
  /\ idx' = IF rules[idx].continue THEN idx + 1 ELSE Len(rules) + 1
  /\ UNCHANGED <<packet, rules, domain, pc, list, outcome>>

\* Slip for Finish: the default hostname is forgotten.
FinishNameless ==
  /\ pc = "rules" /\ idx \notin DOMAIN rules
  /\ Return("answer")
  /\ UNCHANGED <<packet, rules, domain, list, idx, answer>>

\* The end of the walk: the default hostname, if no rule set one; Handler6 adds
\* the first IPv6 address of the list if the client asked for an address.
Finish ==
  /\ pc = "rules" /\ idx \notin DOMAIN rules
  /\ \E ip \in {answer.ip} \cup {list[i] : i \in {j \in DOMAIN list :
                   /\ packet.version = 6 /\ list[j] \in Ip6
                   /\ \A k \in 1..(j - 1) : list[k] \notin Ip6}} :
       answer' = [answer EXCEPT !.ip = ip,
                                !.name = IF @ = <<>> THEN LookupHostname(DefaultName, NoRule) ELSE @]
  /\ Return("answer")
  /\ UNCHANGED <<packet, rules, domain, list, idx>>

-----------------------------------------------------------------------------
Next == Lookup4 \/ Lookup6 \/ RuleFails \/ RuleIgnores \/ RuleApplies \/ Finish

Spec == Init /\ [][Next]_vars

-----------------------------------------------------------------------------
(***************************************************************************)
(* Properties                                                              *)
(***************************************************************************)

\* Type correctness; an answer always carries a hostname, and the walk only looks
\* at a list that has a first address.
TypeOK ==
  /\ packet \in Packet
  /\ rules \in Seq(Rule)
  /\ domain \in Domain \cup {NoDomain}
  /\ pc \in {"lookup", "rules", "done"}
  /\ list \in Seq(Ip \cup {NoIp})
  /\ idx \in 1..(Len(rules) + 1)
  /\ answer \in [ip : Ip \cup {NoIp}, name : Seq(Name \cup {DefaultName} \cup Domain),
                 routers : Router \cup {NoRouter}, mask : Mask \cup {NoMask}]
  /\ outcome \in {"none", "next", "panic", "drop", "answer"}
  /\ pc = "rules" => list # <<>>
  /\ outcome = "answer" => answer.name # <<>>

\* The rules that count for the packet: those that match, as far as no matching
\* rule before them stops the walk.
Counts(i) ==
  /\ Matches(rules[i])
  /\ \A j \in 1..(i - 1) : Matches(rules[j]) => rules[j].continue /\ ~rules[j].ignore

Counting == {i \in DOMAIN rules : Counts(i)}

\* The domains rules.md promises for a rule with a hostname.
Promised(r) ==
  CASE r.append = Omitted /\ r.domain = NoDomain  -> Given(domain)
    [] r.append = Omitted /\ r.domain # NoDomain  -> Given(r.domain)
    [] r.append = <<>>                            -> <<>>
    [] r.append = <<"global">>                    -> Given(domain)
    [] r.append = <<"rule">>                      -> Given(r.domain)
    [] r.append = <<"global", "rule">>            -> Given(domain) \o Given(r.domain)
    [] r.append = <<"rule", "global">>            -> Given(r.domain) \o Given(domain)

\* What a rule sets, and what an answer has if no rule has a say.
Sets(r) == [name |-> <<r.name>> \o Promised(r), routers |-> r.routers, mask |-> r.mask]
Default == [name |-> <<DefaultName>> \o Given(domain), routers |-> NoRouter, mask |-> NoMask]

\* The setting f of the answer comes from the last rule of S, or is the default
\* if S is empty.
FromLast(f, S, default) ==
  /\ S = {} => answer[f] = default[f]
  /\ \A i \in S : (\A j \in S : j <= i) => answer[f] = Sets(rules[i])[f]

\* The rules of S that have a say on each setting.
NameSetters(S)   == {i \in S : rules[i].name # NoName}
RouterSetters(S) == {i \in S : packet.version = 4 /\ rules[i].routers # NoRouter}
MaskSetters(S)   == {i \in S : packet.version = 4 /\ rules[i].mask # NoMask}

\* Evaluate4 and Evaluate6 against rules.md: a packet is dropped iff a rule that
\* counts ignores it, and otherwise each option comes from the last rule that
\* counts and sets it, whatever rules before it set: a name with the domains of its
\* own rule, and the mask that ParseRule found implicit.
AnswerFollowsRules ==
  /\ outcome = "drop" => \E i \in Counting : rules[i].ignore
  /\ outcome = "answer" =>
       /\ \A i \in Counting : ~rules[i].ignore
       /\ FromLast("name", NameSetters(Counting), Default)
       /\ FromLast("routers", RouterSetters(Counting), Default)
       /\ FromLast("mask", MaskSetters(Counting), Default)

\* A packet relayed from a subnet some rule names is answered with an address of
\* that subnet, and no rule that is for other subnets only has a say in it
\* (LookupMACWithSubnet against MatchIface).  Subnets that overlap that one are
\* a matter of map order, and left out.
RelayConfined ==
  outcome = "answer" /\ packet.version = 4 =>
    \A s \in RelaySubnets :
      (\A q \in Registered \ {s} : Holds[q] \cap Holds[s] = {}) =>
        /\ list[1] \in Holds[s]
        /\ \A i \in Counting : rules[i].subnets # <<>> =>
             \E j \in DOMAIN rules[i].subnets : rules[i].subnets[j] = s

-----------------------------------------------------------------------------
(***************************************************************************)
(* Claims of the documentation the code departs from                       *)
(***************************************************************************)

\* examples/coredhcp/README.md: "If both IPv4 and IPv6 addresses are present,
\* DHCPv4 will use IPv4 addresses".  Handler4 takes the first of the list.
Dhcp4UsesIpv4 ==
  /\ outcome = "answer" /\ packet.version = 4
  /\ \E i, j \in DOMAIN list : list[i] \in Ip4 /\ list[j] \in Ip6
  => answer.ip \in Ip4
=============================================================================
