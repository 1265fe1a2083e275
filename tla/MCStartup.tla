------------------------------ MODULE MCStartup ------------------------------
(***************************************************************************)
(* Small instances of Startup for TLC: configurations of coresmd and       *)
(* bootloop made of lists of words, with comments in odd places, words that*)
(* do not parse, defaults left to validate and rules with a mistake; and   *)
(* the deployments that combine them.                                      *)
(***************************************************************************)
EXTENDS Startup, SequencesExt, TLC

CONSTANTS url, cert, nocert, nid, x86, riscv

Set(key, val) == [mark |-> "none", key |-> key, val |-> val]
Mark(how)     == [mark |-> how, key |-> Bad, val |-> Bad]
P(key, val)   == [key |-> key, val |-> val]

Uris == <<Set("svc_base_uri", url), Set("ipxe_base_uri", url)>>
Base == Uris \o <<Set("ca_cert", cert)>>

Net   == <<[net |-> "rack", mask |-> "m24"]>>
Wide  == <<[net |-> "all", mask |-> Unset]>>
Texts ==
  { <<P("type", {"Node"}), P("hostname", nid)>>,
    <<P("type", {"Node"}), P("subnet", Net), P("hostname", nid), P("log", "debug")>>,
    <<P("type", {"Node"}), P("subnet", Bad), P("hostname", nid)>>,
    <<P("subnet", Net), P("id", "x0"), P("continue", TRUE)>>,
    <<P("subnet", Wide), P("id", "x0")>>,
    <<P("subnet", Wide), P("netmask", "m16"), P("name", "wide")>>,
    <<P("type", Empty), P("hostname", nid)>>,
    <<P("id", "x0"), P("ignore", TRUE), P("log", Bad)>>,
    <<P("id", "x0"), P("ignore", TRUE), P("domain", Empty)>>,
    <<P("netmask", "m16"), P("cidr", "m24")>>,
    <<P("cidr", Bad)>>, <<P("routers", "gw"), P("cidr", "m24"), P("id_set", Empty)>>,
    <<P("hostname", nid), P("id_set", "x[0-3]")>>,
    <<P("hostname", nid), P("hostname", nid)>>, <<P("hostnam", nid)>>, <<>> }

\* Words that may come after the base of a coresmd configuration.
Words ==
  { Mark("opens"), Mark("closes"), Mark("both"),
    Set("svc_base_uri", Bad), Set("ca_cert", Empty), Set("cache_valid", Bad),
    Set("cache_valid", 60), Set("lease_time", 10), Set("tftp_port", 0), Set("tftp_port", 70000),
    Set("tftp_dir", Empty), Set("domain", "cluster"), Set("rule_log", "none"),
    Set("node_pattern", nid), Set("bmc_pattern", Empty), Set("single_port", TRUE),
    Set("nonsense", "x") }
  \cup {Set("rule", t) : t \in Texts}

Short == {Base} \cup {Base \o <<w>> : w \in Words} \cup
         {Uris \o <<w, v, Set("ca_cert", cert)>> : w \in {Mark("opens"), Mark("both")}, v \in Words}

\* Comments that hide a setting, or its second value, and then end or do not.
Hidden(w) == {<<Mark("opens"), w, Mark("closes")>>, <<Mark("both"), w>>, <<Mark("opens"), w>>,
              <<Mark("opens"), Mark("opens"), Mark("closes"), w>>}
Commented == UNION {{Base \o c, c \o Base} :
                      c \in Hidden(Set("cache_valid", 60)) \cup Hidden(Set("ca_cert", nocert))}

Port(p) == Base \o <<Set("tftp_port", p)>>

Pool(c, from, to) == [cidr |-> c, start |-> from, end |-> to]
Boot    == <<Set("lease_file", "leases"), Set("subnet_pool", Pool("c1", 1, 4))>>
BootArgs ==
  { Boot, Boot \o <<Set("script_path", Empty), Set("lease_time", Bad)>>,
    Boot \o <<Set("script_path", "discover"), Set("lease_time", 20)>>,
    Boot \o <<Set("subnet_pool", Pool("c1", 5, 2))>>,
    Boot \o <<Set("subnet_pool", Bad), Set("subnet_pool", Pool("c2", 7, 7))>>,
    Boot \o <<Set("ipv4_start", 1)>>,
    <<Set("lease_file", "leases"), Set("ipv4_start", 1), Set("ipv4_end", 3)>>,
    <<Set("lease_file", "leases"), Set("ipv4_start", 3), Set("ipv4_end", 1)>>,
    <<Set("lease_file", "leases"), Set("ipv4_start", 3), Set("ipv4_end", Bad)>>,
    <<Set("lease_file", Empty), Mark("opens"), Set("lease_file", "x"), Mark("closes")>> \o Boot,
    <<Set("lease_file", "leases")>> }

Core(proto, args)     == [plugin |-> "coresmd", proto |-> proto, args |-> args]
BootSetup(proto, args) == [plugin |-> "bootloop", proto |-> proto, args |-> args]

\* One plugin alone, coresmd in one server or in both, and bootloop after it.
MCDeployments ==
  {<<Core(4, a)>> : a \in Short \cup Commented \cup {Tail(Uris)}} \cup
  {<<Core(6, a)>> : a \in {Base, Port(70), Base \o <<Set("cache_valid", 0)>>}} \cup
  {<<BootSetup(4, a)>> : a \in BootArgs} \cup {<<BootSetup(6, Boot)>>} \cup
  {<<Core(4, a), BootSetup(4, b)>> : a \in {Base, Port(70)}, b \in BootArgs} \cup
  {<<Core(6, a), Core(4, Base), BootSetup(4, Boot)>> : a \in {Base, Port(70)}}

\* The example of the documentation.
DualStack == {<<Core(6, Port(69)), Core(4, Port(69)), BootSetup(4, Boot)>>}

Node(proto, fw, arch, known) == [proto |-> proto, firmware |-> fw, arch |-> arch, known |-> known]
MCClient == {Node(4, "rom", x86, TRUE), Node(4, "rom", riscv, TRUE), Node(4, "ipxe", x86, FALSE),
             Node(4, "ipxe", x86, TRUE), Node(6, "ipxe", x86, TRUE)}
MCBootFile == (x86 :> "ipxe-x86_64.efi")
MCServed   == ("/tftpboot" :> {"ipxe-x86_64.efi", "discover"})
=============================================================================
