---------------------------- MODULE PluginConfig ----------------------------
(***************************************************************************)
(* How the plugins of CoreDHCP read their arguments: the words after the   *)
(* plugin's name, most of the form key=val, with comments between words    *)
(* that begin with the sign that opens one and end with the sign that      *)
(* closes one (parseConfig and validate of both plugins), and how the value*)
(* of rule= becomes a rule (createRuleCompDict and ParseRule in            *)
(* internal/rule).                                                         *)
(*                                                                         *)
(* A value stands for what it parses to: Bad when it does not, Empty when  *)
(* nothing is left of it without quotes and blanks.  Errors are logged and *)
(* the word is skipped; only validate can refuse a configuration.          *)
(***************************************************************************)
EXTENDS Integers, Sequences

CONSTANTS
  Bad, Empty,
  Unset,         \* a field of a configuration that no word has set
  DefaultPort, DefaultDir,                  \* internal/tftp
  DefaultValid, DefaultLease, DefaultLog,   \* of coresmd
  DefaultBootLease, DefaultScript           \* of bootloop

-----------------------------------------------------------------------------
(* Rules: sequences of [key, val], as they stand between the commas *)

AllowedKeys == {"cidr", "continue", "domain", "domain_append", "hostname", "id", "id_set",
                "ignore", "log", "name", "netmask", "routers", "subnet", "type"}

\* The dictionary of a rule's text, which has some piece, no unknown key and none
\* twice (a piece that is not key:val, or is badly quoted, has the key Bad).
HasDict(text) ==
  /\ text # <<>>
  /\ \A i \in DOMAIN text : text[i].key \in AllowedKeys
  /\ \A i, j \in DOMAIN text : text[i].key = text[j].key => i = j

\* Slip for Dict: a subnet that does not parse is left out.
DictLax(text) ==
  LET good == {i \in DOMAIN text : ~(text[i].key = "subnet" /\ text[i].val = Bad)} IN
  [k \in {text[i].key : i \in good} |-> text[CHOOSE i \in good : text[i].key = k].val]

Dict(text) == [k \in {text[i].key : i \in DOMAIN text} |->
                 text[CHOOSE i \in DOMAIN text : text[i].key = k].val]

Given(d, key) == IF key \in DOMAIN d /\ d[key] # Empty THEN d[key] ELSE Unset

\* The implicit mask is that of the first subnet.
SubnetMask(d) == IF Given(d, "subnet") = Unset THEN Unset ELSE Given(d, "subnet")[1].mask

\* The network mask: netmask or cidr, or else the implicit one.
RuleMask(d) ==
  CASE "netmask" \in DOMAIN d -> d["netmask"]
    [] "cidr" \in DOMAIN d -> d["cidr"]
    [] OTHER -> SubnetMask(d)

\* Keys whose value must parse if there is one, and those that must have one.
\* (No set of IDs can be compiled yet.)
Unparsed(d) ==
  \/ \E k \in {"log", "routers", "domain", "continue", "ignore", "domain_append", "subnet"} :
       Given(d, k) = Bad
  \/ \E k \in DOMAIN d \cap {"netmask", "cidr", "type"} : d[k] \in {Bad, Empty}
  \/ Given(d, "id_set") # Unset

RuleRefused(text) ==
  \/ ~HasDict(text)
  \/ LET d == Dict(text) IN
     \/ Unparsed(d)
     \/ {"netmask", "cidr"} \subseteq DOMAIN d
     \/ /\ Given(d, "hostname") = Unset /\ Given(d, "routers") = Unset
        /\ Given(d, "ignore") # TRUE /\ RuleMask(d) = Unset

\* The rule of a text; a name is made up for one without, and domain names are
\* put in order (normalizeDomainAppend).
ParseRule(text) ==
  LET d == Dict(text) IN
  [log      |-> Given(d, "log"),
   hostname |-> Given(d, "hostname"),
   routers  |-> Given(d, "routers"),
   mask     |-> RuleMask(d),
   domain   |-> Given(d, "domain"),
   append   |-> Given(d, "domain_append"),
   continue |-> Given(d, "continue") = TRUE,
   ignore   |-> Given(d, "ignore") = TRUE,
   types    |-> Given(d, "type"),
   subnets  |-> Given(d, "subnet"),
   id       |-> Given(d, "id")]

-----------------------------------------------------------------------------
(* Arguments: sequences of [mark, key, val]; mark tells whether the word  *)
(* opens a comment, closes one, or both, or is a plain one ("none").       *)

Opens(a)  == a.mark \in {"opens", "both"}
Closes(a) == a.mark \in {"closes", "both"}

\* Slip for InComment: a word is looked at for the closing sign first.
InCommentSwapped(args) ==
  LET in[i \in 0..Len(args)] == i > 0 /\ (Opens(args[i]) \/ (in[i - 1] /\ ~Closes(args[i])))
  IN  in

\* InComment(args)[i]: a comment is open after the i-th word.
InComment(args) ==
  LET in[i \in 0..Len(args)] == i > 0 /\ ~Closes(args[i]) /\ (Opens(args[i]) \/ in[i - 1])
  IN  in

Skipped(args, i) == args[i].mark # "none" \/ InComment(args)[i]

\* coresmd
NoConfig == [svc_base_uri |-> Unset, ipxe_base_uri |-> Unset, ca_cert |-> Unset,
             cache_valid |-> Unset, lease_time |-> Unset, single_port |-> FALSE,
             tftp_dir |-> Unset, tftp_port |-> 0, domain |-> Unset, rule_log |-> Unset,
             rules |-> <<>>]

\* node_pattern= and bmc_pattern= are rules by type with a hostname.
PatternType(key) == IF key = "node_pattern" THEN {"Node"} ELSE {"NodeBMC"}
TypeRule(type, val) == <<[key |-> "type", val |-> type], [key |-> "hostname", val |-> val]>>

TakeRule(cfg, text) ==
  IF RuleRefused(text) THEN cfg ELSE [cfg EXCEPT !.rules = Append(@, ParseRule(text))]

IsPort(p) == p \in Nat /\ p <= 65535

\* One word: settings keep a value that parses, or one that is not empty; a port
\* out of range is the default one; unknown keys (and words without =) are skipped.
TakeArg(cfg, a) ==
  CASE a.key \in {"svc_base_uri", "ipxe_base_uri", "cache_valid", "lease_time", "single_port",
                  "rule_log"} ->
         IF a.val = Bad THEN cfg ELSE [cfg EXCEPT ![a.key] = a.val]
    [] a.key \in {"ca_cert", "tftp_dir", "domain"} ->
         IF a.val = Empty THEN cfg ELSE [cfg EXCEPT ![a.key] = a.val]
    [] a.key = "tftp_port" ->
         [cfg EXCEPT !.tftp_port = IF IsPort(a.val) THEN a.val ELSE DefaultPort]
    [] a.key = "rule" -> TakeRule(cfg, a.val)
    [] a.key \in {"node_pattern", "bmc_pattern"} /\ a.val # Empty ->
         TakeRule(cfg, TypeRule(PatternType(a.key), a.val))
    [] OTHER -> cfg

ParseConfig(args) ==
  LET cfg[i \in 0..Len(args)] ==
        IF i = 0 THEN NoConfig
        ELSE IF Skipped(args, i) THEN cfg[i - 1] ELSE TakeArg(cfg[i - 1], args[i])
  IN  cfg[Len(args)]

Or(val, default) == IF val = Unset THEN default ELSE val

\* validate refuses a configuration without the two URIs ...
Complete(cfg) == cfg.svc_base_uri # Unset /\ cfg.ipxe_base_uri # Unset

WithLog(r, level) == [r EXCEPT !.log = Or(@, level)]

\* ... and fills in the defaults of the others, but for ca_cert and domain.
WithDefaults(cfg) ==
  LET level == Or(cfg.rule_log, DefaultLog) IN
  [svc_base_uri  |-> cfg.svc_base_uri,
   ipxe_base_uri |-> cfg.ipxe_base_uri,
   ca_cert       |-> cfg.ca_cert,
   cache_valid   |-> Or(cfg.cache_valid, DefaultValid),
   lease_time    |-> Or(cfg.lease_time, DefaultLease),
   single_port   |-> cfg.single_port,
   tftp_dir      |-> Or(cfg.tftp_dir, DefaultDir),
   tftp_port     |-> IF cfg.tftp_port = 0 THEN DefaultPort ELSE cfg.tftp_port,
   domain        |-> cfg.domain,
   rule_log      |-> level,
   rules         |-> [i \in DOMAIN cfg.rules |-> WithLog(cfg.rules[i], level)]]

\* bootloop; a pool of a subnet replaces an earlier one.
NoBootConfig == [lease_file |-> Unset, script_path |-> Unset, lease_time |-> Unset,
                 ipv4_start |-> Unset, ipv4_end |-> Unset, pools |-> <<>>]

\* One word; the ends of a subnet's pool must lie in the subnet, or it is Bad.
TakeBootArg(cfg, a) ==
  CASE a.key \in {"lease_time", "ipv4_start", "ipv4_end"} ->
         IF a.val = Bad THEN cfg ELSE [cfg EXCEPT ![a.key] = a.val]
    [] a.key = "lease_file" ->
         IF a.val = Empty THEN cfg ELSE [cfg EXCEPT !.lease_file = a.val]
    [] a.key = "script_path" ->
         [cfg EXCEPT !.script_path = IF a.val = Empty THEN DefaultScript ELSE a.val]
    [] a.key = "subnet_pool" /\ a.val # Bad ->
         [cfg EXCEPT !.pools = [c \in DOMAIN @ \cup {a.val.cidr} |->
                                  IF c = a.val.cidr THEN a.val ELSE @[c]]]
    [] OTHER -> cfg

ParseBootConfig(args) ==
  LET cfg[i \in 0..Len(args)] ==
        IF i = 0 THEN NoBootConfig
        ELSE IF Skipped(args, i) THEN cfg[i - 1] ELSE TakeBootArg(cfg[i - 1], args[i])
  IN  cfg[Len(args)]

\* validate: a lease file, and either pools of subnets or one range with two ends.
BootComplete(cfg) ==
  /\ cfg.lease_file # Unset
  /\ IF DOMAIN cfg.pools # {}
     THEN cfg.ipv4_start = Unset /\ cfg.ipv4_end = Unset
     ELSE cfg.ipv4_start # Unset /\ cfg.ipv4_end # Unset /\ cfg.ipv4_start <= cfg.ipv4_end

WithBootDefaults(cfg) ==
  [lease_file  |-> cfg.lease_file,
   script_path |-> Or(cfg.script_path, DefaultScript),
   lease_time  |-> Or(cfg.lease_time, DefaultBootLease),
   ipv4_start  |-> cfg.ipv4_start,
   ipv4_end    |-> cfg.ipv4_end,
   pools       |-> cfg.pools]
=============================================================================
