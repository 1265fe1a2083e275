--------------------------- MODULE StartupProofs ---------------------------
(***************************************************************************)
(* Whatever the deployment: the configuration in force is the one written, *)
(* outside comments; no rule in force has fewer limits than its text; and  *)
(* a process that serves has handlers that find all they use.              *)
(***************************************************************************)
EXTENDS Startup, Induction, SequenceTheorems, TLAPS

-----------------------------------------------------------------------------
(* Reading the words *)

\* A comment is open after the i-th word when one before or at it has opened one
\* and none from there on has closed it.
Open(args, i) == \E o \in 1..i : Opens(args[o]) /\ \A e \in o..i : ~Closes(args[e])

LEMMA OpenNext ==
  ASSUME NEW args, NEW i \in Nat \ {0}
  PROVE  Open(args, i) <=> ~Closes(args[i]) /\ (Opens(args[i]) \/ Open(args, i - 1))
<1>1. ASSUME Open(args, i)
      PROVE  ~Closes(args[i]) /\ (Opens(args[i]) \/ Open(args, i - 1))
  <2>1. PICK o \in 1..i : Opens(args[o]) /\ \A e \in o..i : ~Closes(args[e])
    BY <1>1 DEF Open
  <2>2. ~Closes(args[i])
    BY <2>1
  <2>3. CASE o = i
    BY <2>1, <2>2, <2>3
  <2>4. CASE o \in 1..(i - 1)
    BY <2>1, <2>2, <2>4 DEF Open
  <2> QED
    BY <2>3, <2>4
<1>2. ASSUME ~Closes(args[i]), Opens(args[i])
      PROVE  Open(args, i)
  <2>1. i \in 1..i /\ \A e \in i..i : e = i
    OBVIOUS
  <2> QED
    BY <1>2, <2>1 DEF Open
<1>3. ASSUME ~Closes(args[i]), Open(args, i - 1)
      PROVE  Open(args, i)
  <2>1. PICK o \in 1..(i - 1) : Opens(args[o]) /\ \A e \in o..(i - 1) : ~Closes(args[e])
    BY <1>3 DEF Open
  <2>2. o \in 1..i /\ \A e \in o..i : e \in o..(i - 1) \/ e = i
    OBVIOUS
  <2> QED
    BY <1>3, <2>1, <2>2 DEF Open
<1> QED
  BY <1>1, <1>2, <1>3

LEMMA InCommentIsOpen ==
  ASSUME NEW args, Len(args) \in Nat
  PROVE  \A i \in 0..Len(args) : InComment(args)[i] <=> Open(args, i)
<1> DEFINE N == Len(args)
           Next1(f, i) == i > 0 /\ ~Closes(args[i]) /\ (Opens(args[i]) \/ f[i - 1])
           g == [i \in 0..N |-> Open(args, i)]
<1> HIDE DEF N
<1>0. N \in Nat
  BY DEF N
<1>1. ~Open(args, 0)
  BY DEF Open
<1>2. \A i \in 0..N : Open(args, i) <=> Next1(g, i)
  <2>1. \A i \in 0..N : i > 0 => i \in Nat \ {0} /\ i - 1 \in 0..N
    BY <1>0
  <2>2. \A i \in 0..N : i > 0 => g[i - 1] = Open(args, i - 1)
    BY <2>1
  <2>3. \A i \in 0..N : ~(i > 0) => i = 0
    BY <1>0
  <2> HIDE DEF g
  <2> QED
    BY <1>1, <2>1, <2>2, <2>3, OpenNext
<1>3. g = [i \in 0..N |-> Next1(g, i)]
  <2>1. \A i \in 0..N : Open(args, i) = Next1(g, i)
    BY <1>2 DEF Open
  <2> HIDE DEF Next1
  <2> QED
    BY <2>1
<1>4. PICK f : f = [i \in 0..N |-> Next1(f, i)] /\ InComment(args) = f
  BY <1>3 DEF InComment, N
<1>5. \A i \in 0..N : f[i] <=> Next1(f, i)
  <2> HIDE DEF Next1
  <2> QED
    BY <1>4
<1> DEFINE Good == {i \in 0..N : f[i] <=> Open(args, i)}
<1>6. 0 \in Good
  BY <1>0, <1>1, <1>5
<1>7. ASSUME NEW i \in 1..N, i - 1 \in Good PROVE i \in Good
  <2>1. i \in 0..N /\ i > 0 /\ i \in Nat \ {0}
    BY <1>0
  <2> QED
    BY <1>5, <1>7, <2>1, OpenNext
<1>8. \A i \in 0..N : i \in Good
  <2> HIDE DEF Good
  <2> QED
    BY <1>0, <1>6, <1>7, IntervalInduction
<1> QED
  BY <1>4, <1>8 DEF N

\* parseConfig skips the words that an operator does not read as settings.
LEMMA PlainWords ==
  ASSUME NEW args, Len(args) \in Nat, DOMAIN args = 1..Len(args), NEW i \in DOMAIN args
  PROVE  Skipped(args, i) <=> i \notin Plain(args)
<1>1. CASE args[i].mark = "none"
  <2>1. ~Opens(args[i]) /\ ~Closes(args[i])
    BY <1>1 DEF Opens, Closes
  <2>2. InComment(args)[i] <=> Open(args, i - 1)
    <3>1. i \in 0..Len(args) /\ i \in Nat \ {0}
      OBVIOUS
    <3> QED
      BY <2>1, <3>1, InCommentIsOpen, OpenNext
  <2> QED
    BY <1>1, <2>2 DEF Skipped, Plain, Open
<1> QED
  BY <1>1 DEF Skipped, Plain

-----------------------------------------------------------------------------
Settings == {"svc_base_uri", "ipxe_base_uri", "ca_cert", "cache_valid", "lease_time",
             "single_port", "tftp_dir", "domain", "rule_log"}

LEMMA NoConfigFields ==
  /\ DOMAIN NoConfig = Settings \cup {"tftp_port", "rules"}
  /\ NoConfig.rules = <<>> /\ NoConfig.tftp_port = 0
  BY DEF NoConfig, Settings

\* No field starts with a value that does not parse.
LEMMA NoConfigGood == \A k \in DOMAIN NoConfig \ {"rules"} : NoConfig[k] \notin {Bad, Empty}
<1>1. Unset \notin {Bad, Empty} /\ 0 \notin {Bad, Empty}
  BY StartupAssumption
<1>2. FALSE \notin {Bad, Empty}
  BY StartupAssumption, Zenon
<1> DEFINE no == FALSE
<1>3. no \notin {Bad, Empty}
  BY <1>2
<1>4. NoConfig = [svc_base_uri |-> Unset, ipxe_base_uri |-> Unset, ca_cert |-> Unset,
                  cache_valid |-> Unset, lease_time |-> Unset, single_port |-> no,
                  tftp_dir |-> Unset, tftp_port |-> 0, domain |-> Unset, rule_log |-> Unset,
                  rules |-> <<>>]
  BY DEF NoConfig
<1> HIDE DEF no
<1> QED
  BY <1>1, <1>3, <1>4

\* The texts of the rules among the words that are read.
Texts(args) ==
  {args[i].val : i \in {j \in Plain(args) : args[j].key = "rule"}} \cup
  {TypeRule(PatternType(args[i].key), args[i].val) :
     i \in {j \in Plain(args) : args[j].key \in {"node_pattern", "bmc_pattern"}}}

\* What the words of a configuration can make of it: the fields have values of the
\* words or defaults, the port can be one, and the rules are of texts that were not
\* refused.
Field(args) == {args[i].val : i \in DOMAIN args} \cup {NoConfig[k] : k \in DOMAIN NoConfig}
                 \cup {DefaultPort}
RulesOf(args) == Seq({ParseRule(t) : t \in {u \in Texts(args) : ~RuleRefused(u)}})
ConfigOf(args) == {cfg \in [DOMAIN NoConfig -> Field(args) \cup RulesOf(args)] :
                     cfg.rules \in RulesOf(args) /\ IsPort(cfg.tftp_port)}

LEMMA NoConfigTyped ==
  ASSUME NEW args
  PROVE  NoConfig \in ConfigOf(args)
<1>1. IsPort(0)
  BY DEF IsPort
<1>2. NoConfig \in [DOMAIN NoConfig -> {NoConfig[k] : k \in DOMAIN NoConfig}]
  <2>1. NoConfig = [k \in DOMAIN NoConfig |-> NoConfig[k]]
    BY DEF NoConfig
  <2> QED
    BY <2>1, Zenon
<1>3. NoConfig \in [DOMAIN NoConfig -> Field(args) \cup RulesOf(args)]
  BY <1>2 DEF Field
<1>4. <<>> \in RulesOf(args)
  BY DEF RulesOf
<1> QED
  BY <1>1, <1>3, <1>4, NoConfigFields DEF ConfigOf

\* A word for a setting with a good value sets it, and no other word changes it.
LEMMA TakeArgSets ==
  ASSUME NEW args, NEW cfg \in ConfigOf(args), NEW a, WellRead(a), NEW key \in Settings
  PROVE  TakeArg(cfg, a)[key] =
           IF a.key = key /\ a.val \notin {Bad, Empty} THEN a.val ELSE cfg[key]
<1>1. DOMAIN cfg = Settings \cup {"tftp_port", "rules"}
  BY NoConfigFields DEF ConfigOf
<1>2. CASE a.key \in {"svc_base_uri", "ipxe_base_uri", "cache_valid", "lease_time", "single_port",
                      "rule_log"}
  <2>1. TakeArg(cfg, a) = IF a.val = Bad THEN cfg ELSE [cfg EXCEPT ![a.key] = a.val]
    BY <1>2 DEF TakeArg
  <2>2. a.val # Empty
    BY <1>2 DEF WellRead
  <2> QED
    BY <1>1, <2>1, <2>2
<1>3. CASE a.key \in {"ca_cert", "tftp_dir", "domain"}
  <2>1. TakeArg(cfg, a) = IF a.val = Empty THEN cfg ELSE [cfg EXCEPT ![a.key] = a.val]
    BY <1>3 DEF TakeArg
  <2>2. a.val # Bad
    BY <1>3 DEF WellRead
  <2> QED
    BY <1>1, <2>1, <2>2
<1>4. CASE a.key \notin Settings
  <2>1. key # "tftp_port" /\ key # "rules" /\ key # a.key
    BY <1>4 DEF Settings
  <2>2. \/ TakeArg(cfg, a) = cfg
        \/ \E p : TakeArg(cfg, a) = [cfg EXCEPT !.tftp_port = p]
        \/ \E r : TakeArg(cfg, a) = [cfg EXCEPT !.rules = r]
    BY <1>4 DEF TakeArg, TakeRule, Settings
  <2> QED
    BY <1>1, <2>1, <2>2
<1> QED
  BY <1>2, <1>3, <1>4 DEF Settings

LEMMA FieldSet ==
  ASSUME NEW args, NEW cfg \in ConfigOf(args), NEW k \in DOMAIN NoConfig,
         NEW v \in Field(args) \cup RulesOf(args),
         k = "rules" => v \in RulesOf(args), k = "tftp_port" => IsPort(v)
  PROVE  [cfg EXCEPT ![k] = v] \in ConfigOf(args)
<1> DEFINE D == DOMAIN NoConfig
           F == Field(args) \cup RulesOf(args)
           new == [cfg EXCEPT ![k] = v]
<1>1. cfg \in [D -> F] /\ cfg.rules \in RulesOf(args) /\ IsPort(cfg.tftp_port)
  BY DEF ConfigOf
<1>2. "rules" \in D /\ "tftp_port" \in D
  BY NoConfigFields
<1>3. k \in D /\ v \in F
  OBVIOUS
<1> HIDE DEF D, F
<1>4. new \in [D -> F]
  BY <1>1, <1>3
<1>5. new.rules \in RulesOf(args) /\ IsPort(new.tftp_port)
  BY <1>1, <1>2
<1> HIDE DEF new
<1>6. new \in ConfigOf(args)
  BY <1>4, <1>5 DEF ConfigOf, D, F
<1> QED
  BY <1>6 DEF new

LEMMA TakeRuleTyped ==
  ASSUME NEW args, NEW cfg \in ConfigOf(args), NEW t \in Texts(args)
  PROVE  TakeRule(cfg, t) \in ConfigOf(args)
<1>1. CASE RuleRefused(t)
  BY <1>1 DEF TakeRule
<1>2. CASE ~RuleRefused(t)
  <2>1. cfg.rules \in RulesOf(args) /\ DOMAIN cfg = DOMAIN NoConfig /\ "rules" \in DOMAIN NoConfig
    BY NoConfigFields DEF ConfigOf
  <2>2. Append(cfg.rules, ParseRule(t)) \in RulesOf(args)
    BY <1>2, <2>1 DEF RulesOf
  <2>3. TakeRule(cfg, t) = [cfg EXCEPT !.rules = Append(cfg.rules, ParseRule(t))]
    BY <1>2 DEF TakeRule
  <2> DEFINE r == Append(cfg.rules, ParseRule(t))
  <2> HIDE DEF r
  <2>4. [cfg EXCEPT !["rules"] = r] \in ConfigOf(args)
    <3>1. r \in RulesOf(args)
      BY <2>2 DEF r
    <3> QED
      BY <2>1, <3>1, FieldSet
  <2> QED
    BY <2>3, <2>4 DEF r
<1> QED
  BY <1>1, <1>2

LEMMA TakeArgTyped ==
  ASSUME NEW args, NEW cfg \in ConfigOf(args), NEW i \in Plain(args)
  PROVE  TakeArg(cfg, args[i]) \in ConfigOf(args)
<1> DEFINE a == args[i]
<1>1. DOMAIN cfg = DOMAIN NoConfig /\ a.val \in Field(args)
  BY DEF ConfigOf, Field, Plain
<1>2. CASE a.key \in Settings
  <2>1. \/ TakeArg(cfg, a) = cfg
        \/ TakeArg(cfg, a) = [cfg EXCEPT ![a.key] = a.val]
    BY <1>2 DEF TakeArg, Settings
  <2>2. a.key \in DOMAIN NoConfig /\ a.key # "rules" /\ a.key # "tftp_port"
    BY <1>2, NoConfigFields DEF Settings
  <2>3. [cfg EXCEPT ![a.key] = a.val] \in ConfigOf(args)
    <3> HIDE DEF a
    <3> QED
      BY <1>1, <2>2, FieldSet
  <2> QED
    BY <2>1, <2>3
<1>3. CASE a.key = "tftp_port"
  <2> DEFINE p == IF IsPort(a.val) THEN a.val ELSE DefaultPort
  <2>1. TakeArg(cfg, a) = [cfg EXCEPT !.tftp_port = p]
    BY <1>3 DEF TakeArg
  <2>2. IsPort(p) /\ p \in Field(args)
    BY <1>1, StartupAssumption DEF Field
  <2>3. "tftp_port" \in DOMAIN NoConfig
    BY NoConfigFields
  <2> QED
    BY <2>1, <2>2, <2>3, FieldSet
<1>4. CASE a.key = "rule"
  <2>1. TakeArg(cfg, a) = TakeRule(cfg, a.val)
    BY <1>4 DEF TakeArg
  <2>2. a.val \in Texts(args)
    BY <1>4 DEF Texts
  <2> QED
    BY <2>1, <2>2, TakeRuleTyped
<1>5. CASE a.key \in {"node_pattern", "bmc_pattern"} /\ a.val # Empty
  <2>1. TakeArg(cfg, a) = TakeRule(cfg, TypeRule(PatternType(a.key), a.val))
    BY <1>5 DEF TakeArg
  <2>2. TypeRule(PatternType(a.key), a.val) \in Texts(args)
    BY <1>5 DEF Texts
  <2> QED
    BY <2>1, <2>2, TakeRuleTyped
<1>6. CASE /\ a.key \notin Settings \cup {"tftp_port", "rule"}
           /\ ~(a.key \in {"node_pattern", "bmc_pattern"} /\ a.val # Empty)
  BY <1>6 DEF TakeArg, Settings
<1> QED
  BY <1>2, <1>3, <1>4, <1>5, <1>6

\* The loop over the words, one turn after the other.
LEMMA ParseConfigDef ==
  ASSUME NEW args, Len(args) \in Nat, DOMAIN args = 1..Len(args)
  PROVE  \E f \in Runs(Len(args), ConfigOf(args)) :
           /\ f[0] = NoConfig
           /\ \A i \in 1..Len(args) :
                f[i] = IF i \in Plain(args) THEN TakeArg(f[i - 1], args[i]) ELSE f[i - 1]
           /\ ParseConfig(args) = f[Len(args)]
<1> DEFINE N == Len(args)
           V == ConfigOf(args)
           Turn(v, i) == IF Skipped(args, i) THEN v ELSE TakeArg(v, args[i])
           step == [p \in V \X (1..N) |-> Turn(p[1], p[2])]
<1> HIDE DEF N
<1>1. N \in Nat /\ DOMAIN args = 1..N
  BY DEF N
<1>2. \A i \in 1..N : Skipped(args, i) <=> i \notin Plain(args)
  BY PlainWords DEF N
<1>3. NoConfig \in V
  BY NoConfigTyped
<1>4. step \in Steps(N, V)
  <2>1. ASSUME NEW v \in V, NEW i \in 1..N PROVE Turn(v, i) \in V
    BY <1>2, TakeArgTyped
  <2> HIDE DEF V, Turn
  <2> QED
    BY <2>1 DEF Steps
<1> HIDE DEF V
<1>5. PICK g \in Runs(N, V) : Recurs(g, N, NoConfig, step)
  <2> HIDE DEF step
  <2> QED
    BY <1>1, <1>3, <1>4, FiniteRecursion
<1>6. ASSUME NEW i \in 1..N PROVE g[i] = Turn(g[i - 1], i)
  <2>1. g[i - 1] \in V
    BY <1>1 DEF Runs
  <2> HIDE DEF Turn
  <2> QED
    BY <1>5, <2>1 DEF Recurs
<1>7. g = [i \in 0..N |-> IF i = 0 THEN NoConfig ELSE Turn(g[i - 1], i)]
  <2>1. \A i \in 0..N : i = 0 \/ i \in 1..N
    BY <1>1
  <2> HIDE DEF Turn
  <2>2. \A i \in 0..N : g[i] = IF i = 0 THEN NoConfig ELSE Turn(g[i - 1], i)
    BY <1>5, <1>6, <2>1 DEF Recurs
  <2> QED
    BY <2>2 DEF Runs
<1>8. PICK f : /\ f = [i \in 0..N |-> IF i = 0 THEN NoConfig ELSE Turn(f[i - 1], i)]
               /\ ParseConfig(args) = f[N]
  BY <1>7 DEF ParseConfig, N
<1>9. /\ f[0] = NoConfig
      /\ \A i \in 1..N : f[i] = Turn(f[i - 1], i)
  <2> HIDE DEF Turn
  <2>1. \A i \in 0..N : f[i] = IF i = 0 THEN NoConfig ELSE Turn(f[i - 1], i)
    BY <1>8
  <2> QED
    BY <1>1, <2>1
<1>10. f \in Runs(N, V)
  <2>1. ASSUME NEW i \in 1..N, f[i - 1] \in V PROVE f[i] \in V
    <3>1. <<f[i - 1], i>> \in V \X (1..N)
      BY <2>1
    <3>2. step[<<f[i - 1], i>>] \in V
      BY <1>4, <3>1 DEF Steps
    <3> HIDE DEF Turn
    <3> QED
      BY <1>9, <3>1, <3>2
  <2> HIDE DEF Turn
  <2>2. \A i \in 0..N : f[i] \in V
    BY <1>1, <1>3, <1>9, <2>1, RunTyped
  <2> QED
    BY <1>8, <2>2 DEF Runs
<1> QED
  BY <1>2, <1>8, <1>9, <1>10 DEF N, V

-----------------------------------------------------------------------------
\* The words that set a key, among those that are read.
GoodFor(args, key) == {i \in Plain(args) : args[i].key = key /\ args[i].val \notin {Bad, Empty}}

KeepsGood(h, args, key) ==
  \A i \in 1..Len(args) :
    h[i] = IF i \in GoodFor(args, key) THEN args[i].val ELSE h[i - 1]

\* A sequence of values that keeps the last good one, and starts with a default, ends
\* with what the words say.
LEMMA LastGood ==
  ASSUME NEW args, Len(args) \in Nat, DOMAIN args = 1..Len(args), NEW key, NEW h,
         KeepsGood(h, args, key)
  PROVE  /\ h[Len(args)] = Says(args, key, h[0])
         /\ h[Len(args)] = h[0] \/ h[Len(args)] \notin {Bad, Empty}
<1> DEFINE N == Len(args)
           good == GoodFor(args, key)
           Last(i) == \/ h[i] = h[0] /\ \A j \in 1..i : j \notin good
                      \/ \E g \in good : /\ g <= i /\ h[i] = args[g].val
                                         /\ \A j \in good : j <= i => j <= g
           Good == {i \in 0..N : Last(i)}
<1>1. N \in Nat /\ good \in SUBSET (1..N)
  BY DEF GoodFor, Plain
<1> HIDE DEF N, good
<1>2. 0 \in Good
  BY <1>1
<1>3. ASSUME NEW i \in 1..N, i - 1 \in Good PROVE i \in Good
  <2>1. h[i] = IF i \in good THEN args[i].val ELSE h[i - 1]
    BY DEF N, good, KeepsGood
  <2>2. CASE i \in good
    <3>1. h[i] = args[i].val /\ i <= i /\ \A j \in good : j <= i => j <= i
      BY <1>1, <2>1, <2>2
    <3> QED
      BY <1>1, <2>2, <3>1
  <2>3. CASE i \notin good
    <3>1. h[i] = h[i - 1]
      BY <2>1, <2>3
    <3>2. \A j \in 1..i : j \in good => j \in 1..(i - 1) /\ j <= i - 1
      BY <1>1, <2>3
    <3>3. \A j \in good : j <= i => j <= i - 1
      BY <1>1, <2>3
    <3>4. CASE h[i - 1] = h[0] /\ \A j \in 1..(i - 1) : j \notin good
      BY <1>1, <3>1, <3>2, <3>4
    <3>5. ASSUME NEW g \in good, g <= i - 1, h[i - 1] = args[g].val,
                 \A j \in good : j <= i - 1 => j <= g
          PROVE  i \in Good
      <4>1. h[i] = args[g].val
        BY <3>1, <3>5
      <4>2. g <= i /\ i \in 0..N
        BY <1>1, <3>5
      <4>3. \A j \in good : j <= i => j <= g
        BY <3>3, <3>5
      <4> QED
        BY <4>1, <4>2, <4>3
    <3>6. Last(i - 1)
      BY <1>3
    <3> HIDE DEF Good
    <3> QED
      BY <3>4, <3>5, <3>6
  <2> QED
    BY <2>2, <2>3
<1>4. Last(N)
  <2>1. \A i \in 0..N : i \in Good
    <3> HIDE DEF Good
    <3> QED
      BY <1>1, <1>2, <1>3, IntervalInduction
  <2> HIDE DEF Last
  <2> QED
    BY <1>1, <2>1
<1>5. Says(args, key, h[0]) =
        IF good = {} THEN h[0] ELSE args[CHOOSE i \in good : \A j \in good : j <= i].val
  BY DEF Says, good, GoodFor
<1>6. h[N] = h[0] \/ h[N] \notin {Bad, Empty}
  BY <1>4 DEF good, GoodFor
<1>7. CASE good = {}
  BY <1>4, <1>5, <1>6, <1>7 DEF N
<1>8. CASE good # {}
  <2>1. PICK g \in good : h[N] = args[g].val /\ \A j \in good : j <= g
    <3>1. PICK j \in good : j \in 1..N
      BY <1>1, <1>8
    <3> QED
      BY <1>1, <1>4, <3>1
  <2>2. g = CHOOSE i \in good : \A j \in good : j <= i
    <3>1. \A i \in good : (\A j \in good : j <= i) => i = g
      BY <1>1, <2>1
    <3> QED
      BY <2>1, <3>1
  <2>3. h[N] = Says(args, key, h[0])
    BY <1>5, <1>8, <2>1, <2>2
  <2> QED
    BY <1>6, <2>3 DEF N
<1> QED
  BY <1>7, <1>8

\* Each setting of coresmd has the value of the last good word for it.
LEMMA ConfigWritten ==
  ASSUME NEW args, Len(args) \in Nat, DOMAIN args = 1..Len(args),
         \A i \in DOMAIN args : WellRead(args[i])
  PROVE  /\ ParseConfig(args) \in ConfigOf(args)
         /\ \A key \in Settings :
              /\ ParseConfig(args)[key] = Says(args, key, NoConfig[key])
              /\ ParseConfig(args)[key] \notin {Bad, Empty}
<1> DEFINE N == Len(args)
<1>1. PICK f \in Runs(N, ConfigOf(args)) :
        /\ f[0] = NoConfig
        /\ \A i \in 1..N :
             f[i] = IF i \in Plain(args) THEN TakeArg(f[i - 1], args[i]) ELSE f[i - 1]
        /\ ParseConfig(args) = f[N]
  BY ParseConfigDef
<1>2. ASSUME NEW key \in Settings
      PROVE  f[N][key] = Says(args, key, NoConfig[key]) /\ f[N][key] \notin {Bad, Empty}
  <2> DEFINE h == [i \in 0..N |-> f[i][key]]
             good == GoodFor(args, key)
  <2>1. ASSUME NEW i \in 1..N
        PROVE  h[i] = IF i \in good THEN args[i].val ELSE h[i - 1]
    <3>1. i \in 0..N /\ i - 1 \in 0..N /\ f[i - 1] \in ConfigOf(args)
      BY DEF Runs
    <3>2. h[i] = f[i][key] /\ h[i - 1] = f[i - 1][key]
      BY <3>1
    <3>3. CASE i \in Plain(args)
      <4>1. f[i] = TakeArg(f[i - 1], args[i]) /\ WellRead(args[i])
        BY <1>1, <3>3
      <4>2. TakeArg(f[i - 1], args[i])[key] =
              IF args[i].key = key /\ args[i].val \notin {Bad, Empty} THEN args[i].val
              ELSE f[i - 1][key]
        BY <3>1, <4>1, TakeArgSets
      <4> QED
        BY <3>2, <3>3, <4>1, <4>2 DEF GoodFor
    <3>4. CASE i \notin Plain(args)
      BY <1>1, <3>2, <3>4 DEF GoodFor
    <3> QED
      BY <3>3, <3>4
  <2>2. 0 \in 0..N /\ N \in 0..N
    OBVIOUS
  <2>3. h[0] = NoConfig[key] /\ h[N] = f[N][key]
    BY <1>1, <2>2
  <2>4. KeepsGood(h, args, key)
    <3> HIDE DEF h
    <3> QED
      BY <2>1 DEF KeepsGood
  <2> HIDE DEF h
  <2>5. NoConfig[key] \notin {Bad, Empty}
    BY NoConfigGood, NoConfigFields DEF Settings
  <2> QED
    BY <2>3, <2>4, <2>5, LastGood
<1>3. f[N] \in ConfigOf(args)
  BY DEF Runs
<1> QED
  BY <1>1, <1>2, <1>3

-----------------------------------------------------------------------------
(* bootloop *)

BootSettings == {"lease_file", "lease_time", "ipv4_start", "ipv4_end"}
BootFields   == BootSettings \cup {"script_path", "pools"}

LEMMA NoBootFields ==
  /\ DOMAIN NoBootConfig = BootFields /\ NoBootConfig.script_path = Unset
  /\ \A key \in BootSettings : NoBootConfig[key] = Unset
  BY DEF NoBootConfig, BootSettings, BootFields

\* What words can make of the configuration of bootloop; nothing is said of the pools.
BootValue(args) == {args[i].val : i \in DOMAIN args} \cup {Unset, DefaultScript}
BootPools(args) ==
  UNION {[C -> BootValue(args)] : C \in SUBSET {args[i].val.cidr : i \in DOMAIN args}}
BootOf(args) ==
  {cfg \in [BootFields -> BootValue(args) \cup BootPools(args)] :
     cfg.pools \in BootPools(args) /\ cfg.script_path \notin {Bad, Empty}}

LEMMA BootFieldSet ==
  ASSUME NEW args, NEW cfg \in BootOf(args), NEW k \in BootFields,
         NEW v \in BootValue(args) \cup BootPools(args),
         k = "pools" => v \in BootPools(args), k = "script_path" => v \notin {Bad, Empty}
  PROVE  [cfg EXCEPT ![k] = v] \in BootOf(args)
<1> DEFINE F == BootValue(args) \cup BootPools(args)
           new == [cfg EXCEPT ![k] = v]
<1>1. cfg \in [BootFields -> F] /\ cfg.pools \in BootPools(args)
      /\ cfg.script_path \notin {Bad, Empty}
  BY DEF BootOf
<1>2. "pools" \in BootFields /\ "script_path" \in BootFields /\ v \in F
  BY DEF BootFields
<1> HIDE DEF F
<1>3. new \in [BootFields -> F]
  BY <1>1, <1>2
<1>4. new.pools \in BootPools(args) /\ new.script_path \notin {Bad, Empty}
  BY <1>1, <1>2
<1> HIDE DEF new
<1>5. new \in BootOf(args)
  BY <1>3, <1>4 DEF BootOf, F
<1> QED
  BY <1>5 DEF new

LEMMA NoBootTyped ==
  ASSUME NEW args
  PROVE  NoBootConfig \in BootOf(args)
<1>1. NoBootConfig = [k \in BootFields |-> IF k = "pools" THEN <<>> ELSE Unset]
  BY DEF NoBootConfig, BootFields, BootSettings
<1>2. <<>> \in BootPools(args)
  <2>1. <<>> \in [{} -> BootValue(args)]
    OBVIOUS
  <2> QED
    BY <2>1 DEF BootPools
<1>3. Unset \in BootValue(args)
  BY DEF BootValue
<1> QED
  BY <1>1, <1>2, <1>3, StartupAssumption DEF BootOf, BootFields

\* A word for a setting with a good value sets it, and no other word changes it.
LEMMA TakeBootArgSets ==
  ASSUME NEW args, NEW cfg \in BootOf(args), NEW a, WellRead(a), NEW key \in BootSettings
  PROVE  TakeBootArg(cfg, a)[key] =
           IF a.key = key /\ a.val \notin {Bad, Empty} THEN a.val ELSE cfg[key]
<1>1. DOMAIN cfg = BootFields /\ key \in BootFields
  BY DEF BootOf, BootFields
<1>2. CASE a.key \in {"lease_time", "ipv4_start", "ipv4_end"}
  <2>1. TakeBootArg(cfg, a) = IF a.val = Bad THEN cfg ELSE [cfg EXCEPT ![a.key] = a.val]
    BY <1>2 DEF TakeBootArg
  <2>2. a.val # Empty
    BY <1>2 DEF WellRead
  <2> QED
    BY <1>1, <2>1, <2>2 DEF BootFields
<1>3. CASE a.key = "lease_file"
  <2>1. TakeBootArg(cfg, a) = IF a.val = Empty THEN cfg ELSE [cfg EXCEPT !.lease_file = a.val]
    BY <1>3 DEF TakeBootArg
  <2>2. a.val # Bad
    BY <1>3 DEF WellRead
  <2> QED
    BY <1>1, <1>3, <2>1, <2>2 DEF BootFields
<1>4. CASE a.key \notin BootSettings
  <2>1. key # "script_path" /\ key # "pools" /\ key # a.key
    BY <1>4 DEF BootSettings
  <2>2. \/ TakeBootArg(cfg, a) = cfg
        \/ \E p : TakeBootArg(cfg, a) = [cfg EXCEPT !.script_path = p]
        \/ \E p : TakeBootArg(cfg, a) = [cfg EXCEPT !.pools = p]
    BY <1>4 DEF TakeBootArg, BootSettings
  <2>3. TakeBootArg(cfg, a)[key] = cfg[key]
    BY <1>1, <2>1, <2>2
  <2> QED
    BY <2>1, <2>3
<1> QED
  BY <1>2, <1>3, <1>4 DEF BootSettings

LEMMA TakeBootArgTyped ==
  ASSUME NEW args, NEW cfg \in BootOf(args), NEW i \in DOMAIN args, WellRead(args[i])
  PROVE  TakeBootArg(cfg, args[i]) \in BootOf(args)
<1> DEFINE a == args[i]
<1>1. a.val \in BootValue(args) /\ DOMAIN cfg = BootFields
  BY DEF BootValue, BootOf
<1>2. CASE a.key \in BootSettings
  <2>1. \/ TakeBootArg(cfg, a) = cfg
        \/ TakeBootArg(cfg, a) = [cfg EXCEPT ![a.key] = a.val]
    BY <1>2 DEF TakeBootArg, BootSettings
  <2>2. a.key \in BootFields /\ a.key # "pools" /\ a.key # "script_path"
    BY <1>2 DEF BootFields, BootSettings
  <2>3. [cfg EXCEPT ![a.key] = a.val] \in BootOf(args)
    <3> HIDE DEF a
    <3> QED
      BY <1>1, <2>2, BootFieldSet
  <2> QED
    BY <2>1, <2>3
<1>3. CASE a.key = "script_path"
  <2> DEFINE p == IF a.val = Empty THEN DefaultScript ELSE a.val
  <2>1. TakeBootArg(cfg, a) = [cfg EXCEPT !.script_path = p]
    BY <1>3 DEF TakeBootArg
  <2>2. p \in BootValue(args) /\ p \notin {Bad, Empty}
    BY <1>1, <1>3, StartupAssumption DEF BootValue, WellRead
  <2> HIDE DEF a, p
  <2>3. [cfg EXCEPT !["script_path"] = p] \in BootOf(args)
    BY <2>2, BootFieldSet DEF BootFields
  <2> QED
    BY <2>1, <2>3 DEF a
<1>4. CASE a.key = "subnet_pool" /\ a.val # Bad
  <2> DEFINE cidr == a.val.cidr
             old == cfg.pools
             p == [c \in DOMAIN old \cup {cidr} |-> IF c = cidr THEN a.val ELSE old[c]]
  <2>1. TakeBootArg(cfg, a) = [cfg EXCEPT !.pools = p]
    BY <1>4 DEF TakeBootArg
  <2>2. p \in BootPools(args)
    <3>1. PICK C \in SUBSET {args[j].val.cidr : j \in DOMAIN args} : old \in [C -> BootValue(args)]
      BY DEF BootOf, BootPools
    <3>2. cidr \in {args[j].val.cidr : j \in DOMAIN args}
      OBVIOUS
    <3> HIDE DEF old, cidr, a
    <3>3. p \in [C \cup {cidr} -> BootValue(args)]
      BY <1>1, <3>1
    <3>4. C \cup {cidr} \in SUBSET {args[j].val.cidr : j \in DOMAIN args}
      BY <3>2
    <3> HIDE DEF p
    <3> QED
      BY <3>3, <3>4 DEF BootPools
  <2> HIDE DEF a, p
  <2>3. [cfg EXCEPT !["pools"] = p] \in BootOf(args)
    BY <2>2, BootFieldSet DEF BootFields
  <2> QED
    BY <2>1, <2>3 DEF a
<1>5. CASE /\ a.key \notin BootSettings \cup {"script_path"}
           /\ ~(a.key = "subnet_pool" /\ a.val # Bad)
  BY <1>5 DEF TakeBootArg, BootSettings
<1> QED
  BY <1>2, <1>3, <1>4, <1>5
\* The loop over the words of bootloop, likewise.
LEMMA ParseBootConfigDef ==
  ASSUME NEW args, Len(args) \in Nat, DOMAIN args = 1..Len(args),
         \A i \in DOMAIN args : WellRead(args[i])
  PROVE  \E f \in Runs(Len(args), BootOf(args)) :
           /\ f[0] = NoBootConfig
           /\ \A i \in 1..Len(args) :
                f[i] = IF i \in Plain(args) THEN TakeBootArg(f[i - 1], args[i]) ELSE f[i - 1]
           /\ ParseBootConfig(args) = f[Len(args)]
<1> DEFINE N == Len(args)
           V == BootOf(args)
           Turn(v, i) == IF Skipped(args, i) THEN v ELSE TakeBootArg(v, args[i])
           step == [p \in V \X (1..N) |-> Turn(p[1], p[2])]
<1> HIDE DEF N
<1>1. N \in Nat /\ DOMAIN args = 1..N
  BY DEF N
<1>2. \A i \in 1..N : Skipped(args, i) <=> i \notin Plain(args)
  BY PlainWords DEF N
<1>3. NoBootConfig \in V
  BY NoBootTyped
<1>4. step \in Steps(N, V)
  <2>1. ASSUME NEW v \in V, NEW i \in 1..N PROVE Turn(v, i) \in V
    <3>1. i \in DOMAIN args /\ WellRead(args[i])
      BY <1>1
    <3>2. TakeBootArg(v, args[i]) \in V
      BY <3>1, TakeBootArgTyped
    <3> QED
      BY <3>2
  <2> HIDE DEF V, Turn
  <2> QED
    BY <2>1 DEF Steps
<1> HIDE DEF V
<1>5. PICK g \in Runs(N, V) : Recurs(g, N, NoBootConfig, step)
  <2> HIDE DEF step
  <2> QED
    BY <1>1, <1>3, <1>4, FiniteRecursion
<1>6. ASSUME NEW i \in 1..N PROVE g[i] = Turn(g[i - 1], i)
  <2>1. g[i - 1] \in V
    BY <1>1 DEF Runs
  <2> HIDE DEF Turn
  <2> QED
    BY <1>5, <2>1 DEF Recurs
<1>7. g = [i \in 0..N |-> IF i = 0 THEN NoBootConfig ELSE Turn(g[i - 1], i)]
  <2>1. \A i \in 0..N : i = 0 \/ i \in 1..N
    BY <1>1
  <2> HIDE DEF Turn
  <2>2. \A i \in 0..N : g[i] = IF i = 0 THEN NoBootConfig ELSE Turn(g[i - 1], i)
    BY <1>5, <1>6, <2>1 DEF Recurs
  <2> QED
    BY <2>2 DEF Runs
<1>8. PICK f : /\ f = [i \in 0..N |-> IF i = 0 THEN NoBootConfig ELSE Turn(f[i - 1], i)]
               /\ ParseBootConfig(args) = f[N]
  BY <1>7 DEF ParseBootConfig, N
<1>9. /\ f[0] = NoBootConfig
      /\ \A i \in 1..N : f[i] = Turn(f[i - 1], i)
  <2> HIDE DEF Turn
  <2>1. \A i \in 0..N : f[i] = IF i = 0 THEN NoBootConfig ELSE Turn(f[i - 1], i)
    BY <1>8
  <2> QED
    BY <1>1, <2>1
<1>10. f \in Runs(N, V)
  <2>1. ASSUME NEW i \in 1..N, f[i - 1] \in V PROVE f[i] \in V
    <3>1. <<f[i - 1], i>> \in V \X (1..N)
      BY <2>1
    <3>2. step[<<f[i - 1], i>>] \in V
      BY <1>4, <3>1 DEF Steps
    <3> HIDE DEF Turn
    <3> QED
      BY <1>9, <3>1, <3>2
  <2> HIDE DEF Turn
  <2>2. \A i \in 0..N : f[i] \in V
    BY <1>1, <1>3, <1>9, <2>1, RunTyped
  <2> QED
    BY <1>8, <2>2 DEF Runs
<1> QED
  BY <1>2, <1>8, <1>9, <1>10 DEF N, V

\* Each setting of bootloop has, too.
LEMMA BootConfigWritten ==
  ASSUME NEW args, Len(args) \in Nat, DOMAIN args = 1..Len(args),
         \A i \in DOMAIN args : WellRead(args[i])
  PROVE  /\ ParseBootConfig(args) \in BootOf(args)
         /\ \A key \in BootSettings :
              /\ ParseBootConfig(args)[key] = Says(args, key, Unset)
              /\ ParseBootConfig(args)[key] \notin {Bad, Empty}
<1> DEFINE N == Len(args)
<1>1. PICK f \in Runs(N, BootOf(args)) :
        /\ f[0] = NoBootConfig
        /\ \A i \in 1..N :
             f[i] = IF i \in Plain(args) THEN TakeBootArg(f[i - 1], args[i]) ELSE f[i - 1]
        /\ ParseBootConfig(args) = f[N]
  BY ParseBootConfigDef
<1>2. ASSUME NEW key \in BootSettings
      PROVE  f[N][key] = Says(args, key, Unset) /\ f[N][key] \notin {Bad, Empty}
  <2> DEFINE h == [i \in 0..N |-> f[i][key]]
             good == GoodFor(args, key)
  <2>1. ASSUME NEW i \in 1..N
        PROVE  h[i] = IF i \in good THEN args[i].val ELSE h[i - 1]
    <3>1. i \in 0..N /\ i - 1 \in 0..N /\ f[i - 1] \in BootOf(args)
      BY DEF Runs
    <3>2. h[i] = f[i][key] /\ h[i - 1] = f[i - 1][key]
      BY <3>1
    <3>3. CASE i \in Plain(args)
      <4>1. f[i] = TakeBootArg(f[i - 1], args[i]) /\ WellRead(args[i])
        BY <1>1, <3>3
      <4>2. TakeBootArg(f[i - 1], args[i])[key] =
              IF args[i].key = key /\ args[i].val \notin {Bad, Empty} THEN args[i].val
              ELSE f[i - 1][key]
        BY <3>1, <4>1, TakeBootArgSets
      <4> QED
        BY <3>2, <3>3, <4>1, <4>2 DEF GoodFor
    <3>4. CASE i \notin Plain(args)
      BY <1>1, <3>2, <3>4 DEF GoodFor
    <3> QED
      BY <3>3, <3>4
  <2>2. 0 \in 0..N /\ N \in 0..N
    OBVIOUS
  <2>3. h[0] = Unset /\ h[N] = f[N][key]
    BY <1>1, <2>2, NoBootFields
  <2>4. KeepsGood(h, args, key)
    <3> HIDE DEF h
    <3> QED
      BY <2>1 DEF KeepsGood
  <2> HIDE DEF h
  <2> QED
    BY <2>3, <2>4, LastGood, StartupAssumption
<1>3. f[N] \in BootOf(args)
  BY DEF Runs
<1> QED
  BY <1>1, <1>2, <1>3

-----------------------------------------------------------------------------
\* What is not refused limits its rule as it says.
LEMMA LimitKept ==
  ASSUME NEW t, ~RuleRefused(t), NEW i \in DOMAIN t, t[i].val # Empty
  PROVE  Given(Dict(t), t[i].key) = t[i].val
<1>1. \A j \in DOMAIN t : t[j].key = t[i].key => j = i
  BY DEF RuleRefused, HasDict
<1>2. t[i].key \in DOMAIN Dict(t)
  BY DEF Dict
<1>3. (CHOOSE j \in DOMAIN t : t[j].key = t[i].key) = i
  BY <1>1
<1>4. Dict(t)[t[i].key] = t[i].val
  BY <1>3 DEF Dict
<1> QED
  BY <1>2, <1>4 DEF Given

LEMMA RuleLimits ==
  ASSUME NEW t, ~RuleRefused(t)
  PROVE  LET Limit(key) == {t[i].val : i \in {j \in DOMAIN t : t[j].key = key}} \ {Empty}
             r == ParseRule(t)
         IN  /\ Limit("type") \subseteq {r.types}
             /\ Limit("subnet") \subseteq {r.subnets}
             /\ Limit("id") \subseteq {r.id}
<1>1. /\ ParseRule(t).types = Given(Dict(t), "type")
      /\ ParseRule(t).subnets = Given(Dict(t), "subnet")
      /\ ParseRule(t).id = Given(Dict(t), "id")
  BY DEF ParseRule
<1> QED
  BY <1>1, LimitKept

\* What parseConfig returns: settings that parsed or are unset, a port in range, and
\* rules.
Parsed(cfg) ==
  /\ \A k \in DOMAIN NoConfig \ {"rules"} : cfg[k] \notin {Bad, Empty}
  /\ IsPort(cfg.tftp_port)
  /\ \A i \in DOMAIN cfg.rules : "log" \in DOMAIN cfg.rules[i]

BootParsed(cfg) ==
  \A k \in DOMAIN NoBootConfig \ {"pools"} : cfg[k] \notin {Bad, Empty}

LEMMA CoresmdParsed ==
  ASSUME NEW s \in Setups, s.plugin = "coresmd"
  PROVE  Parsed(ParseConfig(s.args))
<1> DEFINE cfg == ParseConfig(s.args)
<1>1. cfg \in ConfigOf(s.args) /\ \A key \in Settings : cfg[key] \notin {Bad, Empty}
  BY ConfigWritten, ParseAssumption
<1> HIDE DEF cfg
<1>2. IsPort(cfg.tftp_port) /\ cfg.tftp_port \notin {Bad, Empty}
  BY <1>1, StartupAssumption DEF ConfigOf, IsPort
<1>3. ASSUME NEW i \in DOMAIN cfg.rules PROVE "log" \in DOMAIN cfg.rules[i]
  <2>1. cfg.rules \in RulesOf(s.args)
    BY <1>1 DEF ConfigOf
  <2>2. PICK t : cfg.rules[i] = ParseRule(t)
    BY <2>1 DEF RulesOf
  <2> QED
    BY <2>2 DEF ParseRule
<1> QED
  BY <1>1, <1>2, <1>3, NoConfigFields DEF Parsed, cfg

LEMMA BootloopParsed ==
  ASSUME NEW s \in Setups, s.plugin = "bootloop"
  PROVE  BootParsed(ParseBootConfig(s.args))
<1> DEFINE cfg == ParseBootConfig(s.args)
<1>1. cfg \in BootOf(s.args) /\ \A key \in BootSettings : cfg[key] \notin {Bad, Empty}
  BY BootConfigWritten, ParseAssumption
<1> HIDE DEF cfg
<1>2. cfg.script_path \notin {Bad, Empty}
  BY <1>1 DEF BootOf
<1> QED
  BY <1>1, <1>2, NoBootFields DEF BootParsed, BootFields, cfg

-----------------------------------------------------------------------------
(* Setups *)

\* Configurations that validate has accepted and completed.
CoresmdReady(cfg) ==
  /\ \A k \in DOMAIN NoConfig \ {"ca_cert", "domain", "single_port", "rules"} : cfg[k] # Unset
  /\ \A k \in DOMAIN NoConfig \ {"rules"} : cfg[k] \notin {Bad, Empty}
  /\ IsPort(cfg.tftp_port) /\ cfg.tftp_port # 0
  /\ \A i \in DOMAIN cfg.rules : cfg.rules[i].log # Unset

BootReady(cfg) ==
  /\ \A k \in DOMAIN NoBootConfig \ {"pools"} : cfg[k] \notin {Bad, Empty}
  /\ BootComplete(cfg)
  /\ Unset \notin {cfg.script_path, cfg.lease_time}

-----------------------------------------------------------------------------
\* A rule without a level gets that of rule_log.
LEMMA LogSet ==
  ASSUME NEW r, NEW level, "log" \in DOMAIN r, level # Unset
  PROVE  WithLog(r, level).log # Unset
<1>1. WithLog(r, level).log = Or(r.log, level)
  BY Zenon DEF WithLog
<1> QED
  BY <1>1 DEF Or

\* validate of coresmd completes what it accepts, but for the certificate.
LEMMA DefaultsComplete ==
  ASSUME NEW cfg, Parsed(cfg), Complete(cfg)
  PROVE  CoresmdReady(WithDefaults(cfg))
<1> DEFINE level == Or(cfg.rule_log, DefaultLog)
           d == WithDefaults(cfg)
<1>1. DOMAIN NoConfig = {"svc_base_uri", "ipxe_base_uri", "ca_cert", "cache_valid", "lease_time",
                         "single_port", "tftp_dir", "tftp_port", "domain", "rule_log", "rules"}
  BY DEF NoConfig
<1>2. /\ d.svc_base_uri = cfg.svc_base_uri /\ d.ipxe_base_uri = cfg.ipxe_base_uri
      /\ d.ca_cert = cfg.ca_cert /\ d.domain = cfg.domain /\ d.single_port = cfg.single_port
      /\ d.cache_valid = Or(cfg.cache_valid, DefaultValid)
      /\ d.lease_time = Or(cfg.lease_time, DefaultLease)
      /\ d.tftp_port = (IF cfg.tftp_port = 0 THEN DefaultPort ELSE cfg.tftp_port)
      /\ d.tftp_dir = Or(cfg.tftp_dir, DefaultDir)
      /\ d.rule_log = level
      /\ d.rules = [i \in DOMAIN cfg.rules |-> WithLog(cfg.rules[i], level)]
  BY DEF WithDefaults
<1> HIDE DEF d
<1>3. IsPort(d.tftp_port) /\ d.tftp_port # 0
  BY <1>2, StartupAssumption DEF Parsed
<1>4. \A k \in DOMAIN NoConfig \ {"rules"} : cfg[k] \notin {Bad, Empty}
  BY DEF Parsed
<1>5. /\ d.tftp_port \notin {Unset, Bad, Empty}
      /\ \A x \in {DefaultValid, DefaultLease, DefaultDir, DefaultLog} : x \notin {Unset, Bad, Empty}
  BY <1>3, StartupAssumption DEF IsPort
<1>6. /\ \A k \in DOMAIN NoConfig \ {"rules"} : d[k] \notin {Bad, Empty}
      /\ \A k \in DOMAIN NoConfig \ {"ca_cert", "domain", "single_port", "rules"} :
           d[k] # Unset
  <2>1. /\ d.svc_base_uri \notin {Unset, Bad, Empty} /\ d.ipxe_base_uri \notin {Unset, Bad, Empty}
        /\ d.ca_cert \notin {Bad, Empty}
        /\ d.domain \notin {Bad, Empty} /\ d.single_port \notin {Bad, Empty}
    BY <1>1, <1>2, <1>4 DEF Complete
  <2>2. /\ d.cache_valid \notin {Unset, Bad, Empty} /\ d.lease_time \notin {Unset, Bad, Empty}
        /\ d.tftp_dir \notin {Unset, Bad, Empty} /\ d.rule_log \notin {Unset, Bad, Empty}
    BY <1>1, <1>2, <1>4, <1>5 DEF Or
  <2> QED
    BY <1>1, <1>5, <2>1, <2>2
<1>7. level # Unset
  BY StartupAssumption DEF Or
<1> HIDE DEF level
<1>8. \A i \in DOMAIN d.rules : d.rules[i].log # Unset
  BY <1>2, <1>7, LogSet DEF Parsed
<1> QED
  BY <1>3, <1>6, <1>8 DEF CoresmdReady, d

\* validate of bootloop completes what it accepts.
LEMMA BootDefaultsComplete ==
  ASSUME NEW cfg, BootParsed(cfg), BootComplete(cfg)
  PROVE  BootReady(WithBootDefaults(cfg))
<1> DEFINE d == WithBootDefaults(cfg)
<1>1. DOMAIN NoBootConfig = {"lease_file", "script_path", "lease_time", "ipv4_start", "ipv4_end",
                             "pools"}
  BY DEF NoBootConfig
<1>2. /\ d.lease_file = cfg.lease_file /\ d.pools = cfg.pools
      /\ d.ipv4_start = cfg.ipv4_start /\ d.ipv4_end = cfg.ipv4_end
      /\ d.lease_time = Or(cfg.lease_time, DefaultBootLease)
      /\ d.script_path = Or(cfg.script_path, DefaultScript)
  BY DEF WithBootDefaults
<1> HIDE DEF d
<1>3. \A k \in DOMAIN NoBootConfig \ {"pools"} : d[k] \notin {Bad, Empty}
  BY <1>1, <1>2, StartupAssumption DEF BootParsed, Or
<1>4. BootComplete(d)
  BY <1>2 DEF BootComplete
<1>5. Unset \notin {d.script_path, d.lease_time}
  BY <1>2, StartupAssumption DEF Or
<1> QED
  BY <1>3, <1>4, <1>5 DEF BootReady, d

-----------------------------------------------------------------------------
\* The TFTP directories of the deployments.
Dir == {dir \in {WithDefaults(ParseConfig(s.args)).tftp_dir : s \in Setups} : dir # Unset}

Server == [port : {p \in Nat : p <= 65535 /\ p # 0}, dir : Dir, up : BOOLEAN]

\* As long as no setup was refused and nothing has ended the process, each setup of
\* coresmd has left a cache and a server, and what is global was validated.
Configured ==
  process \in {"starting", "serving"} =>
    /\ Len(servers) = Len(caches)
    /\ (\E proto \in {4, 6} : <<"coresmd", proto>> \in handlers) =>
         smdCache \in DOMAIN caches /\ CoresmdReady(globalConfig) /\ globalConfig.ca_cert # Unset
    /\ <<"bootloop", 4>> \in handlers => BootReady(bootConfig)

StartInv ==
  /\ StartTypeOK
  /\ todo \in Seq(Setups)
  /\ servers \in Seq(Server)
  /\ Configured

LEMMA SetupNext ==
  ASSUME todo \in Seq(Setups), todo # <<>>
  PROVE  Current \in Setups /\ Tail(todo) \in Seq(Setups)
  BY DEF Current

\* What TftpServers are started with can be listened at.
LEMMA ServersTyped ==
  ASSUME NEW s \in Seq(Server)
  PROVE  \A k \in DOMAIN s : IsPort(s[k].port) /\ s[k].port # 0 /\ s[k].up \in BOOLEAN
<1>1. \A k \in DOMAIN s : s[k] \in Server
  OBVIOUS
<1> QED
  BY <1>1 DEF Server, IsPort

LEMMA FaultsBounded ==
  ASSUME StartInv, Fault
  PROVE  faults' \in 0..MaxFaults
<1>1. faults \in 0..MaxFaults
  BY DEF StartInv, StartTypeOK
<1> QED
  BY <1>1, StartupAssumption DEF Fault

\* What a setup of coresmd that is not refused leaves behind.
LEMMA CoresmdKeeps ==
  ASSUME StartInv, process = "starting", todo # <<>>, SetupCoresmd, UNCHANGED clientVars
  PROVE  StartInv'
<1> DEFINE parsed == ParseConfig(Current.args)
           cfg    == WithDefaults(parsed)
<1>1. Current \in Setups /\ Tail(todo) \in Seq(Setups) /\ Current.plugin = "coresmd"
  BY SetupNext DEF StartInv, SetupCoresmd
<1>2. Parsed(parsed) /\ Current.proto \in {4, 6}
  BY <1>1, CoresmdParsed, ParseAssumption
<1>3. CASE ~Complete(parsed)
  BY <1>3 DEF StartInv, StartTypeOK, Configured, SetupCoresmd, Stop, clientVars
<1>4. CASE Complete(parsed)
  <2>1. CoresmdReady(cfg)
    BY <1>2, <1>4, DefaultsComplete
  <2>2. RunCoresmd(cfg)
    BY <1>4 DEF SetupCoresmd
  <2> HIDE DEF cfg
  <2>3. \A k \in DOMAIN NoConfig \ {"rules"} : cfg[k] \notin {Bad, Empty}
    BY <2>1 DEF CoresmdReady
  <2>4. IsPort(cfg.tftp_port) /\ cfg.tftp_port # 0
    BY <2>1 DEF CoresmdReady
  <2>5. CASE cfg.ca_cert \notin Readable
    BY <2>2, <2>3, <2>4, <2>5 DEF RunCoresmd, StartInv, StartTypeOK, Configured, Stop, clientVars,
       SetupCoresmd
  <2>6. CASE cfg.ca_cert \in Readable
    <3>1. /\ globalConfig' = cfg
          /\ \/ caches' = Append(caches, TRUE) /\ Succeeds
             \/ caches' = Append(caches, FALSE) /\ Fault
          /\ smdCache' = Len(caches) + 1
      BY <2>2, <2>6 DEF RunCoresmd
    <3>2. UNCHANGED <<bootConfig, stage, file>>
      BY DEF SetupCoresmd, clientVars
    <3>3. faults' \in 0..MaxFaults
      BY <3>1, FaultsBounded DEF Succeeds, StartInv, StartTypeOK
    <3>4. /\ caches' \in Seq(BOOLEAN) /\ smdCache' \in 1..Len(caches')
          /\ Len(caches') = Len(caches) + 1
      <4>1. caches \in Seq(BOOLEAN)
        BY DEF StartInv, StartTypeOK
      <4>2. \A b \in BOOLEAN : /\ Append(caches, b) \in Seq(BOOLEAN)
                               /\ Len(Append(caches, b)) = Len(caches) + 1
        BY <4>1, AppendProperties
      <4>3. \E b \in BOOLEAN : caches' = Append(caches, b)
        BY <3>1, Zenon
      <4>4. caches' \in Seq(BOOLEAN) /\ Len(caches') = Len(caches) + 1
        BY <4>2, <4>3, Zenon
      <4>5. Len(caches) \in Nat
        BY <4>1, LenProperties, Zenon
      <4>6. smdCache' \in 1..Len(caches')
        BY <3>1, <4>4, <4>5
      <4> QED
        BY <4>4, <4>6
    <3>5. ASSUME process' \in {"starting", "exited"}, servers' \in Seq(Server),
                 handlers' \subseteq {"coresmd", "bootloop"} \X {4, 6}
          PROVE  StartTypeOK'
      <4>1. IsPort(globalConfig'.tftp_port)
        BY <2>4, <3>1
      <4>2. \A k \in DOMAIN NoConfig \ {"rules"} : globalConfig'[k] \notin {Bad, Empty}
        BY <2>3, <3>1
      <4>3. \A k \in DOMAIN NoBootConfig \ {"pools"} : bootConfig'[k] \notin {Bad, Empty}
        BY <3>2 DEF StartInv, StartTypeOK
      <4>4. \A k \in DOMAIN servers' : IsPort(servers'[k].port) /\ servers'[k].port # 0
                                       /\ servers'[k].up \in BOOLEAN
        BY <3>5, ServersTyped
      <4>5. stage' \in [Client -> {"off", "fetching", "ipxe", "booted", "rebooting"}]
        BY <3>2 DEF StartInv, StartTypeOK
      <4> QED
        BY <3>3, <3>4, <3>5, <4>1, <4>2, <4>3, <4>4, <4>5 DEF StartTypeOK
    <3>6. CASE cfg.cache_valid <= 0
      <4>1. process' = "exited" /\ UNCHANGED <<todo, servers, handlers>>
        BY <2>2, <2>6, <3>6 DEF RunCoresmd, Stop
      <4>2. StartTypeOK'
        BY <3>5, <4>1 DEF StartInv, StartTypeOK
      <4> QED
        BY <4>1, <4>2 DEF StartInv, Configured
    <3>7. CASE ~(cfg.cache_valid <= 0)
      <4>1. /\ servers' = Append(servers, [port |-> cfg.tftp_port, dir |-> cfg.tftp_dir,
                                           up |-> FALSE])
            /\ handlers' = handlers \cup {<<"coresmd", Current.proto>>}
            /\ todo' = Tail(todo) /\ process' = process
        BY <2>2, <2>6, <3>7 DEF RunCoresmd
      <4>2. cfg.tftp_dir \in Dir
        <5>1. cfg.tftp_dir # Unset
          BY <2>1 DEF CoresmdReady, NoConfig
        <5>2. cfg.tftp_dir \in {WithDefaults(ParseConfig(s.args)).tftp_dir : s \in Setups}
          BY <1>1 DEF cfg
        <5> QED
          BY <5>1, <5>2 DEF Dir
      <4>3. [port |-> cfg.tftp_port, dir |-> cfg.tftp_dir, up |-> FALSE] \in Server
        BY <2>4, <4>2 DEF Server, IsPort
      <4>4. servers' \in Seq(Server) /\ Len(servers') = Len(servers) + 1
        BY <4>1, <4>3 DEF StartInv
      <4>5. handlers' \subseteq {"coresmd", "bootloop"} \X {4, 6}
        BY <1>2, <4>1 DEF StartInv, StartTypeOK
      <4>6. StartTypeOK'
        BY <3>5, <4>1, <4>4, <4>5
      <4>7. Configured'
        <5>1. <<"bootloop", 4>> \in handlers' => BootReady(bootConfig')
          BY <3>2, <4>1 DEF StartInv, Configured
        <5>2. CoresmdReady(globalConfig') /\ globalConfig'.ca_cert # Unset
          BY <2>1, <2>6, <3>1, StartupAssumption
        <5>3. Len(servers') = Len(caches') /\ smdCache' \in DOMAIN caches'
          BY <3>4, <4>4 DEF StartInv, Configured
        <5> QED
          BY <5>1, <5>2, <5>3 DEF Configured
      <4> QED
        BY <1>1, <4>1, <4>4, <4>6, <4>7 DEF StartInv
    <3> QED
      BY <3>6, <3>7
  <2> QED
    BY <2>5, <2>6
<1> QED
  BY <1>3, <1>4

\* What a setup of bootloop leaves behind: a configuration that was refused is of a
\* process that is, too.
LEMMA BootloopKeeps ==
  ASSUME StartInv, process = "starting", todo # <<>>, SetupBootloop, UNCHANGED clientVars
  PROVE  StartInv'
<1> DEFINE parsed == ParseBootConfig(Current.args)
           cfg    == WithBootDefaults(parsed)
<1>1. Current \in Setups /\ Tail(todo) \in Seq(Setups) /\ Current.plugin = "bootloop"
  BY SetupNext DEF StartInv, SetupBootloop
<1>2. BootParsed(parsed)
  BY <1>1, BootloopParsed
<1>3. UNCHANGED <<globalConfig, smdCache, caches, servers, stage, file>>
  BY DEF SetupBootloop, clientVars
<1>4. \/ Succeeds \/ Fault
  BY DEF SetupBootloop, Succeeds
<1>5. faults' \in 0..MaxFaults
  BY <1>4, FaultsBounded DEF Succeeds, StartInv, StartTypeOK
<1>6. CASE Current.proto = 4 /\ BootComplete(parsed)
  <2>1. BootReady(cfg)
    BY <1>2, <1>6, BootDefaultsComplete
  <2>2. bootConfig' = cfg
    BY <1>6 DEF SetupBootloop
  <2>3. \/ handlers' = handlers \cup {<<"bootloop", 4>>} /\ todo' = Tail(todo) /\ process' = process
        \/ process' = "refused" /\ UNCHANGED <<todo, handlers>>
    BY <1>6 DEF SetupBootloop, Stop
  <2> HIDE DEF cfg
  <2>4. \A k \in DOMAIN NoBootConfig \ {"pools"} : bootConfig'[k] \notin {Bad, Empty}
    BY <2>1, <2>2 DEF BootReady
  <2>5. todo' \in Seq(Setups) /\ servers' \in Seq(Server)
    BY <1>1, <1>3, <2>3 DEF StartInv
  <2>6. process' \in {"starting", "refused"} /\ handlers' \subseteq {"coresmd", "bootloop"} \X {4, 6}
    BY <2>3 DEF StartInv, StartTypeOK
  <2>7. StartTypeOK'
    BY <1>3, <1>5, <2>4, <2>6 DEF StartInv, StartTypeOK
  <2>8. Configured'
    <3>1. \A proto : <<"coresmd", proto>> \in handlers' <=> <<"coresmd", proto>> \in handlers
      BY <2>3
    <3> QED
      BY <1>3, <2>1, <2>2, <2>3, <3>1 DEF StartInv, Configured
  <2> QED
    BY <2>5, <2>7, <2>8 DEF StartInv
<1>7. CASE ~(Current.proto = 4 /\ BootComplete(parsed))
  <2>1. process' = "refused" /\ UNCHANGED <<todo, handlers, bootConfig>>
    BY <1>7 DEF SetupBootloop, Stop
  <2> QED
    BY <1>3, <1>5, <2>1 DEF StartInv, StartTypeOK, Configured
<1> QED
  BY <1>6, <1>7

-----------------------------------------------------------------------------
\* Goroutines and clients

\* Steps that leave the setups, the caches and the servers alone.
LEMMA ClientsKeep ==
  ASSUME StartInv, UNCHANGED <<setupVars, caches, servers>>, Succeeds \/ Fault,
         process' \in {process, "exited"} \/ (process = "starting" /\ process' = "serving"),
         stage' \in [Client -> {"off", "fetching", "ipxe", "booted", "rebooting"}]
  PROVE  StartInv'
<1>1. faults' \in 0..MaxFaults
  BY FaultsBounded DEF Succeeds, StartInv, StartTypeOK
<1>2. StartTypeOK'
  BY <1>1 DEF StartInv, StartTypeOK, setupVars
<1> QED
  BY <1>2 DEF StartInv, Configured, setupVars

LEMMA SeqExcept ==
  ASSUME NEW S, NEW s \in Seq(S), NEW k \in DOMAIN s, NEW e \in S
  PROVE  [s EXCEPT ![k] = e] \in Seq(S) /\ Len([s EXCEPT ![k] = e]) = Len(s)
<1>1. DOMAIN s = 1..Len(s)
  BY LenProperties
<1> QED
  BY <1>1, ExceptSeq

LEMMA UpTyped ==
  ASSUME NEW P, NEW D, NEW r \in [port : P, dir : D, up : BOOLEAN]
  PROVE  [r EXCEPT !.up = TRUE] \in [port : P, dir : D, up : BOOLEAN]
  BY Zenon

LEMMA UpSeq ==
  ASSUME NEW s \in Seq(Server), NEW k \in DOMAIN s
  PROVE  [s EXCEPT ![k].up = TRUE] \in Seq(Server) /\ Len([s EXCEPT ![k].up = TRUE]) = Len(s)
<1> DEFINE e == [s[k] EXCEPT !.up = TRUE]
<1>1. s[k] \in Server
  OBVIOUS
<1>2. e \in Server
  BY <1>1, UpTyped DEF Server
<1>3. [s EXCEPT ![k].up = TRUE] = [s EXCEPT ![k] = e]
  BY Zenon
<1> HIDE DEF e
<1>4. [s EXCEPT ![k] = e] \in Seq(Server) /\ Len([s EXCEPT ![k] = e]) = Len(s)
  BY <1>2, SeqExcept
<1> QED
  BY <1>3, <1>4, Zenon

LEMMA TickKeeps ==
  ASSUME StartInv, NEW k \in DOMAIN caches, Tick(k)
  PROVE  StartInv'
<1>1. UNCHANGED <<setupVars, process, servers, clientVars>>
  BY DEF Tick
<1>2. /\ caches' = [caches EXCEPT ![k] = TRUE] \/ UNCHANGED caches
      /\ Succeeds \/ Fault
  BY DEF Tick
<1>3. caches \in Seq(BOOLEAN)
  BY DEF StartInv, StartTypeOK
<1>4. caches' \in Seq(BOOLEAN) /\ Len(caches') = Len(caches) /\ DOMAIN caches' = DOMAIN caches
  <2>1. DOMAIN caches = 1..Len(caches)
    BY <1>3, LenProperties, Zenon
  <2>2. [caches EXCEPT ![k] = TRUE] \in Seq(BOOLEAN) /\ Len([caches EXCEPT ![k] = TRUE]) = Len(caches)
    <3>1. TRUE \in BOOLEAN
      BY Zenon
    <3> QED
      BY <1>3, <3>1, SeqExcept
  <2>3. caches' \in Seq(BOOLEAN) /\ Len(caches') = Len(caches)
    BY <1>2, <1>3, <2>2, Zenon
  <2>4. DOMAIN caches' = 1..Len(caches')
    BY <2>3, LenProperties, Zenon
  <2> QED
    BY <2>1, <2>3, <2>4, Zenon
<1>5. faults' \in 0..MaxFaults
  BY <1>2, FaultsBounded DEF Succeeds, StartInv, StartTypeOK
<1>6. StartTypeOK'
  BY <1>1, <1>4, <1>5 DEF StartInv, StartTypeOK, setupVars, clientVars
<1> QED
  BY <1>1, <1>4, <1>6 DEF StartInv, Configured, setupVars

LEMMA ListenKeeps ==
  ASSUME StartInv, NEW k \in DOMAIN servers, Listen(k)
  PROVE  StartInv'
<1>1. UNCHANGED <<setupVars, caches, clientVars, faults>>
  BY DEF Listen
<1>2. \/ process' = "exited" /\ UNCHANGED servers
      \/ servers' = [servers EXCEPT ![k].up = TRUE] /\ UNCHANGED process
  BY DEF Listen, Stop
<1>3. servers \in Seq(Server)
  BY DEF StartInv
<1>4. [servers EXCEPT ![k].up = TRUE] \in Seq(Server) /\ Len([servers EXCEPT ![k].up = TRUE]) = Len(servers)
  BY <1>3, UpSeq, Zenon
<1>5. servers' \in Seq(Server) /\ Len(servers') = Len(servers)
  BY <1>2, <1>3, <1>4, Zenon
<1>6. StartTypeOK'
  BY <1>1, <1>2, <1>5, ServersTyped DEF StartInv, StartTypeOK, setupVars, clientVars
<1> QED
  BY <1>1, <1>2, <1>5, <1>6 DEF StartInv, Configured, setupVars

-----------------------------------------------------------------------------
LEMMA StartInitInv == StartInit => StartInv
<1> SUFFICES ASSUME StartInit PROVE StartInv
  OBVIOUS
<1>1. StartTypeOK
  <2>1. \A k \in DOMAIN NoConfig \ {"rules"} : NoConfig[k] \notin {Bad, Empty}
    BY NoConfigGood
  <2>2. \A k \in DOMAIN NoBootConfig \ {"pools"} : NoBootConfig[k] \notin {Bad, Empty}
    BY StartupAssumption DEF NoBootConfig
  <2>3. NoConfig.tftp_port = 0
    BY DEF NoConfig
  <2>4. IsPort(NoConfig.tftp_port)
    BY <2>3 DEF IsPort
  <2>5. stage \in [Client -> {"off", "fetching", "ipxe", "booted", "rebooting"}]
    BY DEF StartInit
  <2>6. caches \in Seq(BOOLEAN) /\ smdCache \in 0..Len(caches)
    BY DEF StartInit
  <2>7. faults \in 0..MaxFaults
    BY StartupAssumption DEF StartInit
  <2>8. servers = <<>> /\ handlers = {} /\ process = "starting" /\ globalConfig = NoConfig
        /\ bootConfig = NoBootConfig
    BY DEF StartInit
  <2> HIDE DEF NoConfig, NoBootConfig, IsPort
  <2> QED
    BY <2>1, <2>2, <2>4, <2>5, <2>6, <2>7, <2>8 DEF StartTypeOK
<1>2. todo \in Seq(Setups) /\ servers \in Seq(Server)
  BY ParseAssumption DEF StartInit
<1> QED
  BY <1>1, <1>2 DEF StartInit, StartInv, Configured

LEMMA StartNextInv == StartInv /\ [StartNext]_startVars => StartInv'
<1> SUFFICES ASSUME StartInv, [StartNext]_startVars PROVE StartInv'
  OBVIOUS
<1>1. CASE Setup
  BY <1>1, CoresmdKeeps, BootloopKeeps DEF Setup
<1>2. CASE Serve
  BY <1>2, ClientsKeep DEF Serve, Stop, Succeeds, clientVars, setupVars, StartInv, StartTypeOK
<1>3. CASE \E k \in DOMAIN caches : Tick(k)
  BY <1>3, TickKeeps
<1>4. CASE \E k \in DOMAIN servers : Listen(k)
  BY <1>4, ListenKeeps
<1>5. ASSUME NEW c \in Client, Exchange(c) \/ Fetch(c) \/ Reset(c)
      PROVE  StartInv'
  <2>1. UNCHANGED <<setupVars, process, caches, servers>> /\ (Succeeds \/ Fault)
    BY <1>5 DEF Exchange, Fetch, Reset, Succeeds
  <2>2. \E to \in {"off", "fetching", "ipxe", "booted", "rebooting"} : Goes(c, to)
    BY <1>5 DEF Exchange, Fetch, Reset, NameBootloader, NameBootScript, NameScript
  <2>3. stage' \in [Client -> {"off", "fetching", "ipxe", "booted", "rebooting"}]
    BY <2>2 DEF Goes, StartInv, StartTypeOK
  <2> QED
    BY <2>1, <2>3, ClientsKeep
<1>6. CASE UNCHANGED startVars
  BY <1>6, ClientsKeep DEF startVars, clientVars, setupVars, Succeeds, StartInv, StartTypeOK
<1> QED
  BY <1>1, <1>2, <1>3, <1>4, <1>5, <1>6 DEF StartNext

\* Settings, caches, servers and clients are of their types in every deployment
\* (setup4 and setup6 of both plugins, their goroutines and the boot stages).
THEOREM StartTypeCorrect == StartSpec => []StartTypeOK
<1>1. StartInv => StartTypeOK
  BY DEF StartInv
<1> QED
  BY <1>1, StartInitInv, StartNextInv, PTL DEF StartSpec

\* A process that serves has handlers that find all they use, for every deployment
\* whose words parse: validate completes what it accepts, a setup makes its cache
\* and its server before it installs its handler, and whatever goes wrong between
\* stops the process (setup4, setup6, validate).
THEOREM HandlersAlwaysConfigured == StartSpec => []HandlersConfigured
<1>1. ASSUME StartInv PROVE HandlersConfigured
  <2> SUFFICES ASSUME process = "serving" PROVE HandlersConfigured
    BY DEF HandlersConfigured
  <2>1. Len(servers) = Len(caches) /\ \A k \in DOMAIN servers : servers[k].dir # Unset
    <3>1. \A k \in DOMAIN servers : servers[k] \in Server
      BY <1>1 DEF StartInv
    <3> QED
      BY <1>1, <3>1 DEF StartInv, Configured, Server, Dir
  <2>2. ASSUME \E proto \in {4, 6} : <<"coresmd", proto>> \in handlers
        PROVE  /\ smdCache \in DOMAIN caches
               /\ \A k \in DOMAIN NoConfig \ {"domain", "single_port", "rules"} :
                    globalConfig[k] # Unset
               /\ \A i \in DOMAIN globalConfig.rules : globalConfig.rules[i].log # Unset
    BY <1>1, <2>2 DEF StartInv, Configured, CoresmdReady
  <2>3. ASSUME <<"bootloop", 4>> \in handlers
        PROVE  BootComplete(bootConfig) /\ Unset \notin {bootConfig.script_path, bootConfig.lease_time}
    BY <1>1, <2>3 DEF StartInv, Configured, BootReady
  <2> QED
    BY <2>1, <2>2, <2>3 DEF HandlersConfigured
<1> QED
  BY <1>1, StartInitInv, StartNextInv, PTL DEF StartSpec

\* Every setting of both plugins has the value of the last good word for it outside
\* comments, and a default if there is none, for every list of words: comments hide
\* what is in them and nothing else (parseConfig of both plugins).
THEOREM ConfigReadAsWritten == StartSpec => []ConfigAsWritten
<1>1. ASSUME StartInv PROVE ConfigAsWritten
  <2> SUFFICES ASSUME todo # <<>> PROVE ConfigAsWritten
    BY DEF ConfigAsWritten
  <2> DEFINE args == Current.args
  <2>1. Current \in Setups
    BY <1>1, SetupNext DEF StartInv
  <2>2. Len(args) \in Nat /\ DOMAIN args = 1..Len(args) /\ \A i \in DOMAIN args : WellRead(args[i])
    BY <2>1, ParseAssumption
  <2> HIDE DEF args
  <2>3. /\ DOMAIN ParseConfig(args) = Settings \cup {"tftp_port", "rules"}
        /\ \A key \in Settings : ParseConfig(args)[key] = Says(args, key, NoConfig[key])
    <3>1. /\ ParseConfig(args) \in ConfigOf(args)
          /\ \A key \in Settings : ParseConfig(args)[key] = Says(args, key, NoConfig[key])
      BY <2>2, ConfigWritten
    <3> QED
      BY <3>1, NoConfigFields DEF ConfigOf
  <2>4. \A key \in BootSettings : ParseBootConfig(args)[key] = Says(args, key, Unset)
    BY <2>2, BootConfigWritten
  <2> QED
    BY <2>3, <2>4 DEF ConfigAsWritten, BootSettings, args
<1> QED
  BY <1>1, StartInitInv, StartNextInv, PTL DEF StartSpec

\* Every rule in force comes from a text of the configuration and has each limit the
\* text has, for every text: what is wrong with one refuses the rule (ParseRule,
\* createRuleCompDict, parseConfig).
THEOREM RulesLimited == StartSpec => []RulesKeepTheirLimits
<1>1. ASSUME StartInv PROVE RulesKeepTheirLimits
  <2> SUFFICES ASSUME todo # <<>>, Current.plugin = "coresmd" PROVE RulesKeepTheirLimits
    BY DEF RulesKeepTheirLimits
  <2> DEFINE args == Current.args
             Limit(t, key) == {t[i].val : i \in {j \in DOMAIN t : t[j].key = key}} \ {Empty}
  <2>1. Current \in Setups
    BY <1>1, SetupNext DEF StartInv
  <2>2. Len(args) \in Nat /\ DOMAIN args = 1..Len(args) /\ \A i \in DOMAIN args : WellRead(args[i])
    BY <2>1, ParseAssumption
  <2> HIDE DEF args
  <2>3. ParseConfig(args).rules \in RulesOf(args)
    BY <2>2, ConfigWritten DEF ConfigOf
  <2>4. ASSUME NEW i \in DOMAIN ParseConfig(args).rules
        PROVE  LET r == ParseConfig(args).rules[i] IN
               \E t \in Texts(args) : /\ Limit(t, "type") \subseteq {r.types}
                                      /\ Limit(t, "subnet") \subseteq {r.subnets}
                                      /\ Limit(t, "id") \subseteq {r.id}
    <3>1. PICK t \in Texts(args) : ~RuleRefused(t) /\ ParseConfig(args).rules[i] = ParseRule(t)
      BY <2>3 DEF RulesOf
    <3> QED
      BY <3>1, RuleLimits
  <2> QED
    BY <2>4 DEF RulesKeepTheirLimits, Texts, args
<1> QED
  BY <1>1, StartInitInv, StartNextInv, PTL DEF StartSpec
=============================================================================
