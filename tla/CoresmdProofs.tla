---------------------------- MODULE CoresmdProofs ----------------------------
(***************************************************************************)
(* The walk over the rules gives every packet what the rules that count    *)
(* for it say, for all rules, packets and inventories.                     *)
(***************************************************************************)
EXTENDS Coresmd, Induction, SequenceTheorems, TLAPS

\* The rules the walk has dealt with, of those that count for the packet.
Past == {i \in Counting : i < idx}

\* As long as there is a rule to come, none before it has stopped the walk.
NotStopped ==
  idx \in DOMAIN rules =>
    \A j \in 1..(idx - 1) : Matches(rules[j]) => rules[j].continue /\ ~rules[j].ignore

\* The answer is that of the rules dealt with so far.
AnswerSoFar ==
  /\ \A i \in Past : ~rules[i].ignore
  /\ FromLast("name", NameSetters(Past), NoAnswer)
  /\ FromLast("routers", RouterSetters(Past), NoAnswer)
  /\ FromLast("mask", MaskSetters(Past), NoAnswer)

Label  == Name \cup {DefaultName} \cup Domain
Answer == [ip : Ip \cup {NoIp}, name : Seq(Label),
           routers : Router \cup {NoRouter}, mask : Mask \cup {NoMask}]

WalkType ==
  /\ rules \in Seq(Accepted)
  /\ domain \in Domain \cup {NoDomain}
  /\ pc \in {"lookup", "rules", "done"}
  /\ idx \in 1..(Len(rules) + 1)
  /\ answer \in Answer
  /\ outcome \in {"none", "next", "panic", "drop", "answer"}

WalkInv ==
  /\ WalkType
  /\ pc = "lookup" => idx = 1 /\ answer = NoAnswer
  /\ pc = "rules" => NotStopped /\ AnswerSoFar
  /\ pc # "done" => outcome = "none"
  /\ AnswerFollowsRules

-----------------------------------------------------------------------------
\* lookupHostname gives a name the domains that are promised for its rule, and
\* always some label.
LEMMA DomainsPromised ==
  ASSUME domain \in Domain \cup {NoDomain}, NEW name \in Name \cup {DefaultName}, NEW r,
         r.domain \in Domain \cup {NoDomain}, r.append \in Modes \cup {Omitted}
  PROVE  /\ LookupHostname(name, r) = <<name>> \o Promised(r)
         /\ LookupHostname(name, r) \in Seq(Label) \ {<<>>}
<1>1. \A d \in Domain \cup {NoDomain} : Given(d) \in Seq(Domain)
  BY DEF Given
<1>2. \A s \in Seq(Domain) : s \o <<>> = s /\ <<>> \o s = s
  OBVIOUS
<1>3. LookupHostname(name, r) = <<name>> \o Promised(r)
  <2>1. CASE r.append = Omitted
    BY <2>1, DomainAssumption DEF LookupHostname, Promised, Modes
  <2>2. CASE r.append = <<>>
    <3>1. Asked(r, 1) = <<>> /\ Asked(r, 2) = <<>>
      BY <2>2 DEF Asked
    <3> QED
      BY <2>2, <3>1, DomainAssumption DEF LookupHostname, Promised, Modes
  <2>3. CASE r.append = <<"global">>
    <3>1. Asked(r, 1) = Given(domain) /\ Asked(r, 2) = <<>>
      BY <2>3 DEF Asked
    <3> QED
      BY <1>1, <1>2, <2>3, <3>1, DomainAssumption DEF LookupHostname, Promised, Modes
  <2>4. CASE r.append = <<"rule">>
    <3>1. Asked(r, 1) = Given(r.domain) /\ Asked(r, 2) = <<>>
      BY <2>4 DEF Asked
    <3> QED
      BY <1>1, <1>2, <2>4, <3>1, DomainAssumption DEF LookupHostname, Promised, Modes
  <2>5. CASE r.append = <<"global", "rule">>
    <3>1. Asked(r, 1) = Given(domain) /\ Asked(r, 2) = Given(r.domain)
      BY <2>5 DEF Asked
    <3> QED
      BY <2>5, <3>1, DomainAssumption DEF LookupHostname, Promised, Modes
  <2>6. CASE r.append = <<"rule", "global">>
    <3>1. Asked(r, 1) = Given(r.domain) /\ Asked(r, 2) = Given(domain)
      BY <2>6 DEF Asked
    <3> QED
      BY <2>6, <3>1, DomainAssumption DEF LookupHostname, Promised, Modes
  <2> QED
    BY <2>1, <2>2, <2>3, <2>4, <2>5, <2>6 DEF Modes
<1>4. Asked(r, 1) \in Seq(Domain) /\ Asked(r, 2) \in Seq(Domain)
  BY <1>1 DEF Asked
<1>5. \A d \in Seq(Domain) : <<name>> \o d \in Seq(Label) \ {<<>>}
  BY DEF Label
<1> QED
  BY <1>1, <1>3, <1>4, <1>5 DEF LookupHostname

\* An accepted rule is a rule, and sets the mask it carries: ParseRule has left
\* Evaluate4 no implicit mask to find.
LEMMA AcceptedRule ==
  ASSUME NEW r \in Accepted
  PROVE  r \in Rule /\ MaskSet(r) = r.mask
<1>1. PICK w \in Written : r = ParseRule(w)
  BY DEF Accepted
<1>2. w \in Rule
  BY RuleAssumption
<1>3. CASE w.mask = NoMask /\ w.subnets # <<>>
  <2>1. w.subnets[1] \in Subnet
    BY <1>2, <1>3, EmptySeq DEF Rule
  <2>2. MaskOf[w.subnets[1]] \in Mask \cup {NoMask}
    BY <2>1, SubnetAssumption
  <2>3. r = [w EXCEPT !.mask = MaskOf[w.subnets[1]]]
    BY <1>1, <1>3 DEF ParseRule
  <2> QED
    BY <1>2, <2>2, <2>3, FamilyAssumption DEF Rule, MaskSet, Mask
<1>4. CASE ~(w.mask = NoMask /\ w.subnets # <<>>)
  <2>1. r = w
    BY <1>1, <1>4 DEF ParseRule
  <2> QED
    BY <1>2, <1>4, <2>1 DEF MaskSet
<1> QED
  BY <1>3, <1>4

LEMMA ConfigsAreSequences == Configs \subseteq Seq(Accepted)
  BY BoundAssumption DEF Configs, UpTo

\* What counts depends on the packet, the rules and the list only.
LEMMA WalkStable ==
  ASSUME UNCHANGED <<packet, rules, list>>
  PROVE  /\ Counting' = Counting
         /\ \A i \in DOMAIN rules : Matches(rules[i])' <=> Matches(rules[i])
<1>1. ASSUME NEW i
      PROVE  Matches(rules[i])' <=> Matches(rules[i])
  BY DEF Matches
<1>2. ASSUME NEW i
      PROVE  Counts(i)' <=> Counts(i)
  BY <1>1 DEF Counts
<1> QED
  BY <1>1, <1>2 DEF Counting

\* What a rule sets depends on the domain of the configuration only.
LEMMA SetsStable ==
  ASSUME UNCHANGED <<rules, domain>>
  PROVE  \A i : Sets(rules[i])' = Sets(rules[i])
BY DEF Sets, Promised

\* Before the first rule nothing has been dealt with.
LEMMA NothingYet ==
  ASSUME WalkType', idx' = 1
  PROVE  Past' = {} /\ NotStopped'
<1>1. DOMAIN rules' \subseteq Nat \ {0}
  BY DEF WalkType
<1> QED
  BY <1>1 DEF Past, Counting, NotStopped

\* The rule the walk has come to counts if it matches ...
LEMMA HereCounts ==
  ASSUME WalkType, NotStopped, idx \in DOMAIN rules, Matches(rules[idx])
  PROVE  idx \in Counting
  BY DEF WalkType, NotStopped, Counting, Counts

\* ... and does not if it fails.
LEMMA PastFail ==
  ASSUME WalkType, NotStopped, RuleFails
  PROVE  Past' = Past /\ NotStopped'
<1>1. Counting' = Counting /\ \A i \in DOMAIN rules : Matches(rules[i])' <=> Matches(rules[i])
  BY WalkStable DEF RuleFails
<1>2. idx \in DOMAIN rules /\ idx \notin Counting /\ idx' = idx + 1 /\ rules' = rules
  BY DEF RuleFails, Here, Counting, Counts
<1>3. DOMAIN rules = 1..Len(rules) /\ Len(rules) \in Nat /\ idx \in Nat
  BY DEF WalkType
<1>4. Past' = Past
  BY <1>1, <1>2, <1>3 DEF Past, Counting
<1>5. NotStopped'
  BY <1>1, <1>2, <1>3 DEF NotStopped, RuleFails
<1> QED
  BY <1>4, <1>5

\* A rule that applies is the last of those dealt with, whether the walk goes on
\* to the next one or to the end.
LEMMA PastApply ==
  ASSUME WalkType, NotStopped, RuleApplies
  PROVE  Past' = Past \cup {idx} /\ NotStopped' /\ \A i \in Past : i < idx
<1>1. Counting' = Counting /\ \A i \in DOMAIN rules : Matches(rules[i])' <=> Matches(rules[i])
  BY WalkStable DEF RuleApplies
<1>2. /\ idx \in DOMAIN rules /\ Matches(rules[idx]) /\ ~rules[idx].ignore /\ rules' = rules
      /\ idx' = IF rules[idx].continue THEN idx + 1 ELSE Len(rules) + 1
  BY DEF RuleApplies, Here
<1>3. DOMAIN rules = 1..Len(rules) /\ Len(rules) \in Nat /\ idx \in Nat
  BY DEF WalkType
<1>4. idx \in Counting
  BY <1>2, HereCounts
<1>5. CASE rules[idx].continue
  <2>1. Past' = Past \cup {idx}
    BY <1>1, <1>2, <1>3, <1>4, <1>5 DEF Past, Counting
  <2>2. NotStopped'
    BY <1>1, <1>2, <1>3, <1>5 DEF NotStopped
  <2> QED
    BY <2>1, <2>2 DEF Past
<1>6. CASE ~rules[idx].continue
  <2>1. \A i \in Counting : i <= idx
    BY <1>2, <1>3, <1>6 DEF Counting, Counts
  <2>2. Past' = Past \cup {idx}
    BY <1>1, <1>2, <1>3, <1>4, <1>6, <2>1 DEF Past, Counting
  <2>3. NotStopped'
    BY <1>1, <1>2, <1>3, <1>6 DEF NotStopped
  <2> QED
    BY <2>2, <2>3 DEF Past
<1> QED
  BY <1>5, <1>6

\* What a rule that applies adds to the answer is what AnswerSoFar asks for: the
\* last rule that sets an option has set it.
LEMMA ApplyKeepsUp ==
  ASSUME WalkType, NotStopped, AnswerSoFar, RuleApplies
  PROVE  AnswerSoFar' /\ WalkType'
<1> DEFINE r == rules[idx]
<1>1. /\ Past' = Past \cup {idx} /\ (\A i \in Past : i < idx)
      /\ rules' = rules /\ packet' = packet /\ domain' = domain /\ answer' = Apply(r)
      /\ idx \in DOMAIN rules /\ ~r.ignore
  BY PastApply DEF RuleApplies, Here
<1>2. r \in Rule /\ MaskSet(r) = r.mask
  BY <1>1, AcceptedRule DEF WalkType
<1>3. /\ answer' \in Answer
      /\ answer'.name = IF r.name # NoName THEN <<r.name>> \o Promised(r) ELSE answer.name
      /\ answer'.routers = IF packet.version = 4 /\ r.routers # NoRouter
                           THEN r.routers ELSE answer.routers
      /\ answer'.mask = IF packet.version = 4 /\ r.mask # NoMask
                        THEN r.mask ELSE answer.mask
  <2>1. r.name # NoName => /\ LookupHostname(r.name, r) = <<r.name>> \o Promised(r)
                           /\ LookupHostname(r.name, r) \in Seq(Label)
    BY <1>2, DomainsPromised DEF WalkType, Rule
  <2>2. /\ r.routers \in Router \cup {NoRouter} /\ r.mask \in Mask \cup {NoMask}
        /\ answer \in Answer
    BY <1>2 DEF Rule, WalkType
  <2> QED
    BY <1>1, <1>2, <2>1, <2>2 DEF Apply, Answer
<1>4. Past \subseteq Nat /\ idx \in Nat
  BY DEF WalkType, Past, Counting
<1>5. FromLast("name", NameSetters(Past), NoAnswer)'
  <2>1. \A i : Sets(rules[i])' = Sets(rules[i])
    BY <1>1, SetsStable
  <2>2. Sets(r).name = <<r.name>> \o Promised(r)
    BY DEF Sets
  <2>3. FromLast("name", NameSetters(Past), NoAnswer)
    BY DEF AnswerSoFar
  <2>4. CASE r.name = NoName
    <3>1. NameSetters(Past)' = NameSetters(Past) /\ answer'.name = answer.name
      BY <1>1, <1>3, <2>4 DEF NameSetters
    <3> QED
      BY <2>1, <2>3, <3>1 DEF FromLast, NoAnswer
  <2>5. CASE r.name # NoName
    <3>1. /\ idx \in NameSetters(Past)' /\ answer'.name = Sets(r).name
          /\ \A i \in NameSetters(Past)' : i = idx \/ (i \in Nat /\ i < idx)
      BY <1>1, <1>3, <1>4, <2>2, <2>5 DEF NameSetters
    <3>2. \A i \in NameSetters(Past)' : (\A j \in NameSetters(Past)' : j <= i) => i = idx
      BY <1>4, <3>1
    <3> QED
      BY <1>1, <2>1, <3>1, <3>2 DEF FromLast
  <2> QED
    BY <2>4, <2>5
<1>6. FromLast("routers", RouterSetters(Past), NoAnswer)'
  <2> DEFINE Says(i) == packet.version = 4 /\ rules[i].routers # NoRouter
  <2>1. \A i : Sets(rules[i])' = Sets(rules[i]) /\ Sets(rules[i]).routers = rules[i].routers
    BY <1>1, SetsStable DEF Sets
  <2>2. FromLast("routers", RouterSetters(Past), NoAnswer)
    BY DEF AnswerSoFar
  <2>3. CASE ~Says(idx)
    <3>1. RouterSetters(Past)' = RouterSetters(Past) /\ answer'.routers = answer.routers
      BY <1>1, <1>3, <2>3 DEF RouterSetters
    <3> QED
      BY <2>1, <2>2, <3>1 DEF FromLast, NoAnswer
  <2>4. CASE Says(idx)
    <3>1. /\ idx \in RouterSetters(Past)' /\ answer'.routers = r.routers
          /\ \A i \in RouterSetters(Past)' : i = idx \/ (i \in Nat /\ i < idx)
      BY <1>1, <1>3, <1>4, <2>4 DEF RouterSetters
    <3>2. \A i \in RouterSetters(Past)' : (\A j \in RouterSetters(Past)' : j <= i) => i = idx
      BY <1>4, <3>1
    <3> QED
      BY <1>1, <2>1, <3>1, <3>2 DEF FromLast
  <2> QED
    BY <2>3, <2>4
<1>7. FromLast("mask", MaskSetters(Past), NoAnswer)'
  <2> DEFINE Says(i) == packet.version = 4 /\ rules[i].mask # NoMask
  <2>1. \A i : Sets(rules[i])' = Sets(rules[i]) /\ Sets(rules[i]).mask = rules[i].mask
    BY <1>1, SetsStable DEF Sets
  <2>2. FromLast("mask", MaskSetters(Past), NoAnswer)
    BY DEF AnswerSoFar
  <2>3. CASE ~Says(idx)
    <3>1. MaskSetters(Past)' = MaskSetters(Past) /\ answer'.mask = answer.mask
      BY <1>1, <1>3, <2>3 DEF MaskSetters
    <3> QED
      BY <2>1, <2>2, <3>1 DEF FromLast, NoAnswer
  <2>4. CASE Says(idx)
    <3>1. /\ idx \in MaskSetters(Past)' /\ answer'.mask = r.mask
          /\ \A i \in MaskSetters(Past)' : i = idx \/ (i \in Nat /\ i < idx)
      BY <1>1, <1>3, <1>4, <2>4 DEF MaskSetters
    <3>2. \A i \in MaskSetters(Past)' : (\A j \in MaskSetters(Past)' : j <= i) => i = idx
      BY <1>4, <3>1
    <3> QED
      BY <1>1, <2>1, <3>1, <3>2 DEF FromLast
  <2> QED
    BY <2>3, <2>4
<1>8. \A i \in Past' : ~rules'[i].ignore
  BY <1>1 DEF AnswerSoFar
<1>9. WalkType'
  BY <1>1, <1>3 DEF WalkType, RuleApplies
<1> QED
  BY <1>5, <1>6, <1>7, <1>8, <1>9 DEF AnswerSoFar

\* At the end of the walk all rules that count are dealt with, and the default
\* hostname is given exactly if none of them names one.
LEMMA FinishFollowsRules ==
  ASSUME WalkType, AnswerSoFar, Finish
  PROVE  AnswerFollowsRules' /\ WalkType'
<1>1. /\ rules' = rules /\ packet' = packet /\ list' = list /\ idx' = idx
      /\ domain' = domain /\ pc' = "done" /\ outcome' = "answer" /\ idx \notin DOMAIN rules
  BY DEF Finish, Return
<1>2. Counting' = Counting
  BY <1>1, WalkStable
<1>3. Past = Counting
  BY <1>1 DEF WalkType, Past, Counting
<1>4. PICK ip \in Ip \cup {NoIp} :
        answer' = [answer EXCEPT !.ip = ip,
                                 !.name = IF @ = <<>> THEN LookupHostname(DefaultName, NoRule) ELSE @]
  BY DEF Finish, WalkType, Ip, Answer
<1>5. /\ answer' \in Answer
      /\ answer'.name = IF answer.name = <<>> THEN Default.name ELSE answer.name
      /\ answer'.routers = answer.routers /\ answer'.mask = answer.mask
  <2>1. LookupHostname(DefaultName, NoRule) \in Seq(Label) /\ answer \in Answer
    BY DomainsPromised DEF NoRule, WalkType
  <2>2. LookupHostname(DefaultName, NoRule) = Default.name
    BY DEF LookupHostname, NoRule, Default
  <2> QED
    BY <1>4, <2>1, <2>2 DEF Answer
<1>6. FromLast("name", NameSetters(Counting), Default)'
  <2>1. ASSUME NEW i \in NameSetters(Counting)
        PROVE  Sets(rules[i]).name # <<>>
    <3>1. rules[i] \in Rule /\ rules[i].name \in Name
      BY <2>1, AcceptedRule DEF NameSetters, Counting, WalkType, Rule
    <3> QED
      BY <3>1, DomainsPromised DEF Sets, WalkType, Rule
  <2>2. /\ domain' = domain /\ NameSetters(Counting)' = NameSetters(Counting)
        /\ \A i : Sets(rules[i])' = Sets(rules[i])
    BY <1>1, <1>2, SetsStable DEF NameSetters
  <2>3. FromLast("name", NameSetters(Counting), NoAnswer)
    BY <1>3 DEF AnswerSoFar
  <2> QED
    BY <1>1, <1>2, <1>5, <2>1, <2>2, <2>3 DEF FromLast, NoAnswer, Default
<1>7. FromLast("routers", RouterSetters(Counting), Default)'
  BY <1>1, <1>2, <1>3, <1>5 DEF AnswerSoFar, FromLast, RouterSetters, Sets, Default, NoAnswer
<1>8. FromLast("mask", MaskSetters(Counting), Default)'
  BY <1>1, <1>2, <1>3, <1>5 DEF AnswerSoFar, FromLast, MaskSetters, Sets, Default, NoAnswer
<1>9. \A i \in Counting' : ~rules'[i].ignore
  BY <1>1, <1>2, <1>3 DEF AnswerSoFar
<1>10. WalkType'
  BY <1>1, <1>5 DEF WalkType
<1> QED
  BY <1>1, <1>6, <1>7, <1>8, <1>9, <1>10 DEF AnswerFollowsRules

-----------------------------------------------------------------------------
\* The type of the handler's state, and that the walk keeps up with the rules, is
\* invariant: setting, overriding, stopping and dropping in Evaluate4 and
\* Evaluate6 go by the rules that count.
THEOREM WalkInvCorrect == Spec => []WalkInv
<1>1. Init => WalkInv
  <2> SUFFICES ASSUME Init PROVE WalkInv
    OBVIOUS
  <2>1. rules \in Seq(Accepted)
    BY ConfigsAreSequences DEF Init
  <2>2. WalkType
    BY <2>1 DEF Init, WalkType, NoAnswer, Answer
  <2> QED
    BY <2>2 DEF Init, WalkInv, AnswerFollowsRules
<1>2. WalkInv /\ [Next]_vars => WalkInv'
  <2> SUFFICES ASSUME WalkInv, [Next]_vars PROVE WalkInv'
    OBVIOUS
  <2> USE DEF WalkInv
  <2>1. CASE Lookup4 \/ Lookup6
    <3>1. /\ pc = "lookup" /\ rules' = rules /\ idx' = 1 /\ answer = NoAnswer
          /\ answer'.name = <<>> /\ answer'.routers = NoRouter /\ answer'.mask = NoMask
          /\ answer' \in Answer
          /\ domain' = domain
          /\ pc' = "rules" => outcome' = "none"
          /\ pc' \in {"rules", "done"} /\ outcome' \in {"none", "next", "panic"}
      BY <2>1 DEF Lookup4, Lookup6, Assign4, Return, NoAnswer, Ip, WalkType, Answer
    <3>2. WalkType'
      BY <3>1 DEF WalkType
    <3>3. Past' = {} /\ NotStopped'
      BY <3>1, <3>2, NothingYet
    <3>4. AnswerSoFar'
      BY <3>1, <3>3 DEF AnswerSoFar, FromLast, NameSetters, RouterSetters, MaskSetters, NoAnswer
    <3> QED
      BY <3>1, <3>2, <3>3, <3>4 DEF AnswerFollowsRules
  <2>2. CASE RuleFails
    <3>1. Past' = Past /\ NotStopped'
      BY <2>2, PastFail DEF RuleFails, Here
    <3>2. AnswerSoFar'
      BY <2>2, <3>1, SetsStable DEF RuleFails, Here, AnswerSoFar, FromLast, NameSetters,
         RouterSetters, MaskSetters, NoAnswer
    <3>3. WalkType'
      BY <2>2 DEF RuleFails, Here, WalkType
    <3> QED
      BY <2>2, <3>1, <3>2, <3>3 DEF RuleFails, Here, AnswerFollowsRules
  <2>3. CASE RuleIgnores
    <3>1. idx \in Counting
      BY <2>3, HereCounts DEF RuleIgnores, Here
    <3>2. Counting' = Counting
      BY <2>3, WalkStable DEF RuleIgnores
    <3>3. AnswerFollowsRules'
      BY <2>3, <3>1, <3>2 DEF RuleIgnores, Return, AnswerFollowsRules
    <3> QED
      BY <2>3, <3>3 DEF RuleIgnores, Return, WalkType
  <2>4. CASE RuleApplies
    <3>1. NotStopped'
      BY <2>4, PastApply DEF RuleApplies, Here
    <3>2. AnswerSoFar' /\ WalkType'
      BY <2>4, ApplyKeepsUp DEF RuleApplies, Here
    <3> QED
      BY <2>4, <3>1, <3>2 DEF RuleApplies, Here, AnswerFollowsRules
  <2>5. CASE Finish
    <3>1. AnswerFollowsRules' /\ WalkType'
      BY <2>5, FinishFollowsRules DEF Finish
    <3> QED
      BY <2>5, <3>1 DEF Finish, Return
  <2>6. CASE UNCHANGED vars
    <3>1. /\ packet' = packet /\ rules' = rules /\ domain' = domain /\ pc' = pc
          /\ list' = list /\ idx' = idx /\ answer' = answer /\ outcome' = outcome
      BY <2>6 DEF vars
    <3>2. WalkType'
      BY <3>1 DEF WalkType
    <3>3. Counting' = Counting /\ Past' = Past /\ \A i : Sets(rules[i])' = Sets(rules[i])
      BY <3>1, WalkStable, SetsStable DEF Past
    <3>4. NotStopped => NotStopped'
      <4>1. \A i : Matches(rules[i])' <=> Matches(rules[i])
        BY <3>1 DEF Matches
      <4> QED
        BY <3>1, <4>1 DEF NotStopped
    <3>5. ASSUME NEW S, NEW f, NEW d, FromLast(f, S, d)
          PROVE  FromLast(f, S, d)'
      <4>1. answer[f]' = answer[f] /\ \A i : Sets(rules[i])[f]' = Sets(rules[i])[f]
        BY <3>1, <3>3
      <4> QED
        BY <3>5, <4>1 DEF FromLast
    <3>6. /\ NoAnswer' = NoAnswer /\ Default' = Default
          /\ \A S : /\ NameSetters(S)' = NameSetters(S)
                   /\ RouterSetters(S)' = RouterSetters(S)
                   /\ MaskSetters(S)' = MaskSetters(S)
      BY <3>1 DEF NameSetters, RouterSetters, MaskSetters, NoAnswer, Default
    <3>7. AnswerSoFar => AnswerSoFar'
      BY <3>1, <3>3, <3>5, <3>6 DEF AnswerSoFar
    <3>8. AnswerFollowsRules'
      BY <3>1, <3>3, <3>5, <3>6 DEF AnswerFollowsRules
    <3> QED
      BY <3>1, <3>2, <3>4, <3>7, <3>8
  <2> QED
    BY <2>1, <2>2, <2>3, <2>4, <2>5, <2>6 DEF Next
<1> QED
  BY <1>1, <1>2, PTL DEF Spec

\* Every packet that is answered gets each option from the last rule that counts
\* for it and sets it, or the default, and a packet is dropped only, and whenever,
\* a rule that counts says so (Evaluate4, Evaluate6), whatever rules, subnets and
\* addresses there are.
THEOREM RulesFollowed == Spec => []AnswerFollowsRules
<1>1. WalkInv => AnswerFollowsRules
  BY DEF WalkInv
<1> QED
  BY <1>1, WalkInvCorrect, PTL

-----------------------------------------------------------------------------
(* The addresses the handler has to choose from *)

\* The loop that filters a list, one turn after the other.
LEMMA KeptDef ==
  ASSUME NEW T, NEW s \in Seq(T), NEW S
  PROVE  \E f : /\ f[0] = <<>>
                /\ \A i \in 1..Len(s) :
                     f[i] = IF s[i] \in S THEN Append(f[i - 1], s[i]) ELSE f[i - 1]
                /\ Kept(s, S) = f[Len(s)]
<1> DEFINE N == Len(s)
           Grow(v, i) == IF s[i] \in S THEN Append(v, s[i]) ELSE v
           step == [p \in Seq(T) \X (1..N) |-> Grow(p[1], p[2])]
<1>1. N \in Nat /\ \A i \in 1..N : s[i] \in T
  OBVIOUS
<1>2. step \in Steps(N, Seq(T)) /\ <<>> \in Seq(T)
  BY <1>1 DEF Steps
<1> HIDE DEF N
<1>3. PICK f \in Runs(N, Seq(T)) : Recurs(f, N, <<>>, step)
  <2> HIDE DEF step
  <2> QED
    BY <1>1, <1>2, FiniteRecursion
<1>4. ASSUME NEW i \in 1..N PROVE f[i] = Grow(f[i - 1], i)
  <2>1. f[i - 1] \in Seq(T)
    BY <1>1 DEF Runs
  <2> QED
    BY <1>3, <2>1 DEF Recurs
<1>5. f = [i \in 0..N |-> IF i = 0 THEN <<>> ELSE Grow(f[i - 1], i)]
  <2>1. \A i \in 0..N : i = 0 \/ i \in 1..N
    BY <1>1
  <2> HIDE DEF Grow
  <2>2. \A i \in 0..N : f[i] = IF i = 0 THEN <<>> ELSE Grow(f[i - 1], i)
    BY <1>3, <1>4, <2>1 DEF Recurs
  <2> QED
    BY <2>2 DEF Runs
<1>6. PICK k : /\ k = [i \in 0..N |-> IF i = 0 THEN <<>> ELSE Grow(k[i - 1], i)]
               /\ Kept(s, S) = k[N]
  BY <1>5 DEF Kept, N
<1>7. k[0] = <<>> /\ \A i \in 1..N : k[i] = Grow(k[i - 1], i)
  <2> HIDE DEF Grow
  <2>1. \A i \in 0..N : k[i] = IF i = 0 THEN <<>> ELSE Grow(k[i - 1], i)
    BY <1>6
  <2> QED
    BY <1>1, <2>1
<1> QED
  BY <1>6, <1>7 DEF N

\* A member of s that is in S is kept, and nothing else is.
LEMMA KeptMembers ==
  ASSUME NEW T, NEW s \in Seq(T), NEW S
  PROVE  /\ Kept(s, S) \in Seq(T \cap S)
         /\ Kept(s, S) = <<>> <=> \A i \in DOMAIN s : s[i] \notin S
<1> DEFINE N == Len(s)
<1>1. PICK f : /\ f[0] = <<>>
               /\ \A i \in 1..N : f[i] = IF s[i] \in S THEN Append(f[i - 1], s[i]) ELSE f[i - 1]
               /\ Kept(s, S) = f[N]
  BY KeptDef
<1>2. N \in Nat /\ DOMAIN s = 1..N /\ \A i \in 1..N : s[i] \in T
  OBVIOUS
<1> HIDE DEF N
<1> DEFINE Good == {i \in 0..N : /\ f[i] \in Seq(T \cap S)
                                 /\ f[i] = <<>> <=> \A j \in 1..i : s[j] \notin S}
<1>4. 0 \in Good
  <2>1. <<>> \in Seq(T \cap S)
    OBVIOUS
  <2>2. 0 \in 0..N /\ \A j \in 1..0 : s[j] \notin S
    BY <1>2
  <2> QED
    BY <1>1, <2>1, <2>2
<1>5. ASSUME NEW i \in 1..N, i - 1 \in Good PROVE i \in Good
  <2>1. /\ f[i - 1] \in Seq(T \cap S) /\ s[i] \in T /\ i \in 0..N
        /\ f[i - 1] = <<>> <=> \A j \in 1..(i - 1) : s[j] \notin S
        /\ \A j \in 1..i : j = i \/ j \in 1..(i - 1)
        /\ \A j \in 1..(i - 1) : j \in 1..i
    BY <1>2, <1>5
  <2>2. CASE s[i] \in S
    <3>1. f[i] = Append(f[i - 1], s[i])
      BY <1>1, <2>2
    <3>2. f[i] \in Seq(T \cap S) /\ f[i] # <<>>
      BY <2>1, <2>2, <3>1
    <3>3. i \in 1..i
      OBVIOUS
    <3> QED
      BY <2>1, <2>2, <3>2, <3>3
  <2>3. CASE s[i] \notin S
    <3>1. f[i] = f[i - 1]
      BY <1>1, <2>3
    <3> QED
      BY <2>1, <2>3, <3>1
  <2> QED
    BY <2>2, <2>3
<1>6. N \in Good
  <2> HIDE DEF Good
  <2> QED
    BY <1>2, <1>4, <1>5, IntervalInduction
<1> QED
  BY <1>1, <1>2, <1>6

-----------------------------------------------------------------------------
\* The list the handler goes by, once the lookup is done, has a first address, of
\* a subnet that holds the relay, if any does; and an answer carries a name.
ListInv ==
  /\ packet \in Packet
  /\ list \in Seq(Ip \cup {NoIp})
  /\ pc = "rules" => list # <<>>
  /\ (pc = "rules" \/ outcome = "answer") /\ packet.version = 4 /\ RelaySubnets # {} =>
       \E s \in RelaySubnets : list[1] \in Holds[s]
  /\ outcome = "answer" => answer.name # <<>>

\* The addresses SMD has for the interface, those it can read, and those of a
\* subnet.
LEMMA ListsOfLookup ==
  ASSUME packet \in Packet
  PROVE  /\ packet.ips \in Seq(Address)
         /\ Parsed \in Seq(Ip \cup {NoIp}) /\ (packet.ips # <<>> => Parsed # <<>>)
         /\ Readable \in Seq(Ip)
         /\ \A s \in Subnet : Within(s) \in Seq(Ip \cap Holds[s])
<1>1. packet.ips \in Seq(Address)
  BY BoundAssumption DEF Packet, UpTo
<1>2. Parsed \in Seq(Ip \cup {NoIp}) /\ (packet.ips # <<>> => Parsed # <<>>)
  <2>1. /\ DOMAIN packet.ips = 1..Len(packet.ips) /\ Len(packet.ips) \in Nat
        /\ \A i \in DOMAIN packet.ips : packet.ips[i] \in Address
    BY <1>1
  <2>2. Parsed \in Seq(Ip \cup {NoIp}) /\ Len(Parsed) = Len(packet.ips)
    BY <2>1 DEF Parsed, Address
  <2> QED
    BY <1>1, <2>2
<1>3. Readable \in Seq(Address \cap Ip)
  BY <1>1, KeptMembers DEF Readable
<1>4. Address \cap Ip = Ip
  BY DEF Address
<1>5. ASSUME NEW s \in Subnet
      PROVE  Within(s) \in Seq(Ip \cap Holds[s])
  BY <1>3, <1>4, KeptMembers DEF Within
<1> QED
  BY <1>1, <1>2, <1>3, <1>4, <1>5

\* Which subnets hold the relay is settled when the packet comes in.
LEMMA RelayStable ==
  ASSUME UNCHANGED <<packet, rules>>
  PROVE  Registered' = Registered /\ RelaySubnets' = RelaySubnets
<1>1. Registered' = Registered
  BY DEF Registered
<1> QED
  BY <1>1 DEF RelaySubnets

LEMMA Lookup4Keeps ==
  ASSUME WalkInv, ListInv, Lookup4
  PROVE  ListInv'
<1> USE DEF ListInv
<1>1. /\ UNCHANGED <<packet, rules>> /\ pc = "lookup" /\ outcome = "none"
      /\ RelaySubnets' = RelaySubnets /\ RelaySubnets \subseteq Subnet
      /\ RelaySubnets # {} => Registered # {}
  <2>1. UNCHANGED <<packet, rules>> /\ pc = "lookup"
    BY DEF Lookup4
  <2> QED
    BY <2>1, RelayStable DEF WalkInv, RelaySubnets, Registered
<1>2. CASE pc' = "done"
  <2>1. list' = list /\ outcome' \in {"next", "panic"}
    BY <1>1, <1>2 DEF Lookup4, Return, Assign4
  <2> QED
    BY <1>1, <1>2, <2>1
<1>3. CASE pc' = "rules"
  <2>1. /\ list' \in Seq(Ip \cup {NoIp}) /\ list' # <<>> /\ outcome' = "none"
        /\ RelaySubnets # {} => \E s \in RelaySubnets : list' = Within(s)
    <3>1. packet.ips # <<>> /\ packet.version = 4
      BY <1>3 DEF Lookup4, Return, LookupFails
    <3>2. CASE RelaySubnets = {} /\ list' = Parsed /\ outcome' = outcome
      BY <1>1, <3>1, <3>2, ListsOfLookup
    <3>3. CASE RelaySubnets = {} /\ list' = Readable /\ Readable # <<>> /\ outcome' = outcome
      BY <1>1, <3>3, ListsOfLookup
    <3>4. CASE \E s \in RelaySubnets : list' = Within(s) /\ Within(s) # <<>> /\ outcome' = outcome
      <4>1. PICK s \in RelaySubnets : list' = Within(s) /\ Within(s) # <<>> /\ outcome' = outcome
        BY <3>4
      <4>2. Within(s) \in Seq(Ip \cap Holds[s])
        BY <1>1, ListsOfLookup
      <4>3. Seq(Ip \cap Holds[s]) \subseteq Seq(Ip \cup {NoIp})
        OBVIOUS
      <4> QED
        BY <1>1, <4>1, <4>2, <4>3
    <3> QED
      BY <1>1, <1>3, <3>2, <3>3, <3>4 DEF Lookup4, Assign4, Return
  <2>2. ASSUME RelaySubnets # {}
        PROVE  \E s \in RelaySubnets : list'[1] \in Holds[s]
    <3>1. PICK s \in RelaySubnets : list' = Within(s)
      BY <2>1, <2>2
    <3>2. list' \in Seq(Ip \cap Holds[s]) /\ list' # <<>>
      BY <1>1, <2>1, <3>1, ListsOfLookup
    <3> QED
      BY <3>2
  <2> QED
    BY <1>1, <1>3, <2>1, <2>2
<1>4. pc' \in {"rules", "done"}
  BY <1>1 DEF Lookup4, Assign4, Return
<1> QED
  BY <1>2, <1>3, <1>4

LEMMA ListInvNext ==
  ASSUME WalkInv, WalkInv', ListInv, [Next]_vars
  PROVE  ListInv'
<1> USE DEF ListInv
<1>1. CASE Lookup4
  BY <1>1, Lookup4Keeps
<1>2. CASE Lookup6
  <2>1. packet.version = 6 /\ packet' = packet /\ answer' = answer
    BY <1>2 DEF Lookup6
  <2>2. /\ list' \in {list, Parsed} /\ outcome' # "answer"
        /\ pc' = "rules" => list' = Parsed /\ packet.ips # <<>>
    BY <1>2, ListsOfLookup DEF Lookup6, Return, LookupFails, WalkInv
  <2> QED
    BY <2>1, <2>2, ListsOfLookup
<1>3. CASE RuleFails \/ RuleApplies \/ RuleIgnores
  <2>1. /\ UNCHANGED <<packet, rules, list>> /\ pc = "rules" /\ outcome = "none"
        /\ outcome' \in {"none", "drop"}
    BY <1>3 DEF RuleFails, RuleApplies, RuleIgnores, Here, Return, WalkInv
  <2> QED
    BY <2>1, RelayStable
<1>4. CASE Finish
  <2>1. UNCHANGED <<packet, rules, list>> /\ pc = "rules" /\ pc' = "done"
    BY <1>4 DEF Finish, Return
  <2>2. answer'.name # <<>>
    <3>1. PICK ip : answer' = [answer EXCEPT !.ip = ip,
                  !.name = IF @ = <<>> THEN LookupHostname(DefaultName, NoRule) ELSE @]
      BY <1>4 DEF Finish
    <3>2. LookupHostname(DefaultName, NoRule) # <<>>
      BY DomainsPromised DEF NoRule, WalkInv, WalkType
    <3> QED
      BY <3>1, <3>2 DEF WalkInv, WalkType, Answer
  <2> QED
    BY <2>1, <2>2, RelayStable
<1>5. CASE UNCHANGED vars
  BY <1>5, RelayStable DEF vars
<1> QED
  BY <1>1, <1>2, <1>3, <1>4, <1>5 DEF Next

THEOREM ListInvCorrect == Spec => []ListInv
<1>1. Init => ListInv
  BY DEF Init, ListInv
<1>2. WalkInv /\ WalkInv' /\ ListInv /\ [Next]_vars => ListInv'
  BY ListInvNext
<1> QED
  BY <1>1, <1>2, WalkInvCorrect, PTL DEF Spec

\* The handler's state is well typed, the walk looks at a list that has a first
\* address, and every answer carries a hostname (Handler4, Handler6), whatever
\* rules, subnets and addresses there are.
THEOREM TypeCorrect == Spec => []TypeOK
<1>1. WalkInv /\ ListInv => TypeOK
  <2> SUFFICES ASSUME WalkInv, ListInv PROVE TypeOK
    OBVIOUS
  <2>1. rules \in Seq(Rule)
    <3>1. Accepted \subseteq Rule
      BY AcceptedRule
    <3> QED
      BY <3>1 DEF WalkInv, WalkType
  <2> QED
    BY <2>1 DEF WalkInv, WalkType, ListInv, TypeOK, Answer, Label
<1> QED
  BY <1>1, WalkInvCorrect, ListInvCorrect, PTL

\* A packet relayed from a subnet some rule names, which shares no address with
\* another such subnet, is answered with an address of that subnet, and only
\* rules for it or for any subnet have a say in it (LookupMACWithSubnet against
\* MatchIface), whatever rules, subnets and addresses there are.
THEOREM RelayConfinedCorrect == Spec => []RelayConfined
<1>1. TypeOK /\ ListInv => RelayConfined
  <2> SUFFICES ASSUME TypeOK, ListInv, outcome = "answer", packet.version = 4,
                      NEW s \in RelaySubnets,
                      \A q \in Registered \ {s} : Holds[q] \cap Holds[s] = {}
               PROVE  /\ list[1] \in Holds[s]
                      /\ \A i \in Counting : rules[i].subnets # <<>> =>
                           \E j \in DOMAIN rules[i].subnets : rules[i].subnets[j] = s
    BY DEF RelayConfined
  <2>1. list[1] \in Holds[s]
    <3>1. PICK t \in RelaySubnets : list[1] \in Holds[t]
      BY DEF ListInv
    <3>2. packet.giaddr \in Holds[s] /\ packet.giaddr \in Holds[t] /\ t \in Registered
      BY DEF RelaySubnets
    <3> QED
      BY <3>1, <3>2
  <2>2. ASSUME NEW i \in Counting, rules[i].subnets # <<>>
        PROVE  \E j \in DOMAIN rules[i].subnets : rules[i].subnets[j] = s
    <3>1. PICK j \in DOMAIN rules[i].subnets : list[1] \in Holds[rules[i].subnets[j]]
      BY <2>2 DEF Counting, Counts, Matches
    <3>2. i \in DOMAIN rules /\ rules[i].subnets[j] \in Subnet
      <4>1. i \in DOMAIN rules /\ rules[i] \in Rule
        BY DEF Counting, TypeOK
      <4>2. rules[i].subnets \in Seq(Subnet)
        BY <4>1 DEF Rule
      <4> QED
        BY <3>1, <4>1, <4>2
    <3>3. rules[i].subnets[j] \in Registered
      BY <3>1, <3>2 DEF Registered
    <3> QED
      BY <2>1, <3>1, <3>3
  <2> QED
    BY <2>1, <2>2
<1> QED
  BY <1>1, TypeCorrect, ListInvCorrect, PTL

=============================================================================
