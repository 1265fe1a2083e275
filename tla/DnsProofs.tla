------------------------------ MODULE DnsProofs ------------------------------
(***************************************************************************)
(* For every inventory, list of zones and stanza: the stanza is accepted   *)
(* if and only if it is well formed, and the zones and settings in force   *)
(* are its own; a name is answered with an address of a component that     *)
(* bears it, and whenever there is one; and the name given for an address  *)
(* leads back to it.                                                       *)
(***************************************************************************)
EXTENDS Dns, Induction, TLAPS

-----------------------------------------------------------------------------
(* The lookups, in any inventory the cache may hold *)

LEMMA UsableComp ==
  ASSUME NEW inv \in Held, NEW m \in Usable(inv)
  PROVE  /\ m \in Mac /\ inv.ei[m].comp \in Comp
         /\ inv.ei[m].addrs \in Seq(Addr \cup {Garbled})
<1>1. PICK i \in Inventories \cup {Empty}, j \in Inventories \cup {Empty} : inv = Copy(i, j)
  BY DEF Held
<1>2. m \in Mac /\ i.ei[m] # NoEi /\ inv.ei[m] = i.ei[m]
  BY <1>1 DEF Usable, Copy
<1>3. i \in Inventories
  BY <1>2 DEF Empty
<1> QED
  BY <1>2, <1>3, DnsAssumption

\* The first address of a family is one, and there is a first if there is any.
LEMMA FirstOfSound ==
  ASSUME NEW inv, NEW m, NEW fam, NEW a \in FirstOf(inv, m, fam)
  PROVE  a \in fam /\ Holds(inv, m, a)
  BY DEF FirstOf, Holds

LEMMA FirstOfComplete ==
  ASSUME NEW inv \in Held, NEW m \in Usable(inv), NEW fam, NEW a \in fam, Holds(inv, m, a)
  PROVE  FirstOf(inv, m, fam) # {}
<1> DEFINE addrs == inv.ei[m].addrs
           K == {k \in DOMAIN addrs : addrs[k] \in fam}
<1>1. addrs \in Seq(Addr \cup {Garbled})
  BY UsableComp
<1>2. K \in SUBSET Nat /\ K # {} /\ \A k \in DOMAIN addrs : \A j \in 1..(k - 1) : j \in DOMAIN addrs
  BY <1>1 DEF Holds
<1>3. PICK k \in K : \A j \in K : k <= j
  BY <1>2, LeastElement
<1>4. \A j \in 1..(k - 1) : addrs[j] \notin fam
  BY <1>2, <1>3
<1> QED
  BY <1>3, <1>4 DEF FirstOf

\* Of the loops that find an address there is a first.
LEMMA FirstLoop ==
  ASSUME NEW zones, NEW H \in SUBSET Loops(zones), H # {}
  PROVE  \E p \in H : \A q \in H : ~Before(q, p)
<1> DEFINE rank(p) == 2 * p[1] + (IF p[2] = "Node" THEN 0 ELSE 1)
           R == {rank(p) : p \in H}
<1>1. \A p \in H : p[1] \in Nat /\ p[2] \in {"Node", "NodeBMC"}
  BY DEF Loops
<1>2. R \in SUBSET Nat /\ R # {}
  BY <1>1
<1>3. PICK r \in R : \A x \in R : r <= x
  <2> HIDE DEF R
  <2> QED
    BY <1>2, LeastElement
<1>4. PICK p \in H : r = rank(p)
  BY <1>3
<1>5. ASSUME NEW q \in H
      PROVE  ~Before(q, p)
  <2>1. rank(p) <= rank(q)
    BY <1>3, <1>4, <1>5
  <2> QED
    BY <1>1, <1>5, <2>1 DEF Before
<1> QED
  BY <1>5

\* What is found is an address of a component that bears the name ...
LEMMA LookupSound ==
  ASSUME NEW inv \in Held, NEW zones, Len(zones) \in Nat, DOMAIN zones = 1..Len(zones),
         NEW fam, NEW name, NEW a \in Lookup(inv, zones, fam, name)
  PROVE  \E c \in BearersOf(zones, name) : a \in AddressesOf(inv, c, fam)
<1>1. PICK p \in Loops(zones) :
        \E m \in Hits(inv, fam, name, zones[p[1]], p[2]) : a \in FirstOf(inv, m, fam)
  BY DEF Lookup
<1>2. PICK m \in Hits(inv, fam, name, zones[p[1]], p[2]) : a \in FirstOf(inv, m, fam)
  BY <1>1
<1>3. /\ m \in Usable(inv) /\ Bears(inv.ei[m].comp, p[2], name, zones[p[1]])
      /\ a \in fam /\ Holds(inv, m, a) /\ inv.ei[m].comp \in Comp
  BY <1>2, FirstOfSound, UsableComp DEF Hits
<1>4. p[1] \in DOMAIN zones /\ p[2] \in {"Node", "NodeBMC"}
  BY <1>1 DEF Loops
<1> QED
  BY <1>3, <1>4 DEF BearersOf, AddressesOf

\* ... and something is found if such a component has an address.
LEMMA LookupComplete ==
  ASSUME NEW inv \in Held, NEW zones, Len(zones) \in Nat, DOMAIN zones = 1..Len(zones),
         NEW fam, NEW name, NEW c \in BearersOf(zones, name), NEW a \in AddressesOf(inv, c, fam)
  PROVE  Lookup(inv, zones, fam, name) # {}
<1> DEFINE hits(p) == Hits(inv, fam, name, zones[p[1]], p[2])
           H == {p \in Loops(zones) : hits(p) # {}}
<1>1. PICK i \in 1..Len(zones), t \in {"Node", "NodeBMC"} : Bears(c, t, name, zones[i])
  BY DEF BearersOf
<1>2. PICK m \in Usable(inv) : inv.ei[m].comp = c /\ Holds(inv, m, a) /\ a \in fam
  BY DEF AddressesOf
<1>3. FirstOf(inv, m, fam) # {}
  BY <1>2, FirstOfComplete
<1>4. <<i, t>> \in H
  BY <1>1, <1>2, <1>3 DEF Loops, Hits
<1>5. PICK p \in H : \A q \in H : ~Before(q, p)
  <2>1. H \in SUBSET Loops(zones) /\ H # {}
    BY <1>4
  <2> HIDE DEF H
  <2> QED
    BY <2>1, FirstLoop
<1>6. PICK n \in hits(p) : FirstOf(inv, n, fam) # {}
  BY <1>5 DEF Hits
<1>7. \A q \in Loops(zones) : Before(q, p) => hits(q) = {}
  BY <1>5
<1> QED
  BY <1>5, <1>6, <1>7 DEF Lookup

\* The name given for an address is borne by a component that has the address.
LEMMA LookupPTRSound ==
  ASSUME NEW inv \in Held, NEW zones, Len(zones) \in Nat, DOMAIN zones = 1..Len(zones),
         NEW a \in Addr, NEW n \in LookupPTR(inv, zones, a)
  PROVE  /\ n.host \in Comp
         /\ n.host \in BearersOf(zones, n)
         /\ \A fam : a \in fam => a \in AddressesOf(inv, n.host, fam)
<1>1. PICK p \in Usable(inv) \X (1..Len(zones)) :
        /\ n = [host |-> inv.ei[p[1]].comp, zone |-> zones[p[2]].name]
        /\ Holds(inv, p[1], a)
        /\ Names(inv.ei[p[1]].comp, zones[p[2]])
  BY DEF LookupPTR
<1> DEFINE c == inv.ei[p[1]].comp
<1>2. p[1] \in Usable(inv) /\ p[2] \in DOMAIN zones /\ n.host = c /\ n.zone = zones[p[2]].name
  BY <1>1
<1>3. Type[c] \in {"Node", "NodeBMC"} /\ Bears(c, Type[c], n, zones[p[2]])
  BY <1>1, <1>2 DEF Names, Bears
<1>4. c \in Comp
  BY <1>2, UsableComp
<1> QED
  BY <1>1, <1>2, <1>3, <1>4 DEF BearersOf, AddressesOf

\* A component's ID is nobody else's name, in zones whose patterns are known.
ZonesRead(zones) ==
  \E S : zones \in Seq(S) /\ \A z \in S : z.pattern \in Pattern \cup {Unset}

LEMMA OnlyBearer ==
  ASSUME NEW zones, ZonesRead(zones), NEW n, n.host \in Comp, NEW c \in BearersOf(zones, n)
  PROVE  c = n.host
<1>1. PICK S : zones \in Seq(S) /\ \A z \in S : z.pattern \in Pattern \cup {Unset}
  BY DEF ZonesRead
<1>2. PICK i \in DOMAIN zones : \E t \in {"Node", "NodeBMC"} : Bears(c, t, n, zones[i])
  BY DEF BearersOf
<1>3. zones[i].pattern \in Pattern \cup {Unset} /\ c \in Comp
  BY <1>1, <1>2 DEF BearersOf
<1> QED
  BY <1>2, <1>3, DnsAssumption DEF Bears

\* So the way back from the name of an address ends at its component.
LEMMA ThereAndBack ==
  ASSUME NEW inv \in Held, NEW zones, ZonesRead(zones), NEW fam,
         NEW a \in Addr, a \in fam, NEW n \in LookupPTR(inv, zones, a)
  PROVE  /\ a \in AddressesOf(inv, n.host, fam) /\ n.host \in Comp
         /\ Lookup(inv, zones, fam, n) # {}
         /\ Lookup(inv, zones, fam, n) \subseteq AddressesOf(inv, n.host, fam)
<1>1. Len(zones) \in Nat /\ DOMAIN zones = 1..Len(zones)
  BY DEF ZonesRead
<1>2. /\ n.host \in Comp /\ n.host \in BearersOf(zones, n)
      /\ a \in AddressesOf(inv, n.host, fam)
  BY <1>1, LookupPTRSound
<1>3. Lookup(inv, zones, fam, n) # {}
  BY <1>1, <1>2, LookupComplete
<1>4. ASSUME NEW b \in Lookup(inv, zones, fam, n)
      PROVE  b \in AddressesOf(inv, n.host, fam)
  <2>1. PICK c \in BearersOf(zones, n) : b \in AddressesOf(inv, c, fam)
    BY <1>1, <1>4, LookupSound
  <2>2. c = n.host
    BY <1>2, OnlyBearer
  <2> QED
    BY <2>1, <2>2
<1> QED
  BY <1>2, <1>3, <1>4

-----------------------------------------------------------------------------
(* Reading the stanza *)

\* What the parsers have at any time: a cursor in a stanza, and zones whose
\* patterns stand in it.
ReadInv ==
  /\ text \in Stanzas /\ cursor \in Nat
  /\ DOMAIN conf = {"smdURL", "caCert", "cacheDuration", "zones"}
  /\ DOMAIN zone = {"name", "pattern"}
  /\ zone.pattern \in Pattern \cup {Unset}
  /\ ZonesRead(conf.zones)
  /\ reading \in {"block", "zone", "done", "refused"}

LEMMA ReadInvInit == CorefileInit => ReadInv
<1> SUFFICES ASSUME CorefileInit PROVE ReadInv
  OBVIOUS
<1>1. <<>> \in Seq({}) /\ conf.zones = <<>>
  BY DEF CorefileInit, EmptyConf
<1>2. ZonesRead(conf.zones)
  BY <1>1 DEF ZonesRead
<1> QED
  BY <1>2 DEF CorefileInit, EmptyConf, NoZone, ReadInv

LEMMA ReadInvNext == ReadInv /\ ReadCorefile => ReadInv'
<1> SUFFICES ASSUME ReadInv, ReadCorefile PROVE ReadInv'
  OBVIOUS
<1> USE DEF ReadInv
<1>1. Ahead \in Nat /\ Ahead + 1 \in Nat /\ Ahead + 2 \in Nat
  BY DEF Ahead
<1>2. text' = text
  BY DEF ReadCorefile, ReadDirective, ReadZone
<1>3. CASE EndOfStanza
  BY <1>1, <1>2, <1>3 DEF EndOfStanza
<1>4. ASSUME NEW w, NEW f \in {"smdURL", "caCert", "cacheDuration"}, Setting(w, f)
      PROVE  ReadInv'
  BY <1>1, <1>2, <1>4 DEF Setting, Refuse
<1>5. CASE ZoneOpens
  BY <1>1, <1>2, <1>5 DEF ZoneOpens, NoZone, Refuse
<1>6. CASE ZoneEnds
  <2>1. PICK S : conf.zones \in Seq(S) /\ \A z \in S : z.pattern \in Pattern \cup {Unset}
    BY DEF ZonesRead
  <2>2. conf'.zones = Append(conf.zones, zone) /\ DOMAIN conf' = DOMAIN conf
    BY <1>6 DEF ZoneEnds
  <2>3. conf'.zones \in Seq(S \cup {zone})
    BY <2>1, <2>2
  <2>4. ZonesRead(conf'.zones)
    BY <2>1, <2>3 DEF ZonesRead
  <2> QED
    BY <1>1, <1>2, <1>6, <2>2, <2>4 DEF ZoneEnds, NoZone
<1>7. CASE Nodes
  <2>1. CASE ~seenNodes /\ HasArg(cursor + 1)
    <3>1. Len(text) \in Nat /\ cursor + 1 \in 1..(Len(text) - 1)
      BY <2>1, StanzaAssumption DEF HasArg
    <3>2. text[cursor + 1 + 1].word \in Pattern
      BY <1>7, <2>1, <3>1, StanzaAssumption DEF Nodes, HasArg, Word
    <3>3. Word(cursor + 2) \in Pattern
      BY <3>2 DEF Word
    <3> QED
      BY <1>2, <1>7, <2>1, <3>3 DEF Nodes
  <2>2. CASE ~(~seenNodes /\ HasArg(cursor + 1))
    BY <1>2, <1>7, <2>2 DEF Nodes, Refuse
  <2> QED
    BY <2>1, <2>2
<1>8. CASE Refuse
  BY <1>2, <1>8 DEF Refuse
<1> QED
  BY <1>3, <1>4, <1>5, <1>6, <1>7, <1>8 DEF ReadCorefile, ReadDirective, ReadZone

-----------------------------------------------------------------------------
(* The zones of the stanza *)

\* What has been read up to c: the zones stand where at says, and those on lines
\* of their own are among them, or the one that is open.
ReadUpTo(zones, at, c, open) ==
  /\ at \in [DOMAIN zones -> 1..c]
  /\ \A j, k \in DOMAIN zones : j < k => at[j] < at[k]
  /\ \A k \in DOMAIN zones : IsZoneAt(zones[k], at[k])
  /\ open # 0 => \A k \in DOMAIN zones : at[k] < open
  /\ WellBraced =>
       /\ \A k \in DOMAIN zones : Close(at[k]) <= c
       /\ \A p \in 1..c : Word(p) = "zone" /\ StartsLine(p) =>
            p = open \/ \E k \in DOMAIN zones : at[k] = p

\* The zone parseZone is in, and where it was opened.
Opened == cursor - (IF seenNodes THEN 4 ELSE 2)
OpenNow == IF reading = "zone" THEN Opened ELSE 0

ZoneSoFar ==
  /\ Opened \in Nat \ {0} /\ OpensZone(Opened)
  /\ zone.name = Word(Opened + 1)
  /\ IF seenNodes
     THEN HasNodes(Opened) /\ HasArg(Opened + 3) /\ zone.pattern = Word(Opened + 4)
     ELSE zone.pattern = Unset

ZonesInv ==
  /\ cursor <= Len(text) /\ seenNodes \in BOOLEAN
  /\ reading = "zone" => ZoneSoFar
  /\ reading \in {"block", "zone"} => \E at : ReadUpTo(conf.zones, at, cursor, OpenNow)
  /\ ZonesAsWritten

\* The cursor moves over words that open no zone, except perhaps the one that is
\* now open.
LEMMA ReadOn ==
  ASSUME NEW zones, NEW at, NEW c \in Nat, NEW c2 \in Nat, NEW o \in Nat, NEW o2 \in Nat,
         ReadUpTo(zones, at, c, o), c <= c2,
         o = o2 \/ (o = 0 /\ c < o2),
         WellBraced => \A p \in (c + 1)..c2 : Word(p) = "zone" /\ StartsLine(p) => p = o2
  PROVE  ReadUpTo(zones, at, c2, o2)
<1>1. at \in [DOMAIN zones -> 1..c2]
  BY DEF ReadUpTo
<1>2. ASSUME o2 # 0, NEW k \in DOMAIN zones PROVE at[k] < o2
  BY <1>2 DEF ReadUpTo
<1>3. ASSUME WellBraced, NEW k \in DOMAIN zones PROVE Close(at[k]) <= c2
  <2>1. at[k] \in Nat /\ Close(at[k]) <= c
    BY <1>3 DEF ReadUpTo
  <2>2. Close(at[k]) \in Nat
    BY <2>1 DEF Close
  <2> QED
    BY <2>1, <2>2
<1>4. ASSUME WellBraced, NEW p \in 1..c2, Word(p) = "zone", StartsLine(p)
      PROVE  p = o2 \/ \E k \in DOMAIN zones : at[k] = p
  <2>1. CASE p \in 1..c
    BY <1>4, <2>1 DEF ReadUpTo
  <2>2. CASE p \in (c + 1)..c2
    BY <1>4, <2>2
  <2> QED
    BY <2>1, <2>2
<1> QED
  BY <1>1, <1>2, <1>3, <1>4 DEF ReadUpTo

\* The open zone is closed and becomes the last of the zones.
LEMMA ReadZoneOff ==
  ASSUME NEW S, NEW zones \in Seq(S), NEW z, NEW at, NEW c \in Nat, NEW o \in (1..c),
         ReadUpTo(zones, at, c, o), IsZoneAt(z, o), WellBraced => Close(o) <= c
  PROVE  \E b : ReadUpTo(Append(zones, z), b, c, 0)
<1> DEFINE n == Len(zones)
           zs == Append(zones, z)
           b == [k \in 1..(n + 1) |-> IF k <= n THEN at[k] ELSE o]
<1>1. /\ n \in Nat /\ DOMAIN zones = 1..n /\ DOMAIN zs = 1..(n + 1)
      /\ zs[n + 1] = z /\ \A k \in 1..n : zs[k] = zones[k]
  OBVIOUS
<1>2. /\ b[n + 1] = o /\ DOMAIN b = 1..(n + 1)
      /\ \A k \in 1..n : b[k] = at[k] /\ b[k] \in 1..c /\ b[k] < o
  BY <1>1 DEF ReadUpTo
<1> HIDE DEF zs, b, n
<1>3. b \in [DOMAIN zs -> 1..c]
  <2>1. \A k \in 1..(n + 1) : (IF k <= n THEN at[k] ELSE o) \in 1..c
    BY <1>1 DEF ReadUpTo
  <2> QED
    BY <1>1, <2>1 DEF b
<1>4. ASSUME NEW j \in DOMAIN zs, NEW k \in DOMAIN zs, j < k PROVE b[j] < b[k]
  <2>1. j \in 1..n /\ (k \in 1..n \/ k = n + 1)
    BY <1>1, <1>4
  <2>2. \A x, y \in 1..n : x < y => at[x] < at[y]
    BY <1>1 DEF ReadUpTo
  <2> QED
    BY <1>2, <1>4, <2>1, <2>2
<1>5. ASSUME NEW k \in DOMAIN zs PROVE IsZoneAt(zs[k], b[k])
  BY <1>1, <1>2, <1>5 DEF ReadUpTo
<1>6. ASSUME WellBraced, NEW k \in DOMAIN zs PROVE Close(b[k]) <= c
  BY <1>1, <1>2, <1>6 DEF ReadUpTo
<1>7. ASSUME WellBraced, NEW p \in 1..c, Word(p) = "zone", StartsLine(p)
      PROVE  \E k \in DOMAIN zs : b[k] = p
  <2>1. p = o \/ \E k \in 1..n : at[k] = p
    BY <1>1, <1>7 DEF ReadUpTo
  <2>2. CASE p = o
    BY <1>1, <1>2, <2>2
  <2>3. ASSUME NEW k \in 1..n, at[k] = p PROVE k \in DOMAIN zs /\ b[k] = p
    BY <1>1, <1>2, <2>3
  <2> QED
    BY <2>1, <2>2, <2>3
<1> QED
  BY <1>3, <1>4, <1>5, <1>6, <1>7 DEF ReadUpTo, zs

\* When all has been read, the zones are those of the stanza.
LEMMA ReadAll ==
  ASSUME NEW zones, NEW at, NEW c \in Nat, text \in Stanzas, c <= Len(text),
         ReadUpTo(zones, at, c, 0), WellBraced => c = Len(text)
  PROVE  AreWritten(zones)
<1> DEFINE n == Len(text)
<1>1. n \in Nat /\ DOMAIN text = 1..n /\ c <= n /\ (WellBraced => c = n)
  BY StanzaAssumption
<1> HIDE DEF n
<1>2. at \in [DOMAIN zones -> DOMAIN text]
  <2>1. at \in [DOMAIN zones -> 1..c]
    BY DEF ReadUpTo
  <2>2. 1..c \subseteq 1..n
    BY <1>1
  <2> QED
    BY <1>1, <2>1, <2>2
<1>3. ASSUME WellBraced, NEW p \in DOMAIN text, Word(p) = "zone", StartsLine(p)
      PROVE  \E k \in DOMAIN zones : at[k] = p
  BY <1>1, <1>3 DEF ReadUpTo
<1> QED
  BY <1>2, <1>3 DEF ReadUpTo, AreWritten

\* What is said of the stanza does not change, as the stanza does not.
LEMMA StanzaStays ==
  ASSUME text' = text
  PROVE  /\ \A p : /\ Word(p)' = Word(p)
                   /\ OpensZone(p)' <=> OpensZone(p)
                   /\ HasNodes(p)' <=> HasNodes(p)
                   /\ HasArg(p)' <=> HasArg(p)
         /\ WellBraced' <=> WellBraced
         /\ \A w, v, c : Says(w, v, c)' <=> Says(w, v, c)
         /\ \A zones : AreWritten(zones)' <=> AreWritten(zones)
         /\ \A zones, at, c, o : ReadUpTo(zones, at, c, o)' <=> ReadUpTo(zones, at, c, o)
<1>1. \A p : /\ Word(p)' = Word(p) /\ Close(p)' = Close(p)
             /\ StartsLine(p)' <=> StartsLine(p)
             /\ OpensZone(p)' <=> OpensZone(p)
             /\ HasNodes(p)' <=> HasNodes(p)
             /\ HasArg(p)' <=> HasArg(p)
  BY DEF Word, Close, StartsLine, OpensZone, HasNodes, HasArg
<1>2. WellBraced' <=> WellBraced
  BY <1>1 DEF WellBraced
<1>3. \A z, p : IsZoneAt(z, p)' <=> IsZoneAt(z, p)
  BY <1>1 DEF IsZoneAt
<1>4. \A zones : AreWritten(zones)' <=> AreWritten(zones)
  BY <1>1, <1>2, <1>3 DEF AreWritten
<1>5. \A zones, at, c, o : ReadUpTo(zones, at, c, o)' <=> ReadUpTo(zones, at, c, o)
  BY <1>1, <1>2, <1>3 DEF ReadUpTo
<1>6. \A w, v, c : Says(w, v, c)' <=> Says(w, v, c)
  BY <1>1 DEF Says
<1> QED
  BY <1>1, <1>2, <1>4, <1>5, <1>6

LEMMA ZonesInvInit == DnsInit => ZonesInv
<1> SUFFICES ASSUME DnsInit PROVE ZonesInv
  OBVIOUS
<1>1. cursor = 0 /\ reading = "block" /\ conf.zones = <<>> /\ seenNodes = FALSE
  BY DEF DnsInit, CorefileInit, EmptyConf
<1>2. cursor <= Len(text)
  <2>1. Len(text) \in Nat
    BY StanzaAssumption DEF DnsInit, CorefileInit
  <2> QED
    BY <1>1, <2>1
<1> DEFINE at == [k \in {} |-> 0]
<1>3. ReadUpTo(<<>>, at, 0, 0)
  BY DEF ReadUpTo
<1>4. \E a : ReadUpTo(conf.zones, a, cursor, OpenNow)
  <2> HIDE DEF at
  <2> QED
    BY <1>1, <1>3 DEF OpenNow
<1> QED
  BY <1>1, <1>2, <1>4 DEF ZonesInv, ZonesAsWritten

\* A zone that opens at a word of the stanza closes before its end.
LEMMA BracedZone ==
  ASSUME text \in Stanzas, WellBraced, NEW p \in Nat \ {0}, OpensZone(p)
  PROVE  Close(p) < Len(text) /\ Word(Close(p)) = RightBrace
<1> DEFINE n == Len(text)
<1>1. n \in Nat /\ DOMAIN text = 1..n
  BY StanzaAssumption
<1>2. p + 2 <= n
  BY DEF OpensZone
<1> HIDE DEF n
<1>3. p \in DOMAIN text
  BY <1>1, <1>2
<1> QED
  BY <1>3 DEF WellBraced

LEMMA BraceIsNoWord ==
  /\ LeftBrace \notin {"zone", "nodes", "smd_url", "ca_cert", "cache_duration"}
  /\ RightBrace \notin {"zone", "nodes", "smd_url", "ca_cert", "cache_duration"}
  BY Zenon DEF RightBrace, LeftBrace

\* The open zone goes as far as the cursor when it is closed, and its words are
\* those of a zone.
LEMMA ZoneClosed ==
  ASSUME text \in Stanzas, cursor \in Nat, ZonesInv, reading = "zone", ZoneEnds
  PROVE  /\ IsZoneAt(zone, Opened) /\ Opened \in 1..cursor /\ Close(Opened) = cursor + 1
         /\ WellBraced => cursor + 1 < Len(text)
<1> DEFINE o == Opened
<1>1. ZoneSoFar
  BY DEF ZonesInv
<1>2. o \in Nat \ {0} /\ (seenNodes => o = cursor - 4) /\ (~seenNodes => o = cursor - 2)
  BY <1>1 DEF ZoneSoFar, Opened
<1>3. OpensZone(o) /\ zone.name = Word(o + 1)
  BY <1>1 DEF ZoneSoFar
<1>4. seenNodes => HasNodes(o) /\ HasArg(o + 3) /\ zone.pattern = Word(o + 4)
  BY <1>1 DEF ZoneSoFar
<1>5. ~seenNodes => zone.pattern = Unset
  BY <1>1 DEF ZoneSoFar
<1>6. cursor = Len(text) \/ Word(cursor + 1) # "nodes"
  BY BraceIsNoWord DEF ZoneEnds
<1> HIDE DEF o
<1>7. (seenNodes => cursor = o + 4) /\ (~seenNodes => cursor = o + 2) /\ o \in 1..cursor
  BY <1>2
<1>8. HasNodes(o) <=> seenNodes
  <2>1. Len(text) \in Nat
    BY StanzaAssumption
  <2>2. ASSUME ~seenNodes PROVE ~HasNodes(o)
    <3>1. cursor = o + 2 /\ cursor + 1 = o + 3
      BY <1>2, <1>7, <2>2
    <3> QED
      BY <1>6, <2>1, <3>1 DEF HasNodes
  <2> QED
    BY <1>4, <2>2
<1>9. Close(o) = cursor + 1
  BY <1>2, <1>7, <1>8 DEF Close
<1>10. IsZoneAt(zone, o)
  BY <1>3, <1>4, <1>5, <1>8 DEF IsZoneAt
<1>11. WellBraced => Close(o) < Len(text)
  BY <1>2, <1>3, BracedZone
<1> QED
  BY <1>7, <1>9, <1>10, <1>11 DEF o

\* An argument is on the line of the word before it.
LEMMA ArgumentStartsNoLine ==
  ASSUME NEW p \in Nat \ {0}, HasArg(p)
  PROVE  ~StartsLine(p + 1)
<1>1. p + 1 # 1 /\ (p + 1) - 1 = p
  OBVIOUS
<1> QED
  BY <1>1 DEF HasArg, StartsLine

\* Where parse looks for a directive.
LEMMA AheadIs ==
  ASSUME text \in Stanzas, cursor \in Nat, cursor <= Len(text)
  PROVE  /\ Ahead \in Nat /\ cursor <= Ahead /\ Ahead <= Len(text) /\ Len(text) \in Nat
         /\ Ahead = cursor + 1 \/ (Ahead = cursor /\ cursor = Len(text))
         /\ HasArg(Ahead) => Ahead = cursor + 1 /\ Ahead + 1 <= Len(text)
<1>1. Len(text) \in Nat
  BY StanzaAssumption
<1> QED
  BY <1>1 DEF Ahead, HasArg

\* A brace that is not the last is that of a zone, which parseZone has read.
LEMMA EndIsEnd ==
  ASSUME text \in Stanzas, cursor \in Nat, cursor <= Len(text), WellBraced,
         NEW zones, NEW at, ReadUpTo(zones, at, cursor, 0), Word(Ahead) = RightBrace
  PROVE  Ahead = Len(text)
<1> SUFFICES ASSUME Ahead # Len(text) PROVE FALSE
  OBVIOUS
<1>1. Ahead = cursor + 1 /\ Ahead \in 1..(Len(text) - 1)
  BY AheadIs
<1>2. PICK p \in DOMAIN text : OpensZone(p) /\ StartsLine(p) /\ Close(p) = Ahead
  BY <1>1 DEF WellBraced
<1>3. p \in Nat \ {0}
  BY StanzaAssumption
<1>4. p \in 1..cursor
  BY <1>1, <1>2, <1>3 DEF Close
<1>5. \E k \in DOMAIN zones : at[k] = p
  BY <1>2, <1>4 DEF ReadUpTo, OpensZone
<1>6. Close(p) <= cursor
  BY <1>5 DEF ReadUpTo
<1> QED
  BY <1>1, <1>2, <1>6

\* Every turn of parse and of parseZone keeps track of the zones.
LEMMA DirectiveKeeps ==
  ASSUME ReadInv, ZonesInv, ReadDirective
  PROVE  ZonesInv'
<1>1. /\ text \in Stanzas /\ cursor \in Nat /\ cursor <= Len(text) /\ reading = "block"
      /\ text' = text /\ seenNodes \in BOOLEAN
      /\ DOMAIN conf = {"smdURL", "caCert", "cacheDuration", "zones"}
  BY DEF ReadInv, ZonesInv, ReadDirective
<1>2. PICK at : ReadUpTo(conf.zones, at, cursor, 0)
  BY <1>1 DEF ZonesInv, OpenNow
<1>3. /\ Ahead \in Nat /\ cursor <= Ahead /\ Ahead <= Len(text) /\ Len(text) \in Nat
      /\ Ahead = cursor + 1 \/ Ahead = cursor
      /\ HasArg(Ahead) => Ahead = cursor + 1 /\ Ahead + 1 <= Len(text)
  BY <1>1, AheadIs
<1>4. CASE EndOfStanza
  <2>1. /\ cursor' = Ahead /\ Word(Ahead) = RightBrace /\ conf'.zones = conf.zones
        /\ reading' \in {"refused", "done"} /\ seenNodes' = seenNodes
    BY <1>1, <1>4 DEF EndOfStanza
  <2>2. ReadUpTo(conf.zones, at, Ahead, 0)
    <3>1. \A p \in (cursor + 1)..Ahead : Word(p) # "zone"
      BY <1>1, <1>3, <2>1, BraceIsNoWord
    <3> QED
      BY <1>1, <1>2, <1>3, <3>1, ReadOn
  <2>3. AreWritten(conf.zones)
    BY <1>1, <1>2, <1>3, <2>1, <2>2, EndIsEnd, ReadAll
  <2>4. AreWritten(conf.zones)'
    BY <1>1, <2>1, <2>3, StanzaStays
  <2> QED
    BY <1>1, <1>3, <2>1, <2>4 DEF ZonesInv, ZonesAsWritten
<1>5. ASSUME NEW w, NEW f \in {"smdURL", "caCert", "cacheDuration"}, Setting(w, f), w # "zone",
             HasArg(Ahead), ~Refuse
      PROVE  ZonesInv'
  <2>1. /\ cursor' = Ahead + 1 /\ Word(Ahead) # "zone" /\ conf'.zones = conf.zones
        /\ reading' = "block" /\ seenNodes' = seenNodes
    BY <1>1, <1>5 DEF Setting
  <2>2. ReadUpTo(conf.zones, at, Ahead + 1, 0)
    <3>1. \A p \in (cursor + 1)..(Ahead + 1) : ~(Word(p) = "zone" /\ StartsLine(p))
      <4>1. ~StartsLine(Ahead + 1)
        BY <1>1, <1>3, <1>5, ArgumentStartsNoLine
      <4> QED
        BY <1>1, <1>3, <1>5, <2>1, <4>1
    <3> QED
      BY <1>1, <1>2, <1>3, <3>1, ReadOn
  <2>3. ReadUpTo(conf.zones, at, cursor, OpenNow)'
    BY <1>1, <2>1, <2>2, StanzaStays DEF OpenNow
  <2> QED
    BY <1>1, <1>3, <1>5, <2>1, <2>3 DEF ZonesInv, ZonesAsWritten
<1>6. CASE ZoneOpens /\ ~Refuse
  <2>1. /\ cursor' = Ahead + 2 /\ Word(Ahead) = "zone" /\ conf' = conf
        /\ HasArg(Ahead) /\ Ahead + 2 <= Len(text) /\ Word(Ahead + 2) = LeftBrace
        /\ reading' = "zone" /\ seenNodes' = FALSE
        /\ zone'.name = Word(Ahead + 1) /\ zone'.pattern = Unset
    BY <1>3, <1>6 DEF ZoneOpens, NoZone
  <2>2. Ahead = cursor + 1
    BY <1>3, <2>1
  <2>3. ReadUpTo(conf.zones, at, Ahead + 2, Ahead)
    <3>1. \A p \in (cursor + 1)..(Ahead + 2) : Word(p) = "zone" /\ StartsLine(p) => p = Ahead
      <4>1. ~StartsLine(Ahead + 1)
        BY <1>1, <2>1, <2>2, ArgumentStartsNoLine
      <4> QED
        BY <1>1, <2>1, <2>2, <4>1, BraceIsNoWord
    <3> QED
      BY <1>1, <1>2, <1>3, <2>2, <3>1, ReadOn
  <2>4. Opened' = Ahead /\ OpenNow' = Ahead
    BY <1>3, <2>1 DEF Opened, OpenNow
  <2>5. ReadUpTo(conf.zones, at, cursor, OpenNow)'
    BY <1>1, <2>1, <2>3, <2>4, StanzaStays
  <2>6. OpensZone(Ahead) /\ Ahead \in Nat \ {0}
    BY <1>1, <2>1, <2>2 DEF OpensZone
  <2>7. ZoneSoFar'
    BY <1>1, <2>1, <2>4, <2>6, StanzaStays DEF ZoneSoFar
  <2> QED
    BY <1>1, <2>1, <2>5, <2>7 DEF ZonesInv, ZonesAsWritten
<1>7. CASE Refuse
  BY <1>1, <1>7 DEF Refuse, ZonesInv, ZonesAsWritten
<1>8. ASSUME NEW w, NEW f, Setting(w, f), ~Refuse PROVE HasArg(Ahead)
  BY <1>8 DEF Setting
<1> QED
  BY <1>4, <1>5, <1>6, <1>7, <1>8 DEF ReadDirective

LEMMA ZoneLineKeeps ==
  ASSUME ReadInv, ZonesInv, ReadZone
  PROVE  ZonesInv'
<1>1. /\ text \in Stanzas /\ cursor \in Nat /\ cursor <= Len(text) /\ reading = "zone"
      /\ text' = text /\ seenNodes \in BOOLEAN /\ ZoneSoFar
      /\ DOMAIN conf = {"smdURL", "caCert", "cacheDuration", "zones"}
  BY DEF ReadInv, ZonesInv, ReadZone
<1>2. PICK at : ReadUpTo(conf.zones, at, cursor, Opened)
  BY <1>1 DEF ZonesInv, OpenNow
<1>3. Opened \in Nat \ {0}
  BY <1>1 DEF ZoneSoFar
<1>4. CASE ZoneEnds
  <2>1. /\ cursor' = Ahead /\ conf'.zones = Append(conf.zones, zone)
        /\ reading' = "block" /\ seenNodes' = FALSE
    BY <1>1, <1>4 DEF ZoneEnds
  <2>2. /\ IsZoneAt(zone, Opened) /\ Opened \in 1..cursor /\ Close(Opened) = cursor + 1
        /\ WellBraced => cursor + 1 < Len(text)
    BY <1>1, <1>4, ZoneClosed
  <2>3. /\ Ahead \in Nat /\ cursor <= Ahead /\ Ahead <= Len(text) /\ Len(text) \in Nat
        /\ Ahead = cursor + 1 \/ (Ahead = cursor /\ cursor = Len(text))
    BY <1>1, AheadIs
  <2>4. WellBraced => Close(Opened) = Ahead /\ Word(Ahead) # "zone"
    BY <1>1, <1>3, <2>2, <2>3, BracedZone, BraceIsNoWord DEF IsZoneAt
  <2>5. PICK b : ReadUpTo(Append(conf.zones, zone), b, Ahead, 0)
    <3>1. ReadUpTo(conf.zones, at, Ahead, Opened)
      <4>1. WellBraced => \A p \in (cursor + 1)..Ahead : Word(p) # "zone"
        BY <1>1, <2>3, <2>4
      <4> QED
        BY <1>1, <1>2, <1>3, <2>3, <4>1, ReadOn
    <3>2. PICK S : conf.zones \in Seq(S)
      BY DEF ReadInv, ZonesRead
    <3>3. Opened \in 1..Ahead /\ (WellBraced => Close(Opened) <= Ahead)
      BY <1>1, <2>2, <2>3, <2>4
    <3> QED
      BY <2>2, <2>3, <3>1, <3>2, <3>3, ReadZoneOff
  <2>6. ReadUpTo(conf.zones, b, cursor, OpenNow)'
    BY <1>1, <2>1, <2>5, StanzaStays DEF OpenNow
  <2> QED
    BY <1>1, <2>1, <2>3, <2>6 DEF ZonesInv, ZonesAsWritten
<1>5. CASE Nodes /\ ~Refuse
  <2>1. /\ cursor' = cursor + 2 /\ cursor + 2 <= Len(text) /\ conf' = conf
        /\ cursor < Len(text) /\ Word(cursor + 1) = "nodes" /\ HasArg(cursor + 1)
        /\ reading' = "zone" /\ ~seenNodes /\ seenNodes' = TRUE
        /\ zone'.name = zone.name /\ zone'.pattern = Word(cursor + 2)
    <3>1. Len(text) \in Nat /\ DOMAIN zone = {"name", "pattern"}
      BY <1>1, StanzaAssumption DEF ReadInv
    <3> QED
      BY <1>1, <1>5, <3>1 DEF Nodes, HasArg
  <2>2. cursor = Opened + 2 /\ Opened' = Opened /\ OpenNow' = Opened
    BY <1>1, <2>1 DEF Opened, OpenNow
  <2>3. ReadUpTo(conf.zones, at, cursor + 2, Opened)
    <3>1. \A p \in (cursor + 1)..(cursor + 2) : ~(Word(p) = "zone" /\ StartsLine(p))
      <4>1. ~StartsLine((cursor + 1) + 1)
        BY <1>1, <2>1, ArgumentStartsNoLine
      <4> QED
        BY <1>1, <2>1, <4>1
    <3> QED
      BY <1>1, <1>2, <1>3, <3>1, ReadOn
  <2>4. ReadUpTo(conf.zones, at, cursor, OpenNow)'
    BY <1>1, <2>1, <2>2, <2>3, StanzaStays
  <2>5. HasNodes(Opened) /\ HasArg(Opened + 3) /\ Word(cursor + 2) = Word(Opened + 4)
    <3>1. Len(text) \in Nat
      BY <1>1, StanzaAssumption
    <3>2. Opened + 3 = cursor + 1 /\ Opened + 4 = cursor + 2
      BY <1>3, <2>2
    <3> QED
      BY <1>1, <2>1, <3>1, <3>2 DEF HasNodes
  <2>6. ZoneSoFar'
    BY <1>1, <1>3, <2>1, <2>2, <2>5, StanzaStays DEF ZoneSoFar
  <2> QED
    BY <1>1, <2>1, <2>4, <2>6 DEF ZonesInv, ZonesAsWritten
<1>6. CASE Refuse
  BY <1>1, <1>6 DEF Refuse, ZonesInv, ZonesAsWritten
<1> QED
  BY <1>4, <1>5, <1>6 DEF ReadZone

\* OnStartup leaves the zones alone or sets the default one in place of none.
LEMMA OnStartupKeeps ==
  ASSUME ReadInv, ZonesInv, OnStartup
  PROVE  ZonesInv'
<1>1. /\ text' = text /\ cursor' = cursor /\ reading' = reading /\ seenNodes' = seenNodes
      /\ reading = "done" /\ AreWritten(conf.zones)
      /\ DOMAIN conf = {"smdURL", "caCert", "cacheDuration", "zones"}
  BY DEF OnStartup, ReadInv, ZonesInv, ZonesAsWritten
<1>2. \/ conf'.zones = conf.zones
      \/ stage' = "serving" /\ conf.zones = <<>> /\ conf'.zones = <<DefaultZone>>
  BY <1>1 DEF OnStartup
<1>3. \A zones : AreWritten(zones) => AreWritten(zones)'
  BY <1>1, StanzaStays
<1>4. ZonesAsWritten'
  <2>1. CASE conf'.zones = conf.zones
    BY <1>1, <1>3, <2>1 DEF ZonesAsWritten
  <2>2. CASE stage' = "serving" /\ conf.zones = <<>> /\ conf'.zones = <<DefaultZone>>
    BY <1>1, <1>3, <2>2 DEF ZonesAsWritten
  <2> QED
    BY <1>2, <2>1, <2>2
<1> QED
  BY <1>1, <1>4 DEF ZonesInv

\* Nothing else touches the stanza or the zones.
LEMMA StanzaLeft ==
  ASSUME ZonesInv, UNCHANGED <<corefileVars, stage>>
  PROVE  ZonesInv'
<1>1. /\ text' = text /\ cursor' = cursor /\ reading' = reading /\ conf' = conf
      /\ zone' = zone /\ seenNodes' = seenNodes /\ stage' = stage
  BY DEF corefileVars, readVars
<1>2. (reading = "zone" => ZoneSoFar) => (reading = "zone" => ZoneSoFar)'
  BY <1>1, StanzaStays DEF ZoneSoFar, Opened
<1>3. OpenNow' = OpenNow
  BY <1>1 DEF OpenNow, Opened
<1>4. \A at : ReadUpTo(conf.zones, at, cursor, OpenNow)
                => ReadUpTo(conf.zones, at, cursor, OpenNow)'
  BY <1>1, <1>3, StanzaStays
<1>5. ZonesAsWritten => ZonesAsWritten'
  BY <1>1, StanzaStays DEF ZonesAsWritten
<1> QED
  BY <1>1, <1>2, <1>4, <1>5 DEF ZonesInv

-----------------------------------------------------------------------------
(* The settings of the stanza *)

Settings == {<<"smd_url", "smdURL">>, <<"ca_cert", "caCert">>, <<"cache_duration", "cacheDuration">>}

SettingsInv ==
  /\ reading \in {"block", "zone"} => \A s \in Settings : Says(s[1], conf[s[2]], cursor)
  /\ SettingsAsWritten

\* A directive that is not read again keeps saying what it said.
LEMMA SaysOn ==
  ASSUME NEW w, NEW v, NEW c \in Nat, NEW c2 \in Nat, Says(w, v, c), c <= c2,
         \A q \in (c + 1)..c2 : ~(Word(q) = w /\ StartsLine(q))
  PROVE  Says(w, v, c2)
<1>1. \A q \in 1..c2 : q \in 1..c \/ q \in (c + 1)..c2
  OBVIOUS
<1>2. CASE v = Unset /\ \A q \in 1..c : ~(Word(q) = w /\ StartsLine(q))
  BY <1>1, <1>2 DEF Says
<1>3. ASSUME NEW p \in 1..c, Word(p) = w, HasArg(p), v = Word(p + 1),
             \A q \in 1..c : Word(q) = w /\ StartsLine(q) => q <= p
      PROVE  Says(w, v, c2)
  <2>1. p \in 1..c2
    OBVIOUS
  <2> QED
    BY <1>1, <1>3, <2>1 DEF Says
<1> QED
  BY <1>2, <1>3 DEF Says

\* One that is read says its argument.
LEMMA SaysNow ==
  ASSUME NEW p \in Nat \ {0}, HasArg(p)
  PROVE  Says(Word(p), Word(p + 1), p + 1)
<1>1. ~StartsLine(p + 1)
  BY ArgumentStartsNoLine
<1>2. \A q \in 1..(p + 1) : Word(q) = Word(p) /\ StartsLine(q) => q <= p
  <2>1. \A q \in 1..(p + 1) : q <= p \/ q = p + 1
    OBVIOUS
  <2> QED
    BY <1>1, <2>1
<1>3. p \in 1..(p + 1)
  OBVIOUS
<1> QED
  BY <1>2, <1>3 DEF Says

LEMMA SettingsInvInit == DnsInit => SettingsInv
<1> SUFFICES ASSUME DnsInit PROVE SettingsInv
  OBVIOUS
<1>1. cursor = 0 /\ reading = "block" /\ \A s \in Settings : conf[s[2]] = Unset
  BY DEF DnsInit, CorefileInit, EmptyConf, Settings
<1>2. \A w : Says(w, Unset, 0)
  BY DEF Says
<1> QED
  BY <1>1, <1>2 DEF SettingsInv, SettingsAsWritten

\* A turn that moves over words none of which is a setting at the start of a line,
\* and leaves the settings alone.
LEMMA SettingsPassed ==
  ASSUME SettingsInv, cursor \in Nat, cursor' \in Nat, cursor <= cursor', text' = text,
         reading \in {"block", "zone"}, reading' \in {"block", "zone"},
         \A s \in Settings : conf'[s[2]] = conf[s[2]],
         \A q \in (cursor + 1)..cursor' : StartsLine(q) => \A s \in Settings : Word(q) # s[1]
  PROVE  SettingsInv'
<1>1. ASSUME NEW s \in Settings PROVE Says(s[1], conf[s[2]], cursor)'
  <2>1. Says(s[1], conf[s[2]], cursor)
    BY DEF SettingsInv
  <2>2. \A q \in (cursor + 1)..cursor' : ~(Word(q) = s[1] /\ StartsLine(q))
    OBVIOUS
  <2>3. Says(s[1], conf[s[2]], cursor')
    BY <2>1, <2>2, SaysOn
  <2> QED
    BY <2>3, StanzaStays
<1> QED
  BY <1>1 DEF SettingsInv, SettingsAsWritten, Settings

LEMMA SettingsRead ==
  ASSUME ReadInv, ZonesInv, SettingsInv, ReadDirective
  PROVE  SettingsInv'
<1>1. /\ text \in Stanzas /\ cursor \in Nat /\ cursor <= Len(text) /\ reading = "block"
      /\ text' = text
      /\ DOMAIN conf = {"smdURL", "caCert", "cacheDuration", "zones"}
  BY DEF ReadInv, ZonesInv, ReadDirective
<1>2. \A s \in Settings : Says(s[1], conf[s[2]], cursor)
  BY <1>1 DEF SettingsInv
<1>3. /\ Ahead \in Nat /\ cursor <= Ahead /\ Ahead <= Len(text) /\ Len(text) \in Nat
      /\ Ahead = cursor + 1 \/ Ahead = cursor
      /\ HasArg(Ahead) => Ahead = cursor + 1 /\ Ahead + 1 <= Len(text)
  BY <1>1, AheadIs
<1>4. CASE EndOfStanza
  <2>1. /\ Word(Ahead) = RightBrace
        /\ reading' = IF conf.smdURL = Unset THEN "refused" ELSE "done"
        /\ conf'.smdURL = conf.smdURL /\ conf'.caCert = conf.caCert
        /\ conf'.cacheDuration = IF conf.cacheDuration = Unset THEN DefaultDuration
                                 ELSE conf.cacheDuration
    BY <1>1, <1>4 DEF EndOfStanza
  <2>2. WellBraced => Ahead = Len(text)
    <3>1. PICK at : ReadUpTo(conf.zones, at, cursor, 0)
      BY <1>1 DEF ZonesInv, OpenNow
    <3> QED
      BY <1>1, <2>1, <3>1, EndIsEnd
  <2>3. ASSUME NEW s \in Settings PROVE Says(s[1], conf[s[2]], Ahead)
    <3>1. Word(Ahead) # s[1]
      BY <2>1, BraceIsNoWord DEF Settings
    <3>2. \A q \in (cursor + 1)..Ahead : q = Ahead
      BY <1>1, <1>3
    <3> QED
      BY <1>1, <1>2, <1>3, <3>1, <3>2, SaysOn
  <2>4. /\ Says("smd_url", conf.smdURL, Ahead) /\ Says("ca_cert", conf.caCert, Ahead)
        /\ Says("cache_duration", conf.cacheDuration, Ahead)
    BY <2>3 DEF Settings
  <2>5. SettingsAsWritten'
    BY <1>1, <2>1, <2>2, <2>4, StanzaStays DEF SettingsAsWritten
  <2> QED
    BY <2>1, <2>5 DEF SettingsInv
<1>5. ASSUME NEW t \in Settings, Setting(t[1], t[2]), ~Refuse
      PROVE  SettingsInv'
  <2>1. /\ Word(Ahead) = t[1] /\ HasArg(Ahead)
        /\ cursor' = Ahead + 1 /\ reading' = "block"
        /\ conf' = [conf EXCEPT ![t[2]] = Word(Ahead + 1)]
    BY <1>1, <1>5 DEF Setting
  <2>2. Ahead = cursor + 1 /\ ~StartsLine(Ahead + 1)
    BY <1>1, <1>3, <2>1, ArgumentStartsNoLine
  <2>3. ASSUME NEW s \in Settings PROVE Says(s[1], conf'[s[2]], Ahead + 1)
    <3>1. CASE s = t
      <4>1. conf'[s[2]] = Word(Ahead + 1)
        BY <1>1, <2>1, <3>1 DEF Settings
      <4> QED
        BY <1>1, <2>1, <2>2, <3>1, <4>1, SaysNow
    <3>2. CASE s # t
      <4>1. s[1] # t[1] /\ s[2] # t[2]
        BY <3>2 DEF Settings
      <4>2. conf'[s[2]] = conf[s[2]]
        BY <1>1, <2>1, <4>1 DEF Settings
      <4>3. \A q \in (cursor + 1)..(Ahead + 1) : ~(Word(q) = s[1] /\ StartsLine(q))
        BY <1>1, <2>1, <2>2, <4>1
      <4> QED
        BY <1>1, <1>2, <1>3, <2>2, <4>2, <4>3, SaysOn
    <3> QED
      BY <3>1, <3>2
  <2>4. ASSUME NEW s \in Settings PROVE Says(s[1], conf[s[2]], cursor)'
    BY <1>1, <2>1, <2>3, StanzaStays
  <2> QED
    BY <2>1, <2>4 DEF SettingsInv, SettingsAsWritten
<1>6. CASE ZoneOpens /\ ~Refuse
  <2>1. /\ cursor' = Ahead + 2 /\ Word(Ahead) = "zone" /\ conf' = conf
        /\ HasArg(Ahead) /\ Word(Ahead + 2) = LeftBrace /\ reading' = "zone"
    BY <1>3, <1>6 DEF ZoneOpens
  <2>2. Ahead = cursor + 1 /\ ~StartsLine(Ahead + 1)
    BY <1>1, <1>3, <2>1, ArgumentStartsNoLine
  <2>3. \A s \in Settings : Word(Ahead) # s[1] /\ Word(Ahead + 2) # s[1]
    BY <2>1, BraceIsNoWord DEF Settings
  <2>4. \A q \in (cursor + 1)..cursor' : StartsLine(q) => \A s \in Settings : Word(q) # s[1]
    BY <1>1, <2>1, <2>2, <2>3
  <2> QED
    BY <1>1, <1>3, <2>1, <2>4, SettingsPassed
<1>7. CASE Refuse
  BY <1>7 DEF Refuse, SettingsInv, SettingsAsWritten
<1>8. /\ <<"smd_url", "smdURL">> \in Settings /\ <<"ca_cert", "caCert">> \in Settings
      /\ <<"cache_duration", "cacheDuration">> \in Settings
  BY DEF Settings
<1> QED
  BY <1>4, <1>5, <1>6, <1>7, <1>8 DEF ReadDirective

LEMMA SettingsInZone ==
  ASSUME ReadInv, ZonesInv, SettingsInv, ReadZone
  PROVE  SettingsInv'
<1>1. /\ text \in Stanzas /\ cursor \in Nat /\ cursor <= Len(text) /\ reading = "zone"
      /\ text' = text
      /\ DOMAIN conf = {"smdURL", "caCert", "cacheDuration", "zones"}
  BY DEF ReadInv, ZonesInv, ReadZone
<1>2. Ahead \in Nat /\ cursor <= Ahead /\ (Ahead = cursor + 1 \/ Ahead = cursor)
  BY <1>1, AheadIs
<1>3. CASE ZoneEnds
  <2>1. /\ cursor' = Ahead /\ reading' = "block"
        /\ \A s \in Settings : conf'[s[2]] = conf[s[2]]
    BY <1>1, <1>3 DEF ZoneEnds, Settings
  <2>2. cursor = Len(text) \/ \A s \in Settings : Word(cursor + 1) # s[1]
    BY <1>3, BraceIsNoWord DEF ZoneEnds, Settings
  <2>3. cursor = Len(text) => Ahead = cursor
    BY <1>1, AheadIs DEF Ahead
  <2>4. \A q \in (cursor + 1)..cursor' : \A s \in Settings : Word(q) # s[1]
    BY <1>1, <1>2, <2>1, <2>2, <2>3
  <2> QED
    BY <1>1, <1>2, <2>1, <2>4, SettingsPassed
<1>4. CASE Nodes /\ ~Refuse
  <2>1. /\ cursor' = cursor + 2 /\ reading' = "zone" /\ conf' = conf
        /\ Word(cursor + 1) = "nodes" /\ HasArg(cursor + 1)
    BY <1>1, <1>4 DEF Nodes
  <2>2. ~StartsLine((cursor + 1) + 1)
    BY <1>1, <2>1, ArgumentStartsNoLine
  <2>3. \A s \in Settings : Word(cursor + 1) # s[1]
    BY <2>1 DEF Settings
  <2>4. \A q \in (cursor + 1)..cursor' : StartsLine(q) => \A s \in Settings : Word(q) # s[1]
    BY <1>1, <2>1, <2>2, <2>3
  <2> QED
    BY <1>1, <2>1, <2>4, SettingsPassed
<1>5. CASE Refuse
  BY <1>5 DEF Refuse, SettingsInv, SettingsAsWritten
<1> QED
  BY <1>3, <1>4, <1>5 DEF ReadZone

\* Starting and serving leave the settings alone.
LEMMA SettingsLeft ==
  ASSUME SettingsInv, ReadInv, OnStartup \/ UNCHANGED corefileVars
  PROVE  SettingsInv'
<1>1. /\ text' = text /\ cursor' = cursor /\ reading' = reading
      /\ \A f \in {"smdURL", "caCert", "cacheDuration"} : conf'[f] = conf[f]
  BY DEF OnStartup, corefileVars, readVars, ReadInv
<1>2. SettingsAsWritten => SettingsAsWritten'
  BY <1>1, StanzaStays DEF SettingsAsWritten
<1>3. ASSUME NEW s \in Settings, Says(s[1], conf[s[2]], cursor)
      PROVE  Says(s[1], conf[s[2]], cursor)'
  <2>1. conf'[s[2]] = conf[s[2]]
    BY <1>1 DEF Settings
  <2> QED
    BY <1>1, <1>3, <2>1, StanzaStays
<1> QED
  BY <1>1, <1>2, <1>3 DEF SettingsInv

-----------------------------------------------------------------------------
(* What is accepted and what is refused *)

\* Where the next directive is looked for, or where the one began that is open.
Here == IF reading = "zone" THEN Opened ELSE cursor + 1

\* Before h the stanza was directives with heads R, which named SMD as url is.
HeadsRead(R, h, url) ==
  /\ R \subseteq 1..(h - 1)
  /\ 1 \in R \/ h = 1
  /\ \A p \in R : IsDirective(p) /\ (After(p) \in R \/ After(p) = h)
  /\ \A p, q \in R : p < q => After(p) <= q
  /\ url # Unset <=> \E p \in R : NamesSmd(p)
  /\ \A p, q \in R : p < q /\ NamesSmd(p) => Word(q) # "smd_url"

\* A division of the stanza goes on at h, and before it named SMD as url is.
StillDivides(H, h, url) ==
  /\ GoesOn(H, h)
  /\ url # Unset <=> \E p \in H : p < h /\ NamesSmd(p)

\* As long as nothing is refused, what has been read is directives, and no division
\* of the stanza into directives has another of them there.
JudgeInv ==
  /\ reading \in {"block", "zone"} =>
       /\ WellBraced => \E R : HeadsRead(R, Here, conf.smdURL)
       /\ \A H \in SUBSET (1..Len(text)) :
            DividesStanza(H) => StillDivides(H, Here, conf.smdURL)
  /\ JudgedAsWritten

LEMMA FormStays ==
  ASSUME text' = text
  PROVE  /\ WellBraced' <=> WellBraced
         /\ InForm' <=> InForm
         /\ \A H : DividesStanza(H)' <=> DividesStanza(H)
         /\ \A R, h, url : HeadsRead(R, h, url)' <=> HeadsRead(R, h, url)
         /\ \A H, h, url : StillDivides(H, h, url)' <=> StillDivides(H, h, url)
<1>1. \A p : /\ Word(p)' = Word(p) /\ Close(p)' = Close(p)
             /\ OpensZone(p)' <=> OpensZone(p)
             /\ HasNodes(p)' <=> HasNodes(p)
             /\ HasArg(p)' <=> HasArg(p)
  BY DEF Word, Close, OpensZone, HasNodes, HasArg
<1>2. \A p : /\ IsDirective(p)' <=> IsDirective(p)
             /\ After(p)' = After(p)
             /\ NamesSmd(p)' <=> NamesSmd(p)
  BY <1>1 DEF IsDirective, After, NamesSmd
<1>3. \A H, p : GoesOn(H, p)' <=> GoesOn(H, p)
  BY <1>1 DEF GoesOn
<1>4. \A H : DividesStanza(H)' <=> DividesStanza(H)
  BY <1>1, <1>2, <1>3 DEF DividesStanza
<1>5. InForm' <=> InForm
  BY <1>2, <1>4 DEF InForm
<1>6. \A R, h, url : HeadsRead(R, h, url)' <=> HeadsRead(R, h, url)
  BY <1>1, <1>2 DEF HeadsRead
<1>7. \A H, h, url : StillDivides(H, h, url)' <=> StillDivides(H, h, url)
  BY <1>2, <1>3 DEF StillDivides
<1> QED
  BY <1>4, <1>5, <1>6, <1>7, StanzaStays

LEMMA JudgeInvInit == DnsInit => JudgeInv
<1> SUFFICES ASSUME DnsInit PROVE JudgeInv
  OBVIOUS
<1>1. reading = "block" /\ Here = 1 /\ conf.smdURL = Unset
  BY DEF DnsInit, CorefileInit, EmptyConf, Here
<1>2. HeadsRead({}, 1, Unset)
  BY DEF HeadsRead
<1>3. ASSUME NEW H \in SUBSET (1..Len(text)), DividesStanza(H) PROVE StillDivides(H, 1, Unset)
  <2>1. \A p \in H : ~(p < 1)
    OBVIOUS
  <2> QED
    BY <1>3, <2>1 DEF DividesStanza, StillDivides
<1> QED
  BY <1>1, <1>2, <1>3 DEF JudgeInv, JudgedAsWritten

LEMMA DirectiveGoesOn ==
  ASSUME NEW h \in Nat
  PROVE  After(h) \in Nat /\ h + 1 < After(h)
BY DEF After, Close

\* What a directive at h makes of the name of SMD.
UrlAfter(h, url) == IF Word(h) = "smd_url" THEN Word(h + 1) ELSE url

\* One more directive is read.
LEMMA OneMoreHead ==
  ASSUME NEW h \in Nat \ {0}, NEW R, NEW url, HeadsRead(R, h, url), IsDirective(h),
         Word(h) = "smd_url" => url = Unset
  PROVE  HeadsRead(R \cup {h}, After(h), UrlAfter(h, url))
<1> DEFINE S == R \cup {h}
<1>1. After(h) \in Nat /\ h < After(h)
  BY DirectiveGoesOn
<1>2. \A p \in R : p \in Nat /\ p < h /\ p > 0
  BY DEF HeadsRead
<1>3. S \subseteq 1..(After(h) - 1) /\ 1 \in S
  BY <1>1, <1>2 DEF HeadsRead
<1>4. \A p \in S : IsDirective(p) /\ (After(p) \in S \/ After(p) = After(h))
  BY DEF HeadsRead
<1>5. ASSUME NEW p \in S, NEW q \in S, p < q PROVE After(p) <= q
  <2>1. p \in R
    BY <1>2, <1>5
  <2>2. CASE q \in R
    BY <1>5, <2>1, <2>2 DEF HeadsRead
  <2>3. CASE q = h
    <3>1. After(p) \in R \/ After(p) = h
      BY <2>1 DEF HeadsRead
    <3>2. After(p) < h \/ After(p) = h
      BY <1>2, <3>1
    <3> HIDE DEF S
    <3> QED
      BY <1>2, <2>3, <3>1, <3>2
  <2> QED
    BY <2>2, <2>3
<1>6. UrlAfter(h, url) # Unset <=> \E p \in S : NamesSmd(p)
  BY DEF HeadsRead, UrlAfter, NamesSmd
<1>7. ASSUME NEW p \in S, NEW q \in S, p < q, NamesSmd(p) PROVE Word(q) # "smd_url"
  <2>1. p \in R
    BY <1>2, <1>7
  <2>2. CASE q \in R
    BY <1>7, <2>1, <2>2 DEF HeadsRead
  <2>3. CASE q = h
    BY <1>7, <2>1, <2>3 DEF HeadsRead
  <2> QED
    BY <2>2, <2>3
<1> QED
  BY <1>3, <1>4, <1>5, <1>6, <1>7 DEF HeadsRead

\* A division of the stanza has the next head where the directive at h ends.
LEMMA DividesOn ==
  ASSUME text \in Stanzas, NEW H \in SUBSET (1..Len(text)), DividesStanza(H),
         NEW h \in H, NEW url, StillDivides(H, h, url)
  PROVE  StillDivides(H, After(h), UrlAfter(h, url))
<1>1. \A p \in H : p \in Nat
  BY StanzaAssumption
<1>2. After(h) \in Nat /\ h < After(h) /\ GoesOn(H, After(h))
  BY <1>1, DirectiveGoesOn DEF DividesStanza
<1>3. \A p \in H : p < After(h) <=> p < h \/ p = h
  <2>1. \A p \in H : h < p => After(h) <= p
    BY DEF DividesStanza
  <2> QED
    BY <1>1, <1>2, <2>1
<1>4. UrlAfter(h, url) # Unset <=> \E p \in H : p < After(h) /\ NamesSmd(p)
  <2>1. url # Unset <=> \E p \in H : p < h /\ NamesSmd(p)
    BY DEF StillDivides
  <2>2. Word(h) = "smd_url" => \A p \in H : p < h => ~NamesSmd(p)
    BY DEF DividesStanza
  <2> QED
    BY <1>3, <2>1, <2>2 DEF UrlAfter, NamesSmd
<1> QED
  BY <1>2, <1>4 DEF StillDivides

\* What stands ahead is the next head, unless it is a brace.
LEMMA NextHead ==
  ASSUME text \in Stanzas, cursor \in Nat, cursor <= Len(text),
         NEW H \in SUBSET (1..Len(text)), DividesStanza(H), GoesOn(H, cursor + 1),
         Word(Ahead) # RightBrace
  PROVE  cursor + 1 \in H /\ Ahead = cursor + 1 /\ IsDirective(Ahead)
<1>1. /\ Ahead = cursor + 1 \/ (Ahead = cursor /\ cursor = Len(text))
      /\ Ahead <= Len(text) /\ Len(text) \in Nat
  BY AheadIs
<1>2. cursor + 1 >= Len(text) => Ahead = Len(text)
  BY <1>1 DEF Ahead
<1>3. cursor + 1 \in H
  BY <1>2 DEF GoesOn
<1>4. Ahead = cursor + 1
  BY <1>1, <1>3
<1> QED
  BY <1>3, <1>4 DEF DividesStanza

\* A refusal is right if no division of the stanza is possible.
LEMMA RefusedRightly ==
  ASSUME text' = text, reading' = "refused",
         \A H \in SUBSET (1..Len(text)) : ~DividesStanza(H)
  PROVE  JudgeInv'
<1>1. ~InForm
  BY DEF InForm
<1> QED
  BY <1>1, FormStays DEF JudgeInv, JudgedAsWritten

\* The turn that ends the directive at h keeps what has been read in step.
LEMMA JudgedOn ==
  ASSUME text \in Stanzas, text' = text, JudgeInv, NEW h \in Nat \ {0},
         reading \in {"block", "zone"}, reading' \in {"block", "zone"},
         Here = h, Here' = After(h), conf'.smdURL = UrlAfter(h, conf.smdURL),
         WellBraced => IsDirective(h) /\ (Word(h) = "smd_url" => conf.smdURL = Unset),
         \A H \in SUBSET (1..Len(text)) : DividesStanza(H) => h \in H
  PROVE  JudgeInv'
<1> DEFINE url  == conf.smdURL
           url2 == UrlAfter(h, url)
<1>1. ASSUME WellBraced PROVE \E R : HeadsRead(R, After(h), url2)
  <2>1. PICK R : HeadsRead(R, h, url)
    BY <1>1 DEF JudgeInv
  <2>2. HeadsRead(R \cup {h}, After(h), url2)
    BY <1>1, <2>1, OneMoreHead
  <2> QED
    BY <2>2
<1>2. ASSUME NEW H \in SUBSET (1..Len(text)), DividesStanza(H)
      PROVE  StillDivides(H, After(h), url2)
  BY <1>2, DividesOn DEF JudgeInv
<1> HIDE DEF url, url2
<1>3. WellBraced' => \E R : HeadsRead(R, Here, conf.smdURL)'
  BY <1>1, FormStays DEF url, url2
<1>4. \A H \in SUBSET (1..Len(text)) : DividesStanza(H)' => StillDivides(H, Here, conf.smdURL)'
  BY <1>2, FormStays DEF url, url2
<1> QED
  BY <1>3, <1>4 DEF JudgeInv, JudgedAsWritten

\* A turn within a directive changes nothing.
LEMMA JudgedWithin ==
  ASSUME text' = text, JudgeInv, Here' = Here, conf'.smdURL = conf.smdURL,
         reading \in {"block", "zone"}, reading' \in {"block", "zone"}
  PROVE  JudgeInv'
<1>1. WellBraced' => \E R : HeadsRead(R, Here, conf.smdURL)'
  BY FormStays DEF JudgeInv
<1>2. \A H \in SUBSET (1..Len(text)) : DividesStanza(H)' => StillDivides(H, Here, conf.smdURL)'
  BY FormStays DEF JudgeInv
<1> QED
  BY <1>1, <1>2 DEF JudgeInv, JudgedAsWritten

LEMMA JudgedInBlock ==
  ASSUME ReadInv, ZonesInv, JudgeInv, ReadDirective
  PROVE  JudgeInv'
<1>1. /\ text \in Stanzas /\ cursor \in Nat /\ cursor <= Len(text) /\ reading = "block"
      /\ text' = text /\ Here = cursor + 1
      /\ DOMAIN conf = {"smdURL", "caCert", "cacheDuration", "zones"}
  BY DEF ReadInv, ZonesInv, ReadDirective, Here
<1>2. /\ Ahead \in Nat /\ cursor <= Ahead /\ Ahead <= Len(text) /\ Len(text) \in Nat
      /\ Ahead = cursor + 1 \/ (Ahead = cursor /\ cursor = Len(text))
      /\ HasArg(Ahead) => Ahead = cursor + 1 /\ Ahead + 1 <= Len(text)
  BY <1>1, AheadIs
<1>3. \A H \in SUBSET (1..Len(text)) : DividesStanza(H) => StillDivides(H, cursor + 1, conf.smdURL)
  BY <1>1 DEF JudgeInv
<1>4. ASSUME Word(Ahead) # RightBrace, NEW H \in SUBSET (1..Len(text)), DividesStanza(H)
      PROVE  cursor + 1 \in H /\ Ahead = cursor + 1 /\ IsDirective(Ahead)
  <2>1. GoesOn(H, cursor + 1)
    BY <1>3, <1>4 DEF StillDivides
  <2> QED
    BY <1>1, <1>4, <2>1, NextHead
<1>5. CASE EndOfStanza
  <2>1. /\ Word(Ahead) = RightBrace
        /\ reading' = IF conf.smdURL = Unset THEN "refused" ELSE "done"
    BY <1>5 DEF EndOfStanza
  <2>2. CASE conf.smdURL = Unset
    <3>1. ASSUME NEW H \in SUBSET (1..Len(text)), DividesStanza(H) PROVE FALSE
      <4>1. StillDivides(H, cursor + 1, Unset) /\ \A p \in H : IsDirective(p) /\ p <= Len(text)
        BY <1>3, <2>2, <3>1 DEF DividesStanza
      <4>2. Ahead \notin H
        BY <2>1, <4>1, BraceIsNoWord DEF IsDirective, OpensZone
      <4>3. cursor + 1 >= Len(text) /\ cursor + 1 \notin H
        BY <1>1, <1>2, <4>1, <4>2 DEF StillDivides, GoesOn
      <4>4. \A p \in H : p < cursor + 1
        BY <1>1, <1>2, <4>3
      <4>5. \E p \in H : NamesSmd(p)
        BY <3>1 DEF DividesStanza
      <4> QED
        BY <4>1, <4>4, <4>5 DEF StillDivides
    <3> QED
      BY <1>1, <2>1, <2>2, <3>1, RefusedRightly
  <2>3. CASE conf.smdURL # Unset
    <3>1. ASSUME WellBraced PROVE InForm
      <4>1. Ahead = Len(text)
        <5>1. PICK at : ReadUpTo(conf.zones, at, cursor, 0)
          BY <1>1 DEF ZonesInv, OpenNow
        <5> QED
          BY <1>1, <2>1, <3>1, <5>1, EndIsEnd
      <4>2. PICK R : HeadsRead(R, cursor + 1, conf.smdURL)
        BY <1>1, <3>1 DEF JudgeInv
      <4>3. \A p : p = cursor + 1 => GoesOn(R, p)
        BY <1>1, <1>2, <2>1, <4>1 DEF GoesOn
      <4>4. GoesOn(R, 1) /\ \A p \in R : IsDirective(p) /\ GoesOn(R, After(p))
        BY <4>2, <4>3 DEF HeadsRead, GoesOn
      <4>5. DividesStanza(R)
        BY <2>3, <4>2, <4>4 DEF HeadsRead, DividesStanza
      <4>6. R \in SUBSET {p \in 1..Len(text) : IsDirective(p)}
        BY <1>1, <1>2, <4>2 DEF HeadsRead
      <4> QED
        BY <4>5, <4>6 DEF InForm
    <3> QED
      BY <1>1, <2>1, <2>3, <3>1, FormStays DEF JudgeInv, JudgedAsWritten
  <2> QED
    BY <2>2, <2>3
<1>6. ASSUME NEW t \in Settings, Setting(t[1], t[2]) PROVE JudgeInv'
  <2>1. /\ Word(Ahead) = t[1] /\ t[1] # RightBrace /\ t[1] # "zone"
        /\ t[1] \in {"smd_url", "ca_cert", "cache_duration"}
        /\ t[1] = "smd_url" <=> t[2] = "smdURL"
    BY <1>6, BraceIsNoWord DEF Setting, Settings
  <2>2. CASE HasArg(Ahead) /\ (t[2] = "smdURL" => conf.smdURL = Unset)
    <3>1. Ahead = cursor + 1 /\ After(Ahead) = Ahead + 2 /\ IsDirective(Ahead)
      BY <1>2, <2>1, <2>2 DEF After, IsDirective
    <3>2. cursor' = Ahead + 1 /\ reading' = "block"
          /\ conf' = [conf EXCEPT ![t[2]] = Word(Ahead + 1)]
      BY <1>1, <1>6, <2>2 DEF Setting
    <3>3. Here' = After(Ahead)
      BY <1>2, <3>1, <3>2 DEF Here
    <3>4. conf'.smdURL = UrlAfter(Ahead, conf.smdURL)
      BY <1>1, <2>1, <3>2 DEF UrlAfter, Settings
    <3>5. \A H \in SUBSET (1..Len(text)) : DividesStanza(H) => Ahead \in H
      BY <1>4, <2>1
    <3> QED
      BY <1>1, <2>1, <2>2, <3>1, <3>2, <3>3, <3>4, <3>5, JudgedOn
  <2>3. CASE ~(HasArg(Ahead) /\ (t[2] = "smdURL" => conf.smdURL = Unset))
    <3>1. Refuse
      BY <1>6, <2>3 DEF Setting
    <3>2. ASSUME NEW H \in SUBSET (1..Len(text)), DividesStanza(H) PROVE FALSE
      <4>1. cursor + 1 \in H /\ Ahead = cursor + 1 /\ IsDirective(Ahead)
        BY <1>4, <2>1, <3>2
      <4>2. HasArg(Ahead)
        BY <2>1, <4>1 DEF IsDirective, OpensZone
      <4>3. Word(Ahead) = "smd_url" /\ conf.smdURL # Unset
        BY <2>1, <2>3, <4>2
      <4>4. \E p \in H : p < cursor + 1 /\ NamesSmd(p)
        BY <1>3, <3>2, <4>3 DEF StillDivides
      <4> QED
        BY <3>2, <4>1, <4>3, <4>4 DEF DividesStanza
    <3> QED
      BY <1>1, <3>1, <3>2, RefusedRightly DEF Refuse
  <2> QED
    BY <2>2, <2>3
<1>7. CASE ZoneOpens
  <2>1. Word(Ahead) = "zone" /\ Word(Ahead) # RightBrace
    BY <1>7, BraceIsNoWord DEF ZoneOpens
  <2>2. CASE HasArg(Ahead) /\ Ahead + 1 < Len(text) /\ Word(Ahead + 2) = LeftBrace
    <3>1. /\ cursor' = Ahead + 2 /\ reading' = "zone" /\ seenNodes' = FALSE /\ conf' = conf
          /\ Ahead = cursor + 1
      BY <1>2, <1>7, <2>2 DEF ZoneOpens
    <3>2. Here' = Here
      BY <1>1, <3>1 DEF Here, Opened
    <3> QED
      BY <1>1, <3>1, <3>2, JudgedWithin
  <2>3. CASE ~(HasArg(Ahead) /\ Ahead + 1 < Len(text) /\ Word(Ahead + 2) = LeftBrace)
    <3>1. Refuse
      BY <1>7, <2>3 DEF ZoneOpens
    <3>2. ASSUME NEW H \in SUBSET (1..Len(text)), DividesStanza(H) PROVE FALSE
      <4>1. IsDirective(Ahead)
        BY <1>4, <2>1, <3>2
      <4>2. OpensZone(Ahead)
        BY <2>1, <4>1 DEF IsDirective
      <4> QED
        BY <1>2, <2>3, <4>2 DEF OpensZone
    <3> QED
      BY <1>1, <3>1, <3>2, RefusedRightly DEF Refuse
  <2> QED
    BY <2>2, <2>3
<1>8. CASE Word(Ahead) \notin {RightBrace, "smd_url", "ca_cert", "cache_duration", "zone"} /\ Refuse
  <2>1. ASSUME NEW H \in SUBSET (1..Len(text)), DividesStanza(H) PROVE FALSE
    <3>1. IsDirective(Ahead)
      BY <1>4, <1>8, <2>1
    <3> QED
      BY <1>8, <3>1 DEF IsDirective, OpensZone
  <2> QED
    BY <1>1, <1>8, <2>1, RefusedRightly DEF Refuse
<1>9. /\ <<"smd_url", "smdURL">> \in Settings /\ <<"ca_cert", "caCert">> \in Settings
      /\ <<"cache_duration", "cacheDuration">> \in Settings
  BY DEF Settings
<1> QED
  BY <1>5, <1>6, <1>7, <1>8, <1>9 DEF ReadDirective

LEMMA JudgedInZone ==
  ASSUME ReadInv, ZonesInv, JudgeInv, ReadZone
  PROVE  JudgeInv'
<1> DEFINE o == Opened
<1>1. /\ text \in Stanzas /\ cursor \in Nat /\ cursor <= Len(text) /\ reading = "zone"
      /\ text' = text /\ seenNodes \in BOOLEAN /\ ZoneSoFar /\ Here = o
      /\ DOMAIN conf = {"smdURL", "caCert", "cacheDuration", "zones"}
  BY DEF ReadInv, ZonesInv, ReadZone, Here
<1>2. Len(text) \in Nat
  BY <1>1, StanzaAssumption
<1>3. /\ o \in Nat \ {0} /\ OpensZone(o) /\ o + 2 <= Len(text) /\ Word(o) = "zone"
      /\ seenNodes => cursor = o + 4 /\ HasNodes(o)
      /\ ~seenNodes => cursor = o + 2
  BY <1>1 DEF ZoneSoFar, Opened, OpensZone
<1> HIDE DEF o
<1>4. ASSUME NEW H \in SUBSET (1..Len(text)), DividesStanza(H)
      PROVE  /\ o \in H /\ Close(o) < Len(text) /\ Word(Close(o)) = RightBrace
             /\ HasNodes(o) => HasArg(o + 3)
  <2>1. GoesOn(H, o)
    BY <1>1, <1>4 DEF JudgeInv, StillDivides
  <2>2. o \in H
    BY <1>2, <1>3, <2>1 DEF GoesOn
  <2>3. IsDirective(o)
    BY <1>4, <2>2 DEF DividesStanza
  <2> QED
    BY <1>3, <2>2, <2>3 DEF IsDirective
<1>5. CASE ZoneEnds
  <2>1. /\ cursor' = Ahead /\ reading' = "block" /\ conf'.smdURL = conf.smdURL
    BY <1>1, <1>5 DEF ZoneEnds
  <2>2. IsZoneAt(zone, o) /\ Close(o) = cursor + 1 /\ (WellBraced => cursor + 1 < Len(text))
    BY <1>1, <1>5, ZoneClosed DEF o
  <2>3. After(o) = cursor + 2 /\ UrlAfter(o, conf.smdURL) = conf.smdURL
    BY <1>1, <1>3, <2>2 DEF After, UrlAfter
  <2>4. ASSUME cursor + 1 < Len(text) PROVE JudgeInv'
    <3>1. Here' = After(o)
      BY <1>1, <1>2, <2>1, <2>3, <2>4 DEF Here, Ahead
    <3>2. WellBraced => IsDirective(o)
      BY <1>1, <1>3, <2>2, BracedZone DEF IsDirective, IsZoneAt
    <3> QED
      BY <1>1, <1>3, <1>4, <2>1, <2>3, <3>1, <3>2, JudgedOn
  <2>5. ASSUME ~(cursor + 1 < Len(text)) PROVE JudgeInv'
    <3>1. \A H \in SUBSET (1..Len(text)) : ~DividesStanza(H)
      BY <1>4, <2>2, <2>5
    <3>2. ~WellBraced
      BY <2>2, <2>5
    <3> QED
      BY <1>1, <2>1, <3>1, <3>2, FormStays DEF JudgeInv, JudgedAsWritten
  <2> QED
    BY <2>4, <2>5
<1>6. CASE Nodes
  <2>1. cursor < Len(text) /\ Word(cursor + 1) = "nodes"
    BY <1>6 DEF Nodes
  <2>2. CASE ~seenNodes /\ HasArg(cursor + 1)
    <3>1. cursor' = cursor + 2 /\ seenNodes' = TRUE /\ reading' = "zone" /\ conf' = conf
      BY <1>1, <1>6, <2>2 DEF Nodes
    <3>2. Here' = Here
      BY <1>1, <2>2, <3>1 DEF Here, Opened
    <3> QED
      BY <1>1, <3>1, <3>2, JudgedWithin
  <2>3. CASE ~(~seenNodes /\ HasArg(cursor + 1))
    <3>1. Refuse
      BY <1>6, <2>3 DEF Nodes
    <3>2. ASSUME NEW H \in SUBSET (1..Len(text)), DividesStanza(H) PROVE FALSE
      <4>1. CASE seenNodes
        <5>1. Close(o) = cursor + 1
          BY <1>1, <1>3, <4>1 DEF Close
        <5> QED
          BY <1>4, <2>1, <3>2, <5>1, BraceIsNoWord
      <4>2. CASE ~seenNodes
        <5>1. o + 3 = cursor + 1
          BY <1>3, <4>2
        <5>2. HasNodes(o)
          BY <1>1, <1>2, <2>1, <5>1 DEF HasNodes
        <5>3. HasArg(o + 3)
          BY <1>4, <3>2, <5>2
        <5> QED
          BY <2>3, <4>2, <5>1, <5>3
      <4> QED
        BY <4>1, <4>2
    <3> QED
      BY <1>1, <3>1, <3>2, RefusedRightly DEF Refuse
  <2> QED
    BY <2>2, <2>3
<1>7. CASE cursor < Len(text) /\ Word(cursor + 1) \notin {RightBrace, "zone", "nodes"} /\ Refuse
  <2>1. Close(o) = cursor + 1
    <3>1. ~seenNodes => o + 3 = cursor + 1
      BY <1>3
    <3>2. ~seenNodes => ~HasNodes(o)
      BY <1>7, <3>1 DEF HasNodes
    <3> QED
      BY <1>1, <1>3, <3>2 DEF Close
  <2>2. ASSUME NEW H \in SUBSET (1..Len(text)), DividesStanza(H) PROVE FALSE
    BY <1>4, <1>7, <2>1, <2>2
  <2> QED
    BY <1>1, <1>7, <2>2, RefusedRightly DEF Refuse
<1> QED
  BY <1>5, <1>6, <1>7 DEF ReadZone

\* Starting and serving leave the verdict alone.
LEMMA JudgedLeft ==
  ASSUME JudgeInv, ReadInv, OnStartup \/ UNCHANGED corefileVars
  PROVE  JudgeInv'
<1>1. /\ text' = text /\ reading' = reading /\ conf'.smdURL = conf.smdURL /\ Here' = Here
  BY DEF OnStartup, corefileVars, readVars, ReadInv, Here, Opened
<1>2. CASE reading \in {"block", "zone"}
  BY <1>1, <1>2, JudgedWithin
<1>3. CASE reading \notin {"block", "zone"}
  BY <1>1, <1>3, FormStays DEF JudgeInv, JudgedAsWritten
<1> QED
  BY <1>2, <1>3

-----------------------------------------------------------------------------
(* The conversation with the resolver *)

\* The stages of the plugin and of the conversation fit each other.
StageInv ==
  /\ stage # "off" => reading = "done"
  /\ stage # "serving" => query = NoQuery
  /\ query = NoQuery => reversed = NoAddr /\ answer = NoAnswer
  /\ query.type = "PTR" => query.addr \in Addr \cup {NoAddr} /\ reversed = NoAddr
  /\ answer.kind = "name" => query.type = "PTR"
  /\ answer.kind = "address" => query.type \in {"A", "AAAA"}
  /\ reversed # NoAddr => query.type = IF reversed \in V4 THEN "A" ELSE "AAAA"

\* As long as the cache is that of the PTR answer, what was answered, and what is
\* being confirmed, is what the lookups find in it.
TrailInv ==
  undisturbed =>
    /\ answer.kind = "name" => answer.name \in LookupPTR(cache, conf.zones, query.addr)
    /\ reversed # NoAddr => query.name \in LookupPTR(cache, conf.zones, reversed)
    /\ answer.kind = "address" =>
         answer.addr \in Lookup(cache, conf.zones, Family(query.type), query.name)
    /\ answer.kind = "next" /\ query.type \in {"A", "AAAA"} =>
         Lookup(cache, conf.zones, Family(query.type), query.name) = {}

DnsInv == DnsTypeOK /\ ReadInv /\ StageInv /\ TrailInv

LEMMA Bounds == MaxChanges \in Nat /\ MaxFaults \in Nat /\ MaxReloads \in Nat
  BY DnsAssumption

LEMMA FoundInFamily ==
  ASSUME NEW inv, NEW zones, NEW fam, NEW name, NEW a \in Lookup(inv, zones, fam, name)
  PROVE  a \in fam
  BY FirstOfSound DEF Lookup

LEMMA EmptyHeld == Empty \in Held
<1>1. Empty = Copy(Empty, Empty)
  BY DEF Empty, Copy
<1> QED
  BY <1>1 DEF Held

LEMMA ChangesKeep ==
  ASSUME changes \in 0..MaxChanges, Changes
  PROVE  smd' \in Inventories /\ changes' \in 0..MaxChanges
  BY Bounds DEF Changes

\* A refresh leaves an inventory, or a mixture of two, in the cache.
LEMMA CopiesKeep ==
  ASSUME smd \in Inventories, changes \in 0..MaxChanges, faults \in 0..MaxFaults,
         NEW from \in Held, Copies(from)
  PROVE  /\ smd' \in Inventories /\ cache' \in Held
         /\ changes' \in 0..MaxChanges /\ faults' \in 0..MaxFaults
<1>1. \A i \in Inventories, j \in Inventories \cup {Empty} : Copy(i, j) \in Held
  BY DEF Held
<1>2. CASE cache' = Copy(smd, smd) /\ UNCHANGED <<smd, changes, faults>>
  BY <1>1, <1>2
<1>3. CASE Changes /\ cache' = Copy(smd, smd') /\ UNCHANGED faults
  BY <1>1, <1>3, ChangesKeep
<1>4. CASE Fault /\ cache' \in {from, Copy(smd, Empty)} /\ UNCHANGED <<smd, changes>>
  BY <1>1, <1>4, Bounds DEF Fault
<1> QED
  BY <1>2, <1>3, <1>4 DEF Copies

LEMMA DnsInvInit == DnsInit => DnsInv
<1> SUFFICES ASSUME DnsInit PROVE DnsInv
  OBVIOUS
<1>1. ReadInv
  BY ReadInvInit DEF DnsInit
<1>2. DnsTypeOK
  BY DnsAssumption, EmptyHeld DEF DnsInit, DnsTypeOK, NoQuery, NoAnswer, CorefileInit
<1>3. StageInv /\ TrailInv
  BY DEF DnsInit, StageInv, TrailInv, NoQuery, NoAnswer
<1> QED
  BY <1>1, <1>2, <1>3 DEF DnsInv

\* Reading and starting happen before anything is asked.
LEMMA StartKeeps ==
  ASSUME DnsInv, Read \/ OnStartup
  PROVE  DnsInv'
<1> USE DEF DnsInv
<1>1. CASE Read
  <2>1. ReadInv'
    BY <1>1, ReadInvNext DEF Read
  <2>2. stage = "off" /\ stage' = "off"
    BY <1>1 DEF Read, ReadCorefile, ReadDirective, ReadZone, StageInv, DnsTypeOK
  <2>3. DnsTypeOK'
    BY <1>1, <2>1, <2>2 DEF Read, DnsTypeOK, resolverVars, counters, ReadInv
  <2>4. StageInv' /\ TrailInv'
    BY <1>1, <2>2 DEF Read, StageInv, TrailInv, resolverVars, NoAnswer
  <2> QED
    BY <2>1, <2>3, <2>4
<1>2. CASE OnStartup
  <2>1. /\ query = NoQuery /\ reversed = NoAddr /\ answer = NoAnswer
        /\ query' = NoQuery /\ reversed' = NoAddr /\ answer' = NoAnswer
        /\ reading' = reading /\ reading = "done" /\ stage' \in {"serving", "failed"}
    BY <1>2 DEF OnStartup, StageInv, resolverVars
  <2>2. ZonesRead(<<DefaultZone>>)
    <3> DEFINE S == {DefaultZone}
    <3>1. <<DefaultZone>> \in Seq(S)
      OBVIOUS
    <3>2. \A z \in S : z.pattern \in Pattern \cup {Unset}
      BY DnsAssumption
    <3> HIDE DEF S
    <3> QED
      BY <3>1, <3>2 DEF ZonesRead
  <2>3. ReadInv' /\ (stage' = "serving" => conf'.zones # <<>>)
    <3>1. CASE conf' = conf
      <4>1. /\ text' = text /\ cursor' = cursor /\ zone' = zone /\ reading' = reading
            /\ ZonesRead(conf.zones)' <=> ZonesRead(conf.zones)
        BY <1>2, <3>1 DEF OnStartup, ZonesRead
      <4>2. ReadInv'
        BY <3>1, <4>1 DEF ReadInv
      <4>3. ASSUME stage' = "serving" PROVE conf'.zones # <<>>
        BY <1>2, <3>1, <4>3 DEF OnStartup, ReadInv
      <4> QED
        BY <4>2, <4>3
    <3>2. CASE stage' = "serving"
      <4>1. /\ conf'.zones = (IF conf.zones = <<>> THEN <<DefaultZone>> ELSE conf.zones)
            /\ DOMAIN conf' = DOMAIN conf
        BY <1>2, <3>2 DEF OnStartup, ReadInv
      <4>2. ZonesRead(conf'.zones)
        <5>1. ZonesRead(conf.zones)
          BY DEF ReadInv
        <5> QED
          BY <2>2, <4>1, <5>1
      <4>3. conf'.zones # <<>>
        BY <4>1
      <4>4. /\ text' = text /\ cursor' = cursor /\ zone' = zone
            /\ ZonesRead(conf.zones)' <=> ZonesRead(conf'.zones)
        BY <1>2 DEF OnStartup, ZonesRead
      <4> QED
        BY <2>1, <4>1, <4>2, <4>3, <4>4 DEF ReadInv
    <3> QED
      BY <1>2, <3>1, <3>2 DEF OnStartup
  <2>4. /\ smd' \in Inventories /\ cache' \in Held
        /\ changes' \in 0..MaxChanges /\ faults' \in 0..MaxFaults
    BY <1>2, CopiesKeep, EmptyHeld DEF OnStartup, DnsTypeOK
  <2>5. DnsTypeOK'
    BY <1>2, <2>1, <2>3, <2>4 DEF OnStartup, DnsTypeOK, NoAnswer
  <2>6. StageInv' /\ TrailInv'
    BY <2>1 DEF StageInv, TrailInv, NoAnswer, NoQuery
  <2> QED
    BY <2>3, <2>5, <2>6
<1> QED
  BY <1>1, <1>2

\* The cache and SMD change under the resolver's feet.
LEMMA EnvironmentKeeps ==
  ASSUME DnsInv, SmdChanges \/ RefreshCache \/ Reload
  PROVE  DnsInv'
<1> USE DEF DnsInv
<1>1. /\ UNCHANGED <<corefileVars, stage, resolverVars>>
      /\ smd' \in Inventories /\ cache' \in Held
      /\ undisturbed' => undisturbed /\ cache' = cache
      /\ changes' \in 0..MaxChanges /\ faults' \in 0..MaxFaults /\ reloads' \in 0..MaxReloads
  <2>1. CASE SmdChanges
    BY <2>1, ChangesKeep DEF SmdChanges, DnsTypeOK, corefileVars, readVars, resolverVars
  <2>2. CASE RefreshCache
    <3>1. /\ UNCHANGED <<corefileVars, stage, resolverVars, reloads>>
          /\ undisturbed' => undisturbed /\ cache' = cache
          /\ Copies(cache)
      BY <2>2, Zenon DEF RefreshCache
    <3> QED
      BY <3>1, Bounds, CopiesKeep, EmptyHeld DEF DnsTypeOK
  <2>3. CASE Reload
    <3>1. /\ UNCHANGED <<corefileVars, stage, resolverVars>>
          /\ reloads < MaxReloads /\ reloads' = reloads + 1
          /\ undisturbed' => undisturbed /\ cache' = cache
          /\ Copies(Empty)
      BY <2>3, Zenon DEF Reload
    <3> QED
      BY <3>1, Bounds, CopiesKeep, EmptyHeld DEF DnsTypeOK
  <2> QED
    BY <2>1, <2>2, <2>3
<1>2. /\ text' = text /\ cursor' = cursor /\ reading' = reading /\ conf' = conf /\ zone' = zone
      /\ query' = query /\ answer' = answer /\ reversed' = reversed /\ stage' = stage
  BY <1>1 DEF corefileVars, readVars, resolverVars
<1>3. DnsTypeOK' /\ ReadInv' /\ StageInv'
  BY <1>1, <1>2 DEF DnsTypeOK, ReadInv, StageInv
<1>4. TrailInv'
  BY <1>1, <1>2 DEF TrailInv
<1> QED
  BY <1>3, <1>4

\* The resolver asks, confirms and concludes.
LEMMA ResolverKeeps ==
  ASSUME DnsInv, (\E q \in Queries : Ask(q)) \/ Confirm \/ Conclude
  PROVE  DnsInv'
<1> USE DEF DnsInv
<1>1. /\ text' = text /\ cursor' = cursor /\ reading' = reading /\ conf' = conf /\ zone' = zone
      /\ stage' = stage /\ smd' = smd /\ cache' = cache
      /\ changes' = changes /\ faults' = faults /\ reloads' = reloads
  BY DEF Ask, Confirm, Conclude, corefileVars, readVars, counters
<1>2. ReadInv'
  BY <1>1 DEF ReadInv
<1>3. ASSUME NEW q \in Queries, Ask(q)
      PROVE  DnsInv'
  <2>1. /\ query' = q /\ answer' = NoAnswer /\ reversed' = NoAddr /\ stage = "serving"
    BY <1>3 DEF Ask, StageInv
  <2>2. /\ q.type \in {"A", "AAAA", "PTR", "other"}
        /\ q.type = "PTR" => q.addr \in Addr \cup {NoAddr}
    BY <1>3 DEF Queries, NoQuery
  <2>3. DnsTypeOK'
    BY <1>1, <2>1, <2>2 DEF DnsTypeOK, NoAnswer
  <2>4. StageInv'
    BY <1>1, <2>1, <2>2 DEF StageInv, NoAnswer
  <2>5. TrailInv'
    BY <2>1 DEF TrailInv, NoAnswer
  <2> QED
    BY <1>2, <2>3, <2>4, <2>5
<1>4. CASE Confirm
  <2>1. /\ answer.kind = "name" /\ answer' = NoAnswer /\ reversed' = query.addr
        /\ undisturbed' = undisturbed
        /\ query'.type = (IF query.addr \in V4 THEN "A" ELSE "AAAA")
        /\ query'.name = answer.name
    BY <1>4 DEF Confirm, NoQuery
  <2>2. query.type = "PTR" /\ query.addr \in Addr \cup {NoAddr} /\ stage = "serving"
    BY <2>1 DEF StageInv, DnsTypeOK, NoAnswer, NoQuery
  <2>3. DnsTypeOK'
    BY <1>1, <2>1, <2>2 DEF DnsTypeOK, NoAnswer
  <2>4. StageInv'
    BY <1>1, <2>1, <2>2 DEF StageInv, NoAnswer, NoQuery
  <2>5. TrailInv'
    BY <1>1, <2>1 DEF TrailInv, NoAnswer
  <2> QED
    BY <1>2, <2>3, <2>4, <2>5
<1>5. CASE Conclude
  <2>1. query' = NoQuery /\ answer' = NoAnswer /\ reversed' = NoAddr
    BY <1>5 DEF Conclude
  <2>2. DnsTypeOK'
    BY <1>1, <2>1 DEF DnsTypeOK, NoAnswer
  <2>3. StageInv'
    BY <1>1, <2>1 DEF StageInv, NoAnswer, NoQuery
  <2>4. TrailInv'
    BY <2>1 DEF TrailInv, NoAnswer
  <2> QED
    BY <1>2, <2>2, <2>3, <2>4
<1> QED
  BY <1>3, <1>4, <1>5

\* ServeDNS answers from the cache of the moment.
LEMMA ServeKeeps ==
  ASSUME DnsInv, ServeDNS
  PROVE  DnsInv'
<1> USE DEF DnsInv
<1>1. /\ text' = text /\ cursor' = cursor /\ reading' = reading /\ conf' = conf /\ zone' = zone
      /\ stage' = stage /\ smd' = smd /\ cache' = cache /\ query' = query
      /\ reversed' = reversed /\ changes' = changes /\ reloads' = reloads
      /\ query # NoQuery /\ answer = NoAnswer
  BY DEF ServeDNS, corefileVars, readVars
<1>2. ReadInv'
  BY <1>1 DEF ReadInv
<1>3. CASE ServeForward
  <2> DEFINE found == Lookup(cache, conf.zones, Family(query.type), query.name)
  <2>1. /\ query.type \in {"A", "AAAA"} /\ undisturbed' = undisturbed
        /\ faults' \in 0..MaxFaults
        /\ \/ \E a \in found : answer' = [NoAnswer EXCEPT !.kind = "address", !.addr = a]
           \/ answer' = [NoAnswer EXCEPT !.kind = "failed"]
           \/ found = {} /\ answer' = [NoAnswer EXCEPT !.kind = "next"]
    <3>1. /\ query.type \in {"A", "AAAA"} /\ undisturbed' = undisturbed
          /\ \/ \E a \in found : Respond([NoAnswer EXCEPT !.kind = "address", !.addr = a])
             \/ found = {} /\ PassOn
      BY <1>3, Zenon DEF ServeForward
    <3> HIDE DEF found
    <3>2. faults' = faults \/ Fault
      BY <3>1 DEF Respond, PassOn
    <3>3. faults' \in 0..MaxFaults
      BY <3>2, Bounds DEF Fault, DnsTypeOK
    <3> QED
      BY <3>1, <3>3 DEF Respond, PassOn
  <2>2. /\ answer'.kind \in {"address", "failed", "next"}
        /\ answer'.kind = "address" => answer'.addr \in found /\ answer'.addr \in Family(query.type)
        /\ answer'.kind = "next" => found = {}
    BY <2>1, FoundInFamily DEF NoAnswer
  <2>3. DnsTypeOK' /\ StageInv'
    BY <1>1, <2>1, <2>2 DEF DnsTypeOK, StageInv
  <2>4. TrailInv'
    BY <1>1, <2>1, <2>2 DEF TrailInv
  <2> QED
    BY <1>2, <2>3, <2>4
<1>4. CASE ServeReverse
  <2> DEFINE found == LookupPTR(cache, conf.zones, query.addr)
  <2>1. /\ query.type = "PTR" /\ faults' \in 0..MaxFaults
        /\ \/ \E n \in found : answer' = [NoAnswer EXCEPT !.kind = "name", !.name = n]
           \/ answer' = [NoAnswer EXCEPT !.kind = "failed"]
           \/ found = {} /\ answer' = [NoAnswer EXCEPT !.kind = "next"]
    <3>1. /\ query.type = "PTR"
          /\ \/ \E n \in found : Respond([NoAnswer EXCEPT !.kind = "name", !.name = n])
             \/ found = {} /\ PassOn
      BY <1>4, Zenon DEF ServeReverse
    <3> HIDE DEF found
    <3>2. faults' = faults \/ Fault
      BY <3>1 DEF Respond, PassOn
    <3>3. faults' \in 0..MaxFaults
      BY <3>2, Bounds DEF Fault, DnsTypeOK
    <3> QED
      BY <3>1, <3>3 DEF Respond, PassOn
  <2>2. /\ answer'.kind \in {"name", "failed", "next"}
        /\ answer'.kind = "name" => answer'.name \in found
    BY <2>1 DEF NoAnswer
  <2>3. DnsTypeOK' /\ StageInv'
    BY <1>1, <2>1, <2>2 DEF DnsTypeOK, StageInv
  <2>4. TrailInv'
    BY <1>1, <2>1, <2>2 DEF TrailInv, StageInv
  <2> QED
    BY <1>2, <2>3, <2>4
<1>5. CASE ServeOther
  <2>1. query.type = "other" /\ answer'.kind = "next" /\ faults' = faults /\ undisturbed' = undisturbed
    BY <1>5 DEF ServeOther, PassOn, NoAnswer
  <2>2. DnsTypeOK' /\ StageInv'
    BY <1>1, <2>1 DEF DnsTypeOK, StageInv
  <2>3. TrailInv'
    BY <1>1, <2>1 DEF TrailInv
  <2> QED
    BY <1>2, <2>2, <2>3
<1> QED
  BY <1>3, <1>4, <1>5 DEF ServeDNS

\* The conversation goes by the rules above for all stanzas, inventories, faults
\* and reloads.
THEOREM DnsInvCorrect == DnsSpec => []DnsInv
<1>1. DnsInv /\ [DnsNext]_dnsVars => DnsInv'
  <2>1. ASSUME DnsInv, UNCHANGED dnsVars PROVE DnsInv'
    BY <2>1 DEF DnsInv, dnsVars, corefileVars, readVars, resolverVars, counters,
       DnsTypeOK, ReadInv, StageInv, TrailInv
  <2> QED
    BY <2>1, StartKeeps, EnvironmentKeeps, ResolverKeeps, ServeKeeps DEF DnsNext
<1> QED
  BY <1>1, DnsInvInit, PTL DEF DnsSpec

\* The plugin's state is well typed, and what serves has a zone (setup.go).
THEOREM DnsTypeCorrect == DnsSpec => []DnsTypeOK
<1>1. DnsInv => DnsTypeOK
  BY DEF DnsInv
<1> QED
  BY <1>1, DnsInvCorrect, PTL

\* What has been read is what the stanza says up to the cursor, at every word of
\* every stanza, and stays in force (setup.go).
THEOREM StanzaInvCorrect == DnsSpec => [](ZonesInv /\ SettingsInv /\ JudgeInv)
<1> DEFINE Inv == ZonesInv /\ SettingsInv /\ JudgeInv
<1>1. DnsInv /\ Inv /\ [DnsNext]_dnsVars => Inv'
  <2> SUFFICES ASSUME DnsInv, ZonesInv, SettingsInv, JudgeInv, [DnsNext]_dnsVars
               PROVE  ZonesInv' /\ SettingsInv' /\ JudgeInv'
    OBVIOUS
  <2>1. ReadInv
    BY DEF DnsInv
  <2>2. CASE Read
    BY <2>1, <2>2, DirectiveKeeps, ZoneLineKeeps, SettingsRead, SettingsInZone,
       JudgedInBlock, JudgedInZone DEF Read, ReadCorefile
  <2>3. CASE OnStartup
    BY <2>1, <2>3, OnStartupKeeps, SettingsLeft, JudgedLeft
  <2>4. ASSUME UNCHANGED <<corefileVars, stage>> PROVE ZonesInv' /\ SettingsInv' /\ JudgeInv'
    BY <2>1, <2>4, StanzaLeft, SettingsLeft, JudgedLeft
  <2>5. ASSUME SmdChanges \/ RefreshCache \/ Reload PROVE UNCHANGED <<corefileVars, stage>>
    BY <2>5 DEF SmdChanges, RefreshCache, Reload
  <2>6. ASSUME (\E q \in Queries : Ask(q)) \/ Confirm \/ Conclude \/ ServeDNS
        PROVE  UNCHANGED <<corefileVars, stage>>
    BY <2>6 DEF Ask, Confirm, Conclude, ServeDNS
  <2>7. ASSUME UNCHANGED dnsVars PROVE UNCHANGED <<corefileVars, stage>>
    BY <2>7 DEF dnsVars
  <2> QED
    BY <2>2, <2>3, <2>4, <2>5, <2>6, <2>7 DEF DnsNext
<1> QED
  BY <1>1, DnsInvCorrect, ZonesInvInit, SettingsInvInit, JudgeInvInit, PTL DEF DnsSpec

\* The zones in force are those of the stanza, in order, each with its own pattern
\* and none left out, or the default one: parse and parseZone agree on where the
\* cursor is, whatever operators write (setup.go).
THEOREM ZonesAlwaysAsWritten == DnsSpec => []ZonesAsWritten
<1>1. ZonesInv => ZonesAsWritten
  BY DEF ZonesInv
<1> QED
  BY <1>1, StanzaInvCorrect, PTL

\* The settings in force are those of the last lines for them, none taken from
\* within a zone and none lost after one (setup.go).
THEOREM SettingsAlwaysAsWritten == DnsSpec => []SettingsAsWritten
<1>1. SettingsInv => SettingsAsWritten
  BY DEF SettingsInv
<1> QED
  BY <1>1, StanzaInvCorrect, PTL

\* No stanza that is made of directives and names SMD once is refused, and where
\* the braces match no other is accepted: neither parser takes a word that the
\* other should have read, whatever operators write (setup.go).
THEOREM AlwaysJudgedAsWritten == DnsSpec => []JudgedAsWritten
<1>1. JudgeInv => JudgedAsWritten
  BY DEF JudgeInv
<1> QED
  BY <1>1, StanzaInvCorrect, PTL

\* lookupA and lookupAAAA find an address of a component that bears the name, and
\* find one whenever there is one, in whatever zone, loop or interface.
THEOREM ForwardAlwaysExact == DnsSpec => []ForwardExact
<1>1. DnsInv => ForwardExact
  <2> SUFFICES ASSUME DnsInv, query.type \in {"A", "AAAA"}
               PROVE  LET fam   == Family(query.type)
                          found == Lookup(cache, conf.zones, fam, query.name)
                          all   == UNION {AddressesOf(cache, c, fam) :
                                            c \in BearersOf(conf.zones, query.name)}
                      IN  found \subseteq all /\ (found = {} => all = {})
    BY DEF ForwardExact
  <2> DEFINE fam == Family(query.type)
  <2>1. cache \in Held /\ Len(conf.zones) \in Nat /\ DOMAIN conf.zones = 1..Len(conf.zones)
    BY DEF DnsInv, DnsTypeOK, ReadInv, ZonesRead
  <2>2. \A a \in Lookup(cache, conf.zones, fam, query.name) :
          \E c \in BearersOf(conf.zones, query.name) : a \in AddressesOf(cache, c, fam)
    BY <2>1, LookupSound
  <2>3. \A c \in BearersOf(conf.zones, query.name) : \A a \in AddressesOf(cache, c, fam) :
          Lookup(cache, conf.zones, fam, query.name) # {}
    BY <2>1, LookupComplete
  <2> QED
    BY <2>2, <2>3
<1> QED
  BY <1>1, DnsInvCorrect, PTL

\* The name lookupPTR gives for an address leads lookupA or lookupAAAA back to an
\* address of the same component, as long as no refresh has changed the cache.
THEOREM ReverseAlwaysConfirmed == DnsSpec => []ReverseConfirmed
<1>1. DnsInv => ReverseConfirmed
  <2> SUFFICES ASSUME DnsInv, reversed # NoAddr, undisturbed, answer.kind \notin {"none", "failed"}
               PROVE  /\ answer.kind = "address"
                      /\ \E c \in Comp :
                           LET its == AddressesOf(cache, c, Family(query.type)) IN
                           /\ {reversed, answer.addr} \subseteq its
                           /\ its = {reversed} => answer.addr = reversed
    BY DEF ReverseConfirmed
  <2> DEFINE fam == Family(query.type)
             n   == query.name
  <2>1. /\ cache \in Held /\ ZonesRead(conf.zones) /\ reversed \in Addr
        /\ query.type = IF reversed \in V4 THEN "A" ELSE "AAAA"
        /\ n \in LookupPTR(cache, conf.zones, reversed)
    BY DEF DnsInv, DnsTypeOK, ReadInv, StageInv, TrailInv
  <2>2. reversed \in fam /\ query.type \in {"A", "AAAA"}
    BY <2>1 DEF Family, Addr
  <2>3. /\ reversed \in AddressesOf(cache, n.host, fam) /\ n.host \in Comp
        /\ Lookup(cache, conf.zones, fam, n) # {}
        /\ Lookup(cache, conf.zones, fam, n) \subseteq AddressesOf(cache, n.host, fam)
    <3> HIDE DEF fam, n
    <3> QED
      BY <2>1, <2>2, ThereAndBack
  <2>4. answer.kind = "address" /\ answer.addr \in Lookup(cache, conf.zones, fam, n)
    BY <2>2, <2>3 DEF DnsInv, DnsTypeOK, StageInv, TrailInv
  <2> QED
    BY <2>3, <2>4
<1> QED
  BY <1>1, DnsInvCorrect, PTL
=============================================================================
