------------------------------ MODULE Corefile ------------------------------
(***************************************************************************)
(* How the CoreDNS plugin reads its stanza of the Corefile (parse and      *)
(* parseZone in plugin/coredns/setup.go).  CoreDNS hands it the words of   *)
(* the stanza, each with its line, behind one cursor: Next moves on, NextArg*)
(* only along the line, NextBlock to the next directive or over the brace  *)
(* that ends the stanza.  The braces of a zone are read by parseZone, not  *)
(* by NextBlock, so both must agree on where the cursor is.                *)
(***************************************************************************)
EXTENDS Naturals, Sequences

CONSTANTS
  Stanzas,         \* stanzas operators write: sequences of [word, line], without
                   \* the leading "coresmd {", with the closing brace
  DefaultDuration, \* "30s"
  Unset

VARIABLES
  text,     \* the stanza
  cursor,   \* the word read last
  reading,  \* "block", "zone", "done" or "refused"
  conf,     \* the Plugin being filled
  zone,     \* parseZone's zone
  seenNodes

readVars == <<cursor, reading, conf, zone, seenNodes>>
corefileVars == <<text, readVars>>

EmptyConf == [smdURL |-> Unset, caCert |-> Unset, cacheDuration |-> Unset, zones |-> <<>>]
NoZone    == [name |-> Unset, pattern |-> Unset]

CorefileInit ==
  /\ text \in Stanzas
  /\ cursor = 0
  /\ reading = "block"
  /\ conf = EmptyConf
  /\ zone = NoZone
  /\ seenNodes = FALSE

-----------------------------------------------------------------------------
LeftBrace  == "{"
RightBrace == "}"

Word(i) == text[i].word

\* At the end of the stanza the dispenser stays on its last word.
Ahead == IF cursor < Len(text) THEN cursor + 1 ELSE cursor

\* An argument of the word at i: the next one, if it is on the same line.
HasArg(i) == i < Len(text) /\ text[i + 1].line = text[i].line

Refuse == reading' = "refused" /\ UNCHANGED <<cursor, conf, zone, seenNodes>>

\* The brace that ends the stanza: what is required, and the default, are seen to.
EndOfStanza ==
  /\ Word(Ahead) = RightBrace
  /\ cursor' = Ahead
  /\ reading' = IF conf.smdURL = Unset THEN "refused" ELSE "done"
  /\ conf' = IF conf.cacheDuration = Unset
             THEN [conf EXCEPT !.cacheDuration = DefaultDuration] ELSE conf
  /\ UNCHANGED <<zone, seenNodes>>

\* Slip for Setting: the argument may stand on the next line.
SettingAcrossLines(word, field) ==
  /\ Word(Ahead) = word
  /\ IF Ahead < Len(text) /\ (field = "smdURL" => conf.smdURL = Unset)
     THEN /\ conf' = [conf EXCEPT ![field] = Word(Ahead + 1)]
          /\ cursor' = Ahead + 1
          /\ UNCHANGED <<reading, zone, seenNodes>>
     ELSE Refuse

\* A directive with one argument; only smd_url may not come twice.
Setting(word, field) ==
  /\ Word(Ahead) = word
  /\ IF HasArg(Ahead) /\ (field = "smdURL" => conf.smdURL = Unset)
     THEN /\ conf' = [conf EXCEPT ![field] = Word(Ahead + 1)]
          /\ cursor' = Ahead + 1
          /\ UNCHANGED <<reading, zone, seenNodes>>
     ELSE Refuse

\* "zone <name> {", where the brace may stand on a line of its own.
ZoneOpens ==
  /\ Word(Ahead) = "zone"
  /\ IF HasArg(Ahead) /\ Ahead + 1 < Len(text) /\ Word(Ahead + 2) = LeftBrace
     THEN /\ zone' = [NoZone EXCEPT !.name = Word(Ahead + 1)]
          /\ seenNodes' = FALSE
          /\ cursor' = Ahead + 2
          /\ reading' = "zone"
          /\ UNCHANGED conf
     ELSE Refuse

\* One turn of parse's loop over the directives of the stanza.
ReadDirective ==
  /\ reading = "block"
  /\ \/ EndOfStanza
     \/ Setting("smd_url", "smdURL")
     \/ Setting("ca_cert", "caCert")
     \/ Setting("cache_duration", "cacheDuration")
     \/ ZoneOpens
     \/ /\ Word(Ahead) \notin {RightBrace, "smd_url", "ca_cert", "cache_duration", "zone"}
        /\ Refuse
  /\ UNCHANGED text

\* Slip for ZoneEnds: the brace is left to the caller, whose NextBlock takes it
\* for the end of the stanza.
ZoneEndsBefore ==
  /\ cursor = Len(text) \/ Word(cursor + 1) \in {RightBrace, "zone"}
  /\ conf' = [conf EXCEPT !.zones = Append(@, zone)]
  /\ zone' = NoZone /\ seenNodes' = FALSE
  /\ reading' = "block"
  /\ UNCHANGED cursor

\* parseZone returns its zone at "}", at the word "zone", or at the end.
ZoneEnds ==
  /\ cursor = Len(text) \/ Word(cursor + 1) \in {RightBrace, "zone"}
  /\ cursor' = Ahead
  /\ conf' = [conf EXCEPT !.zones = Append(@, zone)]
  /\ zone' = NoZone /\ seenNodes' = FALSE
  /\ reading' = "block"

\* Slip for Nodes: the argument may stand on the next line.
NodesAcrossLines ==
  /\ cursor < Len(text) /\ Word(cursor + 1) = "nodes"
  /\ IF ~seenNodes /\ cursor + 2 <= Len(text)
     THEN /\ zone' = [zone EXCEPT !.pattern = Word(cursor + 2)]
          /\ seenNodes' = TRUE
          /\ cursor' = cursor + 2
          /\ UNCHANGED <<reading, conf>>
     ELSE Refuse

\* "nodes <pattern>", once in a zone.
Nodes ==
  /\ cursor < Len(text) /\ Word(cursor + 1) = "nodes"
  /\ IF ~seenNodes /\ HasArg(cursor + 1)
     THEN /\ zone' = [zone EXCEPT !.pattern = Word(cursor + 2)]
          /\ seenNodes' = TRUE
          /\ cursor' = cursor + 2
          /\ UNCHANGED <<reading, conf>>
     ELSE Refuse

\* One turn of parseZone's loop.
ReadZone ==
  /\ reading = "zone"
  /\ \/ ZoneEnds
     \/ Nodes
     \/ /\ cursor < Len(text)
        /\ Word(cursor + 1) \notin {RightBrace, "zone", "nodes"}
        /\ Refuse
  /\ UNCHANGED text

ReadCorefile == ReadDirective \/ ReadZone

-----------------------------------------------------------------------------
(* What a stanza says, without a cursor *)

StartsLine(p) == p = 1 \/ text[p - 1].line # text[p].line

\* What it says up to c by a directive with one argument: that of the last of
\* them, or nothing if no line begins with it.
Says(word, value, c) ==
  \/ value = Unset /\ \A q \in 1..c : ~(Word(q) = word /\ StartsLine(q))
  \/ \E p \in 1..c :
       /\ Word(p) = word /\ HasArg(p) /\ value = Word(p + 1)
       /\ \A q \in 1..c : Word(q) = word /\ StartsLine(q) => q <= p

\* A zone opens at p and, if its braces hold no more than they may, closes at
\* Close(p).
OpensZone(p) ==
  /\ Word(p) = "zone" /\ HasArg(p)
  /\ p + 2 <= Len(text) /\ Word(p + 2) = LeftBrace
HasNodes(p) == p + 3 <= Len(text) /\ Word(p + 3) = "nodes"
Close(p) == IF HasNodes(p) THEN p + 5 ELSE p + 3

\* What stands at p is zone z.
IsZoneAt(z, p) ==
  /\ OpensZone(p)
  /\ z.name = Word(p + 1)
  /\ IF HasNodes(p) THEN HasArg(p + 3) /\ z.pattern = Word(p + 4)
     ELSE z.pattern = Unset

\* Every zone is closed, and every brace but the last closes one.
WellBraced ==
  /\ \A p \in DOMAIN text : OpensZone(p) => Close(p) < Len(text) /\ Word(Close(p)) = RightBrace
  /\ \A i \in 1..(Len(text) - 1) : Word(i) = RightBrace =>
       \E p \in DOMAIN text : OpensZone(p) /\ StartsLine(p) /\ Close(p) = i

\* The zones stand in the stanza in this order, and they are all of them.
AreWritten(zones) ==
  \E at \in [DOMAIN zones -> DOMAIN text] :
    /\ \A j, k \in DOMAIN zones : j < k => at[j] < at[k]
    /\ \A k \in DOMAIN zones : IsZoneAt(zones[k], at[k])
    /\ WellBraced =>
         \A p \in DOMAIN text :
           Word(p) = "zone" /\ StartsLine(p) => \E k \in DOMAIN zones : at[k] = p

\* A directive at p that lacks nothing, and where the next one is to begin.
IsDirective(p) ==
  \/ Word(p) \in {"smd_url", "ca_cert", "cache_duration"} /\ HasArg(p)
  \/ /\ OpensZone(p) /\ (HasNodes(p) => HasArg(p + 3))
     /\ Close(p) < Len(text) /\ Word(Close(p)) = RightBrace
After(p) == IF Word(p) = "zone" THEN Close(p) + 1 ELSE p + 2

NamesSmd(p) == Word(p) = "smd_url" /\ Word(p + 1) # Unset

\* At p stands one of the heads H, or the stanza is over.  Its brace ends it even
\* where it was taken for an argument, as the dispenser stays on it.
GoesOn(H, p) == p \in H \/ (p >= Len(text) /\ Word(Len(text)) = RightBrace)

\* From head to head the whole stanza is directives, which name SMD once.
DividesStanza(H) ==
  /\ GoesOn(H, 1)
  /\ \A p \in H : IsDirective(p) /\ GoesOn(H, After(p))
  /\ \A p, q \in H : p < q => After(p) <= q
  /\ \E p \in H : NamesSmd(p)
  /\ \A p, q \in H : p < q /\ NamesSmd(p) => Word(q) # "smd_url"

InForm == \E H \in SUBSET {p \in 1..Len(text) : IsDirective(p)} : DividesStanza(H)
=============================================================================
