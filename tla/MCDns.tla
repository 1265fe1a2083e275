------------------------------- MODULE MCDns --------------------------------
(***************************************************************************)
(* Small instances of Dns for TLC: a node, a BMC and a component of another*)
(* type; three interfaces, of which two may be the node's; addresses of    *)
(* both families and one that does not parse.  Stanzas are written from    *)
(* lists of directives, complete or with one word left out.                *)
(***************************************************************************)
EXTENDS Dns, SequencesExt, TLC

CONSTANTS e1, e2, e3, n1, b1, h1, x1, x2, y1, nid1

MCMac  == {e1, e2, e3}
MCComp == {n1, b1, h1}
MCType == (n1 :> "Node") @@ (b1 :> "NodeBMC") @@ (h1 :> "HSNBoard")
MCV4 == {x1, x2}
MCV6 == {y1}

\* A pattern with the NID and one with the ID.
MCHost == ("nid" :> (n1 :> nid1 @@ b1 :> nid1 @@ h1 :> nid1))
          @@ ("id" :> (n1 :> n1 @@ b1 :> b1 @@ h1 :> h1))

MCDefaultZone == [name |-> "cluster", pattern |-> "nid"]
MCStartable   == {"url", "cert", "30s"}

Ei(c, addrs) == [comp |-> c, addrs |-> addrs]
On(a, b, c)  == (e1 :> a) @@ (e2 :> b) @@ (e3 :> c)

MCInventories ==
  { [ei |-> On(Ei(n1, <<Garbled, y1>>), Ei(n1, <<x1>>), Ei(b1, <<x2>>)), comps |-> {n1, b1}],
    [ei |-> On(Ei(n1, <<y1, x2>>), Ei(n1, <<x1, x2>>), NoEi), comps |-> {n1, b1}],
    [ei |-> On(Ei(h1, <<x1>>), Ei(b1, <<x2, y1>>), Ei(n1, <<>>)), comps |-> MCComp],
    [ei |-> On(Ei(n1, <<x1>>), NoEi, Ei(b1, <<x1>>)), comps |-> {b1}] }

-----------------------------------------------------------------------------
\* Lines of a stanza, as sequences of words.
Url == <<"smd_url", "url">>
Optional == <<"ca_cert", "cert">>
Zone(name) == <<<<"zone", name, "{">>, <<"}">>>>
ZoneWith(name, p) == <<<<"zone", name>>, <<"{", "nodes", p>>, <<"}">>>>

Lines ==
  { <<Url>>, <<Optional>>, <<<<"smd_url", "badurl">>>>,
    <<Url, Optional, <<"cache_duration", "30s">>>>,
    <<Optional, <<"ca_cert", "nocert">>, Url>>,
    <<Url>> \o ZoneWith("rack", "id") \o Zone("cluster") \o <<Optional>>,
    Zone("cluster") \o ZoneWith("cluster", "nid") \o <<Url>>,
    <<Url>> \o ZoneWith("cluster", "id"),
    <<Url>> \o Zone("rack") \o <<Url>>,
    <<Url, <<"zone", "rack", "{">>, <<"nodes", "id">>, <<"nodes", "nid">>, <<"}">>>> }

OnLine(words, k) == [i \in DOMAIN words |-> [word |-> words[i], line |-> k]]
Written(lines) ==
  FlattenSeq([k \in 1..(Len(lines) + 1) |->
                OnLine(IF k > Len(lines) THEN <<"}">> ELSE lines[k], k)])

\* A brace left out never reaches the plugin: CoreDNS itself refuses the file.
Whole == {Written(l) : l \in Lines}
Short == UNION {{RemoveAt(s, i) : i \in {i \in DOMAIN s : s[i].word \notin {"{", "}"}}} : s \in Whole}

MCStanzas == Whole \cup Short
=============================================================================
