------------------------------ MODULE MCCoresmd ------------------------------
(***************************************************************************)
(* Small instances of Coresmd for TLC.                                     *)
(*   rackA  holds a and its relay ra    rackB  holds b and its relay rb    *)
(*   wide   holds both racks            six    holds the IPv6 address v    *)
(* Relay ra is in rackA and wide, rb in rackB and wide, ro in no subnet.   *)
(***************************************************************************)
EXTENDS Coresmd, TLC

CONSTANTS a, b, ra, rb, ro, v, rackA, rackB, wide, six, m24, m64, mx,
          nid, racked, gwA, gwB, lab, site

MCIp4    == {a, b, ra, rb, ro}
MCIp6    == {v}
MCSubnet == {rackA, rackB, wide, six}
MCHolds  == (rackA :> {a, ra}) @@ (rackB :> {b, rb}) @@ (wide :> {a, ra, b, rb}) @@ (six :> {v})
MCMaskOf == (rackA :> m24) @@ (rackB :> m24) @@ (wide :> NoMask) @@ (six :> m64)

Node == [type |-> "Node", id |-> 1]
BMC  == [type |-> "NodeBMC", id |-> 2]
MCComp == {Node, BMC}

Plain == [comps |-> MCComp, subnets |-> <<>>, name |-> NoName, routers |-> NoRouter,
          mask |-> NoMask, domain |-> NoDomain, append |-> Omitted,
          continue |-> FALSE, ignore |-> FALSE]

\* The rules of rules.md: names by type, settings by subnet, a rule that ignores,
\* one that sets a mask alone, one for two subnets, domains that override, follow
\* or replace the global one or suppress it, a domain without a name; and a rule
\* without an action.
MCWritten ==
  {[Plain EXCEPT !.comps = {Node}, !.name = nid, !.continue = TRUE],
   [Plain EXCEPT !.subnets = <<rackA>>, !.name = racked, !.domain = lab, !.routers = gwA],
   [Plain EXCEPT !.subnets = <<rackB>>, !.domain = lab, !.routers = gwB, !.continue = TRUE],
   [Plain EXCEPT !.subnets = <<wide>>, !.mask = mx, !.continue = TRUE],
   [Plain EXCEPT !.subnets = <<six, rackA>>, !.name = racked, !.domain = lab,
                 !.append = <<"rule", "global">>],
   [Plain EXCEPT !.comps = {Node}, !.name = nid, !.domain = lab, !.append = <<>>],
   [Plain EXCEPT !.name = racked, !.domain = lab, !.append = <<"global">>, !.continue = TRUE],
   [Plain EXCEPT !.comps = {BMC}, !.ignore = TRUE],
   [Plain EXCEPT !.comps = {BMC}, !.domain = lab, !.continue = TRUE]}
=============================================================================
