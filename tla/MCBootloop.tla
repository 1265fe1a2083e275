----------------------------- MODULE MCBootloop -----------------------------
(***************************************************************************)
(* Small instances of Bootloop for TLC.                                    *)
(*   rack1  subnet {a1, a2, gw1}, hands out a1 and a2                      *)
(*   rack2  subnet {a3, gw2}, hands out a3                                 *)
(*   site   subnet of everything, hands out a3 and a4: overlaps rack2      *)
(*   flat   the legacy pool, hands out a2 and a3                           *)
(***************************************************************************)
EXTENDS Bootloop, TLC

CONSTANTS m1, m2, m3, a1, a2, a3, a4, gw1, gw2, rack1, rack2, site, flat

MCMac2 == {m1, m2}
MCMac3 == {m1, m2, m3}
MCIp   == {a1, a2, a3, a4, gw1, gw2}
MCPool == {rack1, rack2, site, flat}

MCCidr == (rack1 :> {a1, a2, gw1}) @@ (rack2 :> {a3, gw2})
          @@ (site :> MCIp) @@ (flat :> {})

MCPoolRange == (rack1 :> {a1, a2}) @@ (rack2 :> {a3})
               @@ (site :> {a3, a4}) @@ (flat :> {a2, a3})

Subnets(pools) == [useSubnetPools |-> TRUE, pools |-> pools]
Legacy         == [useSubnetPools |-> FALSE, pools |-> {flat}]

\* The operator changes the pools between starts; ranges stay disjoint.
DisjointConfigs == {Subnets({rack1, rack2}), Subnets({rack2}), Legacy}

\* ... and may let subnets (rack1, site) or ranges (rack2, site) overlap.
AnyConfigs == {Subnets({rack1, rack2}), Subnets({rack1, site}),
               Subnets({rack2, site}), Legacy}

\* One rack, never reconfigured.
RackConfig == {Subnets({rack1})}

ClientSymmetry == Permutations(Mac)
=============================================================================
