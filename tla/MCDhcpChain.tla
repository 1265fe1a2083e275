---------------------------- MODULE MCDhcpChain -----------------------------
(***************************************************************************)
(* Small instances of DhcpChain for TLC: one subnet, whose pool hands out  *)
(* t1 and t2; SMD assigns s1 and s2.                                       *)
(***************************************************************************)
EXTENDS DhcpChain, TLC

CONSTANTS m1, m2, t1, t2, s1, s2, gw, pool

MCMac1 == {m1}
MCMac2 == {m1, m2}
MCIp   == {t1, t2, s1, s2, gw}
MCPool == {pool}

MCCidr    == pool :> MCIp
MCRange   == pool :> {t1, t2}
MCConfigs == {[useSubnetPools |-> TRUE, pools |-> MCPool]}

MCGiaddr == [m \in Mac |-> gw]
MCSmdIp  == [m \in Mac |-> IF m = m1 THEN s1 ELSE s2]

\* m1 runs either firmware, m2 only iPXE: when m1 is refused, its address is free
\* for m2.
MCFirmware == [m \in Mac |-> IF m = m1 THEN {TRUE, FALSE} ELSE {TRUE}]
MCOther    == [m \in Mac |-> {FALSE}]
=============================================================================
