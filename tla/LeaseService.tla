---------------------------- MODULE LeaseService ----------------------------
(***************************************************************************)
(* What the bootloop plugin promises its clients, without saying how: a    *)
(* client holds at most one temporary address, no address is held by two   *)
(* clients, and an answer tells a client nothing but its own standing.     *)
(* There is no crash here: a lease must outlive the server process.        *)
(***************************************************************************)
CONSTANTS Mac, Ip, NoIp

VARIABLES
  lease,      \* lease[m]: the address client m holds, or NoIp
  answer      \* the standing last told to a client, <<mac, ip or NoIp>>, or Silence

vars == <<lease, answer>>

Silence == <<>>

Init ==
  /\ lease = [m \in Mac |-> NoIp]
  /\ answer = Silence

\* A client without an address is given one nobody holds.
Grant(m, a) ==
  /\ lease[m] = NoIp
  /\ \A n \in Mac : lease[n] # a
  /\ lease' = [lease EXCEPT ![m] = a]
  /\ UNCHANGED answer

\* A client's address is taken back.
Revoke(m) ==
  /\ lease[m] # NoIp
  /\ lease' = [lease EXCEPT ![m] = NoIp]
  /\ UNCHANGED answer

\* A client is told the address it holds, or that it holds none.
Tell(m) ==
  /\ answer' = <<m, lease[m]>>
  /\ UNCHANGED lease

\* The last answer is over: the server turned to another request or stopped.
Hush ==
  /\ answer' = Silence
  /\ UNCHANGED lease

Next ==
  \/ \E m \in Mac, a \in Ip : Grant(m, a)
  \/ \E m \in Mac : Revoke(m) \/ Tell(m)
  \/ Hush

Spec == Init /\ [][Next]_vars
=============================================================================
