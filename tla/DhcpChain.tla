----------------------------- MODULE DhcpChain ------------------------------
(***************************************************************************)
(* The DHCPv4 server as its clients meet it: the coresmd plugin answers    *)
(* the MACs it finds in its cache of SMD, every other packet passes on to  *)
(* bootloop (module Bootloop) and waits for its mutex.  Clients run the    *)
(* DHCP exchange over a network that loses and delays packets, resend on a *)
(* timeout, renew, let leases lapse and reboot; nodes become known to SMD  *)
(* or are forgotten meanwhile.                                             *)
(*                                                                         *)
(* CoreDHCP turns a DISCOVER into an OFFER and a REQUEST into an ACK before*)
(* the plugins see them; they never look at the message type.  Packets of  *)
(* one client are not reordered: a newer one replaces an older one still   *)
(* in flight, which is then lost.                                          *)
(***************************************************************************)
EXTENDS Bootloop

CONSTANTS
  Giaddr,      \* Giaddr[m]: the relay a client's packets come through
  SmdIp,       \* SmdIp[m]: the address SMD has for a client
  Firmware,    \* Firmware[m]: what a client may run, TRUE for iPXE and FALSE for
               \* any other DHCP client
  Discoverable,\* nodes SMD may come to know
  MaxLosses,   \* bound: packets lost
  MaxReboots,  \* bound: reboots of clients in the middle of an exchange
  MaxChanges   \* bound: nodes becoming known to SMD or being forgotten

\* Addresses in SMD are no business of the pools, and each node has its own.
ASSUME ChainAssumption ==
  /\ Giaddr \in [Mac -> Ip \cup {Unspecified}]
  /\ SmdIp \in [Mac -> Ip]
  /\ \A m, n \in Mac : m # n => SmdIp[m] # SmdIp[n]
  /\ \A m \in Mac, p \in Pool : SmdIp[m] \notin PoolRange[p]
  /\ Firmware \in [Mac -> SUBSET BOOLEAN] /\ Discoverable \subseteq Mac
  /\ {MaxLosses, MaxReboots, MaxChanges} \subseteq Nat

VARIABLES
  known,     \* MACs coresmd finds an address for
  client,    \* client[m]: state of the exchange, address in use, firmware
  request,   \* request[m]: packet in flight to the server
  waiting,   \* waiting[m]: packet coresmd passed on, until bootloop is done
  answer,    \* answer[m]: packet in flight to the client
  losses, reboots, changes

netVars    == <<request, answer, losses>>
clientVars == <<client, reboots>>
smdVars    == <<known, changes>>
chainVars  == <<vars, netVars, clientVars, smdVars, waiting>>

NoPacket == [type |-> "none", ipxe |-> FALSE]
NoAnswer == [type |-> "none", ip |-> NoIp]
Fresh    == [state |-> "init", ip |-> NoIp, ipxe |-> FALSE]

ChainInit ==
  /\ Init
  /\ known = {}
  /\ client = [m \in Mac |-> Fresh]
  /\ request = [m \in Mac |-> NoPacket]
  /\ waiting = [m \in Mac |-> NoPacket]
  /\ answer = [m \in Mac |-> NoAnswer]
  /\ losses = 0 /\ reboots = 0 /\ changes = 0

-----------------------------------------------------------------------------
(* Clients *)

Send(m, type, ipxe) == request' = [request EXCEPT ![m] = [type |-> type, ipxe |-> ipxe]]

\* A client without an address starts an exchange, in whatever firmware it runs.
SendDiscover(m) ==
  /\ client[m].state = "init"
  /\ \E ipxe \in Firmware[m] :
       /\ Send(m, "DISCOVER", ipxe)
       /\ client' = [client EXCEPT ![m] = [state |-> "selecting", ip |-> NoIp, ipxe |-> ipxe]]
  /\ UNCHANGED <<vars, waiting, answer, losses, reboots, smdVars>>

\* An offer is accepted, an acknowledgement configures the address, a DHCPNAK
\* sends the client back to the start; what does not fit the state is ignored.
Receive(m) ==
  /\ answer[m] # NoAnswer
  /\ answer' = [answer EXCEPT ![m] = NoAnswer]
  /\ LET s == client[m].state  t == answer[m].type IN
     \/ /\ s = "selecting" /\ t = "OFFER"
        /\ Send(m, "REQUEST", client[m].ipxe)
        /\ client' = [client EXCEPT ![m].state = "requesting"]
     \/ /\ s \in {"requesting", "renewing"} /\ t = "ACK"
        /\ client' = [client EXCEPT ![m].state = "bound", ![m].ip = answer[m].ip]
        /\ UNCHANGED request
     \/ /\ s \in {"requesting", "renewing"} /\ t = "NAK"
        /\ client' = [client EXCEPT ![m] = Fresh]
        /\ UNCHANGED request
     \/ /\ ~(s = "selecting" /\ t = "OFFER")
        /\ ~(s \in {"requesting", "renewing"} /\ t \in {"ACK", "NAK"})
        /\ UNCHANGED <<client, request>>
  /\ UNCHANGED <<vars, waiting, losses, reboots, smdVars>>

\* A timeout: the packet is sent again, possibly with the answer under way.
Resend(m) ==
  /\ request[m] = NoPacket
  /\ \/ client[m].state = "selecting" /\ Send(m, "DISCOVER", client[m].ipxe)
     \/ client[m].state = "requesting" /\ Send(m, "REQUEST", client[m].ipxe)
     \/ client[m].state = "renewing" /\ Send(m, "RENEW", client[m].ipxe)
  /\ UNCHANGED <<vars, waiting, answer, losses, clientVars, smdVars>>

\* An operating system or a BMC asks to keep its address; iPXE never does.
Renew(m) ==
  /\ client[m].state = "bound" /\ ~client[m].ipxe
  /\ Send(m, "RENEW", FALSE)
  /\ client' = [client EXCEPT ![m].state = "renewing"]
  /\ UNCHANGED <<vars, waiting, answer, losses, reboots, smdVars>>

\* The lease time has passed without a renewal, or the node reboots after use.
LeaseEnds(m) ==
  /\ client[m].state \in {"bound", "renewing"}
  /\ client' = [client EXCEPT ![m] = Fresh]
  /\ UNCHANGED <<vars, waiting, netVars, reboots, smdVars>>

\* The client is reset in the middle of an exchange; what is sent to it is lost.
Reboot(m) ==
  /\ client[m].state \in {"selecting", "requesting"}
  /\ reboots < MaxReboots
  /\ reboots' = reboots + 1
  /\ client' = [client EXCEPT ![m] = Fresh]
  /\ answer' = [answer EXCEPT ![m] = NoAnswer]
  /\ UNCHANGED <<vars, waiting, request, losses, smdVars>>

\* The network loses a packet.
Lose(m) ==
  /\ losses < MaxLosses
  /\ losses' = losses + 1
  /\ \/ request[m] # NoPacket /\ request' = [request EXCEPT ![m] = NoPacket] /\ UNCHANGED answer
     \/ answer[m] # NoAnswer /\ answer' = [answer EXCEPT ![m] = NoAnswer] /\ UNCHANGED request
  /\ UNCHANGED <<vars, waiting, clientVars, smdVars>>

\* A refresh of the cache brings a node in or drops it.
KnownChanges(m) ==
  /\ m \in Discoverable
  /\ changes < MaxChanges
  /\ changes' = changes + 1
  /\ known' = IF m \in known THEN known \ {m} ELSE known \cup {m}
  /\ UNCHANGED <<vars, waiting, netVars, clientVars>>

-----------------------------------------------------------------------------
(* The server *)

AnswerType(packet) == IF packet.type = "DISCOVER" THEN "OFFER" ELSE "ACK"

\* Slip for Dispatch: the packets of a MAC coresmd finds pass on as well.
DispatchPassesAll(m) ==
  /\ status = "up"
  /\ request[m] # NoPacket
  /\ waiting[m] = NoPacket
  /\ request' = [request EXCEPT ![m] = NoPacket]
  /\ waiting' = [waiting EXCEPT ![m] = request[m]]
  /\ UNCHANGED <<vars, answer, losses, clientVars, smdVars>>

\* coresmd's Handler4, on the goroutine of the packet: a MAC in the cache gets
\* its address from SMD and the chain ends, any other packet passes on.
Dispatch(m) ==
  /\ status = "up"
  /\ request[m] # NoPacket
  /\ waiting[m] = NoPacket
  /\ request' = [request EXCEPT ![m] = NoPacket]
  /\ \/ /\ m \in known
        /\ answer' = [answer EXCEPT ![m] = [type |-> AnswerType(request[m]), ip |-> SmdIp[m]]]
        /\ UNCHANGED waiting
     \/ /\ m \notin known
        /\ waiting' = [waiting EXCEPT ![m] = request[m]]
        /\ UNCHANGED answer
  /\ UNCHANGED <<vars, losses, clientVars, smdVars>>

\* bootloop's Handler4 for client m returns: its reply, if any, is sent.
Returned(m) ==
  /\ waiting' = [waiting EXCEPT ![m] = NoPacket]
  /\ answer' = CASE reply'.kind = "drop" -> answer
                 [] reply'.kind = "nak"  -> [answer EXCEPT ![m] = [type |-> "NAK", ip |-> NoIp]]
                 [] OTHER -> [answer EXCEPT ![m] = [type |-> AnswerType(waiting[m]), ip |-> reply'.ip]]

\* Slip for Bootloop4: every client with a lease is refused, iPXE or not.
Bootloop4RefusesAll(m) ==
  /\ waiting[m] # NoPacket
  /\ \/ HandleNew(m, Giaddr[m], waiting[m].ipxe)
     \/ HandleUnserved(m, Giaddr[m])
     \/ HandleNak(m)
  /\ IF op' = Idle THEN Returned(m) ELSE UNCHANGED <<waiting, answer>>
  /\ UNCHANGED <<request, losses, clientVars, smdVars>>

\* Slip for Bootloop4: the reply is sent before the handler is done.
Bootloop4RepliesEarly(m) ==
  /\ waiting[m] # NoPacket
  /\ \/ HandleNew(m, Giaddr[m], waiting[m].ipxe)
     \/ HandleUnserved(m, Giaddr[m])
     \/ waiting[m].ipxe /\ HandleScript(m)
     \/ ~waiting[m].ipxe /\ HandleNak(m)
  /\ Returned(m)
  /\ UNCHANGED <<request, losses, clientVars, smdVars>>

\* bootloop's Handler4 gets the mutex for the packet of client m.
Bootloop4(m) ==
  /\ waiting[m] # NoPacket
  /\ \/ HandleNew(m, Giaddr[m], waiting[m].ipxe)
     \/ HandleUnserved(m, Giaddr[m])
     \/ waiting[m].ipxe /\ HandleScript(m)
     \/ ~waiting[m].ipxe /\ HandleNak(m)
  /\ IF op' = Idle THEN Returned(m) ELSE UNCHANGED <<waiting, answer>>
  /\ UNCHANGED <<request, losses, clientVars, smdVars>>

\* ... and goes on to its end.
Bootloop4Goes ==
  /\ Progress
  /\ IF op' = Idle THEN Returned(op.mac) ELSE UNCHANGED <<waiting, answer>>
  /\ UNCHANGED <<request, losses, clientVars, smdVars>>

\* The process starts, or stops with the packets it was handling.
ServerStarts ==
  /\ Setup \/ SetupStorageFault
  /\ UNCHANGED <<waiting, netVars, clientVars, smdVars>>

ServerStops ==
  /\ Crash
  /\ waiting' = [m \in Mac |-> NoPacket]
  /\ UNCHANGED <<netVars, clientVars, smdVars>>

ChainNext ==
  \/ ServerStarts \/ ServerStops \/ Bootloop4Goes
  \/ \E m \in Mac :
       \/ SendDiscover(m) \/ Receive(m) \/ Resend(m) \/ Renew(m)
       \/ LeaseEnds(m) \/ Reboot(m) \/ Lose(m) \/ KnownChanges(m)
       \/ Dispatch(m) \/ Bootloop4(m)

ChainSpec == ChainInit /\ [][ChainNext]_chainVars

\* The server is restarted, its goroutines run and get the mutex in turn (a
\* sync.Mutex starves no one); a client without an address goes on asking, and
\* lease times, which are finite, pass.  Nobody has to renew or reboot.
ChainFairness ==
  /\ WF_chainVars(ServerStarts)
  /\ WF_chainVars(Bootloop4Goes)
  /\ \A m \in Mac :
       /\ SF_chainVars(Bootloop4(m))
       /\ WF_chainVars(Dispatch(m))
       /\ WF_chainVars(SendDiscover(m))
       /\ WF_chainVars(Receive(m))
       /\ WF_chainVars(Resend(m))
       /\ WF_chainVars(LeaseEnds(m))

FairChainSpec == ChainSpec /\ ChainFairness

-----------------------------------------------------------------------------
(***************************************************************************)
(* Properties                                                              *)
(***************************************************************************)

\* Type correctness of clients, network and dispatch.
ChainTypeOK ==
  /\ TypeOK
  /\ known \subseteq Mac
  /\ client \in [Mac -> [state : {"init", "selecting", "requesting", "bound", "renewing"},
                         ip : Ip \cup {NoIp}, ipxe : BOOLEAN]]
  /\ {request, waiting} \subseteq
       [Mac -> [type : {"none", "DISCOVER", "REQUEST", "RENEW"}, ipxe : BOOLEAN]]
  /\ answer \in [Mac -> [type : {"none", "OFFER", "ACK", "NAK"}, ip : Ip \cup {NoIp}]]
  /\ op # Idle => waiting[op.mac] # NoPacket
  /\ losses \in 0..MaxLosses /\ reboots \in 0..MaxReboots /\ changes \in 0..MaxChanges

\* An iPXE client that was told a temporary address and runs its script holds
\* that address in the server's table for as long as it runs, although it
\* resends, packets are lost and the server restarts: the server frees it, and
\* gives it to another, only after the client has come back (Handler4's Free
\* against its iPXE branch; setup4's re-allocation).  The lease file must work.
ScriptRunsOnLease ==
  \A m \in Mac :
    /\ faults = 0 /\ status = "up"
    /\ client[m].state = "bound" /\ client[m].ipxe /\ client[m].ip # SmdIp[m]
    => records[m] = client[m].ip

\* A client that from some time on runs nothing but iPXE gets an address again
\* and again, though the server stops with packets in hand, whatever is sent again,
\* whatever lease it had before and whatever other clients do with theirs (coresmd's
\* and bootloop's Handler4, setup4 after a stop).  The pool must have an address for
\* every client, and deletions from the lease file must work: after one that failed,
\* no start may succeed any more (OldFileNoObstacle).
IpxeGetsAddress ==
  \A m \in Mac :
    <>[](client[m].state # "init" => client[m].ipxe)
      => []<>(DeletesWork => client[m].state = "bound")

\* A node SMD comes to know leaves its temporary address for good and is on
\* SMD's again and again, without anyone touching it, under the same condition
\* (the purpose of chaining coresmd before bootloop).
KnownMovesToSmdIp ==
  \A m \in Mac :
    <>[](m \in known) =>
      /\ <>[](DeletesWork => client[m].ip \in {NoIp, SmdIp[m]})
      /\ []<>(DeletesWork => client[m].ip = SmdIp[m])

-----------------------------------------------------------------------------
(***************************************************************************)
(* Claims of the documentation the code departs from                       *)
(***************************************************************************)

\* README.md on bootloop: unknown nodes and BMCs have "a short, discoverable
\* address".  A client that is not iPXE may be refused after every offer.
UnknownGetsAddress ==
  \A m \in Mac : client[m].state # "bound" ~> client[m].state = "bound"
=============================================================================
