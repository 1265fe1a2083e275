----------------------------- MODULE ChainProofs -----------------------------
(***************************************************************************)
(* Theorems about DhcpChain: it runs the bootloop plugin as specified, and *)
(* an iPXE client holds its temporary address while it runs its script.    *)
(***************************************************************************)
EXTENDS DhcpChain, BootloopFileProofs

\* The call that holds the mutex is for a packet that waits, and refuses only a
\* client that is not iPXE.
CallWaits ==
  op # Idle => /\ waiting[op.mac] # NoPacket
               /\ op.pc \in {"delete", "free"} => ~waiting[op.mac].ipxe

\* The client runs iPXE and is on its way to its script, or runs it.
Boots(m) == client[m].ipxe /\ client[m].state \in {"selecting", "requesting", "bound"}

\* The packet cannot have a client refused.
Harmless(packet) == packet = NoPacket \/ packet.ipxe

\* The client holds the address in the file, and in the table of a running server.
Keeps(m, a) == faults = 0 => /\ <<m, a>> \in db
                             /\ status = "up" => records[m] = a

\* Nothing is under way that could take the address from the client.
Settled(m, a) == Harmless(waiting[m]) /\ (a = SmdIp[m] \/ Keeps(m, a))

ClientInv(m) ==
  /\ client[m].state = "renewing" => ~client[m].ipxe
  /\ Boots(m) => Harmless(request[m])
  /\ Boots(m) /\ client[m].state = "requesting" /\ answer[m].type = "ACK"
       => Settled(m, answer[m].ip)
  /\ Boots(m) /\ client[m].state = "bound" => Settled(m, client[m].ip)

BootInv == \A m \in Mac : ClientInv(m)

-----------------------------------------------------------------------------
(* The chain runs bootloop *)

\* A packet from the wire is one HandleNew and its like expect.
LEMMA WaitingType ==
  ASSUME ChainTypeOK, NEW m \in Mac
  PROVE  waiting[m].ipxe \in BOOLEAN /\ Giaddr[m] \in Ip \cup {Unspecified}
BY ChainAssumption DEF ChainTypeOK

\* Every step of the chain is one of bootloop, or does not touch it.
LEMMA ChainStep == ChainTypeOK /\ [ChainNext]_chainVars => [Next]_vars
<1> SUFFICES ASSUME ChainTypeOK, [ChainNext]_chainVars PROVE [Next]_vars
  OBVIOUS
<1>1. CASE ServerStarts
  BY <1>1 DEF ServerStarts, Next
<1>2. CASE ServerStops
  BY <1>2 DEF ServerStops, Next
<1>3. CASE Bootloop4Goes
  BY <1>3 DEF Bootloop4Goes, Next
<1>4. ASSUME NEW m \in Mac, Bootloop4(m) PROVE [Next]_vars
  <2>1. Request(m)
    BY <1>4, WaitingType DEF Bootloop4, Request
  <2> QED
    BY <2>1 DEF Next
<1>5. ASSUME NEW m \in Mac,
             \/ SendDiscover(m) \/ Receive(m) \/ Resend(m) \/ Renew(m) \/ LeaseEnds(m)
             \/ Reboot(m) \/ Lose(m) \/ KnownChanges(m) \/ Dispatch(m)
      PROVE  UNCHANGED vars
  BY <1>5 DEF SendDiscover, Receive, Resend, Renew, LeaseEnds, Reboot, Lose, KnownChanges, Dispatch
<1>6. CASE UNCHANGED chainVars
  BY <1>6 DEF chainVars
<1> QED
  BY <1>1, <1>2, <1>3, <1>4, <1>5, <1>6 DEF ChainNext

-----------------------------------------------------------------------------
(* Types *)

PacketType == [type : {"none", "DISCOVER", "REQUEST", "RENEW"}, ipxe : BOOLEAN]
ReplyType  == [type : {"none", "OFFER", "ACK", "NAK"}, ip : Ip \cup {NoIp}]
ClientType == [state : {"init", "selecting", "requesting", "bound", "renewing"},
               ip : Ip \cup {NoIp}, ipxe : BOOLEAN]

LEMMA InitialPackets ==
  /\ NoPacket \in PacketType
  /\ NoAnswer \in ReplyType
  /\ Fresh \in ClientType /\ Fresh.state = "init" /\ ~Fresh.ipxe
BY DEF NoPacket, NoAnswer, Fresh, PacketType, ReplyType, ClientType

\* What a client does leaves the types of its state and of its packets.
LEMMA ClientTypes ==
  ASSUME ChainTypeOK, NEW m \in Mac,
         \/ SendDiscover(m) \/ Receive(m) \/ Resend(m) \/ Renew(m) \/ LeaseEnds(m) \/ Reboot(m)
  PROVE  /\ client' \in [Mac -> ClientType]
         /\ request' \in [Mac -> PacketType]
         /\ answer' \in [Mac -> ReplyType]
         /\ reboots' \in 0..MaxReboots
         /\ UNCHANGED <<vars, waiting, known, losses, changes>>
<1>a. /\ client \in [Mac -> ClientType] /\ request \in [Mac -> PacketType]
      /\ answer \in [Mac -> ReplyType] /\ reboots \in 0..MaxReboots /\ MaxReboots \in Nat
  BY ChainAssumption DEF ChainTypeOK, ClientType, PacketType, ReplyType
<1> USE InitialPackets
<1>1. CASE SendDiscover(m)
  <2>1. PICK ipxe \in Firmware[m] :
          /\ Send(m, "DISCOVER", ipxe)
          /\ client' = [client EXCEPT ![m] = [state |-> "selecting", ip |-> NoIp, ipxe |-> ipxe]]
    BY <1>1 DEF SendDiscover
  <2>2. ipxe \in BOOLEAN
    BY ChainAssumption
  <2>3. [state |-> "selecting", ip |-> NoIp, ipxe |-> ipxe] \in ClientType
    BY <2>2 DEF ClientType
  <2> QED
    BY <1>a, <1>1, <2>1, <2>2, <2>3 DEF SendDiscover, Send, PacketType, smdVars
<1>2. CASE Receive(m)
  <2>1. /\ answer' \in [Mac -> ReplyType]
        /\ UNCHANGED <<vars, waiting, losses, reboots, smdVars>>
    BY <1>a, <1>2 DEF Receive
  <2>2. CASE client[m].state = "selecting" /\ answer[m].type = "OFFER"
    <3>1. /\ client' = [client EXCEPT ![m].state = "requesting"]
          /\ Send(m, "REQUEST", client[m].ipxe)
      BY <1>2, <2>2 DEF Receive
    <3> QED
      BY <1>a, <2>1, <3>1 DEF Send, ClientType, PacketType, smdVars
  <2>3. CASE /\ client' = [client EXCEPT ![m].state = "bound", ![m].ip = answer[m].ip]
             /\ UNCHANGED request
    <3>1. client[m] \in ClientType /\ answer[m].ip \in Ip \cup {NoIp}
      BY <1>a DEF ReplyType
    <3>2. [client[m] EXCEPT !.state = "bound", !.ip = answer[m].ip] \in ClientType
      BY <3>1 DEF ClientType
    <3> QED
      BY <1>a, <2>1, <2>3, <3>2 DEF smdVars
  <2>4. CASE client' \in {client, [client EXCEPT ![m] = Fresh]} /\ UNCHANGED request
    BY <1>a, <2>1, <2>4 DEF smdVars
  <2> QED
    BY <1>2, <2>2, <2>3, <2>4 DEF Receive
<1>3. CASE Resend(m)
  <2>1. /\ \E type \in {"DISCOVER", "REQUEST", "RENEW"} : Send(m, type, client[m].ipxe)
        /\ UNCHANGED <<vars, waiting, answer, losses, clientVars, smdVars>>
    BY <1>3 DEF Resend
  <2>2. client[m].ipxe \in BOOLEAN
    BY <1>a DEF ClientType
  <2> QED
    BY <1>a, <2>1, <2>2 DEF Send, PacketType, clientVars, smdVars
<1>4. CASE Renew(m)
  BY <1>a, <1>4 DEF Renew, Send, smdVars, PacketType, ClientType
<1>5. CASE LeaseEnds(m)
  BY <1>a, <1>5 DEF LeaseEnds, netVars, smdVars
<1>6. CASE Reboot(m)
  BY <1>a, <1>6 DEF Reboot, smdVars
<1> QED
  BY <1>1, <1>2, <1>3, <1>4, <1>5, <1>6

\* A packet that coresmd answers or passes on.
LEMMA DispatchTypes ==
  ASSUME ChainTypeOK, NEW m \in Mac, Dispatch(m)
  PROVE  /\ request' \in [Mac -> PacketType]
         /\ waiting' \in [Mac -> PacketType]
         /\ answer' \in [Mac -> ReplyType]
         /\ \A n \in Mac : waiting[n] # NoPacket => waiting'[n] = waiting[n]
         /\ UNCHANGED <<vars, client, known, losses, reboots, changes>>
<1>1. /\ request \in [Mac -> PacketType] /\ waiting \in [Mac -> PacketType]
      /\ answer \in [Mac -> ReplyType]
  BY DEF ChainTypeOK, PacketType, ReplyType
<1>2. [type |-> AnswerType(request[m]), ip |-> SmdIp[m]] \in ReplyType
  BY ChainAssumption DEF AnswerType, ReplyType
<1> QED
  BY <1>1, <1>2, InitialPackets DEF Dispatch, clientVars, smdVars

\* A handler of bootloop that gets on, or returns, for the packet of client m.
LEMMA HandlerTypes ==
  ASSUME ChainTypeOK, TypeOK', NEW m \in Mac,
         IF op' = Idle THEN Returned(m) ELSE UNCHANGED <<waiting, answer>>
  PROVE  /\ waiting' \in [Mac -> PacketType]
         /\ answer' \in [Mac -> ReplyType]
         /\ op' # Idle => UNCHANGED waiting
<1>1. waiting \in [Mac -> PacketType] /\ answer \in [Mac -> ReplyType]
  BY DEF ChainTypeOK, PacketType, ReplyType
<1>2. /\ [type |-> "NAK", ip |-> NoIp] \in ReplyType
      /\ [type |-> AnswerType(waiting[m]), ip |-> reply'.ip] \in ReplyType
  BY DEF AnswerType, ReplyType, TypeOK
<1> QED
  BY <1>1, <1>2, InitialPackets DEF Returned

\* Every step keeps the types, and the packet of the call that holds the mutex.
LEMMA ChainTypeNext == ChainTypeOK /\ [ChainNext]_chainVars => ChainTypeOK'
<1> SUFFICES ASSUME ChainTypeOK, [ChainNext]_chainVars PROVE ChainTypeOK'
  OBVIOUS
<1> DEFINE Waits == op # Idle => waiting[op.mac] # NoPacket
           Counters == /\ losses \in 0..MaxLosses /\ reboots \in 0..MaxReboots
                       /\ changes \in 0..MaxChanges
           Net == /\ known \subseteq Mac /\ client \in [Mac -> ClientType]
                  /\ request \in [Mac -> PacketType] /\ answer \in [Mac -> ReplyType]
                  /\ waiting \in [Mac -> PacketType]
<1>a. /\ TypeOK /\ Waits /\ Counters /\ Net
      /\ MaxLosses \in Nat /\ MaxReboots \in Nat /\ MaxChanges \in Nat
  BY ChainAssumption DEF ChainTypeOK, ClientType, PacketType, ReplyType
<1>b. TypeOK'
  BY <1>a, ChainStep, TypeNext
<1>c. SUFFICES Waits' /\ Counters' /\ Net'
  BY <1>b DEF ChainTypeOK, ClientType, PacketType, ReplyType
<1> USE InitialPackets
<1>1. CASE ServerStarts
  <2>1. op = Idle /\ op' = Idle
    BY <1>1, <1>a DEF ServerStarts, Setup, SetupStorageFault, MemoryCleared, TypeOK
  <2> QED
    BY <1>a, <1>1, <2>1 DEF ServerStarts, netVars, clientVars, smdVars
<1>2. CASE ServerStops
  BY <1>a, <1>2 DEF ServerStops, Crash, MemoryCleared, netVars, clientVars, smdVars
<1>3. CASE Bootloop4Goes
  <2>1. op.mac \in Mac /\ op # Idle /\ (op' # Idle => op'.mac = op.mac)
    BY <1>3, <1>a DEF Bootloop4Goes, Progress, SaveLease, InstallLease, DeleteLease, FreeLease,
                      TypeOK, Idle
  <2>2. PICK m \in Mac : m = op.mac
    BY <2>1
  <2>3. IF op' = Idle THEN Returned(m) ELSE UNCHANGED <<waiting, answer>>
    BY <1>3, <2>2 DEF Bootloop4Goes, Returned
  <2>4. /\ waiting' \in [Mac -> PacketType] /\ answer' \in [Mac -> ReplyType]
        /\ op' # Idle => UNCHANGED waiting
    BY <1>b, <2>3, HandlerTypes
  <2> QED
    BY <1>a, <1>3, <2>1, <2>4 DEF Bootloop4Goes, clientVars, smdVars
<1>4. ASSUME NEW m \in Mac, Bootloop4(m) PROVE Waits' /\ Counters' /\ Net'
  <2>1. waiting[m] # NoPacket /\ (op' # Idle => op'.mac = m)
    BY <1>4 DEF Bootloop4, HandleNew, HandleUnserved, HandleScript, HandleNak, Receives
  <2>2. /\ waiting' \in [Mac -> PacketType] /\ answer' \in [Mac -> ReplyType]
        /\ op' # Idle => UNCHANGED waiting
    BY <1>b, <1>4, HandlerTypes DEF Bootloop4
  <2> QED
    BY <1>a, <1>4, <2>1, <2>2 DEF Bootloop4, clientVars, smdVars
<1>5. ASSUME NEW m \in Mac,
             \/ SendDiscover(m) \/ Receive(m) \/ Resend(m) \/ Renew(m) \/ LeaseEnds(m) \/ Reboot(m)
      PROVE  Waits' /\ Counters' /\ Net'
  BY <1>a, <1>5, ClientTypes DEF vars
<1>6. ASSUME NEW m \in Mac, Lose(m) PROVE Waits' /\ Counters' /\ Net'
  BY <1>a, <1>6 DEF Lose, vars, clientVars, smdVars
<1>7. ASSUME NEW m \in Mac, KnownChanges(m) PROVE Waits' /\ Counters' /\ Net'
  BY <1>a, <1>7 DEF KnownChanges, vars, netVars, clientVars
<1>8. ASSUME NEW m \in Mac, Dispatch(m) PROVE Waits' /\ Counters' /\ Net'
  <2>1. op # Idle => op.mac \in Mac
    BY <1>a DEF TypeOK
  <2> QED
    BY <1>a, <1>8, <2>1, DispatchTypes DEF vars
<1>9. CASE UNCHANGED chainVars
  BY <1>a, <1>9 DEF chainVars, vars, netVars, clientVars, smdVars
<1> QED
  BY <1>1, <1>2, <1>3, <1>4, <1>5, <1>6, <1>7, <1>8, <1>9 DEF ChainNext

\* Clients, network and dispatch are well typed, and the call that holds the mutex
\* is for a packet that waits, whatever is lost, reset or stopped.
THEOREM ChainTypeCorrect == ChainSpec => []ChainTypeOK
<1>1. ChainInit => ChainTypeOK
  <2> SUFFICES ASSUME ChainInit PROVE ChainTypeOK
    OBVIOUS
  <2>1. TypeOK /\ op = Idle
    BY InitialTypes, BoundAssumption DEF ChainInit, Init, TypeOK
  <2> QED
    BY <2>1, InitialPackets, ChainAssumption
       DEF ChainInit, ChainTypeOK, PacketType, ReplyType, ClientType
<1> QED
  BY <1>1, ChainTypeNext, PTL DEF ChainSpec

\* The chain as its clients meet it runs the bootloop plugin as module Bootloop has
\* it: whatever is proved of that holds of the composition.
THEOREM ChainRunsBootloop == ChainSpec => Spec
<1>1. ChainInit => Init
  BY DEF ChainInit
<1> QED
  BY <1>1, ChainStep, ChainTypeCorrect, PTL DEF ChainSpec, Spec

-----------------------------------------------------------------------------
(***************************************************************************)
(* The script runs on a lease.  Only a packet that is not iPXE's can have  *)
(* a lease taken away, and by the time a client has been told an address   *)
(* none of its earlier life is left on its way to the server: an iPXE      *)
(* client replaces what is in flight with its first packet, and gets past  *)
(* its DISCOVER only when what had been passed on before is answered.      *)
(***************************************************************************)

\* What every step of the plugin keeps, whoever it is for.
PluginFacts == ChainTypeOK /\ CallWaits /\ FileInv

\* An address that is kept stays so while no refusal of its client is under way.
LEMMA KeepsNext ==
  ASSUME PluginFacts, TypeOK', FileInv', [Next]_vars, NEW m \in Mac, NEW a,
         Harmless(waiting[m]), Keeps(m, a)
  PROVE  Keeps(m, a)'
<1> SUFFICES ASSUME faults' = 0 PROVE <<m, a>> \in db' /\ (status' = "up" => records'[m] = a)
  BY DEF Keeps
<1>a. /\ TypeOK /\ faults \in Nat
      /\ op # Idle => op.mac \in Mac /\ status = "up"
      /\ op.pc = "idle" <=> op = Idle
  BY BoundAssumption DEF PluginFacts, ChainTypeOK, TypeOK
<1>b. /\ op.pc \in {"delete", "free"} => op.mac # m
      /\ op'.pc = "install" /\ UNCHANGED <<op, records>> => op.pc = "install"
  BY <1>a DEF PluginFacts, CallWaits, Harmless, Idle
<1>1. /\ <<m, a>> \in db => <<m, a>> \in db' \/ (op.pc = "delete" /\ op.mac = m)
      /\ faults = 0
      /\ op'.pc = "install" => /\ op.pc \in {"save", "install"} /\ op'.mac = op.mac
                               /\ UNCHANGED <<status, records>>
  <2> USE <1>a DEF StorageFault, Idle
  <2>1. CASE Setup
    BY <2>1 DEF Setup, MemoryCleared
  <2>2. CASE SetupStorageFault
    BY <2>2 DEF SetupStorageFault
  <2>3. CASE Crash
    BY <2>3 DEF Crash, MemoryCleared
  <2>4. ASSUME NEW n \in Mac, Request(n)
        PROVE  UNCHANGED <<db, faults>> /\ op'.pc # "install"
    BY <2>4 DEF Request, HandleNew, HandleUnserved, HandleScript, HandleNak, Receives
  <2>5. CASE SaveLease
    BY <2>5 DEF SaveLease, TypeOK
  <2>6. CASE InstallLease
    BY <2>6 DEF InstallLease
  <2>7. CASE DeleteLease
    BY <2>7 DEF DeleteLease, TypeOK
  <2>8. CASE FreeLease
    BY <2>8 DEF FreeLease
  <2>9. CASE UNCHANGED vars
    BY <2>9 DEF vars
  <2> QED
    BY <2>1, <2>2, <2>3, <2>4, <2>5, <2>6, <2>7, <2>8, <2>9 DEF Next, Progress
<1>2. <<m, a>> \in db /\ (status = "up" => records[m] = a) /\ a \in Ip
  BY <1>1, <1>a DEF Keeps, TypeOK
<1>3. <<m, a>> \in db'
  BY <1>1, <1>2, <1>b
<1>4. ~(op'.pc = "install" /\ op'.mac = m)
  <2> SUFFICES ASSUME op'.pc = "install", op'.mac = m PROVE FALSE
    OBVIOUS
  <2>1. op.pc \in {"save", "install"} /\ op.mac = m /\ status = "up"
    BY <1>1, <1>a, <1>b DEF Idle
  <2> QED
    BY <1>2, <2>1, SentinelAssumption DEF PluginFacts, FileInv, NewHasNone
<1> QED
  BY <1>2, <1>3, <1>4 DEF FileInv, DeletesWork, NoStaleRow, InTable

\* The answer of a call is a refusal, or none, or the lease the client keeps.
LEMMA ReplyKept ==
  ASSUME PluginFacts, TypeOK', FileInv', NEW m \in Mac, op' = Idle,
         Bootloop4(m) \/ (Bootloop4Goes /\ m = op.mac)
  PROVE  reply'.kind \in {"drop", "nak"} \/ (reply.ip \in Ip /\ Keeps(m, reply.ip))'
<1>a. TypeOK /\ records \in [Mac -> Ip \cup {NoIp}]
  BY DEF PluginFacts, ChainTypeOK, TypeOK
<1>1. \/ reply'.kind \in {"drop", "nak"}
      \/ status' = "up" /\ records'[m] = reply'.ip /\ reply'.ip \in Ip
  <2>1. CASE HandleScript(m)
    BY <1>a, <2>1 DEF HandleScript, Receives
  <2>2. ~HandleNew(m, Giaddr[m], waiting[m].ipxe)
    BY DEF HandleNew, Idle
  <2>3. HandleUnserved(m, Giaddr[m]) => reply'.kind = "drop"
    BY DEF HandleUnserved, NoReply
  <2>4. HandleNak(m) => reply'.kind = "drop"
    <3>1. op' # [pc |-> "delete", mac |-> m, ip |-> records[m], ipxe |-> FALSE]
      BY DEF Idle
    <3> QED
      BY <3>1 DEF HandleNak, NoReply
  <2>5. CASE InstallLease /\ m = op.mac
    BY <1>a, <2>5 DEF InstallLease, TypeOK, Idle
  <2>6. CASE FreeLease
    BY <2>6 DEF FreeLease, NoReply
  <2>7. ~SaveLease /\ ~DeleteLease
    BY <1>a DEF SaveLease, DeleteLease, Idle, TypeOK
  <2> QED
    BY <2>1, <2>2, <2>3, <2>4, <2>5, <2>6, <2>7 DEF Bootloop4, Bootloop4Goes, Progress
<1>2. CASE status' = "up" /\ records'[m] = reply'.ip /\ reply'.ip \in Ip
  <2>1. PICK a \in Ip : a = reply'.ip
    BY <1>2
  <2>2. faults' = 0 => <<m, a>> \in db'
    BY <1>2, <2>1 DEF FileInv, FileFollows, InTable, Idle
  <2> QED
    BY <1>2, <2>1, <2>2 DEF Keeps
<1> QED
  BY <1>1, <1>2

LEMMA SettledNext ==
  ASSUME PluginFacts, TypeOK', FileInv', [Next]_vars, NEW m \in Mac, NEW a,
         Settled(m, a), Harmless(waiting'[m])
  PROVE  Settled(m, a)'
<1>1. Keeps(m, a) => Keeps(m, a)'
  BY KeepsNext DEF Settled
<1> QED
  BY <1>1 DEF Settled, Harmless

\* A step that leaves a client alone, or only loses its packets, keeps its invariant.
LEMMA OthersKeep ==
  ASSUME PluginFacts, ChainTypeOK', FileInv', [Next]_vars, NEW m \in Mac, ClientInv(m),
         client'[m] = client[m],
         request'[m] \in {request[m], NoPacket}, waiting'[m] \in {waiting[m], NoPacket},
         answer'[m] = answer[m] \/ answer'[m].type # "ACK"
  PROVE  ClientInv(m)'
<1>1. ASSUME NEW a, Settled(m, a) PROVE Settled(m, a)'
  <2>1. Harmless(waiting'[m])
    BY <1>1 DEF Settled, Harmless
  <2> QED
    BY <1>1, <2>1, SettledNext DEF ChainTypeOK
<1>2. Boots(m)' <=> Boots(m)
  BY DEF Boots
<1>3. ASSUME Boots(m), client[m].state = "requesting", answer'[m].type = "ACK"
      PROVE  Settled(m, answer[m].ip)'
  <2>1. PICK a : a = answer[m].ip
    OBVIOUS
  <2>2. answer'[m] = answer[m]
    BY <1>3
  <2>3. Settled(m, a)'
    BY <1>1, <1>3, <2>1, <2>2 DEF ClientInv
  <2> QED
    BY <2>1, <2>2, <2>3 DEF Settled, Keeps
<1>4. ASSUME Boots(m), client[m].state = "bound"
      PROVE  Settled(m, client[m].ip)'
  <2>1. PICK a : a = client[m].ip
    OBVIOUS
  <2>2. Settled(m, a)'
    BY <1>1, <1>4, <2>1 DEF ClientInv
  <2> QED
    BY <2>1, <2>2 DEF Settled, Keeps
<1> QED
  BY <1>2, <1>3, <1>4 DEF ClientInv, Harmless

\* What a client does itself keeps its invariant: it forgets, or its first packet
\* replaces the one in flight.
LEMMA ClientKeeps ==
  ASSUME ChainTypeOK, NEW m \in Mac, ClientInv(m),
         \/ SendDiscover(m) \/ Receive(m) \/ Resend(m) \/ Renew(m) \/ LeaseEnds(m) \/ Reboot(m)
  PROVE  ClientInv(m)'
<1>a. /\ client \in [Mac -> ClientType] /\ request \in [Mac -> PacketType]
      /\ answer \in [Mac -> ReplyType] /\ client[m] \in ClientType
  BY DEF ChainTypeOK, ClientType, PacketType, ReplyType
<1>b. UNCHANGED <<db, status, records, faults, waiting>>
  BY ClientTypes DEF vars
<1>c. ASSUME NEW a, Settled(m, a) PROVE Settled(m, a)'
  BY <1>b, <1>c DEF Settled, Harmless, Keeps
<1>d. NoAnswer.type = "none"
  BY DEF NoAnswer
<1>e. ASSUME client'[m] = Fresh PROVE ClientInv(m)'
  BY <1>e, InitialPackets DEF ClientInv, Boots
<1>1. CASE SendDiscover(m)
  <2>1. /\ client'[m].state = "selecting" /\ request'[m].ipxe = client'[m].ipxe
    BY <1>a, <1>1 DEF SendDiscover, Send
  <2> QED
    BY <2>1 DEF ClientInv, Boots, Harmless
<1>2. CASE Receive(m)
  <2>1. answer'[m].type = "none"
    BY <1>a, <1>d, <1>2 DEF Receive
  <2>2. CASE client[m].state = "selecting" /\ answer[m].type = "OFFER"
    <3>1. /\ client'[m].state = "requesting" /\ client'[m].ipxe = client[m].ipxe
          /\ request'[m].ipxe = client[m].ipxe
      BY <1>a, <1>2, <2>2 DEF Receive, Send, ClientType
    <3> QED
      BY <2>1, <3>1 DEF ClientInv, Boots, Harmless
  <2>3. CASE client[m].state \in {"requesting", "renewing"} /\ answer[m].type = "ACK"
    <3>1. /\ client'[m].state = "bound" /\ client'[m].ipxe = client[m].ipxe
          /\ client'[m].ip = answer[m].ip /\ request' = request
      BY <1>a, <1>2, <2>3 DEF Receive, ClientType
    <3>2. CASE client[m].ipxe
      <4>1. client[m].state = "requesting" /\ Boots(m)
        BY <2>3, <3>2 DEF ClientInv, Boots
      <4>2. PICK a : a = answer[m].ip
        OBVIOUS
      <4>3. Settled(m, a)' /\ Harmless(request[m])
        BY <1>c, <2>3, <4>1, <4>2 DEF ClientInv
      <4>4. Settled(m, client[m].ip)'
        BY <3>1, <4>2, <4>3 DEF Settled, Keeps
      <4> QED
        BY <3>1, <4>3, <4>4 DEF ClientInv, Harmless
    <3> QED
      BY <3>1, <3>2 DEF ClientInv, Boots
  <2>4. CASE client'[m] = Fresh
    BY <1>e, <2>4
  <2>5. CASE UNCHANGED <<client, request>>
    <3>1. client[m].state = "bound" /\ Boots(m) => Settled(m, client[m].ip)'
      BY <1>b, <2>5 DEF ClientInv, Settled, Harmless, Keeps
    <3> QED
      BY <2>1, <2>5, <3>1 DEF ClientInv, Boots, Harmless
  <2> QED
    BY <1>a, <1>2, <2>2, <2>3, <2>4, <2>5 DEF Receive
<1>3. CASE Resend(m)
  <2>1. request'[m].ipxe = client[m].ipxe /\ UNCHANGED <<client, answer>>
        /\ client[m].state # "bound"
    BY <1>a, <1>3 DEF Resend, Send, clientVars
  <2>2. Boots(m) /\ client[m].state = "requesting" /\ answer[m].type = "ACK"
          => Settled(m, answer[m].ip)'
    BY <1>b, <2>1 DEF ClientInv, Settled, Harmless, Keeps
  <2> QED
    BY <2>1, <2>2 DEF ClientInv, Boots, Harmless
<1>4. CASE Renew(m)
  <2>1. client'[m].state = "renewing" /\ ~client'[m].ipxe
    BY <1>a, <1>4 DEF Renew, ClientType
  <2> QED
    BY <2>1 DEF ClientInv, Boots
<1>5. CASE LeaseEnds(m) \/ Reboot(m)
  BY <1>a, <1>e, <1>5 DEF LeaseEnds, Reboot
<1> QED
  BY <1>1, <1>2, <1>3, <1>4, <1>5

\* coresmd's answer is SMD's address, and what it passes on is harmless.
LEMMA DispatchKeeps ==
  ASSUME ChainTypeOK, NEW m \in Mac, ClientInv(m), Dispatch(m)
  PROVE  ClientInv(m)'
<1>a. /\ request \in [Mac -> PacketType] /\ waiting \in [Mac -> PacketType]
      /\ answer \in [Mac -> ReplyType]
  BY DEF ChainTypeOK, PacketType, ReplyType
<1>b. UNCHANGED <<client, db, status, records, faults>>
  BY DispatchTypes DEF vars
<1>1. waiting[m] = NoPacket /\ request'[m] = NoPacket
  BY <1>a DEF Dispatch
<1>2. /\ waiting'[m] \in {NoPacket, request[m]}
      /\ answer'[m] = answer[m] \/ answer'[m].ip = SmdIp[m]
  BY <1>a DEF Dispatch
<1>3. Boots(m) => Harmless(waiting'[m])
  BY <1>2 DEF ClientInv, Harmless
<1>4. ASSUME Boots(m), client[m].state = "requesting", answer'[m].type = "ACK"
      PROVE  Settled(m, answer[m].ip)'
  BY <1>b, <1>2, <1>3, <1>4 DEF ClientInv, Settled, Harmless, Keeps
<1>5. ASSUME Boots(m), client[m].state = "bound" PROVE Settled(m, client[m].ip)'
  BY <1>b, <1>3, <1>5 DEF ClientInv, Settled, Harmless, Keeps
<1>6. Boots(m)' <=> Boots(m)
  BY <1>b DEF Boots
<1> QED
  BY <1>1, <1>4, <1>5, <1>6, <1>b DEF ClientInv, Harmless

\* A call that returns leaves its client without an answer, refused, or on a lease
\* that it keeps.
LEMMA HandlerKeeps ==
  ASSUME PluginFacts, ChainTypeOK', FileInv', [Next]_vars, NEW m \in Mac, ClientInv(m),
         Bootloop4(m) \/ (Bootloop4Goes /\ m = op.mac)
  PROVE  ClientInv(m)'
<1>a. waiting \in [Mac -> PacketType] /\ answer \in [Mac -> ReplyType]
  BY DEF PluginFacts, ChainTypeOK, PacketType, ReplyType
<1>b. UNCHANGED <<client, request>>
  BY DEF Bootloop4, Bootloop4Goes, clientVars
<1>c. IF op' = Idle THEN Returned(m) ELSE UNCHANGED <<waiting, answer>>
  BY DEF Bootloop4, Bootloop4Goes, Returned
<1>1. CASE op' # Idle
  BY <1>1, <1>b, <1>c, OthersKeep
<1>2. CASE op' = Idle /\ (answer'[m] = answer[m] \/ answer'[m].type # "ACK")
  <2>1. waiting'[m] = NoPacket
    BY <1>a, <1>2, <1>c DEF Returned
  <2> QED
    BY <1>2, <1>b, <2>1, OthersKeep
<1>3. CASE op' = Idle /\ answer'[m].type = "ACK" /\ answer'[m] # answer[m]
  <2>1. waiting'[m] = NoPacket
    BY <1>a, <1>3, <1>c DEF Returned
  <2>2. reply'.kind \notin {"drop", "nak"} /\ answer'[m].ip = reply'.ip
    BY <1>a, <1>3, <1>c DEF Returned
  <2>3. Keeps(m, reply.ip)'
    BY <1>3, <2>2, ReplyKept DEF ChainTypeOK
  <2>4. Settled(m, answer[m].ip)'
    BY <2>1, <2>2, <2>3 DEF Settled, Harmless, Keeps
  <2>5. ASSUME Boots(m), client[m].state = "bound" PROVE Settled(m, client[m].ip)'
    <3>1. PICK a : a = client[m].ip
      OBVIOUS
    <3>2. Settled(m, a)'
      BY <2>1, <2>5, <3>1, SettledNext DEF ClientInv, Harmless, ChainTypeOK
    <3> QED
      BY <1>b, <3>1, <3>2 DEF Settled, Keeps
  <2>6. Boots(m)' <=> Boots(m)
    BY <1>b DEF Boots
  <2> QED
    BY <1>b, <2>4, <2>5, <2>6 DEF ClientInv, Harmless
<1> QED
  BY <1>1, <1>2, <1>3

\* The call that holds the mutex has a packet, and refuses none of iPXE.
LEMMA CallWaitsNext ==
  ASSUME ChainTypeOK, ChainTypeOK', CallWaits, [ChainNext]_chainVars
  PROVE  CallWaits'
<1>a. TypeOK /\ waiting \in [Mac -> PacketType] /\ (op # Idle => op.mac \in Mac)
  BY DEF ChainTypeOK, TypeOK, PacketType
<1>b. op' # Idle => waiting'[op'.mac] # NoPacket
  BY DEF ChainTypeOK
<1>c. ASSUME op' # Idle, op'.mac = op.mac, op'.pc \in {"delete", "free"} => op.pc \in {"delete", "free"},
             op # Idle, waiting'[op.mac] = waiting[op.mac]
      PROVE  CallWaits'
  BY <1>b, <1>c DEF CallWaits
<1>d. op' = Idle => CallWaits'
  BY DEF CallWaits
<1>1. CASE ServerStarts \/ ServerStops
  <2>1. op' = Idle
    BY <1>a, <1>1 DEF ServerStarts, ServerStops, Setup, SetupStorageFault, Crash, MemoryCleared,
                      TypeOK
  <2> QED
    BY <1>d, <2>1
<1>2. CASE Bootloop4Goes
  <2>1. /\ op # Idle
        /\ op' # Idle => /\ op'.mac = op.mac
                         /\ op'.pc \in {"delete", "free"} => op.pc \in {"delete", "free"}
    BY <1>2, <1>a DEF Bootloop4Goes, Progress, SaveLease, InstallLease, DeleteLease, FreeLease,
                      TypeOK, Idle
  <2>2. op' # Idle => UNCHANGED waiting
    BY <1>2 DEF Bootloop4Goes
  <2> QED
    BY <1>c, <1>d, <2>1, <2>2
<1>3. ASSUME NEW m \in Mac, Bootloop4(m) PROVE CallWaits'
  <2>1. op' # Idle => /\ op'.mac = m /\ UNCHANGED waiting
                      /\ op'.pc \in {"delete", "free"} => ~waiting[m].ipxe
    BY <1>3 DEF Bootloop4, HandleNew, HandleUnserved, HandleScript, HandleNak, Receives
  <2> QED
    BY <1>b, <2>1 DEF CallWaits
<1>4. ASSUME NEW m \in Mac,
             \/ SendDiscover(m) \/ Receive(m) \/ Resend(m) \/ Renew(m) \/ LeaseEnds(m)
             \/ Reboot(m) \/ Lose(m) \/ KnownChanges(m) \/ Dispatch(m)
      PROVE  UNCHANGED op /\ (op # Idle => waiting'[op.mac] = waiting[op.mac])
  <2>1. CASE Dispatch(m)
    BY <1>a, <2>1 DEF Dispatch, CallWaits, vars
  <2> QED
    BY <1>4, <2>1 DEF SendDiscover, Receive, Resend, Renew, LeaseEnds, Reboot, Lose, KnownChanges, vars
<1>5. CASE UNCHANGED chainVars
  BY <1>5 DEF chainVars, vars, CallWaits
<1> QED
  BY <1>1, <1>2, <1>3, <1>4, <1>5, <1>c, <1>d DEF ChainNext

LEMMA BootInvNext ==
  ASSUME PluginFacts, BootInv, ChainTypeOK', FileInv', [ChainNext]_chainVars
  PROVE  BootInv'
<1> SUFFICES ASSUME NEW m \in Mac PROVE ClientInv(m)'
  BY DEF BootInv
<1>a. /\ ClientInv(m) /\ [Next]_vars /\ ChainTypeOK
      /\ client \in [Mac -> ClientType] /\ request \in [Mac -> PacketType]
      /\ answer \in [Mac -> ReplyType] /\ waiting \in [Mac -> PacketType]
  BY ChainStep DEF BootInv, PluginFacts, ChainTypeOK, ClientType, PacketType, ReplyType
<1>b. NoAnswer.type = "none"
  BY DEF NoAnswer
\* A step that leaves the client alone.
<1>c. ASSUME client'[m] = client[m], request'[m] \in {request[m], NoPacket},
             waiting'[m] \in {waiting[m], NoPacket},
             answer'[m] = answer[m] \/ answer'[m].type # "ACK"
      PROVE  ClientInv(m)'
  BY <1>a, <1>c, OthersKeep
<1>1. CASE ServerStarts
  BY <1>1, <1>c DEF ServerStarts, netVars, clientVars
<1>2. CASE ServerStops
  BY <1>2, <1>c DEF ServerStops, netVars, clientVars
<1>3. CASE Bootloop4Goes
  <2>1. CASE op.mac = m
    BY <1>a, <1>3, <2>1, HandlerKeeps
  <2>2. CASE op.mac # m
    BY <1>a, <1>3, <1>c, <2>2 DEF Bootloop4Goes, Returned, clientVars
  <2> QED
    BY <2>1, <2>2
<1>4. ASSUME NEW n \in Mac, Bootloop4(n) PROVE ClientInv(m)'
  <2>1. CASE n = m
    BY <1>a, <1>4, <2>1, HandlerKeeps
  <2>2. CASE n # m
    BY <1>a, <1>4, <1>c, <2>2 DEF Bootloop4, Returned, clientVars
  <2> QED
    BY <2>1, <2>2
<1>5. ASSUME NEW n \in Mac,
             \/ SendDiscover(n) \/ Receive(n) \/ Resend(n) \/ Renew(n) \/ LeaseEnds(n) \/ Reboot(n)
      PROVE  ClientInv(m)'
  <2>1. CASE n = m
    BY <1>a, <1>5, <2>1, ClientKeeps
  <2>2. CASE n # m
    <3>1. /\ client'[m] = client[m] /\ request'[m] = request[m] /\ answer'[m] = answer[m]
          /\ UNCHANGED waiting
      BY <1>a, <1>5, <2>2 DEF SendDiscover, Receive, Resend, Renew, LeaseEnds, Reboot, Send,
                              netVars, clientVars
    <3> QED
      BY <1>c, <3>1
  <2> QED
    BY <2>1, <2>2
<1>6. ASSUME NEW n \in Mac, Lose(n) \/ KnownChanges(n) PROVE ClientInv(m)'
  BY <1>a, <1>b, <1>c, <1>6 DEF Lose, KnownChanges, clientVars, netVars
<1>7. ASSUME NEW n \in Mac, Dispatch(n) PROVE ClientInv(m)'
  <2>1. CASE n = m
    BY <1>a, <1>7, <2>1, DispatchKeeps
  <2>2. CASE n # m
    BY <1>a, <1>c, <1>7, <2>2 DEF Dispatch, clientVars
  <2> QED
    BY <2>1, <2>2
<1>8. CASE UNCHANGED chainVars
  BY <1>8, <1>c DEF chainVars, netVars, clientVars
<1> QED
  BY <1>1, <1>2, <1>3, <1>4, <1>5, <1>6, <1>7, <1>8 DEF ChainNext

\* An iPXE client that was told an address of the pools and runs its script holds it
\* in the table of every running server, for all clients and pools, as long as the
\* lease file works.
THEOREM ScriptAlwaysOnLease == ChainSpec => []ScriptRunsOnLease
<1>1. ChainInit => CallWaits /\ BootInv
  BY DEF ChainInit, Init, CallWaits, BootInv, ClientInv, Boots, Fresh
<1>2. ASSUME ChainTypeOK, ChainTypeOK', FileInv, FileInv', CallWaits, BootInv, [ChainNext]_chainVars
      PROVE  CallWaits' /\ BootInv'
  BY <1>2, CallWaitsNext, BootInvNext DEF PluginFacts
<1>3. BootInv => ScriptRunsOnLease
  BY DEF BootInv, ClientInv, Boots, Settled, Keeps, ScriptRunsOnLease
<1>4. ChainSpec => []ChainTypeOK /\ []FileInv
  BY ChainTypeCorrect, ChainRunsBootloop, FileInvCorrect, PTL
<1> QED
  BY <1>1, <1>2, <1>3, <1>4, PTL DEF ChainSpec
=============================================================================
