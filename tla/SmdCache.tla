------------------------------ MODULE SmdCache ------------------------------
(***************************************************************************)
(* The pull-through cache of SMD that the DHCP and the DNS plugin read     *)
(* (internal/cache, internal/smdclient): one goroutine copies SMD's        *)
(* interfaces and components into two maps with two GETs, on a ticker;     *)
(* packet handlers look a node up in both maps under the read lock.        *)
(*                                                                         *)
(* A node stands for one interface and the component it names, so the two  *)
(* documents, and the two maps, are sets of nodes.  SMD changes while the  *)
(* cache reads it.  The status of an HTTP answer is never checked, so an   *)
(* error document of SMD is decoded as if it were the inventory.           *)
(***************************************************************************)
EXTENDS Naturals

CONSTANTS
  Node,            \* nodes of the inventory
  Reader,          \* goroutines handling packets
  NoNode,
  ErrorDocuments,  \* whether SMD may answer with an error document
  MaxChanges,      \* bound: changes to SMD's inventory
  MaxFaults        \* bound: GETs that fail or return no inventory

ASSUME SentinelAssumption == NoNode \notin Node

ASSUME BoundAssumption ==
  MaxChanges \in Nat /\ MaxFaults \in Nat /\ ErrorDocuments \in BOOLEAN

VARIABLES
  smd,        \* SMD's inventory: [ei, comps], its two documents
  changes,    \* changes to it so far
  pc,         \* where the refreshing goroutine is
  got,        \* its locals: the two bodies it fetched
  tick,       \* the ticker's channel, of capacity one, holds a tick
  cache,      \* EthernetInterfaces and Components
  updated,    \* LastUpdated is not zero
  serving,    \* the first refresh is over and packets are handled
  rpc,        \* where each reader is
  rnode,      \* the node it looks up
  rknown,     \* whether it found it
  faults,     \* GETs that failed or returned no inventory
  lasting,    \* history: nodes in both documents ever since the refresh began
  sighted,    \* history: nodes in each document at some time since it began
  vouched,    \* history: lasting, of the refresh the cache comes from, unless its
              \* components were an error document
  excused     \* history: sighted, of the refresh the cache comes from

smdVars    == <<smd, changes>>
readerVars == <<rpc, rnode, rknown>>
history    == <<lasting, sighted, vouched, excused>>
vars == <<smdVars, pc, got, tick, cache, updated, serving, readerVars, faults, history>>

\* The nodes a lookup in the two documents finds.
Known(s) == s.ei \cap s.comps

Nothing == [ei |-> {}, comps |-> {}]

\* Bodies of an HTTP answer: a document, what is not JSON, a JSON error document.
Inventory(nodes) == [kind |-> "inventory", nodes |-> nodes]
Broken  == [kind |-> "broken", nodes |-> {}]
Problem == [kind |-> "problem", nodes |-> {}]
Unread  == [ei |-> Broken, comps |-> Broken]

Init ==
  /\ smd \in [ei : SUBSET Node, comps : SUBSET Node]
  /\ changes = 0
  /\ pc = "begin"
  /\ got = Unread
  /\ tick = FALSE
  /\ cache = Nothing
  /\ updated = FALSE
  /\ serving = FALSE
  /\ rpc = [r \in Reader |-> "idle"]
  /\ rnode = [r \in Reader |-> NoNode]
  /\ rknown = [r \in Reader |-> FALSE]
  /\ faults = 0
  /\ lasting = {} /\ sighted = Nothing
  /\ vouched = {} /\ excused = Nothing

-----------------------------------------------------------------------------
\* Discovery or an administrator adds or removes an interface or a component.
SmdChanges ==
  /\ changes < MaxChanges
  /\ changes' = changes + 1
  /\ \E n \in Node :
       \/ smd' = [smd EXCEPT !.ei = IF n \in @ THEN @ \ {n} ELSE @ \cup {n}]
       \/ smd' = [smd EXCEPT !.comps = IF n \in @ THEN @ \ {n} ELSE @ \cup {n}]
  /\ lasting' = lasting \cap Known(smd')
  /\ sighted' = [ei    |-> sighted.ei \cup smd'.ei,
                  comps |-> sighted.comps \cup smd'.comps]
  /\ UNCHANGED <<pc, got, tick, cache, updated, serving, readerVars, faults, vouched, excused>>

\* The ticker of RefreshLoop, made after the first refresh; a tick the
\* goroutine has not taken yet absorbs the next one.
TickerFires ==
  /\ serving
  /\ tick' = TRUE
  /\ UNCHANGED <<smdVars, pc, got, cache, updated, serving, readerVars, faults, history>>

\* Refresh is called: at start, and then for every tick.
BeginRefresh ==
  /\ \/ pc = "begin" /\ UNCHANGED tick
     \/ pc = "idle" /\ tick /\ tick' = FALSE
  /\ pc' = "getEi"
  /\ lasting' = Known(smd)
  /\ sighted' = smd
  /\ UNCHANGED <<smdVars, got, cache, updated, serving, readerVars, faults, vouched, excused>>

\* One more GET fails or returns no inventory.
Fault ==
  /\ faults < MaxFaults
  /\ faults' = faults + 1

\* The body a GET of a document returns is b; the HTTP status is not looked at.
Returns(document, b) ==
  \/ b = Inventory(document) /\ UNCHANGED faults
  \/ b = Broken /\ Fault
  \/ b = Problem /\ ErrorDocuments /\ Fault

\* Slip for ReturnToLoop: an error ends the goroutine of RefreshLoop.
ReturnForGood ==
  /\ pc' = IF pc = "stamp" THEN "idle" ELSE "over"
  /\ serving' = TRUE
  /\ got' = Unread

\* Refresh returns, with an error that RefreshLoop only logs or without; at start
\* the server begins to serve in both cases.
ReturnToLoop ==
  /\ pc' = "idle"
  /\ serving' = TRUE
  /\ got' = Unread

\* APIGet of one document: its body, or an error that ends the refresh.
GetEi ==
  /\ pc = "getEi"
  /\ \/ /\ \E b \in {Inventory(smd.ei), Broken, Problem} :
             Returns(smd.ei, b) /\ got' = [got EXCEPT !.ei = b]
        /\ pc' = "getComps"
        /\ UNCHANGED serving
     \/ Fault /\ ReturnToLoop
  /\ UNCHANGED <<smdVars, tick, cache, updated, readerVars, history>>

GetComps ==
  /\ pc = "getComps"
  /\ \/ /\ \E b \in {Inventory(smd.comps), Broken, Problem} :
             Returns(smd.comps, b) /\ got' = [got EXCEPT !.comps = b]
        /\ pc' = "decode"
        /\ UNCHANGED serving
     \/ Fault /\ ReturnToLoop
  /\ UNCHANGED <<smdVars, tick, cache, updated, readerVars, history>>

\* Slip for Decodable: interfaces that do not decode are taken for none.
DecodableLeniently(bodies) == bodies.comps.kind # "broken"

\* The interfaces must be a JSON array; the components are the member
\* "Components" of an object, and an object without one has no components.
Decodable(bodies) ==
  /\ bodies.ei.kind = "inventory"
  /\ bodies.comps.kind # "broken"

Decode ==
  /\ pc = "decode"
  /\ \/ Decodable(got) /\ pc' = "lock" /\ UNCHANGED <<got, serving>>
     \/ ~Decodable(got) /\ ReturnToLoop
  /\ UNCHANGED <<smdVars, tick, cache, updated, readerVars, faults, history>>

\* Mutex.Lock has been called: it waits for the readers inside, and keeps new
\* ones out.
Locked == pc \in {"setEi", "setComps", "stamp"}

\* Slip for LockForWrite: the read lock is taken, which lets readers stay.
LockWithReaders ==
  /\ pc = "lock"
  /\ pc' = "setEi"
  /\ UNCHANGED <<smdVars, got, tick, cache, updated, serving, readerVars, faults, history>>

LockForWrite ==
  /\ pc = "lock"
  /\ \A r \in Reader : rpc[r] = "idle"
  /\ pc' = "setEi"
  /\ UNCHANGED <<smdVars, got, tick, cache, updated, serving, readerVars, faults, history>>

SetEi ==
  /\ pc = "setEi"
  /\ cache' = [cache EXCEPT !.ei = got.ei.nodes]
  /\ pc' = "setComps"
  /\ UNCHANGED <<smdVars, got, tick, updated, serving, readerVars, faults, history>>

SetComps ==
  /\ pc = "setComps"
  /\ cache' = [cache EXCEPT !.comps = got.comps.nodes]
  /\ pc' = "stamp"
  /\ UNCHANGED <<smdVars, got, tick, updated, serving, readerVars, faults, history>>

\* LastUpdated is set, the lock released, and Refresh returns.  A refresh that took
\* an error document for the components has no node to vouch for.
Stamp ==
  /\ pc = "stamp"
  /\ updated' = TRUE
  /\ vouched' = IF got.comps.kind = "inventory" THEN lasting ELSE {}
  /\ excused' = sighted
  /\ ReturnToLoop
  /\ UNCHANGED <<smdVars, tick, cache, readerVars, faults, lasting, sighted>>

Refresh == BeginRefresh \/ GetEi \/ GetComps \/ Decode \/ LockForWrite
             \/ SetEi \/ SetComps \/ Stamp

-----------------------------------------------------------------------------
\* Slip for LockForRead: a handler reads without the lock.
ReadUnlocked(r, n) ==
  /\ serving
  /\ rpc[r] = "idle"
  /\ rpc' = [rpc EXCEPT ![r] = "ei"]
  /\ rnode' = [rnode EXCEPT ![r] = n]
  /\ UNCHANGED <<smdVars, pc, got, tick, cache, updated, serving, rknown, faults, history>>

\* Slip for LockForRead: a writer that waits does not keep readers out.
LockPastWriter(r, n) ==
  /\ serving
  /\ rpc[r] = "idle"
  /\ ~Locked
  /\ rpc' = [rpc EXCEPT ![r] = "ei"]
  /\ rnode' = [rnode EXCEPT ![r] = n]
  /\ UNCHANGED <<smdVars, pc, got, tick, cache, updated, serving, rknown, faults, history>>

\* A handler takes the read lock, which waits for a writer inside or before it,
\* and keeps it until it returns.
LockForRead(r, n) ==
  /\ serving
  /\ rpc[r] = "idle"
  /\ pc # "lock" /\ ~Locked
  /\ rpc' = [rpc EXCEPT ![r] = "ei"]
  /\ rnode' = [rnode EXCEPT ![r] = n]
  /\ UNCHANGED <<smdVars, pc, got, tick, cache, updated, serving, rknown, faults, history>>

\* LookupMAC, LookupMACWithSubnet and the DNS lookups: first the interface ...
ReadEi(r) ==
  /\ rpc[r] = "ei"
  /\ rpc' = [rpc EXCEPT ![r] = IF rnode[r] \in cache.ei THEN "comp" ELSE "answer"]
  /\ rknown' = [rknown EXCEPT ![r] = FALSE]
  /\ UNCHANGED <<smdVars, pc, got, tick, cache, updated, serving, rnode, faults, history>>

\* ... then the component it names.
ReadComp(r) ==
  /\ rpc[r] = "comp"
  /\ rpc' = [rpc EXCEPT ![r] = "answer"]
  /\ rknown' = [rknown EXCEPT ![r] = rnode[r] \in cache.comps]
  /\ UNCHANGED <<smdVars, pc, got, tick, cache, updated, serving, rnode, faults, history>>

UnlockForRead(r) ==
  /\ rpc[r] = "answer"
  /\ rpc' = [rpc EXCEPT ![r] = "idle"]
  /\ rnode' = [rnode EXCEPT ![r] = NoNode]
  /\ rknown' = [rknown EXCEPT ![r] = FALSE]
  /\ UNCHANGED <<smdVars, pc, got, tick, cache, updated, serving, faults, history>>

Lookup(r) == ReadEi(r) \/ ReadComp(r) \/ UnlockForRead(r)

Next ==
  \/ SmdChanges \/ TickerFires \/ Refresh
  \/ \E r \in Reader : Lookup(r) \/ \E n \in Node : LockForRead(r, n)

Spec == Init /\ [][Next]_vars

\* The ticker ticks; every GET returns, with an answer or an error; the
\* scheduler runs the goroutines; a handler that has the read lock returns.
Fairness ==
  /\ WF_vars(TickerFires)
  /\ WF_vars(Refresh)
  /\ \A r \in Reader : WF_vars(Lookup(r))

FairSpec == Spec /\ Fairness

-----------------------------------------------------------------------------
(***************************************************************************)
(* Properties                                                              *)
(***************************************************************************)

Documents == [ei : SUBSET Node, comps : SUBSET Node]
Bodies    == [kind : {"inventory", "broken", "problem"}, nodes : SUBSET Node]

\* Type correctness of the cache, the refreshing goroutine and the readers.
TypeOK ==
  /\ smd \in Documents /\ changes \in 0..MaxChanges
  /\ pc \in {"begin", "idle", "getEi", "getComps", "decode", "lock",
             "setEi", "setComps", "stamp"}
  /\ got \in [ei : Bodies, comps : Bodies]
  /\ tick \in BOOLEAN /\ updated \in BOOLEAN /\ serving \in BOOLEAN
  /\ cache \in Documents
  /\ rpc \in [Reader -> {"idle", "ei", "comp", "answer"}]
  /\ rnode \in [Reader -> Node \cup {NoNode}]
  /\ rknown \in [Reader -> BOOLEAN]
  /\ faults \in 0..MaxFaults
  /\ lasting \in SUBSET Node /\ vouched \in SUBSET Node
  /\ sighted \in Documents /\ excused \in Documents

\* A node SMD knew during the whole refresh the cache comes from is found by
\* every lookup, although SMD changed between the two GETs, later refreshes
\* failed, or the maps are swapped one after the other (Cache.Refresh against
\* LookupMAC and the DNS lookups).  A refresh that decoded an error document as an
\* inventory without components is left out.
NoSpuriousMiss ==
  \A r \in Reader : rpc[r] = "answer" /\ ~rknown[r] => rnode[r] \notin vouched

\* A node a lookup finds had, at some time during the refresh the cache comes
\* from, its interface, and at some time its component, in SMD: the cache never
\* pairs documents of two refreshes (Cache.Refresh under its write lock).
NoPhantom ==
  \A r \in Reader : rknown[r] => rnode[r] \in Known(excused)

\* Refresh gets the write lock however many packets keep arriving (the pending
\* Lock of an RWMutex holds new readers off).
RefreshNotStarved == pc = "lock" ~> pc = "idle"

\* Once SMD stops changing and failing, the cache becomes and stays equal to it:
\* no failed refresh ends RefreshLoop and no tick is lost for good.
EventuallyFresh == <>[](cache = smd)

-----------------------------------------------------------------------------
\* The documents in force change when the first map is swapped, as no lookup is
\* answered before the second is; a reader is told when it has looked in both.
Served == IF pc = "setComps" THEN [cache EXCEPT !.comps = got.comps.nodes] ELSE cache
Told == [r \in Reader |-> IF rpc[r] # "answer" THEN "none"
                          ELSE IF rknown[r] THEN "found" ELSE "missing"]

Service == INSTANCE CacheService WITH served <- Served, asked <- rnode, told <- Told

\* The two maps, swapped one after the other, and the lookups, in one and then in
\* the other, behave as one store replaced and read at a point in time (Refresh
\* and LookupMAC under the RWMutex).
ImplementsCacheService == Service!Spec
=============================================================================
