--------------------------- MODULE SmdCacheProofs ---------------------------
(***************************************************************************)
(* Theorems about SmdCache, for every inventory, any number of readers and *)
(* any number of changes to SMD and failed GETs.                           *)
(***************************************************************************)
EXTENDS SmdCache, TLAPS

LEMMA BodyTypes ==
  /\ Broken \in Bodies /\ Problem \in Bodies
  /\ Unread \in [ei : Bodies, comps : Bodies]
  /\ Nothing \in Documents
  /\ \A s \in SUBSET Node : Inventory(s) \in Bodies
BY DEF Broken, Problem, Unread, Nothing, Inventory, Bodies, Documents

LEMMA CacheTypeInit == Init => TypeOK
<1> SUFFICES ASSUME Init PROVE TypeOK
  OBVIOUS
<1>1. smd \in Documents /\ got \in [ei : Bodies, comps : Bodies]
      /\ cache \in Documents /\ sighted \in Documents /\ excused \in Documents
  BY BodyTypes DEF Init, Documents
<1>2. rpc \in [Reader -> {"idle", "ei", "comp", "answer"}]
      /\ rnode \in [Reader -> Node \cup {NoNode}] /\ rknown \in [Reader -> BOOLEAN]
  BY DEF Init
<1>3. changes \in 0..MaxChanges /\ faults \in 0..MaxFaults
  BY BoundAssumption DEF Init
<1>4. /\ pc = "begin" /\ tick = FALSE /\ updated = FALSE /\ serving = FALSE
      /\ lasting = {} /\ vouched = {}
  BY DEF Init
<1> QED BY <1>1, <1>2, <1>3, <1>4 DEF TypeOK

\* Every state of the cache, of the refreshing goroutine and of the readers is of
\* the expected type (Cache.Refresh, RefreshLoop and the lookups).
THEOREM CacheTypeCorrect == Spec => []TypeOK
<1>1. TypeOK /\ [Next]_vars => TypeOK'
  <2> SUFFICES ASSUME TypeOK, [Next]_vars PROVE TypeOK'
    OBVIOUS
  <2> USE BodyTypes, BoundAssumption
      DEF TypeOK, smdVars, readerVars, history, Fault, ReturnToLoop
  <2>1. CASE SmdChanges
    <3>1. smd' \in Documents
      BY <2>1 DEF SmdChanges, Documents
    <3>2. sighted' \in Documents /\ lasting' \in SUBSET Node
      BY <2>1, <3>1 DEF SmdChanges, Documents
    <3> QED BY <2>1, <3>1, <3>2 DEF SmdChanges
  <2>2. CASE TickerFires
    BY <2>2 DEF TickerFires
  <2>3. CASE BeginRefresh
    BY <2>3 DEF BeginRefresh, Known, Documents
  <2>4. CASE GetEi
    <3>1. smd.ei \in SUBSET Node
      BY DEF Documents
    <3>2. faults' \in 0..MaxFaults
      BY <2>4 DEF GetEi, Returns
    <3>3. got' \in [ei : Bodies, comps : Bodies]
      BY <2>4, <3>1 DEF GetEi
    <3> QED BY <2>4, <3>2, <3>3 DEF GetEi
  <2>5. CASE GetComps
    <3>1. smd.comps \in SUBSET Node
      BY DEF Documents
    <3>2. faults' \in 0..MaxFaults
      BY <2>5 DEF GetComps, Returns
    <3>3. got' \in [ei : Bodies, comps : Bodies]
      BY <2>5, <3>1 DEF GetComps
    <3> QED BY <2>5, <3>2, <3>3 DEF GetComps
  <2>6. CASE Decode
    BY <2>6 DEF Decode
  <2>7. CASE LockForWrite
    BY <2>7 DEF LockForWrite
  <2>8. CASE SetEi
    BY <2>8 DEF SetEi, Documents, Bodies
  <2>9. CASE SetComps
    BY <2>9 DEF SetComps, Documents, Bodies
  <2>10. CASE Stamp
    BY <2>10 DEF Stamp
  <2>11. ASSUME NEW r \in Reader, NEW n \in Node, LockForRead(r, n) PROVE TypeOK'
    BY <2>11 DEF LockForRead
  <2>12. ASSUME NEW r \in Reader, Lookup(r) PROVE TypeOK'
    <3>1. CASE ReadEi(r)
      BY <3>1 DEF ReadEi
    <3>2. CASE ReadComp(r)
      BY <3>2 DEF ReadComp
    <3>3. CASE UnlockForRead(r)
      BY <3>3 DEF UnlockForRead
    <3> QED BY <2>12, <3>1, <3>2, <3>3 DEF Lookup
  <2>13. CASE UNCHANGED vars
    BY <2>13 DEF vars
  <2> QED
    BY <2>1, <2>2, <2>3, <2>4, <2>5, <2>6, <2>7, <2>8, <2>9, <2>10, <2>11, <2>12, <2>13
       DEF Next, Refresh
<1> QED BY CacheTypeInit, <1>1, PTL DEF Spec

-----------------------------------------------------------------------------
(***************************************************************************)
(* What a lookup answers.  Neither NoSpuriousMiss nor NoPhantom is         *)
(* inductive: they follow from the write lock keeping readers out of the   *)
(* swap, and from each fetched document containing what SMD held all along *)
(* and nothing it never held.                                              *)
(***************************************************************************)

\* The write lock excludes readers.
Exclusion == Locked => \A r \in Reader : rpc[r] = "idle"

\* Which of the refresh's two documents have been fetched, and installed.
FetchedEi      == pc \in {"getComps", "decode", "lock", "setEi", "setComps", "stamp"}
FetchedComps   == pc \in {"decode", "lock", "setEi", "setComps", "stamp"}
Decoded        == pc \in {"lock", "setEi", "setComps", "stamp"}
InstalledEi    == pc \in {"setComps", "stamp"}
InstalledComps == pc = "stamp"

\* What a handler has found so far is what the cache holds.
ReadersAgree ==
  \A r \in Reader :
    /\ rpc[r] = "idle" <=> rnode[r] = NoNode
    /\ rpc[r] = "comp" => rnode[r] \in cache.ei
    /\ rpc[r] = "answer" => (rknown[r] <=> rnode[r] \in Known(cache))
    /\ rpc[r] \in {"idle", "ei", "comp"} => ~rknown[r]

Installed ==
  /\ InstalledEi => cache.ei = got.ei.nodes
  /\ InstalledComps => cache.comps = got.comps.nodes

\* Nothing fetched or cached was never in SMD.
Sighted ==
  /\ smd.ei \subseteq sighted.ei \/ pc \in {"begin", "idle"}
  /\ smd.comps \subseteq sighted.comps \/ pc \in {"begin", "idle"}
  /\ FetchedEi => got.ei.nodes \subseteq sighted.ei
  /\ FetchedComps => got.comps.nodes \subseteq sighted.comps
  /\ ~InstalledEi => cache.ei \subseteq excused.ei
  /\ ~InstalledComps => cache.comps \subseteq excused.comps

ReadInv == TypeOK /\ Exclusion /\ ReadersAgree /\ Installed /\ Sighted

LEMMA ReadInvInit == Init => ReadInv
<1> SUFFICES ASSUME Init, TypeOK PROVE ReadInv
  BY CacheTypeInit
<1> QED
  BY DEF Init, ReadInv, Exclusion, ReadersAgree, Installed, Sighted, Nothing,
         Locked, FetchedEi, FetchedComps, InstalledEi, InstalledComps

LEMMA ReadInvNext == ReadInv /\ TypeOK' /\ [Next]_vars => ReadInv'
<1> SUFFICES ASSUME ReadInv, TypeOK', [Next]_vars PROVE ReadInv'
  OBVIOUS
<1> USE DEF smdVars, readerVars, history, Locked, FetchedEi, FetchedComps,
            InstalledEi, InstalledComps
<1>a. TypeOK /\ Exclusion /\ ReadersAgree /\ Installed /\ Sighted
  BY DEF ReadInv
\* The refreshing goroutine's steps outside the swap leave readers and cache alone.
<1>b. ASSUME UNCHANGED <<cache, readerVars>>, ~Locked' PROVE Exclusion' /\ ReadersAgree'
  BY <1>a, <1>b DEF Exclusion, ReadersAgree, Known
<1>1. CASE SmdChanges
  <2>1. /\ sighted' = [ei    |-> sighted.ei \cup smd'.ei,
                       comps |-> sighted.comps \cup smd'.comps]
        /\ UNCHANGED <<pc, got, cache, readerVars, vouched, excused>>
    BY <1>1 DEF SmdChanges
  <2>2. Sighted'
    BY <1>a, <2>1 DEF Sighted
  <2>3. Exclusion' /\ ReadersAgree' /\ Installed'
    BY <1>a, <2>1 DEF Exclusion, ReadersAgree, Installed, Known
  <2> QED BY <2>2, <2>3 DEF ReadInv
<1>2. CASE TickerFires
  BY <1>a, <1>2 DEF TickerFires, ReadInv, Exclusion, ReadersAgree, Installed, Sighted, Known
<1>3. CASE BeginRefresh
  <2>1. /\ pc \in {"begin", "idle"} /\ pc' = "getEi" /\ sighted' = smd
        /\ UNCHANGED <<smd, got, cache, readerVars, excused>>
    BY <1>3 DEF BeginRefresh
  <2>2. Installed' /\ Sighted'
    BY <1>a, <2>1 DEF Installed, Sighted
  <2> QED BY <1>b, <2>1, <2>2 DEF ReadInv
<1>4. CASE GetEi
  <2>1. UNCHANGED <<smd, cache, readerVars, sighted, excused>> /\ pc = "getEi"
    BY <1>4 DEF GetEi
  <2>2. CASE pc' = "getComps"
    <3>1. PICK b \in {Inventory(smd.ei), Broken, Problem} : got' = [got EXCEPT !.ei = b]
      BY <1>4, <2>2 DEF GetEi, ReturnToLoop
    <3>2. b.nodes \subseteq sighted.ei
      BY <1>a, <2>1, <3>1 DEF Sighted, Inventory, Broken, Problem
    <3>3. got'.ei = b
      BY <1>a, <3>1 DEF TypeOK
    <3>4. Installed' /\ Sighted'
      BY <1>a, <2>1, <2>2, <3>2, <3>3 DEF Installed, Sighted
    <3> QED BY <1>b, <2>1, <2>2, <3>4 DEF ReadInv
  <2>3. CASE pc' = "idle"
    <3>1. Installed' /\ Sighted'
      BY <1>a, <2>1, <2>3 DEF Installed, Sighted
    <3> QED BY <1>b, <2>1, <2>3, <3>1 DEF ReadInv
  <2> QED BY <1>4, <2>2, <2>3 DEF GetEi, ReturnToLoop
<1>5. CASE GetComps
  <2>1. UNCHANGED <<smd, cache, readerVars, sighted, excused>> /\ pc = "getComps"
    BY <1>5 DEF GetComps
  <2>2. CASE pc' = "decode"
    <3>1. PICK b \in {Inventory(smd.comps), Broken, Problem} : got' = [got EXCEPT !.comps = b]
      BY <1>5, <2>2 DEF GetComps, ReturnToLoop
    <3>2. b.nodes \subseteq sighted.comps
      BY <1>a, <2>1, <3>1 DEF Sighted, Inventory, Broken, Problem
    <3>3. got'.comps = b /\ got'.ei = got.ei
      BY <1>a, <3>1 DEF TypeOK
    <3>4. Installed' /\ Sighted'
      BY <1>a, <2>1, <2>2, <3>2, <3>3 DEF Installed, Sighted
    <3> QED BY <1>b, <2>1, <2>2, <3>4 DEF ReadInv
  <2>3. CASE pc' = "idle"
    <3>1. Installed' /\ Sighted'
      BY <1>a, <2>1, <2>3 DEF Installed, Sighted
    <3> QED BY <1>b, <2>1, <2>3, <3>1 DEF ReadInv
  <2> QED BY <1>5, <2>2, <2>3 DEF GetComps, ReturnToLoop
<1>6. CASE Decode
  <2>1. /\ pc = "decode" /\ UNCHANGED <<smd, cache, readerVars, sighted, excused>>
        /\ (pc' = "lock" /\ UNCHANGED got) \/ pc' = "idle"
    BY <1>6 DEF Decode, ReturnToLoop
  <2>2. Installed' /\ Sighted'
    BY <1>a, <2>1 DEF Installed, Sighted
  <2> QED BY <1>b, <2>1, <2>2 DEF ReadInv
<1>7. CASE LockForWrite
  BY <1>a, <1>7 DEF LockForWrite, ReadInv, Exclusion, ReadersAgree, Installed, Sighted, Known
<1>8. CASE SetEi
  <2>1. /\ pc = "setEi" /\ pc' = "setComps" /\ UNCHANGED <<smd, got, readerVars, sighted, excused>>
        /\ cache' = [cache EXCEPT !.ei = got.ei.nodes]
    BY <1>8 DEF SetEi
  <2>2. cache'.ei = got.ei.nodes /\ cache'.comps = cache.comps
    BY <1>a, <2>1 DEF TypeOK, Documents
  <2>3. \A r \in Reader : rpc[r] = "idle"
    BY <1>a, <2>1 DEF Exclusion
  <2>4. Exclusion' /\ ReadersAgree'
    BY <1>a, <2>1, <2>3 DEF Exclusion, ReadersAgree
  <2>5. Installed' /\ Sighted'
    BY <1>a, <2>1, <2>2 DEF Installed, Sighted
  <2> QED BY <2>4, <2>5 DEF ReadInv
<1>9. CASE SetComps
  <2>1. /\ pc = "setComps" /\ pc' = "stamp" /\ UNCHANGED <<smd, got, readerVars, sighted, excused>>
        /\ cache' = [cache EXCEPT !.comps = got.comps.nodes]
    BY <1>9 DEF SetComps
  <2>2. cache'.comps = got.comps.nodes /\ cache'.ei = cache.ei
    BY <1>a, <2>1 DEF TypeOK, Documents
  <2>3. \A r \in Reader : rpc[r] = "idle"
    BY <1>a, <2>1 DEF Exclusion
  <2>4. Exclusion' /\ ReadersAgree'
    BY <1>a, <2>1, <2>3 DEF Exclusion, ReadersAgree
  <2>5. Installed' /\ Sighted'
    BY <1>a, <2>1, <2>2 DEF Installed, Sighted
  <2> QED BY <2>4, <2>5 DEF ReadInv
<1>10. CASE Stamp
  <2>1. /\ pc = "stamp" /\ pc' = "idle" /\ excused' = sighted
        /\ UNCHANGED <<smd, cache, readerVars, sighted>>
    BY <1>10 DEF Stamp, ReturnToLoop
  <2>2. cache.ei \subseteq sighted.ei /\ cache.comps \subseteq sighted.comps
    BY <1>a, <2>1 DEF Installed, Sighted
  <2>3. Installed' /\ Sighted'
    BY <1>a, <2>1, <2>2 DEF Installed, Sighted
  <2> QED BY <1>b, <2>1, <2>3 DEF ReadInv
<1>11. ASSUME NEW r \in Reader, NEW n \in Node, LockForRead(r, n) PROVE ReadInv'
  <2>1. /\ rpc[r] = "idle" /\ ~Locked /\ UNCHANGED <<smd, pc, got, cache, rknown, sighted, excused>>
        /\ rpc' = [rpc EXCEPT ![r] = "ei"]
        /\ rnode' = [rnode EXCEPT ![r] = n]
    BY <1>11 DEF LockForRead
  <2>2. Exclusion' /\ Installed' /\ Sighted'
    BY <1>a, <2>1 DEF Exclusion, Installed, Sighted
  <2>3. ReadersAgree'
    BY <1>a, <2>1, SentinelAssumption DEF ReadersAgree, TypeOK, Known
  <2> QED BY <2>2, <2>3 DEF ReadInv
<1>12. ASSUME NEW r \in Reader, Lookup(r) PROVE ReadInv'
  <2>1. UNCHANGED <<smd, pc, got, cache, sighted, excused>> /\ rpc[r] # "idle"
    BY <1>12 DEF Lookup, ReadEi, ReadComp, UnlockForRead
  <2>2. Exclusion' /\ Installed' /\ Sighted'
    BY <1>a, <2>1 DEF Exclusion, Installed, Sighted
  <2>3. CASE ReadEi(r)
    <3>1. ReadersAgree'
      BY <1>a, <2>3 DEF ReadersAgree, TypeOK, Known, ReadEi
    <3> QED BY <2>2, <3>1 DEF ReadInv
  <2>4. CASE ReadComp(r)
    <3>1. ReadersAgree'
      BY <1>a, <2>4 DEF ReadersAgree, TypeOK, Known, ReadComp
    <3> QED BY <2>2, <3>1 DEF ReadInv
  <2>5. CASE UnlockForRead(r)
    <3>1. ReadersAgree'
      BY <1>a, <2>5 DEF ReadersAgree, TypeOK, Known, UnlockForRead
    <3> QED BY <2>2, <3>1 DEF ReadInv
  <2> QED BY <1>12, <2>3, <2>4, <2>5 DEF Lookup
<1>13. CASE UNCHANGED vars
  BY <1>a, <1>13 DEF vars, ReadInv, Exclusion, ReadersAgree, Installed, Sighted, Known
<1> QED
  BY <1>1, <1>2, <1>3, <1>4, <1>5, <1>6, <1>7, <1>8, <1>9, <1>10, <1>11, <1>12, <1>13
     DEF Next, Refresh

THEOREM ReadInvCorrect == Spec => []ReadInv
<1>1. Spec => []TypeOK
  BY CacheTypeCorrect
<1> QED BY <1>1, ReadInvInit, ReadInvNext, PTL DEF Spec

\* No lookup ever finds a node out of documents of two refreshes, or one whose
\* interface or component SMD did not hold during the refresh.
THEOREM NoPhantomCorrect == Spec => []NoPhantom
<1>1. ReadInv => NoPhantom
  <2> SUFFICES ASSUME ReadInv, NEW r \in Reader, rknown[r] PROVE rnode[r] \in Known(excused)
    BY DEF NoPhantom
  <2>1. rpc[r] = "answer" /\ rnode[r] \in Known(cache)
    BY DEF ReadInv, ReadersAgree, TypeOK
  <2>2. ~Locked
    BY <2>1 DEF ReadInv, Exclusion
  <2> QED BY <2>1, <2>2 DEF ReadInv, Sighted, Known, Locked, InstalledEi, InstalledComps
<1> QED BY <1>1, ReadInvCorrect, PTL

-----------------------------------------------------------------------------
(***************************************************************************)
(* The other half: everything SMD held all along is in each inventory that *)
(* is fetched, and an error document vouches for nothing.                  *)
(***************************************************************************)
Lasting ==
  /\ lasting \subseteq Known(smd)
  /\ FetchedEi /\ got.ei.kind = "inventory" => lasting \subseteq got.ei.nodes
  /\ FetchedComps /\ got.comps.kind = "inventory" => lasting \subseteq got.comps.nodes
  /\ Decoded => got.ei.kind = "inventory"
  /\ ~InstalledEi => vouched \subseteq cache.ei
  /\ ~InstalledComps => vouched \subseteq cache.comps

LEMMA LastingNext ==
  ASSUME TypeOK, TypeOK', Installed, Lasting, [Next]_vars
  PROVE  Lasting'
<1> USE DEF smdVars, readerVars, history, FetchedEi, FetchedComps, Decoded,
            InstalledEi, InstalledComps
<1>1. CASE SmdChanges
  <2>1. lasting' = lasting \cap Known(smd')
        /\ UNCHANGED <<pc, got, cache, vouched>>
    BY <1>1 DEF SmdChanges
  <2> QED BY <2>1 DEF Lasting
<1>2. CASE BeginRefresh
  BY <1>2 DEF BeginRefresh, Lasting, Known
<1>3. CASE GetEi
  <2>1. pc = "getEi" /\ UNCHANGED <<smd, cache, lasting, vouched>>
    BY <1>3 DEF GetEi
  <2>2. CASE pc' = "getComps"
    <3>1. PICK b \in {Inventory(smd.ei), Broken, Problem} : got' = [got EXCEPT !.ei = b]
      BY <1>3, <2>2 DEF GetEi, ReturnToLoop
    <3>2. got'.ei = b /\ got'.comps = got.comps
      BY <3>1 DEF TypeOK
    <3>3. b.kind = "inventory" => lasting \subseteq b.nodes
      BY <3>1 DEF Lasting, Known, Inventory, Broken, Problem
    <3> QED BY <2>1, <2>2, <3>2, <3>3 DEF Lasting
  <2>3. CASE pc' = "idle" /\ got' = Unread
    BY <2>1, <2>3 DEF Lasting, Unread, Broken
  <2> QED BY <1>3, <2>2, <2>3 DEF GetEi, ReturnToLoop
<1>4. CASE GetComps
  <2>1. pc = "getComps" /\ UNCHANGED <<smd, cache, lasting, vouched>>
    BY <1>4 DEF GetComps
  <2>2. CASE pc' = "decode"
    <3>1. PICK b \in {Inventory(smd.comps), Broken, Problem} : got' = [got EXCEPT !.comps = b]
      BY <1>4, <2>2 DEF GetComps, ReturnToLoop
    <3>2. got'.comps = b /\ got'.ei = got.ei
      BY <3>1 DEF TypeOK
    <3>3. b.kind = "inventory" => lasting \subseteq b.nodes
      BY <3>1 DEF Lasting, Known, Inventory, Broken, Problem
    <3> QED BY <2>1, <2>2, <3>2, <3>3 DEF Lasting
  <2>3. CASE pc' = "idle" /\ got' = Unread
    BY <2>1, <2>3 DEF Lasting, Unread, Broken
  <2> QED BY <1>4, <2>2, <2>3 DEF GetComps, ReturnToLoop
<1>5. CASE Decode
  <2>1. pc = "decode" /\ UNCHANGED <<smd, cache, lasting, vouched>>
    BY <1>5 DEF Decode
  <2>2. CASE Decodable(got) /\ pc' = "lock" /\ UNCHANGED got
    <3>1. got.ei.kind = "inventory"
      BY <2>2 DEF Decodable
    <3> QED BY <2>1, <2>2, <3>1 DEF Lasting
  <2>3. CASE pc' = "idle" /\ got' = Unread
    BY <2>1, <2>3 DEF Lasting, Unread, Broken
  <2> QED BY <1>5, <2>2, <2>3 DEF Decode, ReturnToLoop
<1>6. CASE LockForWrite
  BY <1>6 DEF LockForWrite, Lasting
<1>7. CASE SetEi
  <2>1. /\ pc = "setEi" /\ pc' = "setComps" /\ UNCHANGED <<smd, got, lasting, vouched>>
        /\ cache'.comps = cache.comps
    BY <1>7 DEF SetEi, TypeOK, Documents
  <2> QED BY <2>1 DEF Lasting
<1>8. CASE SetComps
  <2>1. pc = "setComps" /\ pc' = "stamp" /\ UNCHANGED <<smd, got, lasting, vouched>>
    BY <1>8 DEF SetComps
  <2> QED BY <2>1 DEF Lasting
<1>9. CASE Stamp
  <2>1. /\ pc = "stamp" /\ pc' = "idle" /\ got' = Unread
        /\ vouched' = IF got.comps.kind = "inventory" THEN lasting ELSE {}
        /\ UNCHANGED <<smd, cache, lasting>>
    BY <1>9 DEF Stamp, ReturnToLoop
  <2>2. vouched' \subseteq cache.ei /\ vouched' \subseteq cache.comps
    BY <2>1 DEF Lasting, Installed
  <2> QED BY <2>1, <2>2 DEF Lasting, Unread, Broken
<1>10. CASE UNCHANGED <<smd, pc, got, cache, lasting, vouched>>
  BY <1>10 DEF Lasting
<1> QED
  BY <1>1, <1>2, <1>3, <1>4, <1>5, <1>6, <1>7, <1>8, <1>9, <1>10
     DEF Next, Refresh, vars, TickerFires, LockForRead, Lookup, ReadEi, ReadComp, UnlockForRead

\* A node that was in SMD throughout the refresh the cache comes from is found by
\* every lookup, unless that refresh took an error document for the components.
THEOREM NoSpuriousMissCorrect == Spec => []NoSpuriousMiss
<1>1. Init => Lasting
  BY DEF Init, Lasting, Nothing, Unread, Broken, FetchedEi, FetchedComps, Decoded
<1>2. ReadInv /\ ReadInv' /\ Lasting /\ [Next]_vars => Lasting'
  BY LastingNext DEF ReadInv
<1>3. ReadInv /\ Lasting => NoSpuriousMiss
  <2> SUFFICES ASSUME ReadInv, Lasting, NEW r \in Reader, rpc[r] = "answer", ~rknown[r]
               PROVE  rnode[r] \notin vouched
    BY DEF NoSpuriousMiss
  <2>1. rnode[r] \notin Known(cache)
    BY DEF ReadInv, ReadersAgree
  <2>2. ~Locked
    BY DEF ReadInv, Exclusion
  <2> QED BY <2>1, <2>2 DEF Lasting, Known, Locked, InstalledEi, InstalledComps
<1>4. Spec => []ReadInv
  BY ReadInvCorrect
<1> QED BY <1>1, <1>2, <1>3, <1>4, PTL DEF Spec

-----------------------------------------------------------------------------
(***************************************************************************)
(* The refinement: SetEi replaces the documents, the step in which a       *)
(* reader's answer is decided answers, and all else maps to a stutter.     *)
(***************************************************************************)

\* The refreshing goroutine touches what is served only under the lock.
LEMMA RefreshMaps ==
  ASSUME ReadInv, ReadInv', SmdChanges \/ TickerFires \/ Refresh
  PROVE  [Service!Next]_(Service!vars)
<1>1. readerVars' = readerVars
  BY DEF SmdChanges, TickerFires, Refresh, BeginRefresh, GetEi, GetComps, Decode,
         LockForWrite, SetEi, SetComps, Stamp
<1>2. rnode' = rnode /\ Told' = Told
  BY <1>1 DEF readerVars, Told
<1>3. CASE SetEi
  <2>1. pc = "setEi" /\ pc' = "setComps" /\ got' = got /\ got.comps.nodes \in SUBSET Node
    BY <1>3 DEF SetEi, ReadInv, TypeOK, Bodies
  <2>2. Served' \in [ei : SUBSET Node, comps : SUBSET Node]
    <3>1. Served' = [cache' EXCEPT !.comps = got.comps.nodes]
      BY <2>1 DEF Served
    <3>2. cache' \in [ei : SUBSET Node, comps : SUBSET Node]
      BY DEF ReadInv, TypeOK, Documents
    <3>3. \A d \in [ei : SUBSET Node, comps : SUBSET Node], s \in SUBSET Node :
            [d EXCEPT !.comps = s] \in [ei : SUBSET Node, comps : SUBSET Node]
      OBVIOUS
    <3> QED
      BY <2>1, <3>1, <3>2, <3>3, Zenon
  <2>3. \A r \in Reader : rnode[r] = NoNode
    BY <2>1 DEF ReadInv, Exclusion, Locked, ReadersAgree
  <2> QED
    BY <1>2, <2>2, <2>3 DEF Service!Next, Service!Replace
<1>4. CASE SetComps
  <2>1. Served' = Served
    BY <1>4 DEF SetComps, Served
  <2> QED
    BY <1>2, <2>1 DEF Service!vars
<1>5. CASE ~SetEi /\ ~SetComps
  <2>1. \/ UNCHANGED <<pc, cache, got>>
        \/ cache' = cache /\ pc # "setComps" /\ pc' # "setComps"
    BY <1>5 DEF SmdChanges, TickerFires, Refresh, BeginRefresh, GetEi, GetComps, Decode,
                LockForWrite, Stamp, ReturnToLoop
  <2> QED
    BY <1>2, <2>1 DEF Served, Service!vars
<1> QED
  BY <1>3, <1>4, <1>5

\* A reader looks in documents that nothing replaces until it returns.
LEMMA ReaderMaps ==
  ASSUME ReadInv, ReadInv', NEW r \in Reader, Lookup(r) \/ \E n \in Node : LockForRead(r, n)
  PROVE  [Service!Next]_(Service!vars)
<1>1. /\ rpc \in [Reader -> {"idle", "ei", "comp", "answer"}]
      /\ rnode \in [Reader -> Node \cup {NoNode}] /\ rknown \in [Reader -> BOOLEAN]
  BY DEF ReadInv, TypeOK
<1>2. pc' = pc /\ cache' = cache /\ got' = got
  BY DEF Lookup, ReadEi, ReadComp, UnlockForRead, LockForRead
<1>3. Served' = Served
  BY <1>2 DEF Served
<1>4. Locked => rpc[r] = "idle"
  BY DEF ReadInv, Exclusion
<1>5. ASSUME NEW n \in Node, LockForRead(r, n) PROVE Service!Ask(r, n)
  <2>1. rpc[r] = "idle" /\ rpc' = [rpc EXCEPT ![r] = "ei"]
        /\ rnode' = [rnode EXCEPT ![r] = n] /\ rknown' = rknown
    BY <1>5 DEF LockForRead
  <2>2. rnode[r] = NoNode
    BY <2>1 DEF ReadInv, ReadersAgree
  <2>3. Told' = Told
    BY <1>1, <2>1 DEF Told
  <2> QED
    BY <1>3, <2>1, <2>2, <2>3 DEF Service!Ask
<1>6. ASSUME rpc[r] \in {"ei", "comp"}, rnode' = rnode, rpc' = [rpc EXCEPT ![r] = "answer"],
             \A q \in Reader \ {r} : rknown'[q] = rknown[q]
      PROVE  Service!Answer(r)
  <2>1. rnode[r] # NoNode /\ Told[r] = "none"
    BY <1>6 DEF ReadInv, ReadersAgree, Told
  <2>2. Served = cache
    BY <1>4, <1>6 DEF Served, Locked
  <2>3. rknown'[r] <=> rnode[r] \in cache.ei \cap cache.comps
    <3>1. rpc'[r] = "answer"
      BY <1>1, <1>6
    <3> QED
      BY <1>2, <1>6, <3>1 DEF ReadInv, ReadersAgree, Known
  <2>4. Told' = [Told EXCEPT ![r] = IF rnode[r] \in cache.ei \cap cache.comps
                                    THEN "found" ELSE "missing"]
    BY <1>1, <1>6, <2>3 DEF Told
  <2> QED
    BY <1>3, <1>6, <2>1, <2>2, <2>4 DEF Service!Answer
<1>7. CASE ReadEi(r)
  <2>1. rpc[r] = "ei" /\ rnode' = rnode /\ rknown' = [rknown EXCEPT ![r] = FALSE]
        /\ rpc' = [rpc EXCEPT ![r] = IF rnode[r] \in cache.ei THEN "comp" ELSE "answer"]
    BY <1>7 DEF ReadEi
  <2>2. \A q \in Reader \ {r} : rknown'[q] = rknown[q]
    BY <1>1, <2>1
  <2>3. CASE rnode[r] \in cache.ei
    <3>1. Told' = Told
      BY <1>1, <2>1, <2>3 DEF Told
    <3> QED
      BY <1>3, <2>1, <3>1 DEF Service!vars
  <2>4. CASE rnode[r] \notin cache.ei
    BY <1>6, <2>1, <2>2, <2>4 DEF Service!Next
  <2> QED
    BY <2>3, <2>4
<1>8. CASE ReadComp(r)
  <2>1. rpc[r] = "comp" /\ rnode' = rnode /\ rpc' = [rpc EXCEPT ![r] = "answer"]
        /\ \A q \in Reader \ {r} : rknown'[q] = rknown[q]
    BY <1>1, <1>8 DEF ReadComp
  <2> QED
    BY <1>6, <2>1 DEF Service!Next
<1>9. CASE UnlockForRead(r)
  <2>1. rpc[r] = "answer" /\ rpc' = [rpc EXCEPT ![r] = "idle"]
        /\ rnode' = [rnode EXCEPT ![r] = NoNode] /\ rknown' = [rknown EXCEPT ![r] = FALSE]
    BY <1>9 DEF UnlockForRead
  <2>2. Told[r] # "none" /\ Told' = [Told EXCEPT ![r] = "none"]
    BY <1>1, <2>1 DEF Told
  <2>3. Service!Return(r)
    BY <1>3, <2>1, <2>2 DEF Service!Return
  <2> QED
    BY <2>3 DEF Service!Next
<1> QED
  BY <1>5, <1>7, <1>8, <1>9 DEF Lookup, Service!Next

\* Two maps behind a lock are one store: for any number of readers, refreshes,
\* failures and changes, the cache implements CacheService.
THEOREM CacheServiceImplemented == Spec => ImplementsCacheService
<1>1. Init => Service!Init
  <2> SUFFICES ASSUME Init PROVE Service!Init
    OBVIOUS
  <2>1. Served = Nothing /\ rnode = [r \in Reader |-> NoNode] /\ rpc = [r \in Reader |-> "idle"]
    BY DEF Init, Served
  <2>2. Told = [r \in Reader |-> "none"]
    BY <2>1 DEF Told
  <2> QED
    BY <2>1, <2>2 DEF Service!Init, Nothing
<1>2. ReadInv /\ ReadInv' /\ [Next]_vars => [Service!Next]_(Service!vars)
  <2> SUFFICES ASSUME ReadInv, ReadInv', [Next]_vars PROVE [Service!Next]_(Service!vars)
    OBVIOUS
  <2>1. CASE UNCHANGED vars
    BY <2>1 DEF vars, readerVars, Served, Told, Service!vars
  <2> QED
    BY <2>1, RefreshMaps, ReaderMaps DEF Next
<1> QED
  BY <1>1, <1>2, ReadInvCorrect, PTL DEF Spec, ImplementsCacheService, Service!Spec
=============================================================================
