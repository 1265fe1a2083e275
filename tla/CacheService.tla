---------------------------- MODULE CacheService ----------------------------
(***************************************************************************)
(* What the SMD cache promises those who look nodes up in it, without its  *)
(* maps, its lock or its refreshing goroutine: the two documents it serves *)
(* are replaced together and never during a lookup, and a lookup is        *)
(* answered from them at one point in time.  Modules that take a lookup or *)
(* a refresh for one step (Dns, Startup, DhcpChain) rely on no more.       *)
(***************************************************************************)
CONSTANTS Node, Reader, NoNode

VARIABLES
  served,     \* the documents in force: [ei, comps]
  asked,      \* asked[r]: the node that r looks up, or NoNode
  told        \* told[r]: "none" so far, "found" or "missing"

vars == <<served, asked, told>>

Init ==
  /\ served = [ei |-> {}, comps |-> {}]
  /\ asked = [r \in Reader |-> NoNode]
  /\ told = [r \in Reader |-> "none"]

\* Other documents take the place of both.
Replace ==
  /\ \A r \in Reader : asked[r] = NoNode
  /\ served' \in [ei : SUBSET Node, comps : SUBSET Node]
  /\ UNCHANGED <<asked, told>>

Ask(r, n) ==
  /\ asked[r] = NoNode
  /\ asked' = [asked EXCEPT ![r] = n]
  /\ UNCHANGED <<served, told>>

\* A node is known if it is in both documents.
Answer(r) ==
  /\ asked[r] # NoNode /\ told[r] = "none"
  /\ told' = [told EXCEPT ![r] =
                IF asked[r] \in served.ei \cap served.comps THEN "found" ELSE "missing"]
  /\ UNCHANGED <<served, asked>>

Return(r) ==
  /\ told[r] # "none"
  /\ asked' = [asked EXCEPT ![r] = NoNode]
  /\ told' = [told EXCEPT ![r] = "none"]
  /\ UNCHANGED served

Next ==
  \/ Replace
  \/ \E r \in Reader : Answer(r) \/ Return(r) \/ \E n \in Node : Ask(r, n)

Spec == Init /\ [][Next]_vars
=============================================================================
