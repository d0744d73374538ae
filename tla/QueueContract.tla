---------------------------- MODULE QueueContract ----------------------------
(***************************************************************************)
(* What mdm.CommandQueue promises of any backend: the commands of every    *)
(* device and the last Seq handed out, and what one completed call may do  *)
(* to them.  It says nothing of generated IDs, of the clock, of which      *)
(* terminal commands Prune takes or of how a backend makes a call atomic;  *)
(* CommandQueue (storage/inmem) and SqlQueue (server/sqlstore) are both    *)
(* shown to implement it.                                                  *)
(***************************************************************************)
EXTENDS QueueTable

CONSTANTS
    Devices,  \* device IDs
    Times     \* instants a caller may stamp an operation with

VARIABLES
    table,  \* device -> ID -> stored command
    last    \* device -> last Seq assigned

cvars == <<table, last>>

ContractInit ==
    /\ table = [d \in Devices |-> [i \in Ids |-> NoCommand]]
    /\ last = [d \in Devices |-> 0]

(* Only an ID the device does not have enters the queue, with the next Seq. *)
Enqueues(d, i) ==
    /\ table[d][i].state = "absent"
    /\ last' = [last EXCEPT ![d] = @ + 1]
    /\ table' = [table EXCEPT ![d] = Enqueued(@, i, last[d] + 1)]

(* The other calls work on stored commands and hand out no Seq. *)
Changes(d, q) ==
    /\ UNCHANGED last
    /\ table' = [table EXCEPT ![d] = q]

MarksSent(d, D) ==
    /\ D # {} /\ D \subseteq Stored(table[d])
    /\ Changes(d, MarkedSent(table[d], D))

StoresResult(d, i, r, at) ==
    /\ i \in Stored(table[d])
    /\ Changes(d, ResultStored(table[d], i, r, at))

Cancels(d, I, at) ==
    /\ I \subseteq DeliverableSet(table[d])
    /\ Changes(d, Cancelled(table[d], I, at))

(* Terminal commands go, of any number of devices. *)
Prunes(P) ==
    /\ UNCHANGED last
    /\ \A d \in Devices : \A i \in P[d] : table[d][i].state \in Terminal
    /\ table' = [d \in Devices |-> Pruned(table[d], P[d])]

(* A call is known by what it changed: the commands that differ after it. *)
Touched(d) == {i \in Ids : table'[d][i] # table[d][i]}

ContractNext ==
    \/ \E d \in Devices : \E i \in Touched(d) : Enqueues(d, i)
    \/ \E d \in Devices : MarksSent(d, Touched(d))
    \/ \E d \in Devices, r \in Results, at \in Times : \E i \in Touched(d) : StoresResult(d, i, r, at)
    \/ \E d \in Devices, at \in Times : Cancels(d, Touched(d), at)
    \/ Prunes([d \in Devices |-> Touched(d)])

ContractSpec == ContractInit /\ [][ContractNext]_cvars
=============================================================================
