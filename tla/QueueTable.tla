----------------------------- MODULE QueueTable -----------------------------
(***************************************************************************)
(* The commands of one device as mdmprotocol/mdm/queue.go defines them and *)
(* what the methods of a CommandQueue make of them, as storage/inmem       *)
(* implements them.  A table is a function on all the IDs a command may    *)
(* have; an ID that names no stored command maps to NoCommand.             *)
(***************************************************************************)
EXTENDS Integers, FiniteSets

CONSTANT Ids  \* command IDs

Live == {"pending", "sent"}
Terminal == {"acknowledged", "failed", "cancelled"}
Results == {"ok", "error"}

Command ==
    [state: Live \cup Terminal \cup {"absent"},
     seq: Nat, attempts: Nat, result: Results \cup {"none"}, completedAt: Nat]

NoCommand ==
    [state |-> "absent", seq |-> 0, attempts |-> 0, result |-> "none", completedAt |-> 0]

Stored(q) == {i \in Ids : q[i].state # "absent"}

-----------------------------------------------------------------------------
(* What the operations make of one stored command. *)
Fresh(n) == [NoCommand EXCEPT !.state = "pending", !.seq = n]
AsSent(c) == [c EXCEPT !.state = "sent", !.attempts = c.attempts + 1]
(* Mutant: the raw outcome is stored as the state. *)
AsAnsweredRaw(c, r, at) == [c EXCEPT !.result = r, !.completedAt = at, !.state = r]
(* Mutant: the completion time is not stamped. *)
AsAnsweredUnstamped(c, r, at) ==
    [c EXCEPT !.result = r, !.state = IF r = "ok" THEN "acknowledged" ELSE "failed"]
AsAnswered(c, r, at) ==
    [c EXCEPT !.result = r, !.completedAt = at,
              !.state = IF r = "ok" THEN "acknowledged" ELSE "failed"]
AsCancelled(c, at) == [c EXCEPT !.state = "cancelled", !.completedAt = at]

Enqueued(q, i, n) == [q EXCEPT ![i] = Fresh(n)]

(* Mutant: a sent command is never delivered again. *)
DeliverableOnce(q) == {i \in Ids : q[i].state = "pending"}
DeliverableSet(q) == {i \in Ids : q[i].state \in Live}

(* The loop runs in Seq order and stops once limit commands are collected. *)
Deliverable(q, limit) ==
    {i \in DeliverableSet(q) :
        limit > 0 => Cardinality({j \in DeliverableSet(q) : q[j].seq < q[i].seq}) < limit}

(* D is the set of commands the deliveries name, all of them stored. *)
MarkedSent(q, D) == [i \in Ids |-> IF i \in D THEN AsSent(q[i]) ELSE q[i]]

ResultStored(q, i, r, at) == [q EXCEPT ![i] = AsAnswered(q[i], r, at)]

Cancelled(q, I, at) ==
    [i \in Ids |-> IF i \in I /\ q[i].state \in Live THEN AsCancelled(q[i], at) ELSE q[i]]

(* Mutant: the state is not tested. *)
PrunableAnyState(q, before) ==
    {i \in Ids : q[i].completedAt > 0 /\ q[i].completedAt < before}
Prunable(q, before) ==
    {i \in Ids : q[i].state \in Terminal /\ q[i].completedAt > 0 /\ q[i].completedAt < before}

Pruned(q, I) == [i \in Ids |-> IF i \in I THEN NoCommand ELSE q[i]]
=============================================================================
