---------------------------- MODULE CommandQueue ----------------------------
(***************************************************************************)
(* The per-device command queue of mdmprotocol/mdm (queue.go) as           *)
(* storage/inmem/queue.go implements it: every operation runs under one    *)
(* mutex, so every operation is one action.                                *)
(***************************************************************************)
EXTENDS QueueTable

CONSTANTS
    Devices,      \* device IDs
    AutoIds,      \* AutoIds[n] is the generated ID "cmd-n"
    MaxAuto,      \* bound on generated IDs
    MaxSeq,       \* bound on Enqueue calls per device
    MaxAttempts,  \* bound on deliveries of one command
    MaxTime       \* bound on the clock

ASSUME QueueAssumption ==
    /\ MaxAuto \in Nat
    /\ MaxSeq \in Nat
    /\ MaxAttempts \in Nat
    /\ MaxTime \in Nat \ {0}
    /\ AutoIds \in [1..MaxAuto -> Ids]

VARIABLES
    cmds,    \* device -> ID -> stored command (Queue.byDev)
    seq,     \* device -> last Seq assigned (Queue.seq)
    nextID,  \* last generated ID (Queue.nextID)
    now      \* the clock the callers stamp operations with

vars == <<cmds, seq, nextID, now>>

-----------------------------------------------------------------------------
Init ==
    /\ cmds = [d \in Devices |-> [i \in Ids |-> NoCommand]]
    /\ seq = [d \in Devices |-> 0]
    /\ nextID = 0
    /\ now = 1

(* Mutant: Seq is taken from the length of the queue. *)
StoreLenSeq(d, i) ==
    /\ seq[d] < MaxSeq
    /\ seq' = [seq EXCEPT ![d] = @ + 1]
    /\ cmds' = [cmds EXCEPT ![d] = Enqueued(@, i, Cardinality(Stored(cmds[d])) + 1)]
(* Mutant: the counter is not advanced. *)
StoreStuckSeq(d, i) ==
    /\ seq[d] < MaxSeq
    /\ seq' = [seq EXCEPT ![d] = IF @ = 0 THEN 1 ELSE @]
    /\ cmds' = [cmds EXCEPT ![d] = Enqueued(@, i, IF seq[d] = 0 THEN 1 ELSE seq[d])]
Store(d, i) ==
    /\ seq[d] < MaxSeq
    /\ seq' = [seq EXCEPT ![d] = @ + 1]
    /\ cmds' = [cmds EXCEPT ![d] = Enqueued(@, i, seq[d] + 1)]

(* A command that carries an ID; an ID the device already has is ErrConflict
   and changes nothing. *)
Enqueue(d, i) ==
    /\ cmds[d][i].state = "absent"
    /\ Store(d, i)
    /\ UNCHANGED <<nextID, now>>

(* A command without an ID: the counter advances before the conflict check, so
   a generated ID that is taken consumes the number and fails. *)
EnqueueAuto(d) ==
    /\ nextID < MaxAuto
    /\ nextID' = nextID + 1
    /\ LET i == AutoIds[nextID + 1]
       IN  IF cmds[d][i].state = "absent" THEN Store(d, i) ELSE UNCHANGED <<cmds, seq>>
    /\ UNCHANGED now

(* D is the set of commands named up to the first one that is not stored: the
   loop has marked those when it returns ErrNotFound. *)
MarkSent(d, D) ==
    /\ D # {} /\ D \subseteq Stored(cmds[d])
    /\ \A i \in D : cmds[d][i].attempts < MaxAttempts
    /\ cmds' = [cmds EXCEPT ![d] = MarkedSent(@, D)]
    /\ UNCHANGED <<seq, nextID, now>>

StoreResult(d, i, r) ==
    /\ cmds[d][i].state # "absent"
    /\ cmds' = [cmds EXCEPT ![d] = ResultStored(@, i, r, now)]
    /\ UNCHANGED <<seq, nextID, now>>

Cancel(d, I) ==
    /\ cmds' = [cmds EXCEPT ![d] = Cancelled(@, I, now)]
    /\ UNCHANGED <<seq, nextID, now>>

(* The devices are visited in map order and the commands of one in Seq order
   until the limit is reached. *)
Prune(before, limit) ==
    \E P \in [Devices -> SUBSET Ids] :
        LET eligible == UNION {{d} \X Prunable(cmds[d], before) : d \in Devices}
            gone == UNION {{d} \X P[d] : d \in Devices}
        IN  /\ gone \subseteq eligible
            /\ limit = 0 => gone = eligible
            /\ limit > 0 => Cardinality(gone) <= limit
            /\ gone # eligible => Cardinality(gone) = limit
            /\ \A d \in Devices : \A i \in P[d], j \in Prunable(cmds[d], before) \ P[d] :
                   cmds[d][i].seq < cmds[d][j].seq
            /\ cmds' = [d \in Devices |-> Pruned(cmds[d], P[d])]
            /\ UNCHANGED <<seq, nextID, now>>

Tick ==
    /\ now < MaxTime
    /\ now' = now + 1
    /\ UNCHANGED <<cmds, seq, nextID>>

Next ==
    \/ \E d \in Devices, i \in Ids : Enqueue(d, i)
    \/ \E d \in Devices : EnqueueAuto(d)
    \/ \E d \in Devices, D \in SUBSET Ids : MarkSent(d, D)
    \/ \E d \in Devices, i \in Ids, r \in Results : StoreResult(d, i, r)
    \/ \E d \in Devices, I \in SUBSET Ids : Cancel(d, I)
    \/ \E before \in 1..MaxTime, limit \in 0..1 : Prune(before, limit)
    \/ Tick

Spec == Init /\ [][Next]_vars

-----------------------------------------------------------------------------
(* Type invariant of the stored commands, the counters and the clock. *)
TypeOK ==
    /\ cmds \in [Devices -> [Ids -> Command]]
    /\ seq \in [Devices -> Nat]
    /\ nextID \in 0..MaxAuto
    /\ now \in Nat \ {0}

(* queue.go QueuedCommand.Seq: two commands of a device never share a Seq and
   none is above the counter, whatever was pruned in between, so Seq order is a
   total delivery order. *)
SeqOrder ==
    \A d \in Devices : \A i, j \in Stored(cmds[d]) :
        /\ cmds[d][i].seq \in 1..seq[d]
        /\ i # j => cmds[d][i].seq # cmds[d][j].seq

(* A command that enters the queue gets a Seq above that of every command the
   device ever had, so nothing enqueued later is delivered earlier. *)
LateCommandsGoLast ==
    [][\A d \in Devices, i \in Ids :
         cmds[d][i].state = "absent" /\ cmds'[d][i].state # "absent"
         => \A j \in Ids \ {i} : cmds'[d][j].seq < cmds'[d][i].seq]_vars

(* queue.go "StatePending has never been delivered" and "Result is set once the
   command reached a terminal state through the client": the counters and the
   result agree with the state in every order of the calls, and nothing of a
   pruned command survives. *)
StateAgrees ==
    \A d \in Devices, i \in Ids :
        LET c == cmds[d][i]
        IN  /\ c.state = "pending" => c.attempts = 0 /\ c.result = "none"
            /\ c.state = "acknowledged" => c.result = "ok"
            /\ c.state = "failed" => c.result = "error"
            /\ c.state \in Terminal => c.completedAt > 0
            /\ c.state = "absent" => c = NoCommand

(* queue.go Prune "deletes terminal commands": a pending or sent command never
   leaves the queue. *)
LiveCommandsStay ==
    [][\A d \in Devices, i \in Ids :
         cmds[d][i].state \in Live => cmds'[d][i].state # "absent"]_vars

(* The in-memory queue implements the promise of mdm.CommandQueue: every call is
   one of the contract's calls on the same table, and a generated ID that is
   taken or a tick of the clock is none. *)
Contract == INSTANCE QueueContract WITH table <- cmds, last <- seq, Times <- 1..MaxTime
ImplementsContract == Contract!ContractSpec
=============================================================================
