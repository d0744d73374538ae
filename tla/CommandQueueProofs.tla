------------------------- MODULE CommandQueueProofs -------------------------
(***************************************************************************)
(* Proofs about CommandQueue for any set of devices and IDs and any bounds.*)
(* TypeOK, SeqOrder and StateAgrees are inductive together.                *)
(***************************************************************************)
EXTENDS CommandQueue, TLAPS

(* The inductive invariant: types, Seq order and state agreement. *)
IInv == TypeOK /\ SeqOrder /\ StateAgrees

(* What the operations make of one stored command is again a command. *)
LEMMA CommandTypes ==
    /\ NoCommand \in Command
    /\ \A n \in Nat : Fresh(n) \in Command
    /\ \A c \in Command : AsSent(c) \in Command
    /\ \A c \in Command, r \in Results, n \in Nat : AsAnswered(c, r, n) \in Command
    /\ \A c \in Command, n \in Nat : AsCancelled(c, n) \in Command
  <1> USE DEF Command, Live, Terminal, Results
  <1>1. NoCommand \in Command
    BY DEF NoCommand
  <1>2. ASSUME NEW n \in Nat PROVE Fresh(n) \in Command
    BY Zenon DEF Fresh, NoCommand
  <1>3. ASSUME NEW c \in Command PROVE AsSent(c) \in Command
    <2>1. c.attempts + 1 \in Nat
      OBVIOUS
    <2> QED BY <2>1, Zenon DEF AsSent
  <1>4. ASSUME NEW c \in Command, NEW r \in Results, NEW n \in Nat
        PROVE  AsAnswered(c, r, n) \in Command
    BY Zenon DEF AsAnswered
  <1>5. ASSUME NEW c \in Command, NEW n \in Nat PROVE AsCancelled(c, n) \in Command
    BY Zenon DEF AsCancelled
  <1> QED BY <1>1, <1>2, <1>3, <1>4, <1>5

(* Init establishes the inductive invariant. *)
LEMMA InitIInv == Init => IInv
  <1> SUFFICES ASSUME Init PROVE IInv
    OBVIOUS
  <1>1. NoCommand \in Command
    BY DEF NoCommand, Command, Live, Terminal
  <1>2. TypeOK
    BY <1>1, QueueAssumption DEF Init, TypeOK
  <1>3. SeqOrder
    BY DEF Init, SeqOrder, Stored, NoCommand
  <1>4. StateAgrees
    BY DEF Init, StateAgrees, NoCommand, Terminal
  <1> QED BY <1>2, <1>3, <1>4 DEF IInv

(* Every call preserves the types. *)
LEMMA TypeStep == TypeOK /\ [Next]_vars => TypeOK'
  <1> SUFFICES ASSUME TypeOK, [Next]_vars PROVE TypeOK'
    OBVIOUS
  <1> USE DEF TypeOK
  <1>1. ASSUME NEW d \in Devices, NEW i \in Ids, Enqueue(d, i) PROVE TypeOK'
    <2>1. Enqueued(cmds[d], i, seq[d] + 1) \in [Ids -> Command]
      BY CommandTypes DEF Enqueued
    <2> QED BY <1>1, <2>1 DEF Enqueue, Store
  <1>2. ASSUME NEW d \in Devices, EnqueueAuto(d) PROVE TypeOK'
    <2>1. nextID + 1 \in 1..MaxAuto
      BY <1>2, QueueAssumption DEF EnqueueAuto
    <2> DEFINE i == AutoIds[nextID + 1]
    <2>2. i \in Ids
      BY <2>1, QueueAssumption
    <2> HIDE DEF i
    <2>3. Enqueued(cmds[d], i, seq[d] + 1) \in [Ids -> Command]
      BY <2>2, CommandTypes DEF Enqueued
    <2>4. \/ Store(d, i)
          \/ UNCHANGED <<cmds, seq>>
      BY <1>2 DEF EnqueueAuto, i
    <2>5. nextID' \in 0..MaxAuto /\ now' = now
      BY <1>2, <2>1 DEF EnqueueAuto
    <2> QED BY <2>3, <2>4, <2>5 DEF Store
  <1>3. ASSUME NEW d \in Devices, NEW D \in SUBSET Ids, MarkSent(d, D) PROVE TypeOK'
    <2>1. MarkedSent(cmds[d], D) \in [Ids -> Command]
      BY CommandTypes DEF MarkedSent
    <2> QED BY <1>3, <2>1 DEF MarkSent
  <1>4. ASSUME NEW d \in Devices, NEW i \in Ids, NEW r \in Results, StoreResult(d, i, r)
        PROVE  TypeOK'
    <2>1. ResultStored(cmds[d], i, r, now) \in [Ids -> Command]
      BY CommandTypes DEF ResultStored
    <2> QED BY <1>4, <2>1 DEF StoreResult
  <1>5. ASSUME NEW d \in Devices, NEW I \in SUBSET Ids, Cancel(d, I) PROVE TypeOK'
    <2>1. Cancelled(cmds[d], I, now) \in [Ids -> Command]
      BY CommandTypes DEF Cancelled
    <2> QED BY <1>5, <2>1 DEF Cancel
  <1>6. ASSUME NEW before \in 1..MaxTime, NEW limit \in 0..1, Prune(before, limit) PROVE TypeOK'
    <2>1. PICK P \in [Devices -> SUBSET Ids] :
              /\ cmds' = [d \in Devices |-> Pruned(cmds[d], P[d])]
              /\ UNCHANGED <<seq, nextID, now>>
      BY <1>6 DEF Prune
    <2>2. ASSUME NEW d \in Devices PROVE Pruned(cmds[d], P[d]) \in [Ids -> Command]
      <3>1. NoCommand \in Command
        BY DEF NoCommand, Command, Live, Terminal
      <3> QED BY <3>1 DEF Pruned
    <2> QED BY <2>1, <2>2
  <1>7. CASE Tick
    BY <1>7 DEF Tick
  <1>8. CASE UNCHANGED vars
    BY <1>8 DEF vars
  <1> QED BY <1>1, <1>2, <1>3, <1>4, <1>5, <1>6, <1>7, <1>8 DEF Next

(* Which fields the operations set, and that they leave Seq alone. *)
LEMMA CommandFields ==
    /\ NoCommand.state = "absent" /\ NoCommand.seq = 0
    /\ \A n \in Nat : /\ Fresh(n).state = "pending" /\ Fresh(n).seq = n
                      /\ Fresh(n).attempts = 0 /\ Fresh(n).result = "none"
    /\ \A c \in Command : AsSent(c).state = "sent" /\ AsSent(c).seq = c.seq
    /\ \A c \in Command, r \in Results, n \in Nat :
          /\ AsAnswered(c, r, n).state = IF r = "ok" THEN "acknowledged" ELSE "failed"
          /\ AsAnswered(c, r, n).result = r
          /\ AsAnswered(c, r, n).completedAt = n
          /\ AsAnswered(c, r, n).seq = c.seq
    /\ \A c \in Command, n \in Nat :
          /\ AsCancelled(c, n).state = "cancelled"
          /\ AsCancelled(c, n).completedAt = n
          /\ AsCancelled(c, n).seq = c.seq
  <1>1. NoCommand.state = "absent" /\ NoCommand.seq = 0
    BY DEF NoCommand
  <1>2. ASSUME NEW n \in Nat
        PROVE  /\ Fresh(n).state = "pending" /\ Fresh(n).seq = n
               /\ Fresh(n).attempts = 0 /\ Fresh(n).result = "none"
    BY DEF Fresh, NoCommand
  <1>3. ASSUME NEW c \in Command PROVE AsSent(c).state = "sent" /\ AsSent(c).seq = c.seq
    BY DEF AsSent, Command
  <1>4. ASSUME NEW c \in Command, NEW r \in Results, NEW n \in Nat
        PROVE  /\ AsAnswered(c, r, n).state = IF r = "ok" THEN "acknowledged" ELSE "failed"
               /\ AsAnswered(c, r, n).result = r
               /\ AsAnswered(c, r, n).completedAt = n
               /\ AsAnswered(c, r, n).seq = c.seq
    BY DEF AsAnswered, Command
  <1>5. ASSUME NEW c \in Command, NEW n \in Nat
        PROVE  /\ AsCancelled(c, n).state = "cancelled"
               /\ AsCancelled(c, n).completedAt = n
               /\ AsCancelled(c, n).seq = c.seq
    BY DEF AsCancelled, Command
  <1> QED BY <1>1, <1>2, <1>3, <1>4, <1>5

(* A step that changes the state of stored commands only through MarkSent,
   StoreResult, Cancel or Prune: every command it leaves stored was stored with
   the same Seq, and every command it changes is one of the four outcomes. *)
Handled(c, e) ==
    \/ e = c
    \/ e = NoCommand /\ c.state \in Terminal
    \/ c.state # "absent" /\ e = AsSent(c)
    \/ c.state # "absent" /\ \E r \in Results : e = AsAnswered(c, r, now)
    \/ c.state \in Live /\ e = AsCancelled(c, now)

Handling ==
    /\ \A d \in Devices, i \in Ids : Handled(cmds[d][i], cmds'[d][i])
    /\ seq' = seq

(* The one other kind of step: a fresh command with the next Seq under an ID
   that was free. *)
Storing(d, i) ==
    /\ cmds[d][i].state = "absent"
    /\ seq' = [seq EXCEPT ![d] = seq[d] + 1]
    /\ cmds' = [cmds EXCEPT ![d] = [cmds[d] EXCEPT ![i] = Fresh(seq[d] + 1)]]

(* Every step of the queue is of one of the two kinds. *)
LEMMA StepKinds ==
    ASSUME TypeOK, [Next]_vars
    PROVE  Handling \/ \E d \in Devices, i \in Ids : Storing(d, i)
  <1> USE DEF TypeOK
  <1>1. ASSUME NEW d \in Devices, NEW i \in Ids, Enqueue(d, i) PROVE Storing(d, i)
    BY <1>1 DEF Enqueue, Store, Enqueued, Storing
  <1>2. ASSUME NEW d \in Devices, EnqueueAuto(d)
        PROVE  Handling \/ \E i \in Ids : Storing(d, i)
    <2> DEFINE i == AutoIds[nextID + 1]
    <2>1. i \in Ids
      BY <1>2, QueueAssumption DEF EnqueueAuto
    <2>2. CASE cmds[d][i].state = "absent"
      BY <1>2, <2>1, <2>2 DEF EnqueueAuto, Store, Enqueued, Storing
    <2>3. CASE cmds[d][i].state # "absent"
      BY <1>2, <2>3 DEF EnqueueAuto, Handling, Handled
    <2> QED BY <2>2, <2>3
  <1>3. ASSUME NEW d \in Devices, NEW D \in SUBSET Ids, MarkSent(d, D) PROVE Handling
    BY <1>3 DEF MarkSent, MarkedSent, Stored, Handling, Handled
  <1>4. ASSUME NEW d \in Devices, NEW i \in Ids, NEW r \in Results, StoreResult(d, i, r)
        PROVE  Handling
    BY <1>4 DEF StoreResult, ResultStored, Handling, Handled
  <1>5. ASSUME NEW d \in Devices, NEW I \in SUBSET Ids, Cancel(d, I) PROVE Handling
    BY <1>5 DEF Cancel, Cancelled, Handling, Handled
  <1>6. ASSUME NEW before \in 1..MaxTime, NEW limit \in 0..1, Prune(before, limit)
        PROVE  Handling
    <2>1. PICK P \in [Devices -> SUBSET Ids] :
              /\ UNION {{d} \X P[d] : d \in Devices}
                   \subseteq UNION {{d} \X Prunable(cmds[d], before) : d \in Devices}
              /\ cmds' = [d \in Devices |-> Pruned(cmds[d], P[d])]
              /\ seq' = seq
      BY <1>6 DEF Prune
    <2>2. ASSUME NEW d \in Devices, NEW i \in P[d] PROVE cmds[d][i].state \in Terminal
      <3>1. <<d, i>> \in UNION {{e} \X Prunable(cmds[e], before) : e \in Devices}
        BY <2>1
      <3>2. i \in Prunable(cmds[d], before)
        BY <3>1
      <3> QED BY <3>2 DEF Prunable
    <2> QED BY <2>1, <2>2 DEF Pruned, Handling, Handled
  <1>7. CASE Tick
    BY <1>7 DEF Tick, Handling, Handled
  <1>8. CASE UNCHANGED vars
    BY <1>8 DEF vars, Handling, Handled
  <1> QED BY <1>1, <1>2, <1>3, <1>4, <1>5, <1>6, <1>7, <1>8 DEF Next

(* Both kinds of step preserve the Seq order. *)
LEMMA SeqOrderStep == IInv /\ [Next]_vars => SeqOrder'
  <1> SUFFICES ASSUME IInv, [Next]_vars PROVE SeqOrder'
    OBVIOUS
  <1> USE DEF IInv
  <1>1. CASE Handling
    <2>1. ASSUME NEW d \in Devices, NEW i \in Stored(cmds'[d])
          PROVE  i \in Stored(cmds[d]) /\ cmds'[d][i].seq = cmds[d][i].seq
      <3>1. /\ i \in Ids /\ cmds'[d][i].state # "absent"
            /\ cmds[d][i] \in Command /\ now \in Nat
        BY DEF Stored, TypeOK
      <3>2. Handled(cmds[d][i], cmds'[d][i])
        BY <1>1, <3>1 DEF Handling
      <3> QED BY <3>1, <3>2, CommandFields DEF Handled, Stored, Live
    <2> QED BY <1>1, <2>1 DEF SeqOrder, Handling
  <1>2. ASSUME NEW d \in Devices, NEW i \in Ids, Storing(d, i) PROVE SeqOrder'
    <2>1. /\ seq[d] \in Nat
          /\ cmds'[d][i].seq = seq[d] + 1
          /\ seq'[d] = seq[d] + 1
      BY <1>2, CommandFields DEF Storing, TypeOK
    <2>2. \A j \in Ids \ {i} : cmds'[d][j] = cmds[d][j]
      BY <1>2 DEF Storing, TypeOK
    <2>3. \A e \in Devices \ {d} : cmds'[e] = cmds[e] /\ seq'[e] = seq[e]
      BY <1>2 DEF Storing, TypeOK
    <2>4. ASSUME NEW j \in Stored(cmds'[d]), j # i
          PROVE  j \in Stored(cmds[d]) /\ cmds'[d][j].seq = cmds[d][j].seq
      BY <2>2, <2>4 DEF Stored
    <2>5. ASSUME NEW j \in Stored(cmds'[d]), NEW k \in Stored(cmds'[d])
          PROVE  /\ cmds'[d][j].seq \in 1..seq'[d]
                 /\ j # k => cmds'[d][j].seq # cmds'[d][k].seq
      BY <2>1, <2>4 DEF SeqOrder
    <2> QED BY <2>3, <2>5 DEF SeqOrder
  <1> QED BY <1>1, <1>2, StepKinds

(* Both kinds of step keep the counters and the result in agreement with the
   state. *)
LEMMA StateAgreesStep == IInv /\ [Next]_vars => StateAgrees'
  <1> SUFFICES ASSUME IInv, [Next]_vars PROVE StateAgrees'
    OBVIOUS
  <1> USE DEF IInv
  <1>1. CASE Handling
    <2> SUFFICES ASSUME NEW d \in Devices, NEW i \in Ids
                 PROVE  LET c == cmds'[d][i]
                        IN  /\ c.state = "pending" => c.attempts = 0 /\ c.result = "none"
                            /\ c.state = "acknowledged" => c.result = "ok"
                            /\ c.state = "failed" => c.result = "error"
                            /\ c.state \in Terminal => c.completedAt > 0
                            /\ c.state = "absent" => c = NoCommand
      BY DEF StateAgrees
    <2>1. cmds[d][i] \in Command /\ now \in Nat /\ now > 0
      BY DEF TypeOK
    <2>2. Handled(cmds[d][i], cmds'[d][i])
      BY <1>1 DEF Handling
    <2> QED BY <2>1, <2>2, CommandFields DEF Handled, StateAgrees, Terminal, Results, Live
  <1>2. ASSUME NEW d \in Devices, NEW i \in Ids, Storing(d, i) PROVE StateAgrees'
    <2>1. seq[d] + 1 \in Nat
      BY DEF TypeOK
    <2> QED BY <1>2, <2>1, CommandFields DEF Storing, StateAgrees, TypeOK, Terminal
  <1> QED BY <1>1, <1>2, StepKinds

LEMMA Inductive == IInv /\ [Next]_vars => IInv'
  BY TypeStep, SeqOrderStep, StateAgreesStep DEF IInv

(* Spec => []IInv, the base of the theorems below. *)
LEMMA Invariance == Spec => []IInv
  BY InitIInv, Inductive, PTL DEF Spec

(* The stored commands and the counters keep their types. *)
THEOREM TypeCorrect == Spec => []TypeOK
  BY Invariance, PTL DEF IInv

(* Queue.Enqueue: whatever calls the queue has seen, no two commands of a device
   share a Seq and the counter is above all of them. *)
THEOREM SeqOrderHolds == Spec => []SeqOrder
  BY Invariance, PTL DEF IInv

(* Queue: state, attempts, result and completion time agree whatever the order
   of the calls. *)
THEOREM StateAgreesHolds == Spec => []StateAgrees
  BY Invariance, PTL DEF IInv

(* Queue.Enqueue: a command that enters the queue sorts behind every command of
   its device. *)
THEOREM LateCommandsGoLastHolds == Spec => LateCommandsGoLast
  <1> DEFINE A == \A d \in Devices, i \in Ids :
                     cmds[d][i].state = "absent" /\ cmds'[d][i].state # "absent"
                     => \A j \in Ids \ {i} : cmds'[d][j].seq < cmds'[d][i].seq
  <1>1. IInv /\ [Next]_vars => [A]_vars
    <2> SUFFICES ASSUME IInv, [Next]_vars PROVE A
      OBVIOUS
    <2> USE DEF IInv
    <2>1. CASE Handling
      BY <2>1, CommandFields DEF Handling, Handled, Terminal, Live
    <2>2. ASSUME NEW d \in Devices, NEW i \in Ids, Storing(d, i) PROVE A
      <3>1. seq[d] \in Nat /\ cmds'[d][i].seq = seq[d] + 1
        BY <2>2, CommandFields DEF Storing, TypeOK
      <3>2. \A j \in Ids \ {i} : cmds'[d][j] = cmds[d][j]
        BY <2>2 DEF Storing, TypeOK
      <3>3. \A e \in Devices \ {d} : cmds'[e] = cmds[e]
        BY <2>2 DEF Storing, TypeOK
      <3>4. ASSUME NEW j \in Ids \ {i} PROVE cmds[d][j].seq < seq[d] + 1
        <4>1. CASE j \in Stored(cmds[d])
          BY <3>1, <4>1 DEF SeqOrder
        <4>2. CASE j \notin Stored(cmds[d])
          BY <3>1, <4>2, CommandFields DEF Stored, StateAgrees
        <4> QED BY <4>1, <4>2
      <3> QED BY <3>1, <3>2, <3>3, <3>4
    <2> QED BY <2>1, <2>2, StepKinds
  <1> QED BY <1>1, Invariance, PTL DEF Spec, LateCommandsGoLast

(* Queue.Prune: no call removes a command that is pending or sent. *)
THEOREM LiveCommandsStayHolds == Spec => LiveCommandsStay
  <1> DEFINE A == \A d \in Devices, i \in Ids :
                     cmds[d][i].state \in Live => cmds'[d][i].state # "absent"
  <1>1. IInv /\ [Next]_vars => [A]_vars
    <2> SUFFICES ASSUME IInv, [Next]_vars PROVE A
      OBVIOUS
    <2> USE DEF IInv
    <2>1. CASE Handling
      <3> SUFFICES ASSUME NEW d \in Devices, NEW i \in Ids, cmds[d][i].state \in Live
                   PROVE  cmds'[d][i].state # "absent"
        OBVIOUS
      <3>1. cmds[d][i] \in Command /\ now \in Nat
        BY DEF TypeOK
      <3>2. Handled(cmds[d][i], cmds'[d][i])
        BY <2>1 DEF Handling
      <3> QED BY <3>1, <3>2, CommandFields DEF Handled, Live, Terminal, Results
    <2>2. ASSUME NEW d \in Devices, NEW i \in Ids, Storing(d, i) PROVE A
      BY <2>2, CommandFields DEF Storing, TypeOK, Live
    <2> QED BY <2>1, <2>2, StepKinds
  <1> QED BY <1>1, Invariance, PTL DEF Spec, LiveCommandsStay

(* The clock stays within its bound. *)
LEMMA ClockInRange == Spec => [](now \in 1..MaxTime)
  <1>1. Init => now \in 1..MaxTime
    BY QueueAssumption DEF Init
  <1>2. now \in 1..MaxTime /\ [Next]_vars => (now \in 1..MaxTime)'
    <2> SUFFICES ASSUME now \in 1..MaxTime, [Next]_vars PROVE now' \in 1..MaxTime
      OBVIOUS
    <2>1. now' = now \/ Tick
      BY Zenon DEF Next, vars, Enqueue, EnqueueAuto, MarkSent, StoreResult, Cancel, Prune
    <2> QED BY <2>1, QueueAssumption DEF Tick
  <1> QED BY <1>1, <1>2, PTL DEF Spec

(* The contract's operators on a table are the ones of this module. *)
LEMMA SameOperators ==
    /\ Contract!NoCommand = NoCommand
    /\ \A q, i, n : Contract!Enqueued(q, i, n) = Enqueued(q, i, n)
    /\ \A q, D : Contract!MarkedSent(q, D) = MarkedSent(q, D)
    /\ \A q, i, r, at : Contract!ResultStored(q, i, r, at) = ResultStored(q, i, r, at)
    /\ \A q, I, at : Contract!Cancelled(q, I, at) = Cancelled(q, I, at)
    /\ \A q, I : Contract!Pruned(q, I) = Pruned(q, I)
    /\ \A q : Contract!Stored(q) = Stored(q)
    /\ \A q : Contract!DeliverableSet(q) = DeliverableSet(q)
    /\ Contract!Terminal = Terminal
    /\ Contract!Results = Results
  BY DEF Contract!NoCommand, NoCommand, Contract!Enqueued, Enqueued, Contract!Fresh, Fresh,
         Contract!MarkedSent, MarkedSent, Contract!AsSent, AsSent,
         Contract!ResultStored, ResultStored, Contract!AsAnswered, AsAnswered,
         Contract!Cancelled, Cancelled, Contract!AsCancelled, AsCancelled, Contract!Live, Live,
         Contract!Pruned, Pruned, Contract!Stored, Stored,
         Contract!DeliverableSet, DeliverableSet, Contract!Terminal, Terminal,
         Contract!Results, Results

(* A call that changes the table is one of the contract's calls, named by the
   commands it changed. *)
LEMMA ContractStep ==
    TypeOK /\ now \in 1..MaxTime /\ [Next]_vars => [Contract!ContractNext]_(Contract!cvars)
  <1> SUFFICES ASSUME TypeOK, now \in 1..MaxTime, [Next]_vars
               PROVE  Contract!ContractNext \/ UNCHANGED <<cmds, seq>>
    BY DEF Contract!cvars
  <1> USE DEF TypeOK
  <1>1. ASSUME NEW d \in Devices, NEW i \in Ids, cmds[d][i].state = "absent", Store(d, i)
        PROVE  Contract!ContractNext
    <2>1. Contract!Enqueues(d, i)
      BY <1>1, SameOperators, Zenon DEF Store, Contract!Enqueues
    <2>2. cmds'[d][i].state = "pending"
      BY <1>1 DEF Store, Enqueued, Fresh, NoCommand
    <2>3. i \in Contract!Touched(d)
      BY <1>1, <2>2 DEF Contract!Touched
    <2> QED BY <2>1, <2>3 DEF Contract!ContractNext
  <1>2. ASSUME NEW d \in Devices, NEW D \in SUBSET Ids, MarkSent(d, D)
        PROVE  Contract!ContractNext
    <2>1. cmds'[d] = MarkedSent(cmds[d], D)
      BY <1>2 DEF MarkSent
    <2>2. \A c \in Command : AsSent(c) # c
      <3> SUFFICES ASSUME NEW c \in Command PROVE AsSent(c).attempts # c.attempts
        OBVIOUS
      <3>1. c.attempts \in Nat /\ AsSent(c).attempts = c.attempts + 1
        BY DEF AsSent, Command
      <3> QED BY <3>1
    <2>3. Contract!Touched(d) = D
      BY <2>1, <2>2 DEF MarkedSent, Contract!Touched
    <2>4. Contract!MarksSent(d, D)
      BY <1>2, SameOperators, Zenon DEF MarkSent, Contract!MarksSent, Contract!Changes
    <2> QED BY <2>3, <2>4 DEF Contract!ContractNext
  <1>3. ASSUME NEW d \in Devices, NEW i \in Ids, NEW r \in Results, StoreResult(d, i, r)
        PROVE  Contract!ContractNext \/ UNCHANGED <<cmds, seq>>
    <2>1. Contract!StoresResult(d, i, r, now)
      BY <1>3, SameOperators, Zenon DEF StoreResult, Stored, Contract!StoresResult, Contract!Changes
    <2>2. CASE i \in Contract!Touched(d)
      BY <2>1, <2>2, SameOperators DEF Contract!ContractNext
    <2>3. CASE i \notin Contract!Touched(d)
      <3>1. cmds'[d] = ResultStored(cmds[d], i, r, now) /\ UNCHANGED seq
        BY <1>3 DEF StoreResult
      <3>2. cmds'[d][i] = cmds[d][i]
        BY <2>3 DEF Contract!Touched
      <3>3. cmds'[d] = cmds[d]
        BY <3>1, <3>2 DEF ResultStored
      <3> QED BY <1>3, <3>1, <3>3 DEF StoreResult
    <2> QED BY <2>2, <2>3
  <1>4. ASSUME NEW d \in Devices, NEW I \in SUBSET Ids, Cancel(d, I)
        PROVE  Contract!ContractNext
    <2> DEFINE J == Contract!Touched(d)
    <2>1. cmds'[d] = Cancelled(cmds[d], I, now)
      BY <1>4 DEF Cancel
    <2>2. \A c \in Command : c.state \in Live => AsCancelled(c, now) # c
      <3> SUFFICES ASSUME NEW c \in Command, c.state \in Live
                   PROVE  AsCancelled(c, now).state # c.state
        OBVIOUS
      <3> QED BY DEF AsCancelled, Live, Command
    <2>3. J = {i \in I : cmds[d][i].state \in Live}
      BY <2>1, <2>2 DEF Cancelled, Contract!Touched
    <2>4. Cancelled(cmds[d], I, now) = Cancelled(cmds[d], J, now)
      BY <2>3 DEF Cancelled
    <2>5. J \subseteq DeliverableSet(cmds[d])
      BY <2>3 DEF DeliverableSet
    <2>6. Contract!Cancels(d, J, now)
      BY <1>4, <2>4, <2>5, SameOperators, Zenon DEF Cancel, Contract!Cancels, Contract!Changes
    <2> QED BY <2>6 DEF Contract!ContractNext
  <1>5. ASSUME NEW before \in 1..MaxTime, NEW limit \in 0..1, Prune(before, limit)
        PROVE  Contract!ContractNext
    <2> DEFINE T == [d \in Devices |-> Contract!Touched(d)]
    <2>1. PICK P \in [Devices -> SUBSET Ids] :
            /\ UNION {{d} \X P[d] : d \in Devices}
                 \subseteq UNION {{d} \X Prunable(cmds[d], before) : d \in Devices}
            /\ cmds' = [d \in Devices |-> Pruned(cmds[d], P[d])]
            /\ seq' = seq
      BY <1>5 DEF Prune
    <2>2. ASSUME NEW d \in Devices, NEW i \in P[d]
          PROVE  cmds[d][i].state \in Terminal /\ cmds[d][i] # NoCommand
      <3>1. <<d, i>> \in UNION {{e} \X Prunable(cmds[e], before) : e \in Devices}
        BY <2>1
      <3>2. i \in Prunable(cmds[d], before)
        BY <3>1
      <3> QED BY <3>2 DEF Prunable, NoCommand, Terminal
    <2>3. T = P
      <3>1. ASSUME NEW d \in Devices PROVE Contract!Touched(d) = P[d]
        BY <2>1, <2>2 DEF Contract!Touched, Pruned
      <3> QED BY <3>1
    <2>4. Contract!Prunes(P)
      BY <2>1, <2>2, SameOperators DEF Contract!Prunes
    <2> QED BY <2>3, <2>4 DEF Contract!ContractNext
  <1>6. ASSUME NEW d \in Devices, EnqueueAuto(d)
        PROVE  Contract!ContractNext \/ UNCHANGED <<cmds, seq>>
    <2>1. nextID + 1 \in 1..MaxAuto
      BY <1>6, QueueAssumption DEF EnqueueAuto
    <2>2. AutoIds[nextID + 1] \in Ids
      BY <2>1, QueueAssumption
    <2> QED BY <1>1, <1>6, <2>2 DEF EnqueueAuto
  <1>7. ASSUME NEW d \in Devices, NEW i \in Ids, Enqueue(d, i) PROVE Contract!ContractNext
    BY <1>1, <1>7 DEF Enqueue
  <1>8. CASE Tick \/ UNCHANGED vars
    BY <1>8 DEF Tick, vars
  <1> QED BY <1>2, <1>3, <1>4, <1>5, <1>6, <1>7, <1>8 DEF Next

(* storage/inmem implements the promise of mdm.CommandQueue. *)
THEOREM InMemoryImplementsContract == Spec => ImplementsContract
  <1>1. Init => Contract!ContractInit
    BY SameOperators DEF Init, Contract!ContractInit
  <1> QED BY <1>1, ContractStep, TypeCorrect, ClockInRange, PTL
      DEF Spec, ImplementsContract, Contract!ContractSpec
=============================================================================
