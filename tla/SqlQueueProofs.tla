--------------------------- MODULE SqlQueueProofs ---------------------------
(***************************************************************************)
(* Proofs about SqlQueue for any number of calls, IDs, retries and clock   *)
(* units.  SqlInv is inductive as it stands; PruneInv adds what the        *)
(* deletion of selected rows needs, and is inductive when no call outlasts *)
(* a unit of the clock and one Prune runs at a time.                       *)
(***************************************************************************)
EXTENDS SqlQueue, TLAPS

(* Where a call is agrees with what it was asked to do and with what it holds. *)
Bookkeeping ==
    \A p \in Procs :
        /\ pc[p] = "idle" => req[p] = NoCall /\ todo[p] = {} /\ dirty[p] = Untouched
        /\ pc[p] \in {"check", "counter", "insert"} =>
             req[p].op \in {"enqueue", "auto"} /\ dirty[p] = Untouched
        /\ pc[p] \in {"work", "commit"} => req[p].op \in {"deliver", "cancel", "prune"}
        /\ todo[p] \subseteq req[p].ids \/ pc[p] = "insert"
        /\ \A i \in Ids : dirty[p][i] # Clean => i \in req[p].ids

(* The lock of the counter has one holder. *)
OneCounter == \A p, q \in Procs : pc[p] = "insert" /\ pc[q] = "insert" => p = q

SqlInv == SqlTypeOK /\ Bookkeeping /\ OneCounter /\ NoLostUpdate /\ GeneratedIdsAreFree

(* What the statements make of a row is again a row. *)
LEMMA RowTypes ==
    /\ NoCommand \in Command
    /\ \A k \in Nat : Fresh(k) \in Command
    /\ \A c \in Command : AsSent(c) \in Command
    /\ \A c \in Command, r \in Results, k \in Nat : AsAnswered(c, r, k) \in Command
    /\ \A c \in Command, k \in Nat : AsCancelled(c, k) \in Command
  <1> USE DEF Command, Live, Terminal, Results
  <1>1. NoCommand \in Command
    BY DEF NoCommand
  <1>2. ASSUME NEW k \in Nat PROVE Fresh(k) \in Command
    BY Zenon DEF Fresh, NoCommand
  <1>3. ASSUME NEW c \in Command PROVE AsSent(c) \in Command
    <2>1. c.attempts + 1 \in Nat
      OBVIOUS
    <2> QED BY <2>1, Zenon DEF AsSent
  <1>4. ASSUME NEW c \in Command, NEW r \in Results, NEW k \in Nat
        PROVE  AsAnswered(c, r, k) \in Command
    BY Zenon DEF AsAnswered
  <1>5. ASSUME NEW c \in Command, NEW k \in Nat PROVE AsCancelled(c, k) \in Command
    BY Zenon DEF AsCancelled
  <1> QED BY <1>1, <1>2, <1>3, <1>4, <1>5

(* The fields of a row that the arguments below look at. *)
LEMMA RowFields ==
    /\ NoCommand.state = "absent"
    /\ \A k \in Nat : Fresh(k).state = "pending"
    /\ \A c \in Command : AsSent(c).state = "sent"
    /\ \A c \in Command, r \in Results, k \in Nat :
         AsAnswered(c, r, k).state \in Terminal /\ AsAnswered(c, r, k).completedAt = k
    /\ \A c \in Command, k \in Nat :
         AsCancelled(c, k).state = "cancelled" /\ AsCancelled(c, k).completedAt = k
  BY DEF NoCommand, Fresh, AsSent, AsAnswered, AsCancelled, Command, Terminal, Results

(* Before the first call nothing is stored, asked for or held. *)
LEMMA SqlInitInv == SqlInit => SqlInv
  <1> SUFFICES ASSUME SqlInit PROVE SqlInv
    OBVIOUS
  <1> USE DEF SqlInit
  <1>1. NoCall \in Call /\ Untouched \in [Ids -> Command \cup {Clean}]
    BY DEF NoCall, Call, AnyOrder, Untouched
  <1>2. SqlTypeOK
    BY <1>1, RowTypes, SqlAssumption DEF SqlTypeOK
  <1>3. Bookkeeping
    BY DEF Bookkeeping, NoCall, Untouched
  <1>4. NoLostUpdate
    BY DEF NoLostUpdate, Untouched
  <1> QED BY <1>2, <1>3, <1>4 DEF SqlInv, OneCounter, GeneratedIdsAreFree

(* A call that returns leaves well-typed variables behind. *)
LEMMA ReturnType ==
    ASSUME SqlTypeOK, NEW p \in Procs, Return(p), rows' \in [Ids -> Command], nextSeq' \in Nat
    PROVE  SqlTypeOK'
  <1>1. NoCall \in Call /\ Untouched \in [Ids -> Command \cup {Clean}]
    BY DEF NoCall, Call, AnyOrder, Untouched
  <1>2. 0 \in 0..(MaxAttempts - 1)
    BY SqlAssumption
  <1> QED BY <1>1, <1>2 DEF SqlTypeOK, Return

(* A call that begins does, too. *)
LEMMA BeginType ==
    ASSUME SqlTypeOK, NEW p \in Procs, NEW m \in Methods, NEW I \in SUBSET Ids,
           NEW order \in [Ids -> Nat], NEW first \in {"check", "counter", "work"},
           Begin(p, m, I, order, first)
    PROVE  SqlTypeOK'
  <1> USE DEF SqlTypeOK
  <1>1. [op |-> m, at |-> now, ids |-> I, rank |-> order] \in Call
    BY SqlAssumption DEF Call
  <1>2. calls' \in [Methods -> Nat]
    BY DEF Begin, Called
  <1> QED BY <1>1, <1>2 DEF Begin

(* The ways a call may begin. *)
Begins(p) ==
    \E m \in Methods, I \in SUBSET Ids, order \in [Ids -> Nat], first \in {"check", "counter", "work"} :
        /\ Begin(p, m, I, order, first)
        /\ first = "check" => m = "enqueue"
        /\ first = "counter" => m = "auto"
        /\ first = "work" => m \in {"deliver", "cancel", "prune"}
        /\ m = "deliver" => I = DeliverableSet(rows)
        /\ m = "prune" => p \in Pruners /\ \E before \in 1..now : I \subseteq Prunable(rows, before)

(* The steps of a call that returns nothing yet. *)
Proceeds(p) ==
    \/ CheckId(p) /\ pc'[p] = "counter"
    \/ LockCounter(p)
    \/ \E i \in Ids : Update(p, i)
    \/ \E i \in Ids : Skip(p, i) /\ req[p].op # "deliver"
    \/ Abort(p) /\ attempt[p] + 1 # MaxAttempts

(* Every step begins a call, carries one on, ends one, stores a result or ticks. *)
LEMMA StepKinds ==
    ASSUME SqlTypeOK, [SqlNext]_sqlvars
    PROVE  \/ \E p \in Procs : Begins(p) \/ Proceeds(p) \/ RollBack(p) \/ Insert(p) \/ Commit(p)
           \/ \E i \in Ids, r \in Results : StoreResult(i, r)
           \/ Tick
           \/ UNCHANGED sqlvars
  <1> USE DEF SqlTypeOK
  <1>1. ASSUME NEW p \in Procs, NEW i \in Chosen, Enqueue(p, i) PROVE Begins(p)
    <2>1. {i} \in SUBSET Ids /\ AnyOrder \in [Ids -> Nat]
      BY SqlAssumption DEF AnyOrder
    <2> QED BY <1>1, <2>1 DEF Enqueue, Begins, Methods
  <1>2. ASSUME NEW p \in Procs, EnqueueAuto(p) PROVE Begins(p)
    <2>1. {} \in SUBSET Ids /\ AnyOrder \in [Ids -> Nat]
      BY DEF AnyOrder
    <2> QED BY <1>2, <2>1 DEF EnqueueAuto, Begins, Methods
  <1>3. ASSUME NEW p \in Procs, Deliver(p) PROVE Begins(p)
    <2>1. DeliverableSet(rows) \in SUBSET Ids /\ [i \in Ids |-> rows[i].seq] \in [Ids -> Nat]
      BY DEF DeliverableSet, Command
    <2> QED BY <1>3, <2>1, Zenon DEF Deliver, Begins, Methods
  <1>4. ASSUME NEW p \in Procs, NEW I \in SUBSET (Chosen \cup Stored(rows)), Cancel(p, I)
        PROVE  Begins(p)
    <2>1. I \in SUBSET Ids /\ AnyOrder \in [Ids -> Nat]
      BY SqlAssumption DEF AnyOrder, Stored
    <2> QED BY <1>4, <2>1 DEF Cancel, Begins, Methods
  <1>5. ASSUME NEW p \in Pruners, NEW before \in 1..now, NEW limit \in 0..1, Prune(p, before, limit)
        PROVE  Begins(p)
    <2>1. [i \in Ids |-> rows[i].completedAt] \in [Ids -> Nat]
      BY DEF Command
    <2>2. PICK K \in SUBSET Prunable(rows, before) :
            Begin(p, "prune", K, [i \in Ids |-> rows[i].completedAt], "work")
      BY <1>5, Zenon DEF Prune
    <2>3. K \in SUBSET Ids
      BY DEF Prunable
    <2> QED BY <2>1, <2>2, <2>3, Zenon DEF Begins, Methods
  <1>6. ASSUME NEW p \in Procs, Step(p)
        PROVE  Proceeds(p) \/ RollBack(p) \/ Insert(p) \/ Commit(p)
    <2>1. CASE CheckId(p)
      BY <2>1 DEF CheckId, Proceeds
    <2>2. ASSUME NEW i \in todo[p], Skip(p, i) PROVE Proceeds(p) \/ RollBack(p)
      BY <2>2 DEF Skip, Proceeds
    <2>3. CASE Abort(p)
      BY <2>3 DEF Abort, Proceeds
    <2>4. ASSUME NEW i \in todo[p], Update(p, i) PROVE Proceeds(p)
      BY <2>4 DEF Proceeds
    <2> QED BY <1>6, <2>1, <2>2, <2>3, <2>4 DEF Step, Proceeds
  <1>7. ASSUME NEW p \in Procs, Crash(p) PROVE RollBack(p)
    BY <1>7 DEF Crash
  <1>8. Pruners \subseteq Procs
    BY SqlAssumption
  <1> QED BY <1>1, <1>2, <1>3, <1>4, <1>5, <1>6, <1>7, <1>8 DEF SqlNext

(* Every step preserves the types. *)
LEMMA SqlTypeStep == SqlTypeOK /\ [SqlNext]_sqlvars => SqlTypeOK'
  <1> SUFFICES ASSUME SqlTypeOK, [SqlNext]_sqlvars PROVE SqlTypeOK'
    OBVIOUS
  <1>1. ASSUME NEW p \in Procs, Begins(p) PROVE SqlTypeOK'
    BY <1>1, BeginType DEF Begins
  <1>2. ASSUME NEW p \in Procs, RollBack(p) PROVE SqlTypeOK'
    BY <1>2, ReturnType DEF RollBack, SqlTypeOK
  <1>3. ASSUME NEW p \in Procs, Insert(p) PROVE SqlTypeOK'
    <2>1. nextSeq \in Nat /\ rows \in [Ids -> Command] /\ todo[p] \subseteq Ids
      BY DEF SqlTypeOK
    <2>2. \A i \in Ids : Enqueued(rows, i, nextSeq + 1) \in [Ids -> Command]
      BY <2>1, RowTypes DEF Enqueued
    <2>3. rows' \in [Ids -> Command] /\ nextSeq' \in Nat
      BY <1>3, <2>1, <2>2 DEF Insert
    <2> QED BY <1>3, <2>3, ReturnType DEF Insert
  <1>4. ASSUME NEW p \in Procs, Commit(p) PROVE SqlTypeOK'
    <2>1. rows' \in [Ids -> Command] /\ nextSeq' \in Nat
      BY <1>4 DEF Commit, SqlTypeOK
    <2> QED BY <1>4, <2>1, ReturnType DEF Commit
  <1>5. ASSUME NEW p \in Procs, Proceeds(p) PROVE SqlTypeOK'
    <2> USE DEF SqlTypeOK
    <2>1. CASE CheckId(p) /\ pc'[p] = "counter"
      BY <2>1 DEF CheckId, RollBack, Return
    <2>2. CASE LockCounter(p)
      <3>1. todo' \in [Procs -> SUBSET Ids]
        <4>1. ASSUME NEW k \in DOMAIN AutoNames[nextSeq + 1], nextSeq + 1 \in DOMAIN AutoNames
              PROVE  AutoNames[nextSeq + 1][k] \in Ids
          BY <4>1, SqlAssumption
        <4> QED BY <2>2, <4>1 DEF LockCounter
      <3> QED BY <2>2, <3>1, Zenon DEF LockCounter
    <2>3. ASSUME NEW i \in Ids, Update(p, i) PROVE SqlTypeOK'
      <3>1. req[p] \in Call /\ req[p].at \in Nat
        BY DEF Call
      <3>2. Written(p, i) \in Command
        BY <3>1, RowTypes DEF Written
      <3>3. dirty' \in [Procs -> [Ids -> Command \cup {Clean}]]
        BY <2>3, <3>2 DEF Update
      <3> QED BY <2>3, <3>3 DEF Update
    <2>4. ASSUME NEW i \in Ids, Skip(p, i), req[p].op # "deliver" PROVE SqlTypeOK'
      <3>1. n[p] \in Nat /\ n[p] + 1 \in Nat
        OBVIOUS
      <3>2. n' \in [Procs -> Nat] /\ todo' \in [Procs -> SUBSET Ids]
        BY <2>4, <3>1 DEF Skip
      <3> QED BY <2>4, <3>2 DEF Skip
    <2>5. CASE Abort(p) /\ attempt[p] + 1 # MaxAttempts
      <3>1. attempt[p] + 1 \in 0..(MaxAttempts - 1)
        BY <2>5, SqlAssumption
      <3>2. req[p].ids \in SUBSET Ids /\ Untouched \in [Ids -> Command \cup {Clean}]
        BY DEF Call, Untouched
      <3> QED BY <2>5, <3>1, <3>2, ZenonT(60) DEF Abort
    <2> QED BY <1>5, <2>1, <2>2, <2>3, <2>4, <2>5 DEF Proceeds
  <1>6. ASSUME NEW i \in Ids, NEW r \in Results, StoreResult(i, r) PROVE SqlTypeOK'
    <2>1. ResultStored(rows, i, r, now) \in [Ids -> Command]
      <3>1. now \in Nat /\ rows \in [Ids -> Command]
        BY SqlAssumption DEF SqlTypeOK
      <3> QED BY <3>1, RowTypes DEF ResultStored
    <2>2. calls' \in [Methods -> Nat]
      BY <1>6 DEF StoreResult, Called, SqlTypeOK, Methods
    <2> QED BY <1>6, <2>1, <2>2 DEF StoreResult, SqlTypeOK
  <1>7. CASE Tick
    BY <1>7, SqlAssumption DEF Tick, SqlTypeOK
  <1>8. CASE UNCHANGED sqlvars
    BY <1>8 DEF sqlvars, SqlTypeOK
  <1> QED BY <1>1, <1>2, <1>3, <1>4, <1>5, <1>6, <1>7, <1>8, StepKinds

(* What each kind of step does to the bookkeeping of the calls. *)
LEMMA BookkeepingStep == SqlTypeOK /\ Bookkeeping /\ [SqlNext]_sqlvars => Bookkeeping'
  <1> SUFFICES ASSUME SqlTypeOK, Bookkeeping, [SqlNext]_sqlvars PROVE Bookkeeping'
    OBVIOUS
  <1> USE DEF SqlTypeOK
  <1>1. ASSUME NEW p \in Procs, Begins(p) PROVE Bookkeeping'
    <2>1. PICK m \in Methods, I \in SUBSET Ids, order \in [Ids -> Nat],
               first \in {"check", "counter", "work"} :
            /\ Begin(p, m, I, order, first)
            /\ first = "check" => m = "enqueue"
            /\ first = "counter" => m = "auto"
            /\ first = "work" => m \in {"deliver", "cancel", "prune"}
      BY <1>1 DEF Begins
    <2>2. /\ pc' = [pc EXCEPT ![p] = first] /\ todo' = [todo EXCEPT ![p] = I]
          /\ req' = [req EXCEPT ![p] = [op |-> m, at |-> now, ids |-> I, rank |-> order]]
          /\ dirty' = dirty /\ dirty[p] = Untouched
      BY <2>1 DEF Begin, Bookkeeping
    <2> QED BY <2>1, <2>2 DEF Bookkeeping, Untouched
  <1>2. ASSUME NEW p \in Procs, Return(p) PROVE Bookkeeping'
    <2>1. \A i \in Ids : Untouched[i] = Clean
      BY DEF Untouched
    <2> QED BY <1>2, <2>1 DEF Return, Bookkeeping
  <1>3. ASSUME NEW p \in Procs, Proceeds(p) PROVE Bookkeeping'
    <2>1. CASE CheckId(p) /\ pc'[p] = "counter"
      BY <2>1 DEF CheckId, RollBack, Return, Bookkeeping
    <2>2. CASE LockCounter(p)
      BY <2>2 DEF LockCounter, Bookkeeping
    <2>3. ASSUME NEW i \in Ids, Update(p, i) PROVE Bookkeeping'
      <3>1. i \in req[p].ids /\ pc[p] = "work"
        BY <2>3, Zenon DEF Update, Heads, Bookkeeping
      <3>2. \A j \in Ids : dirty'[p][j] # Clean => j \in req[p].ids
        BY <2>3, <3>1 DEF Update, Bookkeeping
      <3>3. /\ pc' \in [Procs -> {"idle", "check", "counter", "insert", "work", "commit"}]
            /\ pc'[p] \in {"work", "commit"} /\ todo'[p] \subseteq todo[p] /\ req' = req
            /\ \A q \in Procs \ {p} : pc'[q] = pc[q] /\ todo'[q] = todo[q] /\ dirty'[q] = dirty[q]
        BY <2>3 DEF Update
      <3> QED BY <3>1, <3>2, <3>3 DEF Bookkeeping
    <2>4. ASSUME NEW i \in Ids, Skip(p, i), req[p].op # "deliver" PROVE Bookkeeping'
      <3>1. /\ pc[p] = "work" /\ pc'[p] \in {"work", "commit"}
            /\ todo'[p] \subseteq todo[p] /\ req' = req /\ dirty' = dirty
            /\ \A q \in Procs \ {p} : pc'[q] = pc[q] /\ todo'[q] = todo[q]
        BY <2>4 DEF Skip
      <3> QED BY <3>1 DEF Bookkeeping
    <2>5. CASE Abort(p) /\ attempt[p] + 1 # MaxAttempts
      <3>1. /\ pc[p] \in {"counter", "insert", "work"}
            /\ pc'[p] = CASE req[p].op = "enqueue" -> "check"
                         [] req[p].op = "auto" -> "counter"
                         [] OTHER -> "work"
            /\ todo'[p] = req[p].ids /\ req' = req /\ dirty'[p] = Untouched
            /\ \A q \in Procs \ {p} : pc'[q] = pc[q] /\ todo'[q] = todo[q] /\ dirty'[q] = dirty[q]
        BY <2>5 DEF Abort, Waits
      <3>2. req[p].op \in {"enqueue", "auto", "deliver", "cancel", "prune"}
        BY <3>1 DEF Bookkeeping
      <3>3. \A i \in Ids : Untouched[i] = Clean
        BY DEF Untouched
      <3> QED BY <3>1, <3>2, <3>3 DEF Bookkeeping
    <2> QED BY <1>3, <2>1, <2>2, <2>3, <2>4, <2>5 DEF Proceeds
  <1>4. ASSUME NEW i \in Ids, NEW r \in Results, StoreResult(i, r) PROVE Bookkeeping'
    BY <1>4 DEF StoreResult, Bookkeeping
  <1>5. CASE Tick
    BY <1>5 DEF Tick, Bookkeeping
  <1>6. CASE UNCHANGED sqlvars
    BY <1>6 DEF sqlvars, Bookkeeping
  <1>7. \A p \in Procs : RollBack(p) \/ Insert(p) \/ Commit(p) => Return(p)
    BY DEF RollBack, Insert, Commit
  <1> QED BY <1>1, <1>2, <1>3, <1>4, <1>5, <1>6, <1>7, StepKinds

(* Only LockCounter takes the lock of the counter, and only when it is free. *)
LEMMA OneCounterStep ==
    SqlTypeOK /\ OneCounter /\ [SqlNext]_sqlvars => OneCounter'
  <1> SUFFICES ASSUME SqlTypeOK, OneCounter, [SqlNext]_sqlvars PROVE OneCounter'
    OBVIOUS
  <1> USE DEF SqlTypeOK, OneCounter
  <1>1. ASSUME NEW p \in Procs, LockCounter(p) PROVE OneCounter'
    <2>1. \A q \in Procs \ {p} : pc[q] # "insert"
      BY <1>1 DEF LockCounter, CounterHeld
    <2>2. \A q \in Procs \ {p} : pc'[q] = pc[q]
      BY <1>1 DEF LockCounter
    <2> QED BY <2>1, <2>2
  <1>2. ASSUME NEW p \in Procs, Return(p) PROVE OneCounter'
    BY <1>2 DEF Return
  <1>3. ASSUME NEW p \in Procs, Begins(p) PROVE OneCounter'
    BY <1>3 DEF Begins, Begin
  <1>4. ASSUME NEW p \in Procs, Proceeds(p) PROVE OneCounter'
    <2>1. CASE CheckId(p) /\ pc'[p] = "counter"
      BY <2>1 DEF CheckId, RollBack, Return
    <2>2. ASSUME NEW i \in Ids, Update(p, i) PROVE OneCounter'
      BY <2>2 DEF Update
    <2>3. ASSUME NEW i \in Ids, Skip(p, i), req[p].op # "deliver" PROVE OneCounter'
      BY <2>3 DEF Skip
    <2>4. CASE Abort(p) /\ attempt[p] + 1 # MaxAttempts
      <3>1. pc'[p] # "insert" /\ \A q \in Procs \ {p} : pc'[q] = pc[q]
        BY <2>4 DEF Abort
      <3> QED BY <3>1
    <2> QED BY <1>1, <1>4, <2>1, <2>2, <2>3, <2>4 DEF Proceeds
  <1>5. ASSUME NEW i \in Ids, NEW r \in Results, StoreResult(i, r) PROVE OneCounter'
    BY <1>5 DEF StoreResult
  <1>6. CASE Tick \/ UNCHANGED sqlvars
    BY <1>6 DEF Tick, sqlvars
  <1>7. \A p \in Procs : RollBack(p) \/ Insert(p) \/ Commit(p) => Return(p)
    BY DEF RollBack, Insert, Commit
  <1> QED BY <1>2, <1>3, <1>4, <1>5, <1>6, <1>7, StepKinds

(* A call that wrote row i in an earlier step keeps what it wrote as long as the
   row and its own arguments are left alone. *)
LEMMA StillFresh ==
    ASSUME SqlTypeOK, NEW q \in Procs, NEW i \in Ids,
           Matches(q, i), dirty[q][i] = Written(q, i),
           rows'[i] = rows[i], req'[q] = req[q], dirty'[q][i] = dirty[q][i]
    PROVE  Matches(q, i)' /\ dirty'[q][i] = Written(q, i)'
  BY DEF Matches, Written

(* A row that is being written changes hands only through its lock. *)
LEMMA NoLostUpdateStep ==
    SqlTypeOK /\ Bookkeeping /\ NoLostUpdate /\ [SqlNext]_sqlvars => NoLostUpdate'
  <1> SUFFICES ASSUME SqlTypeOK, Bookkeeping, NoLostUpdate, [SqlNext]_sqlvars,
                      NEW q \in Procs, NEW i \in Ids, dirty'[q][i] # Clean
               PROVE  /\ Matches(q, i)'
                      /\ dirty'[q][i] = Written(q, i)'
                      /\ \A o \in Procs \ {q} : dirty'[o][i] = Clean
    BY DEF NoLostUpdate
  <1> DEFINE Goal == /\ Matches(q, i)'
                     /\ dirty'[q][i] = Written(q, i)'
                     /\ \A o \in Procs \ {q} : dirty'[o][i] = Clean
  <1>1. ASSUME dirty[q][i] # Clean, rows'[i] = rows[i], req'[q] = req[q],
               dirty'[q][i] = dirty[q][i],
               \A o \in Procs \ {q} : dirty'[o][i] \in {dirty[o][i], Clean}
        PROVE  Goal
    <2>1. Matches(q, i) /\ dirty[q][i] = Written(q, i) /\ \A o \in Procs \ {q} : dirty[o][i] = Clean
      BY <1>1 DEF NoLostUpdate
    <2>2. Matches(q, i)' /\ dirty'[q][i] = Written(q, i)'
      BY <1>1, <2>1, StillFresh
    <2> QED BY <1>1, <2>1, <2>2
  <1> HIDE DEF Goal
  <1>2. ASSUME NEW p \in Procs, Return(p), q # p => rows'[i] = rows[i] PROVE Goal
    <2>1. dirty'[p][i] = Clean
      BY <1>2 DEF Return, Untouched, SqlTypeOK
    <2>2. q # p /\ \A o \in Procs \ {p} : dirty'[o] = dirty[o] /\ req'[o] = req[o]
      BY <1>2, <2>1 DEF Return, SqlTypeOK
    <2> QED BY <1>1, <1>2, <2>1, <2>2
  <1>3. ASSUME NEW p \in Procs, Begins(p) PROVE Goal
    <2>1. dirty' = dirty /\ rows' = rows /\ \A o \in Procs \ {p} : req'[o] = req[o]
      BY <1>3 DEF Begins, Begin, SqlTypeOK
    <2>2. dirty[p] = Untouched
      BY <1>3 DEF Begins, Begin, Bookkeeping
    <2>3. q # p
      BY <2>1, <2>2 DEF Untouched
    <2> QED BY <1>1, <2>1, <2>3
  <1>4. ASSUME NEW p \in Procs, NEW j \in Ids, Update(p, j) PROVE Goal
    <2>1. /\ rows' = rows /\ req' = req
          /\ \A k \in Ids : dirty'[p][k] = IF k = j THEN Written(p, j) ELSE dirty[p][k]
          /\ \A o \in Procs \ {p} : dirty'[o] = dirty[o]
      BY <1>4 DEF Update, SqlTypeOK
    <2>2. Matches(p, j) /\ \A o \in Procs \ {p} : dirty[o][j] = Clean
      BY <1>4 DEF Update, RowHeld
    <2>3. CASE q = p /\ i = j
      <3>1. Matches(q, i)' /\ Written(q, i)' = Written(q, i)
        BY <2>1, <2>2, <2>3 DEF Matches, Written
      <3> QED BY <2>1, <2>2, <2>3, <3>1 DEF Goal
    <2>4. CASE i = j /\ q # p
      BY <2>1, <2>2, <2>4
    <2>5. CASE i # j
      BY <1>1, <2>1, <2>5
    <2> QED BY <2>3, <2>4, <2>5
  <1>5. ASSUME NEW p \in Procs, NEW j \in Ids, Skip(p, j), req[p].op # "deliver" PROVE Goal
    BY <1>1, <1>5 DEF Skip
  <1>6. ASSUME NEW p \in Procs, Abort(p), attempt[p] + 1 # MaxAttempts PROVE Goal
    <2>1. dirty'[p][i] = Clean
      BY <1>6 DEF Abort, Untouched, SqlTypeOK
    <2>2. q # p /\ rows' = rows /\ req' = req /\ \A o \in Procs \ {p} : dirty'[o] = dirty[o]
      BY <1>6, <2>1 DEF Abort, SqlTypeOK
    <2> QED BY <1>1, <2>1, <2>2
  <1>7. ASSUME NEW p \in Procs, (CheckId(p) /\ pc'[p] = "counter") \/ LockCounter(p) PROVE Goal
    <2>1. rows' = rows /\ req' = req /\ dirty' = dirty
      BY <1>7 DEF CheckId, LockCounter, RollBack, Return, SqlTypeOK
    <2> QED BY <1>1, <2>1
  <1>8. ASSUME NEW p \in Procs, Insert(p) PROVE Goal
    <2>1. ASSUME q # p PROVE rows'[i] = rows[i]
      <3>1. dirty[q][i] # Clean
        BY <1>8, <2>1 DEF Insert, Return, SqlTypeOK
      <3>2. PICK j \in todo[p] : ~RowHeld(p, j) /\ rows' \in {rows, Enqueued(rows, j, nextSeq + 1)}
        BY <1>8 DEF Insert
      <3>3. i # j
        BY <2>1, <3>1, <3>2 DEF RowHeld
      <3> QED BY <3>2, <3>3 DEF Enqueued, SqlTypeOK
    <2> QED BY <1>2, <1>8, <2>1 DEF Insert
  <1>9. ASSUME NEW p \in Procs, Commit(p) PROVE Goal
    <2>1. ASSUME q # p PROVE rows'[i] = rows[i]
      <3>1. dirty[q][i] # Clean
        BY <1>9, <2>1 DEF Commit, Return, SqlTypeOK
      <3>2. dirty[p][i] = Clean
        BY <2>1, <3>1 DEF NoLostUpdate
      <3> QED BY <1>9, <3>2 DEF Commit
    <2> QED BY <1>2, <1>9, <2>1 DEF Commit
  <1>10. ASSUME NEW j \in Ids, NEW r \in Results, StoreResult(j, r) PROVE Goal
    <2>1. dirty' = dirty /\ req' = req /\ rows' = ResultStored(rows, j, r, now) /\ dirty[q][j] = Clean
      BY <1>10 DEF StoreResult
    <2>2. i # j
      BY <2>1
    <2>3. rows'[i] = rows[i]
      BY <2>1, <2>2 DEF ResultStored, SqlTypeOK
    <2> QED BY <1>1, <2>1, <2>3
  <1>11. ASSUME Tick \/ UNCHANGED sqlvars PROVE Goal
    <2>1. rows' = rows /\ req' = req /\ dirty' = dirty
      BY <1>11, Zenon DEF Tick, sqlvars
    <2> QED BY <1>1, <2>1
  <1>12. ASSUME NEW p \in Procs, RollBack(p) PROVE Goal
    BY <1>2, <1>12 DEF RollBack
  <1>13. ASSUME NEW p \in Procs, Proceeds(p) PROVE Goal
    BY <1>4, <1>5, <1>6, <1>7, <1>13, Zenon DEF Proceeds
  <1>14. Goal
    BY <1>3, <1>8, <1>9, <1>10, <1>11, <1>12, <1>13, StepKinds, Zenon
  <1> QED BY <1>14 DEF Goal

(* Only an insert adds a row: the other statements find theirs. *)
LEMMA OnlyInsertStores ==
    ASSUME SqlTypeOK, NoLostUpdate, [SqlNext]_sqlvars, \A p \in Procs : ~Insert(p)
    PROVE  Stored(rows') \subseteq Stored(rows)
  <1> USE DEF SqlTypeOK, Stored
  <1>1. ASSUME NEW p \in Procs, Commit(p) PROVE Stored(rows') \subseteq Stored(rows)
    <2> SUFFICES ASSUME NEW i \in Ids, rows[i].state = "absent" PROVE rows'[i] = rows[i]
      OBVIOUS
    <2>1. dirty[p][i] = Clean
      BY DEF NoLostUpdate, Matches, Live
    <2> QED BY <1>1, <2>1 DEF Commit
  <1>2. ASSUME NEW i \in Ids, NEW r \in Results, StoreResult(i, r)
        PROVE  Stored(rows') \subseteq Stored(rows)
    BY <1>2 DEF StoreResult, ResultStored
  <1>3. ASSUME NEW p \in Procs, Begins(p) \/ Proceeds(p) \/ RollBack(p) PROVE rows' = rows
    <2>1. CASE Begins(p)
      BY <2>1 DEF Begins, Begin
    <2>2. CASE RollBack(p)
      BY <2>2 DEF RollBack
    <2>3. CASE Proceeds(p)
      BY <2>2, <2>3 DEF Proceeds, CheckId, LockCounter, Update, Skip, Abort
    <2> QED BY <1>3, <2>1, <2>2, <2>3
  <1>4. CASE Tick \/ UNCHANGED sqlvars
    BY <1>4, Zenon DEF Tick, sqlvars
  <1> QED BY <1>1, <1>2, <1>3, <1>4, StepKinds, Zenon

(* The lock of the counter keeps a generated ID free until it is inserted. *)
LEMMA GeneratedIdsStep ==
    SqlTypeOK /\ OneCounter /\ NoLostUpdate /\ GeneratedIdsAreFree /\ [SqlNext]_sqlvars
    => GeneratedIdsAreFree'
  <1> SUFFICES ASSUME SqlTypeOK, OneCounter, NoLostUpdate, GeneratedIdsAreFree, [SqlNext]_sqlvars,
                      NEW q \in Procs, pc'[q] = "insert", req'[q].op = "auto"
               PROVE  todo'[q] \cap Stored(rows') = {}
    BY DEF GeneratedIdsAreFree, Stored
  <1> USE DEF SqlTypeOK
  <1>1. CASE LockCounter(q)
    <2>1. req[q].op = "auto" /\ req[q].op # "enqueue" /\ rows' = rows
      BY <1>1 DEF LockCounter
    <2>2. PICK i : i \notin Stored(rows) /\ todo' = [todo EXCEPT ![q] = {i}]
      BY <1>1, <2>1, SMTT(30) DEF LockCounter
    <2> QED BY <2>1, <2>2
  <1>2. ASSUME pc[q] = "insert", todo'[q] = todo[q], req'[q] = req[q], \A p \in Procs : ~Insert(p)
        PROVE  todo'[q] \cap Stored(rows') = {}
    BY <1>2, OnlyInsertStores DEF GeneratedIdsAreFree
  <1>3. ASSUME NEW p \in Procs, Insert(p) PROVE FALSE
    <2>1. p # q
      BY <1>3 DEF Insert, Return
    <2>2. pc[q] = "insert" /\ pc[p] = "insert"
      BY <1>3, <2>1 DEF Insert, Return
    <2> QED BY <2>1, <2>2 DEF OneCounter
  <1>4. ASSUME ~LockCounter(q) PROVE pc[q] = "insert" /\ todo'[q] = todo[q] /\ req'[q] = req[q]
    <2>1. ASSUME NEW p \in Procs, Return(p)
          PROVE  pc[q] = "insert" /\ todo'[q] = todo[q] /\ req'[q] = req[q]
      <3>1. p # q
        BY <2>1 DEF Return
      <3> QED BY <2>1, <3>1 DEF Return
    <2>2. ASSUME NEW p \in Procs, Begins(p)
          PROVE  pc[q] = "insert" /\ todo'[q] = todo[q] /\ req'[q] = req[q]
      <3>1. p # q
        BY <2>2 DEF Begins, Begin
      <3> QED BY <2>2, <3>1 DEF Begins, Begin
    <2>3. ASSUME NEW p \in Procs, Proceeds(p)
          PROVE  pc[q] = "insert" /\ todo'[q] = todo[q] /\ req'[q] = req[q]
      <3>1. p # q
        <4>1. pc'[q] # "insert" \/ p # q
          BY <1>4, <2>3 DEF Proceeds, CheckId, Update, Skip, Abort, RollBack, Return
        <4> QED BY <4>1
      <3> QED BY <2>3, <3>1 DEF Proceeds, CheckId, LockCounter, Update, Skip, Abort, RollBack, Return
    <2>4. ASSUME NEW i \in Ids, NEW r \in Results, StoreResult(i, r)
          PROVE  pc[q] = "insert" /\ todo'[q] = todo[q] /\ req'[q] = req[q]
      BY <2>4 DEF StoreResult
    <2>5. CASE Tick \/ UNCHANGED sqlvars
      BY <2>5, Zenon DEF Tick, sqlvars
    <2>6. \A p \in Procs : RollBack(p) \/ Insert(p) \/ Commit(p) => Return(p)
      BY DEF RollBack, Insert, Commit
    <2> QED BY <2>1, <2>2, <2>3, <2>4, <2>5, <2>6, StepKinds, Zenon
  <1> QED BY <1>1, <1>2, <1>3, <1>4

LEMMA SqlInductive == SqlInv /\ [SqlNext]_sqlvars => SqlInv'
  BY SqlTypeStep, BookkeepingStep, OneCounterStep, NoLostUpdateStep, GeneratedIdsStep DEF SqlInv

LEMMA SqlInvariant == SqlSpec => []SqlInv
  BY SqlInitInv, SqlInductive, PTL DEF SqlSpec

(* The rows and the calls under way stay well typed. *)
THEOREM SqlTypeCorrect == SqlSpec => []SqlTypeOK
  <1>1. SqlInv => SqlTypeOK
    BY DEF SqlInv
  <1> QED BY <1>1, SqlInvariant, PTL

(* However transactions overlap, wait, abort, retry and are lost, the row locks
   alone make sure that a commit overwrites no other call's update. *)
THEOREM NoLostUpdateHolds == SqlSpec => []NoLostUpdate
  <1>1. SqlInv => NoLostUpdate
    BY DEF SqlInv
  <1> QED BY <1>1, SqlInvariant, PTL

(* A generated ID never meets a row of its name when it is inserted. *)
THEOREM GeneratedIdsHold == SqlSpec => []GeneratedIdsAreFree
  <1>1. SqlInv => GeneratedIdsAreFree
    BY DEF SqlInv
  <1> QED BY <1>1, SqlInvariant, PTL

-----------------------------------------------------------------------------
(* Prune selects its rows before the transaction that deletes them.  That is
   sound when no call outlasts the unit in which Prune's cutoff is given and one
   Prune runs at a time: what a delivery under way names is live or was
   completed just now, and so is not among the old commands a Prune selected. *)
OrderlyPrune == ShortCalls = TRUE /\ \A p, q \in Pruners : p = q

Selected ==
    \A p \in Procs :
        /\ pc[p] # "idle" => req[p].at = now
        /\ req[p].op = "deliver" =>
             \A i \in req[p].ids :
                rows[i].state \in Live \/ (rows[i].state \in Terminal /\ rows[i].completedAt = now)
        /\ req[p].op = "prune" =>
             p \in Pruners /\ \A i \in req[p].ids : rows[i].state \in Terminal
        /\ \A q \in Procs :
             req[p].op = "prune" /\ req[q].op = "deliver" => req[p].ids \cap req[q].ids = {}

(* What one step may make of the row of i. *)
RowMoves(i) ==
    \/ rows'[i] = rows[i]
    \/ rows[i].state = "absent" /\ rows'[i] = Fresh(nextSeq + 1)
    \/ rows[i].state # "absent" /\ \E r \in Results : rows'[i] = AsAnswered(rows[i], r, now)
    \/ \E p \in Procs :
         /\ i \in req[p].ids
         /\ req'[p] = NoCall
         /\ \/ req[p].op = "deliver" /\ rows'[i] = AsSent(rows[i])
            \/ req[p].op = "cancel" /\ rows[i].state \in Live /\ rows'[i] = AsCancelled(rows[i], now)
            \/ req[p].op = "prune" /\ rows'[i] = NoCommand

LEMMA RowsMove ==
    ASSUME SqlInv, Selected, [SqlNext]_sqlvars, NEW i \in Ids
    PROVE  RowMoves(i)
  <1> USE DEF SqlInv, SqlTypeOK
  <1>1. ASSUME NEW p \in Procs, Insert(p) PROVE RowMoves(i)
    BY <1>1 DEF Insert, Enqueued, Stored, RowMoves
  <1>2. ASSUME NEW p \in Procs, Commit(p) PROVE RowMoves(i)
    <2>1. CASE dirty[p][i] = Clean
      BY <1>2, <2>1 DEF Commit, RowMoves
    <2>2. CASE dirty[p][i] # Clean
      <3>1. rows'[i] = Written(p, i) /\ Matches(p, i)
        BY <1>2, <2>2 DEF Commit, NoLostUpdate
      <3>2. i \in req[p].ids /\ req[p].op \in {"deliver", "cancel", "prune"} /\ req[p].at = now
        BY <1>2, <2>2 DEF Commit, Bookkeeping, Selected
      <3>3. req'[p] = NoCall
        BY <1>2 DEF Commit, Return
      <3>4. \/ req[p].op = "deliver" /\ rows'[i] = AsSent(rows[i])
            \/ req[p].op = "cancel" /\ rows[i].state \in Live /\ rows'[i] = AsCancelled(rows[i], now)
            \/ req[p].op = "prune" /\ rows'[i] = NoCommand
        BY <3>1, <3>2 DEF Written, Matches
      <3> QED BY <3>2, <3>3, <3>4 DEF RowMoves
    <2> QED BY <2>1, <2>2
  <1>3. ASSUME NEW j \in Ids, NEW r \in Results, StoreResult(j, r) PROVE RowMoves(i)
    BY <1>3 DEF StoreResult, ResultStored, Stored, RowMoves
  <1>4. ASSUME NEW p \in Procs, Begins(p) \/ Proceeds(p) \/ RollBack(p) PROVE RowMoves(i)
    <2>1. CASE Begins(p)
      BY <2>1 DEF Begins, Begin, RowMoves
    <2>2. CASE RollBack(p)
      BY <2>2 DEF RollBack, RowMoves
    <2>3. CASE Proceeds(p)
      <3>1. rows' = rows
        BY <2>3 DEF Proceeds, CheckId, LockCounter, Update, Skip, Abort, RollBack
      <3> QED BY <3>1 DEF RowMoves
    <2> QED BY <1>4, <2>1, <2>2, <2>3
  <1>5. ASSUME Tick \/ UNCHANGED sqlvars PROVE RowMoves(i)
    <2>1. rows' = rows
      BY <1>5, Zenon DEF Tick, sqlvars
    <2> QED BY <2>1 DEF RowMoves
  <1> QED BY <1>1, <1>2, <1>3, <1>4, <1>5, StepKinds, Zenon

(* How a step changes what a call was asked to do. *)
LEMMA CallsMove ==
    ASSUME SqlInv, [SqlNext]_sqlvars, NEW p \in Procs
    PROVE  \/ req'[p] = req[p] /\ (pc'[p] # "idle" => pc[p] # "idle")
           \/ req'[p] = NoCall /\ pc'[p] = "idle"
           \/ /\ Begins(p) /\ rows' = rows /\ req'[p].at = now
              /\ \A q \in Procs \ {p} : req'[q] = req[q]
  <1> DEFINE Goal == \/ req'[p] = req[p] /\ (pc'[p] # "idle" => pc[p] # "idle")
                     \/ req'[p] = NoCall /\ pc'[p] = "idle"
                     \/ /\ Begins(p) /\ rows' = rows /\ req'[p].at = now
                        /\ \A q \in Procs \ {p} : req'[q] = req[q]
  <1> USE DEF SqlInv, SqlTypeOK
  <1>1. ASSUME NEW q \in Procs, Begins(q) PROVE Goal
    <2>1. CASE q = p
      <3>1. rows' = rows /\ req'[p].at = now /\ \A o \in Procs \ {p} : req'[o] = req[o]
        BY <1>1, <2>1 DEF Begins, Begin
      <3> QED BY <1>1, <2>1, <3>1
    <2>2. CASE q # p
      BY <1>1, <2>2 DEF Begins, Begin
    <2> QED BY <2>1, <2>2
  <1>2. ASSUME NEW q \in Procs, Return(q) PROVE Goal
    BY <1>2 DEF Return
  <1>3. ASSUME NEW q \in Procs, Proceeds(q) PROVE Goal
    <2>1. CASE CheckId(q) /\ pc'[q] = "counter"
      BY <2>1 DEF CheckId, RollBack, Return
    <2>2. CASE LockCounter(q)
      BY <2>2 DEF LockCounter
    <2>3. ASSUME NEW i \in Ids, Update(q, i) PROVE Goal
      BY <2>3 DEF Update
    <2>4. ASSUME NEW i \in Ids, Skip(q, i), req[q].op # "deliver" PROVE Goal
      BY <2>4 DEF Skip
    <2>5. CASE Abort(q) /\ attempt[q] + 1 # MaxAttempts
      <3>1. req' = req /\ pc[q] # "idle" /\ \A o \in Procs \ {q} : pc'[o] = pc[o]
        BY <2>5 DEF Abort, Waits
      <3> QED BY <3>1
    <2> QED BY <1>3, <2>1, <2>2, <2>3, <2>4, <2>5 DEF Proceeds
  <1>4. ASSUME NEW i \in Ids, NEW r \in Results, StoreResult(i, r) PROVE Goal
    BY <1>4 DEF StoreResult
  <1>5. ASSUME Tick \/ UNCHANGED sqlvars PROVE Goal
    <2>1. req' = req /\ pc' = pc
      BY <1>5, Zenon DEF Tick, sqlvars
    <2> QED BY <2>1
  <1>6. \A q \in Procs : RollBack(q) \/ Insert(q) \/ Commit(q) => Return(q)
    BY DEF RollBack, Insert, Commit
  <1> HIDE DEF Goal
  <1>7. Goal
    BY <1>1, <1>2, <1>3, <1>4, <1>5, <1>6, StepKinds, Zenon
  <1> QED BY <1>7 DEF Goal

LEMMA SelectedStep ==
    ASSUME OrderlyPrune, SqlInv, Selected, [SqlNext]_sqlvars
    PROVE  Selected'
  <1> USE DEF SqlInv, SqlTypeOK
  <1>1. CASE Tick
    <2>1. rows' = rows /\ req' = req /\ pc' = pc /\ \A p \in Procs : pc[p] = "idle"
      BY <1>1 DEF Tick, OrderlyPrune
    <2>2. \A p \in Procs : req[p].op = "none"
      BY <2>1 DEF Bookkeeping, NoCall
    <2> QED BY <2>1, <2>2 DEF Selected
  <1>2. CASE ~Tick
    <2>1. now' = now
      <3>1. \A p \in Procs : Begins(p) => now' = now
        BY DEF Begins, Begin
      <3>2. \A p \in Procs : Proceeds(p) => now' = now
        BY DEF Proceeds, CheckId, LockCounter, Update, Skip, Abort, RollBack, Return
      <3>3. \A p \in Procs : RollBack(p) \/ Insert(p) \/ Commit(p) => now' = now
        BY DEF RollBack, Insert, Commit, Return
      <3>4. \A i \in Ids, r \in Results : StoreResult(i, r) => now' = now
        BY DEF StoreResult
      <3>5. UNCHANGED sqlvars => now' = now
        BY DEF sqlvars
      <3> QED BY <1>2, <3>1, <3>2, <3>3, <3>4, <3>5, StepKinds, Zenon
    <2>2. ASSUME NEW p \in Procs PROVE pc'[p] # "idle" => req'[p].at = now'
      BY <2>1, CallsMove DEF Selected
    <2>3. ASSUME NEW p \in Procs, req'[p].op = "deliver", NEW i \in req'[p].ids
          PROVE  rows'[i].state \in Live \/ (rows'[i].state \in Terminal /\ rows'[i].completedAt = now')
      <3>1. i \in Ids /\ rows[i] \in Command
        BY SqlTypeStep DEF Call
      <3>2. CASE Begins(p) /\ rows' = rows
        <4>1. i \in DeliverableSet(rows)
          BY <2>3, <3>2 DEF Begins, Begin
        <4> QED BY <3>2, <4>1 DEF DeliverableSet
      <3>3. CASE req'[p] = req[p]
        <4>1. rows[i].state \in Live \/ (rows[i].state \in Terminal /\ rows[i].completedAt = now)
          BY <2>3, <3>3 DEF Selected
        <4>2. \A q \in Procs : req[q].op = "prune" => i \notin req[q].ids
          BY <2>3, <3>3 DEF Selected
        <4>3. RowMoves(i)
          BY <3>1, RowsMove
        <4>4. \/ rows'[i] = rows[i]
              \/ \E r \in Results : rows'[i] = AsAnswered(rows[i], r, now)
              \/ rows'[i] = AsSent(rows[i])
              \/ rows'[i] = AsCancelled(rows[i], now)
          BY <4>1, <4>2, <4>3 DEF RowMoves, Live, Terminal
        <4> QED BY <2>1, <3>1, <4>1, <4>4, Zenon DEF AsAnswered, AsSent, AsCancelled, Live, Terminal, Command
      <3>4. req'[p] # NoCall
        BY <2>3 DEF NoCall
      <3> QED BY <3>2, <3>3, <3>4, CallsMove
    <2>4. ASSUME NEW p \in Procs, req'[p].op = "prune"
          PROVE  p \in Pruners /\ \A i \in req'[p].ids : rows'[i].state \in Terminal
      <3>1. CASE Begins(p) /\ rows' = rows
        <4>1. p \in Pruners /\ \E before \in 1..now : req'[p].ids \subseteq Prunable(rows, before)
          BY <2>4, <3>1 DEF Begins, Begin
        <4> QED BY <3>1, <4>1 DEF Prunable
      <3>2. CASE req'[p] = req[p]
        <4>1. p \in Pruners /\ \A i \in req[p].ids : rows[i].state \in Terminal
          BY <2>4, <3>2 DEF Selected
        <4>2. ASSUME NEW i \in req[p].ids PROVE rows'[i].state \in Terminal
          <5>1. i \in Ids /\ rows[i] \in Command
            BY DEF Call
          <5>2. \A q \in Procs : i \in req[q].ids => req[q].op # "deliver"
            BY <2>4, <3>2, <4>2 DEF Selected
          <5>3. \A q \in Procs : req[q].op = "prune" => q = p
            BY <4>1 DEF Selected, OrderlyPrune
          <5>4. req'[p] # NoCall
            BY <2>4 DEF NoCall
          <5>5. RowMoves(i)
            BY <5>1, RowsMove
          <5>6. \/ rows'[i] = rows[i]
                \/ \E r \in Results : rows'[i] = AsAnswered(rows[i], r, now)
            BY <4>1, <4>2, <5>2, <5>3, <5>4, <5>5 DEF RowMoves, Live, Terminal
          <5> QED BY <4>1, <4>2, <5>1, <5>6, Zenon DEF AsAnswered, Terminal, Command
        <4> QED BY <3>2, <4>1, <4>2
      <3>3. req'[p] # NoCall
        BY <2>4 DEF NoCall
      <3> QED BY <3>1, <3>2, <3>3, CallsMove
    <2>5. ASSUME NEW p \in Procs, NEW q \in Procs, req'[p].op = "prune", req'[q].op = "deliver"
          PROVE  req'[p].ids \cap req'[q].ids = {}
      <3>1. p # q /\ req'[p] # NoCall /\ req'[q] # NoCall
        BY <2>5 DEF NoCall
      <3>2. CASE req'[p] = req[p] /\ req'[q] = req[q]
        BY <2>5, <3>2 DEF Selected
      <3>3. CASE Begins(p) /\ rows' = rows /\ req'[q] = req[q]
        <4>1. PICK before \in 1..now : req'[p].ids \subseteq Prunable(rows, before)
          BY <2>5, <3>3 DEF Begins, Begin
        <4>2. \A i \in req[q].ids :
                rows[i].state \in Live \/ (rows[i].state \in Terminal /\ rows[i].completedAt = now)
          BY <2>5, <3>3 DEF Selected
        <4>3. \A i \in req'[p].ids : rows[i].state \in Terminal /\ rows[i].completedAt < before
          BY <4>1 DEF Prunable
        <4>4. \A i \in req'[p].ids : rows[i].completedAt # now
          BY <4>3
        <4> QED BY <3>3, <4>2, <4>3, <4>4, SMTT(30) DEF Live, Terminal
      <3>4. CASE Begins(q) /\ rows' = rows /\ req'[p] = req[p]
        <4>1. req'[q].ids = DeliverableSet(rows)
          BY <2>5, <3>4 DEF Begins, Begin
        <4>2. \A i \in req[p].ids : rows[i].state \in Terminal
          BY <2>5, <3>4 DEF Selected
        <4> QED BY <3>4, <4>1, <4>2 DEF DeliverableSet, Live, Terminal
      <3> QED BY <3>1, <3>2, <3>3, <3>4, CallsMove
    <2> QED BY <2>2, <2>3, <2>4, <2>5 DEF Selected
  <1> QED BY <1>1, <1>2

LEMMA SelectedInvariant == ASSUME OrderlyPrune PROVE SqlSpec => []Selected
  <1>1. SqlInit => Selected
    BY DEF SqlInit, Selected, NoCall
  <1>2. SqlInv /\ Selected /\ [SqlNext]_sqlvars => Selected'
    BY SelectedStep
  <1> QED BY <1>1, <1>2, SqlInvariant, PTL DEF SqlSpec

(* With short calls and one Prune at a time, Prune never deletes a command that
   came back to life after it was selected. *)
THEOREM PruneTakesTerminalHolds == ASSUME OrderlyPrune PROVE SqlSpec => []PruneTakesTerminal
  <1>1. SqlInv /\ Selected => PruneTakesTerminal
    BY DEF SqlInv, Bookkeeping, Selected, PruneTakesTerminal
  <1> QED BY <1>1, SqlInvariant, SelectedInvariant, PTL

LEMMA SameOperators ==
    /\ Contract!NoCommand = NoCommand
    /\ \A q, i, k : Contract!Enqueued(q, i, k) = Enqueued(q, i, k)
    /\ \A q, D : Contract!MarkedSent(q, D) = MarkedSent(q, D)
    /\ \A q, i, r, at : Contract!ResultStored(q, i, r, at) = ResultStored(q, i, r, at)
    /\ \A q, I, at : Contract!Cancelled(q, I, at) = Cancelled(q, I, at)
    /\ \A q, I : Contract!Pruned(q, I) = Pruned(q, I)
    /\ \A q : Contract!Stored(q) = Stored(q)
    /\ \A q : Contract!DeliverableSet(q) = DeliverableSet(q)
    /\ Contract!Terminal = Terminal
    /\ Contract!Results = Results
  BY DEF Contract!NoCommand, NoCommand, Contract!Enqueued, Enqueued, Contract!Fresh, Fresh,
         Contract!MarkedSent, MarkedSent, Contract!AsSent, AsSent,
         Contract!ResultStored, ResultStored, Contract!AsAnswered, AsAnswered,
         Contract!Cancelled, Cancelled, Contract!AsCancelled, AsCancelled, Contract!Live, Live,
         Contract!Pruned, Pruned, Contract!Stored, Stored,
         Contract!DeliverableSet, DeliverableSet, Contract!Terminal, Terminal,
         Contract!Results, Results

(* A commit, an insert or a stored result is one call of the contract, named by
   the rows it changed; every other step changes no row. *)
LEMMA SqlContractStep ==
    ASSUME SqlInv, Selected, [SqlNext]_sqlvars
    PROVE  [Contract!ContractNext]_(Contract!cvars)
  <1> DEFINE D == "device"
             T == {i \in Ids : rows'[i] # rows[i]}
  <1> SUFFICES Contract!ContractNext \/ UNCHANGED <<rows, nextSeq>>
    BY DEF Contract!cvars
  <1> USE DEF SqlInv, SqlTypeOK
  <1>1. Contract!Touched(D) = T
    BY DEF Contract!Touched
  <1>2. rows' \in [Ids -> Command]
    BY SqlTypeStep
  <1>3. ASSUME NEW p \in Procs, Insert(p) PROVE Contract!ContractNext \/ UNCHANGED <<rows, nextSeq>>
    <2>1. PICK i \in todo[p] : IF i \in Stored(rows)
                              THEN UNCHANGED <<rows, nextSeq>>
                              ELSE nextSeq' = nextSeq + 1 /\ rows' = Enqueued(rows, i, nextSeq + 1)
      BY <1>3 DEF Insert
    <2>2. CASE i \in Stored(rows)
      BY <2>1, <2>2
    <2>3. CASE i \notin Stored(rows)
      <3>1. i \in Ids /\ rows[i].state = "absent" /\ rows'[i].state = "pending"
        BY <2>1, <2>3, ZenonT(60) DEF Stored, Enqueued, Fresh, NoCommand
      <3>2. Contract!Enqueues(D, i)
        BY <2>1, <2>3, <3>1, SameOperators, Zenon DEF Contract!Enqueues
      <3>3. i \in Contract!Touched(D)
        BY <1>1, <3>1
      <3> QED BY <3>2, <3>3 DEF Contract!ContractNext
    <2> QED BY <2>2, <2>3
  <1>4. ASSUME NEW i \in Ids, NEW r \in Results, StoreResult(i, r)
        PROVE  Contract!ContractNext \/ UNCHANGED <<rows, nextSeq>>
    <2>1. i \in Stored(rows) /\ rows' = ResultStored(rows, i, r, now) /\ UNCHANGED nextSeq
      BY <1>4 DEF StoreResult
    <2>2. CASE i \in T
      <3>1. Contract!StoresResult(D, i, r, now)
        BY <2>1, SameOperators DEF Contract!StoresResult, Contract!Changes
      <3> QED BY <1>1, <2>2, <3>1, SameOperators DEF Contract!ContractNext
    <2>3. CASE i \notin T
      <3>1. rows' = rows
        BY <2>1, <2>3 DEF ResultStored
      <3> QED BY <2>1, <3>1
    <2> QED BY <2>2, <2>3
  <1>5. ASSUME NEW p \in Procs, Commit(p) PROVE Contract!ContractNext \/ UNCHANGED <<rows, nextSeq>>
    <2>1. /\ rows' = [i \in Ids |-> IF dirty[p][i] # Clean THEN dirty[p][i] ELSE rows[i]]
          /\ UNCHANGED nextSeq
          /\ req[p].at = now
          /\ req[p].op \in {"deliver", "cancel", "prune"}
      BY <1>5 DEF Commit, Bookkeeping, Selected
    <2>2. \A i \in T : Matches(p, i) /\ rows'[i] = Written(p, i)
      BY <2>1 DEF NoLostUpdate
    <2>3. CASE T = {}
      BY <1>2, <2>1, <2>3, Zenon
    <2>4. CASE T # {} /\ req[p].op = "deliver"
      <3>1. \A i \in T : rows'[i] = AsSent(rows[i]) /\ rows[i].state # "absent"
        BY <2>2, <2>4 DEF Matches, Written
      <3>2. rows' = MarkedSent(rows, T)
        BY <1>2, <3>1 DEF MarkedSent
      <3>3. Contract!MarksSent(D, T)
        BY <2>1, <2>4, <3>1, <3>2, SameOperators, Zenon DEF Contract!MarksSent, Contract!Changes, Stored
      <3> QED BY <1>1, <3>3, Zenon DEF Contract!ContractNext
    <2>5. CASE req[p].op = "cancel"
      <3>1. \A i \in T : rows'[i] = AsCancelled(rows[i], now) /\ rows[i].state \in Live
        BY <2>1, <2>2, <2>5 DEF Matches, Written
      <3>2. rows' = Cancelled(rows, T, now) /\ T \subseteq DeliverableSet(rows)
        BY <1>2, <3>1 DEF Cancelled, DeliverableSet
      <3>3. Contract!Cancels(D, T, now)
        BY <2>1, <3>2, SameOperators DEF Contract!Cancels, Contract!Changes
      <3> QED BY <1>1, <3>3, Zenon DEF Contract!ContractNext
    <2>6. CASE req[p].op = "prune"
      <3> DEFINE P == [d \in {"device"} |-> Contract!Touched(d)]
      <3>1. \A i \in T : rows'[i] = NoCommand /\ rows[i].state \in Terminal
        <4>1. \A i \in T : rows'[i] = NoCommand
          BY <2>2, <2>6 DEF Written
        <4>2. \A i \in T : i \in req[p].ids
          BY <2>1 DEF Bookkeeping
        <4> QED BY <2>6, <4>1, <4>2 DEF Selected
      <3>2. rows' = Pruned(rows, T)
        BY <1>2, <3>1 DEF Pruned
      <3>3. P[D] = T
        BY <1>1
      <3> HIDE DEF P
      <3>4. Contract!Prunes(P)
        <4>1. \A d \in {"device"} : P[d] = T /\ [e \in {"device"} |-> rows][d] = rows
          BY <3>3
        <4>2. [d \in {"device"} |-> rows'] =
                [d \in {"device"} |-> Contract!Pruned([e \in {"device"} |-> rows][d], P[d])]
          BY <3>2, <4>1, SameOperators, Zenon
        <4>3. \A d \in {"device"} : \A i \in P[d] :
                [e \in {"device"} |-> rows][d][i].state \in Contract!Terminal
          BY <3>1, <4>1, SameOperators
        <4> QED BY <2>1, <4>2, <4>3 DEF Contract!Prunes
      <3> QED BY <3>4 DEF Contract!ContractNext, P
    <2> QED BY <2>1, <2>3, <2>4, <2>5, <2>6
  <1>6. ASSUME NEW p \in Procs, Begins(p) \/ Proceeds(p) \/ RollBack(p)
        PROVE  UNCHANGED <<rows, nextSeq>>
    <2>1. CASE Begins(p)
      BY <2>1 DEF Begins, Begin
    <2>2. CASE RollBack(p)
      BY <2>2 DEF RollBack
    <2>3. CASE Proceeds(p)
      BY <2>3 DEF Proceeds, CheckId, LockCounter, Update, Skip, Abort, RollBack
    <2> QED BY <1>6, <2>1, <2>2, <2>3
  <1>7. Tick \/ UNCHANGED sqlvars => UNCHANGED <<rows, nextSeq>>
    BY Zenon DEF Tick, sqlvars
  <1> QED BY <1>3, <1>4, <1>5, <1>6, <1>7, StepKinds, Zenon

(* server/sqlstore implements mdm.CommandQueue, whatever the number of callers,
   IDs and retries, when calls are short and one Prune runs at a time. *)
THEOREM SqlMeetsContract == ASSUME OrderlyPrune PROVE SqlSpec => SqlImplementsContract
  <1>1. SqlInit => Contract!ContractInit
    BY SameOperators DEF SqlInit, Contract!ContractInit
  <1>2. SqlInv /\ Selected /\ [SqlNext]_sqlvars => [Contract!ContractNext]_(Contract!cvars)
    BY SqlContractStep
  <1> QED BY <1>1, <1>2, SqlInvariant, SelectedInvariant, PTL
      DEF SqlSpec, SqlImplementsContract, Contract!ContractSpec
=============================================================================
