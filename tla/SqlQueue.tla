------------------------------ MODULE SqlQueue ------------------------------
(***************************************************************************)
(* The command queue as server/sqlstore/queue.go keeps it in a database    *)
(* that several server processes share.  A call is a transaction of        *)
(* several statements: a statement sees what is committed and what its own *)
(* transaction wrote, an UPDATE or DELETE locks its row until the          *)
(* transaction ends, and conn.tx starts a transaction over when the        *)
(* database aborts it to break a deadlock.  The rows are those of one      *)
(* device, the calls of different devices touch different rows.            *)
(***************************************************************************)
EXTENDS QueueTable, Sequences

CONSTANTS
    Procs,        \* calls that may be running at the same time
    Pruners,      \* the ones among them that call Prune, and only that
    ShortCalls,   \* a unit of the clock is longer than any call lasts
    Chosen,       \* IDs that callers choose
    AutoNames,    \* AutoNames[n]: "cmd-n", "cmd-nx", ... in the order tried
    MaxAttempts,  \* conn.tx's maxAttempts
    MaxCalls,     \* MaxCalls[m]: bound on the calls of method m
    MaxTime,      \* bound on the clock
    Clean         \* no value of this row was written by the transaction

Methods == {"enqueue", "auto", "deliver", "cancel", "prune", "result"}

ASSUME SqlAssumption ==
    /\ Pruners \subseteq Procs
    /\ ShortCalls \in BOOLEAN
    /\ MaxAttempts \in Nat \ {0}
    /\ MaxCalls \in [Methods -> Nat]
    /\ MaxTime \in Nat \ {0}
    /\ Chosen \subseteq Ids
    /\ DOMAIN AutoNames \subseteq Nat
    /\ \A k \in DOMAIN AutoNames : AutoNames[k] \in Seq(Ids)
    /\ Clean \notin Command

VARIABLES
    rows,     \* ID -> committed row of commands
    nextSeq,  \* committed row of command_seq
    pc,       \* call -> the statement it runs next
    req,      \* call -> the method, the time, the commands and their order
    todo,     \* call -> the commands it has not worked on yet
    dirty,    \* call -> ID -> row it wrote and did not commit, or Clean
    n,        \* call -> commands counted, what Cancel and Prune return
    attempt,  \* call -> transactions aborted so far
    now,      \* the clock
    calls     \* method -> calls made

sqlvars == <<rows, nextSeq, pc, req, todo, dirty, n, attempt, now, calls>>

AnyOrder == [i \in Ids |-> 0]
Call == [op: Methods \cup {"none"}, at: Nat, ids: SUBSET Ids, rank: [Ids -> Nat]]
NoCall == [op |-> "none", at |-> 0, ids |-> {}, rank |-> AnyOrder]
Untouched == [i \in Ids |-> Clean]

SqlInit ==
    /\ rows = [i \in Ids |-> NoCommand]
    /\ nextSeq = 0
    /\ pc = [p \in Procs |-> "idle"]
    /\ req = [p \in Procs |-> NoCall]
    /\ todo = [p \in Procs |-> {}]
    /\ dirty = [p \in Procs |-> Untouched]
    /\ n = [p \in Procs |-> 0]
    /\ attempt = [p \in Procs |-> 0]
    /\ now = 1
    /\ calls = [m \in Methods |-> 0]

-----------------------------------------------------------------------------
(* The row lock of a command is held by the transaction that wrote it, that of
   the counter by the Enqueue between its upsert and its commit. *)
(* Mutant: the row is not locked. *)
RowHeldNever(p, i) == FALSE
RowHeld(p, i) == {q \in Procs \ {p} : dirty[q][i] # Clean} # {}
(* Mutant: the upsert does not lock the counter. *)
CounterHeldNever(p) == FALSE
CounterHeld(p) == {q \in Procs \ {p} : pc[q] = "insert"} # {}

(* The commands a call may work on next. *)
Heads(p) == {i \in todo[p] : \A j \in todo[p] : req[p].rank[i] <= req[p].rank[j]}

Called(m) ==
    /\ calls[m] < MaxCalls[m]
    /\ calls' = [calls EXCEPT ![m] = @ + 1]

(* A call is made; its first statement is first. *)
Begin(p, m, I, order, first) ==
    /\ pc[p] = "idle"
    /\ Called(m)
    /\ pc' = [pc EXCEPT ![p] = first]
    /\ req' = [req EXCEPT ![p] = [op |-> m, at |-> now, ids |-> I, rank |-> order]]
    /\ todo' = [todo EXCEPT ![p] = I]
    /\ UNCHANGED <<rows, nextSeq, dirty, n, attempt, now>>

(* The transaction is over, committed or rolled back: its locks go and the call
   returns. *)
Return(p) ==
    /\ pc' = [pc EXCEPT ![p] = "idle"]
    /\ req' = [req EXCEPT ![p] = NoCall]
    /\ todo' = [todo EXCEPT ![p] = {}]
    /\ dirty' = [dirty EXCEPT ![p] = Untouched]
    /\ n' = [n EXCEPT ![p] = 0]
    /\ attempt' = [attempt EXCEPT ![p] = 0]
    /\ UNCHANGED <<now, calls>>

RollBack(p) == Return(p) /\ UNCHANGED <<rows, nextSeq>>

-----------------------------------------------------------------------------
(* Enqueue: an ID the caller gave is looked up first. *)
Enqueue(p, i) == Begin(p, "enqueue", {i}, AnyOrder, "check")
EnqueueAuto(p) == Begin(p, "auto", {}, AnyOrder, "counter")

(* An ID that is taken is ErrConflict. *)
CheckId(p) ==
    /\ pc[p] = "check"
    /\ IF todo[p] \subseteq Stored(rows)
       THEN RollBack(p)
       ELSE /\ pc' = [pc EXCEPT ![p] = "counter"]
            /\ UNCHANGED <<rows, nextSeq, req, todo, dirty, n, attempt, now, calls>>

(* The upsert takes the lock of the counter's row, and a call without an ID then
   takes the first generated one that is free. *)
LockCounter(p) ==
    /\ pc[p] = "counter"
    /\ ~CounterHeld(p)
    /\ pc' = [pc EXCEPT ![p] = "insert"]
    /\ \/ /\ req[p].op = "enqueue"
          /\ UNCHANGED todo
       \/ /\ req[p].op = "auto"
          /\ nextSeq + 1 \in DOMAIN AutoNames
          /\ \E k \in DOMAIN AutoNames[nextSeq + 1] :
                LET names == AutoNames[nextSeq + 1]
                IN  /\ names[k] \notin Stored(rows)
                    /\ \A h \in 1..(k - 1) : names[h] \in Stored(rows)
                    /\ todo' = [todo EXCEPT ![p] = {names[k]}]
    /\ UNCHANGED <<rows, nextSeq, req, dirty, n, attempt, now, calls>>

(* The row goes in and the transaction commits.  An ID that another Enqueue
   committed since it was looked up violates the primary key, and the counter
   is rolled back with the rest. *)
(* Mutant: the counter advances outside of the transaction. *)
InsertCountsAnyway(p) ==
    /\ pc[p] = "insert"
    /\ \E i \in todo[p] :
         /\ ~RowHeld(p, i)
         /\ nextSeq' = nextSeq + 1
         /\ rows' = IF i \in Stored(rows) THEN rows ELSE Enqueued(rows, i, nextSeq + 1)
    /\ Return(p)
Insert(p) ==
    /\ pc[p] = "insert"
    /\ \E i \in todo[p] :
         /\ ~RowHeld(p, i)
         /\ IF i \in Stored(rows)
            THEN UNCHANGED <<rows, nextSeq>>
            ELSE /\ nextSeq' = nextSeq + 1
                 /\ rows' = Enqueued(rows, i, nextSeq + 1)
    /\ Return(p)

-----------------------------------------------------------------------------
(* A session reads the deliverable commands and marks them sent in Seq order. *)
Deliver(p) ==
    /\ DeliverableSet(rows) # {}
    /\ Begin(p, "deliver", DeliverableSet(rows), [i \in Ids |-> rows[i].seq], "work")

(* The IDs of a Cancel come in the order the caller gave them. *)
Cancel(p, I) == Begin(p, "cancel", I, AnyOrder, "work")

(* Prune selects the rows outside of the transaction that deletes them, the
   oldest first. *)
Prune(p, before, limit) ==
    /\ \E K \in SUBSET Prunable(rows, before) :
         /\ K # {}
         /\ limit = 0 => K = Prunable(rows, before)
         /\ limit > 0 => Cardinality(K) <= limit
         /\ K # Prunable(rows, before) => Cardinality(K) = limit
         /\ \A i \in K, j \in Prunable(rows, before) \ K :
              rows[i].completedAt <= rows[j].completedAt
         /\ Begin(p, "prune", K, [i \in Ids |-> rows[i].completedAt], "work")

(* Whether the UPDATE or DELETE of a call matches the row of i, and what it
   makes of it. *)
Matches(p, i) ==
    \/ req[p].op \in {"deliver", "prune"} /\ rows[i].state # "absent"
    \/ req[p].op = "cancel" /\ rows[i].state \in Live
Written(p, i) ==
    CASE req[p].op = "deliver" -> AsSent(rows[i])
      [] req[p].op = "cancel" -> AsCancelled(rows[i], req[p].at)
      [] OTHER -> NoCommand

(* One statement of the loop over the IDs.  A row that matches is written under
   its lock.  For one that does not, MarkSent fails with ErrNotFound, Cancel
   goes on, and Prune goes on and counts it all the same. *)
Update(p, i) ==
    /\ pc[p] = "work"
    /\ i \in Heads(p)
    /\ Matches(p, i)
    /\ ~RowHeld(p, i)
    /\ dirty' = [dirty EXCEPT ![p] = [j \in Ids |-> IF j = i THEN Written(p, i) ELSE dirty[p][j]]]
    /\ n' = [n EXCEPT ![p] = @ + 1]
    /\ todo' = [todo EXCEPT ![p] = @ \ {i}]
    /\ pc' = [pc EXCEPT ![p] = IF todo[p] = {i} THEN "commit" ELSE "work"]
    /\ UNCHANGED <<rows, nextSeq, req, attempt, now, calls>>

(* Mutant: a row that does not match is tried again. *)
SkipRetries(p, i) ==
    /\ pc[p] = "work"
    /\ i \in Heads(p)
    /\ ~Matches(p, i)
    /\ UNCHANGED sqlvars
Skip(p, i) ==
    /\ pc[p] = "work"
    /\ i \in Heads(p)
    /\ ~Matches(p, i)
    /\ IF req[p].op = "deliver"
       THEN RollBack(p)
       ELSE /\ n' = [n EXCEPT ![p] = IF req[p].op = "prune" THEN @ + 1 ELSE @]
            /\ todo' = [todo EXCEPT ![p] = @ \ {i}]
            /\ pc' = [pc EXCEPT ![p] = IF todo[p] = {i} THEN "commit" ELSE "work"]
            /\ UNCHANGED <<rows, nextSeq, req, dirty, attempt, now, calls>>

Commit(p) ==
    /\ pc[p] = "commit"
    /\ rows' = [i \in Ids |-> IF dirty[p][i] # Clean THEN dirty[p][i] ELSE rows[i]]
    /\ UNCHANGED nextSeq
    /\ Return(p)

-----------------------------------------------------------------------------
(* The statement waits for a lock. *)
Waits(p) ==
    \/ pc[p] = "counter" /\ CounterHeld(p)
    \/ pc[p] = "insert" /\ {i \in todo[p] : RowHeld(p, i)} # {}
    \/ pc[p] = "work" /\ {i \in Heads(p) : Matches(p, i) /\ RowHeld(p, i)} # {}

(* The database aborts a transaction that waits (a deadlock, or MySQL's lock
   wait timeout).  conn.tx runs the closure again, up to maxAttempts times; the
   closure's n is declared outside of it and keeps its count. *)
Abort(p) ==
    /\ Waits(p)
    /\ IF attempt[p] + 1 = MaxAttempts
       THEN RollBack(p)
       ELSE /\ attempt' = [attempt EXCEPT ![p] = @ + 1]
            /\ pc' = [pc EXCEPT ![p] =
                        CASE req[p].op = "enqueue" -> "check"
                          [] req[p].op = "auto" -> "counter"
                          [] OTHER -> "work"]
            /\ todo' = [todo EXCEPT ![p] = req[p].ids]
            /\ dirty' = [dirty EXCEPT ![p] = Untouched]
            /\ UNCHANGED <<rows, nextSeq, req, n, now, calls>>

(* The connection or the server process is lost: the database rolls back. *)
Crash(p) == pc[p] # "idle" /\ RollBack(p)

(* StoreResult is one UPDATE, whatever the state of the command. *)
StoreResult(i, r) ==
    /\ Called("result")
    /\ i \in Stored(rows)
    /\ {q \in Procs : dirty[q][i] # Clean} = {}
    /\ rows' = ResultStored(rows, i, r, now)
    /\ UNCHANGED <<nextSeq, pc, req, todo, dirty, n, attempt, now>>

Tick ==
    /\ now < MaxTime
    /\ ShortCalls => \A p \in Procs : pc[p] = "idle"
    /\ now' = now + 1
    /\ UNCHANGED <<rows, nextSeq, pc, req, todo, dirty, n, attempt, calls>>

Step(p) ==
    \/ CheckId(p)
    \/ LockCounter(p)
    \/ Insert(p)
    \/ \E i \in todo[p] : Update(p, i)
    \/ \E i \in todo[p] : Skip(p, i)
    \/ Commit(p)
    \/ Abort(p)

SqlNext ==
    \/ \E p \in Procs \ Pruners, i \in Chosen : Enqueue(p, i)
    \/ \E p \in Procs \ Pruners : EnqueueAuto(p)
    \/ \E p \in Procs \ Pruners : Deliver(p)
    \/ \E p \in Procs \ Pruners, I \in SUBSET (Chosen \cup Stored(rows)) \ {{}} : Cancel(p, I)
    \/ \E p \in Pruners, before \in 1..now, limit \in 0..1 : Prune(p, before, limit)
    \/ \E p \in Procs : Step(p)
    \/ \E p \in Procs : Crash(p)
    \/ \E i \in Ids, r \in Results : StoreResult(i, r)
    \/ Tick

SqlSpec == SqlInit /\ [][SqlNext]_sqlvars
SqlFairSpec == SqlSpec /\ \A p \in Procs : WF_sqlvars(Step(p))

-----------------------------------------------------------------------------
(* Type invariant of the rows and of the calls under way. *)
SqlTypeOK ==
    /\ rows \in [Ids -> Command]
    /\ nextSeq \in Nat
    /\ pc \in [Procs -> {"idle", "check", "counter", "insert", "work", "commit"}]
    /\ req \in [Procs -> Call]
    /\ todo \in [Procs -> SUBSET Ids]
    /\ dirty \in [Procs -> [Ids -> Command \cup {Clean}]]
    /\ n \in [Procs -> Nat]
    /\ attempt \in [Procs -> 0..(MaxAttempts - 1)]
    /\ now \in 1..MaxTime
    /\ calls \in [Methods -> Nat]

(* What a transaction wrote and did not commit was computed from the row that is
   still committed, so no increment of attempts, no result and no cancellation
   of another call is lost when it commits. *)
NoLostUpdate ==
    \A p \in Procs, i \in Ids : dirty[p][i] # Clean =>
        /\ Matches(p, i)
        /\ dirty[p][i] = Written(p, i)
        /\ \A q \in Procs \ {p} : dirty[q][i] = Clean

(* sqlstore/queue.go "Ensure the generated id is unique even if a caller mixed
   explicit and generated ids": the ID an Enqueue generated is still free when
   it inserts the row, however long the insert waits. *)
GeneratedIdsAreFree ==
    \A p \in Procs :
        pc[p] = "insert" /\ req[p].op = "auto" => todo[p] \cap Stored(rows) = {}

(* mdm.CommandQueue Prune "deletes terminal commands": the rows a Prune selected
   are gone or still terminal when its DELETE reaches them. *)
PruneTakesTerminal ==
    \A p \in Procs, i \in Ids :
        req[p].op = "prune" /\ dirty[p][i] # Clean => rows[i].state \in Terminal

(* mdm.CommandQueue Cancel and Prune return "how many": what the call is about
   to return when it commits is the number of rows it changed. *)
CountsAreExact ==
    \A p \in Procs :
        pc[p] = "commit" /\ req[p].op \in {"cancel", "prune"}
        => n[p] = Cardinality({i \in Ids : dirty[p][i] # Clean})

(* Transactions of several statements that overlap, wait, are aborted, retried
   and lost still add up to the calls of mdm.CommandQueue, one at a time. *)
Contract == INSTANCE QueueContract
    WITH Devices <- {"device"}, Times <- 1..MaxTime,
         table <- [d \in {"device"} |-> rows], last <- [d \in {"device"} |-> nextSeq]
SqlImplementsContract == Contract!ContractSpec

(* Every call returns: a deadlock is broken and the retries end. *)
EveryCallReturns == \A p \in Procs : pc[p] # "idle" ~> pc[p] = "idle"
=============================================================================
