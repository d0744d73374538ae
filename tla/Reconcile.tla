------------------------------ MODULE Reconcile ------------------------------
(***************************************************************************)
(* Bringing a device to its desired settings (mdmprotocol/mdm/reconcile.go)*)
(* through the command queue.  AcknowledgedValues reads the queue page by  *)
(* page, Diff compares, and the caller enqueues a Replace for every        *)
(* setting that differs, while sessions deliver and file results and       *)
(* operators enqueue, cancel and prune commands of their own.  A session   *)
(* is reduced to what the settings depend on: the batch of a reply, the    *)
(* device's answers and the results filed (SessionEngine has the rest).    *)
(* A command is its Seq.  Of its row only the state and the items of the   *)
(* result matter here; CommandQueue has the rest.                          *)
(***************************************************************************)
EXTENDS Integers, FiniteSets, Sequences

CONSTANTS
    Uris, Values,
    None,        \* no value
    Desired,     \* URI -> desired value, or None
    Changes,     \* commands of operators, as the leaves mdm.Leaves gives
    PageSize,    \* paging.MaxPageSize
    MaxSeq,      \* bound on the commands
    MaxChanges,  \* bound on the commands of operators
    MaxTrouble   \* bound on cancellations, prunes and faults together

Cmds == 1..MaxSeq
Known == Values \cup {None}
Leaf == [verb: {"replace", "delete", "get"}, uri: Uris, value: Known]
Trouble == {"cancelled", "pruned", "lost", "failed", "refused"}

ASSUME ReconcileAssumption ==
    /\ None \notin Values
    /\ Desired \in [Uris -> Known]
    /\ Changes \subseteq Seq(Leaf)
    /\ \A body \in Changes :
          /\ Len(body) \in 1..2
          /\ \A k \in DOMAIN body : body[k].verb = "replace" <=> body[k].value # None
    /\ PageSize \in Nat \ {0}
    /\ MaxSeq \in Nat /\ MaxChanges \in Nat /\ MaxTrouble \in Nat

VARIABLES
    state, last,    \* the queue: Seq -> State, and the last Seq assigned
    leaves,         \* Seq -> leaves of the command's body
    items,          \* Seq -> URI -> value in the items of the stored result
    tree,           \* the device: URI -> value
    phase,          \* whose turn it is in the session
    batch,          \* commands of the reply the device has or answered
    status, got,    \* the device's answers: Seq -> Status, and what a Get read
    rpc, offset, map, todo,  \* the caller of AcknowledgedValues and Diff
    mapSeq, atStart, left,   \* Seq behind map, that at the start, and whether an
                             \* acknowledged command or its value is gone since
    changes,        \* commands of operators so far
    troubles, met   \* troubles so far, and their kinds

queuevars == <<state, last, leaves, items>>
sessionvars == <<tree, phase, batch, status, got>>
callervars == <<rpc, offset, map, todo, mapSeq, atStart>>
reconvars == <<queuevars, sessionvars, callervars, left, changes, troubles, met>>

Nothing == [u \in Uris |-> None]
Live == {i \in Cmds : state[i] \in {"pending", "sent"}}
Terminal == {i \in Cmds : state[i] \in {"acknowledged", "failed", "cancelled"}}
Acked(st) == {i \in Cmds : st[i] = "acknowledged"}

ReconcileInit ==
    /\ state = [i \in Cmds |-> "absent"] /\ last = 0
    /\ leaves = [i \in Cmds |-> <<>>]
    /\ items = [i \in Cmds |-> Nothing]
    /\ tree = Nothing
    /\ phase = "idle" /\ batch = {}
    /\ status = [i \in Cmds |-> "none"]
    /\ got = [i \in Cmds |-> Nothing]
    /\ rpc = "idle" /\ offset = 0 /\ map = Nothing /\ todo = {}
    /\ mapSeq = [u \in Uris |-> 0] /\ atStart = [u \in Uris |-> 0] /\ left = FALSE
    /\ changes = 0 /\ troubles = 0 /\ met = {}

Meet(kind) ==
    /\ troubles < MaxTrouble
    /\ troubles' = troubles + 1
    /\ met' = met \cup {kind}
NoTrouble == UNCHANGED <<troubles, met>>

(* What collectValues takes from a set of commands, in Seq order. *)
Tells(S, u) ==
    {i \in S : items[i][u] # None \/ \E k \in DOMAIN leaves[i] :
                   leaves[i][k].uri = u /\ leaves[i][k].verb = "replace"}
Newest(S) == CHOOSE i \in S : \A j \in S : j <= i
Told(i, u) ==
    LET K == {k \in DOMAIN leaves[i] : leaves[i][k].uri = u /\ leaves[i][k].verb = "replace"}
    IN  IF items[i][u] # None THEN items[i][u] ELSE leaves[i][Newest(K)].value

(* Whether a command leaves the list the caller is reading, or no longer tells
   what it told: a group delivered again may read less the second time. *)
Watch ==
    LET gone == \/ ~(Acked(state) \subseteq Acked(state'))
                \/ \E u \in Uris : ~(Tells(Acked(state), u) \subseteq Tells(Acked(state), u)')
    IN  left' = (left \/ (rpc = "read" /\ gone))

-----------------------------------------------------------------------------
(* A command goes to the end of the queue. *)
Append1(body) ==
    /\ last < MaxSeq
    /\ last' = last + 1
    /\ state' = [state EXCEPT ![last + 1] = "pending"]
    /\ leaves' = [leaves EXCEPT ![last + 1] = body]
    /\ UNCHANGED <<items, sessionvars, left, troubles, met>>

Change(body) ==
    /\ changes < MaxChanges
    /\ changes' = changes + 1
    /\ Append1(body)
    /\ UNCHANGED callervars

Cancel(i) ==
    /\ Meet("cancelled")
    /\ i \in Live
    /\ state' = [state EXCEPT ![i] = "cancelled"]
    /\ UNCHANGED <<last, leaves, items, sessionvars, callervars, left, changes>>

(* Which of the terminal commands go depends on when they were completed. *)
Prune(P) ==
    /\ Meet("pruned")
    /\ P \subseteq Terminal /\ P # {}
    /\ state' = [i \in Cmds |-> IF i \in P THEN "absent" ELSE state[i]]
    /\ UNCHANGED <<last, leaves, items, sessionvars, callervars, changes>>
    /\ Watch

-----------------------------------------------------------------------------
MarkedSent == [i \in Cmds |-> IF i \in Live THEN "sent" ELSE state[i]]

(* The server answers package 1. *)
Deliver ==
    /\ phase = "idle"
    /\ Live # {}
    /\ state' = MarkedSent
    /\ phase' = "reply"
    /\ batch' = Live
    /\ UNCHANGED <<last, leaves, items, tree, status, got, callervars, left, changes, troubles, met>>

(* The device works through the batch in Seq order: what it holds at u before
   the leaf at pos when the commands of S are carried out. *)
Before(p, q) == p[1] < q[1] \/ (p[1] = q[1] /\ p[2] < q[2])
Writes(S, u) ==
    {w \in S \X (1..2) : /\ w[2] \in DOMAIN leaves[w[1]]
                         /\ leaves[w[1]][w[2]].uri = u
                         /\ leaves[w[1]][w[2]].verb # "get"}
Holds(S, u, pos) ==
    LET W == {w \in Writes(S, u) : Before(w, pos)}
        newest == CHOOSE w \in W : \A v \in W : v = w \/ Before(v, w)
    IN  IF W = {} THEN tree[u] ELSE leaves[newest[1]][newest[2]].value
End == <<MaxSeq + 1, 0>>

(* E is the set of commands that fail on the device.  A Get of a node that is not
   there fails too, but not the group it is in. *)
Answer(E) ==
    LET S == batch \ E
        reads == {r \in S \X (1..2) : /\ r[2] \in DOMAIN leaves[r[1]]
                                      /\ leaves[r[1]][r[2]].verb = "get"}
        missing == {r \in reads : Holds(S, leaves[r[1]][r[2]].uri, r) = None}
    IN  /\ phase = "reply"
        /\ E \subseteq batch
        /\ IF E = {} THEN NoTrouble ELSE Meet("failed")
        /\ phase' = "answer"
        /\ tree' = [u \in Uris |-> Holds(S, u, End)]
        /\ status' = [i \in Cmds |-> IF i \notin batch THEN "none"
                                    ELSE IF i \in E \/ (<<i, 1>> \in missing /\ Len(leaves[i]) = 1)
                                    THEN "error" ELSE "ok"]
        /\ got' = [i \in Cmds |-> [u \in Uris |->
                     LET R == {r \in reads : r[1] = i /\ leaves[i][r[2]].uri = u}
                     IN  IF R = {} THEN None ELSE Holds(S, u, CHOOSE r \in R : TRUE)]]
        /\ UNCHANGED <<queuevars, batch, callervars, left, changes>>

SessionOver ==
    /\ phase' = "idle" /\ batch' = {}
    /\ status' = [i \in Cmds |-> "none"]
    /\ got' = [i \in Cmds |-> Nothing]

(* Mutant: the Status is stored as the state. *)
HandleRaw(F) ==
    LET stored == {i \in batch : state[i] # "absent"}
    IN  /\ phase = "answer"
        /\ F \subseteq stored
        /\ state' = [i \in Cmds |-> IF i \notin F THEN MarkedSent[i]
                                    ELSE status[i]]
        /\ items' = [i \in Cmds |-> IF i \in F THEN got[i] ELSE items[i]]
        /\ \/ /\ F = batch
              /\ status' = [i \in Cmds |-> "none"]
              /\ got' = [i \in Cmds |-> Nothing]
              /\ batch' = Live
              /\ phase' = IF Live = {} THEN "idle" ELSE "reply"
              /\ NoTrouble
           \/ /\ F # batch
              /\ IF stored = batch THEN Meet("refused") ELSE NoTrouble
              /\ SessionOver
        /\ UNCHANGED <<last, leaves, tree, callervars, changes>>
        /\ Watch
(* Mutant: a result that is refused is skipped. *)
HandleSkips(F) ==
    LET stored == {i \in batch : state[i] # "absent"}
    IN  /\ phase = "answer"
        /\ F \subseteq stored
        /\ state' = [i \in Cmds |-> IF i \notin F THEN MarkedSent[i]
                                    ELSE IF status[i] = "ok" THEN "acknowledged" ELSE "failed"]
        /\ items' = [i \in Cmds |-> IF i \in F THEN got[i] ELSE items[i]]
        /\ \/ /\ F # {}
              /\ status' = [i \in Cmds |-> "none"]
              /\ got' = [i \in Cmds |-> Nothing]
              /\ batch' = Live
              /\ phase' = IF Live = {} THEN "idle" ELSE "reply"
              /\ NoTrouble
           \/ /\ F # batch
              /\ IF stored = batch THEN Meet("refused") ELSE NoTrouble
              /\ SessionOver
        /\ UNCHANGED <<last, leaves, tree, callervars, changes>>
        /\ Watch
(* deliver runs before flushResults, so the reply carries the commands just
   answered once more.  flushResults files the results in the order of a map and
   stops at the first one that is refused: F are those filed by then. *)
Handle(F) ==
    LET stored == {i \in batch : state[i] # "absent"}
    IN  /\ phase = "answer"
        /\ F \subseteq stored
        /\ state' = [i \in Cmds |-> IF i \notin F THEN MarkedSent[i]
                                    ELSE IF status[i] = "ok" THEN "acknowledged" ELSE "failed"]
        /\ items' = [i \in Cmds |-> IF i \in F THEN got[i] ELSE items[i]]
        /\ \/ /\ F = batch
              /\ status' = [i \in Cmds |-> "none"]
              /\ got' = [i \in Cmds |-> Nothing]
              /\ batch' = Live
              /\ phase' = IF Live = {} THEN "idle" ELSE "reply"
              /\ NoTrouble
           \/ /\ F # batch
              /\ IF stored = batch THEN Meet("refused") ELSE NoTrouble
              /\ SessionOver
        /\ UNCHANGED <<last, leaves, tree, callervars, changes>>
        /\ Watch

(* A request or a reply is lost, or the server restarts. *)
Lose ==
    /\ phase # "idle"
    /\ Meet("lost")
    /\ SessionOver
    /\ UNCHANGED <<queuevars, tree, callervars, left, changes>>

-----------------------------------------------------------------------------
(* The caller waits until the commands of its last run are done. *)
StartReconcile ==
    /\ rpc = "idle"
    /\ Live = {}
    /\ rpc' = "read"
    /\ atStart' = [u \in Uris |-> LET T == Tells(Acked(state), u)
                                 IN  IF T = {} THEN 0 ELSE Newest(T)]
    /\ UNCHANGED <<queuevars, sessionvars, offset, map, mapSeq, todo, left, changes, troubles, met>>

(* List: a page of the acknowledged commands from an offset on. *)
Page(from) ==
    LET place(i) == Cardinality({j \in Acked(state) : j < i})
    IN  {i \in Acked(state) : place(i) \in from..(from + PageSize - 1)}

(* Mutant: the next page starts one command too late. *)
ReadPageSkips ==
    /\ rpc = "read"
    /\ LET T(u) == Tells(Page(offset), u)
       IN  /\ map' = [u \in Uris |-> IF T(u) = {} THEN map[u] ELSE Told(Newest(T(u)), u)]
           /\ mapSeq' = [u \in Uris |-> IF T(u) = {} THEN mapSeq[u] ELSE Newest(T(u))]
    /\ offset' = offset + PageSize + 1
    /\ rpc' = IF offset + PageSize + 1 < Cardinality(Acked(state)) THEN "read" ELSE "diff"
    /\ UNCHANGED <<queuevars, sessionvars, todo, atStart, left, changes, troubles, met>>
ReadPage ==
    /\ rpc = "read"
    /\ LET T(u) == Tells(Page(offset), u)
       IN  /\ map' = [u \in Uris |-> IF T(u) = {} THEN map[u] ELSE Told(Newest(T(u)), u)]
           /\ mapSeq' = [u \in Uris |-> IF T(u) = {} THEN mapSeq[u] ELSE Newest(T(u))]
    /\ offset' = offset + PageSize
    /\ rpc' = IF offset + PageSize < Cardinality(Acked(state)) THEN "read" ELSE "diff"
    /\ UNCHANGED <<queuevars, sessionvars, todo, atStart, left, changes, troubles, met>>

(* Mutant: a value that differs is left alone. *)
DiffAbsentOnly ==
    /\ rpc = "diff"
    /\ todo' = {u \in Uris : Desired[u] # None /\ map[u] = None}
    /\ rpc' = IF todo' = {} THEN "idle" ELSE "enqueue"
    /\ offset' = 0 /\ map' = Nothing /\ left' = FALSE
    /\ mapSeq' = [u \in Uris |-> 0] /\ atStart' = [u \in Uris |-> 0]
    /\ UNCHANGED <<queuevars, sessionvars, changes, troubles, met>>
Diff ==
    /\ rpc = "diff"
    /\ todo' = {u \in Uris : Desired[u] # None /\ map[u] # Desired[u]}
    /\ rpc' = IF todo' = {} THEN "idle" ELSE "enqueue"
    /\ offset' = 0 /\ map' = Nothing /\ left' = FALSE
    /\ mapSeq' = [u \in Uris |-> 0] /\ atStart' = [u \in Uris |-> 0]
    /\ UNCHANGED <<queuevars, sessionvars, changes, troubles, met>>

EnqueueDiff(u) ==
    /\ rpc = "enqueue"
    /\ u \in todo
    /\ Append1(<<[verb |-> "replace", uri |-> u, value |-> Desired[u]]>>)
    /\ todo' = todo \ {u}
    /\ rpc' = IF todo = {u} THEN "idle" ELSE "enqueue"
    /\ UNCHANGED <<offset, map, mapSeq, atStart, changes>>

Caller == StartReconcile \/ ReadPage \/ Diff \/ \E u \in Uris : EnqueueDiff(u)

ReconcileNext ==
    \/ \E body \in Changes : Change(body)
    \/ \E i \in Cmds : Cancel(i)
    \/ \E P \in SUBSET Cmds : Prune(P)
    \/ Deliver
    \/ \E E \in SUBSET batch : Answer(E)
    \/ \E F \in SUBSET batch : Handle(F)
    \/ Lose
    \/ Caller

ReconcileSpec == ReconcileInit /\ [][ReconcileNext]_reconvars

(* The device connects again after a session ended, its requests are answered,
   and the caller goes on reconciling. *)
ReconcileFairSpec ==
    /\ ReconcileSpec
    /\ WF_reconvars(Deliver)
    /\ WF_reconvars(\E E \in SUBSET batch : Answer(E))
    /\ WF_reconvars(\E F \in SUBSET batch : Handle(F))
    /\ WF_reconvars(Caller)

-----------------------------------------------------------------------------
(* Type invariant of the queue, the session, the device and the caller. *)
ReconcileTypeOK ==
    /\ state \in [Cmds -> {"absent", "pending", "sent", "acknowledged", "failed", "cancelled"}]
    /\ last \in 0..MaxSeq
    /\ tree \in [Uris -> Known] /\ map \in [Uris -> Known]
    /\ items \in [Cmds -> [Uris -> Known]] /\ got \in [Cmds -> [Uris -> Known]]
    /\ phase \in {"idle", "reply", "answer"} /\ batch \subseteq Cmds
    /\ status \in [Cmds -> {"none", "ok", "error"}]
    /\ rpc \in {"idle", "read", "diff", "enqueue"}
    /\ todo \subseteq Uris /\ met \subseteq Trouble

Does(i, verb, u) == \E k \in DOMAIN leaves[i] : leaves[i][k].verb = verb /\ leaves[i][k].uri = u
Outstanding(u) ==
    \E i \in Live : Does(i, "replace", u) \/ Does(i, "delete", u)
Deleted(u) == \E i \in Cmds : Does(i, "delete", u)
ReadFirst(u) ==
    \E i \in Cmds : \E j, k \in DOMAIN leaves[i] :
        /\ j < k
        /\ leaves[i][j].verb = "get" /\ leaves[i][k].verb = "replace"
        /\ leaves[i][j].uri = u /\ leaves[i][k].uri = u

(* reconcile.go AcknowledgedValues "so the map holds the current value": once no
   write of a URI is outstanding, the value the acknowledged commands tell is the
   one the device holds, although every command is carried out several times,
   messages are lost and operators write the same URI.  It takes a Delete, a group
   that reads the URI before it writes it, a command cancelled or pruned, one that
   fails in only some of its deliveries, or a result the queue refuses, to make
   the map wrong. *)
MapIsCurrent ==
    met \subseteq {"lost"} =>
        \A u \in Uris :
            LET T == Tells(Acked(state), u)
            IN  ~Outstanding(u) /\ ~Deleted(u) /\ ~ReadFirst(u) /\ T # {} => Told(Newest(T), u) = tree[u]

(* AcknowledgedValues reads pages at offsets into a list that grows meanwhile: a
   value it returns is never older than what was acknowledged when it started,
   unless a command left the list or lost what it told. *)
ReadIsNotOlder ==
    rpc = "diff" /\ left = FALSE => \A u \in Uris : mapSeq[u] >= atStart[u]

(* Reconciling again and again brings the device to the desired settings and keeps
   it there: lost messages and what operators write in between only cost another
   run. *)
Converges ==
    <>[](met \subseteq {"lost"} =>
            \A u \in Uris : Desired[u] = None \/ Deleted(u) \/ ReadFirst(u) \/ tree[u] = Desired[u])
=============================================================================
