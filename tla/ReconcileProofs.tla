--------------------------- MODULE ReconcileProofs ---------------------------
(***************************************************************************)
(* Proofs about Reconcile: the types, and that the paged read never goes   *)
(* back in time (ReadIsNotOlder), for any number of commands, settings and *)
(* pages.                                                                  *)
(***************************************************************************)
EXTENDS Reconcile, FiniteSetTheorems, WellFoundedInduction, TLAPS

Body ==
    {b \in Seq(Leaf) : /\ Len(b) \in 0..2
                       /\ \A k \in DOMAIN b : b[k].verb = "replace" <=> b[k].value # None}

States == {"absent", "pending", "sent", "acknowledged", "failed", "cancelled"}

(* Types, and nothing beyond the last Seq. *)
Types ==
    /\ state \in [Cmds -> States]
    /\ last \in 0..MaxSeq
    /\ leaves \in [Cmds -> Body]
    /\ \A i \in Cmds : i > last => state[i] = "absent"
    /\ \A i \in Cmds : i > last => leaves[i] = <<>>
    /\ items \in [Cmds -> [Uris -> Known]]
    /\ tree \in [Uris -> Known]
    /\ phase \in {"idle", "reply", "answer"}
    /\ batch \subseteq Cmds
    /\ \A i \in batch : i <= last
    /\ status \in [Cmds -> {"none", "ok", "error"}]
    /\ got \in [Cmds -> [Uris -> Known]]
    /\ \A i \in Cmds, u \in Uris : i > last => items[i][u] = None /\ got[i][u] = None
    /\ rpc \in {"idle", "read", "diff", "enqueue"}
    /\ offset \in Nat
    /\ map \in [Uris -> Known]
    /\ todo \subseteq Uris
    /\ \A u \in todo : Desired[u] # None
    /\ mapSeq \in [Uris -> Nat] /\ atStart \in [Uris -> Nat]
    /\ left \in BOOLEAN
    /\ met \subseteq Trouble

(* Where the reader stands: what it must still see lies ahead. *)
Place(i) == Cardinality({j \in Acked(state) : j < i})
Ahead ==
    /\ rpc \in {"idle", "enqueue"} => offset = 0 /\ \A u \in Uris : mapSeq[u] = 0
    /\ rpc = "read" /\ ~left => \A u \in Uris :
          /\ mapSeq[u] = 0 \/ mapSeq[u] \in Tells(Acked(state), u)
          /\ \/ mapSeq[u] >= atStart[u]
             \/ \E e \in Tells(Acked(state), u) : e >= atStart[u] /\ Place(e) >= offset
    /\ rpc = "diff" /\ ~left => \A u \in Uris : mapSeq[u] >= atStart[u]

-----------------------------------------------------------------------------
(* A bounded set of numbers has a greatest element. *)
LEMMA MaxExists ==
    ASSUME NEW n \in Nat, NEW S, S \subseteq 0..n, S # {}
    PROVE  \E i \in S : \A j \in S : j <= i
<1> DEFINE T == {n - j : j \in S}
<1>1. T \subseteq Nat /\ T # {}
  <2>1. \A j \in S : j \in 0..n
    OBVIOUS
  <2>2. \A j \in S : n - j \in Nat
    BY <2>1
  <2>3. T \subseteq Nat
    BY <2>2
  <2>4. T # {}
    BY Zenon
  <2> QED
    BY <2>3, <2>4
<1>2. PICK x \in T : \A y \in T : ~(<<y, x>> \in OpToRel(<, Nat))
  <2> HIDE DEF T
  <2> QED BY <1>1, WFMin, NatLessThanWellFounded
<1>3. \A y \in T : x <= y
  <2> SUFFICES ASSUME NEW y \in T, ~(x <= y) PROVE FALSE
    OBVIOUS
  <2>1. x \in Nat /\ y \in Nat
    BY <1>1, <1>2
  <2>2. y < x
    BY <2>1
  <2>3. <<y, x>> \in OpToRel(<, Nat)
    BY <2>1, <2>2 DEF OpToRel
  <2> QED
    BY <2>3, <1>2
<1>4. PICK i \in S : x = n - i
  BY <1>2
<1>5. \A j \in S : n - j \in T
  OBVIOUS
<1>6. \A j \in S : j \in 0..n /\ n - i <= n - j
  BY <1>3, <1>4, <1>5
<1> QED
  BY <1>4, <1>6

(* Newest picks it. *)
LEMMA NewestIsMax ==
    ASSUME NEW n \in Nat, NEW S, S \subseteq 0..n, S # {}
    PROVE  Newest(S) \in S /\ \A j \in S : j <= Newest(S)
BY MaxExists, Zenon DEF Newest

LEMMA NewestIs ==
    ASSUME NEW n \in Nat, NEW S, S \subseteq 0..n, NEW i \in S, \A j \in S : j <= i
    PROVE  Newest(S) = i
<1>1. Newest(S) \in S /\ \A j \in S : j <= Newest(S)
  BY NewestIsMax, Zenon
<1> HIDE DEF Newest
<1>2. Newest(S) \in 0..n /\ i \in 0..n
  BY <1>1, Zenon
<1>3. Newest(S) <= i /\ i <= Newest(S)
  BY <1>1, Zenon
<1> QED
  BY <1>2, <1>3

(* Of the leaves carried out, one is the last. *)
LEMMA LastLeaf ==
    ASSUME NEW W, W \subseteq Cmds \X (1..2), W # {}
    PROVE  \E w \in W : \A v \in W : v = w \/ Before(v, w)
<1> DEFINE code(w) == 2 * w[1] + w[2]
           C == {code(w) : w \in W}
<1>1. MaxSeq \in Nat
  BY ReconcileAssumption
<1>2. \A w \in W : w[1] \in 1..MaxSeq /\ w[2] \in 1..2 /\ w = <<w[1], w[2]>>
  BY DEF Cmds
<1>3. 2 * MaxSeq + 2 \in Nat
  BY <1>1
<1>4. C \subseteq 0..(2 * MaxSeq + 2) /\ C # {}
  BY <1>1, <1>2
<1>5. PICK c \in C : \A d \in C : d <= c
  BY <1>3, <1>4, MaxExists, Zenon
<1>6. PICK w \in W : c = code(w)
  BY <1>5
<1>7. ASSUME NEW v \in W
      PROVE  v = w \/ Before(v, w)
  <2>1. 2 * v[1] + v[2] <= 2 * w[1] + w[2]
    BY <1>5, <1>6
  <2>2. v[1] < w[1] \/ (v[1] = w[1] /\ v[2] < w[2]) \/ (v[1] = w[1] /\ v[2] = w[2])
    BY <2>1, <1>1, <1>2
  <2> QED
    BY <2>2, <1>2 DEF Before
<1> QED
  BY <1>6, <1>7

(* What the device holds comes from the last write before the leaf, if any. *)
LEMMA HoldsLast ==
    ASSUME NEW S, S \subseteq Cmds, NEW u, NEW pos
    PROVE  LET W == {w \in Writes(S, u) : Before(w, pos)}
           IN  \/ W = {} /\ Holds(S, u, pos) = tree[u]
               \/ \E w \in W : /\ \A v \in W : v = w \/ Before(v, w)
                              /\ Holds(S, u, pos) = leaves[w[1]][w[2]].value
<1> DEFINE W == {w \in Writes(S, u) : Before(w, pos)}
           newest == CHOOSE w \in W : \A v \in W : v = w \/ Before(v, w)
<1>1. W \subseteq Cmds \X (1..2)
  BY DEF Writes
<1>2. Holds(S, u, pos) = IF W = {} THEN tree[u] ELSE leaves[newest[1]][newest[2]].value
  BY DEF Holds
<1>3. W # {} => newest \in W /\ \A v \in W : v = newest \/ Before(v, newest)
  <2> HIDE DEF W
  <2> QED BY <1>1, LastLeaf
<1> QED
  BY <1>2, <1>3, Zenon

-----------------------------------------------------------------------------
(* Bodies have at most two leaves. *)
LEMMA Leaves ==
    ASSUME Types, NEW i \in Cmds
    PROVE  /\ DOMAIN leaves[i] \subseteq 1..2
           /\ DOMAIN leaves[i] = 1..Len(leaves[i])
           /\ \A k \in DOMAIN leaves[i] :
                 /\ leaves[i][k] \in Leaf
                 /\ leaves[i][k].verb = "replace" <=> leaves[i][k].value # None
<1>1. leaves[i] \in Body
  BY DEF Types
<1>2. leaves[i] \in Seq(Leaf) /\ Len(leaves[i]) \in 0..2
  BY <1>1 DEF Body
<1>3. DOMAIN leaves[i] = 1..Len(leaves[i])
  BY <1>2
<1>4. \A k \in DOMAIN leaves[i] : leaves[i][k] \in Leaf
  BY <1>2
<1>5. \A k \in DOMAIN leaves[i] : leaves[i][k].verb = "replace" <=> leaves[i][k].value # None
  BY <1>1 DEF Body
<1> QED
  BY <1>2, <1>3, <1>4, <1>5

LEMMA HoldsKnown ==
    ASSUME Types, NEW S, S \subseteq Cmds, NEW u \in Uris, NEW pos
    PROVE  Holds(S, u, pos) \in Known
<1> DEFINE W == {w \in Writes(S, u) : Before(w, pos)}
<1>1. CASE W = {} /\ Holds(S, u, pos) = tree[u]
  BY <1>1 DEF Types
<1>2. ASSUME NEW w \in W, Holds(S, u, pos) = leaves[w[1]][w[2]].value
      PROVE  Holds(S, u, pos) \in Known
  <2>1. w[1] \in Cmds /\ w[2] \in DOMAIN leaves[w[1]]
    BY DEF Writes
  <2>2. leaves[w[1]][w[2]] \in Leaf
    BY <2>1, Leaves
  <2> QED
    BY <1>2, <2>2 DEF Leaf
<1> QED
  BY <1>1, <1>2, HoldsLast

LEMMA ToldKnown ==
    ASSUME Types, NEW S, S \subseteq Cmds, NEW u \in Uris, NEW i \in Tells(S, u)
    PROVE  Told(i, u) \in Known
<1> DEFINE K == {k \in DOMAIN leaves[i] : leaves[i][k].uri = u /\ leaves[i][k].verb = "replace"}
<1>1. i \in Cmds /\ (items[i][u] # None \/ K # {})
  BY DEF Tells
<1>2. Told(i, u) = IF items[i][u] # None THEN items[i][u] ELSE leaves[i][Newest(K)].value
  BY DEF Told
<1>3. CASE items[i][u] # None
  BY <1>1, <1>2, <1>3 DEF Types
<1>4. CASE items[i][u] = None
  <2>1. K \subseteq 0..2 /\ K # {}
    BY <1>1, <1>4, Leaves
  <2>2. Newest(K) \in K
    <3> HIDE DEF K
    <3> QED BY <2>1, NewestIsMax, Zenon
  <2>3. leaves[i][Newest(K)] \in Leaf
    BY <1>1, <2>2, Leaves, Zenon
  <2> QED
    BY <1>2, <1>4, <2>3 DEF Leaf
<1> QED
  BY <1>3, <1>4

(* The command a page gives for a URI. *)
LEMMA NewestTells ==
    ASSUME NEW S, S \subseteq Cmds, NEW u, Tells(S, u) # {}
    PROVE  /\ Newest(Tells(S, u)) \in Tells(S, u)
           /\ Newest(Tells(S, u)) \in Cmds
           /\ \A j \in Tells(S, u) : j <= Newest(Tells(S, u))
<1>1. MaxSeq \in Nat
  BY ReconcileAssumption
<1>2. Tells(S, u) \subseteq Cmds
  BY DEF Tells
<1>3. Tells(S, u) \subseteq 0..MaxSeq
  BY <1>1, <1>2 DEF Cmds
<1> QED
  BY <1>1, <1>2, <1>3, NewestIsMax

LEMMA TypesInit == ReconcileInit => Types
<1> SUFFICES ASSUME ReconcileInit PROVE Types
  OBVIOUS
<1>1. <<>> \in Body
  BY DEF Body
<1>2. MaxSeq \in Nat
  BY ReconcileAssumption
<1>3. Nothing \in [Uris -> Known]
  BY DEF Nothing, Known
<1>4. /\ state \in [Cmds -> States]
      /\ \A i \in Cmds : state[i] = "absent" /\ leaves[i] = <<>>
      /\ \A i \in Cmds, u \in Uris : items[i][u] = None /\ got[i][u] = None
      /\ leaves \in [Cmds -> Body]
      /\ items \in [Cmds -> [Uris -> Known]] /\ got \in [Cmds -> [Uris -> Known]]
      /\ tree \in [Uris -> Known] /\ map \in [Uris -> Known]
  BY <1>1, <1>3 DEF ReconcileInit, States, Nothing
<1>5. last \in 0..MaxSeq /\ offset \in Nat /\ mapSeq \in [Uris -> Nat] /\ atStart \in [Uris -> Nat]
  BY <1>2 DEF ReconcileInit
<1>6. left \in BOOLEAN
  BY Zenon DEF ReconcileInit
<1>7. /\ phase \in {"idle", "reply", "answer"} /\ rpc \in {"idle", "read", "diff", "enqueue"}
      /\ status \in [Cmds -> {"none", "ok", "error"}]
      /\ batch = {} /\ todo = {} /\ met = {}
  BY DEF ReconcileInit
<1> QED
  BY <1>4, <1>5, <1>6, <1>7 DEF Types

(* A command that goes to the end of the queue leaves the others alone. *)
LEMMA Appended ==
    ASSUME Types, NEW body \in Body, Append1(body)
    PROVE  /\ last' \in 0..MaxSeq /\ last' = last + 1
           /\ last + 1 \in Cmds
           /\ state' \in [Cmds -> States] /\ leaves' \in [Cmds -> Body]
           /\ \A i \in Cmds : i > last' => state'[i] = "absent"
           /\ \A i \in Cmds : i > last' => leaves'[i] = <<>>
           /\ \A i \in Cmds : i > last' => i > last
           /\ state[last + 1] = "absent" /\ state'[last + 1] = "pending"
           /\ leaves[last + 1] = <<>>
           /\ leaves'[last + 1] = body
           /\ \A i \in Cmds : i # last + 1 => state'[i] = state[i] /\ leaves'[i] = leaves[i]
<1>1. MaxSeq \in Nat
  BY ReconcileAssumption
<1>2. last' \in 0..MaxSeq /\ last' = last + 1 /\ last + 1 \in Cmds /\ last \in Nat
  BY <1>1 DEF Append1, Types, Cmds
<1>3. state' \in [Cmds -> States] /\ leaves' \in [Cmds -> Body]
  BY <1>2 DEF Append1, Types, States
<1>4. /\ state'[last + 1] = "pending" /\ leaves'[last + 1] = body
      /\ \A i \in Cmds : i # last + 1 => state'[i] = state[i] /\ leaves'[i] = leaves[i]
  BY <1>2 DEF Append1, Types
<1>5. \A i \in Cmds : i > last => state[i] = "absent" /\ leaves[i] = <<>>
  BY DEF Types
<1>6. \A i \in Cmds : i > last' => i > last /\ state'[i] = "absent" /\ leaves'[i] = <<>>
  BY <1>2, <1>4, <1>5, <1>1 DEF Cmds
<1> QED
  BY <1>2, <1>3, <1>4, <1>5, <1>6

LEMMA LiveIs ==
    ASSUME Types
    PROVE  /\ Live \subseteq Cmds
           /\ \A i \in Live : i <= last
           /\ \A i \in Cmds : i \in Live <=> state[i] \in {"pending", "sent"}
<1>1. last \in Nat /\ MaxSeq \in Nat
  BY ReconcileAssumption DEF Types
<1> QED
  BY <1>1 DEF Types, Live, Cmds

LEMMA MeetTypes ==
    ASSUME Types, NEW kind \in Trouble, Meet(kind)
    PROVE  met' \subseteq Trouble
BY DEF Types, Meet

LEMMA TypesStep == Types /\ [ReconcileNext]_reconvars => Types'
<1> SUFFICES ASSUME Types, [ReconcileNext]_reconvars PROVE Types'
  OBVIOUS
<1>0. MaxSeq \in Nat
  BY ReconcileAssumption
<1>1. ASSUME NEW body \in Changes, Change(body) PROVE Types'
  <2>1. body \in Body
    BY ReconcileAssumption DEF Body
  <2>2. Append1(body)
    BY <1>1 DEF Change
  <2>3. UNCHANGED <<items, sessionvars, callervars, left, met>>
    BY <1>1 DEF Change, Append1
  <2>4. \A i \in batch : i <= last'
    BY <2>1, <2>2, <1>0, Appended DEF Types, Cmds
  <2> QED
    BY <2>1, <2>2, <2>3, <2>4, Appended DEF Types, sessionvars, callervars
<1>2. ASSUME NEW i \in Cmds, Cancel(i) PROVE Types'
  <2>1. i <= last
    BY <1>2, LiveIs DEF Cancel
  <2>2. state' \in [Cmds -> States] /\ \A j \in Cmds : j > last => state'[j] = "absent"
    BY <2>1, <1>2, <1>0 DEF Cancel, Types, States, Cmds
  <2>3. met' \subseteq Trouble
    BY <1>2, MeetTypes DEF Cancel, Trouble
  <2>4. UNCHANGED <<last, leaves, items, sessionvars, callervars, left>>
    BY <1>2 DEF Cancel
  <2> QED
    BY <2>2, <2>3, <2>4 DEF Types, sessionvars, callervars
<1>3. ASSUME NEW P \in SUBSET Cmds, Prune(P) PROVE Types'
  <2>1. state' \in [Cmds -> States] /\ \A j \in Cmds : j > last => state'[j] = "absent"
    BY <1>3 DEF Prune, Types, States
  <2>2. met' \subseteq Trouble
    BY <1>3, MeetTypes DEF Prune, Trouble
  <2>3. UNCHANGED <<last, leaves, items, sessionvars, callervars>>
    BY <1>3 DEF Prune
  <2>4. left' \in BOOLEAN
    BY <1>3 DEF Prune, Watch, Types
  <2> QED
    BY <2>1, <2>2, <2>3, <2>4 DEF Types, sessionvars, callervars
<1>4. CASE Deliver
  <2>1. state' \in [Cmds -> States] /\ \A j \in Cmds : j > last => state'[j] = "absent"
    BY <1>4, LiveIs, Zenon DEF Deliver, MarkedSent, Types, States
  <2>2. batch' = Live /\ phase' = "reply"
    BY <1>4 DEF Deliver
  <2>3. UNCHANGED <<last, leaves, items, tree, status, got, callervars, left, met>>
    BY <1>4 DEF Deliver
  <2>4. batch' \subseteq Cmds /\ \A j \in batch' : j <= last
    BY <2>2, LiveIs
  <2> QED
    BY <2>1, <2>2, <2>3, <2>4 DEF Types, callervars
<1>5. ASSUME NEW E \in SUBSET batch, Answer(E) PROVE Types'
  <2> DEFINE S == batch \ E
  <2>1. S \subseteq Cmds
    BY DEF Types
  <2>2. tree' = [u \in Uris |-> Holds(S, u, End)]
    BY <1>5 DEF Answer
  <2>3. tree' \in [Uris -> Known]
    BY <2>1, <2>2, HoldsKnown
  <2>4. /\ got' \in [Cmds -> [Uris -> Known]]
        /\ \A i \in Cmds, u \in Uris : i > last => got'[i][u] = None
    <3> DEFINE reads == {r \in S \X (1..2) : /\ r[2] \in DOMAIN leaves[r[1]]
                                             /\ leaves[r[1]][r[2]].verb = "get"}
               R(i, u) == {r \in reads : r[1] = i /\ leaves[i][r[2]].uri = u}
               val(i, u) == IF R(i, u) = {} THEN None ELSE Holds(S, u, CHOOSE r \in R(i, u) : TRUE)
    <3>1. got' = [i \in Cmds |-> [u \in Uris |-> val(i, u)]]
      BY <1>5 DEF Answer
    <3>2. \A i \in Cmds, u \in Uris : val(i, u) \in Known
      <4> HIDE DEF S, reads, R
      <4> QED BY <2>1, HoldsKnown DEF Known
    <3>3. \A i \in Cmds, u \in Uris : i > last => val(i, u) = None
      <4>1. \A i \in Cmds : i > last => i \notin S
        BY <1>0 DEF Types, Cmds
      <4> QED BY <4>1
    <3> HIDE DEF val
    <3> QED BY <3>1, <3>2, <3>3
  <2>5. status' \in [Cmds -> {"none", "ok", "error"}]
    BY <1>5 DEF Answer
  <2>6. met' \subseteq Trouble
    BY <1>5, MeetTypes, Zenon DEF Answer, Trouble, NoTrouble, Types
  <2>7. phase' = "answer" /\ UNCHANGED <<queuevars, batch, callervars, left>>
    BY <1>5 DEF Answer
  <2> QED
    BY <2>3, <2>4, <2>5, <2>6, <2>7 DEF Types, queuevars, callervars
<1>6. ASSUME NEW F \in SUBSET batch, Handle(F) PROVE Types'
  <2>1. state' \in [Cmds -> States] /\ \A j \in Cmds : j > last => state'[j] = "absent"
    <3>1. state' = [i \in Cmds |-> IF i \notin F THEN MarkedSent[i]
                                  ELSE IF status[i] = "ok" THEN "acknowledged" ELSE "failed"]
      BY <1>6 DEF Handle
    <3>2. \A j \in F : j <= last
      BY DEF Types
    <3>3. \A i \in Cmds : MarkedSent[i] = IF i \in Live THEN "sent" ELSE state[i]
      BY DEF MarkedSent
    <3>4. \A i \in Cmds : i > last => i \notin F /\ i \notin Live
      BY <3>2, LiveIs, <1>0 DEF Types, Cmds
    <3>5. \A i \in Cmds : i > last => state[i] = "absent"
      BY DEF Types
    <3>6. \A i \in Cmds : MarkedSent[i] \in States
      BY <3>3 DEF States, Types
    <3> QED
      BY <3>1, <3>3, <3>4, <3>5, <3>6 DEF States
  <2>2. /\ items' \in [Cmds -> [Uris -> Known]]
        /\ \A i \in Cmds, u \in Uris : i > last => items'[i][u] = None
    BY <1>6 DEF Handle, Types
  <2>3. /\ got' \in [Cmds -> [Uris -> Known]]
        /\ \A i \in Cmds, u \in Uris : got'[i][u] = None
        /\ status' \in [Cmds -> {"none", "ok", "error"}]
        /\ phase' \in {"idle", "reply", "answer"}
        /\ batch' \subseteq Cmds /\ \A i \in batch' : i <= last
    BY <1>6, LiveIs DEF Handle, SessionOver, Nothing, Known
  <2>4. met' \subseteq Trouble
    BY <1>6, MeetTypes, Zenon DEF Handle, Trouble, NoTrouble, Types
  <2>5. left' \in BOOLEAN
    BY <1>6 DEF Handle, Watch, Types
  <2>6. UNCHANGED <<last, leaves, tree, callervars>>
    BY <1>6 DEF Handle
  <2> QED
    BY <2>1, <2>2, <2>3, <2>4, <2>5, <2>6 DEF Types, callervars
<1>7. CASE Lose
  <2>1. met' \subseteq Trouble
    BY <1>7, MeetTypes DEF Lose, Trouble
  <2>2. /\ got' \in [Cmds -> [Uris -> Known]]
        /\ \A i \in Cmds, u \in Uris : got'[i][u] = None
        /\ status' \in [Cmds -> {"none", "ok", "error"}]
        /\ phase' = "idle" /\ batch' = {}
    BY <1>7 DEF Lose, SessionOver, Nothing, Known
  <2>3. UNCHANGED <<queuevars, tree, callervars, left>>
    BY <1>7 DEF Lose
  <2> QED
    BY <2>1, <2>2, <2>3 DEF Types, queuevars, callervars
<1>8. CASE StartReconcile
  <2>1. Acked(state) \subseteq Cmds
    BY DEF Acked
  <2>2. atStart' \in [Uris -> Nat]
    BY <1>8, <2>1, <1>0, NewestTells DEF StartReconcile, Cmds
  <2>3. rpc' = "read" /\ UNCHANGED <<queuevars, sessionvars, offset, map, mapSeq, todo, left, met>>
    BY <1>8 DEF StartReconcile
  <2> QED
    BY <2>2, <2>3 DEF Types, queuevars, sessionvars
<1>9. CASE ReadPage
  <2>1. Page(offset) \subseteq Cmds
    BY DEF Page, Acked
  <2> DEFINE T(u) == Tells(Page(offset), u)
  <2>2. /\ map' = [u \in Uris |-> IF T(u) = {} THEN map[u] ELSE Told(Newest(T(u)), u)]
        /\ mapSeq' = [u \in Uris |-> IF T(u) = {} THEN mapSeq[u] ELSE Newest(T(u))]
        /\ offset' = offset + PageSize
        /\ rpc' \in {"read", "diff"}
        /\ UNCHANGED <<queuevars, sessionvars, todo, atStart, left, met>>
    BY <1>9 DEF ReadPage
  <2>3. \A u \in Uris : T(u) # {} => Newest(T(u)) \in Cmds /\ Newest(T(u)) \in T(u)
    BY <2>1, NewestTells
  <2>4. \A u \in Uris : T(u) # {} => Told(Newest(T(u)), u) \in Known
    BY <2>1, <2>3, ToldKnown
  <2>5. \A u \in Uris : T(u) # {} => Newest(T(u)) \in Nat
    BY <2>3, <1>0 DEF Cmds
  <2> HIDE DEF T
  <2>6. map' \in [Uris -> Known] /\ mapSeq' \in [Uris -> Nat]
    BY <2>2, <2>4, <2>5 DEF Types
  <2>7. offset' \in Nat
    BY <2>2, ReconcileAssumption DEF Types
  <2> QED
    BY <2>2, <2>6, <2>7 DEF Types, queuevars, sessionvars
<1>10. CASE Diff
  <2>1. Nothing \in [Uris -> Known]
    BY DEF Nothing, Known
  <2>2. /\ todo' \subseteq Uris /\ (\A u \in todo' : Desired[u] # None)
        /\ rpc' \in {"idle", "enqueue"}
        /\ offset' = 0 /\ map' = Nothing
        /\ mapSeq' \in [Uris -> Nat] /\ atStart' \in [Uris -> Nat]
        /\ UNCHANGED <<queuevars, sessionvars, met>>
    BY <1>10 DEF Diff
  <2>3. left' \in BOOLEAN
    BY <1>10, Zenon DEF Diff
  <2> QED
    BY <2>1, <2>2, <2>3 DEF Types, queuevars, sessionvars
<1>11. ASSUME NEW u \in Uris, EnqueueDiff(u) PROVE Types'
  <2> DEFINE body == <<[verb |-> "replace", uri |-> u, value |-> Desired[u]]>>
  <2>1. u \in todo /\ Desired[u] # None /\ Desired[u] \in Known
    BY <1>11, ReconcileAssumption DEF EnqueueDiff, Types
  <2>2. body \in Body
    BY <2>1 DEF Body, Leaf
  <2>3. Append1(body)
    BY <1>11 DEF EnqueueDiff
  <2>4. /\ UNCHANGED <<items, sessionvars, offset, map, mapSeq, atStart, left, met>>
        /\ todo' = todo \ {u} /\ rpc' \in {"idle", "enqueue"}
    BY <1>11 DEF EnqueueDiff, Append1
  <2> HIDE DEF body
  <2>5. \A i \in batch : i <= last'
    BY <2>2, <2>3, <1>0, Appended DEF Types, Cmds
  <2> QED
    BY <2>2, <2>3, <2>4, <2>5, Appended DEF Types, sessionvars
<1>12. CASE UNCHANGED reconvars
  BY <1>12 DEF Types, reconvars, queuevars, sessionvars, callervars
<1> QED
  BY <1>1, <1>2, <1>3, <1>4, <1>5, <1>6, <1>7, <1>8, <1>9, <1>10, <1>11, <1>12
     DEF ReconcileNext, Caller

-----------------------------------------------------------------------------
(* Places in the list of acknowledged commands. *)
LEMMA AckedFinite == IsFiniteSet(Acked(state)) /\ IsFiniteSet(Acked(state))'
<1>1. MaxSeq \in Nat
  BY ReconcileAssumption
<1>2. IsFiniteSet(Cmds)
  BY <1>1, FS_Interval DEF Cmds
<1>3. Acked(state) \subseteq Cmds /\ Acked(state') \subseteq Cmds
  BY DEF Acked
<1>4. IsFiniteSet(Acked(state)) /\ IsFiniteSet(Acked(state'))
  BY <1>2, <1>3, FS_Subset
<1> QED
  BY <1>4 DEF Acked

LEMMA PlaceType ==
    ASSUME NEW i
    PROVE  Place(i) \in Nat /\ Place(i)' \in Nat
<1> DEFINE A == {j \in Acked(state) : j < i}
           B == {j \in Acked(state') : j < i}
<1>1. IsFiniteSet(Acked(state)) /\ IsFiniteSet(Acked(state'))
  BY AckedFinite DEF Acked
<1>2. IsFiniteSet(A) /\ IsFiniteSet(B)
  BY <1>1, FS_Subset
<1>3. Cardinality(A) \in Nat /\ Cardinality(B) \in Nat
  BY <1>2, FS_CardinalityType
<1>4. Place(i) = Cardinality(A) /\ Place(i)' = Cardinality(B)
  BY DEF Place, Acked
<1> QED
  BY <1>3, <1>4

(* A command stands behind the acknowledged ones before it. *)
LEMMA PlaceOrder ==
    ASSUME NEW e \in Acked(state), NEW s \in Cmds, e < s
    PROVE  Place(e) < Place(s)
<1> DEFINE A == {j \in Acked(state) : j < e}
           B == {j \in Acked(state) : j < s}
<1>1. \A j \in Acked(state) : j \in Nat
  BY ReconcileAssumption DEF Acked, Cmds
<1>2. s \in Nat
  BY ReconcileAssumption DEF Cmds
<1>3. A \subseteq B /\ e \in B /\ e \notin A
  BY <1>1, <1>2
<1>4. IsFiniteSet(B)
  BY AckedFinite, FS_Subset
<1>5. Cardinality(A) <= Cardinality(B) /\ Cardinality(A) # Cardinality(B)
  BY <1>3, <1>4, FS_Subset
<1>6. Place(e) = Cardinality(A) /\ Place(s) = Cardinality(B)
  BY DEF Place
<1> QED
  BY <1>5, <1>6, PlaceType

LEMMA PlaceInList ==
    ASSUME NEW e \in Acked(state)
    PROVE  Place(e) < Cardinality(Acked(state)) /\ Cardinality(Acked(state)) \in Nat
<1> DEFINE A == {j \in Acked(state) : j < e}
<1>1. e \in Nat
  BY ReconcileAssumption DEF Acked, Cmds
<1>2. A \subseteq Acked(state) /\ e \notin A
  BY <1>1
<1>3. Cardinality(A) <= Cardinality(Acked(state)) /\ Cardinality(A) # Cardinality(Acked(state))
  BY <1>2, AckedFinite, FS_Subset
<1>4. Cardinality(Acked(state)) \in Nat
  BY AckedFinite, FS_CardinalityType
<1>5. Place(e) = Cardinality(A)
  BY DEF Place
<1> QED
  BY <1>3, <1>4, <1>5, PlaceType

(* A list that only grows moves nobody forward. *)
LEMMA PlaceGrows ==
    ASSUME NEW i, Acked(state) \subseteq Acked(state')
    PROVE  Place(i) <= Place(i)'
<1> DEFINE A == {j \in Acked(state) : j < i}
           B == {j \in Acked(state') : j < i}
<1>1. IsFiniteSet(Acked(state'))
  BY AckedFinite DEF Acked
<1>2. IsFiniteSet(B)
  BY <1>1, FS_Subset
<1>3. Cardinality(A) <= Cardinality(B)
  BY <1>2, FS_Subset
<1>4. Place(i) = Cardinality(A) /\ Place(i)' = Cardinality(B)
  BY DEF Place, Acked
<1> QED
  BY <1>3, <1>4

(* A step that leaves the reader alone and takes nothing from its list. *)
LEMMA ReaderWaits ==
    ASSUME Types, Ahead,
           UNCHANGED <<rpc, offset, mapSeq, atStart>>,
           left \in BOOLEAN, left => left',
           rpc = "read" /\ ~left' =>
             /\ Acked(state) \subseteq Acked(state')
             /\ \A u \in Uris : Tells(Acked(state), u) \subseteq Tells(Acked(state), u)'
    PROVE  Ahead'
<1>1. ASSUME rpc = "read", ~left', NEW u \in Uris
      PROVE  /\ mapSeq[u] = 0 \/ mapSeq[u] \in Tells(Acked(state), u)'
             /\ \/ mapSeq[u] >= atStart[u]
                \/ \E e \in Tells(Acked(state), u)' : e >= atStart[u] /\ Place(e)' >= offset
  <2>1. mapSeq[u] = 0 \/ mapSeq[u] \in Tells(Acked(state), u)
    BY <1>1 DEF Ahead
  <2>2. mapSeq[u] = 0 \/ mapSeq[u] \in Tells(Acked(state), u)'
    BY <2>1, <1>1
  <2>3. CASE mapSeq[u] >= atStart[u]
    BY <2>2, <2>3
  <2>4. ASSUME NEW e \in Tells(Acked(state), u), e >= atStart[u], Place(e) >= offset
        PROVE  e \in Tells(Acked(state), u)' /\ Place(e)' >= offset
    <3>1. e \in Tells(Acked(state), u)'
      BY <1>1, <2>4
    <3>2. Place(e) <= Place(e)'
      BY <1>1, PlaceGrows
    <3>3. Place(e) \in Nat /\ Place(e)' \in Nat
      BY PlaceType
    <3>4. offset \in Nat
      BY DEF Types
    <3> QED
      BY <2>4, <3>1, <3>2, <3>3, <3>4
  <2>5. \/ mapSeq[u] >= atStart[u]
        \/ \E e \in Tells(Acked(state), u) : e >= atStart[u] /\ Place(e) >= offset
    BY <1>1 DEF Ahead
  <2> QED
    BY <2>2, <2>3, <2>4, <2>5
<1>2. rpc \in {"idle", "enqueue"} => offset = 0 /\ \A u \in Uris : mapSeq[u] = 0
  BY DEF Ahead
<1>3. rpc = "diff" /\ ~left' => \A u \in Uris : mapSeq[u] >= atStart[u]
  BY DEF Ahead
<1> QED
  BY <1>1, <1>2, <1>3 DEF Ahead

(* The page that is read, or the pages after it, have what the reader needs. *)
LEMMA PageRead ==
    ASSUME Types, Ahead, ReadPage, ~left, NEW u \in Uris
    PROVE  /\ mapSeq'[u] = 0 \/ mapSeq'[u] \in Tells(Acked(state), u)
           /\ \/ mapSeq'[u] >= atStart[u]
              \/ /\ rpc' = "read"
                 /\ \E e \in Tells(Acked(state), u) : e >= atStart[u] /\ Place(e) >= offset'
<1> DEFINE T == Tells(Page(offset), u)
<1>0. /\ MaxSeq \in Nat /\ PageSize \in Nat /\ PageSize > 0 /\ offset \in Nat
      /\ mapSeq[u] \in Nat /\ atStart[u] \in Nat
  BY ReconcileAssumption DEF Types
<1>1. /\ rpc = "read"
      /\ mapSeq'[u] = IF T = {} THEN mapSeq[u] ELSE Newest(T)
      /\ offset' = offset + PageSize
      /\ rpc' = IF offset + PageSize < Cardinality(Acked(state)) THEN "read" ELSE "diff"
  BY DEF ReadPage
<1>2. Acked(state) \subseteq Cmds /\ Page(offset) \subseteq Acked(state)
  BY DEF Acked, Page
<1>3. Tells(Acked(state), u) \subseteq Acked(state) /\ T \subseteq Tells(Acked(state), u)
  BY <1>2 DEF Tells
<1>4. \A e \in Tells(Acked(state), u) :
         e \in Nat /\ Place(e) \in Nat /\ (e \in T <=> Place(e) \in offset..(offset + PageSize - 1))
  <2> TAKE e \in Tells(Acked(state), u)
  <2>1. e \in Acked(state) /\ e \in Nat
    BY <1>0, <1>2, <1>3 DEF Cmds
  <2>2. e \in Page(offset) <=> Place(e) \in offset..(offset + PageSize - 1)
    BY <2>1 DEF Page, Place
  <2>3. e \in T <=> e \in Page(offset)
    BY <2>1 DEF Tells
  <2> QED
    BY <2>1, <2>2, <2>3, PlaceType
<1>5. T # {} => Newest(T) \in T /\ \A j \in T : j <= Newest(T)
  BY <1>2, NewestTells
<1> HIDE DEF T
<1>6. mapSeq'[u] = 0 \/ mapSeq'[u] \in Tells(Acked(state), u)
  BY <1>1, <1>3, <1>5 DEF Ahead
(* Something at least as new as e is found on this page or lies ahead of it. *)
<1>7. ASSUME NEW e \in Tells(Acked(state), u), e >= atStart[u], Place(e) >= offset
      PROVE  \/ mapSeq'[u] >= atStart[u]
             \/ rpc' = "read" /\ Place(e) >= offset'
  <2>1. CASE e \in T
    <3>1. T # {} /\ e <= Newest(T) /\ Newest(T) \in Nat
      BY <2>1, <1>5, <1>3, <1>4
    <3> QED
      BY <3>1, <1>0, <1>1, <1>4, <1>7
  <2>2. CASE e \notin T
    <3>1. Place(e) >= offset + PageSize
      BY <2>2, <1>0, <1>4, <1>7
    <3>2. Place(e) < Cardinality(Acked(state)) /\ Cardinality(Acked(state)) \in Nat
      BY <1>3, PlaceInList
    <3>3. Place(e) \in Nat
      BY <1>4
    <3> QED
      BY <3>1, <3>2, <3>3, <1>0, <1>1
  <2> QED
    BY <2>1, <2>2
<1>8. CASE mapSeq[u] >= atStart[u]
  <2>1. CASE T = {} \/ Newest(T) >= atStart[u]
    BY <1>1, <1>6, <1>8, <2>1
  <2>2. CASE T # {} /\ ~(Newest(T) >= atStart[u])
    <3> DEFINE s == mapSeq[u]
               n == Newest(T)
    <3>1. n \in T /\ n \in Nat /\ n < atStart[u] /\ n < s
      BY <2>2, <1>0, <1>3, <1>4, <1>5, <1>8
    <3>2. s \in Tells(Acked(state), u)
      BY <3>1, <1>0, <1>1 DEF Ahead
    <3>3. Place(n) < Place(s)
      BY <3>1, <3>2, <1>2, <1>3, PlaceOrder
    <3>4. Place(n) >= offset /\ Place(n) \in Nat /\ Place(s) \in Nat
      BY <3>1, <3>2, <1>0, <1>3, <1>4
    <3>5. Place(s) >= offset
      BY <3>3, <3>4, <1>0
    <3> QED
      BY <3>2, <3>5, <1>6, <1>7, <1>8
  <2> QED
    BY <2>1, <2>2
<1>9. CASE \E e \in Tells(Acked(state), u) : e >= atStart[u] /\ Place(e) >= offset
  BY <1>6, <1>7, <1>9
<1> QED
  BY <1>1, <1>8, <1>9 DEF Ahead

LEMMA AheadStep == Types /\ Ahead /\ [ReconcileNext]_reconvars => Ahead'
<1> SUFFICES ASSUME Types, Ahead, [ReconcileNext]_reconvars PROVE Ahead'
  OBVIOUS
<1>0. MaxSeq \in Nat /\ left \in BOOLEAN
  BY ReconcileAssumption DEF Types
(* Steps that acknowledge nothing and touch neither the items nor the leaves of
   an acknowledged command. *)
<1>a. ASSUME Acked(state') = Acked(state), UNCHANGED <<items, rpc, offset, mapSeq, atStart, left>>,
             \A i \in Acked(state) : leaves'[i] = leaves[i]
      PROVE  Ahead'
  <2>1. \A u \in Uris : Tells(Acked(state), u)' = Tells(Acked(state), u)
    BY <1>a DEF Tells, Acked
  <2> QED
    BY <1>0, <1>a, <2>1, ReaderWaits
<1>b. ASSUME NEW body \in Body, Append1(body)
      PROVE  /\ Acked(state') = Acked(state)
             /\ UNCHANGED <<items, left>>
             /\ \A i \in Acked(state) : leaves'[i] = leaves[i]
  BY <1>b, Appended, Zenon DEF Acked, Append1
<1>1. ASSUME NEW body \in Changes, Change(body) PROVE Ahead'
  <2>1. body \in Body
    BY ReconcileAssumption DEF Body
  <2>2. Append1(body) /\ UNCHANGED callervars
    BY <1>1 DEF Change
  <2> QED
    BY <2>1, <2>2, <1>a, <1>b DEF callervars
<1>2. ASSUME NEW i \in Cmds, Cancel(i) PROVE Ahead'
  <2>1. Acked(state') = Acked(state)
    BY <1>2, LiveIs DEF Cancel, Acked, Types
  <2> QED
    BY <2>1, <1>2, <1>a DEF Cancel, callervars
<1>c. ASSUME Watch, UNCHANGED <<rpc, offset, mapSeq, atStart>> PROVE Ahead'
  <2>1. left => left'
    BY <1>c, Zenon DEF Watch
  <2>2. rpc = "read" /\ ~left' =>
          /\ Acked(state) \subseteq Acked(state')
          /\ \A u \in Uris : Tells(Acked(state), u) \subseteq Tells(Acked(state), u)'
    BY <1>c, Zenon DEF Watch
  <2> QED
    BY <1>0, <1>c, <2>1, <2>2, ReaderWaits
<1>3. ASSUME NEW P \in SUBSET Cmds, Prune(P) PROVE Ahead'
  BY <1>3, <1>c DEF Prune, callervars
<1>4. CASE Deliver
  <2>1. Acked(state') = Acked(state)
    BY <1>4, LiveIs, SMTT(30) DEF Deliver, MarkedSent, Acked, Types
  <2> QED
    BY <2>1, <1>4, <1>a DEF Deliver, callervars
<1>5. ASSUME NEW E \in SUBSET batch, Answer(E) PROVE Ahead'
  BY <1>5, <1>a DEF Answer, queuevars, callervars
<1>6. ASSUME NEW F \in SUBSET batch, Handle(F) PROVE Ahead'
  <2>1. Watch /\ UNCHANGED callervars
    BY <1>6 DEF Handle
  <2> QED
    BY <2>1, <1>c DEF callervars
<1>7. CASE Lose
  BY <1>7, <1>a DEF Lose, queuevars, callervars
<1>8. CASE StartReconcile
  <2> DEFINE T(u) == Tells(Acked(state), u)
  <2>1. /\ rpc = "idle" /\ rpc' = "read"
        /\ atStart' = [u \in Uris |-> IF T(u) = {} THEN 0 ELSE Newest(T(u))]
        /\ UNCHANGED <<state, leaves, items, offset, mapSeq, left>>
    BY <1>8 DEF StartReconcile, queuevars
  <2>2. offset = 0 /\ \A u \in Uris : mapSeq[u] = 0
    BY <2>1 DEF Ahead
  <2>3. ASSUME NEW u \in Uris
        PROVE  \/ mapSeq[u] >= atStart'[u]
               \/ \E e \in T(u) : e >= atStart'[u] /\ Place(e) >= offset
    <3>1. CASE T(u) = {}
      BY <2>1, <3>1 DEF Types
    <3>2. CASE T(u) # {}
      <4>1. Newest(T(u)) \in T(u) /\ Newest(T(u)) \in Cmds
        BY <3>2, NewestTells DEF Acked
      <4>2. Newest(T(u)) \in Nat /\ Place(Newest(T(u))) \in Nat
        BY <4>1, <1>0, PlaceType DEF Cmds
      <4>3. atStart'[u] = Newest(T(u))
        BY <2>1, <3>2
      <4> HIDE DEF T
      <4> QED
        BY <2>2, <4>1, <4>2, <4>3
    <3> QED
      BY <3>1, <3>2
  <2>4. \A e : Place(e)' = Place(e)
    BY <2>1 DEF Place, Acked
  <2>5. \A u \in Uris : Tells(Acked(state), u)' = T(u)
    BY <2>1 DEF Tells, Acked
  <2> QED
    BY <2>1, <2>2, <2>3, <2>4, <2>5 DEF Ahead
<1>9. CASE ReadPage
  <2>1. UNCHANGED <<state, leaves, items, atStart, left>> /\ rpc' \in {"read", "diff"}
    BY <1>9 DEF ReadPage, queuevars
  <2>2. \A e : Place(e)' = Place(e)
    BY <2>1 DEF Place, Acked
  <2>3. \A u \in Uris : Tells(Acked(state), u)' = Tells(Acked(state), u)
    BY <2>1 DEF Tells, Acked
  <2> QED
    BY <1>9, <2>1, <2>2, <2>3, PageRead DEF Ahead
<1>10. CASE Diff
  BY <1>10 DEF Diff, Ahead
<1>11. ASSUME NEW u \in Uris, EnqueueDiff(u) PROVE Ahead'
  <2>1. rpc = "enqueue" /\ rpc' \in {"idle", "enqueue"} /\ UNCHANGED <<offset, mapSeq>>
    BY <1>11 DEF EnqueueDiff
  <2> QED
    BY <2>1 DEF Ahead
<1>12. CASE UNCHANGED reconvars
  BY <1>12, <1>a DEF reconvars, queuevars, callervars
<1> QED
  BY <1>1, <1>2, <1>3, <1>4, <1>5, <1>6, <1>7, <1>8, <1>9, <1>10, <1>11, <1>12
     DEF ReconcileNext, Caller

-----------------------------------------------------------------------------
(* Type correctness of the queue, the session, the device and the caller of
   AcknowledgedValues, for every set of settings, command and page size. *)
THEOREM ReconcileTypes == ReconcileSpec => []ReconcileTypeOK
<1>1. Types => ReconcileTypeOK
  BY DEF Types, States, ReconcileTypeOK
<1> QED
  BY <1>1, TypesInit, TypesStep, PTL DEF ReconcileSpec

(* AcknowledgedValues returns nothing older than what was acknowledged when it
   started: a list that only grows moves no command to an earlier place, so an
   offset never passes over one that must still be seen (Ahead). *)
THEOREM ReadsNotOlder == ReconcileSpec => []ReadIsNotOlder
<1>1. ReconcileInit => Ahead
  BY DEF ReconcileInit, Ahead
<1>2. Ahead => ReadIsNotOlder
  BY DEF Ahead, ReadIsNotOlder
<1> QED
  BY <1>1, <1>2, TypesInit, TypesStep, AheadStep, PTL DEF ReconcileSpec
=============================================================================
