------------------------- MODULE ReconcileMapProofs --------------------------
(***************************************************************************)
(* Proof about Reconcile: what the acknowledged commands tell is what the  *)
(* device holds (MapIsCurrent), for any number of commands and settings.   *)
(***************************************************************************)
EXTENDS ReconcileProofs

(* The leaves of command i that change u, and the value they leave there. *)
Puts(i, u) == {k \in DOMAIN leaves[i] : leaves[i][k].uri = u /\ leaves[i][k].verb # "get"}
Writer(i, u) == Puts(i, u) # {}
Final(i, u) == leaves[i][Newest(Puts(i, u))].value

(* What a device that carried out the first m commands holds at u. *)
Below(m, u) == {i \in 1..m : Writer(i, u)}
Written(m, u) == IF Below(m, u) = {} THEN None ELSE Final(Newest(Below(m, u)), u)

Calm == met \subseteq {"lost"}
Done(i) == state[i] \in {"acknowledged", "failed"}
Clean(u) == ~Deleted(u) /\ ~ReadFirst(u)

(* Commands are done in Seq order, and a batch has everything from its first
   command on that the device may have seen. *)
InOrder ==
    Calm =>
      /\ \A i \in Cmds : i <= last => Done(i) \/ i \in Live
      /\ \A x, w \in Cmds : x < w /\ Done(w) => Done(x)
      /\ \A b \in batch, y \in Cmds : y < b => y \in batch \/ Done(y)
      /\ \A b \in batch, w \in Cmds : b < w /\ Done(w) => w \in batch

(* Only a Get fails. *)
WritesSucceed ==
    Calm => \A i \in Cmds, u \in Uris : Writer(i, u) =>
      /\ Done(i) => state[i] = "acknowledged"
      /\ phase = "answer" /\ i \in batch => status[i] = "ok"

(* The device has carried out the first m commands, some of them more than
   once, and holds what they leave. *)
CarriedOut(m) ==
    /\ \A i \in Cmds : Done(i) => i <= m
    /\ phase = "answer" => \A b \in batch : b <= m
    /\ \A b \in batch, w \in Cmds : b < w /\ w <= m => w \in batch
    /\ \A u \in Uris : Clean(u) => tree[u] = Written(m, u)
Prefix == Calm => \E m \in 0..last : CarriedOut(m)

(* A value that was read is what the commands before it left, unless a later
   command writes the URI. *)
Fresh(i, u, v) ==
    v # None =>
      \/ Writer(i, u) /\ v = Final(i, u)
      \/ ~Writer(i, u) /\ (v = Written(i, u) \/ \E w \in Cmds : i < w /\ Writer(w, u))
ReadsFresh ==
    Calm => \A i \in Cmds, u \in Uris : Clean(u) =>
      /\ Fresh(i, u, items[i][u])
      /\ Fresh(i, u, got[i][u])

Settled == InOrder /\ WritesSucceed /\ Prefix /\ ReadsFresh
MapInv == Types /\ Settled

-----------------------------------------------------------------------------
(* What a command writes. *)
LEMMA PutsMax ==
    ASSUME Types, NEW i \in Cmds, NEW u, Writer(i, u)
    PROVE  /\ Newest(Puts(i, u)) \in Puts(i, u)
           /\ \A k \in Puts(i, u) : k <= Newest(Puts(i, u))
<1>1. Puts(i, u) \subseteq 0..2 /\ Puts(i, u) # {}
  BY Leaves DEF Puts, Writer
<1> QED
  BY <1>1, NewestIsMax

LEMMA CleanPuts ==
    ASSUME Types, NEW i \in Cmds, NEW u \in Uris, Clean(u)
    PROVE  Puts(i, u) = {k \in DOMAIN leaves[i] : leaves[i][k].uri = u /\ leaves[i][k].verb = "replace"}
<1>1. \A k \in DOMAIN leaves[i] : leaves[i][k].verb \in {"replace", "delete", "get"}
  BY Leaves DEF Leaf
<1>2. \A k \in DOMAIN leaves[i] : leaves[i][k].uri = u => leaves[i][k].verb # "delete"
  BY DEF Clean, Deleted, Does
<1> QED
  BY <1>1, <1>2 DEF Puts

LEMMA BelowBounded ==
    ASSUME NEW m \in 0..MaxSeq, NEW u
    PROVE  Below(m, u) \subseteq 0..m /\ m \in Nat
BY ReconcileAssumption DEF Below

LEMMA WrittenBy ==
    ASSUME NEW m \in 0..MaxSeq, NEW u, NEW n \in 1..m, Writer(n, u),
           \A y \in 1..m : Writer(y, u) => y <= n
    PROVE  Written(m, u) = Final(n, u)
<1>1. n \in Below(m, u) /\ \A y \in Below(m, u) : y <= n
  BY DEF Below
<1>2. Newest(Below(m, u)) = n
  BY <1>1, BelowBounded, NewestIs
<1> QED
  BY <1>1, <1>2 DEF Written

LEMMA WrittenSame ==
    ASSUME NEW m \in 0..MaxSeq, NEW n \in 0..MaxSeq, m <= n, NEW u,
           \A y \in 1..n : Writer(y, u) => y <= m
    PROVE  Written(n, u) = Written(m, u)
<1>1. Below(n, u) = Below(m, u)
  BY ReconcileAssumption DEF Below
<1> QED
  BY <1>1 DEF Written

(* Leaves that stay keep what was written. *)
LEMMA WrittenKept ==
    ASSUME NEW m \in 0..MaxSeq, NEW u, \A i \in 1..m : leaves'[i] = leaves[i]
    PROVE  /\ Written(m, u)' = Written(m, u)
           /\ \A i \in 1..m : (Writer(i, u)' <=> Writer(i, u)) /\ Final(i, u)' = Final(i, u)
<1>1. \A i \in 1..m : Puts(i, u)' = Puts(i, u)
  BY DEF Puts
<1>2. \A i \in 1..m : (Writer(i, u)' <=> Writer(i, u)) /\ Final(i, u)' = Final(i, u)
  BY <1>1, Zenon DEF Writer, Final, Newest
<1>3. Below(m, u)' = Below(m, u)
  BY <1>2 DEF Below
<1>4. ASSUME Below(m, u) = {}
      PROVE  Written(m, u)' = Written(m, u)
  BY <1>3, <1>4 DEF Written
<1>5. ASSUME Below(m, u) # {}
      PROVE  Written(m, u)' = Written(m, u)
  <2>1. Newest(Below(m, u)) \in Below(m, u)
    BY <1>5, BelowBounded, NewestIsMax
  <2>2. Newest(Below(m, u)) \in 1..m
    BY <2>1 DEF Below
  <2>3. Newest(Below(m, u))' = Newest(Below(m, u))
    BY <1>3 DEF Newest
  <2>4. Written(m, u) = Final(Newest(Below(m, u)), u)
    BY <1>5 DEF Written
  <2>5. Written(m, u)' = Final(Newest(Below(m, u)), u)'
    BY <1>3, <1>5 DEF Written
  <2>6. Final(Newest(Below(m, u)), u)' = Final(Newest(Below(m, u)), u)
    BY <1>2, <2>2, <2>3 DEF Final
  <2> QED
    BY <2>4, <2>5, <2>6
<1>6. Written(m, u)' = Written(m, u)
  BY <1>4, <1>5
<1> QED
  BY <1>2, <1>6

(* Carrying out S up to a leaf of a command that does not write u: the newest
   command that does decides. *)
Decided(S, u, p, q) ==
    \/ /\ \A n \in S : n < p => ~Writer(n, u)
       /\ Holds(S, u, <<p, q>>) = tree[u]
    \/ \E n \in S : /\ n < p /\ Writer(n, u)
                    /\ \A y \in S : y < p /\ Writer(y, u) => y <= n
                    /\ Holds(S, u, <<p, q>>) = Final(n, u)
LEMMA HoldsNewest ==
    ASSUME Types, NEW S, S \subseteq Cmds, NEW u \in Uris, NEW p \in Nat, NEW q \in Nat,
           p \in S => ~Writer(p, u)
    PROVE  Decided(S, u, p, q)
<1> DEFINE W == {w \in Writes(S, u) : Before(w, <<p, q>>)}
<1>0. \A n \in S : n \in Nat
  <2>1. MaxSeq \in Nat
    BY ReconcileAssumption
  <2> QED
    BY <2>1 DEF Cmds
<1>1. \A n \in S : \A k \in Puts(n, u) : n < p => <<n, k>> \in W /\ k \in 1..2
  <2> SUFFICES ASSUME NEW n \in S, NEW k \in Puts(n, u), n < p
               PROVE  <<n, k>> \in W /\ k \in 1..2
    OBVIOUS
  <2>1. k \in DOMAIN leaves[n] /\ leaves[n][k].uri = u /\ leaves[n][k].verb # "get"
    BY DEF Puts
  <2>2. k \in 1..2
    BY <2>1, Leaves
  <2> QED
    BY <2>1, <2>2 DEF Writes, Before
<1>2. ASSUME NEW w \in W
      PROVE  /\ w[1] \in S /\ w[2] \in Puts(w[1], u) /\ w[2] \in 1..2
             /\ w = <<w[1], w[2]>> /\ w[1] < p
  <2>1. w[1] \in S /\ w[2] \in Puts(w[1], u) /\ w[2] \in 1..2 /\ w = <<w[1], w[2]>>
    BY DEF Writes, Puts
  <2>2. w[1] < p \/ (w[1] = p /\ w[2] < q)
    BY DEF Before
  <2> QED
    BY <2>1, <2>2 DEF Writer
<1>3. CASE W = {} /\ Holds(S, u, <<p, q>>) = tree[u]
  <2>1. \A n \in S : n < p => ~Writer(n, u)
    BY <1>1, <1>3, Zenon DEF Writer
  <2> QED
    BY <2>1, <1>3 DEF Decided
<1>4. ASSUME NEW w \in W, \A v \in W : v = w \/ Before(v, w),
             Holds(S, u, <<p, q>>) = leaves[w[1]][w[2]].value
      PROVE  \E n \in S : /\ n < p /\ Writer(n, u)
                          /\ \A y \in S : y < p /\ Writer(y, u) => y <= n
                          /\ Holds(S, u, <<p, q>>) = Final(n, u)
  <2> DEFINE n == w[1]
  <2>1. n \in S /\ w[2] \in Puts(n, u) /\ w[2] \in 1..2 /\ n < p /\ Writer(n, u)
    BY <1>2 DEF Writer
  <2>2. ASSUME NEW y \in S, y < p, Writer(y, u)
        PROVE  y <= n
    <3>1. PICK k \in Puts(y, u) : TRUE
      BY <2>2 DEF Writer
    <3>2. <<y, k>> \in W
      BY <1>1, <2>2, <3>1
    <3>3. <<y, k>> = w \/ y < n \/ y = n
      BY <1>4, <3>2 DEF Before
    <3>4. y \in Nat /\ n \in Nat
      BY <1>0, <2>1
    <3> QED
      BY <3>3, <3>4
  <2>3. ASSUME NEW k \in Puts(n, u)
        PROVE  k <= w[2]
    <3>1. <<n, k>> \in W /\ k \in 1..2
      BY <1>1, <2>1, <2>3
    <3>2. <<n, k>> = w \/ n < n \/ k < w[2]
      BY <1>4, <3>1 DEF Before
    <3>3. n \in Nat
      BY <1>0, <2>1
    <3> QED
      BY <3>1, <3>2, <3>3, <2>1
  <2>4. Puts(n, u) \subseteq 0..2
    BY <2>1, Leaves DEF Puts
  <2>5. Newest(Puts(n, u)) = w[2]
    BY <2>1, <2>3, <2>4, NewestIs
  <2> QED
    BY <1>4, <2>1, <2>2, <2>5 DEF Final
<1> QED
  BY <1>3, <1>4, HoldsLast DEF Decided

-----------------------------------------------------------------------------
LEMMA SettledInit == ReconcileInit => Settled
<1> SUFFICES ASSUME ReconcileInit PROVE Settled
  OBVIOUS
<1>0. MaxSeq \in Nat
  BY ReconcileAssumption
<1>1. /\ \A i \in Cmds : state[i] = "absent" /\ leaves[i] = <<>> /\ i > 0
      /\ last = 0 /\ batch = {} /\ phase = "idle"
      /\ \A u \in Uris : tree[u] = None
      /\ \A i \in Cmds, u \in Uris : items[i][u] = None /\ got[i][u] = None
  BY <1>0 DEF ReconcileInit, Nothing, Cmds
<1>2. \A i \in Cmds, u \in Uris : ~Writer(i, u)
  BY <1>1 DEF Writer, Puts
<1>3. InOrder
  BY <1>0, <1>1 DEF InOrder, Done, Cmds
<1>4. WritesSucceed
  BY <1>2 DEF WritesSucceed
<1>5. CarriedOut(0)
  <2>1. \A u \in Uris : Written(0, u) = None
    BY DEF Written, Below
  <2> QED
    BY <1>1, <2>1 DEF CarriedOut, Done
<1>6. Prefix
  BY <1>1, <1>5 DEF Prefix
<1>7. ReadsFresh
  BY <1>1 DEF ReadsFresh, Fresh
<1> QED
  BY <1>3, <1>4, <1>6, <1>7 DEF Settled

(* What is a matter of the leaves alone. *)
LEMMA LeavesSame ==
    ASSUME leaves' = leaves
    PROVE  /\ \A i \in Cmds, u \in Uris : Writer(i, u)' <=> Writer(i, u)
           /\ \A m \in 0..MaxSeq, u \in Uris : Written(m, u)' = Written(m, u)
           /\ \A u \in Uris : Clean(u)' <=> Clean(u)
           /\ \A i \in Cmds, u \in Uris : \A v : Fresh(i, u, v)' <=> Fresh(i, u, v)
<1>1. \A i \in Cmds, u \in Uris : Writer(i, u)' <=> Writer(i, u)
  BY DEF Writer, Puts
<1>2. \A m \in 0..MaxSeq, u \in Uris : Written(m, u)' = Written(m, u)
  BY WrittenKept
<1>3. \A u \in Uris : Clean(u)' <=> Clean(u)
  BY DEF Clean, Deleted, ReadFirst, Does
<1>4. \A i \in Cmds, u \in Uris : Final(i, u)' = Final(i, u)
  BY DEF Final, Puts, Newest
<1>5. \A i \in Cmds, u \in Uris : Written(i, u)' = Written(i, u)
  BY <1>2, ReconcileAssumption DEF Cmds
<1> QED
  BY <1>1, <1>2, <1>3, <1>4, <1>5 DEF Fresh

(* Steps of the caller, and stuttering, touch neither queue, session nor device. *)
LEMMA CallerKeeps ==
    ASSUME Types, Settled,
           UNCHANGED <<state, last, leaves, items, tree, phase, batch, status, got, met>>
    PROVE  Settled'
<1>1. InOrder'
  BY DEF Settled, InOrder, Calm, Done, Live
<1>2. WritesSucceed'
  BY DEF Settled, WritesSucceed, Calm, Done, Writer, Puts
<1>3. Prefix'
  <2>0. last \in 0..MaxSeq /\ MaxSeq \in Nat
    BY ReconcileAssumption DEF Types
  <2>1. ASSUME NEW m \in 0..last, CarriedOut(m) PROVE CarriedOut(m)'
    <3>1. m \in 0..MaxSeq
      BY <2>0
    <3> QED
      BY <2>1, <3>1, LeavesSame DEF CarriedOut, Done
  <2> QED
    BY <2>1 DEF Settled, Prefix, Calm
<1>4. ReadsFresh'
  <2>1. ASSUME NEW i \in Cmds, NEW u \in Uris
        PROVE  /\ Fresh(i, u, items[i][u]) => Fresh(i, u, items[i][u])'
               /\ Fresh(i, u, got[i][u]) => Fresh(i, u, got[i][u])'
               /\ Clean(u)' => Clean(u)
    BY LeavesSame DEF Fresh
  <2> QED
    BY <2>1 DEF Settled, ReadsFresh, Calm
<1> QED
  BY <1>1, <1>2, <1>3, <1>4 DEF Settled

LEMMA AppendKeeps ==
    ASSUME MapInv, NEW body \in Body, Append1(body)
    PROVE  Settled'
<1> DEFINE n == last + 1
<1>0. Types /\ MaxSeq \in Nat /\ last \in Nat
  BY ReconcileAssumption DEF MapInv, Types
<1>1. /\ last' = n /\ n \in Cmds /\ state[n] = "absent" /\ state'[n] = "pending"
      /\ leaves[n] = <<>>
      /\ \A i \in Cmds : i # n => state'[i] = state[i] /\ leaves'[i] = leaves[i]
  BY <1>0, Appended
<1>2. UNCHANGED <<items, tree, phase, batch, status, got, met>>
  BY DEF Append1, sessionvars
<1>3. SUFFICES ASSUME Calm PROVE Settled'
  BY <1>2 DEF Settled, InOrder, WritesSucceed, Prefix, ReadsFresh, Calm
<1>4. \A i \in Cmds : /\ Done(i)' <=> Done(i)
                      /\ i # n => (i \in Live' <=> i \in Live)
                      /\ i <= last => i # n
                      /\ i <= n => i <= last \/ i = n
                      /\ i < n => i <= last
  BY <1>0, <1>1 DEF Done, Live, Cmds
<1>5. n \in Live' /\ ~Done(n) /\ n \notin batch
  BY <1>0, <1>1 DEF Live, Done, Types
<1>6. ASSUME NEW i \in Cmds, i # n, NEW u
      PROVE  (Writer(i, u)' <=> Writer(i, u)) /\ Final(i, u)' = Final(i, u)
  BY <1>1, <1>6, ZenonT(60) DEF Writer, Final, Puts, Newest
<1>7. \A u \in Uris : Clean(u)' => Clean(u)
  <2>1. \A i \in Cmds : DOMAIN leaves[i] # {} => leaves'[i] = leaves[i]
    BY <1>1
  <2> QED
    BY <2>1 DEF Clean, Deleted, ReadFirst, Does
<1>8. InOrder'
  <2>1. InOrder
    BY DEF MapInv, Settled
  <2>2. /\ \A i \in Cmds : i <= last => Done(i) \/ i \in Live
        /\ \A x, w \in Cmds : x < w /\ Done(w) => Done(x)
        /\ \A b \in batch, y \in Cmds : y < b => y \in batch \/ Done(y)
        /\ \A b \in batch, w \in Cmds : b < w /\ Done(w) => w \in batch
    BY <2>1, <1>3 DEF InOrder
  <2>3. \A i \in Cmds : i <= last' => Done(i)' \/ i \in Live'
    BY <2>2, <1>1, <1>4, <1>5
  <2> HIDE DEF n
  <2> QED
    BY <2>2, <2>3, <1>2, <1>4 DEF InOrder
<1>9. WritesSucceed'
  <2>1. \A i \in Cmds, u \in Uris : Writer(i, u) =>
          /\ Done(i) => state[i] = "acknowledged"
          /\ phase = "answer" /\ i \in batch => status[i] = "ok"
    BY <1>3 DEF MapInv, Settled, WritesSucceed
  <2> SUFFICES ASSUME NEW i \in Cmds, NEW u \in Uris, Writer(i, u)'
               PROVE  /\ Done(i)' => state'[i] = "acknowledged"
                      /\ phase' = "answer" /\ i \in batch' => status'[i] = "ok"
    BY DEF WritesSucceed
  <2>2. CASE i = n
    BY <2>2, <1>2, <1>4, <1>5
  <2>3. CASE i # n
    BY <2>1, <2>3, <1>1, <1>2, <1>4, <1>6
  <2> QED
    BY <2>2, <2>3
<1>10. Prefix'
  <2>1. PICK m \in 0..last : CarriedOut(m)
    BY <1>3 DEF MapInv, Settled, Prefix
  <2>2. m \in 0..last' /\ m \in 0..MaxSeq /\ \A i \in 1..m : i \in Cmds /\ i # n
    BY <1>0, <1>1 DEF Types, Cmds
  <2>3. \A u : Written(m, u)' = Written(m, u)
    BY <2>2, <1>1, WrittenKept
  <2>4. /\ \A i \in Cmds : Done(i)' => i <= m
        /\ phase' = "answer" => \A b \in batch' : b <= m
        /\ \A b \in batch', w \in Cmds : b < w /\ w <= m => w \in batch'
    BY <2>1, <1>2, <1>4 DEF CarriedOut
  <2>5. \A u \in Uris : Clean(u)' => tree'[u] = Written(m, u)'
    BY <2>1, <2>3, <1>2, <1>7 DEF CarriedOut
  <2>6. CarriedOut(m)'
    BY <2>4, <2>5 DEF CarriedOut
  <2> QED
    BY <2>2, <2>6 DEF Prefix
<1>11. ReadsFresh'
  <2>1. SUFFICES ASSUME NEW i \in Cmds, NEW u \in Uris, Clean(u)
                 PROVE  Fresh(i, u, items[i][u])' /\ Fresh(i, u, got[i][u])'
    BY <1>7 DEF ReadsFresh
  <2>2. Fresh(i, u, items[i][u]) /\ Fresh(i, u, got[i][u])
    BY <1>3, <2>1 DEF MapInv, Settled, ReadsFresh
  <2>3. CASE i > last
    <3>1. items'[i][u] = None /\ got'[i][u] = None
      BY <2>3, <1>0, <1>2 DEF Types
    <3> QED
      BY <3>1 DEF Fresh
  <2>4. CASE i <= last
    <3>1. i \in 0..MaxSeq /\ \A j \in 1..i : j \in Cmds /\ j # n
      BY <2>4, <1>0 DEF Cmds
    <3>2. Written(i, u)' = Written(i, u)
      BY <3>1, <1>1, WrittenKept
    <3>3. (Writer(i, u)' <=> Writer(i, u)) /\ Final(i, u)' = Final(i, u)
      BY <2>4, <1>4, <1>6
    <3>4. ~Writer(n, u)
      BY <1>1 DEF Writer, Puts
    <3>5. \A w \in Cmds : Writer(w, u) => Writer(w, u)'
      BY <3>4, <1>6
    <3>6. ASSUME NEW v, NEW v2, v2 = v, Fresh(i, u, v)
          PROVE  v2 # None =>
                   \/ Writer(i, u)' /\ v2 = Final(i, u)'
                   \/ ~Writer(i, u)' /\ (v2 = Written(i, u)' \/ \E w \in Cmds : i < w /\ Writer(w, u)')
      BY <3>2, <3>3, <3>5, <3>6 DEF Fresh
    <3> QED
      BY <2>2, <3>6, <1>2 DEF Fresh
  <2> QED
    BY <2>3, <2>4, <1>0 DEF Cmds
<1> QED
  BY <1>8, <1>9, <1>10, <1>11 DEF Settled

LEMMA LoseKeeps ==
    ASSUME MapInv, Lose
    PROVE  Settled'
<1>1. SUFFICES ASSUME Calm' PROVE Settled'
  BY DEF Settled, InOrder, WritesSucceed, Prefix, ReadsFresh
<1>2. Calm
  BY <1>1 DEF Calm, Lose, Meet
<1>3. UNCHANGED <<state, last, leaves, items, tree>> /\ batch' = {} /\ phase' = "idle"
  BY DEF Lose, SessionOver, queuevars
<1>4. \A i \in Cmds, u \in Uris : got'[i][u] = None
  BY DEF Lose, SessionOver, Nothing
<1>5. InOrder'
  BY <1>2, <1>3 DEF MapInv, Settled, InOrder, Done, Live
<1>6. WritesSucceed'
  BY <1>2, <1>3 DEF MapInv, Settled, WritesSucceed, Done, Writer, Puts
<1>7. Prefix'
  <2>1. PICK m \in 0..last : CarriedOut(m)
    BY <1>2 DEF MapInv, Settled, Prefix
  <2>2. m \in 0..MaxSeq
    BY ReconcileAssumption DEF MapInv, Types
  <2>3. CarriedOut(m)'
    BY <2>1, <2>2, <1>3, LeavesSame DEF CarriedOut, Done
  <2> QED
    BY <2>3, <1>3 DEF Prefix
<1>8. ReadsFresh'
  <2> SUFFICES ASSUME NEW i \in Cmds, NEW u \in Uris, Clean(u)'
               PROVE  Fresh(i, u, items[i][u])' /\ Fresh(i, u, got[i][u])'
    BY DEF ReadsFresh
  <2>1. Fresh(i, u, items[i][u])
    BY <1>2, <1>3, LeavesSame DEF MapInv, Settled, ReadsFresh
  <2>2. Fresh(i, u, items[i][u])'
    BY <2>1, <1>3, LeavesSame DEF Fresh
  <2> QED
    BY <2>2, <1>4 DEF Fresh
<1> QED
  BY <1>5, <1>6, <1>7, <1>8 DEF Settled

LEMMA DeliverKeeps ==
    ASSUME MapInv, Deliver
    PROVE  Settled'
<1>1. UNCHANGED <<last, leaves, items, tree, status, got, met>> /\ batch' = Live /\ phase' = "reply"
  BY DEF Deliver
<1>2. SUFFICES ASSUME Calm PROVE Settled'
  BY <1>1 DEF Settled, InOrder, WritesSucceed, Prefix, ReadsFresh, Calm
<1>3. Types /\ MaxSeq \in Nat /\ last \in 0..MaxSeq /\ state \in [Cmds -> States]
  BY ReconcileAssumption DEF MapInv, Types
<1>4. \A i \in Cmds : /\ Done(i)' <=> Done(i)
                      /\ i \in Live' <=> i \in Live
                      /\ state'[i] = "acknowledged" <=> state[i] = "acknowledged"
                      /\ ~(Done(i) /\ i \in Live)
  BY <1>3 DEF Done, Live, Deliver, MarkedSent
<1>5. /\ \A i \in Cmds : i <= last => Done(i) \/ i \in Live
      /\ \A x, w \in Cmds : x < w /\ Done(w) => Done(x)
  BY <1>2 DEF MapInv, Settled, InOrder
<1>6. \A b \in Live : b \in Cmds /\ b <= last
  BY <1>3, LiveIs
<1>7. \A b \in Live, y \in Cmds : y < b => y \in Live \/ Done(y)
  BY <1>3, <1>5, <1>6 DEF Cmds
<1>8. InOrder'
  <2>1. \A b \in Live, w \in Cmds : b < w /\ Done(w) => w \in Live
    BY <1>4, <1>5, <1>6
  <2> QED
    BY <2>1, <1>1, <1>4, <1>5, <1>7 DEF InOrder
<1>9. WritesSucceed'
  BY <1>1, <1>2, <1>4, LeavesSame DEF MapInv, Settled, WritesSucceed
<1>10. Prefix'
  <2>1. PICK m \in 0..last : CarriedOut(m)
    BY <1>2 DEF MapInv, Settled, Prefix
  <2>2. m \in 0..MaxSeq
    BY <1>3
  <2>3. \A b \in Live, w \in Cmds : b < w /\ w <= m => w \in Live
    <3>1. \A w \in Cmds : w <= m => w <= last
      BY <1>3, <2>1 DEF Cmds
    <3> QED
      BY <3>1, <1>4, <1>5, <1>6
  <2>4. CarriedOut(m)'
    BY <2>1, <2>2, <2>3, <1>1, <1>4, LeavesSame DEF CarriedOut
  <2> QED
    BY <2>4, <1>1 DEF Prefix
<1>11. ReadsFresh'
  <2> SUFFICES ASSUME NEW i \in Cmds, NEW u \in Uris, Clean(u)'
               PROVE  Fresh(i, u, items[i][u])' /\ Fresh(i, u, got[i][u])'
    BY DEF ReadsFresh
  <2>1. Fresh(i, u, items[i][u]) /\ Fresh(i, u, got[i][u])
    BY <1>1, <1>2, LeavesSame DEF MapInv, Settled, ReadsFresh
  <2> QED
    BY <2>1, <1>1, LeavesSame DEF Fresh
<1> QED
  BY <1>8, <1>9, <1>10, <1>11 DEF Settled

(* A session whose every answer is filed: the batch is done, and the reply
   carries everything that was not done before. *)
LEMMA HandleKeeps ==
    ASSUME MapInv, NEW F \in SUBSET batch, Handle(F)
    PROVE  Settled'
<1> DEFINE stored == {i \in batch : state[i] # "absent"}
<1>0. /\ Types /\ MaxSeq \in Nat /\ last \in 0..MaxSeq /\ state \in [Cmds -> States]
      /\ batch \subseteq Cmds /\ \A i \in batch : i <= last
  BY ReconcileAssumption DEF MapInv, Types
<1>1. SUFFICES ASSUME Calm' PROVE Settled'
  BY DEF Settled, InOrder, WritesSucceed, Prefix, ReadsFresh
<1>2. Calm
  BY <1>1, Zenon DEF Calm, Handle, Meet, NoTrouble
<1>3. /\ \A i \in Cmds : i <= last => Done(i) \/ i \in Live
      /\ \A x, w \in Cmds : x < w /\ Done(w) => Done(x)
      /\ \A b \in batch, y \in Cmds : y < b => y \in batch \/ Done(y)
  BY <1>2 DEF MapInv, Settled, InOrder
<1>4. stored = batch
  BY <1>0, <1>3 DEF Done, Live
<1>5. F = batch
  BY <1>1, <1>4 DEF Handle, Meet, Calm
<1>6. /\ UNCHANGED <<last, leaves, tree>>
      /\ phase = "answer" /\ phase' # "answer" /\ batch' = Live
      /\ state' = [i \in Cmds |-> IF i \notin batch THEN MarkedSent[i]
                                  ELSE IF status[i] = "ok" THEN "acknowledged" ELSE "failed"]
      /\ items' = [i \in Cmds |-> IF i \in batch THEN got[i] ELSE items[i]]
      /\ got' = [i \in Cmds |-> Nothing]
  BY <1>5 DEF Handle
<1>7. \A i \in Cmds : /\ Done(i)' <=> (i \in batch \/ Done(i))
                      /\ i \in Live' <=> (i \in Live /\ i \notin batch)
                      /\ ~(Done(i) /\ i \in Live)
  BY <1>0, <1>6 DEF Done, Live, MarkedSent
<1>8. \A b \in Live : b \in Cmds /\ b <= last
  BY <1>0, LiveIs
<1>9. \A b \in Live, w \in Cmds : b < w /\ w <= last => w \in Live
  BY <1>3, <1>7, <1>8
<1>10. InOrder'
  <2>1. \A i \in Cmds : i <= last => Done(i)' \/ i \in Live'
    BY <1>3, <1>7
  <2>2. \A x, w \in Cmds : x < w /\ Done(w)' => Done(x)'
    BY <1>3, <1>7
  <2>3. \A b \in Live, y \in Cmds : y < b => y \in Live \/ Done(y)'
    <3>1. \A b \in Live, y \in Cmds : y < b => y <= last
      BY <1>0, <1>8 DEF Cmds
    <3> QED
      BY <3>1, <1>3, <1>7
  <2>4. \A b \in Live, w \in Cmds : b < w /\ Done(w)' => w \in Live
    BY <1>0, <1>3, <1>7, <1>8, <1>9
  <2> QED
    BY <2>1, <2>2, <2>3, <2>4, <1>6 DEF InOrder
<1>11. WritesSucceed'
  <2> SUFFICES ASSUME NEW i \in Cmds, NEW u \in Uris, Writer(i, u)', Done(i)'
               PROVE  state'[i] = "acknowledged"
    BY <1>6 DEF WritesSucceed
  <2>1. Writer(i, u)
    BY <1>6, LeavesSame
  <2>2. CASE i \in batch
    BY <2>1, <2>2, <1>2, <1>6 DEF MapInv, Settled, WritesSucceed
  <2>3. CASE i \notin batch
    <3>1. state[i] = "acknowledged"
      BY <2>1, <2>3, <1>2, <1>7 DEF MapInv, Settled, WritesSucceed
    <3> QED
      BY <3>1, <2>3, <1>6 DEF MarkedSent, Live
  <2> QED
    BY <2>2, <2>3
<1>12. Prefix'
  <2>1. PICK m \in 0..last : CarriedOut(m)
    BY <1>2 DEF MapInv, Settled, Prefix
  <2>2. m \in 0..MaxSeq /\ \A w \in Cmds : w <= m => w <= last
    BY <1>0 DEF Cmds
  <2>3. \A i \in Cmds : Done(i)' => i <= m
    BY <2>1, <1>6, <1>7 DEF CarriedOut
  <2>4. \A b \in Live, w \in Cmds : b < w /\ w <= m => w \in Live
    BY <2>2, <1>9
  <2>5. CarriedOut(m)'
    BY <2>1, <2>2, <2>3, <2>4, <1>6, LeavesSame DEF CarriedOut
  <2> QED
    BY <2>5, <1>6 DEF Prefix
<1>13. ReadsFresh'
  <2> SUFFICES ASSUME NEW i \in Cmds, NEW u \in Uris, Clean(u)'
               PROVE  Fresh(i, u, items[i][u])' /\ Fresh(i, u, got[i][u])'
    BY DEF ReadsFresh
  <2>1. Fresh(i, u, items[i][u]) /\ Fresh(i, u, got[i][u])
    BY <1>2, <1>6, LeavesSame DEF MapInv, Settled, ReadsFresh
  <2>2. items'[i][u] = items[i][u] \/ items'[i][u] = got[i][u]
    BY <1>6
  <2>3. got'[i][u] = None
    BY <1>6 DEF Nothing
  <2>4. \A v : Fresh(i, u, v) => Fresh(i, u, v)'
    BY <1>6, LeavesSame
  <2> QED
    BY <2>1, <2>2, <2>3, <2>4 DEF Fresh
<1> QED
  BY <1>10, <1>11, <1>12, <1>13 DEF Settled

(* The device answers everything: it has now carried out the commands up to the
   last of the batch. *)
LEMMA AnswerPrefix ==
    ASSUME MapInv, Calm, Answer({})
    PROVE  Prefix'
<1>0. /\ Types /\ MaxSeq \in Nat /\ last \in 0..MaxSeq
      /\ batch \subseteq Cmds /\ \A i \in batch : i <= last
  BY ReconcileAssumption DEF MapInv, Types
<1>1. /\ UNCHANGED <<state, last, leaves, batch>>
      /\ tree' = [u \in Uris |-> Holds(batch, u, End)]
  <2>1. batch \ {} = batch
    OBVIOUS
  <2> QED
    BY <2>1 DEF Answer, queuevars
<1>2. \A b \in batch, y \in Cmds : y < b => y \in batch \/ Done(y)
  BY DEF MapInv, Settled, InOrder
<1>3. PICK m \in 0..last : CarriedOut(m)
  BY DEF MapInv, Settled, Prefix
<1>4. \E m2 \in 0..last : /\ m <= m2 /\ (m2 = m \/ m2 \in batch)
                           /\ \A b \in batch : b <= m2
  <2>1. CASE \A b \in batch : b <= m
    BY <2>1, <1>0
  <2>2. CASE ~(\A b \in batch : b <= m)
    <3>1. last \in Nat /\ batch \subseteq 0..last /\ batch # {}
      BY <2>2, <1>0 DEF Cmds
    <3>2. PICK c \in batch : \A b \in batch : b <= c
      BY <3>1, MaxExists, Zenon
    <3>3. c \in 0..last /\ m <= c
      BY <3>1, <3>2, <2>2
    <3> QED
      BY <3>2, <3>3
  <2> QED
    BY <2>1, <2>2
<1>5. PICK m2 \in 0..last : /\ m <= m2 /\ (m2 = m \/ m2 \in batch)
                            /\ \A b \in batch : b <= m2
  BY <1>4
<1>6. m \in 0..MaxSeq /\ m2 \in 0..MaxSeq
  BY <1>0, <1>3, <1>5
<1>7. \A w \in Cmds : m < w /\ w <= m2 => w \in batch
  <2>1. \A w \in Cmds : m < w => ~Done(w)
    BY <1>3, <1>6 DEF CarriedOut, Cmds
  <2> QED
    BY <2>1, <1>2, <1>5, <1>6 DEF Cmds
<1>8. \A b \in batch, w \in Cmds : b < w /\ w <= m2 => w \in batch
  <2>1. \A w \in Cmds : w <= m \/ m < w
    BY <1>6 DEF Cmds
  <2> QED
    BY <2>1, <1>3, <1>7 DEF CarriedOut
<1>9. ASSUME NEW u \in Uris, Clean(u)
      PROVE  tree'[u] = Written(m2, u)
  <2> DEFINE p == MaxSeq + 1
  <2>1. p \in Nat /\ p \notin Cmds /\ \A n \in Cmds : n < p
    BY <1>0 DEF Cmds
  <2>2. tree'[u] = Holds(batch, u, <<p, 0>>)
    BY <1>1 DEF End
  <2>3. \/ /\ \A n \in batch : n < p => ~Writer(n, u)
           /\ Holds(batch, u, <<p, 0>>) = tree[u]
        \/ \E n \in batch : /\ n < p /\ Writer(n, u)
                            /\ \A y \in batch : y < p /\ Writer(y, u) => y <= n
                            /\ Holds(batch, u, <<p, 0>>) = Final(n, u)
    <3> HIDE DEF p
    <3>1. p \notin batch
      BY <2>1, <1>0
    <3>2. Decided(batch, u, p, 0)
      BY <2>1, <3>1, <1>0, HoldsNewest
    <3> QED
      BY <3>2 DEF Decided
  <2> HIDE DEF p
  <2>4. CASE /\ \A n \in batch : n < p => ~Writer(n, u)
             /\ Holds(batch, u, <<p, 0>>) = tree[u]
    <3>1. \A y \in 1..m2 : Writer(y, u) => y <= m
      BY <2>1, <2>4, <1>0, <1>6, <1>7 DEF Cmds
    <3>2. Written(m2, u) = Written(m, u)
      BY <3>1, <1>5, <1>6, WrittenSame
    <3> QED
      BY <3>2, <2>2, <2>4, <1>3, <1>9 DEF CarriedOut
  <2>5. ASSUME NEW n \in batch, Writer(n, u),
               \A y \in batch : y < p /\ Writer(y, u) => y <= n,
               Holds(batch, u, <<p, 0>>) = Final(n, u)
        PROVE  tree'[u] = Written(m2, u)
    <3>1. n \in 1..m2 /\ 1..m2 \subseteq Cmds
      BY <1>0, <1>5, <1>6 DEF Cmds
    <3>2. \A y \in 1..m2 : Writer(y, u) => y <= n
      <4> SUFFICES ASSUME NEW y \in 1..m2, Writer(y, u), n < y PROVE FALSE
        BY <3>1, <1>6
      <4>1. y \in batch
        BY <3>1, <1>6, <1>8
      <4>2. y <= n
        BY <4>1, <3>1, <2>1, <2>5
      <4> QED
        BY <4>2, <3>1, <1>6
    <3>3. Written(m2, u) = Final(n, u)
      BY <3>1, <3>2, <2>5, <1>6, WrittenBy
    <3> QED
      BY <3>3, <2>2, <2>5
  <2> QED
    BY <2>3, <2>4, <2>5
<1>10. \A i \in Cmds : Done(i)' => i <= m2
  <2>1. \A i \in Cmds : Done(i) => i <= m
    BY <1>3 DEF CarriedOut
  <2>2. \A i \in Cmds : i <= m => i <= m2
    BY <1>5, <1>6 DEF Cmds
  <2> QED
    BY <2>1, <2>2, <1>1 DEF Done
<1>11. CarriedOut(m2)'
  <2>1. \A u \in Uris : Clean(u)' => tree'[u] = Written(m2, u)'
    BY <1>1, <1>6, <1>9, LeavesSame
  <2> QED
    BY <2>1, <1>1, <1>5, <1>8, <1>10 DEF CarriedOut
<1> QED
  BY <1>1, <1>11 DEF Prefix

(* What a Get of the batch reads. *)
LEMMA ReadIsFresh ==
    ASSUME MapInv, Calm, NEW i \in batch, NEW u \in Uris, Clean(u),
           NEW k \in DOMAIN leaves[i], leaves[i][k].verb = "get", leaves[i][k].uri = u
    PROVE  Fresh(i, u, Holds(batch, u, <<i, k>>))
<1>0. /\ Types /\ MaxSeq \in Nat /\ last \in 0..MaxSeq
      /\ batch \subseteq Cmds /\ i \in Cmds /\ i \in 0..MaxSeq /\ i <= last
  <2>1. Types /\ MaxSeq \in Nat
    BY ReconcileAssumption DEF MapInv
  <2>2. last \in 0..MaxSeq /\ batch \subseteq Cmds /\ \A b \in batch : b <= last
    BY <2>1 DEF Types
  <2>3. i \in Cmds /\ i <= last
    BY <2>2
  <2> QED
    BY <2>1, <2>2, <2>3 DEF Cmds
<1>1. k \in 1..2 /\ DOMAIN leaves[i] \subseteq 1..2
  BY <1>0, Leaves
<1>2. CASE Writer(i, u)
  (* A group that reads after it wrote reads its own write. *)
  <2> DEFINE W == {w \in Writes(batch, u) : Before(w, <<i, k>>)}
  <2>1. \A j \in Puts(i, u) : j = 1 /\ k = 2
    <3> SUFFICES ASSUME NEW j \in Puts(i, u) PROVE j = 1 /\ k = 2
      OBVIOUS
    <3>1. j \in DOMAIN leaves[i] /\ leaves[i][j].uri = u /\ leaves[i][j].verb = "replace"
      BY <1>0, CleanPuts
    <3>2. ~(k < j)
      BY <3>1, <1>0 DEF Clean, ReadFirst
    <3>3. j # k
      BY <3>1
    <3>4. j \in 1..2
      BY <3>1, <1>1
    <3> QED
      BY <3>2, <3>3, <3>4, <1>1
  <2>2. Puts(i, u) = {1} /\ k = 2
    BY <2>1, <1>2 DEF Writer
  <2>3. Newest(Puts(i, u)) = 1
    BY <2>2, <1>0, <1>2, PutsMax
  <2>4. <<i, 1>> \in W
    BY <2>2, <1>0 DEF Writes, Before, Puts
  <2>5. PICK w \in W : /\ \A v \in W : v = w \/ Before(v, w)
                       /\ Holds(batch, u, <<i, k>>) = leaves[w[1]][w[2]].value
    BY <2>4, <1>0, HoldsLast, ZenonT(60)
  <2>6. w[1] \in Nat /\ w[2] \in 1..2 /\ w = <<w[1], w[2]>> /\ i \in Nat
    <3>1. w \in batch \X (1..2)
      BY DEF Writes
    <3>2. \A n \in batch : n \in Nat
      BY <1>0 DEF Cmds
    <3> QED
      BY <3>1, <3>2
  <2>7. w = <<i, 1>>
    <3>1. Before(w, <<i, 2>>)
      BY <2>2
    <3>2. w = <<i, 1>> \/ Before(<<i, 1>>, w)
      BY <2>4, <2>5
    <3> QED
      BY <3>1, <3>2, <2>6 DEF Before
  <2>8. Holds(batch, u, <<i, k>>) = Final(i, u)
    BY <2>3, <2>5, <2>7 DEF Final
  <2> QED
    BY <2>8, <1>2 DEF Fresh
<1>3. CASE ~Writer(i, u)
  <2>1. /\ \A b \in batch, y \in Cmds : y < b => y \in batch \/ Done(y)
        /\ \A b \in batch, w \in Cmds : b < w /\ Done(w) => w \in batch
    BY DEF MapInv, Settled, InOrder
  <2>2. PICK m \in 0..last : CarriedOut(m)
    BY DEF MapInv, Settled, Prefix
  <2>3. m \in 0..MaxSeq /\ 1..i \subseteq Cmds /\ 1..m \subseteq Cmds
    BY <1>0, <2>2 DEF Cmds
  <2>4. Puts(i, u) = {} /\ i \in Nat /\ k \in Nat
    BY <1>0, <1>1, <1>3 DEF Writer
  <2>5. \/ /\ \A n \in batch : n < i => ~Writer(n, u)
           /\ Holds(batch, u, <<i, k>>) = tree[u]
        \/ \E n \in batch : /\ n < i /\ Writer(n, u)
                            /\ \A y \in batch : y < i /\ Writer(y, u) => y <= n
                            /\ Holds(batch, u, <<i, k>>) = Final(n, u)
    <3>1. Types /\ batch \subseteq Cmds /\ i \in Nat /\ k \in Nat
      BY <2>4, <1>0
    <3>2. Decided(batch, u, i, k)
      BY <3>1, <1>3, HoldsNewest, Zenon
    <3> QED
      BY <3>2 DEF Decided
  <2>6. CASE /\ \A n \in batch : n < i => ~Writer(n, u)
             /\ Holds(batch, u, <<i, k>>) = tree[u]
    <3>1. tree[u] = Written(m, u)
      BY <2>2 DEF CarriedOut
    <3>2. CASE i <= m /\ \E w \in 1..m : i < w /\ Writer(w, u)
      BY <3>2, <2>3, <1>3 DEF Fresh
    <3>3. CASE i <= m /\ ~(\E w \in 1..m : i < w /\ Writer(w, u))
      <4>1. \A y \in 1..m : Writer(y, u) => y <= i
        BY <3>3, <1>0, <2>3
      <4>2. Written(m, u) = Written(i, u)
        BY <4>1, <3>3, <2>3, <1>0, WrittenSame
      <4> QED
        BY <4>2, <3>1, <2>6, <1>3 DEF Fresh
    <3>4. CASE m < i
      <4>1. \A y \in 1..i : Writer(y, u) => y <= m
        <5> SUFFICES ASSUME NEW y \in 1..i, Writer(y, u), m < y PROVE FALSE
          BY <2>3, <1>0
        <5>1. y \in Cmds /\ y < i
          BY <2>3, <1>0, <1>3
        <5>2. ~Done(y)
          BY <5>1, <2>2, <2>3 DEF CarriedOut, Cmds
        <5>3. y \in batch
          BY <5>1, <5>2, <2>1
        <5> QED
          BY <5>1, <5>3, <2>6
      <4>2. Written(i, u) = Written(m, u)
        BY <4>1, <3>4, <2>3, <1>0, WrittenSame
      <4> QED
        BY <4>2, <3>1, <2>6, <1>3 DEF Fresh
    <3> QED
      BY <3>2, <3>3, <3>4, <1>0, <2>3
  <2>7. ASSUME NEW n \in batch, n < i, Writer(n, u),
               \A y \in batch : y < i /\ Writer(y, u) => y <= n,
               Holds(batch, u, <<i, k>>) = Final(n, u)
        PROVE  Fresh(i, u, Holds(batch, u, <<i, k>>))
    <3>1. n \in Cmds /\ n \in 1..i
      BY <2>7, <1>0 DEF Cmds
    <3>2. \A y \in 1..i : Writer(y, u) => y <= n
      <4> SUFFICES ASSUME NEW y \in 1..i, Writer(y, u), n < y PROVE FALSE
        BY <3>1, <1>0
      <4>1. y \in Cmds /\ y < i
        BY <2>3, <1>0, <1>3
      <4>2. y \in batch
        BY <4>1, <2>1
      <4>3. y <= n
        BY <4>1, <4>2, <2>7
      <4> QED
        BY <4>3, <3>1, <1>0
    <3>3. Written(i, u) = Final(n, u)
      BY <3>1, <3>2, <2>7, <1>0, WrittenBy
    <3> QED
      BY <3>3, <2>7, <1>3 DEF Fresh
  <2> QED
    BY <2>5, <2>6, <2>7
<1> QED
  BY <1>2, <1>3

LEMMA AnswerKeeps ==
    ASSUME MapInv, NEW E \in SUBSET batch, Answer(E)
    PROVE  Settled'
<1> DEFINE S == batch \ E
           reads == {r \in S \X (1..2) : /\ r[2] \in DOMAIN leaves[r[1]]
                                         /\ leaves[r[1]][r[2]].verb = "get"}
           missing == {r \in reads : Holds(S, leaves[r[1]][r[2]].uri, r) = None}
<1>0. Types /\ batch \subseteq Cmds
  BY DEF MapInv, Types
<1>1. SUFFICES ASSUME Calm' PROVE Settled'
  BY DEF Settled, InOrder, WritesSucceed, Prefix, ReadsFresh
<1>2. Calm
  BY <1>1, Zenon DEF Calm, Answer, Meet, NoTrouble
<1>3. E = {}
  <2>1. E # {} => Meet("failed")
    BY Zenon DEF Answer
  <2> QED
    BY <2>1, <1>1 DEF Calm, Meet
<1>4. batch \ E = batch /\ Answer({})
  BY <1>3
<1>5. UNCHANGED <<state, last, leaves, items, batch>>
  BY DEF Answer, queuevars
<1>6. status' = [i \in Cmds |-> IF i \notin batch THEN "none"
                                ELSE IF i \in E \/ (<<i, 1>> \in missing /\ Len(leaves[i]) = 1)
                                THEN "error" ELSE "ok"]
  BY DEF Answer
<1>7. got' = [i \in Cmds |-> [u \in Uris |->
                 LET R == {r \in reads : r[1] = i /\ leaves[i][r[2]].uri = u}
                 IN  IF R = {} THEN None ELSE Holds(S, u, CHOOSE r \in R : TRUE)]]
  BY DEF Answer
<1>8. InOrder'
  BY <1>2, <1>5 DEF MapInv, Settled, InOrder, Done, Live
<1>9. WritesSucceed'
  <2> SUFFICES ASSUME NEW i \in Cmds, NEW u \in Uris, Writer(i, u)'
               PROVE  /\ Done(i)' => state'[i] = "acknowledged"
                      /\ i \in batch' => status'[i] = "ok"
    BY DEF WritesSucceed
  <2>1. Writer(i, u)
    BY <1>5, LeavesSame
  <2>2. Done(i)' => state'[i] = "acknowledged"
    BY <2>1, <1>2, <1>5 DEF MapInv, Settled, WritesSucceed, Done
  <2>3. ~(<<i, 1>> \in missing /\ Len(leaves[i]) = 1)
    <3> SUFFICES ASSUME <<i, 1>> \in missing, Len(leaves[i]) = 1 PROVE FALSE
      OBVIOUS
    <3>1. leaves[i][1].verb = "get"
      OBVIOUS
    <3>2. DOMAIN leaves[i] = 1..1
      BY <1>0, Leaves
    <3> QED
      BY <3>1, <3>2, <2>1 DEF Writer, Puts
  <2> HIDE DEF missing
  <2> QED
    BY <2>2, <2>3, <1>3, <1>5, <1>6
<1>10. Prefix'
  BY <1>2, <1>4, AnswerPrefix
<1>11. ReadsFresh'
  <2> SUFFICES ASSUME NEW i \in Cmds, NEW u \in Uris, Clean(u)'
               PROVE  Fresh(i, u, items[i][u])' /\ Fresh(i, u, got[i][u])'
    BY DEF ReadsFresh
  <2> DEFINE R == {r \in reads : r[1] = i /\ leaves[i][r[2]].uri = u}
  <2>1. Clean(u) /\ Fresh(i, u, items[i][u])
    BY <1>2, <1>5, LeavesSame DEF MapInv, Settled, ReadsFresh
  <2>2. \A v : Fresh(i, u, v) => Fresh(i, u, v)'
    BY <1>5, LeavesSame
  <2>3. got'[i][u] = IF R = {} THEN None ELSE Holds(S, u, CHOOSE r \in R : TRUE)
    BY <1>7
  <2>4. CASE R = {}
    BY <2>1, <2>2, <2>3, <2>4, <1>5, Zenon DEF Fresh
  <2>5. CASE R # {}
    <3>1. PICK r \in R : got'[i][u] = Holds(batch, u, r)
      BY <2>3, <2>5, <1>4, Zenon
    <3>2. /\ r = <<i, r[2]>> /\ i \in batch /\ r[2] \in DOMAIN leaves[i]
          /\ leaves[i][r[2]].verb = "get" /\ leaves[i][r[2]].uri = u
      <4>1. r \in S \X (1..2) /\ r[1] = i /\ leaves[i][r[2]].uri = u
        BY Zenon
      <4>2. r[2] \in DOMAIN leaves[r[1]] /\ leaves[r[1]][r[2]].verb = "get"
        BY Zenon
      <4>3. r = <<r[1], r[2]>> /\ r[1] \in batch
        BY <4>1
      <4> QED
        BY <4>1, <4>2, <4>3
    <3>3. Fresh(i, u, got'[i][u])
      BY <3>1, <3>2, <2>1, <1>2, ReadIsFresh
    <3> QED
      BY <3>3, <2>1, <2>2, <1>5 DEF Fresh
  <2> QED
    BY <2>4, <2>5
<1> QED
  BY <1>8, <1>9, <1>10, <1>11 DEF Settled

LEMMA SettledStep == MapInv /\ [ReconcileNext]_reconvars => Settled'
<1> SUFFICES ASSUME MapInv, [ReconcileNext]_reconvars PROVE Settled'
  OBVIOUS
<1>0. Types /\ Settled
  BY DEF MapInv
<1>1. ASSUME NEW body \in Changes, Change(body) PROVE Settled'
  <2>1. body \in Body
    BY ReconcileAssumption DEF Body
  <2> QED
    BY <1>1, <2>1, AppendKeeps DEF Change
<1>2. ASSUME NEW i \in Cmds, Cancel(i) PROVE Settled'
  <2>1. ~Calm'
    BY <1>2 DEF Cancel, Meet, Calm
  <2> QED
    BY <2>1 DEF Settled, InOrder, WritesSucceed, Prefix, ReadsFresh
<1>3. ASSUME NEW P \in SUBSET Cmds, Prune(P) PROVE Settled'
  <2>1. ~Calm'
    BY <1>3 DEF Prune, Meet, Calm
  <2> QED
    BY <2>1 DEF Settled, InOrder, WritesSucceed, Prefix, ReadsFresh
<1>4. ASSUME Deliver PROVE Settled'
  BY <1>4, DeliverKeeps
<1>5. ASSUME NEW E \in SUBSET batch, Answer(E) PROVE Settled'
  BY <1>5, AnswerKeeps
<1>6. ASSUME NEW F \in SUBSET batch, Handle(F) PROVE Settled'
  BY <1>6, HandleKeeps
<1>7. ASSUME Lose PROVE Settled'
  BY <1>7, LoseKeeps
<1>8. ASSUME StartReconcile \/ ReadPage \/ Diff \/ UNCHANGED reconvars PROVE Settled'
  <2>1. UNCHANGED <<state, last, leaves, items, tree, phase, batch, status, got, met>>
    BY <1>8 DEF StartReconcile, ReadPage, Diff, reconvars, queuevars, sessionvars
  <2> QED
    BY <2>1, <1>0, CallerKeeps
<1>9. ASSUME NEW u \in Uris, EnqueueDiff(u) PROVE Settled'
  <2> DEFINE body == <<[verb |-> "replace", uri |-> u, value |-> Desired[u]]>>
  <2>1. Desired[u] \in Known /\ Desired[u] # None
    BY <1>0, <1>9, ReconcileAssumption DEF Types, EnqueueDiff
  <2>2. body \in Seq(Leaf) /\ Len(body) = 1 /\ DOMAIN body = 1..1
    BY <2>1 DEF Leaf
  <2>3. body \in Body
    BY <2>1, <2>2 DEF Body
  <2>4. Append1(body)
    BY <1>9 DEF EnqueueDiff
  <2> HIDE DEF body
  <2> QED
    BY <2>3, <2>4, AppendKeeps
<1> QED
  BY <1>1, <1>2, <1>3, <1>4, <1>5, <1>6, <1>7, <1>8, <1>9 DEF ReconcileNext, Caller

(* The invariant tells what the map of a caller that starts now would hold. *)
LEMMA SettledMap == MapInv => MapIsCurrent
<1> SUFFICES ASSUME MapInv, Calm, NEW u \in Uris,
                    ~Outstanding(u), Clean(u), Tells(Acked(state), u) # {}
             PROVE  Told(Newest(Tells(Acked(state), u)), u) = tree[u]
  BY DEF MapIsCurrent, Calm, Clean
<1> DEFINE T == Tells(Acked(state), u)
           i == Newest(T)
<1>0. Types /\ MaxSeq \in Nat /\ last \in 0..MaxSeq
  BY ReconcileAssumption DEF MapInv, Types
<1>1. i \in T /\ i \in Cmds /\ \A j \in T : j <= i
  <2>1. Acked(state) \subseteq Cmds
    BY DEF Acked
  <2> QED
    BY <2>1, NewestTells
<1> SUFFICES Told(i, u) = tree[u]
  OBVIOUS
<1> HIDE DEF i
<1>2. state[i] = "acknowledged" /\ i \in 0..MaxSeq
  BY <1>0, <1>1 DEF Tells, Acked, Cmds
<1>3. \A n \in Cmds : Writer(n, u) => n \in T
  <2> SUFFICES ASSUME NEW n \in Cmds, Writer(n, u) PROVE n \in T
    OBVIOUS
  <2>1. PICK k \in DOMAIN leaves[n] : leaves[n][k].uri = u /\ leaves[n][k].verb = "replace"
    <3>1. PICK k \in Puts(n, u) : TRUE
      BY DEF Writer
    <3>2. Puts(n, u) = {k2 \in DOMAIN leaves[n] : leaves[n][k2].uri = u /\ leaves[n][k2].verb = "replace"}
      BY <1>0, CleanPuts
    <3> QED
      BY <3>1, <3>2
  <2>2. n \notin Live
    BY <2>1 DEF Outstanding, Does
  <2>3. n <= last
    <3> SUFFICES ASSUME n > last PROVE FALSE
      BY <1>0 DEF Cmds
    <3>1. leaves[n] = <<>>
      BY <1>0 DEF Types
    <3> QED
      BY <2>1, <3>1
  <2>4. Done(n)
    BY <2>2, <2>3 DEF MapInv, Settled, InOrder
  <2>5. state[n] = "acknowledged"
    BY <2>4 DEF MapInv, Settled, WritesSucceed
  <2> QED
    BY <2>1, <2>5 DEF Tells, Acked
<1>4. \A n \in Cmds : Writer(n, u) => n <= i
  BY <1>1, <1>3
<1>5. PICK m \in 0..last : CarriedOut(m)
  BY DEF MapInv, Settled, Prefix
<1>6. m \in 0..MaxSeq /\ i <= m /\ 1..m \subseteq Cmds /\ i \in 1..m
  <2>1. m \in 0..MaxSeq /\ 1..m \subseteq Cmds
    BY <1>0, <1>5 DEF Cmds
  <2>2. i <= m
    BY <1>1, <1>2, <1>5 DEF CarriedOut, Done
  <2> QED
    BY <2>1, <2>2, <1>0, <1>1 DEF Cmds
<1>7. tree[u] = Written(m, u)
  BY <1>5 DEF CarriedOut
<1>8. Fresh(i, u, items[i][u])
  BY <1>1 DEF MapInv, Settled, ReadsFresh
<1>9. CASE Writer(i, u)
  <2>1. Written(m, u) = Final(i, u)
    BY <1>4, <1>6, <1>9, WrittenBy
  <2>2. CASE items[i][u] # None
    BY <2>1, <2>2, <1>7, <1>8, <1>9 DEF Fresh, Told
  <2>3. CASE items[i][u] = None
    <3>1. Told(i, u) = Final(i, u)
      BY <2>3, <1>0, <1>1, CleanPuts, Zenon DEF Told, Final
    <3> QED
      BY <3>1, <2>1, <1>7
  <2> QED
    BY <2>2, <2>3
<1>10. CASE ~Writer(i, u)
  <2>1. Written(m, u) = Written(i, u)
    BY <1>2, <1>4, <1>6, WrittenSame
  <2>2. items[i][u] # None
    <3>1. ~(\E k \in DOMAIN leaves[i] : leaves[i][k].uri = u /\ leaves[i][k].verb = "replace")
      BY <1>10 DEF Writer, Puts
    <3> QED
      BY <3>1, <1>1 DEF Tells
  <2>3. ~(\E w \in Cmds : i < w /\ Writer(w, u))
    BY <1>0, <1>1, <1>4 DEF Cmds
  <2>4. Told(i, u) = Written(i, u)
    BY <2>2, <2>3, <1>8, <1>10 DEF Fresh, Told
  <2> QED
    BY <2>1, <2>4, <1>7
<1> QED
  BY <1>9, <1>10

-----------------------------------------------------------------------------
(* reconcile.go "so the map holds the current value": whatever is carried out
   twice, lost, or written by operators meanwhile, the newest acknowledged command
   that tells a value tells what the device holds (Settled). *)
THEOREM MapCurrent == ReconcileSpec => []MapIsCurrent
<1>1. ReconcileInit => MapInv
  BY TypesInit, SettledInit DEF MapInv
<1>2. MapInv /\ [ReconcileNext]_reconvars => MapInv'
  BY TypesStep, SettledStep DEF MapInv
<1> QED
  BY <1>1, <1>2, SettledMap, PTL DEF ReconcileSpec
=============================================================================
