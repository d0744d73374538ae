-------------------------- MODULE RateLimitProofs --------------------------
(***************************************************************************)
(* For any keys, quotas, capacity and call history the limiter keeps its   *)
(* rate, its capacity and its word on when to come again.                  *)
(***************************************************************************)
EXTENDS RateLimit, FiniteSetTheorems, TLAPS

(* A time has passed, or the record of k says that it is still to come. *)
Reached(k, t) == t <= now \/ t <= tat[k]

(* The stored time is at most a full burst ahead. *)
Ahead == \A k \in Keys : tat[k] <= now + Slack(k) + Interval[k]

(* Every request counted since the moment moved the stored time by an interval. *)
Counted ==
    /\ since <= now
    /\ \A k \in Keys : Reached(k, since + count[k] * Interval[k])

(* One bucket of the denial stays as far ahead as it was. *)
Owing == denied.asked # {} =>
    \E k \in denied.asked : /\ denied.retry <= Interval[k]
                            /\ Reached(k, denied.at + denied.retry + Slack(k))

(* As long as none of its buckets is used, none is further ahead. *)
Enough == denied.fresh =>
    /\ denied.at <= now
    /\ \A k \in denied.asked : tat[k] <= denied.at + denied.retry + Slack(k)

IInv == TypeOK /\ Ahead /\ Counted /\ Owing /\ Enough /\ CapacityBound
-----------------------------------------------------------------------------
(* Arithmetic of the quotas. *)
LEMMA Product ==
    ASSUME NEW a \in Nat, NEW b \in Nat
    PROVE  /\ a * b \in Nat
           /\ (a + 1) * b = a * b + b
  OBVIOUS

LEMMA Quotas ==
    ASSUME NEW k \in Keys
    PROVE  /\ Interval[k] \in Nat \ {0}
           /\ Slack(k) \in Nat
           /\ Burst[k] * Interval[k] = Slack(k) + Interval[k]
  <1>1. /\ Interval[k] \in Nat \ {0} /\ Burst[k] \in Nat \ {0}
    BY LimitAssumption
  <1>2. Burst[k] - 1 \in Nat /\ (Burst[k] - 1) + 1 = Burst[k]
    BY <1>1
  <1>3. QED
    BY <1>1, <1>2, Product DEF Slack

(* The header is a whole number of seconds that covers the wait. *)
LEMMA HeaderCovers ==
    ASSUME NEW r \in Nat
    PROVE  Header(r) * Second >= r
  <1> DEFINE s == (r + Second - 1) \div Second
  <1>1. Second \in Nat /\ Second > 0
    BY LimitAssumption
  <1>2. s \in Int /\ s * Second + ((r + Second - 1) % Second) = r + Second - 1
    BY <1>1
  <1>3. (r + Second - 1) % Second \in 0..(Second - 1)
    BY <1>1
  <1> HIDE DEF s
  <1>4. s * Second \in Int
    BY <1>1, <1>2
  <1>5. s * Second >= r
    BY <1>1, <1>2, <1>3, <1>4
  <1>6. s < 1 => s * Second <= 0
    BY <1>1, <1>2
  <1>7. Header(r) = IF s < 1 THEN 1 ELSE s
    BY DEF Header, s
  <1>8. QED
    BY <1>1, <1>2, <1>4, <1>5, <1>6, <1>7
-----------------------------------------------------------------------------
(* What a step does to the record of one key. *)
Charged(k) ==
    /\ tat'[k] \in Nat
    /\ now + Interval[k] <= tat'[k] /\ tat[k] + Interval[k] <= tat'[k]
    /\ tat'[k] <= now + Slack(k) + Interval[k]
Kept(k) == tat'[k] = tat[k] \/ (tat'[k] = 0 /\ tat[k] <= now)

(* An admitted request charges its buckets and keeps or reclaims the others. *)
LEMMA AdmitRecords ==
    ASSUME TypeOK, NEW B \in SUBSET Keys, Admit(B)
    PROVE  /\ \A k \in B : Charged(k)
           /\ \A k \in Keys \ B : Kept(k)
  <1>1. ASSUME NEW k \in B PROVE Charged(k)
    <2>1. /\ tat[k] \in Nat /\ now \in Nat /\ Slack(k) \in Nat /\ Interval[k] \in Nat \ {0}
      BY Quotas DEF TypeOK
    <2>2. Tat(k) - Slack(k) <= now
      BY <2>1 DEF Admit, OverQuota, AllowAt, Tat
    <2>3. tat'[k] = (IF Tat(k) < now THEN now ELSE Tat(k)) + Interval[k]
      BY DEF Admit, NextTat
    <2>4. QED
      BY <2>1, <2>2, <2>3 DEF Charged, Tat
  <1>2. ASSUME NEW k \in Keys \ B PROVE Kept(k)
    <2>1. tat'[k] = IF k \in Reclaimed(B) THEN 0 ELSE tat[k]
      BY DEF Admit
    <2>2. QED
      BY <2>1 DEF Kept, Reclaimed, Expired
  <1>3. QED
    BY <1>1, <1>2

(* Every other step keeps every record or deletes it once it has expired. *)
LEMMA OtherRecords ==
    ASSUME TypeOK, [Next]_vars, \A B \in SUBSET Keys : ~Admit(B)
    PROVE  /\ \A k \in Keys : Kept(k)
           /\ now' \in Nat \ {0} /\ now <= now'
  <1>1. CASE \E B \in SUBSET Keys : Deny(B) \/ Full(B)
    BY <1>1 DEF Deny, Full, Kept, TypeOK, vars
  <1>2. CASE \E P \in SUBSET Keys : Prune(P)
    BY <1>2 DEF Prune, Prunable, Expired, Kept, TypeOK
  <1>3. CASE Tick
    BY <1>3 DEF Tick, Kept, TypeOK
  <1>4. CASE Observe
    BY <1>4 DEF Observe, Kept, TypeOK
  <1>5. CASE UNCHANGED vars
    BY <1>5 DEF vars, Kept, TypeOK
  <1>6. QED
    BY <1>1, <1>2, <1>3, <1>4, <1>5 DEF Next

(* A wait that a denial reports. *)
LEMMA Wait ==
    ASSUME TypeOK, Ahead, NEW B \in SUBSET Keys, NEW r \in RetryAfter(B)
    PROVE  /\ r \in Nat
           /\ \E k \in B : r <= Interval[k] /\ now + r + Slack(k) = tat[k]
           /\ \A k \in B : tat[k] <= now + r + Slack(k)
  <1>1. \A k \in B : /\ tat[k] \in Nat /\ now \in Nat /\ Slack(k) \in Nat /\ Interval[k] \in Nat
                     /\ tat[k] <= now + Slack(k) + Interval[k]
    BY Quotas DEF TypeOK, Ahead
  <1>2. PICK k \in B : r = AllowAt(k) - now /\ AllowAt(k) > now
    BY DEF RetryAfter, OverQuota
  <1>3. tat[k] # 0
    BY <1>1, <1>2 DEF AllowAt, Tat
  <1>4. r \in Nat /\ r <= Interval[k] /\ now + r + Slack(k) = tat[k]
    BY <1>1, <1>2, <1>3 DEF AllowAt, Tat
  <1>5. ASSUME NEW j \in B PROVE tat[j] <= now + r + Slack(j)
    <2>1. CASE AllowAt(j) > now
      <3>1. AllowAt(j) - now <= r
        BY <2>1 DEF RetryAfter, OverQuota
      <3>2. QED
        BY <1>1, <1>4, <3>1 DEF AllowAt, Tat
    <2>2. CASE ~(AllowAt(j) > now)
      BY <1>1, <1>4, <2>2 DEF AllowAt, Tat
    <2>3. QED
      BY <2>1, <2>2
  <1>6. QED
    BY <1>4, <1>5
-----------------------------------------------------------------------------
LEMMA InitIInv == Init => IInv
  <1> SUFFICES ASSUME Init PROVE IInv
    OBVIOUS
  <1>1. TypeOK
    BY DEF Init, TypeOK, NoDenial
  <1>2. \A k \in Keys : Interval[k] \in Nat /\ Slack(k) \in Nat /\ 0 * Interval[k] = 0
    BY Quotas
  <1>3. Ahead /\ Counted
    BY <1>2 DEF Init, Ahead, Counted, Reached
  <1>4. Owing /\ Enough
    BY DEF Init, NoDenial, Owing, Enough
  <1>5. Records = {}
    BY DEF Init, Records
  <1>6. CapacityBound
    BY <1>5, FS_EmptySet, LimitAssumption DEF CapacityBound
  <1>7. QED
    BY <1>1, <1>3, <1>4, <1>6 DEF IInv

LEMMA TypeStep == TypeOK /\ Ahead /\ [Next]_vars => TypeOK'
  <1> SUFFICES ASSUME TypeOK, Ahead, [Next]_vars PROVE TypeOK'
    OBVIOUS
  <1>1. ASSUME NEW B \in SUBSET Keys, Admit(B) PROVE TypeOK'
    <2>1. \A k \in Keys : tat'[k] \in Nat
      BY <1>1, AdmitRecords DEF Charged, Kept, TypeOK
    <2>2. tat' \in [Keys -> Nat]
      BY <1>1, <2>1 DEF Admit
    <2>3. count' \in [Keys -> Nat]
      BY <1>1 DEF Admit, TypeOK
    <2>4. denied' \in [asked: SUBSET Keys, at: Nat, retry: Nat, fresh: BOOLEAN]
      BY <1>1 DEF Admit, TypeOK
    <2>5. QED
      BY <1>1, <2>2, <2>3, <2>4 DEF Admit, TypeOK
  <1>2. ASSUME NEW B \in SUBSET Keys, Deny(B) PROVE TypeOK'
    BY <1>2, Wait DEF Deny, TypeOK
  <1>3. ASSUME NEW B \in SUBSET Keys, Full(B) PROVE TypeOK'
    BY <1>3 DEF Full, TypeOK, vars
  <1>4. ASSUME NEW P \in SUBSET Keys, Prune(P) PROVE TypeOK'
    BY <1>4 DEF Prune, TypeOK
  <1>5. CASE Tick
    BY <1>5 DEF Tick, TypeOK
  <1>6. CASE Observe
    BY <1>6 DEF Observe, TypeOK
  <1>7. CASE UNCHANGED vars
    BY <1>7 DEF vars, TypeOK
  <1>8. QED
    BY <1>1, <1>2, <1>3, <1>4, <1>5, <1>6, <1>7 DEF Next

LEMMA AheadStep == TypeOK /\ Ahead /\ [Next]_vars => Ahead'
  <1> SUFFICES ASSUME TypeOK, Ahead, [Next]_vars, NEW k \in Keys
               PROVE  tat'[k] <= now' + Slack(k) + Interval[k]
    BY DEF Ahead, Slack
  <1>1. /\ tat[k] \in Nat /\ now \in Nat /\ Slack(k) \in Nat /\ Interval[k] \in Nat
        /\ tat[k] <= now + Slack(k) + Interval[k]
    BY Quotas DEF TypeOK, Ahead
  <1>2. ASSUME NEW B \in SUBSET Keys, Admit(B) PROVE tat'[k] <= now' + Slack(k) + Interval[k]
    <2>1. Charged(k) \/ Kept(k)
      BY <1>2, AdmitRecords
    <2>2. now' = now
      BY <1>2 DEF Admit
    <2>3. QED
      BY <1>1, <2>1, <2>2 DEF Charged, Kept
  <1>3. CASE \A B \in SUBSET Keys : ~Admit(B)
    <2>1. Kept(k) /\ now' \in Nat /\ now <= now'
      BY <1>3, OtherRecords
    <2>2. QED
      BY <1>1, <2>1 DEF Kept
  <1>4. QED
    BY <1>2, <1>3

LEMMA CountedStep == TypeOK /\ Counted /\ [Next]_vars => Counted'
  <1> SUFFICES ASSUME TypeOK, Counted, [Next]_vars PROVE Counted'
    OBVIOUS
  <1>1. \A k \in Keys : /\ tat[k] \in Nat /\ count[k] \in Nat /\ Interval[k] \in Nat
                        /\ count[k] * Interval[k] \in Nat
                        /\ (count[k] + 1) * Interval[k] = count[k] * Interval[k] + Interval[k]
    BY Quotas, Product DEF TypeOK
  <1>2. now \in Nat /\ since \in Nat /\ since <= now
    BY DEF TypeOK, Counted
  <1>3. ASSUME NEW B \in SUBSET Keys, Admit(B) PROVE Counted'
    <2>1. now' = now /\ since' = since
      BY <1>3 DEF Admit
    <2>2. ASSUME NEW k \in B
          PROVE  since + count[k] * Interval[k] + Interval[k] <= tat'[k]
      <3>1. Charged(k)
        BY <1>3, AdmitRecords
      <3>2. Reached(k, since + count[k] * Interval[k])
        BY DEF Counted
      <3>3. QED
        BY <1>1, <1>2, <3>1, <3>2 DEF Charged, Reached
    <2>3. ASSUME NEW k \in Keys \ B
          PROVE  \/ since + count[k] * Interval[k] <= now
                 \/ since + count[k] * Interval[k] <= tat'[k]
      <3>1. Kept(k)
        BY <1>3, AdmitRecords
      <3>2. Reached(k, since + count[k] * Interval[k])
        BY DEF Counted
      <3>3. QED
        BY <1>1, <1>2, <3>1, <3>2 DEF Kept, Reached
    <2>4. \A k \in Keys : count'[k] = IF k \in B THEN count[k] + 1 ELSE count[k]
      BY <1>3 DEF Admit
    <2>5. ASSUME NEW k \in Keys
          PROVE  \/ since + count'[k] * Interval[k] <= now
                 \/ since + count'[k] * Interval[k] <= tat'[k]
      <3>1. CASE k \in B
        <4>1. count'[k] * Interval[k] = count[k] * Interval[k] + Interval[k]
          BY <1>1, <2>4, <3>1
        <4>2. QED
          BY <1>1, <1>2, <2>2, <3>1, <4>1
      <3>2. CASE k \notin B
        BY <2>3, <2>4, <3>2
      <3>3. QED
        BY <3>1, <3>2
    <2>6. QED
      BY <1>2, <2>1, <2>5 DEF Counted, Reached
  <1>4. CASE Observe
    <2>1. since' = now /\ now' = now /\ count' = [k \in Keys |-> 0]
      BY <1>4 DEF Observe
    <2>2. \A k \in Keys : now + count'[k] * Interval[k] = now
      BY <1>1, <1>2, <2>1
    <2>3. QED
      BY <1>2, <2>1, <2>2 DEF Counted, Reached
  <1>5. CASE ~Observe /\ \A B \in SUBSET Keys : ~Admit(B)
    <2>1. since' = since /\ count' = count
      BY <1>5 DEF Next, Deny, Full, Prune, Tick, vars
    <2>2. \A k \in Keys : Kept(k)
      BY <1>5, OtherRecords
    <2>3. now' \in Nat /\ now <= now'
      BY <1>5, OtherRecords
    <2>4. ASSUME NEW k \in Keys
          PROVE  \/ since + count[k] * Interval[k] <= now'
                 \/ since + count[k] * Interval[k] <= tat'[k]
      <3>1. Kept(k) /\ Reached(k, since + count[k] * Interval[k])
        BY <2>2 DEF Counted
      <3>2. QED
        BY <1>1, <1>2, <2>3, <3>1 DEF Kept, Reached
    <2>5. QED
      BY <1>2, <2>1, <2>3, <2>4 DEF Counted, Reached
  <1>6. QED
    BY <1>3, <1>4, <1>5

LEMMA OwingStep == TypeOK /\ Ahead /\ Owing /\ [Next]_vars => Owing'
  <1> SUFFICES ASSUME TypeOK, Ahead, Owing, [Next]_vars PROVE Owing'
    OBVIOUS
  <1>1. /\ denied.at \in Nat /\ denied.retry \in Nat /\ now \in Nat
        /\ \A k \in Keys : tat[k] \in Nat /\ Slack(k) \in Nat /\ Interval[k] \in Nat
    BY Quotas DEF TypeOK
  <1>2. ASSUME NEW B \in SUBSET Keys, Deny(B) PROVE Owing'
    <2>1. PICK r \in RetryAfter(B) : denied' = [asked |-> B, at |-> now, retry |-> r, fresh |-> TRUE]
      BY <1>2 DEF Deny
    <2>2. PICK k \in B : r <= Interval[k] /\ now + r + Slack(k) = tat[k]
      BY Wait
    <2>3. now' = now /\ tat' = tat
      BY <1>2 DEF Deny
    <2>4. denied'.asked = B /\ denied'.at = now /\ denied'.retry = r
      BY <2>1
    <2>5. now + r + Slack(k) <= tat'[k]
      BY <1>1, <2>2, <2>3
    <2>6. QED
      BY <2>2, <2>4, <2>5 DEF Owing, Reached, Slack
  <1>3. ASSUME UNCHANGED <<denied.asked, denied.at, denied.retry>> PROVE Owing'
    <2> SUFFICES ASSUME denied.asked # {} PROVE Owing'
      BY <1>3 DEF Owing
    <2>1. PICK k \in denied.asked :
             denied.retry <= Interval[k] /\ Reached(k, denied.at + denied.retry + Slack(k))
      BY DEF Owing
    <2>2. k \in Keys
      BY DEF TypeOK
    <2>3. (Charged(k) \/ Kept(k)) /\ now' \in Nat /\ now <= now'
      <3>1. ASSUME NEW B \in SUBSET Keys, Admit(B) PROVE (Charged(k) \/ Kept(k)) /\ now' = now
        BY <2>2, <3>1, AdmitRecords DEF Admit
      <3>2. CASE \A B \in SUBSET Keys : ~Admit(B)
        BY <2>2, <3>2, OtherRecords
      <3>3. QED
        BY <1>1, <3>1, <3>2
    <2>4. \/ denied.at + denied.retry + Slack(k) <= now'
          \/ denied.at + denied.retry + Slack(k) <= tat'[k]
      BY <1>1, <2>1, <2>2, <2>3 DEF Charged, Kept, Reached
    <2>5. QED
      BY <1>3, <2>1, <2>4 DEF Owing, Reached, Slack
  <1>4. CASE \A B \in SUBSET Keys : ~Deny(B)
    <2>1. UNCHANGED <<denied.asked, denied.at, denied.retry>>
      <3>1. ASSUME NEW B \in SUBSET Keys, Admit(B) PROVE UNCHANGED <<denied.asked, denied.at, denied.retry>>
        BY <3>1 DEF Admit, TypeOK
      <3>2. CASE \A B \in SUBSET Keys : ~Admit(B)
        BY <1>4, <3>2 DEF Next, Full, Prune, Tick, Observe, vars
      <3>3. QED
        BY <3>1, <3>2
    <2>2. QED
      BY <1>3, <2>1
  <1>5. QED
    BY <1>2, <1>4

LEMMA EnoughStep == TypeOK /\ Ahead /\ Enough /\ [Next]_vars => Enough'
  <1> SUFFICES ASSUME TypeOK, Ahead, Enough, [Next]_vars PROVE Enough'
    OBVIOUS
  <1>1. /\ denied.at \in Nat /\ denied.retry \in Nat /\ now \in Nat /\ denied.asked \subseteq Keys
        /\ \A k \in Keys : tat[k] \in Nat /\ Slack(k) \in Nat
    BY Quotas DEF TypeOK
  <1>2. ASSUME NEW B \in SUBSET Keys, Deny(B) PROVE Enough'
    <2>1. PICK r \in RetryAfter(B) : denied' = [asked |-> B, at |-> now, retry |-> r, fresh |-> TRUE]
      BY <1>2 DEF Deny
    <2>2. denied'.asked = B /\ denied'.at = now /\ denied'.retry = r /\ now' = now /\ tat' = tat
      BY <1>2, <2>1 DEF Deny
    <2>3. \A k \in B : tat[k] <= now + r + Slack(k)
      BY Wait
    <2>4. QED
      BY <1>1, <2>2, <2>3 DEF Enough, Slack
  <1>3. ASSUME UNCHANGED <<denied.asked, denied.at, denied.retry>>, denied'.fresh => denied.fresh,
               now' \in Nat, now <= now', denied'.fresh => \A k \in denied.asked : Kept(k)
        PROVE  Enough'
    <2> SUFFICES ASSUME denied'.fresh PROVE Enough'
      BY DEF Enough
    <2>1. denied.at <= now /\ \A k \in denied.asked : tat[k] <= denied.at + denied.retry + Slack(k)
      BY <1>3 DEF Enough
    <2>2. denied.at <= now'
      BY <1>1, <1>3, <2>1
    <2>3. \A k \in denied.asked : tat'[k] <= denied.at + denied.retry + Slack(k)
      BY <1>1, <1>3, <2>1 DEF Kept
    <2>4. QED
      BY <1>3, <2>2, <2>3 DEF Enough, Slack
  <1>4. ASSUME NEW B \in SUBSET Keys, Admit(B) PROVE Enough'
    <2>1. UNCHANGED <<denied.asked, denied.at, denied.retry>> /\ now' = now
      BY <1>4 DEF Admit, TypeOK
    <2>2. denied'.fresh <=> (denied.fresh /\ B \cap denied.asked = {})
      BY <1>4 DEF Admit, TypeOK
    <2>3. denied'.fresh => \A k \in denied.asked : Kept(k)
      BY <1>1, <1>4, <2>2, AdmitRecords
    <2>4. QED
      BY <1>1, <1>3, <2>1, <2>2, <2>3
  <1>5. CASE \A B \in SUBSET Keys : ~Deny(B) /\ ~Admit(B)
    <2>1. denied' = denied
      BY <1>5 DEF Next, Full, Prune, Tick, Observe, vars
    <2>2. now' \in Nat /\ now <= now' /\ \A k \in Keys : Kept(k)
      BY <1>5, OtherRecords
    <2>3. QED
      BY <1>1, <1>3, <2>1, <2>2
  <1>6. QED
    BY <1>2, <1>4, <1>5

(* The records after an admitted request are those that were not reclaimed and
   the new ones. *)
LEMMA CapacityStep == TypeOK /\ CapacityBound /\ [Next]_vars => CapacityBound'
  <1> SUFFICES ASSUME TypeOK, CapacityBound, [Next]_vars PROVE CapacityBound'
    OBVIOUS
  <1>1. IsFiniteSet(Records) /\ Cardinality(Records) <= MaxEntries /\ MaxEntries \in Nat
    <2>1. Records \in SUBSET Keys
      BY DEF Records
    <2>2. QED
      BY <2>1, FS_Subset, LimitAssumption DEF CapacityBound
  <1>2. ASSUME Records' \subseteq Records PROVE CapacityBound'
    <2>1. Cardinality(Records') <= Cardinality(Records)
      BY <1>1, <1>2, FS_Subset
    <2>2. Cardinality(Records') \in Nat /\ Cardinality(Records) \in Nat
      BY <1>1, <1>2, FS_Subset, FS_CardinalityType
    <2>3. QED
      BY <1>1, <2>1, <2>2 DEF CapacityBound
  <1>3. ASSUME NEW B \in SUBSET Keys, Admit(B) PROVE CapacityBound'
    <2>1. \A k \in B : tat'[k] # 0
      BY <1>3, AdmitRecords, Quotas DEF Charged, TypeOK
    <2>2. \A k \in Keys \ B : tat'[k] = IF k \in Reclaimed(B) THEN 0 ELSE tat[k]
      BY <1>3 DEF Admit
    <2>3. CASE New(B) = {}
      <3>1. Records' \subseteq Records
        BY <2>2, <2>3 DEF New, Records
      <3>2. QED
        BY <1>2, <3>1
    <2>4. CASE New(B) # {}
      <3> DEFINE X == Records \ Reclaimed(B)
                 Y == New(B)
      <3>1. Records' = X \cup Y
        BY <2>1, <2>2 DEF Records, New, Reclaimed, Expired
      <3>2. IsFiniteSet(X) /\ IsFiniteSet(Y)
        <4>1. X \in SUBSET Records /\ Y \in SUBSET Keys
          BY DEF New
        <4>2. QED
          BY <1>1, <4>1, FS_Subset, LimitAssumption
      <3>3. X \cap Y = {}
        BY DEF New
      <3>4. Cardinality(X \cup Y) = Cardinality(X) + Cardinality(Y) - Cardinality(X \cap Y)
        BY <3>2, FS_Union
      <3>5. Cardinality(X) \in Nat /\ Cardinality(Y) \in Nat /\ Cardinality(X \cap Y) = 0
        BY <3>2, <3>3, FS_CardinalityType, FS_EmptySet
      <3>6. Cardinality(X) + Cardinality(Y) <= MaxEntries
        BY <1>3, <2>4 DEF Admit, Fits
      <3> HIDE DEF X, Y
      <3>7. QED
        BY <1>1, <3>1, <3>4, <3>5, <3>6 DEF CapacityBound
    <2>5. QED
      BY <2>3, <2>4
  <1>4. CASE \A B \in SUBSET Keys : ~Admit(B)
    <2>1. \A k \in Keys : Kept(k)
      BY <1>4, OtherRecords
    <2>2. Records' \subseteq Records
      BY <2>1 DEF Kept, Records
    <2>3. QED
      BY <1>2, <2>2
  <1>5. QED
    BY <1>3, <1>4

LEMMA Invariance == Spec => []IInv
  <1>1. IInv /\ [Next]_vars => IInv'
    BY TypeStep, AheadStep, CountedStep, OwingStep, EnoughStep, CapacityStep DEF IInv
  <1>2. QED
    BY InitIInv, <1>1, PTL DEF Spec
-----------------------------------------------------------------------------
(* The records, the clock and the observations keep their types. *)
THEOREM TypeCorrect == Spec => []TypeOK
  <1>1. IInv => TypeOK
    BY DEF IInv
  <1>2. QED
    BY <1>1, Invariance, PTL

(* Bucket "permits one request per Interval, accumulating at most Burst
   requests", from any moment on and whatever is reclaimed or pruned. *)
THEOREM RateBoundHolds == Spec => []RateBound
  <1>1. IInv => RateBound
    <2> SUFFICES ASSUME IInv, NEW k \in Keys
                 PROVE  count[k] * Interval[k] <= now - since + Burst[k] * Interval[k]
      BY DEF RateBound
    <2>1. /\ count[k] * Interval[k] \in Nat /\ tat[k] \in Nat /\ now \in Nat /\ since \in Nat
          /\ Slack(k) \in Nat /\ Interval[k] \in Nat
          /\ Burst[k] * Interval[k] = Slack(k) + Interval[k]
      BY Quotas, Product DEF IInv, TypeOK
    <2>2. tat[k] <= now + Slack(k) + Interval[k] /\ Reached(k, since + count[k] * Interval[k])
      BY DEF IInv, Ahead, Counted
    <2>3. QED
      BY <2>1, <2>2 DEF Reached
  <1>2. QED
    BY <1>1, Invariance, PTL

(* Limiter.MaxEntries bounds the records that are kept. *)
THEOREM CapacityBoundHolds == Spec => []CapacityBound
  <1>1. IInv => CapacityBound
    BY DEF IInv
  <1>2. QED
    BY <1>1, Invariance, PTL

(* A request that waited for Decision.RetryAfter is within its quota. *)
THEOREM RetrySufficesHolds == Spec => []RetrySuffices
  <1>1. IInv => RetrySuffices
    <2> SUFFICES ASSUME IInv, denied.asked # {} PROVE RetrySuffices
      BY DEF RetrySuffices
    <2>1. \E k \in denied.asked : denied.retry <= Interval[k]
      BY DEF IInv, Owing
    <2>2. ASSUME denied.fresh, now >= denied.at + Header(denied.retry) * Second
          PROVE  OverQuota(denied.asked) = {}
      <3>1. /\ denied.at \in Nat /\ denied.retry \in Nat /\ now \in Nat
            /\ denied.asked \subseteq Keys
        BY DEF IInv, TypeOK
      <3>2. Header(denied.retry) * Second >= denied.retry
        BY <3>1, HeaderCovers
      <3>3. Header(denied.retry) * Second \in Int
        BY <3>1, LimitAssumption DEF Header
      <3>4. denied.at + denied.retry <= now
        BY <2>2, <3>1, <3>2, <3>3
      <3>5. ASSUME NEW k \in denied.asked PROVE ~(AllowAt(k) > now)
        <4>1. tat[k] \in Nat /\ Slack(k) \in Nat
          BY <3>1, Quotas DEF IInv, TypeOK
        <4>2. tat[k] <= denied.at + denied.retry + Slack(k)
          BY <2>2 DEF IInv, Enough
        <4>3. QED
          BY <3>1, <3>4, <4>1, <4>2 DEF AllowAt, Tat
      <3>6. QED
        BY <3>5 DEF OverQuota
    <2>3. QED
      BY <2>1, <2>2 DEF RetrySuffices
  <1>2. QED
    BY <1>1, Invariance, PTL

(* Before Decision.RetryAfter has passed no such request is admitted. *)
THEOREM RetryIsNeededHolds == Spec => RetryIsNeeded
  <1> DEFINE A == denied.asked # {} /\ (\A k \in denied.asked : tat'[k] > tat[k])
                  => now >= denied.at + denied.retry
  <1>1. IInv /\ [Next]_vars => [A]_vars
    <2> SUFFICES ASSUME IInv, [Next]_vars, denied.asked # {},
                        \A k \in denied.asked : tat'[k] > tat[k]
                 PROVE  now >= denied.at + denied.retry
      OBVIOUS
    <2>1. PICK k \in denied.asked : Reached(k, denied.at + denied.retry + Slack(k))
      BY DEF IInv, Owing
    <2>2. /\ denied.at \in Nat /\ denied.retry \in Nat /\ now \in Nat
          /\ k \in Keys /\ tat[k] \in Nat
      BY DEF IInv, TypeOK
    <2>3. Slack(k) \in Nat /\ Interval[k] \in Nat \ {0}
      BY <2>2, Quotas
    <2>4. ASSUME NEW B \in SUBSET Keys, Admit(B) PROVE now >= denied.at + denied.retry
      <3>1. k \in B
        BY <2>2, <2>4, AdmitRecords DEF Kept, IInv
      <3>2. AllowAt(k) <= now
        BY <2>2, <2>3, <2>4, <3>1 DEF Admit, OverQuota, AllowAt, Tat
      <3>3. QED
        BY <2>1, <2>2, <2>3, <3>2 DEF AllowAt, Tat, Reached
    <2>5. CASE \A B \in SUBSET Keys : ~Admit(B)
      <3>1. Kept(k)
        BY <2>2, <2>5, OtherRecords DEF IInv
      <3>2. QED
        BY <2>2, <3>1 DEF Kept
    <2>6. QED
      BY <2>4, <2>5
  <1>2. QED
    BY <1>1, Invariance, PTL DEF Spec, RetryIsNeeded
=============================================================================
