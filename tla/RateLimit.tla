----------------------------- MODULE RateLimit -----------------------------
(***************************************************************************)
(* ratelimit.Limiter over a state.Store.  Every Check locks the capacity   *)
(* key of its namespace, so the checks of all servers serialize and one    *)
(* Check is one action.  A bucket's record holds the time at which its     *)
(* quota is full again, which is also when the record expires.             *)
(***************************************************************************)
EXTENDS Integers, FiniteSets

CONSTANTS
    Keys,        \* bucket keys
    Interval,    \* Interval[k]: time per request, in microseconds
    Burst,       \* Burst[k]: requests that may accumulate
    MaxEntries,  \* records the limiter may keep
    Second,      \* microseconds of a second
    MaxTime      \* bound on the clock

ASSUME LimitAssumption ==
    /\ IsFiniteSet(Keys)
    /\ Interval \in [Keys -> Nat \ {0}]
    /\ Burst \in [Keys -> Nat \ {0}]
    /\ MaxEntries \in Nat \ {0}
    /\ Second \in Nat \ {0}
    /\ MaxTime \in Nat

VARIABLES
    tat,     \* key -> stored time, 0 when there is no record
    now,     \* store time
    since,   \* a moment from which requests are counted
    count,   \* key -> requests admitted since then
    denied   \* the last denial: asked, at, retry, and whether anything of it was used since

vars == <<tat, now, since, count, denied>>

-----------------------------------------------------------------------------
Records == {k \in Keys : tat[k] # 0}
Expired == {k \in Records : tat[k] <= now}

(* What Check computes for one bucket. *)
Tat(k) == IF tat[k] = 0 THEN now ELSE tat[k]
Slack(k) == (Burst[k] - 1) * Interval[k]
AllowAt(k) == Tat(k) - Slack(k)
NextTat(k) == (IF Tat(k) < now THEN now ELSE Tat(k)) + Interval[k]

(* Mutant: a full burst above the stored time is allowed. *)
OverQuotaLate(B) == {k \in B : AllowAt(k) - Interval[k] > now}
OverQuota(B) == {k \in B : AllowAt(k) > now}
(* Mutant: the wait of any of them is reported. *)
RetryAfterAny(B) == {AllowAt(k) - now : k \in OverQuota(B)}
(* The longest wait of the buckets that deny, the one member of this set. *)
RetryAfter(B) ==
    {r \in {AllowAt(k) - now : k \in OverQuota(B)} :
        \A k \in OverQuota(B) : AllowAt(k) - now <= r}

(* Middleware's Retry-After header, in seconds. *)
Header(r) == LET s == (r + Second - 1) \div Second IN IF s < 1 THEN 1 ELSE s

-----------------------------------------------------------------------------
NoDenial == [asked |-> {}, at |-> 0, retry |-> 0, fresh |-> FALSE]

Init ==
    /\ tat = [k \in Keys |-> 0]
    /\ now = 1
    /\ since = 1
    /\ count = [k \in Keys |-> 0]
    /\ denied = NoDenial

New(B) == B \ Records
(* Only a request that needs a new record reclaims expired ones. *)
Reclaimed(B) == IF New(B) = {} THEN {} ELSE Expired \ B
(* Mutant: expired records count as free whether they are reclaimed or not. *)
FitsLive(B) == Cardinality(Records \ Expired) + Cardinality(New(B)) <= MaxEntries
Fits(B) == New(B) # {} =>
    Cardinality(Records \ Reclaimed(B)) + Cardinality(New(B)) <= MaxEntries

(* Check admits the request: every bucket is charged. *)
Admit(B) ==
    /\ OverQuota(B) = {}
    /\ Fits(B)
    /\ tat' = [k \in Keys |-> IF k \in B THEN NextTat(k)
                              ELSE IF k \in Reclaimed(B) THEN 0 ELSE tat[k]]
    /\ count' = [k \in Keys |-> IF k \in B THEN count[k] + 1 ELSE count[k]]
    /\ denied' = [denied EXCEPT !.fresh = denied.fresh /\ B \cap denied.asked = {}]
    /\ UNCHANGED <<now, since>>

(* Check denies it: no bucket is charged. *)
Deny(B) ==
    /\ OverQuota(B) # {}
    /\ \E r \in RetryAfter(B) :
           denied' = [asked |-> B, at |-> now, retry |-> r, fresh |-> TRUE]
    /\ UNCHANGED <<tat, now, since, count>>

(* ErrCapacity: the transaction is rolled back, the reclaimed records included,
   and the request is answered 503; so is one that a call of the store fails. *)
Full(B) ==
    /\ OverQuota(B) = {}
    /\ ~Fits(B)
    /\ UNCHANGED vars

(* Mutant: Prune deletes records that have not expired. *)
PrunableAny == Records
Prunable == Expired
(* Store.Prune deletes expired records, in any order, up to its limit. *)
Prune(P) ==
    /\ P # {} /\ P \subseteq Prunable
    /\ tat' = [k \in Keys |-> IF k \in P THEN 0 ELSE tat[k]]
    /\ UNCHANGED <<now, since, count, denied>>

Tick ==
    /\ now < MaxTime
    /\ now' = now + 1
    /\ UNCHANGED <<tat, since, count, denied>>

(* The observer starts to count at any moment. *)
Observe ==
    /\ since' = now
    /\ count' = [k \in Keys |-> 0]
    /\ UNCHANGED <<tat, now, denied>>

Next ==
    \/ \E B \in SUBSET Keys \ {{}} : Admit(B) \/ Deny(B) \/ Full(B)
    \/ \E P \in SUBSET Keys : Prune(P)
    \/ Tick
    \/ Observe

Spec == Init /\ [][Next]_vars
-----------------------------------------------------------------------------
(* Type invariant. *)
TypeOK ==
    /\ tat \in [Keys -> Nat]
    /\ now \in Nat \ {0}
    /\ since \in Nat
    /\ count \in [Keys -> Nat]
    /\ denied \in [asked: SUBSET Keys, at: Nat, retry: Nat, fresh: BOOLEAN]

(* Bucket "permits one request per Interval, accumulating at most Burst
   requests": from any moment on, the requests admitted are at most the burst
   plus one per interval that has passed, whatever was reclaimed or pruned. *)
RateBound ==
    \A k \in Keys : count[k] * Interval[k] <= now - since + Burst[k] * Interval[k]

(* Limiter.MaxEntries: the limiter never keeps more records than that. *)
CapacityBound == Cardinality(Records) <= MaxEntries

(* Decision.RetryAfter is not too long: no bucket asks to wait for more than its
   own interval, and a denied request that comes again after the Retry-After
   header, with none of its buckets used in between, is within its quota. *)
RetrySuffices ==
    denied.asked # {} =>
        /\ \E k \in denied.asked : denied.retry <= Interval[k]
        /\ denied.fresh /\ now >= denied.at + Header(denied.retry) * Second
           => OverQuota(denied.asked) = {}

(* Decision.RetryAfter is not too short: before it has passed no request with
   the denied buckets is admitted, whatever expires or is pruned. *)
RetryIsNeeded ==
    [][denied.asked # {} /\ (\A k \in denied.asked : tat'[k] > tat[k])
       => now >= denied.at + denied.retry]_vars
=============================================================================
