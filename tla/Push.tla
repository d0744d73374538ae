-------------------------------- MODULE Push --------------------------------
(***************************************************************************)
(* Waking a device through the Windows Push Notification Service.          *)
(* Sessions read the device's channel and TrackingQueue.StoreResult        *)
(* records it under the active enrollment (server/sqlstore/push.go).       *)
(* Service.Wake looks the channel up and hands it to the WNS client, which *)
(* fetches a token, posts, refreshes the token once and retries a bounded  *)
(* number of times (msplatformservices/wns).  Results that are being       *)
(* stored, wakes, renewals of the channel and re-enrollments interleave at *)
(* every statement and every request.                                      *)
(***************************************************************************)
EXTENDS DeviceEnrollment

CONSTANTS
    Uris,       \* channel URIs
    Empty,      \* the device has no channel
    Filers,     \* sessions that may be storing a result at the same time
    Wakers,     \* wakes that may be running at the same time
    AgeLimit,   \* age from which a channel is not used (30 days)
    Retries,    \* wns.Config.Retries
    Lifetimes,  \* lifetimes of a token less the margin, 0 when none is reported
    MaxTokens,  \* bound on the tokens fetched
    MaxTime     \* bound on the clock

ASSUME PushAssumption ==
    /\ Empty \notin Uris
    /\ AgeLimit \in Nat /\ Retries \in Nat
    /\ Lifetimes \subseteq Nat
    /\ MaxTokens \in Nat
    /\ MaxTime \in Nat \ {0}

VARIABLES
    uri, first, observed, dead,      \* push_channels: serial -> column
    fpc, fserial, furi, fat,         \* StoreResult: filer -> state
    wpc, wserial, wuri,              \* Wake: waker -> state
    wtoken, rejected, refreshed, retried, posts,  \* Send: waker -> state
    cached, expires, lock, issued,   \* OAuthSource, and the tokens fetched so far
    gone,                            \* channels WNS has given up
    now                              \* the clock

rowvars == <<uri, first, observed, dead>>
filervars == <<fpc, fserial, furi, fat>>
wakervars == <<wpc, wserial, wuri, wtoken, rejected, refreshed, retried, posts>>
tokenvars == <<cached, expires, lock, issued>>
envvars == <<active, spent, gone, now>>
pushvars == <<rowvars, filervars, wakervars, tokenvars, envvars>>

PushInit ==
    /\ EnrollmentInit
    /\ uri = [s \in Serials |-> Empty]
    /\ first = [s \in Serials |-> 0]
    /\ observed = [s \in Serials |-> 0]
    /\ dead = [s \in Serials |-> FALSE]
    /\ fpc = [f \in Filers |-> "idle"]
    /\ fserial = [f \in Filers |-> NoSerial]
    /\ furi = [f \in Filers |-> Empty]
    /\ fat = [f \in Filers |-> 0]
    /\ wpc = [w \in Wakers |-> "idle"]
    /\ wserial = [w \in Wakers |-> NoSerial]
    /\ wuri = [w \in Wakers |-> Empty]
    /\ wtoken = [w \in Wakers |-> 0]
    /\ rejected = [w \in Wakers |-> 0]
    /\ refreshed = [w \in Wakers |-> FALSE]
    /\ retried = [w \in Wakers |-> 0]
    /\ posts = [w \in Wakers |-> 0]
    /\ cached = 0 /\ expires = 0 /\ lock = {} /\ issued = 0
    /\ gone = {} /\ now = 1

-----------------------------------------------------------------------------
(* TrackingQueue.StoreResult for the Get of the channel URI: the device reports
   u, and flushResults stamps the result.  A URI that is not one of WNS, like a
   result that failed, goes straight to the queue and is left out. *)
Report(f, u) ==
    /\ fpc[f] = "idle"
    /\ Called
    /\ fpc' = [fpc EXCEPT ![f] = "lookup"]
    /\ furi' = [furi EXCEPT ![f] = u]
    /\ fat' = [fat EXCEPT ![f] = now]
    /\ UNCHANGED <<fserial, rowvars, wakervars, tokenvars, envvars>>

FilerAt(f, pc) ==
    /\ fpc' = [fpc EXCEPT ![f] = pc]
    /\ UNCHANGED <<furi, fat, calls, wakervars, tokenvars, envvars>>

(* Get: only an active enrollment has a channel. *)
Lookup(f) ==
    /\ fpc[f] = "lookup"
    /\ fserial' = [fserial EXCEPT ![f] = active]
    /\ FilerAt(f, IF active = NoSerial THEN "store" ELSE "observe")
    /\ UNCHANGED rowvars

(* Mutant: a result that was received earlier replaces a later one. *)
ObservePushAnyOrder(f) ==
    LET s == fserial[f]
        same == uri[s] = furi[f]
    IN  /\ fpc[f] = "observe"
        /\ uri' = [uri EXCEPT ![s] = furi[f]]
        /\ first' = [first EXCEPT ![s] = IF same THEN @ ELSE fat[f]]
        /\ observed' = [observed EXCEPT ![s] = fat[f]]
        /\ dead' = [dead EXCEPT ![s] = @ /\ same]
        /\ FilerAt(f, "store")
        /\ UNCHANGED fserial
(* Mutant: a channel that is read again is alive. *)
ObservePushRevives(f) ==
    LET s == fserial[f]
        same == uri[s] = furi[f]
        late == fat[f] < observed[s]
    IN  /\ fpc[f] = "observe"
        /\ uri' = [uri EXCEPT ![s] = IF late THEN @ ELSE furi[f]]
        /\ first' = [first EXCEPT ![s] = IF late \/ same THEN @ ELSE fat[f]]
        /\ observed' = [observed EXCEPT ![s] = IF late THEN @ ELSE fat[f]]
        /\ dead' = [dead EXCEPT ![s] = @ /\ late]
        /\ FilerAt(f, "store")
        /\ UNCHANGED fserial
(* ObservePush: the row is there after the INSERT, and the UPDATE keeps the age
   and the death of a URI that is read again.  The row of a serial without one
   reads like the row the INSERT makes. *)
ObservePush(f) ==
    LET s == fserial[f]
        same == uri[s] = furi[f]
        late == fat[f] < observed[s]
    IN  /\ fpc[f] = "observe"
        /\ uri' = [uri EXCEPT ![s] = IF late THEN @ ELSE furi[f]]
        /\ first' = [first EXCEPT ![s] = IF late \/ same THEN @ ELSE fat[f]]
        /\ observed' = [observed EXCEPT ![s] = IF late THEN @ ELSE fat[f]]
        /\ dead' = [dead EXCEPT ![s] = @ /\ (late \/ same)]
        /\ FilerAt(f, "store")
        /\ UNCHANGED fserial

(* The command is completed, or the call failed before that and the session
   reads the channel again. *)
Store(f) ==
    /\ fpc[f] # "idle"
    /\ fserial' = [fserial EXCEPT ![f] = NoSerial]
    /\ fpc' = [fpc EXCEPT ![f] = "idle"]
    /\ furi' = [furi EXCEPT ![f] = Empty]
    /\ fat' = [fat EXCEPT ![f] = 0]
    /\ UNCHANGED <<calls, rowvars, wakervars, tokenvars, envvars>>

-----------------------------------------------------------------------------
(* Wake returns: the event log is data. *)
WakeReturns(w) ==
    /\ wpc' = [wpc EXCEPT ![w] = "idle"]
    /\ wserial' = [wserial EXCEPT ![w] = NoSerial]
    /\ wuri' = [wuri EXCEPT ![w] = Empty]
    /\ wtoken' = [wtoken EXCEPT ![w] = 0]
    /\ rejected' = [rejected EXCEPT ![w] = 0]
    /\ refreshed' = [refreshed EXCEPT ![w] = FALSE]
    /\ retried' = [retried EXCEPT ![w] = 0]
    /\ posts' = [posts EXCEPT ![w] = 0]

Wake(w) ==
    /\ wpc[w] = "idle"
    /\ Called
    /\ active # NoSerial
    /\ wpc' = [wpc EXCEPT ![w] = "channel"]
    /\ wserial' = [wserial EXCEPT ![w] = active]
    /\ UNCHANGED <<wuri, wtoken, rejected, refreshed, retried, posts>>
    /\ UNCHANGED <<rowvars, filervars, tokenvars, envvars>>

Usable(s) ==
    /\ uri[s] # Empty
    /\ dead[s] = FALSE
    /\ first[s] # 0
    /\ now - first[s] < AgeLimit

ReadChannel(w) ==
    /\ wpc[w] = "channel"
    /\ IF Usable(wserial[w])
       THEN /\ wpc' = [wpc EXCEPT ![w] = "token"]
            /\ wuri' = [wuri EXCEPT ![w] = uri[wserial[w]]]
            /\ UNCHANGED <<wserial, wtoken, rejected, refreshed, retried, posts>>
       ELSE WakeReturns(w)
    /\ UNCHANGED <<rowvars, filervars, tokenvars, envvars, calls>>

-----------------------------------------------------------------------------
(* OAuthSource.Token holds its mutex while it asks the token endpoint.  A caller
   at "refresh" has had its token rejected. *)
Fetches(w) == wpc[w] = "refresh" \/ cached = 0 \/ now >= expires

(* Mutant: a caller that was rejected gets the cached token too. *)
TokenAnyway(w) ==
    /\ wpc[w] \in {"token", "refresh"}
    /\ lock = {}
    /\ IF cached = 0 \/ now >= expires
       THEN /\ lock' = {w} /\ cached' = 0
            /\ wpc' = [wpc EXCEPT ![w] = "fetch"]
            /\ UNCHANGED wtoken
       ELSE /\ wpc' = [wpc EXCEPT ![w] = "post"]
            /\ wtoken' = [wtoken EXCEPT ![w] = cached]
            /\ UNCHANGED <<lock, cached>>
    /\ UNCHANGED <<expires, issued, wserial, wuri, rejected, refreshed, retried, posts>>
    /\ UNCHANGED <<rowvars, filervars, envvars, calls>>
Token(w) ==
    /\ wpc[w] \in {"token", "refresh"}
    /\ lock = {}
    /\ IF Fetches(w)
       THEN /\ lock' = {w} /\ cached' = 0
            /\ wpc' = [wpc EXCEPT ![w] = "fetch"]
            /\ UNCHANGED wtoken
       ELSE /\ wpc' = [wpc EXCEPT ![w] = "post"]
            /\ wtoken' = [wtoken EXCEPT ![w] = cached]
            /\ UNCHANGED <<lock, cached>>
    /\ UNCHANGED <<expires, issued, wserial, wuri, rejected, refreshed, retried, posts>>
    /\ UNCHANGED <<rowvars, filervars, envvars, calls>>

TokenFetched(w, lifetime) ==
    /\ wpc[w] = "fetch"
    /\ issued < MaxTokens
    /\ lock' = {}
    /\ issued' = issued + 1
    /\ cached' = issued + 1
    /\ expires' = now + lifetime
    /\ wpc' = [wpc EXCEPT ![w] = "post"]
    /\ wtoken' = [wtoken EXCEPT ![w] = issued + 1]
    /\ UNCHANGED <<wserial, wuri, rejected, refreshed, retried, posts>>
    /\ UNCHANGED <<rowvars, filervars, envvars, calls>>

-----------------------------------------------------------------------------
(* One POST of Send and what is made of the answer.  Only a channel WNS has given
   up is answered with 404 or 410, and such a channel accepts nothing. *)
Outcomes(u) == IF u \in gone THEN {"dead", "unauthorized", "again", "rejected"}
                             ELSE {"accepted", "unauthorized", "again", "rejected"}

(* Mutant: a refreshed token starts the retries over. *)
PostRetriesAfresh(w, outcome) ==
    LET refresh == outcome = "unauthorized" /\ refreshed[w] = FALSE
        again   == outcome = "again" /\ retried[w] < Retries
    IN  /\ wpc[w] = "post"
        /\ posts' = [posts EXCEPT ![w] = @ + 1]
        /\ wpc' = [wpc EXCEPT ![w] = IF refresh THEN "refresh"
                                     ELSE IF again THEN "backoff"
                                     ELSE IF outcome = "dead" THEN "markdead" ELSE "log"]
        /\ refreshed' = [refreshed EXCEPT ![w] = @ \/ refresh]
        /\ rejected' = [rejected EXCEPT ![w] = IF refresh THEN wtoken[w] ELSE @]
        /\ retried' = [retried EXCEPT ![w] = IF again THEN @ + 1 ELSE IF refresh THEN 0 ELSE @]
        /\ UNCHANGED <<wserial, wuri, wtoken, rowvars, filervars, tokenvars, envvars, calls>>
Post(w, outcome) ==
    LET refresh == outcome = "unauthorized" /\ refreshed[w] = FALSE
        again   == outcome = "again" /\ retried[w] < Retries
    IN  /\ wpc[w] = "post"
        /\ posts' = [posts EXCEPT ![w] = @ + 1]
        /\ wpc' = [wpc EXCEPT ![w] = IF refresh THEN "refresh"
                                     ELSE IF again THEN "backoff"
                                     ELSE IF outcome = "dead" THEN "markdead" ELSE "log"]
        /\ refreshed' = [refreshed EXCEPT ![w] = @ \/ refresh]
        /\ rejected' = [rejected EXCEPT ![w] = IF refresh THEN wtoken[w] ELSE @]
        /\ retried' = [retried EXCEPT ![w] = IF again THEN @ + 1 ELSE @]
        /\ UNCHANGED <<wserial, wuri, wtoken, rowvars, filervars, tokenvars, envvars, calls>>

(* The delay of a retry is over. *)
Backoff(w) ==
    /\ wpc[w] = "backoff"
    /\ wpc' = [wpc EXCEPT ![w] = "token"]
    /\ UNCHANGED <<wserial, wuri, wtoken, rejected, refreshed, retried, posts>>
    /\ UNCHANGED <<rowvars, filervars, tokenvars, envvars, calls>>

(* Mutant: whatever channel the enrollment has is marked. *)
MarkPushDeadAnyUri(w) ==
    /\ wpc[w] = "markdead"
    /\ dead' = [dead EXCEPT ![wserial[w]] = TRUE]
    /\ WakeReturns(w)
    /\ UNCHANGED <<uri, first, observed, filervars, tokenvars, envvars, calls>>
MarkPushDead(w) ==
    /\ wpc[w] = "markdead"
    /\ dead' = [dead EXCEPT ![wserial[w]] = @ \/ uri[wserial[w]] = wuri[w]]
    /\ WakeReturns(w)
    /\ UNCHANGED <<uri, first, observed, filervars, tokenvars, envvars, calls>>

(* Mutant: a failed token request keeps the mutex. *)
LeaveLocked(w) ==
    /\ wpc[w] # "idle"
    /\ WakeReturns(w)
    /\ UNCHANGED <<rowvars, filervars, tokenvars, envvars, calls>>
(* The outcome is logged, or the call ends early: the context is cancelled, the
   token endpoint, the connection or the database fails. *)
Leave(w) ==
    /\ wpc[w] # "idle"
    /\ lock' = lock \ {w}
    /\ WakeReturns(w)
    /\ UNCHANGED <<rowvars, filervars, cached, expires, issued, envvars, calls>>

-----------------------------------------------------------------------------
(* WNS gives a channel up for good. *)
GiveUp(u) ==
    /\ u \notin gone
    /\ gone' = gone \cup {u}
    /\ UNCHANGED <<active, spent, now, rowvars, filervars, wakervars, tokenvars, calls>>

Reenroll ==
    /\ \/ \E s \in Serials : Enroll(s)
       \/ Unenroll
    /\ UNCHANGED <<gone, now, rowvars, filervars, wakervars, tokenvars>>

Tick ==
    /\ now < MaxTime
    /\ now' = now + 1
    /\ UNCHANGED <<active, spent, gone, rowvars, filervars, wakervars, tokenvars, calls>>

FilerStep(f) == Lookup(f) \/ ObservePush(f) \/ Store(f)

WakeStep(w) ==
    \/ ReadChannel(w)
    \/ Token(w)
    \/ \E l \in Lifetimes : TokenFetched(w, l)
    \/ \E o \in Outcomes(wuri[w]) : Post(w, o)
    \/ Backoff(w)
    \/ MarkPushDead(w)
    \/ wpc[w] \in {"log", "fetch"} /\ Leave(w)

PushNext ==
    \/ \E f \in Filers, u \in Uris \cup {Empty} : Report(f, u)
    \/ \E f \in Filers : FilerStep(f)
    \/ \E w \in Wakers : Wake(w) \/ WakeStep(w) \/ Leave(w)
    \/ \E u \in Uris : GiveUp(u)
    \/ Reenroll
    \/ Tick

-----------------------------------------------------------------------------
(* Type invariant of the table, the calls under way and the token source. *)
PushTypeOK ==
    /\ active \in Serials \cup {NoSerial} /\ spent \subseteq Serials
    /\ uri \in [Serials -> Uris \cup {Empty}]
    /\ first \in [Serials -> Nat] /\ observed \in [Serials -> Nat]
    /\ dead \in [Serials -> BOOLEAN]
    /\ fpc \in [Filers -> {"idle", "lookup", "observe", "store"}]
    /\ fserial \in [Filers -> Serials \cup {NoSerial}]
    /\ furi \in [Filers -> Uris \cup {Empty}]
    /\ fat \in [Filers -> Nat]
    /\ wpc \in [Wakers -> {"idle", "channel", "token", "refresh", "fetch", "post",
                           "backoff", "markdead", "log"}]
    /\ wserial \in [Wakers -> Serials \cup {NoSerial}]
    /\ wuri \in [Wakers -> Uris \cup {Empty}]
    /\ wtoken \in [Wakers -> Nat] /\ rejected \in [Wakers -> Nat]
    /\ refreshed \in [Wakers -> BOOLEAN]
    /\ retried \in [Wakers -> 0..Retries] /\ posts \in [Wakers -> Nat]
    /\ cached \in Nat /\ expires \in Nat /\ issued \in Nat
    /\ lock \subseteq Wakers
    /\ gone \subseteq Uris
    /\ now \in 1..MaxTime

(* sqlstore/push.go MarkPushDead "only invalidates the URI that failed,
   preserving a concurrent renewal": a channel is marked dead only if WNS gave
   up that very channel, however late the answer about an older one comes. *)
DeadIsGone == \A s \in Serials : dead[s] = TRUE => uri[s] \in gone

(* sqlstore/push.go ObservePush "Re-reading the same URI does not reset its age
   or revive a known-dead channel": as long as the URI stays, its age and its
   death do, whatever results and wakes overlap. *)
DeadStaysDead ==
    [][\A s \in Serials : uri'[s] = uri[s] =>
         first'[s] = first[s] /\ (dead[s] = TRUE => dead'[s] = TRUE)]_pushvars

(* ObservePush's "observed_at <= ?": when the results of two sessions are stored
   out of order, the channel that was received last stays. *)
NewestObservationStays ==
    \A f \in Filers :
        fpc[f] = "store" /\ fserial[f] # NoSerial => observed[fserial[f]] >= fat[f]

(* wns.Config "a 401 always refreshes at most once", Retries bounds the rest: a
   wake posts at most Retries + 2 times. *)
PostsBounded == \A w \in Wakers : posts[w] <= Retries + 2

(* TokenSource "refresh requests replacement after a 401": the token of a later
   POST is not the one that was rejected, although others share the cache. *)
RejectedIsReplaced ==
    \A w \in Wakers : wpc[w] = "post" /\ refreshed[w] = TRUE => wtoken[w] # rejected[w]

(* Every wake returns: the mutex of the token source is handed on and the
   retries end. *)
WakeEnds == \A w \in Wakers : wpc[w] # "idle" ~> wpc[w] = "idle"
=============================================================================
