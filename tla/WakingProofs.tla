---------------------------- MODULE WakingProofs ----------------------------
(***************************************************************************)
(* Proofs about Waking, for any number of enrollments, channels, calls at  *)
(* the same time, retries and tokens.                                      *)
(***************************************************************************)
EXTENDS Waking, TLAPS

(* The enrollment a call works on is the one it looked up. *)
Bound ==
    /\ \A f \in Filers : fpc[f] = "observe" => fserial[f] \in Serials
    /\ \A w \in Wakers : wpc[w] # "idle" => wserial[w] \in Serials
    /\ \A w \in Wakers : wpc[w] \notin {"idle", "channel"} => wuri[w] \in Uris

(* A channel is about to be marked dead only after WNS gave it up. *)
AnsweredGone == \A w \in Wakers : wpc[w] = "markdead" => wuri[w] \in gone

(* A wake has posted once for every retry and once for the refresh, and once more
   when it is done. *)
Charge(w) == retried[w] + (IF refreshed[w] = TRUE THEN 1 ELSE 0)
PostsCounted ==
    \A w \in Wakers :
        posts[w] = IF wpc[w] \in {"log", "markdead"} THEN Charge(w) + 1 ELSE Charge(w)

(* Tokens are numbered as they are fetched, and once a wake that was rejected
   has had the cache cleared, whatever the cache holds was fetched later. *)
TokensAge ==
    /\ cached <= issued
    /\ \A w \in Wakers :
        /\ wtoken[w] <= issued /\ rejected[w] <= issued
        /\ wpc[w] = "refresh" => refreshed[w] = TRUE
        /\ refreshed[w] = TRUE /\ wpc[w] # "refresh" => cached = 0 \/ cached > rejected[w]
        /\ refreshed[w] = TRUE /\ wpc[w] = "post" => wtoken[w] > rejected[w]

PushInv ==
    /\ PushTypeOK /\ Bound
    /\ AnsweredGone /\ DeadIsGone
    /\ NewestObservationStays
    /\ PostsCounted /\ TokensAge

-----------------------------------------------------------------------------
(* Nothing is under way and nothing is known at the start. *)
LEMMA PushInitially == PushInit => PushInv
  BY SerialAssumption, PushAssumption
  DEF PushInit, EnrollmentInit, PushInv, PushTypeOK, Bound, AnsweredGone, DeadIsGone,
      NewestObservationStays, PostsCounted, Charge, TokensAge

(* The steps of a filer, of a waker and of the surroundings. *)
FilerMoves(f) == (\E u \in Uris \cup {Empty} : Report(f, u)) \/ FilerStep(f)
WakerMoves(w) == Wake(w) \/ WakeStep(w) \/ Leave(w)
Surroundings == (\E u \in Uris : GiveUp(u)) \/ Reenroll \/ Tick

(* Every step is one of these, or leaves the state of the pushes alone. *)
LEMMA PushStepKinds ==
    ASSUME [PushNext]_pushvars
    PROVE  \/ \E f \in Filers : FilerMoves(f)
           \/ \E w \in Wakers : WakerMoves(w)
           \/ Surroundings
           \/ UNCHANGED pushvars
  BY Zenon DEF PushNext, FilerMoves, WakerMoves, Surroundings

(* The steps of the surroundings leave rows, calls and tokens alone. *)
LEMMA SurroundingsMove ==
    ASSUME PushTypeOK, Surroundings
    PROVE  /\ UNCHANGED <<rowvars, filervars, wakervars, tokenvars>>
           /\ gone \subseteq gone' /\ gone' \subseteq Uris
           /\ now' \in 1..MaxTime
           /\ active' \in Serials \cup {NoSerial} /\ spent' \subseteq Serials
  BY PushAssumption
  DEF Surroundings, GiveUp, Reenroll, Enroll, Unenroll, Tick, PushTypeOK

(* A filer leaves the wakers, the tokens and the surroundings alone. *)
LEMMA FilerMovesAlone ==
    ASSUME NEW f \in Filers, FilerMoves(f)
    PROVE  UNCHANGED <<wakervars, tokenvars, envvars>>
  BY DEF FilerMoves, FilerStep, Report, Lookup, ObservePush, Store, FilerAt

(* A waker leaves the filers and the surroundings alone, and of a row it changes
   whether the channel is dead. *)
LEMMA WakerMovesAlone ==
    ASSUME NEW w \in Wakers, WakerMoves(w)
    PROVE  UNCHANGED <<uri, first, observed, filervars, envvars>>
  BY DEF WakerMoves, WakeStep, Wake, ReadChannel, Token, TokenFetched, Post, Backoff,
         MarkPushDead, Leave, rowvars

(* What a filer does to its row and to its own state. *)
LEMMA FilerTypes ==
    ASSUME PushTypeOK, Bound, NEW f \in Filers, FilerMoves(f)
    PROVE  PushTypeOK' /\ Bound'
  <1> USE DEF PushTypeOK, Bound, wakervars, tokenvars, envvars, rowvars
  <1>1. UNCHANGED <<wakervars, tokenvars, envvars>>
    BY FilerMovesAlone
  <1>2. ASSUME NEW u \in Uris \cup {Empty}, Report(f, u) PROVE PushTypeOK' /\ Bound'
    BY <1>1, <1>2 DEF Report
  <1>3. CASE Lookup(f)
    BY <1>1, <1>3 DEF Lookup, FilerAt
  <1>4. CASE ObservePush(f)
    BY <1>1, <1>4 DEF ObservePush, FilerAt
  <1>5. CASE Store(f)
    BY <1>1, <1>5 DEF Store
  <1> QED BY <1>2, <1>3, <1>4, <1>5 DEF FilerMoves, FilerStep

(* What a waker does to its own state and to the tokens. *)
LEMMA WakerTypes ==
    ASSUME PushTypeOK, Bound, NEW w \in Wakers, WakerMoves(w)
    PROVE  PushTypeOK' /\ Bound'
  <1> USE PushAssumption DEF PushTypeOK, Bound, filervars, envvars, rowvars, tokenvars
  <1>1. UNCHANGED <<uri, first, observed, filervars, envvars>>
    BY WakerMovesAlone
  <1>2. CASE Wake(w)
    BY <1>1, <1>2 DEF Wake
  <1>3. CASE ReadChannel(w)
    <2>1. CASE Usable(wserial[w])
      <3>1. wserial[w] \in Serials /\ uri[wserial[w]] \in Uris
        BY <1>3, <2>1 DEF ReadChannel, Usable
      <3> QED BY <1>1, <1>3, <2>1, <3>1 DEF ReadChannel
    <2>2. CASE ~Usable(wserial[w])
      <3>1. WakeReturns(w) /\ UNCHANGED <<rowvars, tokenvars>>
        BY <1>3, <2>2, Zenon DEF ReadChannel
      <3> QED BY <1>1, <3>1 DEF WakeReturns
    <2> QED BY <2>1, <2>2
  <1>4. CASE Token(w)
    BY <1>1, <1>4 DEF Token
  <1>5. ASSUME NEW l \in Lifetimes, TokenFetched(w, l) PROVE PushTypeOK' /\ Bound'
    BY <1>1, <1>5 DEF TokenFetched
  <1>6. ASSUME NEW o \in Outcomes(wuri[w]), Post(w, o) PROVE PushTypeOK' /\ Bound'
    BY <1>1, <1>6 DEF Post
  <1>7. CASE Backoff(w)
    BY <1>1, <1>7 DEF Backoff
  <1>8. CASE MarkPushDead(w)
    BY <1>1, <1>8 DEF MarkPushDead, WakeReturns
  <1>9. CASE Leave(w)
    BY <1>1, <1>9 DEF Leave, WakeReturns
  <1> QED BY <1>2, <1>3, <1>4, <1>5, <1>6, <1>7, <1>8, <1>9 DEF WakerMoves, WakeStep

-----------------------------------------------------------------------------
(* A death is recorded only for a channel that was given up, because the answer
   names the channel and the row still has it. *)
LEMMA DeathStep ==
    ASSUME PushTypeOK, Bound, AnsweredGone, DeadIsGone, [PushNext]_pushvars
    PROVE  AnsweredGone' /\ DeadIsGone'
  <1> USE DEF PushTypeOK, Bound, AnsweredGone, DeadIsGone
  <1>1. ASSUME NEW f \in Filers, FilerMoves(f) PROVE AnsweredGone' /\ DeadIsGone'
    <2>1. UNCHANGED <<wakervars, tokenvars, envvars>>
      BY <1>1, FilerMovesAlone
    <2>2. CASE ObservePush(f)
      BY <2>1, <2>2, Zenon DEF ObservePush, wakervars, envvars
    <2>3. CASE ~ObservePush(f)
      BY <1>1, <2>1, <2>3
      DEF FilerMoves, FilerStep, Report, Lookup, Store, rowvars, wakervars, envvars
    <2> QED BY <2>2, <2>3, Zenon
  <1>2. ASSUME NEW w \in Wakers, WakerMoves(w) PROVE AnsweredGone' /\ DeadIsGone'
    <2>1. UNCHANGED <<uri, first, observed, filervars, envvars>>
      BY <1>2, WakerMovesAlone
    <2>2. CASE MarkPushDead(w)
      BY <2>1, <2>2 DEF MarkPushDead, WakeReturns, envvars
    <2>3. ASSUME NEW o \in Outcomes(wuri[w]), Post(w, o) PROVE AnsweredGone' /\ DeadIsGone'
      BY <2>1, <2>3 DEF Post, Outcomes, envvars, rowvars
    <2>4. CASE Wake(w) \/ ReadChannel(w) \/ Token(w) \/ Backoff(w) \/ Leave(w)
               \/ \E l \in Lifetimes : TokenFetched(w, l)
      <3>1. /\ UNCHANGED dead
            /\ \A v \in Wakers : wpc'[v] = "markdead" => wpc[v] = "markdead" /\ wuri'[v] = wuri[v]
        BY <2>4
        DEF Wake, ReadChannel, Token, TokenFetched, Backoff, Leave, WakeReturns, rowvars
      <3> QED BY <2>1, <3>1 DEF envvars
    <2> QED BY <1>2, <2>2, <2>3, <2>4, Zenon DEF WakerMoves, WakeStep
  <1>3. CASE Surroundings
    BY <1>3, SurroundingsMove DEF rowvars, wakervars
  <1>4. CASE UNCHANGED pushvars
    BY <1>4 DEF pushvars, rowvars, wakervars, envvars
  <1> QED BY <1>1, <1>2, <1>3, <1>4, PushStepKinds, Zenon

(* observed_at never goes back. *)
LEMMA NewestStep ==
    ASSUME PushTypeOK, Bound, NewestObservationStays, [PushNext]_pushvars
    PROVE  NewestObservationStays'
  <1> USE DEF PushTypeOK, Bound, NewestObservationStays
  <1>1. ASSUME NEW f \in Filers, FilerMoves(f) PROVE NewestObservationStays'
    <2>1. CASE ObservePush(f)
      <3>1. /\ \A s \in Serials : observed'[s] >= observed[s]
            /\ observed'[fserial[f]] >= fat[f]
        BY <2>1 DEF ObservePush
      <3>2. /\ UNCHANGED <<fserial, fat>>
            /\ \A g \in Filers \ {f} : fpc'[g] = fpc[g]
        BY <2>1 DEF ObservePush, FilerAt
      <3>3. observed' \in [Serials -> Nat]
        BY <2>1 DEF ObservePush
      <3> QED BY <3>1, <3>2, <3>3
    <2>2. CASE ~ObservePush(f)
      <3>1. /\ UNCHANGED observed
            /\ \A g \in Filers \ {f} : fpc'[g] = fpc[g] /\ fserial'[g] = fserial[g] /\ fat'[g] = fat[g]
            /\ fpc'[f] = "store" => fserial'[f] = NoSerial
        BY <1>1, <2>2
        DEF FilerMoves, FilerStep, Report, Lookup, Store, FilerAt, rowvars
      <3> QED BY <3>1
    <2> QED BY <2>1, <2>2
  <1>2. ASSUME NEW w \in Wakers, WakerMoves(w) PROVE NewestObservationStays'
    BY <1>2, WakerMovesAlone DEF filervars
  <1>3. CASE Surroundings
    BY <1>3, SurroundingsMove DEF rowvars, filervars
  <1>4. CASE UNCHANGED pushvars
    BY <1>4 DEF pushvars, rowvars, filervars
  <1> QED BY <1>1, <1>2, <1>3, <1>4, PushStepKinds, Zenon

(* A wake that does not move keeps what it has. *)
LEMMA OthersStay ==
    ASSUME PushTypeOK, NEW w \in Wakers, WakerMoves(w), NEW v \in Wakers \ {w}
    PROVE  /\ wpc'[v] = wpc[v] /\ wtoken'[v] = wtoken[v] /\ rejected'[v] = rejected[v]
           /\ refreshed'[v] = refreshed[v] /\ retried'[v] = retried[v] /\ posts'[v] = posts[v]
  <1> USE DEF PushTypeOK
  <1>1. CASE WakeReturns(w)
    BY <1>1 DEF WakeReturns
  <1>2. CASE Wake(w) \/ Backoff(w) \/ Token(w) \/ \E l \in Lifetimes : TokenFetched(w, l)
    BY <1>2 DEF Wake, Backoff, Token, TokenFetched
  <1>3. CASE ReadChannel(w)
    BY <1>1, <1>3 DEF ReadChannel
  <1>4. ASSUME NEW o \in Outcomes(wuri[w]), Post(w, o) PROVE posts'[v] = posts[v]
             /\ wpc'[v] = wpc[v] /\ wtoken'[v] = wtoken[v] /\ rejected'[v] = rejected[v]
             /\ refreshed'[v] = refreshed[v] /\ retried'[v] = retried[v]
    BY <1>4 DEF Post
  <1> QED BY <1>1, <1>2, <1>3, <1>4 DEF WakerMoves, WakeStep, MarkPushDead, Leave

(* Every POST is charged to a retry, to the refresh, or ends the loop. *)
LEMMA PostsStep ==
    ASSUME PushTypeOK, PostsCounted, [PushNext]_pushvars
    PROVE  PostsCounted'
  <1> USE DEF PushTypeOK, PostsCounted, Charge
  <1>1. ASSUME NEW f \in Filers, FilerMoves(f) PROVE PostsCounted'
    BY <1>1, FilerMovesAlone DEF wakervars
  <1>2. ASSUME NEW w \in Wakers, WakerMoves(w) PROVE PostsCounted'
    <2>1. SUFFICES posts'[w] = IF wpc'[w] \in {"log", "markdead"} THEN Charge(w)' + 1 ELSE Charge(w)'
      BY <1>2, OthersStay
    <2>2. CASE WakeReturns(w)
      BY <2>2 DEF WakeReturns
    <2>3. CASE Wake(w) \/ Backoff(w) \/ Token(w) \/ \E l \in Lifetimes : TokenFetched(w, l)
      BY <2>3 DEF Wake, Backoff, Token, TokenFetched
    <2>4. CASE ReadChannel(w)
      BY <2>2, <2>4, Zenon DEF ReadChannel
    <2>5. ASSUME NEW o \in Outcomes(wuri[w]), Post(w, o)
          PROVE  posts'[w] = IF wpc'[w] \in {"log", "markdead"} THEN Charge(w)' + 1 ELSE Charge(w)'
      <3> DEFINE refresh == o = "unauthorized" /\ refreshed[w] = FALSE
                 again   == o = "again" /\ retried[w] < Retries
      <3>1. /\ posts[w] = Charge(w) /\ posts'[w] = posts[w] + 1
            /\ retried[w] \in Nat /\ refreshed[w] \in BOOLEAN
        BY <2>5, PushAssumption DEF Post
      <3>2. CASE refresh
        <4>1. wpc'[w] = "refresh" /\ refreshed'[w] = TRUE /\ retried'[w] = retried[w]
          BY <2>5, <3>2, Zenon DEF Post
        <4> QED BY <3>1, <3>2, <4>1
      <3>3. CASE ~refresh /\ again
        <4>1. wpc'[w] = "backoff" /\ refreshed'[w] = refreshed[w] /\ retried'[w] = retried[w] + 1
          BY <2>5, <3>3 DEF Post
        <4> QED BY <3>1, <4>1
      <3>4. CASE ~refresh /\ ~again
        <4>1. wpc'[w] \in {"log", "markdead"} /\ refreshed'[w] = refreshed[w] /\ retried'[w] = retried[w]
          BY <2>5, <3>4 DEF Post
        <4> QED BY <3>1, <4>1
      <3> QED BY <3>2, <3>3, <3>4, Zenon
    <2> QED BY <1>2, <2>2, <2>3, <2>4, <2>5, Zenon DEF WakerMoves, WakeStep, MarkPushDead, Leave
  <1>3. CASE Surroundings
    BY <1>3, SurroundingsMove DEF wakervars
  <1>4. CASE UNCHANGED pushvars
    BY <1>4 DEF pushvars, wakervars
  <1> QED BY <1>1, <1>2, <1>3, <1>4, PushStepKinds, Zenon

(* A token that was rejected leaves the cache before another is fetched. *)
LEMMA TokensStep ==
    ASSUME PushTypeOK, TokensAge, [PushNext]_pushvars
    PROVE  TokensAge'
  <1> USE DEF PushTypeOK, TokensAge
  <1>1. ASSUME NEW f \in Filers, FilerMoves(f) PROVE TokensAge'
    BY <1>1, FilerMovesAlone DEF wakervars, tokenvars
  <1>2. ASSUME NEW w \in Wakers, WakerMoves(w) PROVE TokensAge'
    <2>1. \A v \in Wakers \ {w} :
             /\ wpc'[v] = wpc[v] /\ wtoken'[v] = wtoken[v] /\ rejected'[v] = rejected[v]
             /\ refreshed'[v] = refreshed[v]
      BY <1>2, OthersStay
    <2>2. CASE WakeReturns(w) /\ UNCHANGED <<cached, issued>>
      BY <2>1, <2>2 DEF WakeReturns
    <2>3. CASE Wake(w) \/ Backoff(w)
      BY <2>3 DEF Wake, Backoff, tokenvars
    <2>4. CASE ReadChannel(w)
      BY <2>2, <2>4, ZenonT(60) DEF ReadChannel, tokenvars
    <2>5. CASE Token(w) /\ Fetches(w)
      <3>1. /\ cached' = 0 /\ wpc'[w] = "fetch"
            /\ UNCHANGED <<issued, wtoken, rejected, refreshed>>
        BY <2>5 DEF Token
      <3> QED BY <2>1, <3>1
    <2>6. CASE Token(w) /\ ~Fetches(w)
      <3>1. /\ wpc'[w] = "post" /\ wtoken'[w] = cached
            /\ UNCHANGED <<cached, issued, rejected, refreshed>>
        BY <2>6 DEF Token
      <3>2. wpc[w] # "refresh" /\ cached # 0
        BY <2>6 DEF Fetches
      <3> QED BY <2>1, <3>1, <3>2
    <2>7. ASSUME NEW l \in Lifetimes, TokenFetched(w, l) PROVE TokensAge'
      <3>1. /\ cached' = issued + 1 /\ issued' = issued + 1
            /\ wpc'[w] = "post" /\ wtoken'[w] = issued + 1
            /\ UNCHANGED <<rejected, refreshed>>
        BY <2>7 DEF TokenFetched
      <3> QED BY <2>1, <3>1
    <2>8. ASSUME NEW o \in Outcomes(wuri[w]), Post(w, o) PROVE TokensAge'
      <3> DEFINE refresh == o = "unauthorized" /\ refreshed[w] = FALSE
      <3>1. UNCHANGED <<cached, issued, wtoken>>
        BY <2>8 DEF Post, tokenvars
      <3>2. CASE refresh
        <4>1. wpc'[w] = "refresh" /\ refreshed'[w] = TRUE /\ rejected'[w] = wtoken[w]
          BY <2>8, <3>2, Zenon DEF Post
        <4> QED BY <2>1, <3>1, <4>1
      <3>3. CASE ~refresh
        <4>1. /\ wpc[w] = "post" /\ wpc'[w] \notin {"post", "refresh"}
              /\ refreshed'[w] = refreshed[w] /\ rejected'[w] = rejected[w]
          BY <2>8, <3>3 DEF Post
        <4> QED BY <2>1, <3>1, <4>1
      <3> QED BY <3>2, <3>3, Zenon
    <2>9. CASE MarkPushDead(w) \/ Leave(w)
      BY <2>2, <2>9, Zenon DEF MarkPushDead, Leave, tokenvars
    <2> QED BY <1>2, <2>3, <2>4, <2>5, <2>6, <2>7, <2>8, <2>9, Zenon DEF WakerMoves, WakeStep
  <1>3. CASE Surroundings
    BY <1>3, SurroundingsMove DEF wakervars, tokenvars
  <1>4. CASE UNCHANGED pushvars
    BY <1>4 DEF pushvars, wakervars, tokenvars
  <1> QED BY <1>1, <1>2, <1>3, <1>4, PushStepKinds, Zenon

(* The invariant of the pushes is inductive. *)
LEMMA PushInductive ==
    ASSUME PushInv, [PushNext]_pushvars
    PROVE  PushInv'
  <1> USE DEF PushInv
  <1>1. PushTypeOK' /\ Bound'
    <2>1. CASE Surroundings
      BY <2>1, SurroundingsMove
      DEF PushTypeOK, Bound, rowvars, filervars, wakervars, tokenvars
    <2>2. CASE UNCHANGED pushvars
      BY <2>2 DEF pushvars, PushTypeOK, Bound, rowvars, filervars, wakervars, tokenvars, envvars
    <2> QED BY <2>1, <2>2, FilerTypes, WakerTypes, PushStepKinds
  <1> QED BY <1>1, DeathStep, NewestStep, PostsStep, TokensStep

(* Polls leave the state of the pushes alone. *)
LEMMA PollsStutter == [WakingNext]_wakingvars => [PushNext]_pushvars
  BY DEF WakingNext, wakingvars

(* The invariant of the pushes holds in every reachable state. *)
LEMMA PushInvariant == WakingSpec => []PushInv
  <1>1. WakingInit => PushInv
    BY PushInitially DEF WakingInit
  <1>2. PushInv /\ [WakingNext]_wakingvars => PushInv'
    BY PollsStutter, PushInductive
  <1> QED BY <1>1, <1>2, PTL DEF WakingSpec

(* The table, the calls under way and the token source keep their types; in
   particular a wake never retries more than Retries times. *)
THEOREM PushTypeCorrect == WakingSpec => []PushTypeOK
  BY PushInvariant, PTL DEF PushInv

(* sqlstore/push.go MarkPushDead: a channel that is marked dead is one WNS gave
   up, whatever renewals and re-enrollments overlap the push. *)
THEOREM DeadChannelsAreGone == WakingSpec => []DeadIsGone
  BY PushInvariant, PTL DEF PushInv

(* sqlstore/push.go ObservePush: results stored out of order never take the
   channel back to an older one. *)
THEOREM NewestObservationHolds == WakingSpec => []NewestObservationStays
  BY PushInvariant, PTL DEF PushInv

(* wns Client.Send: the retries and the one refresh bound the POSTs of a wake. *)
THEOREM PostsAreBounded == WakingSpec => []PostsBounded
  <1>1. PushInv => PostsBounded
    BY PushAssumption DEF PushInv, PushTypeOK, PostsCounted, Charge, PostsBounded
  <1> QED BY <1>1, PushInvariant, PTL

(* wns OAuthSource.Token: a wake that was answered 401 never posts with the
   rejected token again, although all wakes share one cache. *)
THEOREM RejectedTokensAreReplaced == WakingSpec => []RejectedIsReplaced
  <1>1. PushInv => RejectedIsReplaced
    BY DEF PushInv, PushTypeOK, TokensAge, RejectedIsReplaced
  <1> QED BY <1>1, PushInvariant, PTL

(* sqlstore/push.go ObservePush: reading a URI again neither makes it younger nor
   brings it back to life. *)
THEOREM DeathIsFinal == WakingSpec => DeadStaysDead
  <1> DEFINE Stays == \A s \in Serials : uri'[s] = uri[s] =>
                          first'[s] = first[s] /\ (dead[s] = TRUE => dead'[s] = TRUE)
  <1>1. PushInv /\ [PushNext]_pushvars => Stays
    <2> SUFFICES ASSUME PushInv, [PushNext]_pushvars PROVE Stays
      BY Zenon
    <2> USE DEF PushInv, PushTypeOK, Bound
    <2>1. ASSUME NEW f \in Filers, FilerMoves(f) PROVE Stays
      <3>1. CASE ObservePush(f)
        BY <3>1 DEF ObservePush
      <3>2. CASE ~ObservePush(f)
        BY <2>1, <3>2 DEF FilerMoves, FilerStep, Report, Lookup, Store, rowvars
      <3> QED BY <3>1, <3>2, Zenon
    <2>2. ASSUME NEW w \in Wakers, WakerMoves(w) PROVE Stays
      <3>1. UNCHANGED first
        BY <2>2, WakerMovesAlone
      <3>2. CASE MarkPushDead(w)
        BY <3>1, <3>2 DEF MarkPushDead
      <3>3. CASE ~MarkPushDead(w)
        BY <2>2, <3>1, <3>3
        DEF WakerMoves, WakeStep, Wake, ReadChannel, Token, TokenFetched, Post, Backoff, Leave, rowvars
      <3> QED BY <3>2, <3>3, Zenon
    <2>3. CASE Surroundings
      BY <2>3, SurroundingsMove DEF rowvars
    <2>4. CASE UNCHANGED pushvars
      BY <2>4 DEF pushvars, rowvars
    <2> QED BY <2>1, <2>2, <2>3, <2>4, PushStepKinds, Zenon
  <1>2. PushInv /\ [WakingNext]_wakingvars => [Stays]_pushvars
    BY <1>1, PollsStutter
  <1> QED BY <1>2, PushInvariant, PTL DEF WakingSpec, DeadStaysDead

-----------------------------------------------------------------------------
(* Every token has one owner, and the row knows it. *)
AgentInv ==
    /\ minted \in 0..MaxMinted
    /\ owner \in [1..MaxMinted -> Serials \cup {NoSerial}]
    /\ ipc \in [Issuers -> {"idle", "write"}]
    /\ iserial \in [Issuers -> Serials \cup {NoSerial}]
    /\ ppc \in [Agents -> {"idle", "check", "answer", "refused"}]
    /\ pserial \in [Agents -> Serials \cup {NoSerial}]
    /\ pcred \in [Agents -> 0..minted]
    /\ row \in [serial: Serials \cup {NoSerial}, token: 0..minted]
    /\ row.token # 0 => owner[row.token] = row.serial
    /\ \A a \in Agents : ppc[a] # "idle" => pcred[a] # 0
    /\ TokenFollowsEnrollment

(* No step gives a token another owner, so what a poll was checked against holds
   until it is answered. *)
LEMMA AgentInductive ==
    ASSUME PushTypeOK, AgentInv, [AgentNext]_agentvars
    PROVE  AgentInv'
  <1> USE AgentAssumption DEF AgentInv, TokenFollowsEnrollment
  <1>1. ASSUME NEW i \in Issuers, IssueAgentToken(i) PROVE AgentInv'
    BY <1>1 DEF IssueAgentToken, PushTypeOK
  <1>2. ASSUME NEW i \in Issuers, WriteToken(i) PROVE AgentInv'
    <2>1. CASE UNCHANGED <<minted, row, owner>>
      BY <1>2, <2>1 DEF WriteToken
    <2>2. CASE ~UNCHANGED <<minted, row, owner>>
      <3>1. /\ minted < MaxMinted /\ minted' = minted + 1
            /\ row' = [serial |-> iserial[i], token |-> minted + 1]
            /\ owner' = [owner EXCEPT ![minted + 1] = iserial[i]]
            /\ UNCHANGED <<ppc, pserial, pcred>>
        BY <1>2, <2>2 DEF WriteToken
      <3>2. ipc' \in [Issuers -> {"idle", "write"}] /\ iserial' \in [Issuers -> Serials \cup {NoSerial}]
        BY <1>2 DEF WriteToken
      <3>3. \A t \in 1..minted : owner'[t] = owner[t]
        BY <3>1
      <3>4. owner'[minted + 1] = iserial[i]
        BY <3>1
      <3> QED BY <3>1, <3>2, <3>3, <3>4
    <2> QED BY <2>1, <2>2
  <1>3. ASSUME NEW a \in Agents, NEW t \in 1..MaxMinted, AgentWake(a, t) PROVE AgentInv'
    BY <1>3 DEF AgentWake, PushTypeOK
  <1>4. ASSUME NEW a \in Agents, CheckToken(a) PROVE AgentInv'
    BY <1>4 DEF CheckToken
  <1>5. ASSUME NEW a \in Agents, AnswerAgent(a) PROVE AgentInv'
    BY <1>5 DEF AnswerAgent
  <1>6. CASE UNCHANGED agentvars
    BY <1>6 DEF agentvars
  <1> QED BY <1>1, <1>2, <1>3, <1>4, <1>5, <1>6 DEF AgentNext

(* sqlstore/agent.go AgentWake: a token is accepted only for the enrollment it was
   issued for. *)
THEOREM TokensFollowEnrollments == WakingSpec => []TokenFollowsEnrollment
  <1>1. WakingInit => AgentInv
    BY AgentAssumption DEF WakingInit, AgentInit, AgentInv, TokenFollowsEnrollment
  <1>2. PushInv /\ AgentInv /\ [WakingNext]_wakingvars => AgentInv'
    BY AgentInductive DEF PushInv, WakingNext, wakingvars
  <1>3. AgentInv => TokenFollowsEnrollment
    BY DEF AgentInv
  <1> QED BY <1>1, <1>2, <1>3, PushInvariant, PTL DEF WakingSpec
=============================================================================
