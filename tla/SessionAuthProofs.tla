-------------------------- MODULE SessionAuthProofs --------------------------
(***************************************************************************)
(* A message is acted on only in a session that was opened and             *)
(* authenticated under the enrollment that was looked up for it, for any   *)
(* devices, serials, sessions, requests and faults.  AInv says so of every *)
(* stored session and of every request from the moment it has its session. *)
(***************************************************************************)
EXTENDS SessionAuth, TLAPS

(* What the session side takes from Enrollment's state. *)
Sources ==
    /\ creds \in [Devices -> Serials \cup {None}]
    /\ waits \in [Devices -> Serials \cup {None}]

(* A session is authenticated under its own enrollment. *)
Own(s) ==
    /\ s.authenticated <=> s.auth # ""
    /\ s.authenticated => s.by = s.key

(* A request knows its enrollment once it was looked up, and its session is of
   that enrollment; what is acted on is authenticated. *)
Bound(r) ==
    /\ r.pc \notin {"idle", "hook", "replied"} => r.req.sid \in 1..MaxSessions
    /\ r.pc \in {"credential", "open", "auth", "challenge", "finish"} => r.key \in Serials
    /\ r.pc \in {"auth", "challenge", "finish"} => r.sess.key = r.key /\ Own(r.sess)
    /\ r.pc = "finish" =>
           /\ r.sess.authenticated
           /\ r.sess.auth = "certificate" => r.req.cert = r.key

Numbered == \A d \in Devices :
    client[d].pc # "idle" \/ client[d].on # None => client[d].sid \in 1..MaxSessions

AInv ==
    /\ AuthTypeOK
    /\ Sources
    /\ Numbered
    /\ \A d \in Devices, i \in 1..MaxSessions : Own(sess[d][i])
    /\ \A d \in Devices, h \in Handlers : Bound(handler[d][h])

-----------------------------------------------------------------------------
LEMMA Records ==
    /\ NoSession \in Session /\ Own(NoSession)
    /\ NoMessage \in Message
    /\ Idle \in Request /\ Bound(Idle)
    /\ NoRun \in Run
    /\ \A reply \in Nonces \cup {None, "more", "end", "error"} :
           Replied(reply) \in Request /\ Bound(Replied(reply))
  <1>1. NoSession \in Session /\ Own(NoSession)
    BY DEF NoSession, Session, Own
  <1>2. NoMessage \in Message
    BY AuthAssumption DEF NoMessage, NoCred, Message
  <1>3. Idle \in Request /\ Bound(Idle)
    BY <1>1, <1>2 DEF Idle, Request, Bound
  <1>4. NoRun \in Run
    BY AuthAssumption DEF NoRun, Run
  <1>5. ASSUME NEW reply \in Nonces \cup {None, "more", "end", "error"}
        PROVE  Replied(reply) \in Request /\ Bound(Replied(reply))
    BY <1>1, <1>2, Zenon DEF Replied, Idle, Request, Bound
  <1> QED
    BY <1>1, <1>2, <1>3, <1>4, <1>5

(* A request that moves on stays well-formed, and the others are as they were. *)
LEMMA Handled ==
    ASSUME AInv, NEW d \in Devices, NEW h \in Handlers, NEW r \in Request,
           Bound(r), Handle(d, h, r)
    PROVE  /\ handler' \in [Devices -> [Handlers -> Request]]
           /\ \A e \in Devices, k \in Handlers : Bound(handler'[e][k])
  <1>1. handler \in [Devices -> [Handlers -> Request]]
    BY DEF AInv, AuthTypeOK
  <1>2. handler' = [e \in Devices |->
                      IF e = d THEN [k \in Handlers |-> IF k = h THEN r ELSE handler[e][k]]
                      ELSE handler[e]]
    BY <1>1, Zenon DEF Handle
  <1>3. handler' \in [Devices -> [Handlers -> Request]]
    BY <1>1, <1>2
  <1>4. ASSUME NEW e \in Devices, NEW k \in Handlers
        PROVE  handler'[e][k] = r \/ handler'[e][k] = handler[e][k]
    BY <1>1, <1>2
  <1> QED
    BY <1>3, <1>4 DEF AInv

(* The same for the session store. *)
LEMMA SessionStored ==
    ASSUME AInv, NEW d \in Devices, NEW i \in 1..MaxSessions, NEW s \in Session,
           Own(s), sess' = [sess EXCEPT ![d][i] = s]
    PROVE  /\ sess' \in [Devices -> [1..MaxSessions -> Session]]
           /\ \A e \in Devices, j \in 1..MaxSessions : Own(sess'[e][j])
  <1>1. sess \in [Devices -> [1..MaxSessions -> Session]]
    BY DEF AInv, AuthTypeOK
  <1>2. sess' = [e \in Devices |->
                   IF e = d THEN [j \in 1..MaxSessions |-> IF j = i THEN s ELSE sess[e][j]]
                   ELSE sess[e]]
    BY <1>1, Zenon
  <1>3. sess' \in [Devices -> [1..MaxSessions -> Session]]
    BY <1>1, <1>2
  <1>4. ASSUME NEW e \in Devices, NEW j \in 1..MaxSessions
        PROVE  sess'[e][j] = s \/ sess'[e][j] = sess[e][j]
    BY <1>1, <1>2
  <1> QED
    BY <1>3, <1>4 DEF AInv

-----------------------------------------------------------------------------
LEMMA InitAInv == AuthInit => AInv
  <1> SUFFICES ASSUME AuthInit PROVE AInv
    OBVIOUS
  <1>1. AuthTypeOK
    <2>1. /\ sess \in [Devices -> [1..MaxSessions -> Session]]
          /\ handler \in [Devices -> [Handlers -> Request]]
          /\ client \in [Devices -> Run]
      BY Records DEF AuthInit
    <2>2. /\ nonce \in [Devices -> Nonces \cup {None}]
          /\ holds \in [Devices -> Serials \cup {None}]
          /\ faults \in 0..MaxFaults
      BY AuthAssumption DEF AuthInit
    <2>3. \A d \in Devices, i \in 1..MaxSessions :
              sess[d][i].authenticated <=> sess[d][i].auth # ""
      BY DEF AuthInit, NoSession
    <2> QED
      BY <2>1, <2>2, <2>3 DEF AuthTypeOK
  <1>2. Sources
    BY AuthAssumption DEF AuthInit, Sources
  <1>3. Numbered
    BY DEF AuthInit, Numbered, NoRun
  <1> QED
    BY <1>1, <1>2, <1>3, Records DEF AuthInit, AInv

(* A step of the server on one request that leaves the session store alone. *)
LEMMA HandlerOnly ==
    ASSUME AInv, NEW d \in Devices, NEW h \in Handlers, NEW r \in Request,
           Bound(r), Handle(d, h, r), nonce' \in [Devices -> Nonces \cup {None}],
           UNCHANGED <<creds, waits, sess, holds, client>>, faults' \in 0..MaxFaults
    PROVE  AInv'
  <1>1. /\ handler' \in [Devices -> [Handlers -> Request]]
        /\ \A e \in Devices, k \in Handlers : Bound(handler'[e][k])
    BY Handled
  <1>2. AuthTypeOK'
    BY <1>1 DEF AInv, AuthTypeOK
  <1> QED
    BY <1>1, <1>2 DEF AInv, Sources, Numbered, Bound, Own

(* A step that puts s at SessionID i. *)
LEMMA StoreStep ==
    ASSUME AInv, NEW d \in Devices, NEW i \in 1..MaxSessions, NEW s \in Session,
           Own(s), sess' = [sess EXCEPT ![d][i] = s],
           handler' \in [Devices -> [Handlers -> Request]],
           \A e \in Devices, k \in Handlers : Bound(handler'[e][k]),
           UNCHANGED <<creds, waits, nonce, holds, client>>, faults' \in 0..MaxFaults
    PROVE  AInv'
  <1>1. /\ sess' \in [Devices -> [1..MaxSessions -> Session]]
        /\ \A e \in Devices, j \in 1..MaxSessions : Own(sess'[e][j])
    BY SessionStored, Zenon
  <1>2. AuthTypeOK'
    BY <1>1 DEF AInv, AuthTypeOK, Own
  <1> QED
    BY <1>1, <1>2 DEF AInv, Sources, Numbered, Bound, Own

LEMMA LookupSteps ==
    ASSUME AInv, NEW d \in Devices, NEW h \in Handlers,
           LookupEnrollment(d, h) \/ LookupCredential(d, h)
    PROVE  AInv'
  <1> DEFINE r == handler[d][h]
  <1>1. r \in Request /\ Bound(r)
    BY DEF AInv, AuthTypeOK
  <1>2. CASE LookupEnrollment(d, h)
    <2>1. /\ UNCHANGED <<creds, waits, sess, nonce, holds, client, faults>>
          /\ r.pc = "lookup"
      BY <1>2, Zenon DEF LookupEnrollment, evars, stores, clients
    <2>2. /\ nonce' \in [Devices -> Nonces \cup {None}]
          /\ faults' \in 0..MaxFaults
      BY <2>1 DEF AInv, AuthTypeOK
    <2>3. CASE Handle(d, h, Replied("error"))
      BY <2>1, <2>2, <2>3, Records, HandlerOnly
    <2>4. ASSUME NEW s \in Active(d), Handle(d, h, [r EXCEPT !.pc = "credential", !.key = s])
          PROVE  AInv'
      <3>1. s \in Serials
        BY <2>4 DEF Active
      <3>2. [r EXCEPT !.pc = "credential", !.key = s] \in Request
        BY <1>1, <3>1, Zenon DEF Request
      <3>3. Bound([r EXCEPT !.pc = "credential", !.key = s])
        BY <1>1, <2>1, <3>1 DEF Request, Bound
      <3> QED
        BY <2>1, <2>2, <2>4, <3>2, <3>3, HandlerOnly
    <2> QED
      BY <1>2, <2>3, <2>4, Zenon DEF LookupEnrollment
  <1>3. CASE LookupCredential(d, h)
    <2> DEFINE q == [r EXCEPT !.pc = "open", !.cred = creds[d]]
    <2>1. /\ UNCHANGED <<creds, waits, sess, nonce, holds, client, faults>>
          /\ r.pc = "credential"
          /\ Handle(d, h, q)
      BY <1>3 DEF LookupCredential, evars, stores, clients
    <2>2. /\ nonce' \in [Devices -> Nonces \cup {None}]
          /\ faults' \in 0..MaxFaults
      BY <2>1 DEF AInv, AuthTypeOK
    <2>3. creds[d] \in Serials \cup {None}
      BY DEF AInv, Sources
    <2>4. q \in Request
      BY <1>1, <2>3, Zenon DEF Request
    <2>5. Bound(q)
      BY <1>1, <2>1 DEF Request, Bound
    <2> QED
      BY <2>1, <2>2, <2>4, <2>5, HandlerOnly
  <1> QED
    BY <1>2, <1>3

LEMMA OpenStep ==
    ASSUME AInv, NEW d \in Devices, NEW h \in Handlers, Open(d, h)
    PROVE  AInv'
  <1> DEFINE r == handler[d][h]
             i == r.req.sid
             q == [r EXCEPT !.pc = "auth", !.sess = Opened(d, r)]
  <1>1. r \in Request /\ Bound(r)
    BY DEF AInv, AuthTypeOK
  <1>2. /\ UNCHANGED <<creds, waits, sess, nonce, holds, client, faults>>
        /\ r.pc = "open"
        /\ Handle(d, h, q) \/ Handle(d, h, Replied("error"))
    BY DEF Open, evars, stores, clients
  <1>3. /\ nonce' \in [Devices -> Nonces \cup {None}]
        /\ faults' \in 0..MaxFaults
    BY <1>2 DEF AInv, AuthTypeOK
  <1>4. i \in 1..MaxSessions /\ r.key \in Serials /\ r.req.msg \in Nat
    BY <1>1, <1>2 DEF Bound, Request, Message
  <1>5. sess[d][i] \in Session /\ Own(sess[d][i])
    BY <1>4 DEF AInv, AuthTypeOK
  <1>6. /\ Current(d, r) \in Session
        /\ Own(Current(d, r))
        /\ \/ Current(d, r).key = r.key
           \/ Current(d, r).key = None /\ Current(d, r).authenticated = FALSE
    <2>1. NoSession.key = None /\ NoSession.authenticated = FALSE
      BY DEF NoSession
    <2>2. CASE sess[d][i].key = r.key
      <3>1. Current(d, r) = sess[d][i]
        BY <2>2 DEF Current
      <3>2. Current(d, r) \in Session
        BY <1>5, <3>1
      <3>3. Own(Current(d, r))
        BY <1>5, <3>1, Zenon DEF Own
      <3>4. Current(d, r).key = r.key
        BY <2>2, <3>1
      <3> QED
        BY <3>2, <3>3, <3>4
    <2>3. CASE sess[d][i].key # r.key
      <3>1. Current(d, r) = NoSession
        BY <2>3 DEF Current
      <3> QED
        BY <2>1, <3>1, Records DEF Own
    <2> QED
      BY <2>2, <2>3, Zenon
  <1>7. /\ Opened(d, r) \in Session
        /\ Own(Opened(d, r))
        /\ Opened(d, r).key = r.key
    BY <1>4, <1>6 DEF Opened, Session, Own
  <1>8. q \in Request
    BY <1>1, <1>7, Zenon DEF Request
  <1>9. Bound(q)
    BY <1>1, <1>2, <1>4, <1>7 DEF Request, Bound
  <1> QED
    BY <1>2, <1>3, <1>8, <1>9, Records, HandlerOnly

(* authenticate() leaves the session's enrollment alone, and trusts a
   certificate only when this request presented it. *)
LEMMA AuthenticatedOwn ==
    ASSUME NEW d, NEW r \in Request, r.pc = "auth", Bound(r)
    PROVE  /\ Authenticated(d, r) \in Session
           /\ Own(Authenticated(d, r))
           /\ Authenticated(d, r).key = r.key
           /\ Authenticated(d, r).auth = "certificate" => r.req.cert = r.key
  <1>1. /\ r.sess \in Session /\ r.key \in Serials
        /\ r.sess.key = r.key /\ Own(r.sess)
    BY DEF Bound, Request
  <1>2. CASE Remembered(r.sess)
    BY <1>1, <1>2 DEF Authenticated, Remembered
  <1>3. CASE ~Remembered(r.sess) /\ r.req.cert = r.key
    BY <1>1, <1>3 DEF Authenticated, Session, Own
  <1>4. CASE ~Remembered(r.sess) /\ r.req.cert # r.key /\ Verifies(d, r)
    BY <1>1, <1>4 DEF Authenticated, Session, Own
  <1>5. CASE ~Remembered(r.sess) /\ r.req.cert # r.key /\ ~Verifies(d, r)
    BY <1>1, <1>5 DEF Authenticated, Distrusted, Session, Own
  <1> QED
    BY <1>2, <1>3, <1>4, <1>5

LEMMA AuthSteps ==
    ASSUME AInv, NEW d \in Devices, NEW h \in Handlers,
           Trust(d, h) \/ Challenge(d, h)
    PROVE  AInv'
  <1> DEFINE r == handler[d][h]
             a == Authenticated(d, r)
  <1>1. r \in Request /\ Bound(r) /\ r.pc = "auth"
    BY DEF AInv, AuthTypeOK, Trust, Challenge
  <1>2. /\ a \in Session /\ Own(a) /\ a.key = r.key
        /\ a.auth = "certificate" => r.req.cert = r.key
    BY <1>1, AuthenticatedOwn
  <1>3. UNCHANGED <<creds, waits, sess, holds, client, faults>>
    BY DEF Trust, Challenge, evars, stores, clients
  <1>4. faults' \in 0..MaxFaults
    BY <1>3 DEF AInv, AuthTypeOK
  <1>5. CASE Trust(d, h)
    <2> DEFINE q == [r EXCEPT !.pc = "finish", !.sess = a]
    <2>1. nonce' \in [Devices -> Nonces \cup {None}]
      BY <1>5 DEF Trust, AInv, AuthTypeOK
    <2>2. Handle(d, h, q) /\ a.authenticated
      BY <1>5 DEF Trust
    <2> HIDE DEF a
    <2>3. q \in Request
      BY <1>1, <1>2, Zenon DEF Request
    <2>4. Bound(q)
      BY <1>1, <1>2, <2>2 DEF Request, Bound
    <2> QED
      BY <1>3, <1>4, <2>1, <2>2, <2>3, <2>4, HandlerOnly
  <1>6. CASE Challenge(d, h)
    <2> DEFINE n == CHOOSE n \in Nonces : n \notin InUse(d)
               q == [r EXCEPT !.pc = "challenge", !.sess = a, !.reply = n]
    <2>1. Handle(d, h, q) /\ Issued(d, n) /\ Nonces \ InUse(d) # {}
      BY <1>6 DEF Challenge
    <2>2. n \in Nonces
      BY <2>1
    <2> HIDE DEF a, n
    <2>3. nonce' \in [Devices -> Nonces \cup {None}]
      BY <2>1, <2>2 DEF Issued, AInv, AuthTypeOK
    <2>4. q \in Request
      BY <1>1, <1>2, <2>2, Zenon DEF Request
    <2>5. Bound(q)
      BY <1>1, <1>2 DEF Request, Bound
    <2> QED
      BY <1>3, <1>4, <2>1, <2>3, <2>4, <2>5, HandlerOnly
  <1> QED
    BY <1>5, <1>6

LEMMA PutStep ==
    ASSUME AInv, NEW d \in Devices, NEW h \in Handlers, Put(d, h)
    PROVE  AInv'
  <1> DEFINE r == handler[d][h]
             reply == IF r.reply = None THEN "more" ELSE r.reply
  <1>1. r \in Request /\ Bound(r)
    BY DEF AInv, AuthTypeOK
  <1>2. /\ UNCHANGED <<creds, waits, nonce, holds, client, faults>>
        /\ r.pc \in {"challenge", "finish"}
        /\ sess' = [sess EXCEPT ![d][r.req.sid] = r.sess]
        /\ Handle(d, h, Replied(reply))
    BY DEF Put, evars, stores, clients
  <1>3. r.req.sid \in 1..MaxSessions /\ r.sess \in Session /\ Own(r.sess)
    BY <1>1, <1>2 DEF Bound, Request
  <1>4. reply \in Nonces \cup {None, "more", "end", "error"}
    BY <1>1 DEF Request
  <1>5. Replied(reply) \in Request /\ Bound(Replied(reply))
    BY <1>4, Records
  <1>6. /\ handler' \in [Devices -> [Handlers -> Request]]
        /\ \A e \in Devices, k \in Handlers : Bound(handler'[e][k])
    BY <1>2, <1>5, Handled
  <1>7. faults' \in 0..MaxFaults
    BY <1>2 DEF AInv, AuthTypeOK
  <1> QED
    BY <1>2, <1>3, <1>6, <1>7, StoreStep, Zenon

LEMMA DeleteStep ==
    ASSUME AInv, NEW d \in Devices, NEW h \in Handlers, Delete(d, h)
    PROVE  AInv'
  <1> DEFINE r == handler[d][h]
             hooked == [Idle EXCEPT !.pc = "hook"]
  <1>1. r \in Request /\ Bound(r)
    BY DEF AInv, AuthTypeOK
  <1>2. /\ UNCHANGED <<creds, waits, nonce, holds, client, faults>>
        /\ r.pc = "finish"
        /\ sess' = [sess EXCEPT ![d][r.req.sid] = NoSession]
        /\ Handle(d, h, hooked) \/ Handle(d, h, Replied("end"))
    BY DEF Delete, Unenrolled, evars, stores, clients
  <1>3. r.req.sid \in 1..MaxSessions
    BY <1>1, <1>2 DEF Bound
  <1>4. hooked \in Request /\ Bound(hooked)
    BY Records DEF Idle, Request, Bound
  <1>5. /\ handler' \in [Devices -> [Handlers -> Request]]
        /\ \A e \in Devices, k \in Handlers : Bound(handler'[e][k])
    BY <1>2, <1>4, Records, Handled
  <1>6. faults' \in 0..MaxFaults
    BY <1>2 DEF AInv, AuthTypeOK
  <1> QED
    BY <1>2, <1>3, <1>5, <1>6, Records, StoreStep, Zenon

LEMMA FaultBound ==
    ASSUME AInv, Fault \/ UNCHANGED faults
    PROVE  faults' \in 0..MaxFaults
  <1>1. faults \in 0..MaxFaults
    BY DEF AInv, AuthTypeOK
  <1>2. MaxFaults \in Nat
    BY AuthAssumption
  <1>3. CASE Fault
    BY <1>1, <1>2, <1>3 DEF Fault
  <1> QED
    BY <1>1, <1>3

LEMMA EndSteps ==
    ASSUME AInv, NEW d \in Devices, NEW h \in Handlers,
           HookDone(d, h) \/ Abort(d, h)
    PROVE  AInv'
  <1>1. /\ UNCHANGED <<creds, waits, sess, nonce, holds, client>>
        /\ Fault \/ UNCHANGED faults
    BY DEF HookDone, Abort, evars, stores, clients
  <1>2. \E reply \in {"end", "error"} : Handle(d, h, Replied(reply))
    BY DEF HookDone, Abort
  <1>3. nonce' \in [Devices -> Nonces \cup {None}]
    BY <1>1 DEF AInv, AuthTypeOK
  <1>4. PICK reply \in {"end", "error"} : Handle(d, h, Replied(reply))
    BY <1>2
  <1> QED
    BY <1>1, <1>3, <1>4, Records, HandlerOnly, FaultBound

LEMMA ExpirySteps ==
    ASSUME AInv, NEW d \in Devices,
           ExpireNonce(d) \/ \E i \in 1..MaxSessions : ExpireSession(d, i)
    PROVE  AInv'
  <1>0. /\ UNCHANGED <<creds, waits, handler, holds, client>>
        /\ Fault
    BY DEF ExpireNonce, ExpireSession, evars, stores, clients
  <1>1. /\ UNCHANGED <<creds, waits, handler, holds, client>>
        /\ faults' \in 0..MaxFaults
    BY <1>0, FaultBound
  <1>2. CASE ExpireNonce(d)
    <2>1. /\ sess' = sess
          /\ nonce' \in [Devices -> Nonces \cup {None}]
      BY <1>2 DEF ExpireNonce, AInv, AuthTypeOK
    <2>2. AuthTypeOK'
      BY <1>1, <2>1 DEF AInv, AuthTypeOK
    <2> QED
      BY <1>1, <2>1, <2>2, ZenonT(60) DEF AInv, Sources, Numbered, Bound, Own
  <1>3. ASSUME NEW i \in 1..MaxSessions, ExpireSession(d, i)
        PROVE  AInv'
    <2>1. nonce' = nonce /\ sess' = [sess EXCEPT ![d][i] = NoSession]
      BY <1>3 DEF ExpireSession
    <2>2. /\ handler' \in [Devices -> [Handlers -> Request]]
          /\ \A e \in Devices, k \in Handlers : Bound(handler'[e][k])
      BY <1>1 DEF AInv, AuthTypeOK
    <2> QED
      BY <1>1, <2>1, <2>2, Records, StoreStep, Zenon
  <1> QED
    BY <1>2, <1>3

-----------------------------------------------------------------------------
(* A step of a device that leaves the server's stores alone. *)
LEMMA DeviceOnly ==
    ASSUME AInv, UNCHANGED <<creds, sess, nonce>>,
           waits' \in [Devices -> Serials \cup {None}],
           handler' \in [Devices -> [Handlers -> Request]],
           \A e \in Devices, k \in Handlers : Bound(handler'[e][k]),
           holds' \in [Devices -> Serials \cup {None}],
           client' \in [Devices -> Run], Numbered', faults' \in 0..MaxFaults
    PROVE  AInv'
  <1>1. AuthTypeOK'
    BY DEF AInv, AuthTypeOK
  <1> QED
    BY <1>1 DEF AInv, Sources, Own, Bound

LEMMA RunUpdated ==
    ASSUME AInv, NEW d \in Devices, NEW c \in Run, client' = [client EXCEPT ![d] = c],
           c.pc # "idle" \/ c.on # None => c.sid \in 1..MaxSessions
    PROVE  client' \in [Devices -> Run] /\ Numbered'
  <1>1. client \in [Devices -> Run]
    BY DEF AInv, AuthTypeOK
  <1>2. client' \in [Devices -> Run]
    BY <1>1
  <1>3. ASSUME NEW e \in Devices
        PROVE  client'[e] = c \/ client'[e] = client[e]
    BY <1>1
  <1> QED
    BY <1>2, <1>3 DEF AInv, Numbered

LEMMA RunEnded ==
    ASSUME AInv, NEW d \in Devices, EndRun(d)
    PROVE  /\ client' \in [Devices -> Run] /\ Numbered'
           /\ holds' \in [Devices -> Serials \cup {None}]
  <1> DEFINE c == [NoRun EXCEPT !.sid = client[d].sid]
  <1>1. client[d].sid \in 0..MaxSessions
    BY DEF AInv, AuthTypeOK, Run
  <1>2. c \in Run /\ c.pc = "idle" /\ c.on = None
    BY <1>1, Zenon DEF NoRun, Run
  <1>3. client' = [client EXCEPT ![d] = c]
    BY DEF EndRun
  <1>4. holds' \in [Devices -> Serials \cup {None}]
    BY DEF EndRun, AInv, AuthTypeOK
  <1> HIDE DEF c
  <1> QED
    BY <1>2, <1>3, <1>4, RunUpdated, Zenon

LEMMA Sent ==
    ASSUME AInv, NEW d \in Devices, NEW run \in Run, run.sid \in 1..MaxSessions,
           NEW cred \in [secret : Serials \cup {None}, nonce : Nonces \cup {None}],
           Send(d, run, cred)
    PROVE  AInv'
  <1> DEFINE h == CHOOSE h \in Handlers : handler[d][h] = Idle
  <1>1. h \in Handlers
    BY DEF Send
  <1>2. PICK c \in {holds[d], None} :
          /\ Handle(d, h, [Idle EXCEPT !.pc = "lookup", !.req =
               [sid |-> run.sid, msg |-> run.msg, cert |-> c, cred |-> cred, leave |-> run.leave]])
          /\ client' = [client EXCEPT ![d] = [run EXCEPT !.pc = "sent", !.on = h]]
    BY Zenon DEF Send
  <1>3. UNCHANGED <<creds, waits, sess, nonce, holds, faults>>
    BY DEF Send, evars, stores, clients
  <1> HIDE DEF h
  <1> DEFINE m == [sid |-> run.sid, msg |-> run.msg, cert |-> c, cred |-> cred, leave |-> run.leave]
             q == [Idle EXCEPT !.pc = "lookup", !.req = m]
  <1>4. c \in Serials \cup {None}
    <2>1. holds[d] \in Serials \cup {None}
      BY DEF AInv, AuthTypeOK
    <2>2. c \in {holds[d], None}
      BY <1>2
    <2> QED
      BY <2>1, <2>2
  <1>5. m \in Message /\ m.sid \in 1..MaxSessions
    BY <1>4 DEF Message, Run
  <1>6. q \in Request /\ Bound(q)
    <2> HIDE DEF m
    <2> QED
      BY <1>5, Records, ZenonT(60) DEF Idle, Request, Bound
  <1>7. /\ handler' \in [Devices -> [Handlers -> Request]]
        /\ \A e \in Devices, k \in Handlers : Bound(handler'[e][k])
    BY <1>1, <1>2, <1>6, Handled
  <1>8. /\ [run EXCEPT !.pc = "sent", !.on = h] \in Run
        /\ [run EXCEPT !.pc = "sent", !.on = h].sid \in 1..MaxSessions
    BY <1>1, Zenon DEF Run
  <1>9. client' \in [Devices -> Run] /\ Numbered'
    BY <1>2, <1>8, RunUpdated, Zenon
  <1>10. /\ holds' \in [Devices -> Serials \cup {None}]
         /\ waits' \in [Devices -> Serials \cup {None}]
         /\ faults' \in 0..MaxFaults
    BY <1>3 DEF AInv, AuthTypeOK, Sources
  <1> QED
    BY <1>3, <1>7, <1>9, <1>10, DeviceOnly

LEMMA ClientSteps ==
    ASSUME AInv, NEW d \in Devices, ClientStep(d)
    PROVE  AInv'
  <1> DEFINE c == client[d]
  <1>1. /\ c \in Run /\ holds[d] \in Serials \cup {None}
        /\ c.pc # "idle" => c.sid \in 1..MaxSessions
    BY DEF AInv, AuthTypeOK, Numbered
  <1>2. CASE OpenSession(d)
    <2>1. PICK leave \in BOOLEAN :
            Send(d, [NoRun EXCEPT !.sid = c.sid + 1, !.msg = 1, !.leave = leave], NoCred)
      BY <1>2, Zenon DEF OpenSession
    <2>2. c.sid + 1 \in 1..MaxSessions
      BY <1>1, <1>2, AuthAssumption DEF OpenSession, Run
    <2> DEFINE run == [NoRun EXCEPT !.sid = c.sid + 1, !.msg = 1, !.leave = leave]
    <2>3. run \in Run /\ run.sid \in 1..MaxSessions
      <3>1. c.sid + 1 \in 0..MaxSessions
        BY <2>2, AuthAssumption
      <3> QED
        BY <2>2, <3>1, Zenon DEF NoRun, Run
    <2>4. NoCred \in [secret : Serials \cup {None}, nonce : Nonces \cup {None}]
      BY DEF NoCred
    <2> HIDE DEF run
    <2> QED
      BY <2>1, <2>3, <2>4, Sent, Zenon DEF run
  <1>3. CASE Answer(d)
    <2> DEFINE run == [c EXCEPT !.msg = @ + 1]
               cred == IF c.nonce = None THEN NoCred ELSE [secret |-> holds[d], nonce |-> c.nonce]
    <2>1. Send(d, run, cred) /\ c.pc # "idle"
      BY <1>3 DEF Answer
    <2>2. run \in Run /\ run.sid \in 1..MaxSessions
      BY <1>1, <2>1 DEF Run
    <2>3. cred \in [secret : Serials \cup {None}, nonce : Nonces \cup {None}]
      BY <1>1 DEF NoCred, Run
    <2> HIDE DEF run, cred
    <2> QED
      BY <2>1, <2>2, <2>3, Sent
  <1>4. CASE GiveUpSession(d)
    <2>1. EndRun(d) /\ UNCHANGED <<creds, waits, sess, nonce, handler, faults>>
      BY <1>4 DEF GiveUpSession, server, evars, stores, clients
    <2>2. /\ waits' \in [Devices -> Serials \cup {None}]
          /\ faults' \in 0..MaxFaults
          /\ handler' \in [Devices -> [Handlers -> Request]]
          /\ \A e \in Devices, k \in Handlers : Bound(handler'[e][k])
      BY <2>1 DEF AInv, AuthTypeOK, Sources
    <2> QED
      BY <2>1, <2>2, RunEnded, DeviceOnly
  <1> QED
    BY <1>2, <1>3, <1>4 DEF ClientStep

LEMMA ReplyStep ==
    ASSUME AInv, NEW d \in Devices, NEW h \in Handlers, Reply(d, h)
    PROVE  AInv'
  <1> DEFINE r == handler[d][h]
             c == client[d]
  <1>1. /\ Handle(d, h, Idle)
        /\ UNCHANGED <<creds, waits, sess, nonce, faults>>
    BY DEF Reply, evars, stores, clients
  <1>2. /\ handler' \in [Devices -> [Handlers -> Request]]
        /\ \A e \in Devices, k \in Handlers : Bound(handler'[e][k])
    BY <1>1, Records, Handled
  <1>3. /\ waits' \in [Devices -> Serials \cup {None}]
        /\ faults' \in 0..MaxFaults
    BY <1>1 DEF AInv, AuthTypeOK, Sources
  <1>4. c \in Run /\ r \in Request
    BY DEF AInv, AuthTypeOK
  <1>5. /\ client' \in [Devices -> Run] /\ Numbered'
        /\ holds' \in [Devices -> Serials \cup {None}]
    <2>1. CASE c.on # h
      <3>1. UNCHANGED <<holds, client>>
        BY <2>1 DEF Reply
      <3> QED
        BY <3>1 DEF AInv, AuthTypeOK, Numbered
    <2>2. CASE c.on = h /\ r.reply \in {"error", "end"}
      <3>1. EndRun(d)
        BY <2>2 DEF Reply
      <3> QED
        BY <3>1, RunEnded
    <2>3. CASE c.on = h /\ r.reply \notin {"error", "end"}
      <3>1. c.sid \in 1..MaxSessions
        BY <2>3, AuthAssumption DEF AInv, Numbered
      <3>2. /\ holds' = holds
            /\ client' = [client EXCEPT ![d] = Heard(c, r.reply)]
        BY <2>3 DEF Reply
      <3>3. holds' \in [Devices -> Serials \cup {None}]
        BY <3>2 DEF AInv, AuthTypeOK
      <3>4. r.reply = "more" \/ r.reply \in Nonces \cup {None}
        BY <1>4, <2>3 DEF Request
      <3>5. Heard(c, r.reply) \in Run /\ Heard(c, r.reply).sid \in 1..MaxSessions
        <4>1. CASE r.reply = "more"
          BY <1>4, <3>1, <4>1, Zenon DEF Heard, Run
        <4>2. CASE r.reply # "more"
          <5>1. c.challenged + 1 \in Nat
            BY <1>4 DEF Run
          <5> QED
            BY <1>4, <3>1, <3>4, <4>2, <5>1, Zenon DEF Heard, Run
        <4> QED
          BY <4>1, <4>2
      <3> QED
        BY <3>2, <3>3, <3>5, RunUpdated, Zenon
    <2> QED
      BY <2>1, <2>2, <2>3
  <1> QED
    BY <1>1, <1>2, <1>3, <1>5, DeviceOnly

LEMMA TimeoutStep ==
    ASSUME AInv, NEW d \in Devices, Timeout(d)
    PROVE  AInv'
  <1>1. EndRun(d) /\ Fault /\ UNCHANGED <<creds, waits, sess, nonce, handler>>
    BY DEF Timeout, server, evars, stores, clients
  <1>2. /\ waits' \in [Devices -> Serials \cup {None}]
        /\ handler' \in [Devices -> [Handlers -> Request]]
        /\ \A e \in Devices, k \in Handlers : Bound(handler'[e][k])
    BY <1>1 DEF AInv, AuthTypeOK, Sources
  <1> QED
    BY <1>1, <1>2, RunEnded, FaultBound, DeviceOnly

LEMMA InstallStep ==
    ASSUME AInv, NEW d \in Devices, Install(d)
    PROVE  AInv'
  <1>1. /\ waits' = [waits EXCEPT ![d] = None]
        /\ UNCHANGED <<creds, sess, nonce, handler>>
        /\ holds' = [holds EXCEPT ![d] = waits[d]]
        /\ client' = [client EXCEPT ![d] = NoRun]
        /\ Fault \/ UNCHANGED faults
    BY DEF Install, Receive, server, stores
  <1>2. /\ waits' \in [Devices -> Serials \cup {None}]
        /\ holds' \in [Devices -> Serials \cup {None}]
    BY <1>1 DEF AInv, AuthTypeOK, Sources
  <1>3. /\ handler' \in [Devices -> [Handlers -> Request]]
        /\ \A e \in Devices, k \in Handlers : Bound(handler'[e][k])
    BY <1>1 DEF AInv, AuthTypeOK
  <1>4. NoRun \in Run /\ NoRun.pc = "idle" /\ NoRun.on = None
    BY Records DEF NoRun
  <1>5. client' \in [Devices -> Run] /\ Numbered'
    BY <1>1, <1>4, RunUpdated, Zenon
  <1> QED
    BY <1>1, <1>2, <1>3, <1>5, FaultBound, DeviceOnly

LEMMA EnrollsStep ==
    ASSUME AInv, Enrolls
    PROVE  AInv'
  <1>1. UNCHANGED <<sess, nonce, handler, holds, client, faults>>
    BY DEF Enrolls, server
  <1>2. Sources'
    <2>0. Sources
      BY DEF AInv
    <2>1. ASSUME NEW d \in Devices, NEW s \in Serials, Issue(d, s)
          PROVE  Sources'
      BY <2>0, <2>1 DEF Sources, Issue, stores
    <2>2. ASSUME NEW s \in Serials, Provision(s)
          PROVE  Sources'
      BY <2>0, <2>2, Zenon DEF Sources, Provision, Step, clients
    <2>3. ASSUME NEW s \in Serials,
                 PutCertificate(s) \/ ListByHWDevID(s) \/ Report(s) \/ Fail(s) \/ Create(s)
          PROVE  Sources'
      BY <2>0, <2>3
         DEF Sources, PutCertificate, ListByHWDevID, Report, Fail, Create, Step, stores, clients
    <2>4. ASSUME NEW d \in Devices, GiveUp(d)
          PROVE  Sources'
      BY <2>0, <2>4 DEF Sources, GiveUp, stores
    <2>5. ASSUME NEW d \in Devices, HookStep(d)
          PROVE  Sources'
      BY <2>0, <2>5
         DEF Sources, HookStep, HookGet, HookSetState, HookRevoke, HookFail, stores, clients
    <2> QED
      BY <2>1, <2>2, <2>3, <2>4, <2>5 DEF Enrolls, RequestStepBut
  <1>3. AuthTypeOK'
    BY <1>1 DEF AInv, AuthTypeOK
  <1> QED
    BY <1>1, <1>2, <1>3, ZenonT(60) DEF AInv, Numbered, Own, Bound

-----------------------------------------------------------------------------
LEMMA StepAInv == AInv /\ [AuthNext]_authvars => AInv'
  <1> SUFFICES ASSUME AInv, [AuthNext]_authvars PROVE AInv'
    OBVIOUS
  <1>1. CASE Enrolls
    BY <1>1, EnrollsStep
  <1>2. ASSUME NEW d \in Devices, NEW h \in Handlers, HandlerStep(d, h) \/ Abort(d, h)
        PROVE  AInv'
    BY <1>2, LookupSteps, OpenStep, AuthSteps, PutStep, DeleteStep, EndSteps, ReplyStep
       DEF HandlerStep
  <1>3. ASSUME NEW d \in Devices,
               \/ ClientStep(d) \/ Timeout(d) \/ Install(d)
               \/ ExpireNonce(d) \/ \E i \in 1..MaxSessions : ExpireSession(d, i)
        PROVE  AInv'
    BY <1>3, ClientSteps, TimeoutStep, InstallStep, ExpirySteps
  <1>4. CASE UNCHANGED authvars
    <2>1. UNCHANGED <<creds, waits, sess, nonce, handler, holds, client, faults>>
      BY <1>4 DEF authvars, evars, server, stores, clients
    <2>2. AuthTypeOK'
      BY <2>1 DEF AInv, AuthTypeOK
    <2> QED
      BY <2>1, <2>2, ZenonT(60) DEF AInv, Sources, Numbered, Own, Bound
  <1> QED
    BY <1>1, <1>2, <1>3, <1>4 DEF AuthNext

(* The sessions, the requests and the devices keep their types, and a stored
   session has an AuthType exactly while it is authenticated. *)
THEOREM AuthTypeCorrect == AuthSpec => []AuthTypeOK
  <1>1. AInv => AuthTypeOK
    BY DEF AInv
  <1> QED
    BY InitAInv, StepAInv, <1>1, PTL DEF AuthSpec

(* service.go session() and authenticate(): no message is acted on in a session
   opened or authenticated under another enrollment than the one looked up for
   it, however requests, re-enrollments and failures interleave. *)
THEOREM NoCarryOver == AuthSpec => []NothingCarriedOver
  <1>1. AInv => NothingCarriedOver
    BY DEF AInv, Bound, Own, NothingCarriedOver
  <1> QED
    BY InitAInv, StepAInv, <1>1, PTL DEF AuthSpec

(* service.go authenticate(): a message trusted for its certificate presented
   that certificate itself. *)
THEOREM CertificateEveryTime == AuthSpec => []CertificateOnEveryRequest
  <1>1. AInv => CertificateOnEveryRequest
    BY DEF AInv, Bound, CertificateOnEveryRequest
  <1> QED
    BY InitAInv, StepAInv, <1>1, PTL DEF AuthSpec

=============================================================================
