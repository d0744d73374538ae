----------------------------- MODULE SessionAuth -----------------------------
(***************************************************************************)
(* Which messages the session engine acts on: mdm.Service.Handle up to and *)
(* including authentication (Lookup, session, authenticate, challenge, the *)
(* nonces) and what finish does with the session, composed with            *)
(* Enrollment, which replaces the enrollment and the credential between    *)
(* any two of its steps.  What a trusted message does is SessionEngine's;  *)
(* here it continues the session, ends it, or ends the enrollment.  The    *)
(* device is simulator's: it answers a challenge and gives up at the third.*)
(***************************************************************************)
EXTENDS Enrollment

CONSTANTS
    First,        \* device -> the enrollment it starts with
    Handlers,     \* concurrent requests of a device
    Nonces,       \* more than are in use at a time
    MaxSessions,  \* sessions a device opens under one enrollment
    MaxMsg,       \* messages of one session
    MaxFaults     \* expiries, timeouts, failed requests and interruptions

ASSUME AuthAssumption ==
    /\ First \in [Devices -> Serials]
    /\ \A d, e \in Devices : First[d] = First[e] => d = e
    /\ None \notin Handlers
    /\ MaxSessions \in Nat /\ MaxMsg \in Nat /\ MaxFaults \in Nat

VARIABLES
    sess,     \* device -> SessionID -> stored session (MemorySessions)
    nonce,    \* device -> the nonce in the state store, or None
    handler,  \* device -> handler -> the request it works on
    holds,    \* device -> the enrollment it installed
    client,   \* device -> the session it runs (sessionState)
    faults    \* faults so far

server == <<sess, nonce, handler>>
authvars == <<evars, server, holds, client, faults>>

(* Session: EnrollmentKey, ClientMsgID, Authenticated, AuthType, and the
   enrollment that was looked up when it was authenticated. *)
NoSession == [key |-> None, msg |-> 0, authenticated |-> FALSE, auth |-> "", by |-> None]

(* SessionID and MsgID, the serial of the verified TLS leaf, the SyncHdr Cred
   (the secret and the nonce it digests), and the user's unenroll alert. *)
NoCred == [secret |-> None, nonce |-> None]
NoMessage == [sid |-> 0, msg |-> 0, cert |-> None, cred |-> NoCred, leave |-> FALSE]

(* What Handle has looked up so far, and the reply: None while there is none,
   "more" to answer, "end", "error", or the nonce of a challenge. *)
Idle == [pc |-> "idle", req |-> NoMessage, key |-> None, cred |-> None,
         sess |-> NoSession, reply |-> None]
Replied(reply) == [Idle EXCEPT !.pc = "replied", !.reply = reply]

(* on is the request the device waits on. *)
NoRun == [pc |-> "idle", sid |-> 0, msg |-> 0, nonce |-> None, challenged |-> 0,
          leave |-> FALSE, on |-> None]

(* Every device has completed its first enrollment. *)
Enrolled(s) == \E d \in Devices : First[d] = s
AuthInit ==
    /\ pc = [s \in Serials |-> IF Enrolled(s) THEN "done" ELSE "unused"]
    /\ dev = [s \in Serials |-> IF Enrolled(s) THEN CHOOSE d \in Devices : First[d] = s ELSE None]
    /\ enrs = [s \in Serials |-> IF Enrolled(s) THEN "active" ELSE "absent"]
    /\ certs = [s \in Serials |-> IF Enrolled(s) THEN "valid" ELSE "absent"]
    /\ creds = First
    /\ seen = [s \in Serials |-> {}]
    /\ found = [s \in Serials |-> {}]
    /\ reported = {}
    /\ hook = [d \in Devices |-> "idle"]
    /\ ending = [d \in Devices |-> None]
    /\ waits = [d \in Devices |-> None]
    /\ dropped = [d \in Devices |-> {}]
    /\ holds = First
    /\ sess = [d \in Devices |-> [i \in 1..MaxSessions |-> NoSession]]
    /\ nonce = [d \in Devices |-> None]
    /\ handler = [d \in Devices |-> [h \in Handlers |-> Idle]]
    /\ client = [d \in Devices |-> NoRun]
    /\ faults = 0

Fault == faults < MaxFaults /\ faults' = faults + 1
Handle(d, h, r) == handler' = [handler EXCEPT ![d][h] = r]

-----------------------------------------------------------------------------
(* Lookup reads the active enrollment (ErrUnenrolled without one), and then the
   credential. *)
LookupEnrollment(d, h) ==
    LET r == handler[d][h]
    IN  /\ r.pc = "lookup"
        /\ \/ /\ Active(d) = {}
              /\ Handle(d, h, Replied("error"))
           \/ \E s \in Active(d) : Handle(d, h, [r EXCEPT !.pc = "credential", !.key = s])
        /\ UNCHANGED <<evars, sess, nonce, holds, client, faults>>
LookupCredential(d, h) ==
    LET r == handler[d][h]
    IN  /\ r.pc = "credential"
        /\ Handle(d, h, [r EXCEPT !.pc = "open", !.cred = creds[d]])
        /\ UNCHANGED <<evars, sess, nonce, holds, client, faults>>

(* Mutant: a session is continued whatever enrollment it was opened under. *)
CurrentAnyKey(d, r) == sess[d][r.req.sid]
(* session(): a stored session of another enrollment does not count. *)
Current(d, r) ==
    IF sess[d][r.req.sid].key = r.key THEN sess[d][r.req.sid] ELSE NoSession

(* A new session starts at MsgID 1, a known one takes the next. *)
InSequence(d, r) == r.req.msg = Current(d, r).msg + 1

Opened(d, r) ==
    [Current(d, r) EXCEPT !.key = IF @ = None THEN r.key ELSE @, !.msg = r.req.msg]
Open(d, h) ==
    LET r == handler[d][h]
    IN  /\ r.pc = "open"
        /\ Handle(d, h, IF InSequence(d, r) THEN [r EXCEPT !.pc = "auth", !.sess = Opened(d, r)]
                        ELSE Replied("error"))
        /\ UNCHANGED <<evars, sess, nonce, holds, client, faults>>

(* Mutant: a session that is authenticated stays so. *)
RememberedAny(s) == s.authenticated
(* A verified digest is remembered for the session, a certificate is not. *)
Remembered(s) == s.authenticated /\ s.auth # "certificate"

(* verifyCredential(): the digest is of the stored secret and the nonce that is
   current. *)
Verifies(d, r) ==
    /\ r.cred # None /\ nonce[d] # None
    /\ r.req.cred = [secret |-> r.cred, nonce |-> nonce[d]]

(* Mutant: the reset leaves the AuthType of the certificate. *)
DistrustedHalf(s) == [s EXCEPT !.authenticated = FALSE, !.by = None]
Distrusted(s) == [s EXCEPT !.authenticated = FALSE, !.auth = "", !.by = None]

(* authenticate(): the session after it. *)
Authenticated(d, r) ==
    IF Remembered(r.sess) THEN r.sess
    ELSE IF r.req.cert = r.key
      THEN [r.sess EXCEPT !.authenticated = TRUE, !.auth = "certificate", !.by = r.key]
    ELSE IF Verifies(d, r)
      THEN [r.sess EXCEPT !.authenticated = TRUE, !.auth = "digest", !.by = r.key]
    ELSE Distrusted(r.sess)

(* The message is acted on. *)
Trust(d, h) ==
    LET r == handler[d][h]
    IN  /\ r.pc = "auth" /\ Authenticated(d, r).authenticated
        /\ Handle(d, h, [r EXCEPT !.pc = "finish", !.sess = Authenticated(d, r)])
        /\ UNCHANGED <<evars, sess, nonce, holds, client, faults>>

InUse(d) ==
    {nonce[d], client[d].nonce}
    \cup UNION {{handler[d][h].req.cred.nonce, handler[d][h].reply} : h \in Handlers}

(* Mutant: a nonce that is stored already is not replaced. *)
IssuedOnce(d, n) == nonce' = [nonce EXCEPT ![d] = IF @ = None THEN n ELSE @]
(* issueNonce(): the device has one nonce, shared by its sessions. *)
Issued(d, n) == nonce' = [nonce EXCEPT ![d] = n]

(* challenge(): 407 without a Cred or 401 with a wrong one, and a fresh nonce. *)
Challenge(d, h) ==
    LET r == handler[d][h]
        n == CHOOSE n \in Nonces : n \notin InUse(d)
    IN  /\ r.pc = "auth" /\ ~Authenticated(d, r).authenticated
        /\ Nonces \ InUse(d) # {}
        /\ Issued(d, n)
        /\ Handle(d, h, [r EXCEPT !.pc = "challenge", !.sess = Authenticated(d, r), !.reply = n])
        /\ UNCHANGED <<evars, sess, holds, client, faults>>

(* finish(): a challenged session, and one with work left, is stored. *)
Put(d, h) ==
    LET r == handler[d][h]
    IN  /\ r.pc = "challenge" \/ (r.pc = "finish" /\ ~r.req.leave)
        /\ sess' = [sess EXCEPT ![d][r.req.sid] = r.sess]
        /\ Handle(d, h, Replied(IF r.reply = None THEN "more" ELSE r.reply))
        /\ UNCHANGED <<evars, nonce, holds, client, faults>>

(* finish(): a session without work, or closed by the alert, is deleted; the
   alert runs the Unenrolled hook before the reply. *)
Delete(d, h) ==
    LET r == handler[d][h]
    IN  /\ r.pc = "finish"
        /\ sess' = [sess EXCEPT ![d][r.req.sid] = NoSession]
        /\ IF r.req.leave
             THEN Unenrolled(d) /\ Handle(d, h, [Idle EXCEPT !.pc = "hook"])
             ELSE UNCHANGED evars /\ Handle(d, h, Replied("end"))
        /\ UNCHANGED <<nonce, holds, client, faults>>
HookDone(d, h) ==
    /\ handler[d][h].pc = "hook" /\ hook[d] = "idle"
    /\ Handle(d, h, Replied("end"))
    /\ UNCHANGED <<evars, sess, nonce, holds, client, faults>>

(* A store fails and the request with it; the session is not stored. *)
Abort(d, h) ==
    /\ handler[d][h].pc \in {"lookup", "credential", "open", "auth", "challenge", "finish"}
    /\ Fault
    /\ Handle(d, h, Replied("error"))
    /\ UNCHANGED <<evars, sess, nonce, holds, client>>

(* NonceTTL, and the TTL of MemorySessions or a restart of the server. *)
ExpireNonce(d) ==
    /\ nonce[d] # None
    /\ Fault
    /\ nonce' = [nonce EXCEPT ![d] = None]
    /\ UNCHANGED <<evars, sess, handler, holds, client>>
ExpireSession(d, i) ==
    /\ sess[d][i] # NoSession
    /\ Fault
    /\ sess' = [sess EXCEPT ![d][i] = NoSession]
    /\ UNCHANGED <<evars, nonce, handler, holds, client>>

-----------------------------------------------------------------------------
(* run sends its message; the connection presents the certificate of the
   enrollment, or none. *)
Send(d, run, cred) ==
    /\ {h \in Handlers : handler[d][h] = Idle} # {}
    /\ LET h == CHOOSE h \in Handlers : handler[d][h] = Idle
       IN  \E c \in {holds[d], None} :
             /\ Handle(d, h, [Idle EXCEPT !.pc = "lookup", !.req =
                  [sid |-> run.sid, msg |-> run.msg, cert |-> c, cred |-> cred, leave |-> run.leave]])
             /\ client' = [client EXCEPT ![d] = [run EXCEPT !.pc = "sent", !.on = h]]
    /\ UNCHANGED <<evars, sess, nonce, holds, faults>>

(* packageOne(): no Cred yet.  SessionIDs count up under one enrollment. *)
OpenSession(d) ==
    /\ client[d].pc = "idle" /\ client[d].sid < MaxSessions /\ holds[d] # None
    /\ \E leave \in BOOLEAN :
           Send(d, [NoRun EXCEPT !.sid = client[d].sid + 1, !.msg = 1, !.leave = leave], NoCred)

(* answer(): once challenged, every message carries a Cred; the answer to a
   challenge repeats package 1. *)
Answer(d) ==
    LET c == client[d]
    IN  /\ c.pc \in {"challenged", "served"} /\ c.challenged <= 2 /\ c.msg < MaxMsg
        /\ Send(d, [c EXCEPT !.msg = @ + 1],
                IF c.nonce = None THEN NoCred ELSE [secret |-> holds[d], nonce |-> c.nonce])

(* The session is over; after an unenroll alert the account is removed. *)
EndRun(d) ==
    /\ client' = [client EXCEPT ![d] = [NoRun EXCEPT !.sid = client[d].sid]]
    /\ holds' = [holds EXCEPT ![d] = IF client[d].leave THEN None ELSE @]

(* ErrChallengeLoop, or the bound on messages. *)
GiveUpSession(d) ==
    /\ client[d].pc \in {"challenged", "served"}
    /\ client[d].challenged > 2 \/ client[d].msg = MaxMsg
    /\ EndRun(d)
    /\ UNCHANGED <<evars, server, faults>>

(* The run after a reply that leaves it open: to be answered, or a challenge. *)
Heard(c, reply) ==
    IF reply = "more" THEN [c EXCEPT !.pc = "served", !.on = None]
    ELSE [c EXCEPT !.pc = "challenged", !.on = None, !.nonce = reply,
                   !.challenged = c.challenged + 1]

(* The device takes the reply if it still waits on the request. *)
Reply(d, h) ==
    LET r == handler[d][h]
    IN  /\ r.pc = "replied"
        /\ Handle(d, h, Idle)
        /\ IF client[d].on # h THEN UNCHANGED <<holds, client>>
           ELSE IF r.reply \in {"error", "end"} THEN EndRun(d)
           ELSE client' = [client EXCEPT ![d] = Heard(client[d], r.reply)] /\ UNCHANGED holds
        /\ UNCHANGED <<evars, sess, nonce, faults>>

(* The device stops waiting; the request may still be worked on. *)
Timeout(d) ==
    /\ client[d].pc = "sent"
    /\ Fault
    /\ EndRun(d)
    /\ UNCHANGED <<evars, server>>

(* The device installs a new enrollment, which restarts its session numbering;
   doing so while a request is open is a fault. *)
Install(d) ==
    /\ Receive(d)
    /\ IF \A h \in Handlers : handler[d][h] = Idle THEN UNCHANGED faults ELSE Fault
    /\ holds' = [holds EXCEPT ![d] = waits[d]]
    /\ client' = [client EXCEPT ![d] = NoRun]
    /\ UNCHANGED <<server>>

Enrolls ==
    /\ \/ \E d \in Devices, s \in Serials : Issue(d, s)
       \/ \E s \in Serials : RequestStepBut(s) \/ Create(s)
       \/ \E d \in Devices : GiveUp(d) \/ HookStep(d)
    /\ UNCHANGED <<server, holds, client, faults>>

HandlerStep(d, h) ==
    \/ LookupEnrollment(d, h) \/ LookupCredential(d, h) \/ Open(d, h)
    \/ Trust(d, h) \/ Challenge(d, h) \/ Put(d, h) \/ Delete(d, h) \/ HookDone(d, h)
    \/ Reply(d, h)
ClientStep(d) == OpenSession(d) \/ Answer(d) \/ GiveUpSession(d)

AuthNext ==
    \/ Enrolls
    \/ \E d \in Devices :
           \/ \E h \in Handlers : HandlerStep(d, h) \/ Abort(d, h)
           \/ ClientStep(d) \/ Timeout(d) \/ Install(d)
           \/ ExpireNonce(d) \/ \E i \in 1..MaxSessions : ExpireSession(d, i)

AuthSpec == AuthInit /\ [][AuthNext]_authvars

-----------------------------------------------------------------------------
Session == [key : Serials \cup {None}, msg : Nat, authenticated : BOOLEAN,
            auth : {"", "certificate", "digest"}, by : Serials \cup {None}]
Message == [sid : 0..MaxSessions, msg : Nat, cert : Serials \cup {None}, leave : BOOLEAN,
            cred : [secret : Serials \cup {None}, nonce : Nonces \cup {None}]]
Request == [pc : {"idle", "lookup", "credential", "open", "auth", "challenge", "finish", "hook", "replied"},
            req : Message, key : Serials \cup {None}, cred : Serials \cup {None},
            sess : Session, reply : Nonces \cup {None, "more", "end", "error"}]
Run == [pc : {"idle", "sent", "challenged", "served"}, sid : 0..MaxSessions, msg : Nat,
        nonce : Nonces \cup {None}, challenged : Nat, leave : BOOLEAN, on : Handlers \cup {None}]

(* Type invariant of the sessions, the requests and the devices; a stored
   session has an AuthType exactly while it is authenticated. *)
AuthTypeOK ==
    /\ sess \in [Devices -> [1..MaxSessions -> Session]]
    /\ nonce \in [Devices -> Nonces \cup {None}]
    /\ handler \in [Devices -> [Handlers -> Request]]
    /\ holds \in [Devices -> Serials \cup {None}]
    /\ client \in [Devices -> Run]
    /\ faults \in 0..MaxFaults
    /\ \A d \in Devices, i \in 1..MaxSessions :
           sess[d][i].authenticated <=> sess[d][i].auth # ""

(* service.go "A session from the old certificate must not carry authentication
   or MsgID state forward": a message is acted on in a session that was opened
   and authenticated under the enrollment that was looked up for it. *)
NothingCarriedOver ==
    \A d \in Devices, h \in Handlers :
        handler[d][h].pc = "finish" =>
            /\ handler[d][h].sess.key = handler[d][h].key
            /\ handler[d][h].sess.by = handler[d][h].key

(* service.go "Certificate authentication must hold on every request, including
   when a session continues over a new TLS connection". *)
CertificateOnEveryRequest ==
    \A d \in Devices, h \in Handlers :
        handler[d][h].pc = "finish" /\ handler[d][h].sess.auth = "certificate"
        => handler[d][h].req.cert = handler[d][h].key

(* simulator ErrChallengeLoop: with one fault at most, a device that holds the
   active enrollment and the credential stored for it is not challenged three
   times in a session, whatever requests of its earlier sessions still run. *)
NoChallengeLoop ==
    \A d \in Devices :
        client[d].challenged > 2 => holds[d] \notin Active(d) \/ creds[d] # holds[d]
=============================================================================
