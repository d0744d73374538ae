-------------------------- MODULE EnrollmentProofs --------------------------
(***************************************************************************)
(* The enrollment store keeps one active enrollment per device, its        *)
(* certificate valid and its credential current, for any devices, serials  *)
(* and interleaving.  IInv relates how far a request got to what the       *)
(* stores hold, and the requests still running to the one the device       *)
(* waits for.                                                              *)
(***************************************************************************)
EXTENDS Enrollment, TLAPS

(* A request's steps wrote what they wrote, and no more. *)
Progress == \A s \in Serials :
    /\ pc[s] # "unused" <=> dev[s] \in Devices
    /\ pc[s] \in {"unused", "issued", "provisioned"} => certs[s] = "absent"
    /\ pc[s] \in {"certified", "looked"} => certs[s] = "valid"
    /\ enrs[s] # "absent" => pc[s] \in {"created", "done", "failed"}

(* A hook that got an enrollment works on a stored one, and revokes only after
   it ended it. *)
HookOrder == \A d \in Devices :
    /\ hook[d] \in {"set", "revoke"} => ending[d] \in Serials
    /\ hook[d] = "set" => enrs[ending[d]] # "absent"
    /\ hook[d] = "revoke" => enrs[ending[d]] = "unenrolled"

Earlier(s, t) ==
    /\ t \in seen[s]
    /\ <<dev[t], dev[s]>> \in SameHardware
    /\ dev[t] # dev[s]

(* What was stored before a request came is stored, and found and reported when
   the request is that far. *)
Lookups == \A s, t \in Serials :
    /\ t \in seen[s] => enrs[t] # "absent"
    /\ pc[s] \in {"looked", "created"} /\ Earlier(s, t) => t \in found[s]
    /\ pc[s] = "done" /\ Earlier(s, t) => <<s, t>> \in reported

Dropped(s) == s \in dropped[dev[s]]
Running(s) == pc[s] \in InFlight

(* The device waits for a running request or dropped it, so of two running
   requests of a device one is dropped. *)
Waits == \A s \in Serials : Running(s) => waits[dev[s]] = s \/ Dropped(s)

(* While the device waits for a request no other but a dropped one replaces
   its credential, or its enrollment. *)
Undisturbed == \A s \in Serials :
    Running(s) /\ ~Dropped(s) =>
        /\ pc[s] # "issued" =>
               creds[dev[s]] = s \/ creds[dev[s]] \in dropped[dev[s]]
        /\ pc[s] = "created" =>
               \A t \in Active(dev[s]) : t = s \/ t \in dropped[dev[s]]

(* The stored credential is that of a request of the device, and there is one
   once a request came that far. *)
Owned ==
    /\ \A d \in Devices : creds[d] \in Serials => dev[creds[d]] = d /\ pc[creds[d]] # "issued"
    /\ \A s \in Serials : pc[s] \in InFlight \ {"issued"} => creds[dev[s]] \in Serials

IInv ==
    /\ TypeOK /\ Progress /\ HookOrder /\ Lookups /\ Waits /\ Undisturbed /\ Owned
    /\ OneActive /\ ActiveIsCertified /\ CredentialFollows

-----------------------------------------------------------------------------
(* The empty stores satisfy the invariant. *)
LEMMA InitIInv == Init => IInv
  BY EnrollmentAssumption
  DEF Init, IInv, TypeOK, InFlight, Progress, HookOrder, Lookups, Earlier, Waits,
      Undisturbed, Owned, Running, Dropped, OneActive, ActiveIsCertified,
      CredentialFollows, Active

(* Every step keeps the types. *)
LEMMA TypeStep ==
  ASSUME TypeOK, Next
  PROVE  TypeOK'
<1>1. ASSUME NEW d \in Devices, NEW s \in Serials, Issue(d, s)
     PROVE  TypeOK'
  BY <1>1 DEF Issue, stores, hooks, TypeOK, Stored, InFlight
<1>2. ASSUME NEW s \in Serials, Provision(s)
     PROVE  TypeOK'
  BY <1>2, Zenon DEF Provision, Step, hooks, clients, TypeOK, InFlight
<1>3. ASSUME NEW s \in Serials, PutCertificate(s)
     PROVE  TypeOK'
  BY <1>3 DEF PutCertificate, Step, hooks, clients, TypeOK, InFlight
<1>4. ASSUME NEW s \in Serials, ListByHWDevID(s)
     PROVE  TypeOK'
  BY <1>4 DEF ListByHWDevID, Step, stores, hooks, clients, TypeOK, Conflicts,
       Stored, InFlight
<1>5. ASSUME NEW s \in Serials, Create(s)
     PROVE  TypeOK'
  BY <1>5 DEF Create, Step, hooks, clients, TypeOK, StoredAsActive, InFlight
<1>6. ASSUME NEW s \in Serials, Report(s)
     PROVE  TypeOK'
  BY <1>6 DEF Report, Step, hooks, clients, TypeOK, InFlight
<1>7. ASSUME NEW s \in Serials, Fail(s)
     PROVE  TypeOK'
  BY <1>7 DEF Fail, Step, stores, hooks, clients, TypeOK, InFlight
<1>8. ASSUME NEW d \in Devices, Receive(d)
     PROVE  TypeOK'
  BY <1>8 DEF Receive, request, stores, hooks, TypeOK
<1>9. ASSUME NEW d \in Devices, GiveUp(d)
     PROVE  TypeOK'
  BY <1>9 DEF GiveUp, request, stores, hooks, TypeOK
<1>10. ASSUME NEW d \in Devices, Unenrolled(d)
     PROVE  TypeOK'
  BY <1>10 DEF Unenrolled, request, stores, clients, TypeOK
<1>11. ASSUME NEW d \in Devices, HookGet(d)
     PROVE  TypeOK'
  BY <1>11 DEF HookGet, request, stores, clients, TypeOK, Active
<1>12. ASSUME NEW d \in Devices, HookSetState(d)
     PROVE  TypeOK'
  BY <1>12, Zenon DEF HookSetState, request, clients, TypeOK
<1>13. ASSUME NEW d \in Devices, HookRevoke(d)
     PROVE  TypeOK'
  BY <1>13, Zenon DEF HookRevoke, request, clients, TypeOK
<1>14. ASSUME NEW d \in Devices, HookFail(d)
     PROVE  TypeOK'
  BY <1>14 DEF HookFail, request, stores, clients, TypeOK
<1> QED
  BY <1>1, <1>2, <1>3, <1>4, <1>5, <1>6, <1>7, <1>8, <1>9, <1>10, <1>11, <1>12, <1>13, <1>14 DEF
       Next, EnrollNext, RequestStepBut, HookStep

(* A step of a request or a hook writes what its place allows. *)
LEMMA ProgressStep ==
  ASSUME TypeOK, Progress, HookOrder, ActiveIsCertified, Next
  PROVE  Progress'
<1>1. CASE UNCHANGED <<pc, dev, certs, enrs>>
  BY <1>1 DEF Progress
<1>2. ASSUME NEW d \in Devices, NEW s \in Serials, Issue(d, s)
     PROVE  Progress'
  BY <1>2, EnrollmentAssumption DEF Issue, stores, TypeOK, Progress,
       HookOrder, ActiveIsCertified
<1>3. ASSUME NEW s \in Serials, Provision(s)
     PROVE  Progress'
  BY <1>3 DEF Provision, Step, TypeOK, Progress, HookOrder, ActiveIsCertified
<1>4. ASSUME NEW s \in Serials, PutCertificate(s)
     PROVE  Progress'
  BY <1>4 DEF PutCertificate, Step, TypeOK, Progress, HookOrder,
       ActiveIsCertified
<1>5. ASSUME NEW s \in Serials, ListByHWDevID(s)
     PROVE  Progress'
  BY <1>5 DEF ListByHWDevID, Step, stores, TypeOK, Progress, HookOrder,
       ActiveIsCertified
<1>6. ASSUME NEW s \in Serials, Create(s)
     PROVE  Progress'
  BY <1>6 DEF Create, Step, TypeOK, Progress, HookOrder, ActiveIsCertified,
       StoredAsActive, Active
<1>7. ASSUME NEW s \in Serials, Report(s)
     PROVE  Progress'
  BY <1>7 DEF Report, Step, TypeOK, Progress, HookOrder, ActiveIsCertified
<1>8. ASSUME NEW s \in Serials, Fail(s)
     PROVE  Progress'
  BY <1>8 DEF Fail, Step, stores, TypeOK, Progress, HookOrder,
       ActiveIsCertified, InFlight
<1>9. ASSUME NEW d \in Devices, HookSetState(d)
     PROVE  Progress'
  BY <1>9 DEF HookSetState, request, TypeOK, Progress, HookOrder,
       ActiveIsCertified
<1>10. ASSUME NEW d \in Devices, HookRevoke(d)
     PROVE  Progress'
  BY <1>10 DEF HookRevoke, request, TypeOK, Progress, HookOrder,
       ActiveIsCertified
<1> QED
  BY <1>1, <1>2, <1>3, <1>4, <1>5, <1>6, <1>7, <1>8, <1>9, <1>10 DEF Next,
       EnrollNext, RequestStepBut, HookStep, Receive, GiveUp, Unenrolled,
       HookGet, HookFail, request, stores

(* A hook revokes only the certificate of an enrollment it ended. *)
LEMMA HookOrderStep ==
  ASSUME TypeOK, Progress, HookOrder, Next
  PROVE  HookOrder'
<1>1. CASE UNCHANGED <<hook, ending, enrs>>
  BY <1>1 DEF HookOrder
<1>2. ASSUME NEW s \in Serials, Create(s)
     PROVE  HookOrder'
  BY <1>2 DEF Create, Step, hooks, TypeOK, HookOrder, StoredAsActive
<1>3. ASSUME NEW d \in Devices, Unenrolled(d)
     PROVE  HookOrder'
  BY <1>3 DEF Unenrolled, stores, TypeOK, HookOrder
<1>4. ASSUME NEW d \in Devices, HookGet(d)
     PROVE  HookOrder'
  BY <1>4 DEF HookGet, stores, TypeOK, HookOrder, Active
<1>5. ASSUME NEW d \in Devices, HookSetState(d)
     PROVE  HookOrder'
  BY <1>5 DEF HookSetState, TypeOK, HookOrder
<1>6. ASSUME NEW d \in Devices, HookRevoke(d)
     PROVE  HookOrder'
  BY <1>6 DEF HookRevoke, TypeOK, HookOrder
<1>7. ASSUME NEW d \in Devices, HookFail(d)
     PROVE  HookOrder'
  BY <1>7 DEF HookFail, stores, TypeOK, HookOrder
<1> QED
  BY <1>1, <1>2, <1>3, <1>4, <1>5, <1>6, <1>7 DEF Next, EnrollNext,
       RequestStepBut, HookStep, Issue, Provision, PutCertificate,
       ListByHWDevID, Report, Fail, Receive, GiveUp, Step, hooks, stores

(* An enrollment becomes active with its certificate stored, and is ended before the certificate is revoked. *)
LEMMA CertifiedStep ==
  ASSUME TypeOK, Progress, HookOrder, ActiveIsCertified, Next
  PROVE  ActiveIsCertified'
<1>1. CASE UNCHANGED <<enrs, certs>>
  BY <1>1 DEF ActiveIsCertified
<1>2. ASSUME NEW s \in Serials, PutCertificate(s)
     PROVE  ActiveIsCertified'
  BY <1>2 DEF PutCertificate, Step, TypeOK, Progress, HookOrder,
       ActiveIsCertified
<1>3. ASSUME NEW s \in Serials, Create(s)
     PROVE  ActiveIsCertified'
  BY <1>3 DEF Create, Step, TypeOK, Progress, HookOrder, ActiveIsCertified,
       StoredAsActive, Active
<1>4. ASSUME NEW d \in Devices, HookSetState(d)
     PROVE  ActiveIsCertified'
  BY <1>4 DEF HookSetState, TypeOK, Progress, HookOrder, ActiveIsCertified
<1>5. ASSUME NEW d \in Devices, HookRevoke(d)
     PROVE  ActiveIsCertified'
  BY <1>5 DEF HookRevoke, TypeOK, Progress, HookOrder, ActiveIsCertified
<1> QED
  BY <1>1, <1>2, <1>3, <1>4, <1>5 DEF Next, EnrollNext, RequestStepBut,
       HookStep, Issue, Provision, ListByHWDevID, Report, Fail, Receive,
       GiveUp, Unenrolled, HookGet, HookFail, Step, stores

(* Create supersedes the enrollment that was active. *)
LEMMA OneActiveStep ==
  ASSUME TypeOK, Progress, HookOrder, OneActive, Next
  PROVE  OneActive'
<1>1. CASE UNCHANGED <<enrs, dev>>
  BY <1>1 DEF OneActive
<1>2. ASSUME NEW d \in Devices, NEW s \in Serials, Issue(d, s)
     PROVE  OneActive'
  BY <1>2 DEF Issue, stores, TypeOK, Progress, HookOrder, OneActive
<1>3. ASSUME NEW s \in Serials, Create(s)
     PROVE  OneActive'
  BY <1>3 DEF Create, Step, TypeOK, Progress, HookOrder, OneActive,
       StoredAsActive, Active
<1>4. ASSUME NEW d \in Devices, HookSetState(d)
     PROVE  OneActive'
  BY <1>4 DEF HookSetState, request, TypeOK, Progress, HookOrder, OneActive
<1> QED
  BY <1>1, <1>2, <1>3, <1>4 DEF Next, EnrollNext, RequestStepBut, HookStep,
       Provision, PutCertificate, ListByHWDevID, Report, Fail, Receive,
       GiveUp, Unenrolled, HookGet, HookRevoke, HookFail, Step, request, stores

(* Stored enrollments stay stored, so a later lookup finds them. *)
LEMMA LookupsStep ==
  ASSUME TypeOK, Progress, HookOrder, Lookups, Next
  PROVE  Lookups'
<1>1. CASE UNCHANGED <<pc, dev, seen, found, enrs, reported>>
  BY <1>1 DEF Lookups, Earlier
<1>2. ASSUME NEW d \in Devices, NEW s \in Serials, Issue(d, s)
     PROVE  Lookups'
  BY <1>2 DEF Issue, stores, TypeOK, Progress, Lookups, Earlier, Stored
<1>3. ASSUME NEW s \in Serials, Provision(s)
     PROVE  Lookups'
  BY <1>3 DEF Provision, Step, TypeOK, Progress, Lookups, Earlier
<1>4. ASSUME NEW s \in Serials, PutCertificate(s)
     PROVE  Lookups'
  BY <1>4 DEF PutCertificate, Step, TypeOK, Progress, Lookups, Earlier
<1>5. ASSUME NEW s \in Serials, ListByHWDevID(s)
     PROVE  Lookups'
  BY <1>5 DEF ListByHWDevID, Step, stores, TypeOK, Progress, Lookups, Earlier,
       Conflicts, Stored
<1>6. ASSUME NEW s \in Serials, Create(s)
     PROVE  Lookups'
  BY <1>6 DEF Create, Step, TypeOK, Progress, Lookups, Earlier, StoredAsActive
<1>7. ASSUME NEW s \in Serials, Report(s)
     PROVE  Lookups'
  BY <1>7 DEF Report, Step, TypeOK, Progress, Lookups, Earlier
<1>8. ASSUME NEW s \in Serials, Fail(s)
     PROVE  Lookups'
  BY <1>8 DEF Fail, Step, stores, TypeOK, Progress, Lookups, Earlier
<1>9. ASSUME NEW d \in Devices, HookSetState(d)
     PROVE  Lookups'
  BY <1>9 DEF HookSetState, request, TypeOK, Progress, Lookups, Earlier,
       HookOrder
<1> QED
  BY <1>1, <1>2, <1>3, <1>4, <1>5, <1>6, <1>7, <1>8, <1>9 DEF Next,
       EnrollNext, RequestStepBut, HookStep, Receive, GiveUp, Unenrolled,
       HookGet, HookRevoke, HookFail, request, stores

(* A device starts a request only when it waits for none, and stops waiting for a running one only by dropping it. *)
LEMMA WaitsStep ==
  ASSUME TypeOK, Progress, Waits, Next
  PROVE  Waits'
<1>1. CASE UNCHANGED <<pc, dev, waits, dropped>>
  BY <1>1 DEF Waits, Running, Dropped
<1>2. ASSUME NEW d \in Devices, NEW s \in Serials, Issue(d, s)
     PROVE  Waits'
  BY <1>2, EnrollmentAssumption DEF Issue, TypeOK, Progress, Waits, Running,
       Dropped, InFlight
<1>3. ASSUME NEW s \in Serials, Provision(s)
     PROVE  Waits'
  BY <1>3 DEF Provision, Step, clients, TypeOK, Progress, Waits, Running,
       Dropped, InFlight
<1>4. ASSUME NEW s \in Serials, PutCertificate(s)
     PROVE  Waits'
  BY <1>4 DEF PutCertificate, Step, clients, TypeOK, Progress, Waits, Running,
       Dropped, InFlight
<1>5. ASSUME NEW s \in Serials, ListByHWDevID(s)
     PROVE  Waits'
  BY <1>5 DEF ListByHWDevID, Step, clients, TypeOK, Progress, Waits, Running,
       Dropped, InFlight
<1>6. ASSUME NEW s \in Serials, Create(s)
     PROVE  Waits'
  BY <1>6 DEF Create, Step, clients, TypeOK, Progress, Waits, Running,
       Dropped, InFlight
<1>7. ASSUME NEW s \in Serials, Report(s)
     PROVE  Waits'
  BY <1>7 DEF Report, Step, clients, TypeOK, Progress, Waits, Running,
       Dropped, InFlight
<1>8. ASSUME NEW s \in Serials, Fail(s)
     PROVE  Waits'
  BY <1>8 DEF Fail, Step, clients, TypeOK, Progress, Waits, Running, Dropped,
       InFlight
<1>9. ASSUME NEW d \in Devices, Receive(d)
     PROVE  Waits'
  BY <1>9, EnrollmentAssumption DEF Receive, request, TypeOK, Progress, Waits,
       Running, Dropped, InFlight
<1>10. ASSUME NEW d \in Devices, GiveUp(d)
     PROVE  Waits'
  BY <1>10, EnrollmentAssumption DEF GiveUp, request, TypeOK, Progress, Waits,
       Running, Dropped, InFlight
<1> QED
  BY <1>1, <1>2, <1>3, <1>4, <1>5, <1>6, <1>7, <1>8, <1>9, <1>10 DEF Next,
       EnrollNext, RequestStepBut, HookStep, Unenrolled, HookGet, HookSetState,
       HookRevoke, HookFail, clients, request

(* A request stores a credential for its own device. *)
LEMMA OwnedStep ==
  ASSUME TypeOK, Progress, Owned, Next
  PROVE  Owned'
<1>1. CASE UNCHANGED <<pc, dev, creds>>
  BY <1>1 DEF Owned
<1>2. ASSUME NEW d \in Devices, NEW s \in Serials, Issue(d, s)
     PROVE  Owned'
  BY <1>2, EnrollmentAssumption DEF Issue, stores, TypeOK, Progress, Owned,
       InFlight
<1>3. ASSUME NEW s \in Serials, Provision(s)
     PROVE  Owned'
  BY <1>3 DEF Provision, Step, TypeOK, Progress, Owned, InFlight
<1>4. ASSUME NEW s \in Serials, PutCertificate(s)
     PROVE  Owned'
  BY <1>4 DEF PutCertificate, Step, TypeOK, Progress, Owned, InFlight
<1>5. ASSUME NEW s \in Serials, ListByHWDevID(s)
     PROVE  Owned'
  BY <1>5 DEF ListByHWDevID, Step, stores, TypeOK, Progress, Owned, InFlight
<1>6. ASSUME NEW s \in Serials, Create(s)
     PROVE  Owned'
  BY <1>6 DEF Create, Step, TypeOK, Progress, Owned, InFlight
<1>7. ASSUME NEW s \in Serials, Report(s)
     PROVE  Owned'
  BY <1>7 DEF Report, Step, TypeOK, Progress, Owned, InFlight
<1>8. ASSUME NEW s \in Serials, Fail(s)
     PROVE  Owned'
  BY <1>8 DEF Fail, Step, stores, TypeOK, Progress, Owned, InFlight
<1> QED
  BY <1>1, <1>2, <1>3, <1>4, <1>5, <1>6, <1>7, <1>8 DEF Next, EnrollNext,
       RequestStepBut, HookStep, Receive, GiveUp, Unenrolled, HookGet,
       HookSetState, HookRevoke, HookFail, request, stores

(* Of two running requests of a device one is dropped, so what disturbs the other is. *)
LEMMA UndisturbedStep ==
  ASSUME TypeOK, Progress, HookOrder, Waits, Undisturbed, Next
  PROVE  Undisturbed'
<1>1. CASE UNCHANGED <<pc, dev, creds, enrs, dropped>>
  BY <1>1 DEF Undisturbed, Running, Dropped, Active
<1>2. ASSUME NEW d \in Devices, NEW s \in Serials, Issue(d, s)
     PROVE  Undisturbed'
  BY <1>2, EnrollmentAssumption DEF Issue, stores, TypeOK, Progress, Waits,
       Undisturbed, Running, Dropped, InFlight, Active
<1>3. ASSUME NEW s \in Serials, Provision(s)
     PROVE  Undisturbed'
  BY <1>3 DEF Provision, Step, clients, TypeOK, Progress, Waits, Undisturbed,
       Running, Dropped, InFlight, Active
<1>4. ASSUME NEW s \in Serials, PutCertificate(s)
     PROVE  Undisturbed'
  BY <1>4 DEF PutCertificate, Step, clients, TypeOK, Progress, Waits,
       Undisturbed, Running, Dropped, InFlight, Active
<1>5. ASSUME NEW s \in Serials, ListByHWDevID(s)
     PROVE  Undisturbed'
  BY <1>5 DEF ListByHWDevID, Step, stores, clients, TypeOK, Progress, Waits,
       Undisturbed, Running, Dropped, InFlight, Active
<1>6. ASSUME NEW s \in Serials, Create(s)
     PROVE  Undisturbed'
  BY <1>6 DEF Create, Step, clients, TypeOK, Progress, Waits, Undisturbed,
       Running, Dropped, InFlight, Active, StoredAsActive
<1>7. ASSUME NEW s \in Serials, Report(s)
     PROVE  Undisturbed'
  BY <1>7 DEF Report, Step, clients, TypeOK, Progress, Waits, Undisturbed,
       Running, Dropped, InFlight, Active
<1>8. ASSUME NEW s \in Serials, Fail(s)
     PROVE  Undisturbed'
  BY <1>8 DEF Fail, Step, stores, clients, TypeOK, Progress, Waits,
       Undisturbed, Running, Dropped, InFlight, Active
<1>9. ASSUME NEW d \in Devices, GiveUp(d)
     PROVE  Undisturbed'
  BY <1>9 DEF GiveUp, request, stores, TypeOK, Progress, Waits, Undisturbed,
       Running, Dropped, InFlight, Active
<1>10. ASSUME NEW d \in Devices, HookSetState(d)
     PROVE  Undisturbed'
  BY <1>10 DEF HookSetState, request, clients, TypeOK, Progress, Waits,
       Undisturbed, Running, Dropped, InFlight, Active, HookOrder
<1> QED
  BY <1>1, <1>2, <1>3, <1>4, <1>5, <1>6, <1>7, <1>8, <1>9, <1>10 DEF Next,
       EnrollNext, RequestStepBut, HookStep, Receive, Unenrolled, HookGet,
       HookRevoke, HookFail, clients, request, stores

(* The credential of the active enrollment is replaced only by a running request, which ends failed, dropped, or active itself. *)
LEMMA CredentialStep ==
  ASSUME TypeOK, Progress, HookOrder, Waits, Undisturbed, Owned, CredentialFollows, Next
  PROVE  CredentialFollows'
<1>1. CASE UNCHANGED <<pc, dev, creds, enrs, dropped>>
  BY <1>1 DEF CredentialFollows, Active
<1>2. ASSUME NEW d \in Devices, NEW s \in Serials, Issue(d, s)
     PROVE  CredentialFollows'
  BY <1>2, EnrollmentAssumption DEF Issue, stores, TypeOK, Progress,
       CredentialFollows, InFlight, Active
<1>3. ASSUME NEW s \in Serials, Provision(s)
     PROVE  CredentialFollows'
  <2> SUFFICES ASSUME NEW d \in Devices, NEW t \in Active(d)'
               PROVE  CredentialFollows!(d)!(t)'
    BY DEF CredentialFollows
  <2>1. t \in Active(d) /\ dev[s] \in Devices
    BY <1>3 DEF Provision, Step, TypeOK, Progress, Active
  <2>2. CASE d = dev[s]
    BY <1>3, <2>2, EnrollmentAssumption DEF Provision, Step, TypeOK, InFlight
  <2>3. CASE d # dev[s]
    BY <1>3, <2>1, <2>3 DEF Provision, Step, clients, TypeOK, InFlight, CredentialFollows
  <2> QED
    BY <2>2, <2>3
<1>4. ASSUME NEW s \in Serials, PutCertificate(s)
     PROVE  CredentialFollows'
  BY <1>4 DEF PutCertificate, Step, clients, TypeOK, Progress,
       CredentialFollows, InFlight, Active
<1>5. ASSUME NEW s \in Serials, ListByHWDevID(s)
     PROVE  CredentialFollows'
  BY <1>5 DEF ListByHWDevID, Step, stores, clients, TypeOK, Progress,
       CredentialFollows, InFlight, Active
<1>6. ASSUME NEW s \in Serials, Create(s)
     PROVE  CredentialFollows'
  <2> SUFFICES ASSUME NEW d \in Devices, NEW t \in Active(d)'
               PROVE  CredentialFollows!(d)!(t)'
    BY DEF CredentialFollows
  <2>1. dev[s] \in Devices /\ creds[dev[s]] \in Serials /\ pc[s] = "looked"
    BY <1>6 DEF Create, Step, TypeOK, Progress, Owned, InFlight
  <2>2. CASE d = dev[s]
    <3>1. t = s
      BY <1>6, <2>2 DEF Create, Step, StoredAsActive, TypeOK, Active
    <3>2. creds[d] = s \/ {s, creds[d]} \cap dropped[d] # {}
      BY <2>1, <2>2 DEF Undisturbed, Running, Dropped, InFlight
    <3> QED
      BY <1>6, <2>1, <2>2, <3>1, <3>2, EnrollmentAssumption DEF Create, Step, clients
  <2>3. CASE d # dev[s]
    <3>1. t \in Active(d)
      BY <1>6, <2>3 DEF Create, Step, StoredAsActive, TypeOK, Active
    <3> QED
      BY <1>6, <2>3, <3>1 DEF Create, Step, clients, TypeOK, InFlight, CredentialFollows
  <2> QED
    BY <2>2, <2>3
<1>7. ASSUME NEW s \in Serials, Report(s)
     PROVE  CredentialFollows'
  BY <1>7 DEF Report, Step, clients, TypeOK, Progress, CredentialFollows,
       InFlight, Active, Undisturbed, Running, Dropped, Owned, Waits
<1>8. ASSUME NEW s \in Serials, Fail(s)
     PROVE  CredentialFollows'
  BY <1>8 DEF Fail, Step, stores, clients, TypeOK, Progress,
       CredentialFollows, InFlight, Active
<1>9. ASSUME NEW d \in Devices, GiveUp(d)
     PROVE  CredentialFollows'
  BY <1>9 DEF GiveUp, request, stores, TypeOK, Progress, CredentialFollows,
       InFlight, Active
<1>10. ASSUME NEW d \in Devices, HookSetState(d)
     PROVE  CredentialFollows'
  BY <1>10 DEF HookSetState, request, clients, TypeOK, Progress,
       CredentialFollows, InFlight, Active, HookOrder
<1> QED
  BY <1>1, <1>2, <1>3, <1>4, <1>5, <1>6, <1>7, <1>8, <1>9, <1>10 DEF Next,
       EnrollNext, RequestStepBut, HookStep, Receive, Unenrolled, HookGet,
       HookRevoke, HookFail, clients, request, stores

-----------------------------------------------------------------------------
(* IInv holds in every reachable state. *)
LEMMA Invariance == Spec => []IInv
<1>1. IInv /\ [Next]_evars => IInv'
  <2> SUFFICES ASSUME IInv, [Next]_evars PROVE IInv'
    OBVIOUS
  <2>1. CASE Next
    BY <2>1, TypeStep, ProgressStep, HookOrderStep, CertifiedStep, OneActiveStep,
       LookupsStep, WaitsStep, OwnedStep, UndisturbedStep, CredentialStep DEF IInv
  <2>2. CASE UNCHANGED evars
    BY <2>2 DEF evars, request, stores, hooks, clients, IInv, TypeOK, Progress,
       HookOrder, Lookups, Earlier, Waits, Undisturbed, Owned, Running, Dropped,
       OneActive, ActiveIsCertified, CredentialFollows, Active
  <2> QED
    BY <2>1, <2>2
<1> QED
  BY <1>1, InitIInv, PTL DEF Spec

(* The requests, stores, hooks and devices keep their types. *)
THEOREM TypeCorrect == Spec => []TypeOK
  BY Invariance, PTL DEF IInv

(* storage.go: a device never has two active enrollments. *)
THEOREM OneActiveHolds == Spec => []OneActive
  BY Invariance, PTL DEF IInv

(* recorder.go: wherever Record and Unenroll stop, the certificate of an active
   enrollment is stored and not revoked. *)
THEOREM ActiveIsCertifiedHolds == Spec => []ActiveIsCertified
  BY Invariance, PTL DEF IInv

(* recorder.go: a completed enrollment reported every earlier enrollment of its
   hardware under another device ID. *)
THEOREM ConflictsReportedHolds == Spec => []ConflictsReported
<1>1. IInv => ConflictsReported
  BY DEF IInv, Lookups, Earlier, ConflictsReported
<1> QED
  BY <1>1, Invariance, PTL

(* credentials.go: the stored credential is that of the active enrollment unless
   a request that is unfinished, failed or dropped came between. *)
THEOREM CredentialFollowsHolds == Spec => []CredentialFollows
  BY Invariance, PTL DEF IInv
=============================================================================
