----------------------------- MODULE Enrollment -----------------------------
(***************************************************************************)
(* Enrolling a device and ending its enrollment: enroll.Service.Enroll     *)
(* with the server's credential source and storage.Recorder behind it, the *)
(* Unenrolled hook, and the three stores they write (enrollments,          *)
(* certificates, OMA DM credentials).  A request is a sequence of store    *)
(* operations and each is a step of its own, so requests of a device that  *)
(* stopped waiting, failures and restarts fall between any two of them.    *)
(* A request is named by the serial of the certificate issued for it.      *)
(***************************************************************************)
EXTENDS Naturals, FiniteSets

CONSTANTS
    Devices,        \* device IDs
    Serials,        \* serials the CA issues, each at most once
    None,           \* no device, no serial
    SameHardware    \* pairs of devices that send one HWDevID

ASSUME EnrollmentAssumption ==
    /\ None \notin Devices \cup Serials
    /\ SameHardware \subseteq Devices \X Devices

VARIABLES
    pc, dev,   \* serial -> how far its Enroll request is, and the device's ID
    seen,      \* serial -> enrollments stored when its request came
    found,     \* serial -> HWDevID conflicts its request found
    enrs,      \* serial -> state of the stored enrollment
    certs,     \* serial -> state of the stored certificate
    creds,     \* device -> the request whose secret is stored
    reported,  \* pairs <<new, existing>> of logged HWDevID conflicts
    hook,      \* device -> how far the Unenrolled hook is
    ending,    \* device -> the enrollment the hook looked up
    waits,     \* device -> the request it waits for
    dropped    \* device -> requests it stopped waiting for

request == <<pc, dev, seen, found>>
stores == <<enrs, certs, creds, reported>>
hooks == <<hook, ending>>
clients == <<waits, dropped>>
evars == <<request, stores, hooks, clients>>

InFlight == {"issued", "provisioned", "certified", "looked", "created"}

Init ==
    /\ pc = [s \in Serials |-> "unused"]
    /\ dev = [s \in Serials |-> None]
    /\ seen = [s \in Serials |-> {}]
    /\ found = [s \in Serials |-> {}]
    /\ enrs = [s \in Serials |-> "absent"]
    /\ certs = [s \in Serials |-> "absent"]
    /\ creds = [d \in Devices |-> None]
    /\ reported = {}
    /\ hook = [d \in Devices |-> "idle"]
    /\ ending = [d \in Devices |-> None]
    /\ waits = [d \in Devices |-> None]
    /\ dropped = [d \in Devices |-> {}]

-----------------------------------------------------------------------------
Stored == {s \in Serials : enrs[s] # "absent"}
Active(d) == {s \in Serials : dev[s] = d /\ enrs[s] = "active"}

(* Mutant: only active enrollments count as earlier ones. *)
ConflictsActive(s) ==
    {t \in Stored : <<dev[t], dev[s]>> \in SameHardware
                    /\ dev[t] # dev[s] /\ enrs[t] = "active"}
(* The earlier enrollments of this hardware under another DeviceID. *)
Conflicts(s) ==
    {t \in Stored : <<dev[t], dev[s]>> \in SameHardware /\ dev[t] # dev[s]}

Step(s, from, to) ==
    /\ pc[s] = from
    /\ pc' = [pc EXCEPT ![s] = to]
    /\ UNCHANGED <<dev, seen, hooks, clients>>

(* The request arrives, passes authenticate and checkToken, and the CA signs;
   a fault before this leaves nothing behind. *)
Issue(d, s) ==
    /\ waits[d] = None
    /\ pc[s] = "unused"
    /\ pc' = [pc EXCEPT ![s] = "issued"]
    /\ dev' = [dev EXCEPT ![s] = d]
    /\ seen' = [seen EXCEPT ![s] = Stored]
    /\ waits' = [waits EXCEPT ![d] = s]
    /\ UNCHANGED <<found, stores, hooks, dropped>>

(* Mutant: a credential that is already stored is kept. *)
ProvisionFirst(s) ==
    /\ Step(s, "issued", "provisioned")
    /\ creds' = [creds EXCEPT ![dev[s]] = IF @ = None THEN s ELSE @]
    /\ UNCHANGED <<found, enrs, certs, reported>>
(* Provision mints the secrets and replaces the device's credential. *)
Provision(s) ==
    /\ Step(s, "issued", "provisioned")
    /\ creds' = [creds EXCEPT ![dev[s]] = s]
    /\ UNCHANGED <<found, enrs, certs, reported>>

PutCertificate(s) ==
    /\ certs[s] = "absent"
    /\ Step(s, "provisioned", "certified")
    /\ certs' = [certs EXCEPT ![s] = "valid"]
    /\ UNCHANGED <<found, enrs, creds, reported>>

ListByHWDevID(s) ==
    /\ Step(s, "certified", "looked")
    /\ found' = [found EXCEPT ![s] = Conflicts(s)]
    /\ UNCHANGED stores

(* Mutant: the previous enrollment stays active. *)
StoredAsActiveToo(s, prev) == [enrs EXCEPT ![s] = "active"]
(* The enrollments after s replaces those of prev that are still active. *)
StoredAsActive(s, prev) ==
    [t \in Serials |-> IF t = s THEN "active"
                       ELSE IF t \in prev /\ enrs[t] = "active" THEN "superseded" ELSE enrs[t]]

(* Create under the mutex of the in-memory store or on SQLite's only
   connection. *)
Create(s) ==
    /\ enrs[s] = "absent"
    /\ Step(s, "looked", "created")
    /\ enrs' = StoredAsActive(s, Active(dev[s]))
    /\ UNCHANGED <<found, certs, creds, reported>>

(* The conflict event is logged and the response is encoded. *)
Report(s) ==
    /\ Step(s, "created", "done")
    /\ reported' = reported \cup ({s} \X found[s])
    /\ UNCHANGED <<found, enrs, certs, creds>>

(* A store operation of the request fails, or the server stops: what the
   earlier ones wrote stays. *)
Fail(s) ==
    /\ pc[s] \in InFlight
    /\ Step(s, pc[s], "failed")
    /\ UNCHANGED <<found, stores>>

(* The device installs the provisioning document. *)
Receive(d) ==
    /\ waits[d] # None
    /\ pc[waits[d]] = "done"
    /\ waits' = [waits EXCEPT ![d] = None]
    /\ UNCHANGED <<request, stores, hooks, dropped>>

(* The device gets a fault, or times out while the server may still work. *)
GiveUp(d) ==
    /\ waits[d] # None
    /\ waits' = [waits EXCEPT ![d] = None]
    /\ dropped' = [dropped EXCEPT ![d] = @ \cup {waits[d]}]
    /\ UNCHANGED <<request, stores, hooks>>

-----------------------------------------------------------------------------
(* A session of the device that carried the user's unenroll alert ends: finish
   calls the Unenrolled hook. *)
Unenrolled(d) ==
    /\ \E s \in Stored : dev[s] = d
    /\ hook[d] = "idle"
    /\ hook' = [hook EXCEPT ![d] = "get"]
    /\ UNCHANGED <<request, stores, ending, clients>>

(* The hook looks up the enrollment that is active by then; with none it only
   logs the event. *)
HookGet(d) ==
    /\ hook[d] = "get"
    /\ \/ Active(d) = {} /\ hook' = [hook EXCEPT ![d] = "idle"] /\ UNCHANGED ending
       \/ \E s \in Active(d) : /\ hook' = [hook EXCEPT ![d] = "set"]
                                /\ ending' = [ending EXCEPT ![d] = s]
    /\ UNCHANGED <<request, stores, clients>>

(* Mutant: the certificate is revoked before the enrollment is ended. *)
HookSetStateLate(d) ==
    /\ hook[d] = "set"
    /\ certs' = [certs EXCEPT ![ending[d]] = "revoked"]
    /\ hook' = [hook EXCEPT ![d] = "revoke"]
    /\ UNCHANGED <<request, enrs, creds, reported, ending, clients>>
(* Whatever the state of the enrollment is by now. *)
HookSetState(d) ==
    /\ hook[d] = "set"
    /\ enrs' = [enrs EXCEPT ![ending[d]] = "unenrolled"]
    /\ hook' = [hook EXCEPT ![d] = "revoke"]
    /\ UNCHANGED <<request, certs, creds, reported, ending, clients>>

HookRevoke(d) ==
    /\ hook[d] = "revoke"
    /\ certs' = [certs EXCEPT ![ending[d]] = "revoked"]
    /\ hook' = [hook EXCEPT ![d] = "idle"]
    /\ ending' = [ending EXCEPT ![d] = None]
    /\ UNCHANGED <<request, enrs, creds, reported, clients>>

HookFail(d) ==
    /\ hook[d] # "idle"
    /\ hook' = [hook EXCEPT ![d] = "idle"]
    /\ ending' = [ending EXCEPT ![d] = None]
    /\ UNCHANGED <<request, stores, clients>>

(* Every step of a request but the transaction that stores its enrollment. *)
RequestStepBut(s) ==
    Provision(s) \/ PutCertificate(s) \/ ListByHWDevID(s) \/ Report(s) \/ Fail(s)
HookStep(d) == HookGet(d) \/ HookSetState(d) \/ HookRevoke(d) \/ HookFail(d)

(* Every step but those of a management session. *)
EnrollNext ==
    \/ \E d \in Devices, s \in Serials : Issue(d, s)
    \/ \E s \in Serials : RequestStepBut(s) \/ Create(s)
    \/ \E d \in Devices : Receive(d) \/ GiveUp(d) \/ HookStep(d)

Next == EnrollNext \/ \E d \in Devices : Unenrolled(d)

Spec == Init /\ [][Next]_evars

-----------------------------------------------------------------------------
(* Type invariant of the requests, the stores, the hooks and the devices. *)
TypeOK ==
    /\ pc \in [Serials -> InFlight \cup {"unused", "done", "failed"}]
    /\ dev \in [Serials -> Devices \cup {None}]
    /\ seen \in [Serials -> SUBSET Serials]
    /\ found \in [Serials -> SUBSET Serials]
    /\ enrs \in [Serials -> {"absent", "active", "superseded", "unenrolled"}]
    /\ certs \in [Serials -> {"absent", "valid", "revoked"}]
    /\ creds \in [Devices -> Serials \cup {None}]
    /\ reported \subseteq Serials \X Serials
    /\ hook \in [Devices -> {"idle", "get", "set", "revoke"}]
    /\ ending \in [Devices -> Serials \cup {None}]
    /\ waits \in [Devices -> Serials \cup {None}]
    /\ dropped \in [Devices -> SUBSET Serials]

(* storage.go StateActive "is the current enrollment for its DeviceID" and
   sqlstore Create "supersedes the device's current active enrollment and
   inserts the new one, atomically": a device never has two active
   enrollments, whatever requests overlap. *)
OneActive == \A s, t \in Serials :
    enrs[s] = "active" /\ enrs[t] = "active" /\ dev[s] = dev[t] => s = t

(* Record stores the certificate before the enrollment and Unenroll ends the
   enrollment before it revokes: wherever they stop, the certificate of an
   active enrollment is stored and not revoked, and an ended one never becomes
   active again. *)
ActiveIsCertified == \A s \in Serials :
    /\ enrs[s] = "active" => certs[s] = "valid"
    /\ certs[s] = "revoked" => enrs[s] = "unenrolled"

(* recorder.go "reports a HWDevID conflict when the hardware was last seen
   under another DeviceID": a completed enrollment reported every enrollment of
   the same hardware that was stored before its request came. *)
ConflictsReported == \A s, t \in Serials :
    /\ pc[s] = "done" /\ t \in seen[s]
    /\ <<dev[t], dev[s]>> \in SameHardware /\ dev[t] # dev[s]
    => <<s, t>> \in reported

(* credentials.go "persists the APPSRV secret so the management session can
   authenticate the device": the stored credential is the one of the active
   enrollment, unless the credential is of a request that is unfinished or
   failed, or the device stopped waiting for one of the two. *)
CredentialFollows == \A d \in Devices : \A s \in Active(d) :
    \/ creds[d] = s
    \/ /\ creds[d] # None
       /\ pc[creds[d]] \in InFlight \cup {"failed"} \/ {s, creds[d]} \cap dropped[d] # {}
=============================================================================
