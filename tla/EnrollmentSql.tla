---------------------------- MODULE EnrollmentSql ----------------------------
(***************************************************************************)
(* Enrollment over server/sqlstore on PostgreSQL: Store.Create is one      *)
(* transaction with the default isolation, READ COMMITTED.  Its UPDATE     *)
(* sees the enrollments committed before it, waits for transactions that   *)
(* update the same rows, and does not see a row another one inserts        *)
(* meanwhile.  No index makes the active enrollment of a device unique.    *)
(***************************************************************************)
EXTENDS Enrollment

VARIABLE snap   \* serial -> the active enrollments its transaction saw, or {None}

sqlvars == <<evars, snap>>

NotBegun == {None}

SqlInit == Init /\ snap = [s \in Serials |-> NotBegun]

BeginCreate(s) ==
    /\ pc[s] = "looked" /\ enrs[s] = "absent" /\ snap[s] = NotBegun
    /\ snap' = [snap EXCEPT ![s] = Active(dev[s])]
    /\ UNCHANGED evars

CommitCreate(s) ==
    /\ snap[s] # NotBegun
    /\ Step(s, "looked", "created")
    /\ enrs' = StoredAsActive(s, snap[s])
    /\ UNCHANGED <<found, certs, creds, reported, snap>>

SqlNext ==
    \/ \E s \in Serials : BeginCreate(s) \/ CommitCreate(s)
    \/ /\ \/ \E d \in Devices, s \in Serials : Issue(d, s)
          \/ \E s \in Serials : RequestStepBut(s)
          \/ \E d \in Devices : Receive(d) \/ GiveUp(d) \/ HookStep(d) \/ Unenrolled(d)
       /\ UNCHANGED snap

SqlSpec == SqlInit /\ [][SqlNext]_sqlvars
=============================================================================
