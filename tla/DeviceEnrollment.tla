-------------------------- MODULE DeviceEnrollment --------------------------
(***************************************************************************)
(* The enrollment of one device as its readers see it: EnrollmentStore.Get *)
(* returns the enrollment of the device with its serial and its state.     *)
(* How an enrollment comes about is in Enrollment.  The calls the server   *)
(* gets are counted here to bound them together.                           *)
(***************************************************************************)
EXTENDS Integers

CONSTANTS
    Serials,   \* serials of the certificates the device may enroll with
    NoSerial,  \* the device has no active enrollment
    MaxCalls   \* bound on the calls of the server

ASSUME SerialAssumption == NoSerial \notin Serials /\ MaxCalls \in Nat

VARIABLES
    active,  \* serial of the active enrollment, or NoSerial
    spent,   \* serials of the enrollments so far
    calls    \* calls so far

EnrollmentInit == active = NoSerial /\ spent = {} /\ calls = 0

Called ==
    /\ calls < MaxCalls
    /\ calls' = calls + 1

(* Create: a new certificate supersedes the active one. *)
Enroll(s) ==
    /\ Called
    /\ s \notin spent
    /\ active' = s
    /\ spent' = spent \cup {s}

(* SetState ends the active enrollment. *)
Unenroll ==
    /\ active # NoSerial
    /\ active' = NoSerial
    /\ UNCHANGED <<spent, calls>>
=============================================================================
