----------------------------- MODULE AgentToken -----------------------------
(***************************************************************************)
(* The wake signal for the optional agent on the device                    *)
(* (server/agent/wake, server/sqlstore/agent.go).  An operator issues a    *)
(* token for the active enrollment, which replaces the one before, and the *)
(* agent polls with it.  Both calls read the enrollment in one statement   *)
(* and the token's row in a later one.                                     *)
(***************************************************************************)
EXTENDS DeviceEnrollment

CONSTANTS
    Issuers,   \* calls of IssueAgentToken at the same time
    Agents,    \* polls at the same time
    MaxMinted  \* bound on the tokens issued

ASSUME AgentAssumption == MaxMinted \in Nat

VARIABLES
    row,             \* agent_tokens: the device's token and its serial
    minted,          \* tokens issued so far, 1..minted
    owner,           \* token -> serial of the enrollment it was issued for
    ipc, iserial,    \* IssueAgentToken: issuer -> state
    ppc, pserial, pcred  \* AgentWake: agent -> state

agentvars == <<row, minted, owner, ipc, iserial, ppc, pserial, pcred>>

AgentInit ==
    /\ row = [serial |-> NoSerial, token |-> 0]
    /\ minted = 0
    /\ owner = [t \in 1..MaxMinted |-> NoSerial]
    /\ ipc = [i \in Issuers |-> "idle"]
    /\ iserial = [i \in Issuers |-> NoSerial]
    /\ ppc = [a \in Agents |-> "idle"]
    /\ pserial = [a \in Agents |-> NoSerial]
    /\ pcred = [a \in Agents |-> 0]

IssueAgentToken(i) ==
    /\ ipc[i] = "idle"
    /\ active # NoSerial
    /\ Called
    /\ ipc' = [ipc EXCEPT ![i] = "write"]
    /\ iserial' = [iserial EXCEPT ![i] = active]
    /\ UNCHANGED <<row, minted, owner, ppc, pserial, pcred, active, spent>>

(* The transaction deletes the old row and inserts the new one, or fails. *)
WriteToken(i) ==
    /\ ipc[i] = "write"
    /\ ipc' = [ipc EXCEPT ![i] = "idle"]
    /\ iserial' = [iserial EXCEPT ![i] = NoSerial]
    /\ \/ /\ minted < MaxMinted
          /\ minted' = minted + 1
          /\ row' = [serial |-> iserial[i], token |-> minted + 1]
          /\ owner' = [owner EXCEPT ![minted + 1] = iserial[i]]
       \/ UNCHANGED <<minted, row, owner>>
    /\ UNCHANGED <<ppc, pserial, pcred, active, spent, calls>>

(* A poll with a token that was issued once.  Get returns active enrollments
   only. *)
AgentWake(a, t) ==
    /\ ppc[a] = "idle"
    /\ active # NoSerial
    /\ t \in 1..minted
    /\ Called
    /\ ppc' = [ppc EXCEPT ![a] = "check"]
    /\ pserial' = [pserial EXCEPT ![a] = active]
    /\ pcred' = [pcred EXCEPT ![a] = t]
    /\ UNCHANGED <<row, minted, owner, ipc, iserial, active, spent>>

(* Mutant: the token alone decides. *)
CheckTokenOnly(a) ==
    /\ ppc[a] = "check"
    /\ ppc' = [ppc EXCEPT ![a] =
                 IF row.token = pcred[a] THEN "answer" ELSE "refused"]
    /\ UNCHANGED <<row, minted, owner, ipc, iserial, pserial, pcred, active, spent, calls>>
CheckToken(a) ==
    /\ ppc[a] = "check"
    /\ ppc' = [ppc EXCEPT ![a] =
                 IF row.serial = pserial[a] /\ row.token = pcred[a]
                 THEN "answer" ELSE "refused"]
    /\ UNCHANGED <<row, minted, owner, ipc, iserial, pserial, pcred, active, spent, calls>>

(* The agent is answered, or the call fails. *)
AnswerAgent(a) ==
    /\ ppc[a] # "idle"
    /\ ppc' = [ppc EXCEPT ![a] = "idle"]
    /\ pserial' = [pserial EXCEPT ![a] = NoSerial]
    /\ pcred' = [pcred EXCEPT ![a] = 0]
    /\ UNCHANGED <<row, minted, owner, ipc, iserial, active, spent, calls>>

AgentNext ==
    \/ \E i \in Issuers : IssueAgentToken(i) \/ WriteToken(i)
    \/ \E a \in Agents, t \in 1..MaxMinted : AgentWake(a, t)
    \/ \E a \in Agents : CheckToken(a) \/ AnswerAgent(a)

-----------------------------------------------------------------------------
(* sqlstore/agent.go "Re-enrollment also invalidates it because the stored
   serial must match the currently active enrollment": a token is accepted only
   in a poll that came while the enrollment it was issued for was active,
   whatever rotations and re-enrollments overlap the poll. *)
TokenFollowsEnrollment ==
    \A a \in Agents : ppc[a] = "answer" => owner[pcred[a]] = pserial[a]
=============================================================================
