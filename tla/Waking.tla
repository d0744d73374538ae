------------------------------- MODULE Waking -------------------------------
(***************************************************************************)
(* The two ways to wake a device, pushes and the agent's polls, over one   *)
(* device's enrollments.                                                   *)
(***************************************************************************)
EXTENDS Push, AgentToken

wakingvars == <<pushvars, agentvars, calls>>

WakingInit == PushInit /\ AgentInit

WakingNext ==
    \/ PushNext /\ UNCHANGED agentvars
    \/ AgentNext /\ UNCHANGED pushvars

WakingSpec == WakingInit /\ [][WakingNext]_wakingvars

(* Requests are answered or time out, delays pass, and Go's mutex starves no one. *)
WakingFairSpec ==
    /\ WakingSpec
    /\ \A w \in Wakers :
          /\ WF_wakingvars(WakeStep(w) /\ UNCHANGED agentvars)
          /\ SF_wakingvars(Token(w) /\ UNCHANGED agentvars)
=============================================================================
