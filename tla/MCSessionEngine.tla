--------------------------- MODULE MCSessionEngine ---------------------------
(***************************************************************************)
(* Small instances of SessionEngine.                                       *)
(***************************************************************************)
EXTENDS SessionEngine

Anyone == {[login |-> "user", sync |-> "none"]}
NoUser == {[login |-> "none", sync |-> "none"]}
UserOrNot == Anyone \cup NoUser

WriteGet == {"reads" :> "get" @@ "a" :> "write"}
LiveKinds == {"reads" :> "bigget" @@ "a" :> "large", "reads" :> "get" @@ "a" :> "bigget"}
MixedKinds == {"reads" :> "bigget" @@ "a" :> "group"}

SessionSymmetry == Permutations(Sessions)
=============================================================================
