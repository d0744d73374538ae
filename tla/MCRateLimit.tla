----------------------------- MODULE MCRateLimit -----------------------------
(***************************************************************************)
(* Three buckets with different quotas, two records at most.               *)
(***************************************************************************)
EXTENDS RateLimit, TLC

Intervals == "peer" :> 3 @@ "device" :> 2 @@ "other" :> 4
Bursts == "peer" :> 1 @@ "device" :> 2 @@ "other" :> 1
=============================================================================
