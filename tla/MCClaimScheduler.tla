--------------------------- MODULE MCClaimScheduler ---------------------------
(* ClaimSchedulerHost on small instances. *)
EXTENDS ClaimSchedulerHost

\* One durable batch of the first two segments, as an earlier run may have left it.
RecoveredPair == {{[seg |-> s, rev |-> 0, speaker |-> k] : s \in Segments \cap {1, 2}} :
                  k \in Speakers}
===============================================================================
