---- MODULE MCLocalFactChecks ----
EXTENDS LocalFactChecks, TLC

CONSTANTS j1, j2, m1

OneMeeting == (j1 :> m1) @@ (j2 :> m1)
TwoQueues == (j1 :> "manual") @@ (j2 :> "work")
==================================
