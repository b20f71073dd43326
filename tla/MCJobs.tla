-------------------------------- MODULE MCJobs --------------------------------
(***************************************************************************)
(* An instance of JobQueue for TLC: two jobs, each in a queue of its own.  *)
(***************************************************************************)
EXTENDS JobQueue, TLC

CONSTANTS j1, j2

TwoQueueNames == <<"process-withdrawal", "refund-cancelled-trade">>

OneJobInEach == j1 :> "process-withdrawal" @@ j2 :> "refund-cancelled-trade"

=============================================================================
