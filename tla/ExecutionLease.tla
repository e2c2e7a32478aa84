---------------------------- MODULE ExecutionLease ----------------------------
(***************************************************************************)
(* What the execution locks of a run promise, without saying how: leases   *)
(* are granted one after the other, each for a term, and work is started   *)
(* under the newest lease only.  Work may outlive its lease (the process   *)
(* that held it died) but never meets work under a lease still in its      *)
(* term.  StepExecution implements this with locks in a snapshot file.     *)
(***************************************************************************)
EXTENDS Integers

VARIABLES granted,  \* number of leases granted so far; they are 1 .. granted
          over,     \* the leases whose term is over: given back or expired
          workers   \* the leases under which work is going on

leaseVars == <<granted, over, workers>>

LeaseInit == /\ granted = 0
             /\ over = {}
             /\ workers = {}

\* A new lease is granted only when every earlier one is over.
Grant == /\ 1 .. granted \subseteq over
         /\ granted' = granted + 1
         /\ UNCHANGED <<over, workers>>

\* Work starts under the newest lease, and every other worker's lease is over.
Start == /\ granted > 0
         /\ granted \notin workers
         /\ workers \subseteq over
         /\ workers' = workers \cup {granted}
         /\ UNCHANGED <<granted, over>>

Stop == /\ \E left \in SUBSET workers : workers' = left
        /\ UNCHANGED <<granted, over>>

\* A lease is given back or expires.
EndLease == /\ \E l \in 1 .. granted : over' = over \cup {l}
            /\ UNCHANGED <<granted, workers>>

LeaseNext == Grant \/ Start \/ Stop \/ EndLease

LeaseSpec == LeaseInit /\ [][LeaseNext]_leaseVars

-----------------------------------------------------------------------------
\* Of any two workers the one with the older lease has lost it.
Exclusive == \A v, w \in workers : v < w => v \in over

=============================================================================
