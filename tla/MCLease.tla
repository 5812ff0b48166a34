------------------------------- MODULE MCLease -------------------------------
(* Instances of ControllerLease for TLC. *)
EXTENDS ControllerLease

CONSTANTS p1, p2, s, req1, req2

\* All requests belong to the one serving process.
HostOne == [t \in Requests |-> s]

\* Instance without failing Steps: every Drain ends because its run is over
\* or waits.
StepsSucceed == \A t \in Threads : pc[t] = "step" => pc'[t] \in {"step", "exec", "settle"}
SpecWithoutFailures == Init /\ [][Next /\ StepsSucceed]_vars
=============================================================================
