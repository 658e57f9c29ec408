------------------------------ MODULE MCLoops ------------------------------
(* The two loops side by side: the server's address search and the         *)
(* dialer's health check run in different processes and share nothing.     *)
(* Each goes through all its inputs while the other has its plainest one.  *)
EXTENDS AllocLoop, HealthCheck

Plain == [enabled |-> FALSE, target |-> TRUE, sizes |-> 1, failures |-> 1, actions |-> {}]

LoopsInit == /\ LoopInit /\ Init
             /\ cfg = Plain \/ (start = {} /\ claimed = {})

LoopsNext == \/ LoopNext /\ UNCHANGED vars
             \/ Next /\ UNCHANGED loopVars

LoopsSpec ==
    /\ LoopsInit /\ [][LoopsNext]_<<loopVars, vars>>
    /\ WF_loopVars(LoopNext) /\ WF_vars(Step) /\ SF_vars(Done)
============================================================================
