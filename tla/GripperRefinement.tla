-------------------------- MODULE GripperRefinement --------------------------
(* GripperClient, with its four threads, implements ClientLifecycle. *)
EXTENDS GripperClient

\* The phase an owner sees: `ctl` tells which call runs, `dirty` and `connected`
\* how the last one ended
Phase ==
    IF ctl = "terminated" THEN "aborted"
    ELSE IF ctl \in StartSteps \union FailSteps
         THEN IF dirty THEN "restarting" ELSE "starting"
    ELSE IF ctl \in StopSteps THEN "stopping"
    ELSE IF connected THEN "serving"
    ELSE IF dirty THEN "broken" ELSE "stopped"

Held == rd # "none" \/ mon # "none" \/ fw # "none" \/ fd

Life == INSTANCE ClientLifecycle WITH phase <- Phase, held <- Held

\* Every behaviour of the client is one of the lifecycle: Start reports success only
\* with its resources in place, a clean failure holds nothing, Stop leaves nothing
\* behind, the process can die only in the Start of a broken client.
ImplementsLifecycle == Life!Spec

=============================================================================
