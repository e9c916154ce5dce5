--------------------------- MODULE ClientLifecycle ---------------------------
(***************************************************************************)
(* What the owner of a gripper client may rely on: the promise GripperClient *)
(* makes to PiperGripperEndEffectorSlot.  Only the phase of the client and   *)
(* whether it holds anything (a thread to join, the CAN socket) are visible. *)
(* A client that a failed Start left behind is "broken": it may still hold   *)
(* threads, and only Stop is sure to bring it back to "stopped".             *)
(***************************************************************************)

VARIABLES phase, held

vars == <<phase, held>>

Resting == {"stopped", "serving", "broken"}
Calls   == {"starting", "restarting", "stopping"}

TypeOK == phase \in Resting \union Calls \union {"aborted"} /\ held \in BOOLEAN

Init == phase = "stopped" /\ held = FALSE

\* Start is refused on a serving client; on a broken one it is tried again
Start ==
    /\ \/ phase = "stopped" /\ phase' = "starting"
       \/ phase = "broken" /\ phase' = "restarting"
    /\ UNCHANGED held

Stop == phase \in Resting /\ phase' = "stopping" /\ UNCHANGED held

Acquire == phase \in {"starting", "restarting"} /\ held' = TRUE /\ UNCHANGED phase
Release == phase = "stopping" /\ held' = FALSE /\ UNCHANGED phase

\* Start returns Ok, with the client's threads and socket in place
Serve == phase \in {"starting", "restarting"} /\ held /\ phase' = "serving" /\ UNCHANGED held

\* Start fails: a first one cleanly, or leaving things held
Refuse == phase = "starting" /\ ~held /\ phase' = "stopped" /\ UNCHANGED held
Break  == phase \in {"starting", "restarting"} /\ phase' = "broken" /\ held' \in BOOLEAN

\* The process dies only in the Start of a client that was broken
Abort == phase = "restarting" /\ phase' = "aborted" /\ UNCHANGED held

\* Stop returns with nothing held, whatever state the client was in
Stopped == phase = "stopping" /\ phase' = "stopped" /\ held' = FALSE

Return == Serve \/ Refuse \/ Break \/ Abort \/ Stopped

Next == Start \/ Stop \/ Acquire \/ Release \/ Return

Spec == Init /\ [][Next]_vars

=============================================================================
