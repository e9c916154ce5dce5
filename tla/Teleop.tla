-------------------------------- MODULE Teleop --------------------------------
(***************************************************************************)
(* Remote control of the robot over a socket: MainModule of                *)
(* src/src/game.cpp and RemoteControl of src/src/RemoteContol.cpp, one loop *)
(* that differs in where a recovery goes.  A frame names a direction; the  *)
(* robot moves that way until another command, silence or a fault.         *)
(*                                                                         *)
(* The robot is external: MoveL returns at once (setMoveThread(1)) and is  *)
(* refused after a fault, DeviceStopRun has stopped it when it returns.    *)
(***************************************************************************)
EXTENDS Integers

CONSTANTS Directions,    \* 1, -1, 2, -2, 3, -3
          NoCommand,     \* a frame without a "cmd"
          Home,          \* the motion to the first pose, or back towards it
          SilenceLimit   \* 10: receives in a row without data that end the program

ASSUME DirectionsAssumption == 0 \notin Directions /\ Home \notin Directions
ASSUME SilenceAssumption == SilenceLimit \in Nat \ {0}

VARIABLES
    program,             \* "game" or "remote"
    pc, cmd,             \* where the loop is, and the command of the frame it handles
    moveState, moveState1, \* _move_state and _move_state_1
    count,
    constraint,          \* the spatial constraint is on
    poseKnown,           \* where a recovery goes has been set
    motion,              \* what the robot does (external)
    fault,               \* get_robot_move_state is negative (external)
    linked,              \* the partner has not gone for good (external)
    last,                \* the latest command a frame has carried (history)
    fresh                \* it is the latest input, and nothing came between (history)

stateVars == <<moveState, moveState1, count>>
robotVars == <<constraint, poseKnown, motion, fault>>
vars == <<program, pc, cmd, stateVars, robotVars, linked, last, fresh>>

Commands == Directions \union {0}

TypeOK ==
    /\ program \in {"game", "remote"}
    /\ pc \in {"start", "recv", "check", "recover", "parse", "stop", "go", "ended"}
    /\ cmd \in Commands \union {NoCommand}
    /\ moveState \in Commands /\ moveState1 \in Commands /\ last \in Commands
    /\ count \in 0..SilenceLimit
    /\ motion \in Commands \union {Home}
    /\ constraint \in BOOLEAN /\ poseKnown \in BOOLEAN
    /\ fault \in BOOLEAN /\ linked \in BOOLEAN /\ fresh \in BOOLEAN

\* Constraints are off and MoveA goes to the first pose
Init ==
    /\ program \in {"game", "remote"}
    /\ pc = "start" /\ cmd = NoCommand
    /\ moveState = 0 /\ moveState1 = 0 /\ count = 0
    /\ constraint = FALSE /\ poseKnown = FALSE /\ motion = Home /\ fault = FALSE
    /\ linked = TRUE /\ last = 0 /\ fresh = FALSE

\* MoveA has ended; the game keeps the pose it has reached
Started ==
    /\ pc = "start" /\ pc' = "recv"
    /\ motion' = 0 /\ constraint' = TRUE /\ poseKnown' = (program = "game")
    /\ UNCHANGED <<program, cmd, stateVars, fault, linked, last, fresh>>

\* Mutant: a repetition of the command that silence has stopped is skipped
SilenceKeepsCommand ==
    /\ pc = "recv"
    /\ motion' = 0 /\ count' = count + 1
    /\ pc' = IF count' = SilenceLimit THEN "ended" ELSE "recv"
    /\ fresh' = FALSE
    /\ UNCHANGED <<program, cmd, moveState, moveState1, constraint, poseKnown, fault, linked, last>>

\* Mutant: the counter starts again with every receive
SilenceForgets ==
    /\ pc = "recv"
    /\ motion' = 0 /\ moveState1' = 0 /\ count' = 1
    /\ fresh' = FALSE
    /\ UNCHANGED <<program, pc, cmd, moveState, constraint, poseKnown, fault, linked, last>>

\* SocketRecvByteI returns nothing: the time is over or the partner is gone
Silence ==
    /\ pc = "recv"
    /\ motion' = 0 /\ moveState1' = 0 /\ count' = count + 1
    /\ pc' = IF count' = SilenceLimit THEN "ended" ELSE "recv"
    /\ fresh' = FALSE
    /\ UNCHANGED <<program, cmd, moveState, constraint, poseKnown, fault, linked, last>>

\* Data that IsProtocolRight refuses
Garbage ==
    /\ pc = "recv" /\ linked
    /\ motion' = 0 /\ moveState1' = 0 /\ count' = 0
    /\ fresh' = FALSE
    /\ UNCHANGED <<program, pc, cmd, moveState, constraint, poseKnown, fault, linked, last>>

Frame ==
    /\ pc = "recv" /\ linked
    /\ cmd' \in Commands \union {NoCommand} /\ count' = 0
    /\ pc' = "check" /\ fresh' = FALSE
    /\ UNCHANGED <<program, moveState, moveState1, robotVars, linked, last>>

\* get_robot_move_state: after a fault the error is cleared and the robot moves back
Check ==
    /\ pc = "check"
    /\ IF fault
       THEN pc' = "recover" /\ fault' = FALSE /\ constraint' = FALSE /\ motion' = Home
       ELSE pc' = "parse" /\ UNCHANGED <<fault, constraint, motion>>
    /\ UNCHANGED <<program, cmd, stateVars, poseKnown, linked, last, fresh>>

\* wait_move_finish has returned; the frame is dropped
Recovered ==
    /\ pc = "recover" /\ pc' = "recv"
    /\ motion' = 0 /\ moveState1' = 0 /\ constraint' = TRUE
    /\ UNCHANGED <<program, cmd, moveState, count, poseKnown, fault, linked, last, fresh>>

\* GetProtocolDataInt leaves _move_state as it was when the frame has no "cmd"
Parse ==
    /\ pc = "parse"
    /\ moveState' = IF cmd = NoCommand THEN moveState ELSE cmd
    /\ pc' = IF moveState' = moveState1 THEN "recv" ELSE "stop"
    /\ last' = moveState'
    /\ fresh' = (cmd # NoCommand /\ ~fault)
    /\ UNCHANGED <<program, cmd, moveState1, count, robotVars, linked>>

\* Between two directions the robot is stopped. RemoteControl first keeps the joints
Stop ==
    /\ pc = "stop" /\ pc' = "go"
    /\ motion' = IF moveState # 0 /\ moveState1 # 0 THEN 0 ELSE motion
    /\ poseKnown' = (poseKnown \/ ~fault)
    /\ UNCHANGED <<program, cmd, stateVars, constraint, fault, linked, last, fresh>>

\* MoveAxis or MoveAxisStop; the result of MoveL is not looked at
Go ==
    /\ pc = "go" /\ pc' = "recv"
    /\ motion' = IF fault THEN 0 ELSE moveState
    /\ moveState1' = moveState
    /\ UNCHANGED <<program, cmd, moveState, count, constraint, poseKnown, fault, linked, last, fresh>>

\* A constraint, a joint limit or the drive ends the motion with an error
Fault ==
    /\ ~fault /\ pc # "ended"
    /\ fault' = TRUE /\ motion' = 0 /\ fresh' = FALSE
    /\ UNCHANGED <<program, pc, cmd, stateVars, constraint, poseKnown, linked, last>>

LinkDown ==
    /\ linked /\ linked' = FALSE
    /\ UNCHANGED <<program, pc, cmd, stateVars, robotVars, last, fresh>>

Step == Started \/ Silence \/ Garbage \/ Frame \/ Check \/ Recovered \/ Parse \/ Stop \/ Go
Next == Step \/ Fault \/ LinkDown

\* The loop runs, a receive ends after its timeout and a recovery's motion ends
Fair == WF_vars(Step)

Spec == Init /\ [][Next]_vars /\ Fair

-----------------------------------------------------------------------------
(* Properties *)

\* MoveAxis is called only when the robot stands still, whatever silence, garbage,
\* recoveries and faults lie between two commands.
StoppedBetween == pc = "go" /\ moveState # 0 => motion = 0

\* The robot does what the latest frame asked for: a command is skipped as a repetition
\* only while it is being carried out.
ObeysLast == pc = "recv" /\ fresh => motion = last

\* With the constraint off the robot only starts up or recovers; a commanded motion is
\* always constrained.
ConstrainedMotion == motion \in Directions => constraint

\* After a receive without data the robot stands until a frame comes, and it stands when the
\* program ends.
SilenceStops == (count > 0 /\ pc = "recv") \/ pc = "ended" => motion = 0

\* A partner that is gone for good ends the program.
LostLinkEnds == ~linked ~> pc = "ended"

\* A recovery goes to a pose the robot has been in (RemoteContol.cpp moves to `joint`,
\* which nothing has set before the first command that was carried out).
RecoversToKnownPose == pc = "recover" => poseKnown

=============================================================================
