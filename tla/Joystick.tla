------------------------------- MODULE Joystick -------------------------------
(***************************************************************************)
(* The claw game of src/src/JoystickDemo.cpp: the main thread moves the    *)
(* robot in the plane by joystick events; a button starts a thread that    *)
(* fetches an object, and until it ends events are read and dropped.       *)
(*                                                                         *)
(* The robot, the gripper behind two outputs and the joystick are          *)
(* external: MoveL returns at once in thread mode and after the motion     *)
(* otherwise; a pulse of output 0 opens the gripper, of output 1 closes it. *)
(***************************************************************************)
EXTENDS Integers, Sequences

CONSTANT MaxFetches    \* bound: buttons pressed

\* _MoveOut: motions (one blocking MoveL each) and gripper pulses, in order; a fetch may
\* let the object fall once
Fetch(falls) ==
    <<"move", "close", "move">> \o (IF falls THEN <<"open", "close">> ELSE <<>>)
      \o <<"move", "move", "open", "move", "move">>

VARIABLES
    pc,              \* the main thread: reading, or in MoveXY
    IsRunMoveOut, fetches,
    script, phase,   \* what is left of the fetch, and the pulse it is in; <<>> without thread
    alive,           \* the thread exists
    thread,          \* setMoveThread: 1 or 0
    DO,              \* the outputs 0 and 1
    grip,            \* the gripper: "open" or "closed" (external)
    travelling       \* a motion in thread mode is under way (external)

fetchVars == <<script, phase, alive>>
gripVars == <<DO, grip>>
vars == <<pc, IsRunMoveOut, fetches, fetchVars, thread, gripVars, travelling>>

TypeOK ==
    /\ pc \in {"read", "set", "move", "reset"} /\ IsRunMoveOut \in BOOLEAN
    /\ fetches \in 0..MaxFetches
    /\ script \in Seq({"move", "open", "close"}) /\ phase \in 0..2 /\ alive \in BOOLEAN
    /\ thread \in {0, 1} /\ DO \in [{0, 1} -> {0, 1}]
    /\ grip \in {"open", "closed"} /\ travelling \in BOOLEAN

\* The robot is above the start pose, OpenGrip has been called
Init ==
    /\ pc = "read" /\ IsRunMoveOut = FALSE /\ fetches = 0
    /\ script = <<>> /\ phase = 0 /\ alive = FALSE
    /\ thread = 0 /\ DO = [o \in {0, 1} |-> 0]
    /\ grip = "open" /\ travelling = FALSE

-----------------------------------------------------------------------------
(* The main thread. *)

\* MoveOut; the thread takes the position the robot has at that moment
Button ==
    /\ pc = "read" /\ ~IsRunMoveOut /\ fetches < MaxFetches
    /\ IsRunMoveOut' = TRUE /\ fetches' = fetches + 1
    /\ \E falls \in BOOLEAN : script' = Fetch(falls)
    /\ phase' = 0 /\ alive' = TRUE
    /\ UNCHANGED <<pc, thread, gripVars, travelling>>

\* MoveStop; a deflection goes on to MoveXY
Stick ==
    /\ pc = "read" /\ ~IsRunMoveOut
    /\ travelling' = FALSE
    /\ pc' \in {"read", "set"}
    /\ UNCHANGED <<IsRunMoveOut, fetches, fetchVars, thread, gripVars>>

SetThread ==
    /\ pc = "set" /\ pc' = "move"
    /\ thread' = 1
    /\ UNCHANGED <<IsRunMoveOut, fetches, fetchVars, gripVars, travelling>>

MoveXY ==
    /\ pc = "move" /\ pc' = "reset"
    /\ travelling' \in BOOLEAN
    /\ UNCHANGED <<IsRunMoveOut, fetches, fetchVars, thread, gripVars>>

ResetThread ==
    /\ pc = "reset" /\ pc' = "read"
    /\ thread' = 0
    /\ UNCHANGED <<IsRunMoveOut, fetches, fetchVars, gripVars, travelling>>

Arrives ==
    /\ travelling /\ travelling' = FALSE
    /\ UNCHANGED <<pc, IsRunMoveOut, fetches, fetchVars, thread, gripVars>>

-----------------------------------------------------------------------------
(* The fetch. *)

Doing(what) == alive /\ script # <<>> /\ Head(script) = what

\* A MoveL of the fetch; motions that are refused are not looked at
FetchMove ==
    /\ Doing("move")
    /\ script' = Tail(script)
    /\ UNCHANGED <<pc, IsRunMoveOut, fetches, phase, alive, thread, gripVars, travelling>>

\* OpenGrip and CloseGrip: low, high, low
Pulse(what, o, state) ==
    /\ Doing(what)
    /\ phase' = (phase + 1) % 3
    /\ script' = IF phase = 2 THEN Tail(script) ELSE script
    /\ DO' = [DO EXCEPT ![o] = IF phase = 1 THEN 1 ELSE 0]
    /\ grip' = IF phase = 1 THEN state ELSE grip
    /\ UNCHANGED <<pc, IsRunMoveOut, fetches, alive, thread, travelling>>

\* Mutant: IsRunMoveOut falls before the last motions
FetchEndsEarly ==
    /\ alive /\ (Len(script) = 4 => IsRunMoveOut) /\ Len(script) \in {0, 4}
    /\ alive' = (script # <<>>) /\ IsRunMoveOut' = FALSE
    /\ UNCHANGED <<pc, fetches, script, phase, thread, gripVars, travelling>>

\* ThreadDataFree; IsRunMoveOut = 0
FetchEnds ==
    /\ alive /\ script = <<>>
    /\ alive' = FALSE /\ IsRunMoveOut' = FALSE
    /\ UNCHANGED <<pc, fetches, script, phase, thread, gripVars, travelling>>

MoveOut == FetchMove \/ Pulse("open", 0, "open") \/ Pulse("close", 1, "closed") \/ FetchEnds

Next == Button \/ Stick \/ SetThread \/ MoveXY \/ ResetThread \/ Arrives \/ MoveOut

\* The thread is scheduled and its motions end; no event has to come
Fair == WF_vars(MoveOut)

Spec == Init /\ [][Next]_vars /\ Fair

-----------------------------------------------------------------------------
(* Properties *)

\* The motions of a fetch are made in blocking mode, each ends before the next step, though
\* the mode is one global switch that MoveXY turns on for its own motion.
FetchBlocks == alive /\ IsRunMoveOut => thread = 0 /\ pc = "read"

\* The outputs that open and close the gripper are never high together.
OutputsExclusive == DO[0] + DO[1] <= 1

\* Between two fetches the gripper is open, whatever fell on the way.
OpenBetween == ~IsRunMoveOut => grip = "open" /\ ~alive

\* The joystick comes back: every fetch ends, also with motions that are refused.
FetchReturns == IsRunMoveOut ~> ~IsRunMoveOut

=============================================================================
