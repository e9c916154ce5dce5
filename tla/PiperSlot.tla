------------------------------ MODULE PiperSlot ------------------------------
(***************************************************************************)
(* PiperGripperEndEffectorSlot (src/src/JeComm/end_effector_slot.cpp) between *)
(* the subscriber's commands and the gripper: what a command asks for, what  *)
(* is sent, and which position is left for the publisher to read.           *)
(*                                                                         *)
(* The client is connected from the slot's Init to its destruction, so      *)
(* GripperCtrl fails only when the CAN frame cannot be sent.                 *)
(***************************************************************************)
EXTENDS Integers

CONSTANTS
    MaxRaw,    \* kPiperAngleMaxRaw, 70000: fully open
    Lo, Hi,    \* SDK limits in force
    Raw,       \* angles a command may ask for
    None       \* a field that is absent, a position that is unknown

\* A command's fields. Those of a wrong type count as absent, except for the action, the
\* status and set_zero, which are then "bad". `other` stands for the fields that say
\* nothing of the angle: force, torque, effort_0p001Nm, set_zero and init.
Commands == [position: Raw \union {None}, angle: Raw \union {None},
             action: {"open", "close", "bad", None},
             status: {"on", "off", "bad", None}, other: {"good", "bad", None}]

VARIABLES
    pc,              \* where AcceptCommand is: "idle", "ctrl", "store", "read"
    out,             \* the command it makes of its argument
    last_angle,      \* last_angle_raw_
    position,        \* current_position_, as a raw angle
    state,           \* the client's last feedback angle
    target, enabled, \* what the gripper was last told (environment)
    angle,           \* where it is
    measured         \* feedback the client has had, and its initial zero (history)

slotVars == <<pc, out, last_angle, position>>
gripperVars == <<target, enabled, angle>>
vars == <<slotVars, state, gripperVars, measured>>

Angles == 0..MaxRaw

\* `named`: the angle comes from the command (history)
Controls == [angle: Angles, on: BOOLEAN, named: BOOLEAN]

Clamp(v, lo, hi) == IF v < lo THEN lo ELSE IF v > hi THEN hi ELSE v
Limit(a) == Clamp(a, Lo, Hi)

TypeOK ==
    /\ pc \in {"idle", "ctrl", "store", "read"} /\ out \in Controls \union {None}
    /\ last_angle \in Angles /\ position \in Angles \union {None} /\ state \in Angles
    /\ target \in Angles \union {None} /\ enabled \in BOOLEAN /\ angle \in Angles
    /\ measured \subseteq Angles

Init ==
    /\ pc = "idle" /\ out = None /\ last_angle = MaxRaw /\ position = None
    /\ state = 0 /\ measured = {0}
    /\ target = None /\ enabled = FALSE /\ angle \in Lo..Hi

-----------------------------------------------------------------------------
(* AcceptCommand. *)

\* Mutant: an absent angle is where the gripper is
AngleOfMeasured(c) ==
    IF c.action = "open" THEN MaxRaw
    ELSE IF c.action = "close" THEN 0
    ELSE IF c.angle # None THEN Clamp(c.angle, 0, MaxRaw)
    ELSE IF c.position # None THEN Clamp(c.position, 0, MaxRaw)
    ELSE state

\* An absent angle is the last one sent; an action wins over an angle, an angle over a
\* position
AngleOf(c) ==
    IF c.action = "open" THEN MaxRaw
    ELSE IF c.action = "close" THEN 0
    ELSE IF c.angle # None THEN Clamp(c.angle, 0, MaxRaw)
    ELSE IF c.position # None THEN Clamp(c.position, 0, MaxRaw)
    ELSE last_angle

NamesAngle(c) == c.action # None \/ c.angle # None \/ c.position # None

\* Nothing is sent for a command with a bad field or without a control field
IsControl(c) ==
    /\ "bad" \notin {c.action, c.status, c.other}
    /\ NamesAngle(c) \/ c.status # None \/ c.other # None

\* The status is an enabling one unless the command says otherwise
Accept ==
    /\ pc = "idle"
    /\ \E c \in Commands :
          /\ IsControl(c)
          /\ out' = [angle |-> AngleOf(c), on |-> c.status # "off", named |-> NamesAngle(c)]
    /\ pc' = "ctrl"
    /\ UNCHANGED <<last_angle, position, state, gripperVars, measured>>

\* The frame reaches the gripper, or the socket refuses it
GripperCtrl ==
    /\ pc = "ctrl"
    /\ \/ /\ target' = Limit(out.angle) /\ enabled' = out.on
          /\ pc' = "store"
       \/ pc' = "idle" /\ UNCHANGED <<target, enabled>>
    /\ UNCHANGED <<out, last_angle, position, state, angle, measured>>

Store ==
    /\ pc = "store"
    /\ last_angle' = out.angle /\ pc' = "read"
    /\ UNCHANGED <<out, position, state, gripperVars, measured>>

GetArmGripperMsgs ==
    /\ pc = "read"
    /\ position' = state /\ pc' = "idle" /\ out' = None
    /\ UNCHANGED <<last_angle, state, gripperVars, measured>>

-----------------------------------------------------------------------------
(* The gripper and the client's reader thread. *)

Move ==
    /\ enabled /\ target # None
    /\ angle' = IF angle < target THEN angle + 1 ELSE angle - 1
    /\ angle # target
    /\ UNCHANGED <<slotVars, state, target, enabled, measured>>

Feedback ==
    /\ state # angle
    /\ state' = Limit(angle) /\ measured' = measured \union {state'}
    /\ UNCHANGED <<slotVars, gripperVars>>

Next == Accept \/ GripperCtrl \/ Store \/ GetArmGripperMsgs \/ Move \/ Feedback

Spec == Init /\ [][Next]_vars
Fair == /\ WF_vars(Move) /\ WF_vars(Feedback)
        /\ WF_vars(GripperCtrl \/ Store \/ GetArmGripperMsgs)

-----------------------------------------------------------------------------
(* Properties *)

\* Between commands the slot knows what the gripper was told, also after frames that
\* could not be sent: last_angle_raw_ is the angle of the last frame that went out.
TargetKnown == pc \in {"idle", "ctrl"} /\ target # None => target = Limit(last_angle)

\* A command that names no angle (force, status, set_zero, init) leaves the gripper
\* where it was told to go, even in the middle of a motion.
KeepsTarget ==
    [][pc = "ctrl" /\ ~out.named /\ target # None => target' = target]_vars

\* The published position was measured, never merely commanded.
PositionIsMeasured == position # None => position \in measured

\* A client that goes on sending commands comes to see where the gripper ends up: if
\* the target stands and commands keep being sent, the position settles on it.
PollingReports ==
    \A t \in Angles : <>[](target = t /\ enabled) /\ []<>(pc = "read") => <>[](position = t)

=============================================================================
