------------------------------ MODULE EndEffectors ------------------------------
(***************************************************************************)
(* The parts of the end effector library that share no state: the initial  *)
(* state chooses the part a behaviour is about.  Re-initialisation,         *)
(* manager, Piper slot and the codec of its client's frames, serial slot,   *)
(* Inspire hand and the CRC of the Modbus frames.                           *)
(***************************************************************************)
EXTENDS ReinitCooldown, EndEffectorManager

CONSTANTS
    MaxRaw, Lo, Hi, Raw, Unset,                        \* Piper slot
    Base, FrameAngles, Efforts, Statuses,              \* codec
    CtrlId, FeedbackId, OtherId,
    Modes, Positions, Presets,                         \* serial slot
    HandIds, FingerValues,                             \* Inspire hand
    FirstBytes, RestBytes, Damages, Length             \* CRC

VARIABLES
    subject,                                                \* the part in hand
    call, out, last_angle, position, state, target, enabled, angle, measured,  \* Piper slot
    frame, meant, feedback, sent,                           \* codec
    line, orders, hand, done,                               \* serial slot and its hand
    asked, bytes,                                           \* Inspire hand
    msg, crc, other, damaged                                \* CRC

Slot == INSTANCE PiperSlot WITH None <- Unset, pc <- call
Codec == INSTANCE PiperCodec WITH Angles <- FrameAngles, out <- feedback, last <- sent
Serial == INSTANCE SerialSlot WITH None <- Unset
Inspire == INSTANCE InspireHand WITH Ids <- HandIds, Values <- FingerValues, line <- bytes
Crc == INSTANCE Crc16

ASSUME PiperAssumption ==
    /\ Lo \in Nat /\ Hi \in Nat /\ MaxRaw \in Nat /\ Lo <= Hi /\ Hi <= MaxRaw
    /\ Raw \subseteq Int /\ Unset \notin {"open", "close"}
ASSUME CodecAssumption ==
    /\ Base \in Nat /\ Base > 1
    /\ FrameAngles \subseteq Codec!Int32 /\ Efforts \subseteq Codec!Int16
    /\ Statuses \subseteq Codec!Byte
    /\ FeedbackId \notin {CtrlId, OtherId} /\ CtrlId # OtherId
ASSUME SerialAssumption == Positions \subseteq Int /\ Presets \subseteq Int /\ Unset \notin Int
ASSUME InspireAssumption ==
    HandIds \subseteq 0..(2^14 - 1) /\ FingerValues \subseteq 0..(2^16 - 1)
ASSUME CrcAssumption ==
    /\ FirstBytes \subseteq 0..255 /\ RestBytes \subseteq 0..255
    /\ Damages \subseteq 1..255 /\ Length \in Nat

slotVars == <<call, out, last_angle, position, state, target, enabled, angle, measured>>
codecVars == <<frame, meant, feedback, sent>>
serialVars == <<line, orders, hand, done>>
inspireVars == <<asked, bytes>>
crcVars == <<msg, crc, other, damaged>>
EEVars == <<subject, vars, managerVars, slotVars, codecVars, serialVars, inspireVars,
            crcVars>>

EEInit ==
    /\ subject \in {"reinit", "manager", "slot", "codec", "serial", "inspire", "crc"}
    /\ Init /\ ManagerInit
    /\ subject # "manager" =>
          file = "missing" /\ cfg = <<>> /\ \A k \in 1..RobotNum : dh[k] = "not"
    /\ Slot!Init /\ (subject # "slot" => angle = Lo)
    /\ Codec!Init /\ Serial!Init /\ Inspire!Init /\ Crc!Init

EENext ==
    /\ UNCHANGED subject
    /\ subject # "reinit" => UNCHANGED vars
    /\ subject # "manager" => UNCHANGED managerVars
    /\ subject # "slot" => UNCHANGED slotVars
    /\ subject # "codec" => UNCHANGED codecVars
    /\ subject # "serial" => UNCHANGED serialVars
    /\ subject # "inspire" => UNCHANGED inspireVars
    /\ subject # "crc" => UNCHANGED crcVars
    /\ \/ subject = "reinit" /\ Next
       \/ subject = "manager" /\ ManagerNext
       \/ subject = "slot" /\ Slot!Next
       \/ subject = "codec" /\ Codec!Next
       \/ subject = "serial" /\ Serial!Next
       \/ subject = "inspire" /\ Inspire!Next
       \/ subject = "crc" /\ Crc!Next

\* The fairness of each part holds of the part in hand
EEFair ==
    /\ \A t \in Threads : /\ WF_vars(subject = "reinit" /\ Step(t))
                          /\ SF_vars(subject = "reinit" /\ Claim(t))
    /\ WF_managerVars(subject = "manager" /\ LoadAndInit)
    /\ WF_slotVars(subject = "slot" /\ Slot!Move)
    /\ WF_slotVars(subject = "slot" /\ Slot!Feedback)
    /\ WF_slotVars(subject = "slot" /\ (Slot!GripperCtrl \/ Slot!Store \/ Slot!GetArmGripperMsgs))

EESpec == EEInit /\ [][EENext]_EEVars /\ EEFair

-----------------------------------------------------------------------------
(* Properties *)

\* A command is not dropped, replaced, forgotten or garbled: a re-initialisation is ignored
\* only within the cool-down of another one, a Piper gripper's target changes only by a
\* command that names an angle, the slot knows what the gripper was told and publishes only
\* what was measured, the frames in between say what their sender meant, and the two hands
\* take the bytes on their lines for the command they were written for.
CommandsKept ==
    /\ NoIdleDrop
    /\ Slot!KeepsTarget
    /\ [](Slot!TypeOK /\ Slot!TargetKnown /\ Slot!PositionIsMeasured)
    /\ [](Codec!TypeOK /\ Codec!EncodeIsExact /\ Codec!DecodeIsExact)
    /\ [](Serial!TypeOK /\ Serial!AllUnderstood /\ Serial!PositionArrives /\ Serial!PresetsDiffer)
    /\ [](Inspire!TypeOK /\ Inspire!FingersReached)

\* The table computes the CRC that the other end of a Modbus line computes, and what comes
\* in damaged is not taken for an answer.
DamageSeen == Crc!TypeOK /\ Crc!TableIsPolynomial /\ Crc!DamageDetected

\* Calls return and reports arrive: the cool-down's retry loop ends, the manager's load
\* ends whatever the devices do, and a client that keeps asking the Piper slot sees
\* where its gripper ends up.
CallsEnd ==
    /\ CallsReturn
    /\ subject = "manager" => LoadReturns
    /\ subject = "slot" => Slot!PollingReports

=============================================================================
