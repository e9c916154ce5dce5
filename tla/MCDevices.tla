-------------------------------- MODULE MCDevices -------------------------------
(***************************************************************************)
(* Instances of Devices for TLC.  Target is a register that is written,    *)
(* Status one that moves by itself; an echo is one byte longer than an     *)
(* answer.  Positions lie beyond both ends; one descriptor is the          *)
(* transport's, one leaked, one the rest of the process's.                 *)
(***************************************************************************)
EXTENDS Devices

CONSTANTS target, status
MCRegs   == {target, status}
MCMoving == {status}
Bit == {0, 1}
MCPositions == {-1, 1100}
================================================================================
