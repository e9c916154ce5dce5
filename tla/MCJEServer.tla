------------------------------ MODULE MCJEServer ------------------------------
(* Instances of JEServer for TLC. *)
EXTENDS JEServer
AllKinds == MessageKind
SwitchKinds == {"on", "off", "move"}
=============================================================================
