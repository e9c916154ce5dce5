---------------------------- MODULE MCLoopControl ----------------------------
(* Instances of LoopControl for TLC. *)
EXTENDS LoopControl
MCTypes == {"arm_left", "arm_both_j", "arm_both_l", "head"}
MCTimes == {0, 2}
=============================================================================
