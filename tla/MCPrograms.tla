------------------------------ MODULE MCPrograms ------------------------------
(***************************************************************************)
(* An instance of Programs for TLC.                                        *)
(***************************************************************************)
EXTENDS Programs

\* Two opposite directions and one across them
SomeDirections == {1, -1, 2}
===============================================================================
