---------------------------- MODULE MCEndEffectors ----------------------------
(***************************************************************************)
(* An instance of EndEffectors for TLC.                                    *)
(***************************************************************************)
EXTENDS EndEffectors

CONSTANTS t1, t2, t3
ThreeThreads == {t1, t2, t3}
AllKinds == {"none", "dh", "piper", "serial", "bad"}

\* Beyond both ends of the four angles
SomeRaw == {-1, 4}
\* Values at the edges of four bytes and of two
SomeAngles == {-128, -65, -1, 0, 27, 127}
SomeEfforts == {-8, -1, 0, 7}
\* Every preset, positions at the limits and where rounding decides
SomePositions == {-5, 0, 4, 5, 2555, 12345, 19994, 99999}
SomePresets == (-1..11) \union {20, 21, 22, 98, 99, 355}

\* Every entry of the table, in messages of three bytes
AllBytes == 0..255
SomeBytes == {2, 165}
SomeDamages == {1, 8, 128, 255}

=============================================================================
