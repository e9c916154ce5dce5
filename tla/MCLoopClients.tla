----------------------------- MODULE MCLoopClients -----------------------------
(***************************************************************************)
(* The control loop between its two kinds of client, in one run: one that  *)
(* queues commands and sets modes at will (line = 0) and the piano program *)
(* (line > 0).  The initial state chooses the client.                      *)
(***************************************************************************)
EXTENDS PianoServer

PianoTypes == {"arm_left", "arm_right", "head", "waist"}
PianoTimes == {0, 6, 8, 14, 18, 22, 28}

\* Two commands of a known and an unknown type, with and without equal times
Any == INSTANCE LoopControl WITH
           Types <- {"arm_left", "arm_both_j", "unknown"}, Times <- {0, 2},
           MaxPush <- 2, MaxTime <- 2

ClientsInit == Init /\ line \in {0, 1}

ClientsNext == \/ line = 0 /\ Any!Next /\ UNCHANGED line
               \/ line > 0 /\ PianoNext

\* The fairness of each client's loop holds of the client in hand
ClientsSpec ==
    /\ ClientsInit /\ [][ClientsNext]_pianoVars
    /\ WF_pianoVars(line = 0 /\ Any!Loop /\ UNCHANGED line)
    /\ WF_pianoVars(line > 0 /\ (QueueNote \/ StartPlaying \/ Play \/ Leave))
    /\ \A g \in Groups : WF_pianoVars(MoveEnds(g) /\ UNCHANGED line)

-----------------------------------------------------------------------------
(* Properties *)

\* The score is played as written: what stands at one moment starts together, and the
\* whole score is played unless the robot has a fault.
PlayedAsWritten ==
    /\ [](line > 0 => PianoTypeOK /\ PlayedTogether)
    /\ line > 0 => ScorePlayed

=============================================================================
