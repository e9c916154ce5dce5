----------------------------- MODULE PianoServer -----------------------------
(***************************************************************************)
(* The piano program (src/src/piano_server.cpp), the client the control    *)
(* loop was written for: it queues a score, sets _start and then runs      *)
(* LoopControl in its own thread, so nobody sets another mode.  What the   *)
(* score means -- the commands written for one moment start together --    *)
(* rests on the queue being complete before the loop takes from it.        *)
(***************************************************************************)
EXTENDS LoopControl

VARIABLE line            \* the next statement: a command of the score, _start, the loop

pianoVars == <<vars, line>>

Note(time_ns, type) == [time |-> time_ns, type |-> type]

\* The commands of piano_main in source order, their times in seconds
Score == <<Note(0, "arm_left"), Note(0, "arm_right"),
           Note(6, "arm_left"), Note(8, "arm_right"),
           Note(14, "arm_left"), Note(14, "arm_right"),
           Note(18, "head"),
           Note(22, "arm_left"), Note(22, "arm_right"), Note(22, "head"),
           Note(28, "arm_left"), Note(28, "arm_right"), Note(28, "waist")>>

StartLine == Len(Score) + 1
LoopLine == Len(Score) + 2

PianoInit == Init /\ line = 1

\* server->SetMessageData
QueueNote ==
    /\ line \in DOMAIN Score
    /\ Push
    /\ LET c == queue'[Len(queue')] IN Note(c.time, c.type) = Score[line]
    /\ line' = line + 1

\* server->SetControlMode(1)
StartPlaying ==
    /\ line = StartLine
    /\ SetControlMode("start")
    /\ line' = LoopLine

\* robot.LoopControl
Play == line = LoopLine /\ Loop /\ UNCHANGED line

\* CloseControl and return, once the loop has ended
Leave ==
    /\ line = LoopLine /\ pc = "end"
    /\ line' = LoopLine + 1
    /\ UNCHANGED vars

PianoNext == QueueNote \/ StartPlaying \/ Play \/ Leave \/ (Robot /\ UNCHANGED line)

\* The program's only thread is scheduled and every motion ends
PianoFair ==
    /\ WF_pianoVars(QueueNote \/ StartPlaying \/ Play \/ Leave)
    /\ \A g \in Groups : WF_pianoVars(MoveEnds(g) /\ UNCHANGED line)

PianoSpec == PianoInit /\ [][PianoNext]_pianoVars /\ PianoFair

-----------------------------------------------------------------------------
(* Properties *)

\* Every variable keeps its type; the program runs its statements once.
PianoTypeOK == TypeOK /\ line \in 1..LoopLine + 1

\* Commands written for the same moment are taken in one batch, so one MoveSyncStart
\* starts them: GetMessageData never finds the first of them without the others.
PlayedTogether ==
    have => \A i, j \in DOMAIN Score :
               (/\ \E k \in DOMAIN data : data[k].id = i
                /\ Score[i].time = Score[j].time)
                   => \E k \in DOMAIN data : data[k].id = j

\* The whole score is played, or the robot has a fault; the loop does not come back
\* to its wait.
ScorePlayed == <>(done = Len(Score) \/ ~ok)

=============================================================================
