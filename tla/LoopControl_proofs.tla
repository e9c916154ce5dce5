-------------------------- MODULE LoopControl_proofs --------------------------
(***************************************************************************)
(* The control loop moves at most one batch after a stop or a pause, never *)
(* reads an empty batch and keeps the order of the commands, for any set   *)
(* of command types and times and any number of commands; the piano        *)
(* program is one of its clients, and its score is never torn apart.       *)
(***************************************************************************)
EXTENDS PianoServer, TLAPS

\* Where the loop can be once it has moved a batch under stop or pause
LateInv ==
    /\ late \in {0, 1}
    /\ late = 1 =>
          /\ mode \in {"stop", "pause"}
          /\ \/ pc \in {"check_stop", "clear", "wait", "paused", "end"}
             \/ pc = "check_pause" /\ mode = "pause"
             \/ pc = "loop" /\ ~ok

LEMMA LateStep == LateInv /\ [Next]_vars => LateInv'
<1> SUFFICES ASSUME LateInv, [Next]_vars PROVE LateInv'
  OBVIOUS
<1> USE DEF LateInv, robotVars, Goto
<1>1. CASE Loop
  BY <1>1 DEF Loop, WaitStart, WaitMoveOk, First, Cycle, Fetch, NotYet, Move,
              CheckStop, Clear, CheckPause, Paused
<1>2. CASE Client
  BY <1>2 DEF Client, Push, SetControlMode
<1>3. CASE Robot
  BY <1>3 DEF Robot, Fault, MoveEnds
<1>4. CASE UNCHANGED vars
  BY <1>4 DEF vars
<1>5. QED
  BY <1>1, <1>2, <1>3, <1>4 DEF Next

\* After the client sets stop or pause, at most one more batch is moved.
THEOREM OneLateBatch == Spec => []AtMostOneLateBatch
<1>1. Init => LateInv
  BY DEF Init, LateInv
<1>2. LateInv => AtMostOneLateBatch
  BY DEF LateInv, AtMostOneLateBatch
<1>3. QED
  BY <1>1, <1>2, LateStep, PTL DEF Spec

\* Outside its wait the loop sees _stop only as long as that stop is not obeyed
StopInv == /\ mode = "stop" /\ pc # "wait" => stopped
           /\ pc = "clear" => stopped

LEMMA StopStep == StopInv /\ [Next]_vars => StopInv'
<1> SUFFICES ASSUME StopInv, [Next]_vars PROVE StopInv'
  OBVIOUS
<1> USE DEF StopInv, robotVars, Goto
<1>1. CASE Loop
  BY <1>1 DEF Loop, WaitStart, WaitMoveOk, First, Cycle, Fetch, NotYet, Move,
              CheckStop, Clear, CheckPause, Paused
<1>2. CASE Client
  BY <1>2 DEF Client, Push, SetControlMode
<1>3. CASE Robot
  BY <1>3 DEF Robot, Fault, MoveEnds
<1>4. CASE UNCHANGED vars
  BY <1>4 DEF vars
<1>5. QED
  BY <1>1, <1>2, <1>3, <1>4 DEF Next

\* The loop clears the queue once for a stop, never for one it has obeyed already.
THEOREM StopClearsOnce == Spec => []EachStopClearsOnce
<1>1. Init => StopInv
  BY DEF Init, StopInv
<1>2. StopInv => EachStopClearsOnce
  BY DEF StopInv, EachStopClearsOnce
<1>3. QED
  BY <1>1, <1>2, StopStep, PTL DEF Spec

-----------------------------------------------------------------------------
(* The queue and the batch. *)

\* The part of the type invariant the order of the commands rests on
SeqsOK == /\ queue \in Seq(Command) /\ data \in Seq(Command)
          /\ pushed \in 0..MaxPush /\ done \in 0..MaxPush

\* A batch at hand is not empty, and the loop holds one where it uses one
BatchInv ==
    /\ have \in BOOLEAN
    /\ have => data # <<>>
    /\ pc = "run" => have
    /\ pc \in {"wait_ok", "first"} => queue # <<>>
    /\ pc \in {"wait", "wait_ok", "first", "fetch"} => ~have

QueueInv == SeqsOK /\ BatchInv /\ InOrder

\* The order of the commands, with and without a batch at hand
QueueOrder == \A i \in 1..Len(queue) : queue[i].id = pushed - Len(queue) + i
BatchOrder ==
    /\ \A i \in 1..Len(data) : data[i].id = pushed - Len(queue) - Len(data) + i
    /\ done <= pushed - Len(queue) - Len(data)

LEMMA OrderWithout ==
    ASSUME SeqsOK, ~have PROVE InOrder <=> QueueOrder /\ done <= pushed - Len(queue)
BY DEF SeqsOK, InOrder, QueueOrder

LEMMA OrderWith ==
    ASSUME SeqsOK, have PROVE InOrder <=> QueueOrder /\ BatchOrder
<1>1. DOMAIN queue = 1..Len(queue) /\ DOMAIN data = 1..Len(data)
  BY DEF SeqsOK
<1>2. InOrder <=> /\ \A i \in 1..Len(queue) : queue[i].id = pushed - Len(queue) + i
                  /\ \A i \in 1..Len(data) :
                        data[i].id = pushed - Len(queue) - Len(data) + i
                  /\ done <= pushed - Len(queue) - Len(data)
  BY <1>1, Zenon DEF InOrder
<1>3. QED
  BY <1>2, Zenon DEF QueueOrder, BatchOrder

\* Taking a batch splits the queue: the ids of both halves keep their places.
LEMMA TakeSplits ==
    ASSUME SeqsOK, QueueOrder, done <= pushed - Len(queue), Take,
           UNCHANGED <<pushed, done>>
    PROVE  SeqsOK' /\ data' # <<>> /\ QueueOrder' /\ BatchOrder'
<1>1. PICK n \in 1..Len(queue) : /\ data' = SubSeq(queue, 1, n)
                                 /\ queue' = SubSeq(queue, n + 1, Len(queue))
  BY DEF Take
<1>2. data' \in Seq(Command) /\ Len(data') = n
      /\ \A i \in 1..n : data'[i] = queue[i]
  BY <1>1 DEF SeqsOK
<1>3. queue' \in Seq(Command) /\ Len(queue') = Len(queue) - n
      /\ \A i \in 1..(Len(queue) - n) : queue'[i] = queue[n + i]
  BY <1>1 DEF SeqsOK
<1>4. Len(queue) \in Nat /\ pushed \in Int /\ done \in Int /\ n \in 1..Len(queue)
  BY DEF SeqsOK
<1>5. QueueOrder'
  BY <1>3, <1>4 DEF QueueOrder
<1>6. BatchOrder'
  BY <1>2, <1>3, <1>4 DEF QueueOrder, BatchOrder
<1>7. data' # <<>>
  BY <1>2, <1>4
<1>8. QED
  BY <1>2, <1>3, <1>5, <1>6, <1>7 DEF SeqsOK

\* Queueing a command gives it the next number.
LEMMA PushAppends ==
    ASSUME SeqsOK, Push
    PROVE  /\ SeqsOK' /\ Len(queue') = Len(queue) + 1 /\ pushed' = pushed + 1
           /\ \A i \in 1..Len(queue) : queue'[i] = queue[i]
           /\ queue'[Len(queue) + 1].id = pushed'
<1>1. PICK ty \in Types, ti \in Times :
         queue' = Append(queue, [id |-> pushed + 1, time |-> ti, type |-> ty])
  BY DEF Push
<1>2. pushed' = pushed + 1 /\ pushed + 1 \in 1..MaxPush /\ UNCHANGED <<data, done>>
  BY PushAssumption DEF Push, SeqsOK
<1>3. [id |-> pushed + 1, time |-> ti, type |-> ty] \in Command
  BY <1>2 DEF Command
<1>4. QED
  BY <1>1, <1>2, <1>3 DEF SeqsOK

LEMMA QueueStep == QueueInv /\ [Next]_vars => QueueInv'
<1> SUFFICES ASSUME SeqsOK, BatchInv, InOrder, [Next]_vars
             PROVE  SeqsOK' /\ BatchInv' /\ InOrder'
  BY DEF QueueInv
<1> USE DEF robotVars, Goto
<1>1. CASE First \/ (Fetch /\ Take)
  <2>1. Take /\ ~have /\ have' /\ have' \in BOOLEAN /\ UNCHANGED <<pushed, done>>
        /\ pc' \in {"loop", "run"}
    BY <1>1 DEF First, Fetch, BatchInv, Take
  <2>2. SeqsOK' /\ data' # <<>> /\ QueueOrder' /\ BatchOrder'
    BY <2>1, TakeSplits, OrderWithout
  <2>3. InOrder'
    <3>1. DOMAIN queue' = 1..Len(queue') /\ DOMAIN data' = 1..Len(data')
      BY <2>2 DEF SeqsOK
    <3>2. QED
      BY <2>1, <2>2, <3>1, Zenon DEF InOrder, QueueOrder, BatchOrder
  <2>4. QED
    BY <2>1, <2>2, <2>3 DEF BatchInv
<1>2. CASE Push
  <2>1. /\ SeqsOK' /\ Len(queue') = Len(queue) + 1 /\ pushed' = pushed + 1
        /\ \A i \in 1..Len(queue) : queue'[i] = queue[i]
        /\ queue'[Len(queue) + 1].id = pushed'
    BY <1>2, PushAppends
  <2>2. UNCHANGED <<data, have, done, pc>>
    BY <1>2 DEF Push
  <2>3. queue' # <<>>
    BY <2>1 DEF SeqsOK
  <2>4. BatchInv'
    BY <2>2, <2>3 DEF BatchInv
  <2>5. QueueOrder => QueueOrder'
    <3>1. SUFFICES ASSUME QueueOrder, NEW i \in 1..Len(queue')
                   PROVE  queue'[i].id = pushed' - Len(queue') + i
      BY DEF QueueOrder
    <3>2. Len(queue) \in Nat /\ pushed \in Int
      BY DEF SeqsOK
    <3>3. CASE i \in 1..Len(queue)
      BY <2>1, <3>1, <3>2, <3>3 DEF QueueOrder
    <3>4. CASE i = Len(queue) + 1
      BY <2>1, <3>2, <3>4
    <3>5. QED
      BY <2>1, <3>2, <3>3, <3>4
  <2>6. CASE have
    <3>1. BatchOrder => BatchOrder'
      BY <2>1, <2>2 DEF SeqsOK, BatchOrder
    <3>2. InOrder'
      BY <2>1, <2>2, <2>5, <2>6, <3>1, OrderWith DEF SeqsOK, InOrder, QueueOrder, BatchOrder
    <3>3. QED
      BY <2>1, <2>4, <3>2
  <2>7. CASE ~have
    BY <2>1, <2>2, <2>4, <2>5, <2>7, OrderWithout DEF SeqsOK, InOrder, QueueOrder
  <2>8. QED
    BY <2>6, <2>7
<1>3. CASE Move
  <2>1. have /\ data # <<>> /\ ~have' /\ have' \in BOOLEAN /\ pc' = "check_stop"
        /\ done' = data[Len(data)].id /\ UNCHANGED <<queue, data, pushed>>
    BY <1>3 DEF Move, BatchInv
  <2>2. QueueOrder /\ BatchOrder
    BY <2>1, OrderWith
  <2>3. Len(data) \in 1..Len(data) /\ data[Len(data)] \in Command
    BY <2>1 DEF SeqsOK
  <2>4. done' = pushed - Len(queue) /\ done' \in 0..MaxPush
    <3>1. data[Len(data)].id = pushed - Len(queue) - Len(data) + Len(data)
      BY <2>2, <2>3 DEF BatchOrder
    <3>2. Len(queue) \in Nat /\ Len(data) \in Nat /\ pushed \in Int
      BY DEF SeqsOK
    <3>3. data[Len(data)].id \in 1..MaxPush
      BY <2>3 DEF Command
    <3>4. QED
      BY <2>1, <3>1, <3>2, <3>3, PushAssumption
  <2>5. SeqsOK' /\ BatchInv'
    <3>1. SeqsOK'
      BY <2>1, <2>4 DEF SeqsOK
    <3>2. BatchInv'
      BY <2>1 DEF BatchInv
    <3>3. QED
      BY <3>1, <3>2
  <2>6. InOrder'
    BY <2>1, <2>2, <2>4, <2>5 DEF SeqsOK, InOrder, QueueOrder
  <2>7. QED
    BY <2>5, <2>6
<1>4. CASE Clear
  <2>1. queue' = <<>> /\ data' = <<>> /\ ~have' /\ have' \in BOOLEAN /\ pc' = "wait"
        /\ UNCHANGED <<pushed, done>>
    BY <1>4 DEF Clear
  <2>2. SeqsOK' /\ Len(queue') = 0
    BY <2>1 DEF SeqsOK
  <2>3. done <= pushed
    <3>1. CASE have
      BY <3>1, OrderWith DEF SeqsOK, BatchOrder
    <3>2. CASE ~have
      BY <3>2, OrderWithout DEF SeqsOK
    <3>3. QED
      BY <3>1, <3>2
  <2>4. InOrder'
    BY <2>1, <2>2, <2>3 DEF SeqsOK, InOrder
  <2>5. BatchInv'
    BY <2>1 DEF BatchInv
  <2>6. QED
    BY <2>2, <2>4, <2>5
<1>5. CASE WaitStart \/ WaitMoveOk \/ Cycle \/ NotYet \/ CheckStop \/ CheckPause
           \/ Paused \/ Robot \/ UNCHANGED vars
           \/ (\E m \in Modes : SetControlMode(m)) \/ (Fetch /\ queue = <<>>)
  <2>1. UNCHANGED <<queue, data, have, pushed, done>>
    BY <1>5 DEF WaitStart, WaitMoveOk, Cycle, NotYet, CheckStop, CheckPause, Paused,
                Robot, Fault, MoveEnds, SetControlMode, Fetch, Take, vars
  <2>2. BatchInv'
    BY <1>5 DEF BatchInv, WaitStart, WaitMoveOk, Cycle, NotYet, CheckStop,
                CheckPause, Paused, Robot, Fault, MoveEnds, SetControlMode, Fetch,
                Take, vars
  <2>3. SeqsOK' /\ InOrder'
    BY <2>1 DEF SeqsOK, InOrder
  <2>4. QED
    BY <2>2, <2>3
<1>6. CASE Fetch
  BY <1>1, <1>5, <1>6 DEF Fetch
<1>7. QED
  BY <1>1, <1>2, <1>3, <1>4, <1>5, <1>6 DEF Next, Loop, Client

LEMMA QueueInit == Init => QueueInv
<1> SUFFICES ASSUME Init PROVE QueueInv
  OBVIOUS
<1>1. queue = <<>> /\ data = <<>> /\ pushed = 0 /\ done = 0 /\ ~have /\ pc = "wait"
      /\ have \in BOOLEAN
  BY DEF Init
<1>2. SeqsOK
  BY <1>1, PushAssumption DEF SeqsOK
<1>3. InOrder
  BY <1>1, <1>2, OrderWithout DEF QueueOrder
<1>4. BatchInv
  BY <1>1 DEF BatchInv
<1>5. QED
  BY <1>2, <1>3, <1>4 DEF QueueInv

\* The batch whose first command the loop reads is never empty.
THEOREM BatchHasCommand == Spec => []BatchNeverEmpty
<1>1. QueueInv => BatchNeverEmpty
  BY DEF QueueInv, BatchInv, BatchNeverEmpty
<1>2. QED
  BY <1>1, QueueInit, QueueStep, PTL DEF Spec

\* Commands are moved in the order they were queued.
THEOREM OrderKept == Spec => []InOrder
<1>1. QueueInv => InOrder
  BY DEF QueueInv
<1>2. QED
  BY <1>1, QueueInit, QueueStep, PTL DEF Spec

-----------------------------------------------------------------------------
(* Types. *)

ControlOK ==
    /\ mode \in Modes
    /\ pc \in {"wait", "wait_ok", "first", "loop", "fetch", "run", "check_stop",
               "clear", "check_pause", "paused", "end"}
    /\ have \in BOOLEAN /\ ok \in BOOLEAN

RobotOK == axis \in [Groups -> {"idle", "armed", "moving"}]

ClockOK == time \in 0..MaxTime /\ late \in Nat /\ stopped \in BOOLEAN

LEMMA ControlStep == ControlOK /\ [Next]_vars => ControlOK'
<1> SUFFICES ASSUME ControlOK, [Next]_vars PROVE ControlOK'
  OBVIOUS
<1> USE DEF ControlOK, robotVars, Goto
<1>1. CASE Loop
  BY <1>1 DEF Loop, WaitStart, WaitMoveOk, First, Cycle, Fetch, NotYet, Move,
              CheckStop, Clear, CheckPause, Paused, Take
<1>2. CASE Client
  BY <1>2 DEF Client, Push, SetControlMode
<1>3. CASE Robot
  BY <1>3 DEF Robot, Fault, MoveEnds
<1>4. CASE UNCHANGED vars
  BY <1>4 DEF vars
<1>5. QED
  BY <1>1, <1>2, <1>3, <1>4 DEF Next

LEMMA RobotStep == RobotOK /\ [Next]_vars => RobotOK'
<1> SUFFICES ASSUME RobotOK, [Next]_vars PROVE RobotOK'
  OBVIOUS
<1> USE DEF RobotOK, robotVars
<1>1. CASE Move
  BY <1>1 DEF Move
<1>2. CASE \E g \in Groups : MoveEnds(g)
  BY <1>2 DEF MoveEnds
<1>3. CASE axis' = axis
  BY <1>3
<1>4. QED
  BY <1>1, <1>2, <1>3 DEF Next, Loop, Client, Robot, WaitStart, WaitMoveOk, First,
     Cycle, Fetch, NotYet, CheckStop, Clear, CheckPause, Paused, Push,
     SetControlMode, Fault, vars

LEMMA ClockStep == ClockOK /\ QueueInv /\ [Next]_vars => ClockOK'
<1> SUFFICES ASSUME ClockOK, QueueInv, [Next]_vars PROVE ClockOK'
  OBVIOUS
<1> USE TimesAssumption DEF ClockOK, robotVars
<1>1. CASE First
  <2>1. PICK n \in 1..Len(queue) : data' = SubSeq(queue, 1, n)
    BY <1>1 DEF First, Take
  <2>2. data'[1] \in Command
    BY <2>1 DEF QueueInv, SeqsOK
  <2>3. QED
    BY <1>1, <2>2 DEF First, Command
<1>2. CASE Cycle
  BY <1>2 DEF Cycle
<1>3. CASE UNCHANGED time /\ late' \in {late, 0, late + 1} /\ stopped' \in BOOLEAN
  BY <1>3
<1>4. QED
  BY <1>1, <1>2, <1>3 DEF Next, Loop, Client, Robot, WaitStart, WaitMoveOk, Fetch,
     NotYet, Move, CheckStop, Clear, CheckPause, Paused, Push, SetControlMode,
     MoveEnds, Fault, vars

\* Every variable keeps its type: the loop's clock always has the value of a queued
\* time or the bound, and move leaves no axis group in an unknown state.
THEOREM TypeCorrect == Spec => []TypeOK
<1>1. Init => ControlOK /\ RobotOK /\ ClockOK
  <2>1. Init => ControlOK
    BY DEF Init, ControlOK, Modes
  <2>2. Init => RobotOK
    BY DEF Init, RobotOK
  <2>3. Init => ClockOK
    <3>1. Init => stopped \in BOOLEAN
      BY DEF Init
    <3>2. Init => time \in 0..MaxTime /\ late \in Nat
      BY TimesAssumption DEF Init
    <3>3. QED
      BY <3>1, <3>2 DEF ClockOK
  <2>4. QED
    BY <2>1, <2>2, <2>3
<1>2. ControlOK /\ RobotOK /\ ClockOK /\ QueueInv => TypeOK
  BY Zenon DEF ControlOK, RobotOK, ClockOK, QueueInv, SeqsOK, TypeOK
<1>3. QED
  BY <1>1, <1>2, QueueInit, QueueStep, ControlStep, RobotStep, ClockStep, PTL DEF Spec

-----------------------------------------------------------------------------
(* The piano program. *)

Taken == pushed - Len(queue)

\* Between commands n and n + 1 of the score time passes
Boundary(n) == n \in 1..(Len(Score) - 1) => Score[n].time # Score[n + 1].time

\* Until the program has started the loop, the loop waits and the score is queued up to
\* the statement in hand; from then on the queue and the batch are cut from it where
\* its time passes.
PianoInv ==
    /\ line \in 1..LoopLine + 1
    /\ line <= StartLine =>
          mode = "stop" /\ pc = "wait" /\ ~have /\ pushed = line - 1 /\ Len(queue) = pushed
    /\ line > StartLine =>
          mode = "start" /\ pc \notin {"clear", "paused"} /\ pushed = Len(Score)
    /\ \A i \in DOMAIN queue : queue[i].time = Score[queue[i].id].time
    /\ Boundary(Taken)
    /\ have => /\ Boundary(Taken - Len(data))
               /\ \A i \in DOMAIN data : data[i].time = Score[data[i].id].time
               /\ \A i, j \in DOMAIN data : data[i].time = data[j].time

\* The score is in the order of time.
LEMMA ScoreFacts ==
    /\ Len(Score) = 13 /\ DOMAIN Score = 1..13 /\ StartLine = 14 /\ LoopLine = 15
    /\ \A i \in 1..13 : Score[i].time \in Nat
    /\ \A i, j \in 1..13 : i <= j => Score[i].time <= Score[j].time
<1>1. Len(Score) = 13 /\ DOMAIN Score = 1..13
  BY DEF Score
<1>2. /\ Score[1].time = 0 /\ Score[2].time = 0 /\ Score[3].time = 6 /\ Score[4].time = 8
      /\ Score[5].time = 14 /\ Score[6].time = 14 /\ Score[7].time = 18
      /\ Score[8].time = 22 /\ Score[9].time = 22 /\ Score[10].time = 22
      /\ Score[11].time = 28 /\ Score[12].time = 28 /\ Score[13].time = 28
  BY DEF Score, Note
<1> HIDE DEF Score
<1>3. \A i \in 1..13 : Score[i].time \in Nat
  BY <1>2
<1>4. \A i, j \in 1..13 : i <= j => Score[i].time <= Score[j].time
  BY <1>2
<1>5. QED
  BY <1>1, <1>3, <1>4 DEF StartLine, LoopLine

\* The program's steps are steps of the loop, its client and the robot.
LEMMA PianoStepIsNext == PianoInv /\ [PianoNext]_pianoVars => [Next]_vars
<1> SUFFICES ASSUME PianoInv, [PianoNext]_pianoVars PROVE [Next]_vars
  OBVIOUS
<1>1. CASE QueueNote
  BY <1>1 DEF QueueNote, Next, Client
<1>2. CASE StartPlaying
  <2>1. mode = "stop" /\ SetControlMode("start")
    BY <1>2, ScoreFacts DEF StartPlaying, PianoInv
  <2>2. "start" \in Modes \ {mode}
    BY <2>1 DEF Modes
  <2>3. QED
    BY <2>1, <2>2 DEF Next, Client
<1>3. CASE Play \/ Leave \/ Robot \/ UNCHANGED pianoVars
  BY <1>3 DEF Play, Leave, Next, pianoVars
<1>4. QED
  BY <1>1, <1>2, <1>3 DEF PianoNext

\* A batch is cut from the queue where time passes.
LEMMA TakeCuts ==
    ASSUME PianoInv, QueueInv, ~have, Take, UNCHANGED <<line, mode, pushed>>,
           line > StartLine, pc' \in {"loop", "run"}
    PROVE  PianoInv'
<1>1. PICK n \in 1..Len(queue) :
         /\ IsBatch(queue, n)
         /\ data' = SubSeq(queue, 1, n) /\ queue' = SubSeq(queue, n + 1, Len(queue))
  BY DEF Take
<1>2. queue \in Seq(Command) /\ Len(queue) \in Nat /\ DOMAIN queue = 1..Len(queue) /\ pushed \in Nat
  BY DEF QueueInv, SeqsOK
<1>3. /\ Len(data') = n /\ DOMAIN data' = 1..n /\ \A i \in 1..n : data'[i] = queue[i]
      /\ Len(queue') = Len(queue) - n /\ DOMAIN queue' = 1..(Len(queue) - n)
      /\ \A i \in 1..(Len(queue) - n) : queue'[i] = queue[n + i]
  <2>1. data' \in Seq(Command) /\ Len(data') = n /\ \A i \in 1..n : data'[i] = queue[i]
    BY <1>1, <1>2
  <2>2. /\ queue' \in Seq(Command) /\ Len(queue') = Len(queue) - n
        /\ \A i \in 1..(Len(queue) - n) : queue'[i] = queue[n + i]
    BY <1>1 DEF QueueInv, SeqsOK
  <2>3. DOMAIN data' = 1..Len(data') /\ DOMAIN queue' = 1..Len(queue')
    BY <2>1, <2>2
  <2>4. QED
    BY <2>1, <2>2, <2>3
<1>4. \A i \in 1..Len(queue) :
         /\ queue[i].id = Taken + i /\ queue[i].time = Score[Taken + i].time
         /\ queue[i].time = Score[queue[i].id].time
  <2>1. \A i \in 1..Len(queue) : queue[i].id = Taken + i
    BY <1>2 DEF QueueInv, InOrder, Taken
  <2>2. \A i \in 1..Len(queue) : queue[i].time = Score[queue[i].id].time
    BY <1>2 DEF PianoInv
  <2>3. QED
    BY <2>1, <2>2
<1>5. Taken' = Taken + n /\ (Taken - Len(data))' = Taken /\ Taken \in Int
  BY <1>1, <1>2, <1>3 DEF Taken
<1>6. \A i \in 1..n : queue[i].time = queue[1].time
  BY <1>1 DEF IsBatch
<1>7. Boundary(Taken')
  <2>1. SUFFICES ASSUME Taken' \in 1..(Len(Score) - 1)
                 PROVE  Score[Taken'].time # Score[Taken' + 1].time
    BY DEF Boundary
  <2>2. pushed = 13 /\ Len(Score) = 13
    BY ScoreFacts DEF PianoInv
  <2>3. n < Len(queue)
    BY <1>1, <1>2, <1>5, <2>1, <2>2 DEF Taken
  <2>4. queue[n + 1].time # queue[n].time
    BY <1>1, <1>2, <1>6, <2>3 DEF IsBatch
  <2>5. n \in 1..Len(queue) /\ n + 1 \in 1..Len(queue) /\ Taken + (n + 1) = Taken' + 1
    BY <1>1, <1>2, <1>5, <2>3
  <2>6. queue[n].time = Score[Taken'].time /\ queue[n + 1].time = Score[Taken' + 1].time
    BY <1>4, <1>5, <2>5
  <2>7. QED
    BY <2>4, <2>6
<1>8. ASSUME NEW i \in DOMAIN queue' PROVE queue'[i].time = Score[queue'[i].id].time
  <2>1. i \in 1..(Len(queue) - n) /\ queue'[i] = queue[n + i]
    BY <1>3, <1>8
  <2>2. n + i \in 1..Len(queue)
    <3>1. Len(queue) \in Int /\ n \in Int /\ i \in Int /\ n >= 1 /\ i >= 1 /\ i <= Len(queue) - n
      BY <1>2, <2>1
    <3>2. n + i \in Int /\ n + i >= 1 /\ n + i <= Len(queue)
      BY <3>1
    <3>3. QED
      BY <3>1, <3>2
  <2>3. QED
    BY <1>4, <2>1, <2>2
<1>9. /\ \A i \in DOMAIN data' : data'[i].time = Score[data'[i].id].time
      /\ \A i, j \in DOMAIN data' : data'[i].time = data'[j].time
  <2>1. \A i \in 1..n : i \in 1..Len(queue) /\ data'[i] = queue[i]
    BY <1>1, <1>2, <1>3
  <2>2. DOMAIN data' = 1..n
    BY <1>3
  <2>3. QED
    BY <1>4, <1>6, <2>1, <2>2
<1>10. Boundary((Taken - Len(data))')
  BY <1>5 DEF PianoInv
<1>11. Boundary(Taken)' /\ Boundary(Taken - Len(data))'
  BY <1>7, <1>10 DEF Boundary
<1>12. /\ line' = line /\ mode' = "start" /\ pushed' = Len(Score) /\ line > StartLine
       /\ pc' \notin {"clear", "paused"} /\ line \in 1..LoopLine + 1 /\ ~(line' <= StartLine)
  BY ScoreFacts DEF PianoInv
<1>13. QED
  BY <1>8, <1>9, <1>11, <1>12 DEF PianoInv

LEMMA PianoStep == PianoInv /\ QueueInv /\ [PianoNext]_pianoVars => PianoInv'
<1> SUFFICES ASSUME PianoInv, QueueInv, [PianoNext]_pianoVars PROVE PianoInv'
  OBVIOUS
<1> USE DEF Goto, robotVars
<1>0. /\ queue \in Seq(Command) /\ Len(queue) \in Nat /\ pushed \in Nat
      /\ DOMAIN queue = 1..Len(queue) /\ line \in 1..16 /\ line \in Int
  BY ScoreFacts DEF QueueInv, SeqsOK, PianoInv
<1>1. CASE QueueNote
  <2>1. /\ line \in 1..13 /\ Push /\ line' = line + 1 /\ StartLine = 14
        /\ LET c == queue'[Len(queue')] IN Note(c.time, c.type) = Score[line]
    BY <1>1, ScoreFacts DEF QueueNote
  <2>2. /\ Len(queue') = Len(queue) + 1 /\ pushed' = pushed + 1 /\ queue' \in Seq(Command)
        /\ \A i \in 1..Len(queue) : queue'[i] = queue[i]
        /\ queue'[Len(queue) + 1].id = pushed'
    BY <2>1, PushAppends DEF QueueInv, SeqsOK
  <2>3. UNCHANGED <<mode, pc, have, data>>
    BY <2>1 DEF Push
  <2>4. mode = "stop" /\ pc = "wait" /\ ~have /\ pushed = line - 1 /\ Len(queue) = pushed
    BY <2>1, ScoreFacts DEF PianoInv
  <2>5. queue'[Len(queue')].time = Score[line].time
    BY <2>1 DEF Note
  <2>6. ASSUME NEW i \in DOMAIN queue' PROVE queue'[i].time = Score[queue'[i].id].time
    <3>1. i \in 1..(Len(queue) + 1)
      BY <2>2, <2>6
    <3>2. CASE i \in 1..Len(queue)
      BY <1>0, <2>2, <3>2 DEF PianoInv
    <3>3. CASE i = Len(queue) + 1
      BY <1>0, <2>2, <2>4, <2>5, <3>3
    <3>4. QED
      BY <1>0, <3>1, <3>2, <3>3
  <2>7. Taken' = 0
    BY <1>0, <2>2, <2>4 DEF Taken
  <2>8. Boundary(Taken)'
    BY <2>7 DEF Boundary
  <2>9. /\ line' \in 1..LoopLine + 1 /\ line' <= StartLine
        /\ pushed' = line' - 1 /\ Len(queue') = pushed'
    <3>1. StartLine = 14 /\ LoopLine = 15
      BY ScoreFacts
    <3>2. QED
      BY <1>0, <2>1, <2>2, <2>4, <3>1
  <2>10. ~(line' > StartLine)
    BY <1>0, <2>1
  <2>11. QED
    BY <2>3, <2>4, <2>6, <2>8, <2>9, <2>10 DEF PianoInv
<1>2. CASE StartPlaying
  <2>1. /\ line = 14 /\ line' = 15 /\ mode' = "start" /\ StartLine = 14 /\ LoopLine = 15
        /\ UNCHANGED <<queue, pushed, pc, data, have>>
    BY <1>2, ScoreFacts DEF StartPlaying, SetControlMode
  <2>2. pc = "wait" /\ ~have /\ pushed = 13 /\ Len(Score) = 13
    BY <2>1, ScoreFacts DEF PianoInv
  <2>3. QED
    BY <2>1, <2>2 DEF PianoInv, Boundary, Taken
<1>3. CASE Play
  <2>1. line = 15 /\ line' = line /\ Loop /\ StartLine = 14 /\ LoopLine = 15
    BY <1>3, ScoreFacts DEF Play
  <2>2. mode = "start" /\ pc \notin {"clear", "paused"} /\ pushed = Len(Score)
    BY <2>1 DEF PianoInv
  <2>3. CASE First \/ (Fetch /\ Take)
    <3>1. Take /\ ~have /\ UNCHANGED <<line, mode, pushed>> /\ pc' \in {"loop", "run"}
      BY <2>1, <2>3 DEF First, Fetch, QueueInv, BatchInv, Take
    <3>2. line > StartLine
      BY <2>1
    <3>3. QED
      BY <3>1, <3>2, TakeCuts
  <2>4. CASE Move
    BY <2>1, <2>2, <2>4 DEF Move, PianoInv, Boundary, Taken
  <2>5. CASE WaitStart \/ WaitMoveOk \/ Cycle \/ (Fetch /\ queue = <<>>) \/ NotYet \/ CheckStop
             \/ CheckPause
    <3>1. UNCHANGED <<queue, data, have, pushed, mode>>
      BY <2>5 DEF WaitStart, WaitMoveOk, Cycle, NotYet, CheckStop, CheckPause, Fetch, Take
    <3>2. pc' \notin {"clear", "paused"}
      BY <2>2, <2>5 DEF WaitStart, WaitMoveOk, Cycle, NotYet, CheckStop, CheckPause, Fetch, Take
    <3>3. QED
      BY <2>1, <2>2, <3>1, <3>2 DEF PianoInv, Boundary, Taken
  <2>6. ~Clear /\ ~Paused
    BY <2>2 DEF Clear, Paused
  <2>7. QED
    BY <2>1, <2>3, <2>4, <2>5, <2>6 DEF Loop, Fetch
<1>4. CASE Leave
  <2>1. line = 15 /\ line' = 16 /\ UNCHANGED vars /\ StartLine = 14 /\ LoopLine = 15
    BY <1>4, ScoreFacts DEF Leave
  <2>2. QED
    BY <2>1 DEF PianoInv, Boundary, Taken, vars
<1>5. CASE (Robot /\ UNCHANGED line) \/ UNCHANGED pianoVars
  <2>1. UNCHANGED <<line, mode, queue, pushed, pc, data, have>>
    BY <1>5 DEF Robot, Fault, MoveEnds, pianoVars, vars
  <2>2. QED
    BY <2>1 DEF PianoInv, Boundary, Taken
<1>6. QED
  BY <1>1, <1>2, <1>3, <1>4, <1>5 DEF PianoNext

LEMMA PianoInvInit == PianoInit => PianoInv
<1> SUFFICES ASSUME PianoInit PROVE PianoInv
  OBVIOUS
<1>1. line = 1 /\ mode = "stop" /\ queue = <<>> /\ pushed = 0 /\ pc = "wait" /\ ~have
  BY DEF PianoInit, Init
<1>2. Len(queue) = 0 /\ DOMAIN queue = {} /\ Taken = 0
  <2>1. Len(queue) = 0 /\ DOMAIN queue = {} /\ pushed = 0
    BY <1>1
  <2>2. Taken = 0
    BY <2>1 DEF Taken
  <2>3. QED
    BY <2>1, <2>2
<1>3. Boundary(Taken)
  BY <1>2 DEF Boundary
<1>4. 1 \in 1..LoopLine + 1 /\ ~(1 > StartLine)
  BY ScoreFacts
<1>5. QED
  BY <1>1, <1>2, <1>3, <1>4 DEF PianoInv

\* What stands at one moment of the score is in one batch.
LEMMA BatchIsWhole == PianoInv /\ QueueInv => PlayedTogether
<1> SUFFICES ASSUME PianoInv, QueueInv, have, NEW i \in DOMAIN Score, NEW j \in DOMAIN Score,
                    NEW k \in DOMAIN data, data[k].id = i, Score[i].time = Score[j].time
             PROVE  \E m \in DOMAIN data : data[m].id = j
  BY DEF PlayedTogether
<1> DEFINE a == Taken - Len(data)
           t == Score[i].time
<1>1. /\ queue \in Seq(Command) /\ data \in Seq(Command) /\ Len(queue) \in Nat
      /\ Len(data) \in Nat \ {0} /\ DOMAIN data = 1..Len(data) /\ pushed \in Nat /\ done \in Nat
  BY DEF QueueInv, SeqsOK, BatchInv
<1>2. i \in 1..13 /\ j \in 1..13 /\ Len(Score) = 13
  BY ScoreFacts
<1>0. /\ \A x \in 1..13 : Score[x].time \in Nat
      /\ \A x, y \in 1..13 : x <= y => Score[x].time <= Score[y].time
  BY ScoreFacts
<1>3. line > StartLine /\ pushed = 13
  BY <1>2, ScoreFacts DEF PianoInv
<1>4. \A m \in 1..Len(data) : data[m].id = a + m /\ Score[a + m].time = t
  <2>1. \A m \in 1..Len(data) : data[m].id = a + m
    BY <1>1 DEF QueueInv, InOrder, Taken
  <2>2. \A m \in 1..Len(data) : Score[a + m].time = data[k].time
    BY <1>1, <2>1 DEF PianoInv
  <2>3. data[k].time = t
    BY <1>1 DEF PianoInv
  <2>4. QED
    BY <2>1, <2>2, <2>3
<1>5. a \in Int /\ a >= 0 /\ a + Len(data) <= 13 /\ Taken = a + Len(data)
  BY <1>1, <1>3 DEF QueueInv, InOrder, Taken
<1>6. Boundary(a) /\ Boundary(a + Len(data))
  BY <1>5 DEF PianoInv
<1> HIDE DEF a
<1>11. /\ a \in Int /\ a >= 0 /\ Len(data) \in Int /\ Len(data) >= 1 /\ a + Len(data) <= 13
       /\ j \in Int /\ j >= 1 /\ j <= 13
  BY <1>1, <1>2, <1>5
<1>7. j > a
  <2>1. SUFFICES ASSUME j <= a PROVE FALSE
    BY <1>11
  <2>2. a \in 1..12 /\ a \in 1..13 /\ a + 1 \in 1..13
    BY <1>11, <2>1
  <2>3. Score[a + 1].time = t
    BY <1>1, <1>4
  <2>4. Score[a].time # t
    BY <1>2, <1>6, <2>2, <2>3 DEF Boundary
  <2>5. Score[j].time <= Score[a].time
    BY <1>0, <1>2, <2>1, <2>2
  <2>6. Score[a].time <= Score[a + 1].time
    <3>1. a <= a + 1
      BY <1>5
    <3>2. QED
      BY <1>0, <2>2, <3>1
  <2>7. Score[j].time = t /\ Score[j].time \in Nat /\ Score[a].time \in Nat
    BY <1>0, <1>2, <2>2
  <2> HIDE DEF t
  <2>8. QED
    BY <2>3, <2>4, <2>5, <2>6, <2>7
<1>8. j <= a + Len(data)
  <2> DEFINE b == a + Len(data)
  <2>1. SUFFICES ASSUME j > b PROVE FALSE
    BY <1>11
  <2>2. b \in 1..12 /\ b \in 1..13 /\ b + 1 \in 1..13 /\ b + 1 <= j
    BY <1>11, <2>1
  <2>3. Score[b].time = t
    BY <1>1, <1>4
  <2> HIDE DEF b
  <2>4. Score[b + 1].time # t
    BY <1>2, <1>6, <2>2, <2>3 DEF Boundary, b
  <2>5. Score[b].time <= Score[b + 1].time
    <3>1. b <= b + 1
      BY <2>2
    <3>2. QED
      BY <1>0, <2>2, <3>1
  <2>6. Score[b + 1].time <= Score[j].time
    BY <1>0, <1>2, <2>2
  <2>7. Score[j].time = t /\ Score[b + 1].time \in Nat /\ Score[b].time \in Nat
    BY <1>0, <1>2, <2>2
  <2> HIDE DEF t
  <2>8. QED
    BY <2>3, <2>4, <2>5, <2>6, <2>7
<1>9. j - a \in 1..Len(data) /\ a + (j - a) = j
  BY <1>7, <1>8, <1>11
<1>10. QED
  BY <1>1, <1>4, <1>9

LEMMA PianoInvariance == PianoSpec => []PianoInv /\ []QueueInv
<1>1. PianoInit => PianoInv /\ QueueInv
  BY PianoInvInit, QueueInit DEF PianoInit
<1>2. PianoInv /\ QueueInv /\ [PianoNext]_pianoVars => PianoInv' /\ QueueInv'
  BY PianoStep, PianoStepIsNext, QueueStep
<1>3. QED
  BY <1>1, <1>2, PTL DEF PianoSpec

\* The piano program is one of the clients the control loop's theorems speak of.
THEOREM PianoIsAClient == PianoSpec => Spec
<1>1. PianoInit => Init
  BY DEF PianoInit
<1>2. QED
  BY <1>1, PianoInvariance, PianoStepIsNext, PTL DEF PianoSpec, Spec

\* The commands written for one moment of the score are never torn apart.
THEOREM ScoreTogether == PianoSpec => [](PianoTypeOK /\ PlayedTogether)
<1>1. PianoInv => line \in 1..LoopLine + 1
  BY DEF PianoInv
<1>2. PianoSpec => []TypeOK
  BY PianoIsAClient, TypeCorrect
<1>3. QED
  BY <1>1, <1>2, BatchIsWhole, PianoInvariance, PTL DEF PianoTypeOK

=============================================================================
