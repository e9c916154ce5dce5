----------------------------- MODULE LoopControl -----------------------------
(***************************************************************************)
(* RobotControl::LoopControl and its MessageServer                         *)
(* (src/src/robot_control.cpp): a client thread queues timed commands and  *)
(* sets the control mode, the control loop pops batches of equal time and  *)
(* starts them on the axis groups of the robot.  The mutex of the server   *)
(* makes each of its calls atomic; everything in between interleaves.      *)
(*                                                                         *)
(* The robot itself is external (HYYRobotBase): a MultiMove call is        *)
(* accepted or refused, an accepted one waits for MoveSyncStart, and gives *)
(* up waiting after the time set by setMoveThread1.                        *)
(***************************************************************************)
EXTENDS Integers, Sequences, FiniteSets

CONSTANTS Types,       \* command types the client uses
          Times,       \* values of time_ns, in control cycles
          MaxPush,     \* bound: commands the client queues
          MaxTime      \* bound: time_ is not counted beyond this

CommandType == {"arm_left", "arm_right", "arm_both_l", "arm_both_j", "foot", "head",
                "waist", "robot_l", "robot_j", "unknown"}

ASSUME TypesAssumption == Types \subseteq CommandType
ASSUME TimesAssumption == MaxTime \in Nat /\ Times \subseteq 0..MaxTime
ASSUME PushAssumption == MaxPush \in Nat

VARIABLES
    mode, queue,         \* control_mode_, server_data_
    pushed,              \* commands queued so far; the next one's number
    pc,                  \* where the control loop is
    data, have,          \* the batch, and ~is_get_data
    time,                \* time_
    axis,                \* state of each axis group (external)
    ok,                  \* robot_ok (external)
    late,                \* batches moved under the latest stop or pause (history)
    stopped,             \* a stop was set that the loop has not obeyed yet (history)
    done                 \* number of the last command of the last batch (history)

robotVars == <<axis, ok>>
vars == <<mode, queue, pushed, pc, data, have, time, axis, ok, late, stopped, done>>

Groups == {"left", "right", "foot", "head", "waist"}
Modes == {"start", "stop", "pause", "continue"}
Command == [id: 1..MaxPush, time: Times, type: Types]

TypeOK ==
    /\ mode \in Modes
    /\ queue \in Seq(Command) /\ data \in Seq(Command)
    /\ pushed \in 0..MaxPush /\ done \in 0..MaxPush
    /\ pc \in {"wait", "wait_ok", "first", "loop", "fetch", "run", "check_stop",
               "clear", "check_pause", "paused", "end"}
    /\ have \in BOOLEAN /\ ok \in BOOLEAN
    /\ time \in 0..MaxTime
    /\ axis \in [Groups -> {"idle", "armed", "moving"}]
    /\ late \in Nat /\ stopped \in BOOLEAN

\* StartControl leaves the mode at _stop
Init ==
    /\ mode = "stop" /\ queue = <<>> /\ pushed = 0
    /\ pc = "wait" /\ data = <<>> /\ have = FALSE /\ time = 0
    /\ axis = [g \in Groups |-> "idle"] /\ ok = TRUE
    /\ late = 0 /\ stopped = FALSE /\ done = 0

-----------------------------------------------------------------------------
(* What a command asks of the robot. *)

\* The MultiMove calls of a command, in order; the result of a call that is not
\* `checked` is overwritten by the next call's
Call(group, checked) == [group |-> group, checked |-> checked]
Calls(type) ==
    LET rest == <<Call("foot", TRUE), Call("head", TRUE), Call("waist", TRUE)>>
        both(leftChecked) == <<Call("left", leftChecked), Call("right", TRUE)>>
    IN  CASE type = "arm_left"   -> <<Call("left", TRUE)>>
          [] type = "arm_right"  -> <<Call("right", TRUE)>>
          [] type = "arm_both_l" -> both(TRUE)
          [] type = "arm_both_j" -> both(FALSE)
          [] type = "robot_l"    -> both(TRUE) \o rest
          [] type = "robot_j"    -> both(FALSE) \o rest
          [] OTHER               -> <<Call(type, TRUE)>>

GroupsOf(batch) ==
    UNION {{Calls(batch[i].type)[j].group : j \in DOMAIN Calls(batch[i].type)} :
               i \in DOMAIN batch}

\* All (command, call) positions of a batch, and their order of execution
Positions(batch) ==
    UNION {{i} \X DOMAIN Calls(batch[i].type) : i \in DOMAIN batch}
Before(p, q) == p[1] < q[1] \/ (p[1] = q[1] /\ p[2] < q[2])
CallAt(batch, p) == Calls(batch[p[1]].type)[p[2]]

\* GetMessageData takes the n commands in front that share the first one's time
IsBatch(q, n) ==
    /\ \A i \in 1..n : q[i].time = q[1].time
    /\ n < Len(q) => q[n + 1].time # q[1].time

-----------------------------------------------------------------------------
(* The client. *)

\* SetMessageData
Push ==
    /\ pushed < MaxPush
    /\ \E ty \in Types, ti \in Times :
          queue' = Append(queue, [id |-> pushed + 1, time |-> ti, type |-> ty])
    /\ pushed' = pushed + 1
    /\ UNCHANGED <<mode, pc, data, have, time, robotVars, late, stopped, done>>

SetControlMode(m) ==
    /\ mode' = m
    /\ late' = 0
    /\ stopped' = (stopped \/ m = "stop")
    /\ UNCHANGED <<queue, pushed, pc, data, have, time, robotVars, done>>

Client == Push \/ \E m \in Modes \ {mode} : SetControlMode(m)

-----------------------------------------------------------------------------
(* The robot: moves end, armed moves give up, a fault is final. *)

MoveEnds(g) ==
    /\ axis[g] # "idle"
    /\ axis' = [axis EXCEPT ![g] = "idle"]
    /\ UNCHANGED <<mode, queue, pushed, pc, data, have, time, ok, late, stopped, done>>

Fault ==
    /\ ok /\ ok' = FALSE
    /\ UNCHANGED <<mode, queue, pushed, pc, data, have, time, axis, late, stopped, done>>

RobotMoveOk == ok /\ \A g \in Groups : axis[g] # "moving"

Robot == Fault \/ \E g \in Groups : MoveEnds(g)

-----------------------------------------------------------------------------
(* The control loop. *)

Goto(from, to) == pc = from /\ pc' = to

\* Mutant: the loop starts without a command in the queue
WaitStartEmpty ==
    /\ Goto("wait", "wait_ok")
    /\ mode = "start"
    /\ UNCHANGED <<mode, queue, pushed, data, have, time, robotVars, late, stopped, done>>

\* HasMessageData, GetControlMode and robot_move_ok are read one after another
WaitStart ==
    /\ Goto("wait", "wait_ok")
    /\ queue # <<>> /\ mode = "start"
    /\ UNCHANGED <<mode, queue, pushed, data, have, time, robotVars, late, stopped, done>>

WaitMoveOk ==
    /\ pc = "wait_ok"
    /\ pc' = IF RobotMoveOk THEN "first" ELSE "wait"
    /\ UNCHANGED <<mode, queue, pushed, data, have, time, robotVars, late, stopped, done>>

\* Mutant: the command that ends the batch is popped with it
TakeOneMore ==
    /\ \E n \in 1..Len(queue) :
          /\ IsBatch(queue, n)
          /\ data' = SubSeq(queue, 1, n)
          /\ queue' = SubSeq(queue, n + 2, Len(queue))
    /\ have' = TRUE

\* Mutant: a batch is one command
TakeFirst ==
    /\ queue # <<>>
    /\ data' = <<queue[1]>> /\ queue' = Tail(queue)
    /\ have' = TRUE

Take ==
    /\ \E n \in 1..Len(queue) :
          /\ IsBatch(queue, n)
          /\ data' = SubSeq(queue, 1, n)
          /\ queue' = SubSeq(queue, n + 1, Len(queue))
    /\ have' = TRUE

\* Mutant: the clock starts one cycle after the first batch
FirstOneLate ==
    /\ Goto("first", "loop")
    /\ Take
    /\ time' = data'[1].time + 1
    /\ UNCHANGED <<mode, pushed, robotVars, late, stopped, done>>

\* The clock of the loop starts at the time of the first batch
First ==
    /\ Goto("first", "loop")
    /\ Take
    /\ time' = data'[1].time
    /\ UNCHANGED <<mode, pushed, robotVars, late, stopped, done>>

Cycle ==
    /\ pc = "loop"
    /\ \/ ~ok /\ pc' = "end" /\ UNCHANGED time
       \/ /\ ok
          /\ time' = IF time < MaxTime THEN time + 1 ELSE time
          /\ pc' = IF have THEN "run" ELSE "fetch"
    /\ UNCHANGED <<mode, queue, pushed, data, have, robotVars, late, stopped, done>>

\* An empty queue skips the rest of the cycle, mode checks included
Fetch ==
    /\ pc = "fetch"
    /\ \/ queue = <<>> /\ pc' = "loop" /\ UNCHANGED <<data, queue, have>>
       \/ queue # <<>> /\ pc' = "run" /\ Take
    /\ UNCHANGED <<mode, pushed, time, robotVars, late, stopped, done>>

\* Mutant: a batch runs only in the very cycle of its time
IsRunExactly == /\ time = data[1].time
                /\ \A i \in DOMAIN data : data[i].type # "unknown"
                /\ \A g \in GroupsOf(data) : axis[g] = "idle"

\* A batch with a command of unknown type never runs
IsRun == /\ time >= data[1].time
         /\ \A i \in DOMAIN data : data[i].type # "unknown"
         /\ \A g \in GroupsOf(data) : axis[g] = "idle"

NotYet ==
    /\ Goto("run", "check_stop")
    /\ ~IsRun
    /\ UNCHANGED <<mode, queue, pushed, data, have, time, robotVars, late, stopped, done>>

\* move: issue the calls until a checked one is refused; MoveSyncStart only if none
\* was.  `refused` holds the positions the robot does not accept.
Move ==
    /\ Goto("run", "check_stop")
    /\ IsRun
    /\ \E refused \in SUBSET Positions(data) :
          LET failing == {p \in refused : CallAt(data, p).checked}
              issued  == {p \in Positions(data) : ~\E f \in failing : Before(f, p)}
              armed   == {CallAt(data, p).group : p \in issued \ refused}
              axis1   == [g \in Groups |-> IF g \in armed THEN "armed" ELSE axis[g]]
          IN  axis' = IF failing # {} THEN axis1
                      ELSE [g \in Groups |->
                               IF axis1[g] = "armed" THEN "moving" ELSE axis1[g]]
    /\ have' = FALSE
    /\ late' = IF mode \in {"stop", "pause"} THEN late + 1 ELSE late
    /\ done' = data[Len(data)].id
    /\ UNCHANGED <<mode, queue, pushed, data, time, ok, stopped>>

CheckStop ==
    /\ pc = "check_stop"
    /\ pc' = IF mode = "stop" THEN "clear" ELSE "check_pause"
    /\ UNCHANGED <<mode, queue, pushed, data, have, time, robotVars, late, stopped, done>>

\* Mutant: the batch at hand survives the restart
ClearQueueOnly ==
    /\ Goto("clear", "wait")
    /\ queue' = <<>> /\ stopped' = FALSE
    /\ UNCHANGED <<mode, pushed, data, have, time, robotVars, late, done>>

\* Mutant: the loop goes on without waiting for a new start
ClearAndLoop ==
    /\ Goto("clear", "loop")
    /\ queue' = <<>> /\ data' = <<>> /\ have' = FALSE /\ stopped' = FALSE
    /\ UNCHANGED <<mode, pushed, time, robotVars, late, done>>

\* ClearMessageData and goto RESTART: the batch at hand goes out of scope
Clear ==
    /\ Goto("clear", "wait")
    /\ queue' = <<>> /\ data' = <<>> /\ have' = FALSE /\ stopped' = FALSE
    /\ UNCHANGED <<mode, pushed, time, robotVars, late, done>>

\* Mutant: pause is not looked at
CheckPauseSkipped ==
    /\ Goto("check_pause", "loop")
    /\ UNCHANGED <<mode, queue, pushed, data, have, time, robotVars, late, stopped, done>>

CheckPause ==
    /\ pc = "check_pause"
    /\ pc' = IF mode = "pause" THEN "paused" ELSE "loop"
    /\ UNCHANGED <<mode, queue, pushed, data, have, time, robotVars, late, stopped, done>>

\* Mutant: a paused loop does not look at robot_ok
PausedIgnoresFault ==
    /\ pc = "paused"
    /\ \/ mode = "continue" /\ pc' = "loop"
       \/ mode = "stop" /\ pc' = "clear"
    /\ UNCHANGED <<mode, queue, pushed, data, have, time, robotVars, late, stopped, done>>

\* A paused loop does not react to _start
Paused ==
    /\ pc = "paused"
    /\ \/ (~ok \/ mode = "continue") /\ pc' = "loop"
       \/ ok /\ mode = "stop" /\ pc' = "clear"
    /\ UNCHANGED <<mode, queue, pushed, data, have, time, robotVars, late, stopped, done>>

Loop == \/ WaitStart \/ WaitMoveOk \/ First \/ Cycle \/ Fetch \/ NotYet \/ Move
        \/ CheckStop \/ Clear \/ CheckPause \/ Paused

Next == Loop \/ Client \/ Robot

Spec == Init /\ [][Next]_vars

\* The control loop is scheduled and every motion ends; the client owes nothing
Fair == WF_vars(Loop) /\ \A g \in Groups : WF_vars(MoveEnds(g))

FairSpec == Spec /\ Fair

-----------------------------------------------------------------------------
(* Properties *)

\* Once the client has set stop or pause, at most one more batch is moved before the
\* loop obeys or the client sets another mode, however long ago the loop last looked
\* at the mode: the checks skipped while the queue is empty cost one batch, never two.
AtMostOneLateBatch == late <= 1

\* data[0] is read only from a batch that has a command in it: between the unlocked
\* HasMessageData and GetMessageData nobody can empty the queue.
BatchNeverEmpty ==
    /\ pc = "first" => queue # <<>>
    /\ pc = "run" => data # <<>>

\* Commands are moved in the order they were queued: the queue holds the newest
\* ones, the batch at hand the ones just before them, and the last batch moved lies
\* before both.  Nothing in between is skipped, split off or moved twice.
InOrder ==
    LET taken == pushed - Len(queue)
    IN  /\ \A i \in DOMAIN queue : queue[i].id = taken + i
        /\ have => \A i \in DOMAIN data : data[i].id = taken - Len(data) + i
        /\ done <= IF have THEN taken - Len(data) ELSE taken

\* The loop obeys a stop once: it clears the queue only for a stop that was set since it
\* last did, so what is queued after a stop was obeyed is never lost to that stop.
EachStopClearsOnce == pc = "clear" => stopped

\* A batch at hand is moved once the client leaves the loop running: its groups come
\* to rest and its time comes. Only a command of unknown type holds it up for good.
BatchIsMoved ==
    <>[](mode = "start" /\ ok)
        => []<>(\/ ~have \/ pc \in {"wait", "paused"}
                \/ \E i \in DOMAIN data : data[i].type = "unknown")

\* Stop settles: if the client leaves the mode at stop, the loop ends up holding no
\* batch, whatever is still queued (or has ended on a fault): stop gets the loop past a
\* batch that can never run.
StopSettles == <>[](mode = "stop") => <>[](~have \/ pc = "end")

\* A fault ends the loop, except while it waits for a start.
FaultEndsLoop == ~ok ~> pc \in {"end", "wait"}

=============================================================================
