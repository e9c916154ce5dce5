--------------------------- MODULE EndEffectorTest ---------------------------
(***************************************************************************)
(* The end effector server of src/src/JEEndEffectorTest.cpp: the receiving *)
(* and publishing half of JEServer without a robot, in one thread.  The    *)
(* subscriber conflates: its mailbox keeps the newest message only, if the *)
(* option is set before the connection is made.  recv gives up after       *)
(* rcvtimeo, so that the state is published on a silent link too.          *)
(*                                                                         *)
(* The slots are external (EndEffectorManager, PiperSlot, DhSlot): here a  *)
(* slot is what was last dispatched to it.                                 *)
(***************************************************************************)
EXTENDS Integers, Sequences

CONSTANTS Robots,       \* one slot each
          Values,       \* joint vectors and tool positions
          MaxMessages   \* bound: messages that arrive

VARIABLES
    pc,                 \* the main thread
    conflate,           \* the option, as set on the socket
    conflating,         \* the option, as the connection has it
    pipe, arrived,      \* the mailbox, messages that arrived (external)
    newest,             \* the last of them (history)
    joint, tool,        \* robot_states[i].joint, the slot's last target
    due,                \* now >= next_publish
    reported,           \* the state last published
    g_stop

linkVars == <<conflate, conflating>>
mailVars == <<pipe, arrived, newest>>
stateVars == <<joint, tool>>
vars == <<pc, linkVars, mailVars, stateVars, due, reported, g_stop>>

\* What a field of a message holds: 0 when it is missing or not valid
Field == Values \cup {0}
Messages ==
    [topic: {"Joint", "Gripper"}, joint: [Robots -> Field], tool: [Robots -> Field]]
        \cup {[topic |-> "garbage"]}    \* no topic the server knows, or no JSON

TypeOK ==
    /\ pc \in {"option", "connect", "test", "recv", "publish", "exited", "aborted"}
    /\ conflate \in BOOLEAN /\ conflating \in BOOLEAN
    /\ pipe \in Seq(Messages) /\ arrived \in 0..MaxMessages /\ newest \in Messages
    /\ joint \in [Robots -> Field] /\ tool \in [Robots -> Field]
    /\ reported \in [joint: [Robots -> Field], tool: [Robots -> Field]]
    /\ due \in BOOLEAN /\ g_stop \in BOOLEAN

Init ==
    /\ pc = "option" /\ conflate = FALSE /\ conflating = FALSE
    /\ pipe = <<>> /\ arrived = 0 /\ newest = [topic |-> "garbage"]
    /\ joint = [r \in Robots |-> 0] /\ tool = [r \in Robots |-> 0]
    /\ due = TRUE /\ reported = [joint |-> joint, tool |-> tool] /\ g_stop = FALSE

-----------------------------------------------------------------------------
(* The main thread. *)

SetConflate ==
    /\ pc = "option" /\ pc' = "connect"
    /\ conflate' = TRUE
    /\ UNCHANGED <<conflating, mailVars, stateVars, due, reported, g_stop>>

Connect ==
    /\ pc = "connect" /\ pc' = "test"
    /\ conflating' = conflate
    /\ UNCHANGED <<conflate, mailVars, stateVars, due, reported, g_stop>>

\* while (!g_stop)
TestStop ==
    /\ pc = "test" /\ pc' = IF g_stop THEN "exited" ELSE "recv"
    /\ UNCHANGED <<linkVars, mailVars, stateVars, due, reported, g_stop>>

\* The tool command for robot r is dispatched: a Joint message hands it over with the
\* joints or without, a Gripper message alone
Taken(m, r) == m.topic # "garbage" /\ m.tool[r] # 0

\* Receive and dispatch one message, robot by robot
Receive ==
    /\ pc = "recv" /\ pipe # <<>>
    /\ pc' = "publish" /\ pipe' = Tail(pipe)
    /\ LET m == Head(pipe) IN
       /\ joint' = [r \in Robots |-> IF m.topic = "Joint" /\ m.joint[r] # 0
                                     THEN m.joint[r] ELSE joint[r]]
       /\ tool' = [r \in Robots |-> IF Taken(m, r) THEN m.tool[r] ELSE tool[r]]
    /\ UNCHANGED <<linkVars, arrived, newest, due, reported, g_stop>>

ReceiveTimeout ==
    /\ pc = "recv" /\ pipe = <<>> /\ pc' = "publish"
    /\ UNCHANGED <<linkVars, mailVars, stateVars, due, reported, g_stop>>

\* build_state_json and send, every publish_period_ms
Publish ==
    /\ pc = "publish" /\ pc' = "test"
    /\ IF due
       THEN reported' = [joint |-> joint, tool |-> tool] /\ due' = FALSE
       ELSE UNCHANGED <<reported, due>>
    /\ UNCHANGED <<linkVars, mailVars, stateVars, g_stop>>

Main == SetConflate \/ Connect \/ TestStop \/ Receive \/ ReceiveTimeout \/ Publish

-----------------------------------------------------------------------------
(* The link, the clock and the user. *)

\* A conflating pipe keeps the newest message in place of the one it held
Arrive ==
    /\ pc \notin {"option", "connect", "exited", "aborted"} /\ arrived < MaxMessages
    /\ \E m \in Messages :
          /\ pipe' = IF conflating THEN <<m>> ELSE Append(pipe, m)
          /\ newest' = m
    /\ arrived' = arrived + 1
    /\ UNCHANGED <<pc, linkVars, stateVars, due, reported, g_stop>>

PeriodEnds ==
    /\ ~due /\ due' = TRUE
    /\ UNCHANGED <<pc, linkVars, mailVars, stateVars, reported, g_stop>>

\* on_signal.  A recv that waits is interrupted (EINTR), and the exception of the
\* library is caught nowhere
Signal ==
    /\ ~g_stop /\ pc \notin {"option", "connect", "exited", "aborted"}
    /\ g_stop' = TRUE
    /\ \/ UNCHANGED pc
       \/ pc = "recv" /\ pipe = <<>> /\ pc' = "aborted"
    /\ UNCHANGED <<linkVars, mailVars, stateVars, due, reported>>

Next == Main \/ Arrive \/ PeriodEnds \/ Signal

\* The thread is scheduled and time goes on; the sender and the user owe nothing
Fair == WF_vars(Main) /\ WF_vars(PeriodEnds)

Spec == Init /\ [][Next]_vars /\ Fair

-----------------------------------------------------------------------------
(* Properties *)

\* The order of the options: the mailbox never holds more than the newest message.
OnlyNewest == Len(pipe) <= 1

\* Whatever was replaced on the way, a server with an empty mailbox has obeyed the newest
\* message in full: every robot's joints and every tool command, also that of a robot
\* which was sent nothing else.
NewestObeyed ==
    pc \in {"test", "publish", "recv"} /\ pipe = <<>> /\ newest.topic # "garbage" =>
        \A r \in Robots :
           /\ newest.topic = "Joint" /\ newest.joint[r] # 0 => joint[r] = newest.joint[r]
           /\ newest.tool[r] # 0 => tool[r] = newest.tool[r]

\* The published state catches up with what the server holds, also when nothing arrives
\* any more, as long as it is not stopped.
ReportsCatchUp == [](~g_stop) => []<>(reported = [joint |-> joint, tool |-> tool])

\* A signal ends the program, on a silent link too (by the loop's test, or by the exception
\* of an interrupted recv).
SignalEnds == g_stop ~> pc \in {"exited", "aborted"}

=============================================================================
