------------------------------- MODULE JEServer -------------------------------
(***************************************************************************)
(* The controller plugin (src/src/JEServer.cpp): PluginMain sets up the    *)
(* sockets and starts the threads, the subscriber thread obeys the         *)
(* messages of the remote client, every Switch-on starts a recorder thread *)
(* per robot, and the publisher thread reports the state of the robots.    *)
(*                                                                         *)
(* External: the ZeroMQ pipe between client and subscriber, whose conflate *)
(* option is read when the socket connects, and the robots, which are      *)
(* represented by what the server last asked of them (the results of the   *)
(* calls are ignored by the code).                                         *)
(***************************************************************************)
EXTENDS Integers, Sequences

CONSTANTS RN,            \* robot_getNUM
          Kinds,         \* message kinds the client sends
          MaxMessages,   \* bound: messages the client sends
          Hwm,           \* high-water mark of the pipe
          PollsInTime    \* TRUE: a recorder looks at is_stop within usleep(100000)

MessageKind == {"on", "off", "servo", "move", "gripper", "malformed"}

ASSUME RobotsAssumption == RN \in Nat \ {0}
ASSUME ClientAssumption == Kinds \subseteq MessageKind /\ MaxMessages \in Nat
ASSUME PipeAssumption == Hwm \in Nat \ {0}
ASSUME PollAssumption == PollsInTime \in BOOLEAN

Robots == 0..(RN - 1)
Recorders == 1..(RN * MaxMessages)
Switch == {"none", "on", "off"}

\* A message, numbered; `robots` are those it has a valid entry for, `tool` says
\* whether the entries hold an EndEffector command
Message == [id: 1..MaxMessages, kind: MessageKind, robots: SUBSET Robots, tool: BOOLEAN]

VARIABLES
    plugin,                    \* where PluginMain is
    conflate, pipe,            \* the socket option; the pipe, once connected
    mailbox, sent,             \* messages in the pipe; messages sent so far
    wantSwitch, wantTarget, wantTool,   \* what the messages that arrived ask for (history)
    pc, msg, i,                \* the subscriber thread, its msg and loop index
    asked,                     \* last power request to each robot
    target, tool,              \* last message that moved each robot, and its tool
    is_stop,
    rec,                       \* the recorder threads
    polled,                    \* recorders that have looked at is_stop since the
                               \* subscriber went to sleep
    pub, data, published       \* publisher: loop index, the JSON object, the last report

clientVars == <<mailbox, sent, wantSwitch, wantTarget, wantTool>>
setupVars  == <<plugin, conflate, pipe>>
robotVars  == <<asked, target, tool>>
recVars    == <<rec, polled>>
pubVars    == <<pub, data, published>>
vars == <<setupVars, clientVars, pc, msg, i, robotVars, is_stop, recVars, pubVars>>

NoMessage == [id |-> 0]

TypeOK ==
    /\ plugin \in {"load", "bind", "connect", "options", "subscribe", "spawn", "done", "failed"}
    /\ conflate \in BOOLEAN /\ pipe \in {"none", "queue", "latest"}
    /\ mailbox \in Seq(Message) /\ Len(mailbox) <= Hwm /\ sent \in 0..MaxMessages
    /\ wantSwitch \in Switch /\ asked \in [Robots -> Switch]
    /\ {wantTarget, wantTool, target, tool} \subseteq [Robots -> 0..MaxMessages]
    /\ pc \in {"none", "recv", "handle", "stop", "power_off", "sleep", "power_on",
               "resume", "record", "servo", "motion", "gripper", "dead"}
    /\ msg \in Message \cup {NoMessage} /\ i \in 0..RN
    /\ is_stop \in BOOLEAN
    /\ rec \in [Recorders -> {"none", "check", "save", "end"}]
    /\ polled \subseteq Recorders
    /\ pub \in 0..RN
    /\ data \in [Robots -> Switch] /\ published \in [Robots -> Switch]

Init ==
    /\ plugin = "load" /\ conflate = FALSE /\ pipe = "none"
    /\ mailbox = <<>> /\ sent = 0
    /\ wantSwitch = "none" /\ asked = [r \in Robots |-> "none"]
    /\ wantTarget = [r \in Robots |-> 0] /\ wantTool = [r \in Robots |-> 0]
    /\ target = [r \in Robots |-> 0] /\ tool = [r \in Robots |-> 0]
    /\ pc = "none" /\ msg = NoMessage /\ i = 0
    /\ is_stop = TRUE
    /\ rec = [r \in Recorders |-> "none"] /\ polled = {}
    /\ pub = 0
    /\ data = [r \in Robots |-> "none"] /\ published = [r \in Robots |-> "none"]

\* An exception in a detached thread ends the process
Alive == pc # "dead"

-----------------------------------------------------------------------------
(* PluginMain *)

Setup(from, to) ==
    /\ plugin = from /\ plugin' = to
    /\ UNCHANGED <<clientVars, msg, i, robotVars, is_stop, recVars, pubVars>>

\* Without end effectors nothing is started
LoadFails == Setup("load", "failed") /\ UNCHANGED <<conflate, pipe, pc>>
Load      == Setup("load", "bind") /\ UNCHANGED <<conflate, pipe, pc>>

\* The publisher thread starts before the subscriber is connected
Bind == Setup("bind", "connect") /\ UNCHANGED <<conflate, pipe, pc>>

\* Mutant: the conflate option is already set when the socket connects
ConnectConflating ==
    /\ Setup("connect", "options")
    /\ pipe' = "latest"
    /\ UNCHANGED <<conflate, pc>>

Connect ==
    /\ Setup("connect", "options")
    /\ pipe' = IF conflate THEN "latest" ELSE "queue"
    /\ UNCHANGED <<conflate, pc>>

SetConflate ==
    /\ Setup("options", "subscribe")
    /\ conflate' = TRUE
    /\ UNCHANGED <<pipe, pc>>

Subscribe == Setup("subscribe", "spawn") /\ UNCHANGED <<conflate, pipe, pc>>

StartSubscriber ==
    /\ Setup("spawn", "done")
    /\ pc' = "recv"
    /\ UNCHANGED <<conflate, pipe>>

PluginMain == \/ LoadFails \/ Load \/ Bind \/ Connect \/ SetConflate \/ Subscribe
              \/ StartSubscriber

-----------------------------------------------------------------------------
(* The client and the pipe. *)

Mark(m, old, cond) == [r \in Robots |-> IF cond /\ r \in m.robots THEN m.id ELSE old[r]]

\* A message that finds the pipe full is dropped on the client's side
Arrive ==
    /\ plugin \in {"spawn", "done"} /\ Alive
    /\ sent < MaxMessages /\ sent' = sent + 1
    /\ \E m \in Message :
          /\ m.id = sent' /\ m.kind \in Kinds
          /\ m.kind = "move" => m.robots = {0}
          /\ m.kind = "gripper" => m.tool
          /\ m.kind \in {"on", "off", "malformed"} => m.robots = {} /\ ~m.tool
          /\ \/ /\ pipe = "queue" /\ Len(mailbox) >= Hwm
                /\ UNCHANGED <<mailbox, wantSwitch, wantTarget, wantTool>>
             \/ /\ pipe = "latest" \/ Len(mailbox) < Hwm
                /\ mailbox' = IF pipe = "latest" THEN <<m>> ELSE Append(mailbox, m)
                /\ wantSwitch' = IF m.kind \in {"on", "off"} THEN m.kind ELSE wantSwitch
                /\ wantTarget' = Mark(m, wantTarget, m.kind \in {"servo", "move"})
                /\ wantTool' = Mark(m, wantTool, m.tool)
    /\ UNCHANGED <<setupVars, pc, msg, i, robotVars, is_stop, recVars, pubVars>>

-----------------------------------------------------------------------------
(* subscriber_loop *)

Step(from, to) == pc = from /\ pc' = to

Receive ==
    /\ Step("recv", "handle")
    /\ mailbox # <<>>
    /\ msg' = Head(mailbox) /\ mailbox' = Tail(mailbox)
    /\ i' = 0
    /\ UNCHANGED <<setupVars, sent, wantSwitch, wantTarget, wantTool, robotVars,
                   is_stop, recVars, pubVars>>

\* parse, then branch on the topic; a body that cannot be read throws
Dispatch ==
    /\ pc = "handle"
    /\ pc' = CASE msg.kind \in {"on", "off"} -> "stop"
               [] msg.kind = "malformed" -> "dead"
               [] msg.kind = "move" -> "motion"
               [] msg.kind = "servo" -> "servo"
               [] OTHER -> "gripper"
    /\ target' = IF msg.kind = "move" THEN [target EXCEPT ![0] = msg.id] ELSE target
    /\ UNCHANGED <<setupVars, clientVars, msg, i, asked, tool, is_stop, recVars, pubVars>>

\* Mutant: one robot too many
NextRobotTooFar(again) ==
    /\ i' = i + 1
    /\ pc' = IF i + 1 <= RN THEN again ELSE "recv"

\* Mutant: the loop does not advance
NextRobotStuck(again) ==
    /\ UNCHANGED i
    /\ pc' = IF i + 1 < RN THEN again ELSE "recv"

\* The end of one round of the loop over the robots
NextRobot(again) ==
    /\ i' = i + 1
    /\ pc' = IF i + 1 < RN THEN again ELSE "recv"

\* Mutant: the recorder is not told to stop
StopRecordingForgotten ==
    /\ Step("stop", "power_off")
    /\ UNCHANGED <<setupVars, clientVars, msg, i, robotVars, is_stop, recVars, pubVars>>

\* Switch, for robot i: stop the recorder, end the servo, power off ...
StopRecording ==
    /\ Step("stop", "power_off")
    /\ is_stop' = TRUE
    /\ UNCHANGED <<setupVars, clientVars, msg, i, robotVars, recVars, pubVars>>

PowerOff ==
    /\ pc = "power_off"
    /\ asked' = [asked EXCEPT ![i] = "off"]
    /\ \/ msg.kind = "on" /\ pc' = "sleep" /\ UNCHANGED i
       \/ msg.kind = "off" /\ NextRobot("stop")
    /\ polled' = {}
    /\ UNCHANGED <<setupVars, clientVars, msg, target, tool, is_stop, rec, pubVars>>

Live == {r \in Recorders : rec[r] \in {"check", "save"}}

\* ... and, to switch on, wait 100 ms, power on, start servo mode and a recorder
Wake ==
    /\ Step("sleep", "power_on")
    /\ PollsInTime => Live \subseteq polled
    /\ UNCHANGED <<setupVars, clientVars, msg, i, robotVars, is_stop, recVars, pubVars>>

PowerOn ==
    /\ Step("power_on", "resume")
    /\ asked' = [asked EXCEPT ![i] = "on"]
    /\ UNCHANGED <<setupVars, clientVars, msg, i, target, tool, is_stop, recVars, pubVars>>

Resume ==
    /\ Step("resume", "record")
    /\ is_stop' = FALSE
    /\ UNCHANGED <<setupVars, clientVars, msg, i, robotVars, recVars, pubVars>>

SpawnRecorder ==
    /\ pc = "record"
    /\ \E r \in Recorders :
          /\ rec[r] = "none" /\ \A q \in Recorders : rec[q] = "none" => r <= q
          /\ rec' = [rec EXCEPT ![r] = "check"]
    /\ NextRobot("stop")
    /\ UNCHANGED <<setupVars, clientVars, msg, robotVars, is_stop, polled, pubVars>>

\* Joint and Cartesian, for robot i: the arm, then its end effector
ServoRobot ==
    /\ pc = "servo"
    /\ target' = IF i \in msg.robots THEN [target EXCEPT ![i] = msg.id] ELSE target
    /\ tool' = IF i \in msg.robots /\ msg.tool THEN [tool EXCEPT ![i] = msg.id] ELSE tool
    /\ NextRobot("servo")
    /\ UNCHANGED <<setupVars, clientVars, msg, asked, is_stop, recVars, pubVars>>

\* MoveA and MoveL return when the motion has ended; the end effector comes after
MotionEnds ==
    /\ Step("motion", "recv")
    /\ tool' = IF msg.tool THEN [tool EXCEPT ![0] = msg.id] ELSE tool
    /\ UNCHANGED <<setupVars, clientVars, msg, i, asked, target, is_stop, recVars, pubVars>>

\* dispatch_gripper_command, for robot i
Gripper ==
    /\ pc = "gripper"
    /\ tool' = IF i \in msg.robots THEN [tool EXCEPT ![i] = msg.id] ELSE tool
    /\ NextRobot("gripper")
    /\ UNCHANGED <<setupVars, clientVars, msg, asked, target, is_stop, recVars, pubVars>>

Handle == \/ Dispatch \/ StopRecording \/ PowerOff \/ Wake \/ PowerOn \/ Resume
          \/ SpawnRecorder \/ ServoRobot \/ MotionEnds \/ Gripper

Subscriber == Receive \/ Handle

-----------------------------------------------------------------------------
(* save_data, run by recorder r *)

\* Mutant: the recorder looks at is_stop and goes on
CheckStopIgnored(r) ==
    /\ Alive /\ rec[r] = "check"
    /\ rec' = [rec EXCEPT ![r] = "save"]
    /\ polled' = polled \cup {r}
    /\ UNCHANGED <<setupVars, clientVars, pc, msg, i, robotVars, is_stop, pubVars>>

CheckStop(r) ==
    /\ Alive /\ rec[r] = "check"
    /\ rec' = [rec EXCEPT ![r] = IF is_stop THEN "end" ELSE "save"]
    /\ polled' = polled \cup {r}
    /\ UNCHANGED <<setupVars, clientVars, pc, msg, i, robotVars, is_stop, pubVars>>

SaveSample(r) ==
    /\ Alive /\ rec[r] = "save"
    /\ rec' = [rec EXCEPT ![r] = "check"]
    /\ UNCHANGED <<setupVars, clientVars, pc, msg, i, robotVars, is_stop, polled, pubVars>>

Recorder(r) == CheckStop(r) \/ SaveSample(r)

-----------------------------------------------------------------------------
(* publisher_loop *)

Publishing == Alive /\ plugin \notin {"load", "bind", "failed"}

\* Mutant: a key already in the JSON object is not overwritten
ReadRobotOnce ==
    /\ Publishing /\ pub < RN
    /\ data' = IF data[pub] = "none" THEN [data EXCEPT ![pub] = asked[pub]] ELSE data
    /\ pub' = pub + 1
    /\ UNCHANGED <<setupVars, clientVars, pc, msg, i, robotVars, is_stop, recVars, published>>

ReadRobot ==
    /\ Publishing /\ pub < RN
    /\ data' = [data EXCEPT ![pub] = asked[pub]]
    /\ pub' = pub + 1
    /\ UNCHANGED <<setupVars, clientVars, pc, msg, i, robotVars, is_stop, recVars, published>>

Publish ==
    /\ Publishing /\ pub = RN
    /\ published' = data
    /\ pub' = 0
    /\ UNCHANGED <<setupVars, clientVars, pc, msg, i, robotVars, is_stop, recVars, data>>

Publisher == ReadRobot \/ Publish

\* A failed load returns to the controller, which runs on without the plugin's
\* threads; a thrown exception has ended the process
Ended ==
    /\ plugin = "failed" \/ ~Alive
    /\ UNCHANGED vars

Next == \/ PluginMain \/ Arrive \/ Subscriber \/ Publisher \/ Ended
        \/ \E r \in Recorders : Recorder(r)

Spec == Init /\ [][Next]_vars

\* PluginMain runs through, every thread is scheduled and every motion ends; the
\* client owes nothing
FairSpec ==
    /\ Spec
    /\ WF_vars(PluginMain)
    /\ WF_vars(Subscriber) /\ WF_vars(Publisher)
    /\ \A r \in Recorders : WF_vars(Recorder(r))

-----------------------------------------------------------------------------
(* Properties *)

\* Recorders of successive Switch-on messages, and of the robots of one message, share
\* a file: the 100 ms pause must let each of them end before the next one starts.
OneRecorder == \A q, r \in Live : q = r

\* When the subscriber has caught up, each robot and tool is as the last message about
\* it that arrived asked, and recording follows the last Switch: no order is lost to
\* a later message of another kind.
CaughtUp ==
    pc = "recv" /\ mailbox = <<>> =>
        /\ \A r \in Robots : asked[r] = wantSwitch
        /\ is_stop = (wantSwitch # "on")
        /\ target = wantTarget /\ tool = wantTool

\* Recording ends once it is switched off for good and goes on once it is switched on
\* for good: the pause for one robot never ends the recorder started for another one
\* without a successor.
RecordingSettles ==
    /\ <>[]is_stop => <>[](Live = {} \/ ~Alive)
    /\ <>[](~is_stop) => <>[](Live # {} \/ ~Alive)

\* The published power state of a robot follows the last request made to it.
PublishedFollows ==
    \A r \in Robots : \A s \in Switch :
        <>[](asked[r] = s /\ Publishing) => <>[](published[r] = s)

\* Every message that arrived is handled, unless an earlier one ended the process.
MailboxDrained == mailbox # <<>> ~> mailbox = <<>> \/ ~Alive

\* JEServer.cpp says of the conflate option "keep only the last message".
OnlyLastKept == Len(mailbox) <= 1

=============================================================================
