---------------------------- MODULE JEServer_proofs ----------------------------
(***************************************************************************)
(* The controller plugin for any number of robots and messages and any     *)
(* capacity of the pipe: at most one recorder is alive at any time if      *)
(* every recorder looks at is_stop within the 100 ms pause, the state is   *)
(* well typed, and once the subscriber has caught up every order has been  *)
(* obeyed.                                                                 *)
(***************************************************************************)
EXTENDS JEServer, TLAPS

\* During the pause is_stop stands, so a recorder that looks ends; after the pause
\* none is left until the next one is started.
RecorderInv ==
    /\ pc \in {"power_off", "sleep"} => is_stop
    /\ pc = "sleep" => \A r \in polled : rec[r] = "end"
    /\ pc \in {"power_on", "resume", "record"} => Live = {}
    /\ OneRecorder
    /\ rec \in [Recorders -> {"none", "check", "save", "end"}]

LEMMA RecorderInit == Init => RecorderInv
BY DEF Init, RecorderInv, OneRecorder, Live

LEMMA RecorderStep ==
    ASSUME PollsInTime, RecorderInv, [Next]_vars PROVE RecorderInv'
<1> USE DEF RecorderInv, OneRecorder, Live, Step, NextRobot, setupVars, clientVars,
            robotVars, recVars, pubVars
<1>1. CASE PluginMain
  BY <1>1 DEF PluginMain, Setup, LoadFails, Load, Bind, Connect, SetConflate, Subscribe,
              StartSubscriber
<1>2. CASE Arrive
  BY <1>2 DEF Arrive
<1>3. CASE Receive \/ Dispatch \/ StopRecording \/ PowerOff \/ PowerOn \/ Resume
           \/ ServoRobot \/ MotionEnds \/ Gripper
  <2>1. CASE Receive
    BY <2>1 DEF Receive
  <2>2. CASE Dispatch
    <3>1. pc = "handle" /\ UNCHANGED <<is_stop, rec, polled>>
          /\ pc' \notin {"power_off", "sleep", "power_on", "resume", "record"}
      BY <2>2 DEF Dispatch
    <3>2. QED
      BY <3>1
  <2>3. CASE StopRecording
    BY <2>3 DEF StopRecording
  <2>4. CASE PowerOff
    BY <2>4 DEF PowerOff
  <2>5. CASE PowerOn
    BY <2>5 DEF PowerOn
  <2>6. CASE Resume
    BY <2>6 DEF Resume
  <2>7. CASE ServoRobot \/ MotionEnds \/ Gripper
    BY <2>7 DEF ServoRobot, MotionEnds, Gripper
  <2>8. QED
    BY <1>3, <2>1, <2>2, <2>3, <2>4, <2>5, <2>6, <2>7
<1>4. CASE Wake
  BY <1>4 DEF Wake
<1>5. CASE SpawnRecorder
  <2>1. PICK r \in Recorders : rec' = [rec EXCEPT ![r] = "check"]
    BY <1>5 DEF SpawnRecorder
  <2>2. Live = {} /\ pc' \in {"stop", "recv"}
    BY <1>5 DEF SpawnRecorder
  <2>3. Live' = {r}
    BY <2>1, <2>2
  <2>4. QED
    BY <2>1, <2>2, <2>3
<1>6. ASSUME NEW r \in Recorders, CheckStop(r) PROVE RecorderInv'
  BY <1>6 DEF CheckStop
<1>7. ASSUME NEW r \in Recorders, SaveSample(r) PROVE RecorderInv'
  BY <1>7 DEF SaveSample
<1>8. CASE Publisher \/ UNCHANGED vars
  BY <1>8 DEF Publisher, ReadRobot, Publish, vars
<1>9. QED
  BY <1>1, <1>2, <1>3, <1>4, <1>5, <1>6, <1>7, <1>8
     DEF Next, Subscriber, Handle, Recorder, Ended

\* The recorders of successive Switch messages never share the file, provided a
\* recorder's cycle is shorter than the pause before the next one is started.
THEOREM RecordersSerial == PollsInTime /\ Spec => []OneRecorder
<1>1. RecorderInv => OneRecorder
  BY DEF RecorderInv
<1>2. PollsInTime /\ RecorderInv /\ [Next]_vars => RecorderInv'
  BY RecorderStep
<1>3. CASE PollsInTime
  <2>1. RecorderInv /\ [Next]_vars => RecorderInv'
    BY <1>2, <1>3
  <2>2. QED
    BY <1>1, <2>1, RecorderInit, PTL DEF Spec
<1>4. QED
  BY <1>3

-----------------------------------------------------------------------------
(* Types.  A message that is being handled is one the client sends, and the loop over   *)
(* the robots has not run past the last of them.                                        *)

Sound == {m \in Message :
            /\ m.kind = "move" => m.robots = {0}
            /\ m.kind = "gripper" => m.tool
            /\ m.kind \in {"on", "off", "malformed"} => m.robots = {} /\ ~m.tool}

SwitchSteps == {"stop", "power_off", "sleep", "power_on", "resume", "record"}

HandleInv ==
    /\ mailbox \in Seq(Sound)
    /\ pc \in SwitchSteps \cup {"handle", "servo", "motion", "gripper"} => msg \in Sound
    /\ pc = "handle" => i = 0
    /\ pc \in SwitchSteps \cup {"servo", "gripper"} => i < RN
    /\ pc \in SwitchSteps => msg.kind \in {"on", "off"}
    /\ pc \in {"sleep", "power_on", "resume", "record"} => msg.kind = "on"
    /\ pc = "servo" => msg.kind = "servo"
    /\ pc = "motion" => msg.kind = "move"
    /\ pc = "gripper" => msg.kind = "gripper"

TypeInv == TypeOK /\ HandleInv

LEMMA TypeInit == ASSUME Init PROVE TypeInv
<1> USE RobotsAssumption, ClientAssumption, PipeAssumption
<1>1. HandleInv
  BY DEF Init, HandleInv, SwitchSteps
<1>2. {wantTarget, wantTool, target, tool} \subseteq [Robots -> 0..MaxMessages]
  <2>1. [r \in Robots |-> 0] \in [Robots -> 0..MaxMessages]
    OBVIOUS
  <2>2. QED
    BY <2>1 DEF Init
<1>3. /\ asked \in [Robots -> Switch] /\ data \in [Robots -> Switch]
      /\ published \in [Robots -> Switch] /\ wantSwitch \in Switch
      /\ rec \in [Recorders -> {"none", "check", "save", "end"}] /\ polled \subseteq Recorders
  BY DEF Init, Switch
<1>4. mailbox \in Seq(Message) /\ Len(mailbox) <= Hwm /\ sent \in 0..MaxMessages
      /\ msg \in Message \cup {NoMessage} /\ i \in 0..RN /\ pub \in 0..RN
  BY DEF Init
<1>5. plugin = "load" /\ conflate = FALSE /\ pipe = "none" /\ pc = "none" /\ is_stop = TRUE
  BY DEF Init
<1>6. QED
  BY <1>1, <1>2, <1>3, <1>4, <1>5 DEF TypeInv, TypeOK

\* What a message has in it
LEMMA SoundMessage ==
    ASSUME NEW m \in Sound
    PROVE  m \in Message /\ m.id \in 1..MaxMessages /\ m.kind \in MessageKind
           /\ m.robots \subseteq Robots /\ m.tool \in BOOLEAN
BY DEF Sound, Message

LEMMA ArriveType == ASSUME TypeInv, Arrive PROVE TypeInv'
<1> USE RobotsAssumption, ClientAssumption, PipeAssumption
<1>1. UNCHANGED <<setupVars, pc, msg, i, robotVars, is_stop, recVars, pubVars>>
      /\ sent \in Nat /\ sent < MaxMessages /\ sent' = sent + 1
  BY DEF Arrive, TypeInv, TypeOK
<1>2. CASE UNCHANGED <<mailbox, wantSwitch, wantTarget, wantTool>>
  BY <1>1, <1>2 DEF TypeInv, TypeOK, HandleInv, setupVars, robotVars, recVars, pubVars
<1>3. ASSUME NEW m \in Message, m.id = sent',
             m.kind = "move" => m.robots = {0},
             m.kind = "gripper" => m.tool,
             m.kind \in {"on", "off", "malformed"} => m.robots = {} /\ ~m.tool,
             pipe = "latest" \/ Len(mailbox) < Hwm,
             mailbox' = IF pipe = "latest" THEN <<m>> ELSE Append(mailbox, m),
             wantSwitch' = IF m.kind \in {"on", "off"} THEN m.kind ELSE wantSwitch,
             wantTarget' = Mark(m, wantTarget, m.kind \in {"servo", "move"}),
             wantTool' = Mark(m, wantTool, m.tool)
      PROVE  TypeInv'
  <2>1. m \in Sound
    BY <1>3 DEF Sound
  <2>2. mailbox' \in Seq(Sound) /\ mailbox' \in Seq(Message) /\ Len(mailbox') <= Hwm
    BY <1>3, <2>1 DEF TypeInv, TypeOK, HandleInv
  <2>3. wantSwitch' \in Switch
    BY <1>3 DEF TypeInv, TypeOK, Switch
  <2>4. m.id \in 0..MaxMessages
    BY DEF Message
  <2>5. wantTarget' \in [Robots -> 0..MaxMessages] /\ wantTool' \in [Robots -> 0..MaxMessages]
    BY <1>3, <2>4 DEF TypeInv, TypeOK, Mark
  <2>6. {wantTarget', wantTool', target', tool'} \subseteq [Robots -> 0..MaxMessages]
    BY <1>1, <2>5 DEF TypeInv, TypeOK, robotVars
  <2>7. QED
    BY <1>1, <2>2, <2>3, <2>6
       DEF TypeInv, TypeOK, HandleInv, setupVars, robotVars, recVars, pubVars
<1>4. QED
  BY <1>2, <1>3 DEF Arrive

LEMMA SubscriberType == ASSUME TypeInv, Subscriber PROVE TypeInv'
<1> USE RobotsAssumption, ClientAssumption
<1> USE DEF setupVars, clientVars, robotVars, recVars, pubVars
<1>a. msg \in Sound => msg.id \in 0..MaxMessages /\ msg.kind \in MessageKind
                       /\ msg.robots \subseteq Robots
  BY SoundMessage
<1>b. target \in [Robots -> 0..MaxMessages] /\ tool \in [Robots -> 0..MaxMessages]
  BY DEF TypeInv, TypeOK
<1>c. ASSUME target' \in [Robots -> 0..MaxMessages], tool' \in [Robots -> 0..MaxMessages],
             UNCHANGED <<wantTarget, wantTool>>
      PROVE  {wantTarget, wantTool, target, tool}' \subseteq [Robots -> 0..MaxMessages]
  BY <1>c DEF TypeInv, TypeOK
<1>1. CASE Receive
  <2>1. Head(mailbox) \in Sound /\ Head(mailbox) \in Message /\ Tail(mailbox) \in Seq(Sound)
        /\ Tail(mailbox) \in Seq(Message) /\ Len(Tail(mailbox)) <= Hwm
    BY <1>1, PipeAssumption DEF Receive, TypeInv, TypeOK, HandleInv
  <2>2. QED
    BY <1>1, <2>1 DEF Receive, Step, TypeInv, TypeOK, HandleInv, SwitchSteps
<1>2. CASE Dispatch
  <2>1. pc = "handle" /\ msg \in Sound /\ i = 0
        /\ UNCHANGED <<setupVars, clientVars, msg, i, asked, tool, is_stop, recVars, pubVars>>
        /\ pc' = CASE msg.kind \in {"on", "off"} -> "stop"
                    [] msg.kind = "malformed" -> "dead"
                    [] msg.kind = "move" -> "motion"
                    [] msg.kind = "servo" -> "servo"
                    [] OTHER -> "gripper"
    BY <1>2 DEF Dispatch, TypeInv, HandleInv
  <2>2. target' \in [Robots -> 0..MaxMessages]
    BY <1>2, <1>a, <1>b, <2>1 DEF Dispatch
  <2>3. {wantTarget, wantTool, target, tool}' \subseteq [Robots -> 0..MaxMessages]
    BY <1>b, <1>c, <2>1, <2>2
  <2>4. HandleInv'
    <3>1. msg.kind = "move" => pc' = "motion"
      BY <2>1
    <3>2. msg.kind = "servo" => pc' = "servo"
      BY <2>1
    <3>3. msg.kind = "gripper" => pc' = "gripper"
      BY <2>1
    <3>4. QED
      BY <1>a, <2>1, <3>1, <3>2, <3>3 DEF TypeInv, HandleInv, SwitchSteps, MessageKind
  <2>5. pc' \in {"stop", "dead", "motion", "servo", "gripper"}
    BY <2>1
  <2>6. QED
    BY <2>1, <2>3, <2>4, <2>5 DEF TypeInv, TypeOK
<1>3. CASE StopRecording
  BY <1>3 DEF StopRecording, Step, TypeInv, TypeOK, HandleInv, SwitchSteps
<1>4. CASE PowerOff
  <2>1. pc = "power_off" /\ i \in 0..RN /\ i < RN /\ msg \in Sound
        /\ asked' \in [Robots -> Switch] /\ polled' = {}
        /\ UNCHANGED <<setupVars, clientVars, msg, target, tool, is_stop, rec, pubVars>>
    BY <1>4 DEF PowerOff, TypeInv, TypeOK, HandleInv, SwitchSteps, Switch
  <2>2. \/ msg.kind = "on" /\ pc' = "sleep" /\ i' = i
        \/ msg.kind = "off" /\ i' = i + 1 /\ pc' \in {"stop", "recv"} /\ (pc' = "stop" => i' < RN)
    BY <1>4, <2>1 DEF PowerOff, NextRobot
  <2>3. QED
    BY <2>1, <2>2 DEF TypeInv, TypeOK, HandleInv, SwitchSteps
<1>5. CASE Wake
  BY <1>5 DEF Wake, Step, TypeInv, TypeOK, HandleInv, SwitchSteps
<1>6. CASE PowerOn
  <2>1. pc = "power_on" /\ pc' = "resume" /\ asked' \in [Robots -> Switch]
        /\ UNCHANGED <<setupVars, clientVars, msg, i, target, tool, is_stop, recVars, pubVars>>
    BY <1>6 DEF PowerOn, Step, TypeInv, TypeOK, Switch
  <2>2. HandleInv'
    BY <2>1 DEF TypeInv, HandleInv, SwitchSteps
  <2>3. QED
    BY <2>1, <2>2 DEF TypeInv, TypeOK
<1>7. CASE Resume
  BY <1>7 DEF Resume, Step, TypeInv, TypeOK, HandleInv, SwitchSteps
<1>8. CASE SpawnRecorder
  <2>1. pc = "record" /\ i \in 0..RN /\ i < RN /\ msg \in Sound /\ msg.kind = "on"
        /\ rec' \in [Recorders -> {"none", "check", "save", "end"}]
        /\ UNCHANGED <<setupVars, clientVars, msg, robotVars, is_stop, polled, pubVars>>
    BY <1>8 DEF SpawnRecorder, TypeInv, TypeOK, HandleInv, SwitchSteps
  <2>2. i' = i + 1 /\ pc' \in {"stop", "recv"} /\ (pc' = "stop" => i' < RN)
    BY <1>8, <2>1 DEF SpawnRecorder, NextRobot
  <2>3. QED
    BY <2>1, <2>2 DEF TypeInv, TypeOK, HandleInv, SwitchSteps
<1>9. CASE ServoRobot
  <2>1. pc = "servo" /\ i \in 0..RN /\ i < RN /\ msg \in Sound /\ msg.kind = "servo"
        /\ UNCHANGED <<setupVars, clientVars, msg, asked, is_stop, recVars, pubVars>>
    BY <1>9 DEF ServoRobot, TypeInv, TypeOK, HandleInv, SwitchSteps
  <2>1a. target' \in [Robots -> 0..MaxMessages] /\ tool' \in [Robots -> 0..MaxMessages]
    BY <1>9, <1>a, <1>b, <2>1 DEF ServoRobot
  <2>1b. {wantTarget, wantTool, target, tool}' \subseteq [Robots -> 0..MaxMessages]
    BY <1>c, <2>1, <2>1a
  <2>2. i' = i + 1 /\ pc' \in {"servo", "recv"} /\ (pc' = "servo" => i' < RN)
    BY <1>9, <2>1 DEF ServoRobot, NextRobot
  <2>3. QED
    BY <2>1, <2>1b, <2>2 DEF TypeInv, TypeOK, HandleInv, SwitchSteps
<1>10. CASE MotionEnds
  <2>1. pc = "motion" /\ pc' = "recv" /\ msg \in Sound
        /\ UNCHANGED <<setupVars, clientVars, msg, i, asked, target, is_stop, recVars, pubVars>>
    BY <1>10 DEF MotionEnds, Step, TypeInv, HandleInv
  <2>2. tool' \in [Robots -> 0..MaxMessages]
    BY <1>10, <1>a, <1>b, <2>1 DEF MotionEnds
  <2>3. {wantTarget, wantTool, target, tool}' \subseteq [Robots -> 0..MaxMessages]
    BY <1>b, <1>c, <2>1, <2>2
  <2>4. QED
    BY <2>1, <2>3 DEF TypeInv, TypeOK, HandleInv, SwitchSteps
<1>11. CASE Gripper
  <2>1. pc = "gripper" /\ i \in 0..RN /\ i < RN /\ msg \in Sound /\ msg.kind = "gripper"
        /\ UNCHANGED <<setupVars, clientVars, msg, asked, target, is_stop, recVars, pubVars>>
    BY <1>11 DEF Gripper, TypeInv, TypeOK, HandleInv, SwitchSteps
  <2>1a. tool' \in [Robots -> 0..MaxMessages]
    BY <1>11, <1>a, <1>b, <2>1 DEF Gripper
  <2>1b. {wantTarget, wantTool, target, tool}' \subseteq [Robots -> 0..MaxMessages]
    BY <1>b, <1>c, <2>1, <2>1a
  <2>2. i' = i + 1 /\ pc' \in {"gripper", "recv"} /\ (pc' = "gripper" => i' < RN)
    BY <1>11, <2>1 DEF Gripper, NextRobot
  <2>3. QED
    BY <2>1, <2>1b, <2>2 DEF TypeInv, TypeOK, HandleInv, SwitchSteps
<1>12. QED
  BY <1>1, <1>2, <1>3, <1>4, <1>5, <1>6, <1>7, <1>8, <1>9, <1>10, <1>11 DEF Subscriber, Handle

LEMMA TypeStep == ASSUME TypeInv, [Next]_vars PROVE TypeInv'
<1> USE RobotsAssumption
<1> USE DEF setupVars, clientVars, robotVars, recVars, pubVars
<1>1. CASE PluginMain
  <2>1. UNCHANGED <<clientVars, msg, i, robotVars, is_stop, recVars, pubVars>>
        /\ plugin' \in {"bind", "connect", "options", "subscribe", "spawn", "done", "failed"}
        /\ conflate' \in BOOLEAN /\ pipe' \in {"none", "queue", "latest"}
        /\ pc' \in {pc, "recv"}
    BY <1>1 DEF PluginMain, Setup, LoadFails, Load, Bind, Connect, SetConflate, Subscribe,
                StartSubscriber, TypeInv, TypeOK
  <2>2. QED
    BY <2>1 DEF TypeInv, TypeOK, HandleInv, SwitchSteps
<1>2. CASE Arrive
  BY <1>2, ArriveType
<1>3. CASE Subscriber
  BY <1>3, SubscriberType
<1>4. ASSUME NEW r \in Recorders, Recorder(r) PROVE TypeInv'
  <2>1. /\ UNCHANGED <<setupVars, clientVars, pc, msg, i, robotVars, is_stop, pubVars>>
        /\ \E to \in {"check", "save", "end"} : rec' = [rec EXCEPT ![r] = to]
        /\ polled' \in {polled, polled \union {r}}
    BY <1>4 DEF Recorder, CheckStop, SaveSample
  <2>2. rec' \in [Recorders -> {"none", "check", "save", "end"}] /\ polled' \subseteq Recorders
    BY <1>4, <2>1 DEF TypeInv, TypeOK
  <2>3. QED
    BY <2>1, <2>2 DEF TypeInv, TypeOK, HandleInv, SwitchSteps
<1>5. CASE Publisher
  <2>1. UNCHANGED <<setupVars, clientVars, pc, msg, i, robotVars, is_stop, recVars>>
    BY <1>5 DEF Publisher, ReadRobot, Publish
  <2>2. pub' \in 0..RN /\ data' \in [Robots -> Switch] /\ published' \in [Robots -> Switch]
    <3>1. pub \in 0..RN /\ data \in [Robots -> Switch] /\ asked \in [Robots -> Switch]
          /\ published \in [Robots -> Switch]
      BY DEF TypeInv, TypeOK
    <3>2. CASE ReadRobot
      <4>1. pub \in Robots
        BY <3>1, <3>2 DEF ReadRobot, Robots
      <4>2. QED
        BY <3>1, <3>2, <4>1 DEF ReadRobot
    <3>3. CASE Publish
      BY <3>1, <3>3 DEF Publish
    <3>4. QED
      BY <1>5, <3>2, <3>3 DEF Publisher
  <2>3. QED
    BY <2>1, <2>2 DEF TypeInv, TypeOK, HandleInv, SwitchSteps
<1>6. CASE UNCHANGED vars
  BY <1>6 DEF vars, TypeInv, TypeOK, HandleInv, SwitchSteps
<1>7. QED
  BY <1>1, <1>2, <1>3, <1>4, <1>5, <1>6 DEF Next, Ended

\* The type invariant, for any number of robots, messages and recorders.
THEOREM TypeCorrect == Spec => []TypeOK
<1>1. TypeInv => TypeOK
  BY DEF TypeInv
<1>2. TypeInv /\ [Next]_vars => TypeInv'
  BY TypeStep
<1>3. QED
  BY <1>1, <1>2, TypeInit, PTL DEF Spec

-----------------------------------------------------------------------------
(* No order is lost.  Every order on a robot's target, its tool or the recording   *)
(* has been obeyed, is in hand, or waits in the mailbox behind older ones only.    *)

\* What the messages in the mailbox ask for, one after another: nothing or one value
Moves(m, r) == m.kind \in {"servo", "move"} /\ r \in m.robots
Tools(m, r) == m.tool /\ r \in m.robots
Order(given, value) == IF given THEN {value} ELSE {}

TargetOrders(r) == [k \in DOMAIN mailbox |-> Order(Moves(mailbox[k], r), mailbox[k].id)]
ToolOrders(r)   == [k \in DOMAIN mailbox |-> Order(Tools(mailbox[k], r), mailbox[k].id)]
SwitchOrders ==
    [k \in DOMAIN mailbox |-> Order(mailbox[k].kind \in {"on", "off"}, mailbox[k].kind)]

\* `want` is what is there once the orders have been obeyed: the last of them, or what is
\* there now if there is none
Follows(want, now, orders) ==
    \/ want = now /\ \A k \in DOMAIN orders : orders[k] = {}
    \/ \E k \in DOMAIN orders :
          orders[k] = {want} /\ \A j \in DOMAIN orders : j > k => orders[j] = {}

\* What is there once the message in hand has been obeyed
TargetInHand(r) ==
    \/ pc = "handle" /\ Moves(msg, r)
    \/ pc = "servo" /\ r >= i /\ r \in msg.robots
ToolInHand(r) ==
    /\ \/ pc \in {"handle", "motion"}
       \/ pc \in {"servo", "gripper"} /\ r >= i
    /\ Tools(msg, r)
SwitchInHand ==
    \/ pc = "handle" /\ msg.kind \in {"on", "off"}
    \/ pc \in SwitchSteps

TargetNow(r) == IF TargetInHand(r) THEN msg.id ELSE target[r]
ToolNow(r)   == IF ToolInHand(r) THEN msg.id ELSE tool[r]
SwitchNow    == IF SwitchInHand THEN msg.kind ELSE asked[0]

\* Between two switches the robots are switched alike and recorded if they are on;
\* within one, those the loop has passed are
AlikeInv ==
    /\ ~SwitchInHand =>
          /\ is_stop = (asked[0] # "on")
          /\ \A r \in Robots : asked[r] = asked[0]
    /\ pc \in SwitchSteps => \A r \in Robots : r < i => asked[r] = msg.kind
    /\ pc \in {"resume", "record"} => asked[i] = "on"
    /\ pc = "record" => ~is_stop
    /\ pc \in {"power_off", "sleep"} => is_stop

\* The option comes too late for the connection, and the subscriber starts last
SetupInv ==
    /\ plugin \in {"load", "bind", "connect", "options"} => ~conflate
    /\ pipe # "latest"
    /\ plugin \in {"options", "subscribe", "spawn", "done"} => pipe = "queue"
    /\ plugin # "done" => pc = "none"

OrdersInv ==
    /\ \A r \in Robots : Follows(wantTarget[r], TargetNow(r), TargetOrders(r))
    /\ \A r \in Robots : Follows(wantTool[r], ToolNow(r), ToolOrders(r))
    /\ Follows(wantSwitch, SwitchNow, SwitchOrders)

CaughtUpInv == TypeInv /\ SetupInv /\ AlikeInv /\ OrdersInv

\* An order comes in at the end, or a message that does not give one
LEMMA FollowsMore ==
    ASSUME NEW n \in Nat, NEW orders, NEW more, NEW want, NEW then, NEW now,
           DOMAIN orders = 1..n, DOMAIN more = 1..(n + 1),
           \A k \in 1..n : more[k] = orders[k],
           \/ more[n + 1] = {then}
           \/ more[n + 1] = {} /\ then = want,
           Follows(want, now, orders)
    PROVE  Follows(then, now, more)
<1>1. CASE more[n + 1] = {then}
  <2>1. \A j \in 1..(n + 1) : ~(j > n + 1)
    OBVIOUS
  <2>2. QED
    BY <1>1, <2>1 DEF Follows
<1>2. CASE more[n + 1] = {} /\ then = want
  <2>1. \A k \in 1..(n + 1) : k \in 1..n \/ k = n + 1
    OBVIOUS
  <2>2. CASE want = now /\ \A k \in 1..n : orders[k] = {}
    BY <1>2, <2>1, <2>2 DEF Follows
  <2>3. ASSUME NEW k \in 1..n, orders[k] = {want}, \A j \in 1..n : j > k => orders[j] = {}
        PROVE  Follows(then, now, more)
    <3>1. more[k] = {then} /\ \A j \in 1..(n + 1) : j > k => more[j] = {}
      BY <1>2, <2>1, <2>3
    <3>2. k \in 1..(n + 1)
      OBVIOUS
    <3>3. QED
      BY <3>1, <3>2 DEF Follows
  <2>4. QED
    BY <2>2, <2>3 DEF Follows
<1>3. QED
  BY <1>1, <1>2

\* The first order is taken out and is now what is there
LEMMA FollowsRest ==
    ASSUME NEW n \in Nat, NEW orders, NEW rest, NEW want, NEW then, NEW now,
           DOMAIN orders = 1..(n + 1), DOMAIN rest = 1..n,
           \A k \in 1..n : rest[k] = orders[k + 1],
           \/ orders[1] = {then}
           \/ orders[1] = {} /\ then = now,
           Follows(want, now, orders)
    PROVE  Follows(want, then, rest)
<1>1. 1 \in 1..(n + 1) /\ \A k \in 1..n : k + 1 \in 1..(n + 1)
  OBVIOUS
<1>2. CASE want = now /\ \A k \in 1..(n + 1) : orders[k] = {}
  BY <1>1, <1>2 DEF Follows
<1>3. ASSUME NEW k \in 1..(n + 1), orders[k] = {want},
             \A j \in 1..(n + 1) : j > k => orders[j] = {}
      PROVE  Follows(want, then, rest)
  <2>1. CASE k = 1
    <3>1. then = want
      BY <1>3, <2>1
    <3>2. \A j \in 1..n : j + 1 > 1
      OBVIOUS
    <3>3. \A j \in 1..n : rest[j] = {}
      BY <1>1, <1>3, <2>1, <3>2
    <3>4. QED
      BY <3>1, <3>3 DEF Follows
  <2>2. CASE k # 1
    <3>1. k - 1 \in 1..n /\ (k - 1) + 1 = k
      BY <2>2
    <3>2. rest[k - 1] = {want}
      BY <1>3, <3>1
    <3>3. \A j \in 1..n : j > k - 1 => j + 1 > k
      OBVIOUS
    <3>4. \A j \in 1..n : j > k - 1 => rest[j] = {}
      BY <1>1, <1>3, <3>3
    <3>5. QED
      BY <3>1, <3>2, <3>4 DEF Follows
  <2>3. QED
    BY <2>1, <2>2
<1>4. QED
  BY <1>2, <1>3 DEF Follows

LEMMA CaughtUpInit == ASSUME Init PROVE CaughtUpInv
<1>1. TypeInv
  BY TypeInit
<1>2. 0 \in Robots
  BY RobotsAssumption DEF Robots
<1>3. SetupInv /\ AlikeInv
  BY <1>2 DEF Init, SetupInv, AlikeInv, SwitchInHand, SwitchSteps
<1>4. mailbox = <<>> /\ DOMAIN mailbox = {}
  BY DEF Init
<1>5. DOMAIN SwitchOrders = {} /\ \A r : DOMAIN TargetOrders(r) = {} /\ DOMAIN ToolOrders(r) = {}
  BY <1>4 DEF SwitchOrders, TargetOrders, ToolOrders
<1>6. SwitchNow = "none" /\ \A r \in Robots : TargetNow(r) = 0 /\ ToolNow(r) = 0
  BY <1>2 DEF Init, SwitchNow, TargetNow, ToolNow, SwitchInHand, TargetInHand, ToolInHand,
              SwitchSteps
<1>7. wantSwitch = "none" /\ \A r \in Robots : wantTarget[r] = 0 /\ wantTool[r] = 0
  BY DEF Init
<1>8. OrdersInv
  BY <1>5, <1>6, <1>7 DEF OrdersInv, Follows
<1>9. QED
  BY <1>1, <1>3, <1>8 DEF CaughtUpInv

\* What comes out of the mailbox and goes into it keeps its order
LEMMA ArriveOrders == ASSUME CaughtUpInv, Arrive PROVE OrdersInv'
<1>1. UNCHANGED <<plugin, pc, msg, i, target, tool, asked>>
  BY DEF Arrive, setupVars, robotVars
<1>2. UNCHANGED SwitchNow /\ \A r \in Robots : UNCHANGED <<TargetNow(r), ToolNow(r)>>
  BY <1>1 DEF SwitchNow, TargetNow, ToolNow, SwitchInHand, TargetInHand, ToolInHand
<1>3. CASE UNCHANGED <<mailbox, wantSwitch, wantTarget, wantTool>>
  <2>1. UNCHANGED SwitchOrders /\ \A r \in Robots : UNCHANGED <<TargetOrders(r), ToolOrders(r)>>
    BY <1>3 DEF SwitchOrders, TargetOrders, ToolOrders
  <2>2. QED
    BY <1>2, <1>3, <2>1 DEF CaughtUpInv, OrdersInv, Follows
<1>4. ASSUME NEW m \in Message,
             mailbox' = IF pipe = "latest" THEN <<m>> ELSE Append(mailbox, m),
             wantSwitch' = IF m.kind \in {"on", "off"} THEN m.kind ELSE wantSwitch,
             wantTarget' = Mark(m, wantTarget, m.kind \in {"servo", "move"}),
             wantTool' = Mark(m, wantTool, m.tool)
      PROVE  OrdersInv'
  <2> DEFINE n == Len(mailbox)
  <2>1. mailbox \in Seq(Message) /\ mailbox' = Append(mailbox, m)
    BY <1>4 DEF CaughtUpInv, TypeInv, TypeOK, SetupInv
  <2>2. n \in Nat /\ DOMAIN mailbox = 1..n /\ DOMAIN mailbox' = 1..(n + 1)
        /\ mailbox'[n + 1] = m /\ \A k \in 1..n : mailbox'[k] = mailbox[k]
    BY <2>1
  <2>3. Follows(wantSwitch', SwitchNow', SwitchOrders')
    <3>1. DOMAIN SwitchOrders = 1..n /\ DOMAIN SwitchOrders' = 1..(n + 1)
          /\ SwitchOrders'[n + 1] = Order(m.kind \in {"on", "off"}, m.kind)
          /\ \A k \in 1..n : SwitchOrders'[k] = SwitchOrders[k]
      BY <2>2 DEF SwitchOrders
    <3>2. \/ SwitchOrders'[n + 1] = {wantSwitch'}
          \/ SwitchOrders'[n + 1] = {} /\ wantSwitch' = wantSwitch
      BY <1>4, <3>1 DEF Order
    <3>3. Follows(wantSwitch, SwitchNow, SwitchOrders)
      BY DEF CaughtUpInv, OrdersInv
    <3> HIDE DEF n
    <3>4. Follows(wantSwitch', SwitchNow, SwitchOrders')
      BY <2>2, <3>1, <3>2, <3>3, FollowsMore
    <3>5. QED
      BY <1>2, <3>4
  <2>4. ASSUME NEW r \in Robots
        PROVE  Follows(wantTarget'[r], TargetNow(r)', TargetOrders(r)')
    <3>1. DOMAIN TargetOrders(r) = 1..n /\ DOMAIN TargetOrders(r)' = 1..(n + 1)
          /\ TargetOrders(r)'[n + 1] = Order(Moves(m, r), m.id)
          /\ \A k \in 1..n : TargetOrders(r)'[k] = TargetOrders(r)[k]
      BY <2>2 DEF TargetOrders
    <3>2. \/ TargetOrders(r)'[n + 1] = {wantTarget'[r]}
          \/ TargetOrders(r)'[n + 1] = {} /\ wantTarget'[r] = wantTarget[r]
      BY <1>4, <3>1 DEF Order, Moves, Mark
    <3>3. Follows(wantTarget[r], TargetNow(r), TargetOrders(r))
      BY DEF CaughtUpInv, OrdersInv
    <3> HIDE DEF n
    <3>4. Follows(wantTarget'[r], TargetNow(r), TargetOrders(r)')
      BY <2>2, <3>1, <3>2, <3>3, FollowsMore
    <3>5. QED
      BY <1>2, <3>4
  <2>5. ASSUME NEW r \in Robots
        PROVE  Follows(wantTool'[r], ToolNow(r)', ToolOrders(r)')
    <3>1. DOMAIN ToolOrders(r) = 1..n /\ DOMAIN ToolOrders(r)' = 1..(n + 1)
          /\ ToolOrders(r)'[n + 1] = Order(Tools(m, r), m.id)
          /\ \A k \in 1..n : ToolOrders(r)'[k] = ToolOrders(r)[k]
      BY <2>2 DEF ToolOrders
    <3>2. \/ ToolOrders(r)'[n + 1] = {wantTool'[r]}
          \/ ToolOrders(r)'[n + 1] = {} /\ wantTool'[r] = wantTool[r]
      BY <1>4, <3>1 DEF Order, Tools, Mark
    <3>3. Follows(wantTool[r], ToolNow(r), ToolOrders(r))
      BY DEF CaughtUpInv, OrdersInv
    <3> HIDE DEF n
    <3>4. Follows(wantTool'[r], ToolNow(r), ToolOrders(r)')
      BY <2>2, <3>1, <3>2, <3>3, FollowsMore
    <3>5. QED
      BY <1>2, <3>4
  <2>6. QED
    BY <2>3, <2>4, <2>5 DEF OrdersInv
<1>5. QED
  BY <1>3, <1>4 DEF Arrive

LEMMA ReceiveOrders == ASSUME CaughtUpInv, Receive PROVE OrdersInv'
<1> DEFINE n == Len(mailbox) - 1
           m == Head(mailbox)
<1>1. /\ pc = "recv" /\ pc' = "handle" /\ msg' = m /\ i' = 0
      /\ UNCHANGED <<asked, target, tool, wantSwitch, wantTarget, wantTool>>
  BY DEF Receive, Step, robotVars
<1>2. n \in Nat /\ DOMAIN mailbox = 1..(n + 1) /\ DOMAIN mailbox' = 1..n
      /\ mailbox[1] = m /\ \A k \in 1..n : mailbox'[k] = mailbox[k + 1]
  BY DEF Receive, CaughtUpInv, TypeInv, TypeOK
<1>3. Follows(wantSwitch', SwitchNow', SwitchOrders')
  <2>1. DOMAIN SwitchOrders = 1..(n + 1) /\ DOMAIN SwitchOrders' = 1..n
        /\ SwitchOrders[1] = Order(m.kind \in {"on", "off"}, m.kind)
        /\ \A k \in 1..n : SwitchOrders'[k] = SwitchOrders[k + 1]
    BY <1>2 DEF SwitchOrders
  <2>2. \/ SwitchOrders[1] = {SwitchNow'}
        \/ SwitchOrders[1] = {} /\ SwitchNow' = SwitchNow
    BY <1>1, <2>1 DEF Order, SwitchNow, SwitchInHand, SwitchSteps
  <2>3. Follows(wantSwitch, SwitchNow, SwitchOrders)
    BY DEF CaughtUpInv, OrdersInv
  <2> HIDE DEF n
  <2>4. Follows(wantSwitch, SwitchNow', SwitchOrders')
    BY <1>2, <2>1, <2>2, <2>3, FollowsRest
  <2>5. QED
    BY <1>1, <2>4
<1>4. ASSUME NEW r \in Robots
      PROVE  Follows(wantTarget'[r], TargetNow(r)', TargetOrders(r)')
  <2>1. DOMAIN TargetOrders(r) = 1..(n + 1) /\ DOMAIN TargetOrders(r)' = 1..n
        /\ TargetOrders(r)[1] = Order(Moves(m, r), m.id)
        /\ \A k \in 1..n : TargetOrders(r)'[k] = TargetOrders(r)[k + 1]
    BY <1>2 DEF TargetOrders
  <2>2. \/ TargetOrders(r)[1] = {TargetNow(r)'}
        \/ TargetOrders(r)[1] = {} /\ TargetNow(r)' = TargetNow(r)
    BY <1>1, <2>1 DEF Order, TargetNow, TargetInHand, Moves
  <2>3. Follows(wantTarget[r], TargetNow(r), TargetOrders(r))
    BY DEF CaughtUpInv, OrdersInv
  <2> HIDE DEF n
  <2>4. Follows(wantTarget[r], TargetNow(r)', TargetOrders(r)')
    BY <1>2, <2>1, <2>2, <2>3, FollowsRest
  <2>5. QED
    BY <1>1, <2>4
<1>5. ASSUME NEW r \in Robots
      PROVE  Follows(wantTool'[r], ToolNow(r)', ToolOrders(r)')
  <2>1. DOMAIN ToolOrders(r) = 1..(n + 1) /\ DOMAIN ToolOrders(r)' = 1..n
        /\ ToolOrders(r)[1] = Order(Tools(m, r), m.id)
        /\ \A k \in 1..n : ToolOrders(r)'[k] = ToolOrders(r)[k + 1]
    BY <1>2 DEF ToolOrders
  <2>2. \/ ToolOrders(r)[1] = {ToolNow(r)'}
        \/ ToolOrders(r)[1] = {} /\ ToolNow(r)' = ToolNow(r)
    BY <1>1, <2>1 DEF Order, ToolNow, ToolInHand, Tools
  <2>3. Follows(wantTool[r], ToolNow(r), ToolOrders(r))
    BY DEF CaughtUpInv, OrdersInv
  <2> HIDE DEF n
  <2>4. Follows(wantTool[r], ToolNow(r)', ToolOrders(r)')
    BY <1>2, <2>1, <2>2, <2>3, FollowsRest
  <2>5. QED
    BY <1>1, <2>4
<1>6. QED
  BY <1>3, <1>4, <1>5 DEF OrdersInv

\* What is in hand or there already stays so, while the mailbox is left alone
LEMMA SameOrders ==
    ASSUME OrdersInv, UNCHANGED <<mailbox, wantSwitch, wantTarget, wantTool>>,
           UNCHANGED SwitchNow, \A r \in Robots : UNCHANGED <<TargetNow(r), ToolNow(r)>>
    PROVE  OrdersInv'
<1>1. UNCHANGED SwitchOrders /\ \A r \in Robots : UNCHANGED <<TargetOrders(r), ToolOrders(r)>>
  BY DEF SwitchOrders, TargetOrders, ToolOrders
<1>2. ASSUME NEW r \in Robots PROVE Follows(wantTarget[r], TargetNow(r), TargetOrders(r))'
  <2>1. Follows(wantTarget[r], TargetNow(r), TargetOrders(r))
    BY DEF OrdersInv
  <2>2. QED
    BY <1>1, <2>1
<1>3. ASSUME NEW r \in Robots PROVE Follows(wantTool[r], ToolNow(r), ToolOrders(r))'
  <2>1. Follows(wantTool[r], ToolNow(r), ToolOrders(r))
    BY DEF OrdersInv
  <2>2. QED
    BY <1>1, <2>1
<1>4. Follows(wantSwitch, SwitchNow, SwitchOrders)'
  BY <1>1 DEF OrdersInv
<1>5. QED
  BY <1>2, <1>3, <1>4 DEF OrdersInv

\* A step that touches neither the robots nor the message in hand
LEMMA IdleOrders ==
    ASSUME OrdersInv, AlikeInv, UNCHANGED <<clientVars, pc, msg, i, robotVars, is_stop>>
    PROVE  OrdersInv' /\ AlikeInv'
<1>1. UNCHANGED SwitchNow /\ \A r \in Robots : UNCHANGED <<TargetNow(r), ToolNow(r)>>
  BY DEF SwitchNow, TargetNow, ToolNow, SwitchInHand, TargetInHand, ToolInHand, robotVars
<1>2. OrdersInv'
  BY <1>1, SameOrders DEF clientVars
<1>3. QED
  BY <1>2 DEF AlikeInv, SwitchInHand, robotVars

\* Obeying the message in hand, step by step
LEMMA HandleOrders == ASSUME CaughtUpInv, Handle PROVE OrdersInv' /\ AlikeInv'
<1> USE DEF robotVars, Step
<1>1. /\ RN \in Nat \ {0} /\ 0 \in Robots /\ i \in 0..RN /\ Robots \subseteq Int
      /\ \A r \in Robots : 0 <= r /\ r < RN
      /\ target \in [Robots -> 0..MaxMessages] /\ tool \in [Robots -> 0..MaxMessages]
      /\ asked \in [Robots -> Switch] /\ is_stop \in BOOLEAN
      /\ i < RN => i \in Robots
  BY RobotsAssumption DEF CaughtUpInv, TypeInv, TypeOK, Robots
<1>2. UNCHANGED <<mailbox, wantSwitch, wantTarget, wantTool, msg>>
  BY DEF Handle, Dispatch, StopRecording, PowerOff, Wake, PowerOn, Resume, SpawnRecorder,
         ServoRobot, MotionEnds, Gripper, clientVars
<1>3. HandleInv /\ AlikeInv /\ OrdersInv
  BY DEF CaughtUpInv, TypeInv
<1>4. SUFFICES AlikeInv' /\ UNCHANGED SwitchNow
               /\ \A r \in Robots : UNCHANGED TargetNow(r) /\ UNCHANGED ToolNow(r)
  BY <1>2, <1>3, <1>4, SameOrders
<1> USE DEF SwitchNow, TargetNow, ToolNow, SwitchInHand, TargetInHand, ToolInHand, Moves, Tools,
            SwitchSteps
<1>5. CASE Dispatch
  <2>1. pc = "handle" /\ i = 0 /\ msg \in Sound /\ UNCHANGED <<i, asked, tool, is_stop>>
    BY <1>3, <1>5 DEF Dispatch, HandleInv
  <2>2. msg.kind \in MessageKind
    BY <2>1, SoundMessage
  <2>3. CASE msg.kind \in {"on", "off"}
    <3>1. pc' = "stop" /\ target' = target /\ msg.robots = {}
      BY <1>5, <2>1, <2>3 DEF Dispatch, Sound
    <3>2. QED
      BY <1>1, <1>2, <1>3, <2>1, <2>3, <3>1 DEF AlikeInv
  <2>4. CASE msg.kind = "malformed"
    <3>1. pc' = "dead" /\ target' = target /\ msg.robots = {}
      BY <1>5, <2>1, <2>4 DEF Dispatch, Sound
    <3>2. QED
      BY <1>1, <1>2, <1>3, <2>1, <2>4, <3>1 DEF AlikeInv
  <2>5. CASE msg.kind = "move"
    <3>1. pc' = "motion" /\ target' = [target EXCEPT ![0] = msg.id] /\ msg.robots = {0}
      BY <1>5, <2>1, <2>5 DEF Dispatch, Sound
    <3>2. QED
      BY <1>1, <1>2, <1>3, <2>1, <2>5, <3>1 DEF AlikeInv
  <2>6. CASE msg.kind = "servo"
    <3>1. pc' = "servo" /\ target' = target
      BY <1>5, <2>1, <2>6 DEF Dispatch
    <3>2. QED
      BY <1>1, <1>2, <1>3, <2>1, <2>6, <3>1 DEF AlikeInv
  <2>7. CASE msg.kind = "gripper"
    <3>1. pc' = "gripper" /\ target' = target
      BY <1>5, <2>1, <2>7 DEF Dispatch
    <3>2. QED
      BY <1>1, <1>2, <1>3, <2>1, <2>7, <3>1 DEF AlikeInv
  <2>8. QED
    BY <2>2, <2>3, <2>4, <2>5, <2>6, <2>7 DEF MessageKind
<1>6. CASE StopRecording \/ Wake \/ Resume
  BY <1>1, <1>2, <1>3, <1>6 DEF StopRecording, Wake, Resume, AlikeInv
<1>7. CASE PowerOff
  <2>1. pc = "power_off" /\ is_stop /\ i \in Robots /\ UNCHANGED <<target, tool, is_stop>>
        /\ asked' = [asked EXCEPT ![i] = "off"]
        /\ \A r \in Robots : r < i => asked[r] = msg.kind
    BY <1>1, <1>3, <1>7 DEF PowerOff, HandleInv, AlikeInv
  <2>2. CASE msg.kind = "on" /\ pc' = "sleep" /\ UNCHANGED i
    <3>1. \A r \in Robots : r < i => asked'[r] = msg.kind
      BY <1>1, <2>1
    <3>2. AlikeInv'
      BY <1>2, <2>1, <2>2, <3>1 DEF AlikeInv
    <3>3. QED
      BY <1>2, <2>1, <2>2, <3>2
  <2>3. CASE msg.kind = "off" /\ NextRobot("stop")
    <3>1. i' = i + 1 /\ pc' \in {"stop", "recv"} /\ (pc' = "recv" => i + 1 >= RN)
      BY <1>1, <2>3 DEF NextRobot
    <3>2. \A r \in Robots : r < i + 1 => asked'[r] = "off"
      BY <1>1, <2>1, <2>3
    <3>3. pc' = "recv" => \A r \in Robots : asked'[r] = "off"
      BY <1>1, <3>1, <3>2
    <3>4. AlikeInv'
      BY <1>1, <1>2, <2>1, <2>3, <3>1, <3>2, <3>3 DEF AlikeInv
    <3>5. UNCHANGED SwitchNow
      BY <1>1, <1>2, <2>1, <2>3, <3>1, <3>3
    <3>6. QED
      BY <1>2, <2>1, <3>1, <3>4, <3>5
  <2>4. QED
    BY <1>7, <2>2, <2>3 DEF PowerOff
<1>8. CASE PowerOn
  BY <1>1, <1>2, <1>3, <1>8 DEF PowerOn, HandleInv, AlikeInv
<1>9. CASE SpawnRecorder
  <2>1. pc = "record" /\ ~is_stop /\ i \in Robots /\ UNCHANGED <<asked, target, tool, is_stop>>
        /\ msg.kind = "on" /\ asked[i] = "on"
        /\ \A r \in Robots : r < i => asked[r] = msg.kind
    BY <1>1, <1>3, <1>9 DEF SpawnRecorder, HandleInv, AlikeInv
  <2>2. i' = i + 1 /\ pc' \in {"stop", "recv"} /\ (pc' = "recv" => i + 1 >= RN)
    BY <1>1, <1>9 DEF SpawnRecorder, NextRobot
  <2>3. \A r \in Robots : r < i + 1 => asked'[r] = "on"
    BY <1>1, <2>1
  <2>4. pc' = "recv" => \A r \in Robots : asked'[r] = "on"
    BY <1>1, <2>2, <2>3
  <2>5. AlikeInv'
    <3>1. CASE pc' = "stop"
      BY <1>2, <2>1, <2>2, <2>3, <3>1 DEF AlikeInv
    <3>2. CASE pc' = "recv"
      BY <1>1, <2>1, <2>4, <3>2 DEF AlikeInv
    <3>3. QED
      BY <2>2, <3>1, <3>2
  <2>6. UNCHANGED SwitchNow
    BY <1>1, <1>2, <2>1, <2>2, <2>4
  <2>7. QED
    BY <1>2, <2>1, <2>2, <2>5, <2>6
<1>10. CASE ServoRobot
  <2>1. pc = "servo" /\ i \in Robots /\ UNCHANGED <<asked, is_stop>>
        /\ target' = (IF i \in msg.robots THEN [target EXCEPT ![i] = msg.id] ELSE target)
        /\ tool' = (IF i \in msg.robots /\ msg.tool THEN [tool EXCEPT ![i] = msg.id] ELSE tool)
    BY <1>1, <1>3, <1>10 DEF ServoRobot, HandleInv
  <2>2. i' = i + 1 /\ pc' \in {"servo", "recv"} /\ (pc' = "recv" => i + 1 >= RN)
    BY <1>1, <1>10 DEF ServoRobot, NextRobot
  <2>0. ASSUME NEW r \in Robots
        PROVE  /\ r = i => ~(r >= i + 1)
               /\ r # i => (pc' = "servo" /\ r >= i + 1 <=> r >= i)
               /\ target'[r] = IF r = i /\ i \in msg.robots THEN msg.id ELSE target[r]
               /\ tool'[r] = IF r = i /\ i \in msg.robots /\ msg.tool THEN msg.id ELSE tool[r]
    BY <1>1, <2>1, <2>2
  <2>3. \A r \in Robots : UNCHANGED TargetNow(r)
    BY <1>1, <1>2, <2>1, <2>2, <2>0
  <2>4. \A r \in Robots : UNCHANGED ToolNow(r)
    BY <1>1, <1>2, <2>1, <2>2, <2>0
  <2>5. AlikeInv' /\ UNCHANGED SwitchNow
    BY <1>3, <2>1, <2>2 DEF AlikeInv
  <2>6. QED
    BY <2>3, <2>4, <2>5
<1>11. CASE MotionEnds
  <2>1. pc = "motion" /\ pc' = "recv" /\ UNCHANGED <<i, asked, is_stop, target>>
        /\ tool' = (IF msg.tool THEN [tool EXCEPT ![0] = msg.id] ELSE tool)
        /\ msg.robots = {0}
    BY <1>3, <1>11 DEF MotionEnds, HandleInv, Sound
  <2>2. \A r \in Robots : UNCHANGED ToolNow(r)
    BY <1>1, <1>2, <2>1
  <2>3. QED
    BY <1>2, <1>3, <2>1, <2>2 DEF AlikeInv
<1>12. CASE Gripper
  <2>1. pc = "gripper" /\ i \in Robots /\ UNCHANGED <<asked, target, is_stop>> /\ msg.tool
        /\ tool' = (IF i \in msg.robots THEN [tool EXCEPT ![i] = msg.id] ELSE tool)
    BY <1>1, <1>3, <1>12 DEF Gripper, HandleInv, Sound
  <2>2. i' = i + 1 /\ pc' \in {"gripper", "recv"} /\ (pc' = "recv" => i + 1 >= RN)
    BY <1>1, <1>12 DEF Gripper, NextRobot
  <2>0. ASSUME NEW r \in Robots
        PROVE  /\ r = i => ~(r >= i + 1)
               /\ r # i => (pc' = "gripper" /\ r >= i + 1 <=> r >= i)
               /\ tool'[r] = IF r = i /\ i \in msg.robots THEN msg.id ELSE tool[r]
    BY <1>1, <2>1, <2>2
  <2>3. \A r \in Robots : UNCHANGED ToolNow(r)
    BY <1>1, <1>2, <2>1, <2>2, <2>0
  <2>4. QED
    BY <1>2, <1>3, <2>1, <2>2, <2>3 DEF AlikeInv
<1>13. QED
  BY <1>5, <1>6, <1>7, <1>8, <1>9, <1>10, <1>11, <1>12 DEF Handle

LEMMA SetupStep == ASSUME SetupInv, [Next]_vars PROVE SetupInv'
<1>1. CASE PluginMain
  BY <1>1 DEF PluginMain, Setup, LoadFails, Load, Bind, Connect, SetConflate, Subscribe,
              StartSubscriber, SetupInv
<1>2. CASE UNCHANGED <<setupVars, pc>>
  BY <1>2 DEF SetupInv, setupVars
<1>3. CASE Subscriber
  <2>1. UNCHANGED setupVars /\ pc # "none"
    BY <1>3 DEF Subscriber, Handle, Receive, Dispatch, StopRecording, PowerOff, Wake, PowerOn,
                Resume, SpawnRecorder, ServoRobot, MotionEnds, Gripper, Step
  <2>2. QED
    BY <2>1 DEF SetupInv, setupVars
<1>4. ASSUME NEW r \in Recorders, Recorder(r) PROVE UNCHANGED <<setupVars, pc>>
  BY <1>4 DEF Recorder, CheckStop, SaveSample
<1>5. Arrive \/ Publisher \/ UNCHANGED vars => UNCHANGED <<setupVars, pc>>
  BY DEF Arrive, Publisher, ReadRobot, Publish, vars
<1>6. QED
  BY <1>1, <1>2, <1>3, <1>4, <1>5 DEF Next, Ended

LEMMA CaughtUpStep == ASSUME CaughtUpInv, [Next]_vars PROVE CaughtUpInv'
<1>1. TypeInv' /\ SetupInv'
  BY TypeStep, SetupStep DEF CaughtUpInv
<1>2. OrdersInv /\ AlikeInv
  BY DEF CaughtUpInv
<1>3. CASE PluginMain
  <2>1. /\ UNCHANGED <<clientVars, msg, i, robotVars, is_stop>>
        /\ pc' = pc \/ (pc = "none" /\ pc' = "recv")
    BY <1>3 DEF PluginMain, Setup, LoadFails, Load, Bind, Connect, SetConflate, Subscribe,
                StartSubscriber, CaughtUpInv, SetupInv
  <2>2. UNCHANGED SwitchNow /\ \A r \in Robots : UNCHANGED <<TargetNow(r), ToolNow(r)>>
    BY <2>1 DEF SwitchNow, TargetNow, ToolNow, SwitchInHand, TargetInHand, ToolInHand,
                SwitchSteps, robotVars
  <2>3. OrdersInv'
    BY <1>2, <2>1, <2>2, SameOrders DEF clientVars
  <2>4. AlikeInv'
    BY <1>2, <2>1 DEF AlikeInv, SwitchInHand, SwitchSteps, robotVars
  <2>5. QED
    BY <1>1, <2>3, <2>4 DEF CaughtUpInv
<1>4. CASE Arrive
  <2>1. AlikeInv'
    BY <1>2, <1>4 DEF Arrive, AlikeInv, SwitchInHand, robotVars
  <2>2. QED
    BY <1>1, <1>4, <2>1, ArriveOrders DEF CaughtUpInv
<1>5. CASE Receive
  <2>1. AlikeInv'
    BY <1>2, <1>5 DEF Receive, Step, AlikeInv, SwitchInHand, SwitchSteps, robotVars
  <2>2. QED
    BY <1>1, <1>5, <2>1, ReceiveOrders DEF CaughtUpInv
<1>6. CASE Handle
  BY <1>1, <1>6, HandleOrders DEF CaughtUpInv
<1>7. ASSUME NEW r \in Recorders, Recorder(r)
      PROVE  UNCHANGED <<clientVars, pc, msg, i, robotVars, is_stop>>
  BY <1>7 DEF Recorder, CheckStop, SaveSample
<1>8. Publisher \/ UNCHANGED vars => UNCHANGED <<clientVars, pc, msg, i, robotVars, is_stop>>
  BY DEF Publisher, ReadRobot, Publish, vars
<1>9. QED
  BY <1>1, <1>2, <1>3, <1>4, <1>5, <1>6, <1>7, <1>8, IdleOrders
     DEF CaughtUpInv, Next, Subscriber, Ended

\* The server keeps every order: once it waits for the next message, the robots, the
\* tools and the recording are as the last message about each of them asked.
THEOREM OrdersKept == Spec => []CaughtUp
<1>1. CaughtUpInv => CaughtUp
  <2> SUFFICES ASSUME CaughtUpInv, pc = "recv", mailbox = <<>>
               PROVE  /\ \A r \in Robots : asked[r] = wantSwitch
                      /\ is_stop = (wantSwitch # "on")
                      /\ target = wantTarget /\ tool = wantTool
    BY DEF CaughtUp
  <2>1. DOMAIN mailbox = {}
    OBVIOUS
  <2>2. DOMAIN SwitchOrders = {} /\ \A r : DOMAIN TargetOrders(r) = {} /\ DOMAIN ToolOrders(r) = {}
    BY <2>1 DEF SwitchOrders, TargetOrders, ToolOrders
  <2>3. /\ wantSwitch = SwitchNow
        /\ \A r \in Robots : wantTarget[r] = TargetNow(r) /\ wantTool[r] = ToolNow(r)
    BY <2>2 DEF CaughtUpInv, OrdersInv, Follows
  <2>4. SwitchNow = asked[0] /\ ~SwitchInHand
        /\ \A r \in Robots : TargetNow(r) = target[r] /\ ToolNow(r) = tool[r]
    BY DEF SwitchNow, TargetNow, ToolNow, SwitchInHand, TargetInHand, ToolInHand, SwitchSteps
  <2>5. {target, tool, wantTarget, wantTool} \subseteq [Robots -> 0..MaxMessages]
    BY DEF CaughtUpInv, TypeInv, TypeOK
  <2>6. target = wantTarget /\ tool = wantTool
    BY <2>3, <2>4, <2>5
  <2>7. QED
    BY <2>3, <2>4, <2>6 DEF CaughtUpInv, AlikeInv
<1>2. CaughtUpInv /\ [Next]_vars => CaughtUpInv'
  BY CaughtUpStep
<1>3. QED
  BY <1>1, <1>2, CaughtUpInit, PTL DEF Spec

================================================================================
