----------------------------- MODULE Programs_proofs ----------------------------
(***************************************************************************)
(* The programs around the controller: remote control for any directions   *)
(* and any limit of silent receives, the end effector server for any       *)
(* robots, values and number of messages, the claw game for any number of  *)
(* fetches and the teach client for any number of lost commands.           *)
(***************************************************************************)
EXTENDS Programs, SequenceTheorems, TLAPS

-----------------------------------------------------------------------------
(* Remote control. *)

\* Between two receives the robot does what the last command said, or stands after a fault
FollowInv ==
    /\ pc \in {"recv", "check", "parse", "stop"} =>
          motion = moveState1 \/ (fault /\ motion = 0)
    /\ pc = "start" => moveState1 = 0 /\ count = 0
    /\ pc = "go" /\ moveState # 0 => motion = 0

\* The latest command is in force only while no fault has come after it
FreshInv ==
    /\ fresh => ~fault /\ pc \notin {"start", "check", "parse", "recover"}
    /\ fresh /\ pc \in {"stop", "go"} => last = moveState
    /\ fresh /\ pc = "recv" => motion = last

ConstraintInv ==
    /\ pc \in {"start", "recover"} => motion \in {Home, 0}
    /\ pc \notin {"start", "recover"} => constraint

SilenceInv ==
    /\ pc \in {"check", "recover", "parse", "stop", "go"} => count = 0
    /\ pc = "recv" => count < SilenceLimit /\ (count > 0 => motion = 0)
    /\ pc = "ended" => motion = 0

TeleopInv == TypeOK /\ FollowInv /\ FreshInv /\ ConstraintInv /\ SilenceInv

LEMMA TeleopInit == ASSUME Init PROVE TeleopInv
<1>1. SilenceLimit \in Nat /\ SilenceLimit > 0
  BY SilenceAssumption
<1>2. TypeOK
  <2>1. count \in 0..SilenceLimit
    BY <1>1 DEF Init
  <2>2. QED
    BY <2>1, Zenon DEF Init, TypeOK, Commands
<1>3. SilenceInv
  BY <1>1 DEF Init, SilenceInv
<1>4. FollowInv /\ FreshInv /\ ConstraintInv
  BY Zenon DEF Init, FollowInv, FreshInv, ConstraintInv
<1>5. QED
  BY <1>2, <1>3, <1>4 DEF TeleopInv

LEMMA TeleopStep == ASSUME TeleopInv, Next \/ UNCHANGED vars PROVE TeleopInv'
<1> USE DEF TeleopInv, TypeOK, Commands, FollowInv, FreshInv, ConstraintInv, SilenceInv,
            stateVars, robotVars
<1>0. SilenceLimit \in Nat /\ SilenceLimit > 0
  BY SilenceAssumption
<1>1. CASE Started
  BY <1>0, <1>1 DEF Started
<1>2. CASE Silence
  <2>1. /\ count' \in 0..SilenceLimit /\ pc' \in {"recv", "ended"}
        /\ pc' = "recv" => count' < SilenceLimit
    BY <1>0, <1>2 DEF Silence
  <2>2. TypeOK' /\ SilenceInv'
    BY <1>2, <2>1 DEF Silence
  <2>3. FollowInv' /\ FreshInv' /\ ConstraintInv'
    BY <1>2, <2>1, Zenon DEF Silence
  <2>4. QED
    BY <2>2, <2>3
<1>3. CASE Garbage
  <2>1. count' \in 0..SilenceLimit /\ count' < SilenceLimit /\ ~(count' > 0)
    BY <1>0, <1>3 DEF Garbage
  <2>2. QED
    BY <1>3, <2>1, Zenon DEF Garbage
<1>4. CASE Frame
  <2>1. count' \in 0..SilenceLimit
    BY <1>0, <1>4 DEF Frame
  <2>2. QED
    BY <1>4, <2>1, Zenon DEF Frame
<1>5. CASE Check
  BY <1>0, <1>5 DEF Check
<1>6. CASE Recovered
  BY <1>0, <1>6 DEF Recovered
<1>7. CASE Parse
  BY <1>0, <1>7 DEF Parse
<1>8. CASE Stop
  BY <1>0, <1>8 DEF Stop
<1>9. CASE Go
  BY <1>0, <1>9 DEF Go
<1>10. CASE Fault
  <2>1. /\ pc # "ended" /\ fault' = TRUE /\ motion' = 0 /\ fresh' = FALSE
        /\ UNCHANGED <<program, pc, cmd, stateVars, constraint, poseKnown, linked, last>>
    BY <1>10 DEF Fault
  <2>2. TypeOK'
    BY <2>1, Zenon
  <2>3. FollowInv' /\ FreshInv'
    BY <2>1, Zenon
  <2>4. ConstraintInv' /\ SilenceInv'
    BY <2>1, Zenon
  <2>5. QED
    BY <2>2, <2>3, <2>4
<1>11. CASE LinkDown
  <2>1. TypeOK'
    <3>1. linked' \in BOOLEAN
          /\ UNCHANGED <<program, pc, cmd, stateVars, robotVars, last, fresh>>
      BY <1>11 DEF LinkDown
    <3>2. QED
      BY <3>1
  <2>2. FollowInv' /\ FreshInv' /\ ConstraintInv' /\ SilenceInv'
    BY <1>11 DEF LinkDown
  <2>3. QED
    BY <2>1, <2>2
<1>12. CASE UNCHANGED vars
  BY <1>0, <1>12 DEF vars
<1>13. QED
  BY <1>1, <1>2, <1>3, <1>4, <1>5, <1>6, <1>7, <1>8, <1>9, <1>10, <1>11, <1>12 DEF Next, Step

-----------------------------------------------------------------------------
(* The end effector server. *)

\* The newest message is the one in the mailbox, or has been obeyed
Obeyed(msg) ==
    \A r \in Robots : /\ msg.topic = "Joint" /\ msg.joint[r] # 0 => joint[r] = msg.joint[r]
                      /\ msg.tool[r] # 0 => tool[r] = msg.tool[r]
MailInv ==
    /\ step \in {"option", "connect"} => pipe = <<>>
    /\ step = "connect" => conflate
    /\ step \notin {"option", "connect"} => conflating
    /\ pipe = <<>> \/ pipe = <<newest>>
    /\ pipe = <<>> => newest.topic = "garbage" \/ Obeyed(newest)

TestInv == Test!TypeOK /\ MailInv

LEMMA TestInit == ASSUME Test!Init PROVE TestInv
<1>1. pipe \in Seq(Test!Messages) /\ arrived \in 0..MaxMessages
  BY BoundsAssumption DEF Test!Init
<1>2. newest \in Test!Messages /\ newest.topic = "garbage"
  BY DEF Test!Init, Test!Messages
<1>3. Test!TypeOK
  BY <1>1, <1>2, Zenon DEF Test!Init, Test!TypeOK, Test!Field
<1>4. QED
  BY <1>2, <1>3 DEF Test!Init, TestInv, MailInv

\* A message is garbage, or has a field for every robot
LEMMA MessageFields == ASSUME NEW msg \in Test!Messages, msg.topic # "garbage"
                       PROVE  /\ msg.topic \in {"Joint", "Gripper"}
                              /\ msg.joint \in [Robots -> Test!Field]
                              /\ msg.tool \in [Robots -> Test!Field]
BY DEF Test!Messages

LEMMA TestStep == ASSUME TestInv, Test!Next \/ UNCHANGED testVars PROVE TestInv'
<1> USE BoundsAssumption
    DEF TestInv, Test!TypeOK, MailInv, Obeyed, Test!linkVars, Test!mailVars, Test!stateVars
<1>1. CASE Test!Receive
  <2>1. PICK msg \in Test!Messages : msg = newest /\ msg = Head(pipe) /\ pipe = <<msg>>
    BY <1>1 DEF Test!Receive
  <2>2. /\ step = "recv" /\ step' = "publish" /\ pipe' = <<>>
        /\ joint' = [r \in Robots |-> IF msg.topic = "Joint" /\ msg.joint[r] # 0
                                      THEN msg.joint[r] ELSE joint[r]]
        /\ tool' = [r \in Robots |-> IF Test!Taken(msg, r) THEN msg.tool[r] ELSE tool[r]]
        /\ UNCHANGED <<conflate, conflating, arrived, newest, due, reported, g_stop>>
    BY <1>1, <2>1 DEF Test!Receive
  <2>3. joint' \in [Robots -> Test!Field] /\ tool' \in [Robots -> Test!Field]
    BY <2>2, MessageFields DEF Test!Taken
  <2>4. msg.topic # "garbage" =>
           \A r \in Robots : /\ msg.topic = "Joint" /\ msg.joint[r] # 0 => joint'[r] = msg.joint[r]
                             /\ msg.tool[r] # 0 => tool'[r] = msg.tool[r]
    BY <2>2 DEF Test!Taken
  <2>5. QED
    <3>0. pipe' \in Seq(Test!Messages)
      BY <2>2
    <3>1. Test!TypeOK'
      BY <2>2, <2>3, <3>0, Zenon
    <3>2. MailInv'
      BY <2>1, <2>2, <2>4
    <3>3. QED
      BY <3>1, <3>2
<1>2. CASE Test!Arrive
  <2>1. PICK msg \in Test!Messages :
           newest' = msg /\ pipe' = IF conflating THEN <<msg>> ELSE Append(pipe, msg)
    BY <1>2 DEF Test!Arrive
  <2>2. /\ step \notin {"option", "connect"} /\ arrived < MaxMessages /\ arrived' = arrived + 1
        /\ UNCHANGED <<step, conflate, conflating, joint, tool, due, reported, g_stop>>
    BY <1>2 DEF Test!Arrive
  <2>3. pipe' = <<msg>> /\ pipe' \in Seq(Test!Messages) /\ pipe' # <<>>
    BY <2>1, <2>2
  <2>4. QED
    BY <2>1, <2>2, <2>3
<1>3. CASE Test!SetConflate \/ Test!Connect
  BY <1>3 DEF Test!SetConflate, Test!Connect
<1>4. CASE Test!TestStop \/ Test!ReceiveTimeout
  BY <1>4 DEF Test!TestStop, Test!ReceiveTimeout
<1>5. CASE Test!Publish
  <2>1. /\ reported' \in [joint : [Robots -> Test!Field], tool : [Robots -> Test!Field]]
        /\ due' \in BOOLEAN
    <3>1. CASE due
      <4>1. reported' = [joint |-> joint, tool |-> tool] /\ due' = FALSE
        BY <1>5, <3>1, Zenon DEF Test!Publish
      <4>2. QED
        BY <4>1
    <3>2. CASE ~due
      BY <1>5, <3>2, Zenon DEF Test!Publish
    <3>3. QED
      BY <3>1, <3>2
  <2>2. QED
    BY <1>5, <2>1 DEF Test!Publish
<1>6. CASE Test!PeriodEnds \/ Test!Signal
  BY <1>6 DEF Test!PeriodEnds, Test!Signal
<1>7. CASE UNCHANGED testVars
  BY <1>7 DEF testVars
<1>8. QED
  BY <1>1, <1>2, <1>3, <1>4, <1>5, <1>6, <1>7 DEF Test!Next, Test!Main

-----------------------------------------------------------------------------
(* The claw game. *)

\* From some step on the fetch opens the gripper and does not close it again
OpensAtLast(s) ==
    \E j \in 1..Len(s) : s[j] = "open" /\ \A k \in 1..Len(s) : k > j => s[k] # "close"

ThreadInv ==
    /\ alive = IsRunMoveOut
    /\ alive => main = "read"
    /\ ~alive => script = <<>>
    /\ main \in {"read", "set"} => thread = 0
\* A pulse is in hand only while its step is, and raises no output but its own
PulseInv ==
    /\ phase # 0 => script # <<>> /\ script[1] \in {"open", "close"}
    /\ phase # 2 => DO[0] = 0 /\ DO[1] = 0
    /\ phase = 2 /\ script[1] = "open" => DO[1] = 0 /\ grip = "open"
    /\ phase = 2 /\ script[1] = "close" => DO[0] = 0
GripInv ==
    grip = "closed" \/ (\E j \in 1..Len(script) : script[j] = "close") => OpensAtLast(script)

ClawInv == Claw!TypeOK /\ ThreadInv /\ PulseInv /\ GripInv

LEMMA ClawInit == ASSUME Claw!Init PROVE ClawInv
<1>1. /\ script = <<>> /\ Len(script) = 0 /\ script \in Seq({"move", "open", "close"})
      /\ fetches \in 0..MaxFetches
  BY BoundsAssumption DEF Claw!Init
<1>2. Claw!TypeOK
  BY <1>1 DEF Claw!Init, Claw!TypeOK
<1>3. ThreadInv
  BY DEF Claw!Init, ThreadInv
<1>4. PulseInv
  BY DEF Claw!Init, PulseInv
<1>5. GripInv
  BY <1>1 DEF Claw!Init, GripInv
<1>6. QED
  BY <1>2, <1>3, <1>4, <1>5 DEF ClawInv

\* A fetch, with or without a fall, opens the gripper at last
LEMMA FetchOpens ==
    ASSUME NEW falls \in BOOLEAN
    PROVE  Claw!Fetch(falls) \in Seq({"move", "open", "close"}) /\ OpensAtLast(Claw!Fetch(falls))
<1> DEFINE Steps == {"move", "open", "close"}
           fall == IF falls THEN <<"open", "close">> ELSE <<>>
           d == <<"move", "close", "move">> \o fall
           e == <<"move", "move", "open", "move", "move">>
           s == d \o e
<1>1. d \in Seq(Steps)
  <2>1. /\ <<"move", "close", "move">> \in Seq(Steps) /\ <<"open", "close">> \in Seq(Steps)
        /\ <<>> \in Seq(Steps)
    OBVIOUS
  <2>2. fall \in Seq(Steps)
    BY <2>1
  <2> HIDE DEF fall
  <2>3. QED
    BY <2>1, <2>2
<1>2. e \in Seq(Steps) /\ Len(e) = 5 /\ e[3] = "open" /\ e[4] = "move" /\ e[5] = "move"
  OBVIOUS
<1>3. Claw!Fetch(falls) = s
  BY DEF Claw!Fetch
<1> HIDE DEF d, e
<1>4. s \in Seq(Steps) /\ Len(d) \in Nat /\ Len(s) = Len(d) + 5
  <2>1. s \in Seq(Steps) /\ Len(s) = Len(d) + Len(e)
    BY <1>1, <1>2, ConcatProperties, Zenon
  <2>2. QED
    BY <1>1, <1>2, <2>1
<1>5. s[Len(d) + 3] = e[3] /\ s[Len(d) + 4] = e[4] /\ s[Len(d) + 5] = e[5]
  BY <1>1, <1>2, <1>4
<1> HIDE DEF s
<1>6. Len(d) + 3 \in 1..Len(s) /\ s[Len(d) + 3] = "open"
  BY <1>2, <1>4, <1>5
<1>7. ASSUME NEW k \in 1..Len(s), k > Len(d) + 3 PROVE s[k] # "close"
  <2>1. k \in {Len(d) + 4, Len(d) + 5}
    BY <1>4, <1>7
  <2>2. QED
    BY <1>2, <1>5, <2>1
<1>8. QED
  BY <1>3, <1>4, <1>6, <1>7 DEF OpensAtLast

\* A step that is done leaves the rest: a "close" of it was one of the script, and an
\* "open" after every "close" stays, unless it was the step itself
LEMMA RestOpens ==
    ASSUME NEW s \in Seq({"move", "open", "close"}), s # <<>>
    PROVE  /\ Tail(s) \in Seq({"move", "open", "close"})
           /\ (\E j \in 1..Len(Tail(s)) : Tail(s)[j] = "close")
              => \E j \in 1..Len(s) : s[j] = "close"
           /\ OpensAtLast(s) => \/ OpensAtLast(Tail(s))
                                \/ s[1] = "open" /\ \A j \in 1..Len(Tail(s)) : Tail(s)[j] # "close"
<1>1. /\ Len(s) \in Nat /\ Len(s) > 0 /\ Len(Tail(s)) = Len(s) - 1
      /\ \A j \in 1..Len(Tail(s)) : Tail(s)[j] = s[j + 1]
      /\ Tail(s) \in Seq({"move", "open", "close"})
  OBVIOUS
<1>2. (\E j \in 1..Len(Tail(s)) : Tail(s)[j] = "close") => \E j \in 1..Len(s) : s[j] = "close"
  <2>1. \A j \in 1..Len(Tail(s)) : j + 1 \in 1..Len(s)
    BY <1>1
  <2>2. QED
    BY <1>1, <2>1
<1>3. ASSUME OpensAtLast(s)
      PROVE  \/ OpensAtLast(Tail(s))
             \/ s[1] = "open" /\ \A j \in 1..Len(Tail(s)) : Tail(s)[j] # "close"
  <2>1. PICK i \in 1..Len(s) : s[i] = "open" /\ \A k \in 1..Len(s) : k > i => s[k] # "close"
    BY <1>3 DEF OpensAtLast
  <2>2. CASE i = 1
    BY <1>1, <2>1, <2>2
  <2>3. CASE i # 1
    <3>1. i - 1 \in 1..Len(Tail(s)) /\ Tail(s)[i - 1] = "open"
      BY <1>1, <2>1, <2>3
    <3>2. \A k \in 1..Len(Tail(s)) : k > i - 1 => Tail(s)[k] # "close"
      BY <1>1, <2>1
    <3>3. QED
      BY <3>1, <3>2 DEF OpensAtLast
  <2>4. QED
    BY <2>2, <2>3
<1>4. QED
  BY <1>1, <1>2, <1>3

LEMMA PulseStep ==
    ASSUME ClawInv,
           \/ Claw!Pulse("open", 0, "open") \/ Claw!Pulse("close", 1, "closed")
    PROVE  ClawInv'
<1> DEFINE Steps == {"move", "open", "close"}
<1>1. /\ alive /\ script # <<>> /\ script[1] = Head(script)
      /\ UNCHANGED <<main, IsRunMoveOut, fetches, alive, thread, travelling>>
  BY DEF ClawInv, Claw!TypeOK, Claw!Pulse, Claw!Doing
<1>2. /\ phase \in 0..2 /\ script \in Seq(Steps)
      /\ DO \in [{0, 1} -> {0, 1}] /\ grip \in {"open", "closed"}
  BY DEF ClawInv, Claw!TypeOK
<1>3. /\ phase' = (phase + 1) % 3
      /\ script' = IF phase = 2 THEN Tail(script) ELSE script
      /\ \/ /\ script[1] = "open" /\ DO' = [DO EXCEPT ![0] = IF phase = 1 THEN 1 ELSE 0]
            /\ grip' = IF phase = 1 THEN "open" ELSE grip
         \/ /\ script[1] = "close" /\ DO' = [DO EXCEPT ![1] = IF phase = 1 THEN 1 ELSE 0]
            /\ grip' = IF phase = 1 THEN "closed" ELSE grip
  BY <1>1 DEF Claw!Pulse, Claw!Doing
<1>4. Claw!TypeOK'
  <2>1. /\ phase' \in 0..2 /\ script' \in Seq(Steps)
        /\ DO' \in [{0, 1} -> {0, 1}] /\ grip' \in {"open", "closed"}
    BY <1>1, <1>2, <1>3, RestOpens
  <2>2. QED
    BY <1>1, <2>1, Zenon DEF ClawInv, Claw!TypeOK
<1>5. ThreadInv'
  <2>1. script # <<>> /\ ThreadInv
    BY <1>1 DEF ClawInv
  <2>2. QED
    BY <1>1, <2>1, Zenon DEF ThreadInv
<1>6. PulseInv'
  <2>1. PulseInv
    BY DEF ClawInv
  <2>2. CASE phase = 0
    BY <1>1, <1>2, <1>3, <2>1, <2>2 DEF PulseInv
  <2>3. CASE phase = 1
    BY <1>1, <1>2, <1>3, <2>1, <2>3 DEF PulseInv
  <2>4. CASE phase = 2
    <3>1. phase' = 0
      BY <1>3, <2>4
    <3>2. DO'[0] = 0 /\ DO'[1] = 0
      BY <1>2, <1>3, <2>1, <2>4 DEF PulseInv
    <3>3. QED
      BY <3>1, <3>2 DEF PulseInv
  <2>5. QED
    BY <1>2, <2>2, <2>3, <2>4
<1>7. GripInv'
  <2>1. GripInv /\ PulseInv
    BY DEF ClawInv
  <2>2. CASE phase = 0
    BY <1>3, <2>1, <2>2 DEF GripInv
  <2>3. CASE phase = 1
    <3>1. script' = script /\ 1 \in 1..Len(script)
      BY <1>1, <1>2, <1>3, <2>3
    <3>2. QED
      BY <1>3, <2>1, <2>3, <3>1 DEF GripInv
  <2>4. CASE phase = 2
    <3>1. script' = Tail(script) /\ grip' = grip /\ (script[1] = "open" => grip = "open")
      BY <1>3, <2>1, <2>4 DEF PulseInv
    <3>2. QED
      BY <1>1, <1>2, <2>1, <3>1, RestOpens DEF GripInv
  <2>5. QED
    BY <1>2, <2>2, <2>3, <2>4
<1>8. QED
  BY <1>4, <1>5, <1>6, <1>7 DEF ClawInv

LEMMA ClawStep == ASSUME ClawInv, Claw!Next \/ UNCHANGED clawVars PROVE ClawInv'
<1> USE DEF ClawInv, Claw!TypeOK, ThreadInv, PulseInv, GripInv, Claw!fetchVars, Claw!gripVars
<1>1. CASE Claw!Button
  <2>1. PICK falls \in BOOLEAN : script' = Claw!Fetch(falls)
    BY <1>1 DEF Claw!Button
  <2>2. script' \in Seq({"move", "open", "close"}) /\ OpensAtLast(script')
    BY <2>1, FetchOpens
  <2>3. fetches' \in 0..MaxFetches
    BY <1>1, BoundsAssumption DEF Claw!Button
  <2>4. phase = 0
    BY <1>1 DEF Claw!Button
  <2>5. QED
    BY <1>1, <2>2, <2>3, <2>4 DEF Claw!Button
<1>2. CASE Claw!Stick \/ Claw!Arrives
  <2>1. Claw!TypeOK'
    BY <1>2, Zenon DEF Claw!Stick, Claw!Arrives
  <2>2. /\ UNCHANGED <<IsRunMoveOut, script, phase, alive, thread, DO, grip>>
        /\ main' = main \/ (main = "read" /\ ~IsRunMoveOut /\ main' = "set")
    <3>1. CASE Claw!Stick
      BY <3>1 DEF Claw!Stick
    <3>2. CASE Claw!Arrives
      BY <3>2, Zenon DEF Claw!Arrives
    <3>3. QED
      BY <1>2, <3>1, <3>2
  <2>3. ThreadInv' /\ PulseInv' /\ GripInv'
    BY <2>2
  <2>4. QED
    BY <2>1, <2>3
<1>8. CASE Claw!SetThread \/ Claw!MoveXY
  BY <1>8 DEF Claw!SetThread, Claw!MoveXY
<1>9. CASE Claw!ResetThread
  BY <1>9 DEF Claw!ResetThread
<1>3. CASE Claw!FetchMove
  <2>1. /\ alive /\ script # <<>> /\ script[1] = "move" /\ script' = Tail(script) /\ phase = 0
        /\ UNCHANGED <<main, IsRunMoveOut, fetches, phase, alive, thread, DO, grip, travelling>>
    BY <1>3 DEF Claw!FetchMove, Claw!Doing
  <2>2. GripInv'
    <3>1. GripInv
      OBVIOUS
    <3>2. QED
      BY <2>1, <3>1, RestOpens
  <2>3. QED
    BY <2>1, <2>2, RestOpens
<1>4. CASE Claw!Pulse("open", 0, "open") \/ Claw!Pulse("close", 1, "closed")
  BY <1>4, PulseStep
<1>5. CASE Claw!FetchEnds
  BY <1>5 DEF Claw!FetchEnds
<1>6. CASE UNCHANGED clawVars
  BY <1>6 DEF clawVars
<1>7. QED
  BY <1>1, <1>2, <1>3, <1>4, <1>5, <1>6, <1>8, <1>9 DEF Claw!Next, Claw!MoveOut

LEMMA ClawSafe ==
    ASSUME ClawInv
    PROVE  Claw!TypeOK /\ Claw!FetchBlocks /\ Claw!OutputsExclusive /\ Claw!OpenBetween
<1>1. Claw!TypeOK /\ Claw!FetchBlocks
  BY DEF ClawInv, ThreadInv, Claw!FetchBlocks
<1>2. Claw!OutputsExclusive
  <2>1. DO[0] \in {0, 1} /\ DO[1] \in {0, 1} /\ (DO[0] = 0 \/ DO[1] = 0)
    BY DEF ClawInv, Claw!TypeOK, PulseInv
  <2>2. QED
    BY <2>1 DEF Claw!OutputsExclusive
<1>3. Claw!OpenBetween
  <2>1. ~IsRunMoveOut => ~alive /\ ~OpensAtLast(script)
    BY DEF ClawInv, ThreadInv, OpensAtLast
  <2>2. QED
    BY <2>1 DEF ClawInv, Claw!TypeOK, GripInv, Claw!OpenBetween
<1>4. QED
  BY <1>1, <1>2, <1>3

-----------------------------------------------------------------------------
(* The teach client. *)

Sent == {received[i] : i \in DOMAIN received}

OrderInv ==
    \A i, j \in DOMAIN received : i < j => Teach!Place(received[i]) < Teach!Place(received[j])
\* The command in the buffer is the one that was due in the second before
DueInv ==
    /\ set_flag = (at = "send")
    /\ at = "send" => \E i \in DOMAIN Teach!Schedule :
                         Teach!Schedule[i][1] = seconds - 1 /\ buf = Teach!Schedule[i][2]
SentInv ==
    /\ at = "loop" => /\ lost \subseteq Teach!DueBefore(seconds)
                      /\ Sent = Teach!DueBefore(seconds) \ lost
    /\ at = "send" => /\ lost \subseteq Teach!DueBefore(seconds - 1)
                      /\ Sent = Teach!DueBefore(seconds - 1) \ lost
    /\ at \notin {"loop", "send"} /\ ~failed => Sent = Teach!Functions \ lost
EndInv ==
    /\ at \in {"close", "done"} => fb = "ended"
    /\ failed => at \notin {"loop", "send"}

TeachInv == Teach!TypeOK /\ OrderInv /\ DueInv /\ SentInv /\ EndInv

\* The script: thirteen commands, one a second at most, each once
LEMMA ScheduleFacts ==
    /\ DOMAIN Teach!Schedule = 1..13
    /\ \A i \in 1..13 : /\ Teach!Schedule[i][1] \in Int
                         /\ 0 <= Teach!Schedule[i][1] /\ Teach!Schedule[i][1] <= Teach!LastCount
    /\ Teach!LastCount = 50
    /\ \A i, j \in 1..13 : i < j => Teach!Schedule[i][1] < Teach!Schedule[j][1]
    /\ \A i, j \in 1..13 : Teach!Schedule[i][2] = Teach!Schedule[j][2] => i = j
<1> DEFINE S == Teach!Schedule
<1>1. DOMAIN S = 1..13
  BY DEF Teach!Schedule
<1>2. /\ S[1] = <<0, "set_robot_index">> /\ S[2] = <<5, "set_robot_teach_coordinate">>
      /\ S[3] = <<10, "get_robot_num">> /\ S[4] = <<15, "set_robot_teach_velocity">>
      /\ S[5] = <<20, "robot_teach_enable">> /\ S[6] = <<22, "robot_teach_move">>
      /\ S[7] = <<25, "robot_teach_stop">> /\ S[8] = <<27, "robot_teach_disenable">>
      /\ S[9] = <<30, "get_robot_data_path">> /\ S[10] = <<32, "start_robot_c_project">>
      /\ S[11] = <<34, "suspend_robot_project">> /\ S[12] = <<37, "continue_robot_project">>
      /\ S[13] = <<40, "close_robot_c_project">>
  BY DEF Teach!Schedule
<1> HIDE DEF S
<1>3. \A i \in 1..13 : i \in {1, 2, 3, 4, 5, 6, 7, 8, 9, 10, 11, 12, 13}
  OBVIOUS
<1>4. /\ \A i \in 1..13 : S[i][1] \in Int /\ 0 <= S[i][1] /\ S[i][1] <= Teach!LastCount
      /\ Teach!LastCount = 50
  BY <1>2, <1>3 DEF Teach!LastCount
<1>5. \A i, j \in 1..13 : i < j => S[i][1] < S[j][1]
  BY <1>2, <1>3
<1>6. \A i, j \in 1..13 : S[i][2] = S[j][2] => i = j
  BY <1>2, <1>3
<1>7. QED
  BY <1>1, <1>4, <1>5, <1>6 DEF S

LEMMA PlaceOf ==
    ASSUME NEW i \in 1..13
    PROVE  Teach!Place(Teach!Schedule[i][2]) = i
BY ScheduleFacts DEF Teach!Place

LEMMA TeachInit == ASSUME Teach!Init PROVE TeachInv
<1>1. Teach!TypeOK
  <2>1. seconds \in 0..(Teach!LastCount + 1) /\ received \in Seq(Teach!Functions)
    BY DEF Teach!Init, Teach!LastCount
  <2>2. QED
    BY <2>1, Zenon DEF Teach!Init, Teach!TypeOK
<1>2. received = <<>> /\ DOMAIN received = {}
  BY DEF Teach!Init
<1>3. OrderInv /\ Sent = {}
  BY <1>2 DEF OrderInv, Sent
<1>4. Teach!DueBefore(seconds) = {}
  <2>0. seconds = 0
    BY Zenon DEF Teach!Init
  <2>1. \A i \in DOMAIN Teach!Schedule : ~(Teach!Schedule[i][1] < seconds)
    BY <2>0, ScheduleFacts
  <2>2. QED
    BY <2>1 DEF Teach!DueBefore
<1>5. DueInv /\ SentInv /\ EndInv
  BY <1>3, <1>4 DEF Teach!Init, DueInv, SentInv, EndInv
<1>6. QED
  BY <1>1, <1>3, <1>5 DEF TeachInv

\* The command in the buffer is the only one that became due in the last second
LEMMA BufferDue ==
    ASSUME TeachInv, at = "send"
    PROVE  /\ buf \in Teach!Functions /\ buf \notin Teach!DueBefore(seconds - 1) /\ buf \notin lost
           /\ Teach!DueBefore(seconds) = Teach!DueBefore(seconds - 1) \union {buf}
           /\ \A f \in Teach!DueBefore(seconds - 1) : Teach!Place(f) < Teach!Place(buf)
<1> DEFINE S == Teach!Schedule
<1>1. PICK k \in 1..13 : S[k][1] = seconds - 1 /\ buf = S[k][2]
  BY ScheduleFacts DEF TeachInv, DueInv
<1>2. seconds \in Int /\ \A i \in 1..13 : S[i][1] \in Int
  <2>1. seconds \in 0..(Teach!LastCount + 1)
    BY DEF TeachInv, Teach!TypeOK
  <2>2. QED
    BY <2>1, ScheduleFacts
<1>3. \A i \in 1..13 : S[i][1] < seconds <=> S[i][1] < seconds - 1 \/ i = k
  BY <1>1, <1>2, ScheduleFacts
<1> HIDE DEF S
<1>4. \A c : Teach!DueBefore(c) = {S[i][2] : i \in {n \in 1..13 : S[n][1] < c}}
  BY ScheduleFacts DEF Teach!DueBefore, S
<1>5. \A f \in Teach!DueBefore(seconds - 1) : \E i \in 1..13 : f = S[i][2] /\ S[i][1] < seconds - 1
  BY <1>4
<1>6. \A i, j \in 1..13 : S[i][2] = S[j][2] => i = j
  BY ScheduleFacts DEF S
<1>7. buf \notin Teach!DueBefore(seconds - 1)
  <2>1. ASSUME NEW i \in 1..13, buf = S[i][2], S[i][1] < seconds - 1 PROVE FALSE
    <3>1. i = k
      BY <1>1, <1>6, <2>1
    <3>2. QED
      BY <1>1, <1>2, <2>1, <3>1
  <2>2. QED
    BY <1>5, <2>1
<1>8. buf \in Teach!Functions
  BY <1>1, ScheduleFacts DEF Teach!Functions, S
<1>9. buf \notin lost
  BY <1>7 DEF TeachInv, SentInv
<1>10. Teach!DueBefore(seconds) = Teach!DueBefore(seconds - 1) \union {buf}
  BY <1>1, <1>3, <1>4
<1>11. ASSUME NEW f \in Teach!DueBefore(seconds - 1) PROVE Teach!Place(f) < Teach!Place(buf)
  <2>1. PICK i \in 1..13 : f = S[i][2] /\ S[i][1] < seconds - 1
    BY <1>5, <1>11
  <2>2. i < k
    <3>1. i # k /\ ~(k < i)
      BY <1>1, <1>2, <2>1, ScheduleFacts DEF S
    <3>2. QED
      BY <3>1
  <2>3. QED
    BY <1>1, <2>1, <2>2, PlaceOf DEF S
<1>12. QED
  BY <1>7, <1>8, <1>9, <1>10, <1>11

LEMMA SecondStep == ASSUME TeachInv, Teach!Second PROVE TeachInv'
<1>0. seconds \in 0..51 /\ seconds \in Int /\ seconds <= 51
  <2>1. seconds \in 0..(Teach!LastCount + 1)
    BY Zenon DEF TeachInv, Teach!TypeOK
  <2>2. QED
    BY <2>1, ScheduleFacts
<1> USE DEF TeachInv, Teach!TypeOK
<1>1. /\ at = "loop" /\ ~set_flag /\ ~failed
      /\ UNCHANGED <<out_flag, fb, server, received, lost, failed>>
      /\ Sent = Teach!DueBefore(seconds) \ lost /\ lost \subseteq Teach!DueBefore(seconds)
  BY DEF Teach!Second, DueInv, SentInv, EndInv, Teach!LastCount
<1>2. /\ Teach!Due = {i \in 1..13 : Teach!Schedule[i][1] = seconds}
      /\ \A c : Teach!DueBefore(c) =
                  {Teach!Schedule[i][2] : i \in {n \in 1..13 : Teach!Schedule[n][1] < c}}
      /\ \A i \in 1..13 : Teach!Schedule[i][1] \in Int /\ Teach!Schedule[i][1] <= 50
  BY ScheduleFacts DEF Teach!Due, Teach!DueBefore
<1>3. OrderInv' /\ Sent' = Sent
  BY <1>1 DEF OrderInv, Sent
<1>4. CASE Teach!Due = {} /\ seconds > Teach!LastCount
  <2>1. at' = "shutdown" /\ UNCHANGED <<seconds, set_flag, buf>>
    BY <1>4 DEF Teach!Second
  <2>2. Sent = Teach!Functions \ lost
    <3>1. Teach!DueBefore(seconds) = Teach!Functions
      <4>1. \A i \in 1..13 : Teach!Schedule[i][1] < seconds
        <5>1. seconds > Teach!LastCount
          BY <1>4
        <5> HIDE DEF TeachInv, Teach!TypeOK
        <5>2. QED
          BY <1>0, <5>1, ScheduleFacts
      <4>2. QED
        BY <1>2, <4>1, ScheduleFacts DEF Teach!Functions
    <3>2. QED
      BY <1>1, <3>1
  <2>3. Teach!TypeOK'
    BY <1>1, <2>1
  <2>4. DueInv' /\ SentInv' /\ EndInv'
    BY <1>1, <1>3, <2>1, <2>2 DEF DueInv, SentInv, EndInv
  <2>5. QED
    BY <1>3, <2>3, <2>4
<1>5. CASE Teach!Due = {} /\ ~(seconds > Teach!LastCount)
  <2>1. at' = "loop" /\ seconds' = seconds + 1 /\ set_flag' = set_flag /\ buf' = buf
    BY <1>1, <1>5 DEF Teach!Second
  <2>2. Teach!DueBefore(seconds + 1) = Teach!DueBefore(seconds)
    <3>0. \A i \in 1..13 : Teach!Schedule[i][1] # seconds
      BY <1>2, <1>5
    <3>1. \A i \in 1..13 : Teach!Schedule[i][1] < seconds + 1 <=> Teach!Schedule[i][1] < seconds
      <4> HIDE DEF TeachInv, Teach!TypeOK
      <4>1. QED
        BY <1>0, <1>2, <3>0
    <3>2. QED
      BY <1>2, <3>1
  <2>3. Teach!TypeOK'
    BY <1>1, <1>5, <2>1 DEF Teach!LastCount
  <2>4. DueInv' /\ SentInv' /\ EndInv'
    BY <1>1, <1>3, <2>1, <2>2 DEF DueInv, SentInv, EndInv
  <2>5. QED
    BY <1>3, <2>3, <2>4
<1>6. CASE Teach!Due # {}
  <2>1. PICK k \in Teach!Due : buf' = Teach!Schedule[k][2]
    BY <1>6 DEF Teach!Second
  <2>2. at' = "send" /\ seconds' = seconds + 1 /\ set_flag'
    BY <1>6 DEF Teach!Second
  <2>3. k \in 1..13 /\ Teach!Schedule[k][1] = seconds' - 1 /\ seconds \in 0..50
    <3>1. k \in 1..13 /\ Teach!Schedule[k][1] = seconds
      BY <1>2, <2>1
    <3>2. seconds' = seconds + 1
      BY <2>2
    <3> HIDE DEF TeachInv, Teach!TypeOK
    <3>3. QED
      BY <1>0, <1>2, <3>1, <3>2
  <2>4. Teach!TypeOK'
    <3>1. buf' \in Teach!Functions
      BY <2>1, <2>3, ScheduleFacts DEF Teach!Functions
    <3>2. seconds' \in 0..(Teach!LastCount + 1)
      <4>1. seconds' = seconds + 1
        BY <2>2
      <4> HIDE DEF TeachInv, Teach!TypeOK
      <4>2. QED
        BY <2>3, <4>1, ScheduleFacts
    <3>3. set_flag' \in BOOLEAN
      BY DEF Teach!Second
    <3>4. QED
      BY <1>1, <2>2, <3>1, <3>2, <3>3, Zenon
  <2>5. DueInv'
    BY <2>1, <2>2, <2>3, ScheduleFacts DEF DueInv
  <2>6. SentInv'
    <3>1. seconds' - 1 = seconds
      BY <2>2, <2>3
    <3>2. QED
      BY <1>1, <1>3, <2>2, <3>1 DEF SentInv
  <2>7. QED
    BY <1>1, <1>3, <2>2, <2>4, <2>5, <2>6 DEF EndInv
<1>7. QED
  BY <1>4, <1>5, <1>6

LEMMA TeachStep == ASSUME TeachInv, Teach!Next \/ UNCHANGED teachVars PROVE TeachInv'
<1> USE DEF TeachInv
<1>1. CASE Teach!Second
  BY <1>1, SecondStep
<1>2. CASE Teach!Send
  <2>1. /\ at = "send" /\ at' = "loop" /\ set_flag' = FALSE /\ received' = Append(received, buf)
        /\ UNCHANGED <<seconds, buf, out_flag, fb, server, lost, failed>>
    BY <1>2 DEF Teach!Send
  <2>2. received \in Seq(Teach!Functions) /\ buf \in Teach!Functions
    BY <2>1, BufferDue DEF Teach!TypeOK
  <2>3. Teach!TypeOK'
    <3>1. received' \in Seq(Teach!Functions)
      BY <2>1, <2>2
    <3>2. QED
      BY <2>1, <3>1, Zenon DEF Teach!TypeOK
  <2>4. /\ DOMAIN received = 1..Len(received) /\ DOMAIN received' = 1..(Len(received) + 1)
        /\ \A i \in DOMAIN received : received'[i] = received[i]
        /\ received'[Len(received) + 1] = buf /\ Len(received) \in Nat
    BY <2>1, <2>2
  <2>5. Sent' = Sent \union {buf}
    <3>1. \A i \in DOMAIN received' : i \in DOMAIN received \/ i = Len(received) + 1
      BY <2>4
    <3>2. DOMAIN received \subseteq DOMAIN received' /\ Len(received) + 1 \in DOMAIN received'
      BY <2>4
    <3>3. QED
      BY <2>4, <3>1, <3>2 DEF Sent
  <2>6. /\ lost \subseteq Teach!DueBefore(seconds - 1) /\ Sent = Teach!DueBefore(seconds - 1) \ lost
        /\ ~failed
    BY <2>1 DEF SentInv, EndInv
  <2>7. OrderInv'
    <3>1. SUFFICES ASSUME NEW i \in DOMAIN received', NEW j \in DOMAIN received', i < j
                   PROVE  Teach!Place(received'[i]) < Teach!Place(received'[j])
      BY DEF OrderInv
    <3>2. i \in DOMAIN received
      BY <2>4, <3>1
    <3>3. CASE j \in DOMAIN received
      BY <2>4, <3>1, <3>2, <3>3 DEF OrderInv
    <3>4. CASE j = Len(received) + 1
      <4>1. received[i] \in Teach!DueBefore(seconds - 1)
        BY <2>6, <3>2 DEF Sent
      <4>2. QED
        BY <2>1, <2>4, <3>2, <3>4, <4>1, BufferDue
    <3>5. QED
      BY <2>4, <3>3, <3>4
  <2>8. SentInv'
    <3>1. Sent' = Teach!DueBefore(seconds) \ lost /\ lost \subseteq Teach!DueBefore(seconds)
      BY <2>1, <2>5, <2>6, BufferDue
    <3>2. QED
      BY <2>1, <3>1 DEF SentInv
  <2>9. QED
    BY <2>1, <2>3, <2>6, <2>7, <2>8 DEF DueInv, EndInv
<1>3. CASE Teach!SendInterrupted
  <2>1. /\ at = "send" /\ at' = "loop" /\ set_flag' = FALSE /\ lost' = lost \union {buf}
        /\ UNCHANGED <<seconds, buf, out_flag, fb, server, received, failed>>
    BY <1>3 DEF Teach!SendInterrupted
  <2>2. Teach!TypeOK'
    BY <2>1, BufferDue DEF Teach!TypeOK
  <2>3. OrderInv' /\ Sent' = Sent
    BY <2>1 DEF OrderInv, Sent
  <2>4. SentInv'
    <3>1. lost \subseteq Teach!DueBefore(seconds - 1) /\ Sent = Teach!DueBefore(seconds - 1) \ lost
      BY <2>1 DEF SentInv
    <3>2. Sent' = Teach!DueBefore(seconds) \ lost' /\ lost' \subseteq Teach!DueBefore(seconds)
      BY <2>1, <2>3, <3>1, BufferDue
    <3>3. QED
      BY <2>1, <3>2 DEF SentInv
  <2>5. QED
    BY <2>1, <2>2, <2>3, <2>4 DEF DueInv, EndInv
<1>4. CASE Teach!SendFails \/ Teach!Shutdown \/ Teach!Raise \/ Teach!Join \/ Teach!Close
  <2>1. /\ UNCHANGED <<seconds, buf, fb, server, received, lost>>
        /\ at \notin {"loop", "done"} /\ at' \in {"shutdown", "raise", "join", "close", "done"}
        /\ set_flag' = FALSE /\ out_flag' \in BOOLEAN /\ failed' \in BOOLEAN
        /\ at = "send" => failed'
        /\ at # "send" => failed' = failed
        /\ at' \in {"close", "done"} => fb = "ended"
    BY <1>4 DEF Teach!SendFails, Teach!Shutdown, Teach!Raise, Teach!Join, Teach!Close,
                Teach!TypeOK, DueInv, EndInv
  <2>2. Teach!TypeOK'
    BY <2>1 DEF Teach!TypeOK
  <2>3. OrderInv' /\ Sent' = Sent
    BY <2>1 DEF OrderInv, Sent
  <2>4. DueInv' /\ EndInv'
    BY <2>1, Zenon DEF DueInv, EndInv
  <2>5. SentInv'
    <3>1. ~failed' => Sent = Teach!Functions \ lost
      <4>1. ~failed' => at # "send" /\ ~failed
        BY <2>1, Zenon
      <4>2. at # "send" => at \notin {"loop", "send"}
        BY <2>1
      <4>3. QED
        BY <4>1, <4>2 DEF SentInv
    <3>2. at' \notin {"loop", "send"}
      BY <2>1
    <3>3. QED
      BY <2>1, <2>3, <3>1, <3>2 DEF SentInv
  <2>6. QED
    BY <2>2, <2>3, <2>4, <2>5
<1>5. CASE Teach!CheckOut \/ Teach!Recv \/ Teach!RecvInterrupted \/ Teach!ServerStops
  <2>1. /\ UNCHANGED <<at, seconds, set_flag, buf, out_flag, received, lost, failed>>
        /\ fb' \in {"check", "recv", "ended"} /\ server' \in {"streams", "quiet", "closed"}
        /\ fb = "ended" => fb' = "ended"
    BY <1>5 DEF Teach!CheckOut, Teach!Recv, Teach!RecvInterrupted, Teach!ServerStops,
                Teach!mainVars, Teach!TypeOK
  <2>2. Teach!TypeOK'
    BY <2>1 DEF Teach!TypeOK
  <2>3. OrderInv' /\ Sent' = Sent
    BY <2>1 DEF OrderInv, Sent
  <2>4. DueInv' /\ SentInv'
    BY <2>1, <2>3, Zenon DEF DueInv, SentInv
  <2>5. EndInv'
    BY <2>1, Zenon DEF EndInv
  <2>6. QED
    BY <2>2, <2>3, <2>4, <2>5
<1>6. CASE UNCHANGED teachVars
  BY <1>6 DEF teachVars, Teach!TypeOK, OrderInv, DueInv, SentInv, Sent, EndInv
<1>7. QED
  BY <1>1, <1>2, <1>3, <1>4, <1>5, <1>6 DEF Teach!Next, Teach!Main

\* When every command has been received in order, what was started is ended after it
LEMMA EndsAfter ==
    ASSUME TeachInv, Sent = Teach!Functions,
           NEW m \in 1..13, NEW n \in 1..13, m < n
    PROVE  ~Teach!On(Teach!Schedule[m][2], Teach!Schedule[n][2])
<1>1. SUFFICES ASSUME NEW i \in DOMAIN received, received[i] = Teach!Schedule[m][2]
               PROVE  \E j \in DOMAIN received : j > i /\ received[j] = Teach!Schedule[n][2]
  BY DEF Teach!On
<1>2. PICK j \in DOMAIN received : received[j] = Teach!Schedule[n][2]
  <2>1. Teach!Schedule[n][2] \in Sent
    BY ScheduleFacts DEF Teach!Functions
  <2>2. QED
    BY <2>1 DEF Sent
<1>3. i \in Int /\ j \in Int
  BY DEF TeachInv, Teach!TypeOK
<1>4. Teach!Place(received[i]) = m /\ Teach!Place(received[j]) = n
  BY <1>1, <1>2, PlaceOf
<1>5. i # j /\ ~(j < i)
  BY <1>4 DEF TeachInv, OrderInv
<1>6. QED
  BY <1>2, <1>3, <1>5

LEMMA TeachSafe ==
    ASSUME TeachInv
    PROVE  Teach!TypeOK /\ Teach!ScriptKept /\ Teach!LeftSafe /\ Teach!ClosedUnread
<1>1. Teach!TypeOK /\ Teach!ScriptKept /\ Teach!ClosedUnread
  BY DEF TeachInv, OrderInv, SentInv, EndInv, Sent, Teach!ScriptKept, Teach!ClosedUnread
<1>2. Teach!LeftSafe
  <2>1. SUFFICES ASSUME at = "done", ~failed, lost = {}
                 PROVE  /\ ~Teach!On("robot_teach_move", "robot_teach_stop")
                        /\ ~Teach!On("robot_teach_enable", "robot_teach_disenable")
                        /\ ~Teach!On("start_robot_c_project", "close_robot_c_project")
    BY DEF Teach!LeftSafe
  <2>2. Sent = Teach!Functions
    BY <2>1 DEF TeachInv, SentInv
  <2>3. /\ Teach!Schedule[5][2] = "robot_teach_enable" /\ Teach!Schedule[6][2] = "robot_teach_move"
        /\ Teach!Schedule[7][2] = "robot_teach_stop"
        /\ Teach!Schedule[8][2] = "robot_teach_disenable"
        /\ Teach!Schedule[10][2] = "start_robot_c_project"
        /\ Teach!Schedule[13][2] = "close_robot_c_project"
    BY DEF Teach!Schedule
  <2>4. /\ ~Teach!On(Teach!Schedule[6][2], Teach!Schedule[7][2])
        /\ ~Teach!On(Teach!Schedule[5][2], Teach!Schedule[8][2])
        /\ ~Teach!On(Teach!Schedule[10][2], Teach!Schedule[13][2])
    BY <2>2, EndsAfter
  <2>5. QED
    BY <2>3, <2>4
<1>3. QED
  BY <1>1, <1>2

-----------------------------------------------------------------------------
(* The programs, each in a behaviour of its own. *)

\* Remote control does what its latest frame asked for, is stopped between two directions,
\* after silence and at its end, and moves under its constraint; the end effector server's
\* mailbox holds the newest message only, and an empty one means that it was obeyed.
THEOREM NewestIsObeyed == ProgramsSpec => []NewestCounts
<1>1. ProgramsInit => TeleopInv /\ TestInv
  BY TeleopInit, TestInit DEF ProgramsInit
<1>2. /\ TeleopInv /\ TestInv
      /\ [ProgramsNext]_<<part, vars, teachVars, clawVars, testVars>>
      => TeleopInv' /\ TestInv'
  BY TeleopStep, TestStep DEF ProgramsNext
<1>3. TeleopInv /\ TestInv => NewestCounts
  <2>1. TeleopInv => TypeOK /\ StoppedBetween /\ ObeysLast /\ ConstrainedMotion /\ SilenceStops
    BY DirectionsAssumption
    DEF TeleopInv, FollowInv, FreshInv, ConstraintInv, SilenceInv, StoppedBetween, ObeysLast,
        ConstrainedMotion, SilenceStops, TypeOK
  <2>2. TestInv => Test!TypeOK /\ Test!OnlyNewest /\ Test!NewestObeyed
    BY DEF TestInv, MailInv, Obeyed, Test!OnlyNewest, Test!NewestObeyed
  <2>3. QED
    BY <2>1, <2>2 DEF NewestCounts
<1>4. QED
  BY <1>1, <1>2, <1>3, PTL DEF ProgramsSpec

\* The teach client's commands arrive in the order of the script, all that were due and not
\* lost, and what they started is ended; a claw game's fetch is not disturbed by the
\* joystick, never raises both outputs and leaves the claw open, fallen object or not.
THEOREM ScriptsAreKept == ProgramsSpec => []ScriptsKept
<1>1. ProgramsInit => TeachInv /\ ClawInv
  BY TeachInit, ClawInit DEF ProgramsInit
<1>2. /\ TeachInv /\ ClawInv
      /\ [ProgramsNext]_<<part, vars, teachVars, clawVars, testVars>>
      => TeachInv' /\ ClawInv'
  BY TeachStep, ClawStep DEF ProgramsNext
<1>3. TeachInv /\ ClawInv => ScriptsKept
  BY TeachSafe, ClawSafe DEF ScriptsKept
<1>4. QED
  BY <1>1, <1>2, <1>3, PTL DEF ProgramsSpec

=============================================================================
