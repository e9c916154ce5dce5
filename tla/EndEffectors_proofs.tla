-------------------------- MODULE EndEffectors_proofs --------------------------
(***************************************************************************)
(* The parts of the end effector library, for every value of their         *)
(* constants.  The executions of preset 99 are spaced by the cool-down and *)
(* no call is ignored without one, for any threads, cool-down and running  *)
(* time; LoadAndInit is all or nothing, for any number of robots, any      *)
(* configuration and any number of polls; the Piper slot keeps its         *)
(* gripper's target, for any limits; its frames carry every 32-bit angle   *)
(* and 16-bit effort unharmed, those of the serial slot every position and *)
(* preset, and those of the Inspire hand every hand and finger value; and   *)
(* the table of the Modbus CRC computes the sum of the polynomial, which    *)
(* no damaged byte leaves as it was, for messages of any length.            *)
(***************************************************************************)
EXTENDS EndEffectors, SequenceTheorems, NaturalsInduction, WellFoundedInduction, TLAPS

-----------------------------------------------------------------------------
(* The cool-down of preset 99. *)

\* last_reinit_ms_ is the clock reading of the newest claim
LastInv == last = IF claims = <<>> THEN None ELSE claims[Len(claims)]

\* A thread about to compare and exchange is out of the cool-down of what it loaded
CasInv == \A t \in Threads : pc[t] = "cas" => ~Cooling(t)

CooldownInv == TypeOK /\ LastInv /\ CasInv /\ ClaimsSpaced

LEMMA CooldownTypeStep == TypeOK /\ [Next]_vars => TypeOK'
<1> SUFFICES ASSUME TypeOK, [Next]_vars PROVE TypeOK'
  OBVIOUS
<1> USE DEF TypeOK, Goto, Return, None
<1>1. CASE Tick
  BY <1>1 DEF Tick
<1>2. ASSUME NEW t \in Threads, Call(t) PROVE TypeOK'
  BY <1>2 DEF Call
<1>3. ASSUME NEW t \in Threads, Step(t) PROVE TypeOK'
  <2>1. CASE Claim(t)
    BY <2>1 DEF Claim
  <2>2. CASE Load(t)
    BY <2>2 DEF Load
  <2>3. CASE Ignore(t) \/ Send(t)
    BY <2>3 DEF Ignore, Send
  <2>4. CASE Try(t) \/ Retry(t)
    BY <2>4 DEF Try, Retry
  <2>5. QED
    BY <1>3, <2>1, <2>2, <2>3, <2>4 DEF Step
<1>4. CASE UNCHANGED vars
  BY <1>4 DEF vars
<1>5. QED
  BY <1>1, <1>2, <1>3, <1>4 DEF Next

\* Appending a reading that lies the cool-down after the last one keeps the spacing.
LEMMA AppendSpaced ==
    ASSUME NEW s \in Seq(Nat), NEW n \in Nat,
           \A i, j \in DOMAIN s : i < j => s[j] - s[i] >= Cooldown,
           s # <<>> => n - s[Len(s)] >= Cooldown
    PROVE  LET u == Append(s, n)
           IN  \A i, j \in DOMAIN u : i < j => u[j] - u[i] >= Cooldown
<1> DEFINE u == Append(s, n)
<1> SUFFICES ASSUME NEW i \in DOMAIN u, NEW j \in DOMAIN u, i < j
             PROVE  u[j] - u[i] >= Cooldown
  OBVIOUS
<1>1. i \in 1..Len(s) /\ u[i] = s[i] /\ s[i] \in Nat
  OBVIOUS
<1>2. CASE j \in 1..Len(s)
  BY <1>1, <1>2
<1>3. CASE j = Len(s) + 1
  <2>1. u[j] = n /\ s # <<>> /\ s[Len(s)] \in Nat
    BY <1>1, <1>3
  <2>2. s[Len(s)] - s[i] >= 0
    BY <1>1, CooldownAssumption
  <2>3. QED
    BY <1>1, <2>1, <2>2, CooldownAssumption
<1>4. QED
  BY <1>2, <1>3

LEMMA CooldownStep == CooldownInv /\ [Next]_vars => (LastInv /\ CasInv /\ ClaimsSpaced)'
<1> SUFFICES ASSUME CooldownInv, [Next]_vars PROVE (LastInv /\ CasInv /\ ClaimsSpaced)'
  OBVIOUS
<1> USE DEF CooldownInv, TypeOK, Goto, Return, None
<1>1. ASSUME NEW t \in Threads, Claim(t) PROVE (LastInv /\ CasInv /\ ClaimsSpaced)'
  <2>1. now[t] \in Nat /\ claims' = Append(claims, now[t]) /\ last' = now[t]
    BY <1>1 DEF Claim
  <2>2. LastInv'
    BY <2>1 DEF LastInv
  <2>3. CasInv'
    BY <1>1 DEF Claim, CasInv, Cooling
  <2>4. claims # <<>> => now[t] - claims[Len(claims)] >= Cooldown
    <3>1. SUFFICES ASSUME claims # <<>> PROVE now[t] - claims[Len(claims)] >= Cooldown
      OBVIOUS
    <3>2. last = claims[Len(claims)] /\ last \in Nat
      BY <3>1 DEF LastInv
    <3>3. seen[t] = last /\ ~Cooling(t)
      BY <1>1 DEF Claim, CasInv
    <3>4. QED
      BY <3>2, <3>3, CooldownAssumption DEF Cooling
  <2>5. ClaimsSpaced'
    BY <2>1, <2>4, AppendSpaced DEF ClaimsSpaced
  <2>6. QED
    BY <2>2, <2>3, <2>5
<1>2. CASE UNCHANGED <<last, claims>> /\ CasInv'
  BY <1>2 DEF LastInv, ClaimsSpaced
<1>3. ASSUME NEW t \in Threads, Call(t) \/ Load(t) \/ Ignore(t) \/ Try(t) \/ Retry(t) \/ Send(t)
      PROVE  UNCHANGED <<last, claims>> /\ CasInv'
  <2>1. UNCHANGED <<last, claims>>
    BY <1>3 DEF Call, Load, Ignore, Try, Retry, Send
  <2>2. ASSUME NEW u \in Threads, pc'[u] = "cas" PROVE ~Cooling(u)'
    <3>1. pc[u] = "cas" \/ (u = t /\ Try(t))
      BY <1>3, <2>2 DEF Call, Load, Ignore, Try, Retry, Send
    <3>2. now'[u] = now[u] /\ seen'[u] = seen[u]
      BY <1>3, <2>2 DEF Call, Load, Ignore, Try, Retry, Send
    <3>3. ~Cooling(u)
      BY <3>1 DEF CasInv, Try
    <3>4. QED
      BY <3>2, <3>3 DEF Cooling
  <2>3. QED
    BY <2>1, <2>2 DEF CasInv
<1>4. CASE Tick \/ UNCHANGED vars
  BY <1>2, <1>4 DEF Tick, vars, CasInv, Cooling
<1>5. QED
  BY <1>1, <1>2, <1>3, <1>4 DEF Next, Step

\* Every reachable state is well typed, for every value of the constants.
THEOREM TypeCorrect == Spec => []TypeOK
<1>1. Init => TypeOK
  BY DEF Init, TypeOK, None
<1>2. QED
  BY <1>1, CooldownTypeStep, PTL DEF Spec

\* Any two executions of preset 99 are decided at least the cool-down apart.
THEOREM CooldownHolds == Spec => []ClaimsSpaced
<1>1. Init => CooldownInv
  BY DEF Init, CooldownInv, TypeOK, None, LastInv, CasInv, ClaimsSpaced
<1>2. CooldownInv /\ [Next]_vars => CooldownInv'
  BY CooldownTypeStep, CooldownStep DEF CooldownInv
<1>3. CooldownInv => ClaimsSpaced
  BY DEF CooldownInv
<1>4. QED
  BY <1>1, <1>2, <1>3, PTL DEF Spec

\* What a thread has loaded is the clock reading of an execution
SeenInv == \A t \in Threads : seen[t] >= 0 => \E i \in DOMAIN claims : claims[i] = seen[t]

LEMMA SeenStep == TypeOK /\ LastInv /\ SeenInv /\ [Next]_vars => SeenInv'
<1> SUFFICES ASSUME TypeOK, LastInv, SeenInv, [Next]_vars PROVE SeenInv'
  OBVIOUS
<1> USE DEF TypeOK, Goto, Return, None
<1>1. ASSUME NEW t \in Threads, Load(t) PROVE SeenInv'
  <2>1. seen' = [seen EXCEPT ![t] = last] /\ claims' = claims
    BY <1>1 DEF Load
  <2>2. last >= 0 => \E i \in DOMAIN claims : claims[i] = last
    <3>1. CASE claims = <<>>
      BY <3>1 DEF LastInv
    <3>2. CASE claims # <<>>
      <4>1. Len(claims) \in DOMAIN claims /\ last = claims[Len(claims)]
        BY <3>2 DEF LastInv
      <4>2. QED
        BY <4>1
    <3>3. QED
      BY <3>1, <3>2
  <2>3. QED
    BY <2>1, <2>2 DEF SeenInv
<1>2. ASSUME NEW t \in Threads, Claim(t) PROVE SeenInv'
  <2>1. seen' = seen /\ claims' = Append(claims, now[t])
    BY <1>2 DEF Claim
  <2>2. \A i \in DOMAIN claims : i \in DOMAIN claims' /\ claims'[i] = claims[i]
    BY <2>1
  <2>3. QED
    BY <2>1, <2>2 DEF SeenInv
<1>3. ASSUME NEW t \in Threads, Call(t) \/ Ignore(t) \/ Try(t) \/ Retry(t) \/ Send(t)
      PROVE  SeenInv'
  BY <1>3 DEF Call, Ignore, Try, Retry, Send, SeenInv
<1>4. CASE Tick \/ UNCHANGED vars
  BY <1>4 DEF Tick, vars, SeenInv
<1>5. QED
  BY <1>1, <1>2, <1>3, <1>4 DEF Next, Step

\* The claims there have been, and those the threads have seen
IgnoreInv == CooldownInv /\ SeenInv

LEMMA IgnoreInitially == Init => IgnoreInv
BY DEF Init, IgnoreInv, CooldownInv, TypeOK, None, LastInv, CasInv, ClaimsSpaced, SeenInv

LEMMA IgnoreInvStep == IgnoreInv /\ [Next]_vars => IgnoreInv'
BY CooldownTypeStep, CooldownStep, SeenStep DEF IgnoreInv, CooldownInv

LEMMA IgnoreStep ==
    IgnoreInv => [\A t \in Threads : Ignore(t) =>
                    \E i \in DOMAIN claims : now[t] - claims[i] < Cooldown]_vars
<1>1. IgnoreInv => \A t \in Threads : Ignore(t) =>
                      \E i \in DOMAIN claims : now[t] - claims[i] < Cooldown
  BY DEF IgnoreInv, Ignore, Cooling, SeenInv
<1>2. QED
  BY <1>1

\* A call is ignored only within the cool-down of an execution: a device at rest is never
\* refused its re-initialisation.
THEOREM IgnoredInCooldown == Spec => NoIdleDrop
BY IgnoreInitially, IgnoreInvStep, IgnoreStep, PTL DEF Spec, NoIdleDrop

-----------------------------------------------------------------------------
(* LoadAndInit. *)

DhSteps == {"dh_state", "dh_init", "dh_poll"}
InitSteps == {"init"} \union DhSteps

\* A slot that has been started: ready, its device held, its gripper initialised
Served(k) ==
    /\ k \in ready
    /\ cfg[k] \notin {"none", "bad"} => k \in held
    /\ cfg[k] = "dh" => dh[k] = "finished"

\* The slots before the one in hand are served, and nothing else is ready; the size of
\* slots_ tells whether the call has succeeded.
ManagerInv ==
    /\ step \in {"open", "shape"} => held = {} /\ ready = {} /\ at = 1
    /\ step \in {"build", "done"} \union InitSteps =>
          ready = 1..(at - 1) /\ \A k \in 1..(at - 1) : Served(k)
    /\ step \in InitSteps => at <= RobotNum
    /\ step \in DhSteps => cfg[at] = "dh" /\ at \in held
    /\ step = "done" => at = RobotNum + 1
    /\ slots = IF step = "done" THEN RobotNum ELSE 0
    /\ FailureHoldsNothing

LEMMA ManagerInitInv == ManagerInit => ManagerTypeOK /\ ManagerInv
<1> USE RobotNumAssumption, MaxTryAssumption
<1>1. ASSUME NEW n \in 0..(RobotNum + 1), NEW f \in [1..n -> Kinds] PROVE f \in Seq(Kinds)
  BY <1>1
<1>2. ManagerInit => ManagerTypeOK
  BY <1>1 DEF ManagerInit, ManagerTypeOK, Configs, Steps
<1>3. ManagerInit => ManagerInv
  BY DEF ManagerInit, ManagerInv, DhSteps, InitSteps, FailureHoldsNothing
<1>4. QED
  BY <1>2, <1>3

\* A slot that comes up joins those that are served.
LEMMA SlotReadyInv ==
    ASSUME ManagerTypeOK, ManagerInv, step \in InitSteps, SlotReady,
           held \subseteq held', held' \subseteq held \union {at}, tries' \in 0..MaxTry,
           cfg[at] \notin {"none", "bad"} => at \in held',
           cfg[at] = "dh" => dh[at] = "finished"
    PROVE  ManagerTypeOK' /\ ManagerInv'
<1> USE RobotNumAssumption, MaxTryAssumption
        DEF ManagerTypeOK, ManagerInv, SlotReady, InitSteps, DhSteps
<1>1. at \in 1..RobotNum /\ at' = at + 1 /\ step' = "build" /\ UNCHANGED <<file, cfg, slots, dh>>
  OBVIOUS
<1>2. 1..(at' - 1) = 1..(at - 1) \union {at}
  BY <1>1
<1>3. ManagerTypeOK'
  <2>1. held' \subseteq 1..RobotNum /\ ready' \subseteq 1..RobotNum /\ at' \in 1..(RobotNum + 1)
    BY <1>1
  <2>2. QED
    BY <1>1, <2>1 DEF Steps
<1>4. ASSUME NEW k \in 1..(at' - 1) PROVE Served(k)'
  BY <1>1, <1>2, <1>4 DEF Served
<1>5. ready' = 1..(at' - 1)
  BY <1>1, <1>2
<1>6. ManagerInv'
  BY <1>1, <1>4, <1>5 DEF FailureHoldsNothing
<1>7. QED
  BY <1>3, <1>6

\* One that does not goes to the destructors.
LEMMA SlotFailsInv ==
    ASSUME ManagerTypeOK, ManagerInv, step \in InitSteps, SlotFails,
           held' \subseteq held \union {at}, tries' \in 0..MaxTry
    PROVE  ManagerTypeOK' /\ ManagerInv'
<1> USE RobotNumAssumption DEF ManagerTypeOK, ManagerInv, SlotFails, InitSteps, DhSteps
<1>1. ManagerTypeOK'
  BY DEF Steps
<1>2. ManagerInv'
  BY DEF FailureHoldsNothing
<1>3. QED
  BY <1>1, <1>2

\* Each step of LoadAndInit, and the grippers' own steps.
LEMMA ManagerStepInv ==
    ManagerTypeOK /\ ManagerInv /\ [ManagerNext]_managerVars => (ManagerTypeOK /\ ManagerInv)'
<1> USE RobotNumAssumption, MaxTryAssumption
<1> SUFFICES ASSUME ManagerTypeOK, ManagerInv, [ManagerNext]_managerVars
             PROVE  ManagerTypeOK' /\ ManagerInv'
  OBVIOUS
<1> USE DEF ManagerTypeOK, Steps, InitStates, ManagerInv, DhSteps, InitSteps, Served,
            FailureHoldsNothing
<1>1. CASE ReadConfig
  BY <1>1 DEF ReadConfig
<1>2. CASE CheckShape
  BY <1>2 DEF CheckShape
<1>3. CASE Build
  BY <1>3 DEF Build
<1>4. CASE Swap
  BY <1>4 DEF Swap
<1>5. CASE InitNone
  BY <1>5 DEF InitNone, SlotReady
<1>6. CASE InitPiper
  BY <1>6, SlotReadyInv, SlotFailsInv DEF InitPiper
<1>7. CASE InitSerial
  BY <1>7, SlotReadyInv, SlotFailsInv DEF InitSerial
<1>8. CASE DhOpen
  <2>1. CASE SlotFails
    BY <1>8, <2>1, SlotFailsInv DEF DhOpen
  <2>2. CASE held' = held \union {at} /\ step' = "dh_state"
             /\ UNCHANGED <<file, cfg, at, ready, slots, dh>>
    <3>1. at \in 1..RobotNum /\ tries' = tries /\ cfg[at] = "dh"
      BY <1>8 DEF DhOpen
    <3>2. ManagerTypeOK'
      BY <2>2, <3>1
    <3>3. at' \in held' /\ cfg'[at'] = "dh" /\ at' <= RobotNum /\ slots' = 0
      BY <1>8, <2>2, <3>1 DEF DhOpen
    <3>4. ASSUME NEW k \in 1..(at - 1) PROVE Served(k)'
      BY <1>8, <2>2, <3>1, <3>4 DEF DhOpen
    <3>5. ready' = 1..(at' - 1)
      BY <1>8, <2>2, <3>1 DEF DhOpen
    <3>6. ManagerInv'
      BY <2>2, <3>3, <3>4, <3>5
    <3>7. QED
      BY <3>2, <3>6
  <2>3. QED
    BY <1>8, <2>1, <2>2 DEF DhOpen
<1>9. CASE DhGetInitState
  <2>1. CASE SlotFails
    BY <1>9, <2>1, SlotFailsInv DEF DhGetInitState
  <2>2. CASE dh[at] = "finished" /\ SlotReady
    BY <1>9, <2>2, SlotReadyInv DEF DhGetInitState
  <2>3. CASE step' = "dh_init" /\ UNCHANGED <<file, cfg, at, ready, slots, dh>>
    BY <1>9, <2>3 DEF DhGetInitState
  <2>4. QED
    BY <1>9, <2>1, <2>2, <2>3 DEF DhGetInitState
<1>10. CASE DhInitialization
  BY <1>10 DEF DhInitialization
<1>11. CASE DhPoll
  <2>1. CASE dh[at] = "finished" /\ SlotReady
    BY <1>11, <2>1, SlotReadyInv DEF DhPoll
  <2>2. CASE UNCHANGED <<file, cfg, step, at, ready, slots, dh>>
    BY <1>11, <2>2 DEF DhPoll
  <2>3. QED
    BY <1>11, <2>1, <2>2 DEF DhPoll
<1>12. CASE DhTimeout
  BY <1>12, SlotFailsInv DEF DhTimeout
<1>13. CASE Unwind
  BY <1>13 DEF Unwind
<1>14. CASE ReturnFalse
  BY <1>14 DEF ReturnFalse
<1>15. CASE DhFinishes
  BY <1>15 DEF DhFinishes
<1>16. CASE UNCHANGED managerVars
  BY <1>16 DEF managerVars
<1>17. QED
  BY <1>1, <1>2, <1>3, <1>4, <1>5, <1>6, <1>7, <1>8, <1>9, <1>10, <1>11, <1>12, <1>13,
     <1>14, <1>15, <1>16 DEF ManagerNext, LoadAndInit, InitSlot

LEMMA ManagerInvariance == ManagerSpec => [](ManagerTypeOK /\ ManagerInv)
BY ManagerInitInv, ManagerStepInv, PTL DEF ManagerSpec

\* Every variable of the manager keeps its type.
THEOREM ManagerTypeCorrect == ManagerSpec => []ManagerTypeOK
BY ManagerInvariance, PTL

\* A call that returns false leaves no port open, no thread running and no slot.
THEOREM FailureIsClean == ManagerSpec => []FailureHoldsNothing
<1>1. ManagerInv => FailureHoldsNothing
  BY DEF ManagerInv
<1>2. QED
  BY <1>1, ManagerInvariance, PTL

\* A call that returns true has every slot ready, holding its device, and every DH
\* gripper initialised.
THEOREM SuccessIsComplete == ManagerSpec => []SuccessServesAll
<1>1. ManagerTypeOK /\ ManagerInv => SuccessServesAll
  BY RobotNumAssumption DEF ManagerTypeOK, ManagerInv, SuccessServesAll, Served
<1>2. QED
  BY <1>1, ManagerInvariance, PTL

\* LoadAndInit is all or nothing.
THEOREM LoadIsAtomic == ManagerSpec => []AllOrNothing
BY FailureIsClean, SuccessIsComplete, PTL DEF AllOrNothing

-----------------------------------------------------------------------------
(* The Piper slot. *)

\* What AcceptCommand carries between its steps
SlotInv ==
    /\ Slot!TypeOK /\ Slot!TargetKnown /\ Slot!PositionIsMeasured
    /\ call # "idle" => out \in Slot!Controls
    /\ call = "ctrl" /\ ~out.named => out.angle = last_angle
    /\ call = "store" => target = Slot!Limit(out.angle)
    /\ call = "read" /\ target # Unset => target = Slot!Limit(last_angle)
    /\ state \in measured

\* Whatever the command, the angle sent is one the slot may send.
LEMMA AngleIsLegal ==
    ASSUME Slot!TypeOK, NEW c \in Slot!Commands
    PROVE  [angle |-> Slot!AngleOf(c), on |-> c.status # "off", named |-> Slot!NamesAngle(c)]
               \in Slot!Controls
<1>1. \A a \in Raw : Slot!Clamp(a, 0, MaxRaw) \in Slot!Angles
  BY PiperAssumption DEF Slot!Clamp, Slot!Angles
<1>2. c.angle \in Raw \union {Unset} /\ c.position \in Raw \union {Unset}
  BY DEF Slot!Commands
<1>3. 0 \in Slot!Angles /\ MaxRaw \in Slot!Angles /\ last_angle \in Slot!Angles
  BY PiperAssumption DEF Slot!TypeOK, Slot!Angles
<1>4. Slot!AngleOf(c) \in Slot!Angles
  BY <1>1, <1>2, <1>3 DEF Slot!AngleOf
<1>5. (c.status # "off") \in BOOLEAN /\ Slot!NamesAngle(c) \in BOOLEAN
  BY DEF Slot!NamesAngle
<1>6. QED
  BY <1>4, <1>5 DEF Slot!Controls

\* Every step of the Piper slot, its gripper and its reader keeps the types.
LEMMA SlotTypeStep == SlotInv /\ [EENext]_EEVars => Slot!TypeOK'
<1> SUFFICES ASSUME SlotInv, [EENext]_EEVars PROVE Slot!TypeOK'
  OBVIOUS
<1> USE DEF Slot!TypeOK, Slot!Angles, Slot!Controls
<1>1. Slot!Angles # {} /\ \A a \in Slot!Angles : Slot!Limit(a) \in Slot!Angles
  BY PiperAssumption DEF Slot!Limit, Slot!Clamp
<1>2. Slot!TypeOK
  BY DEF SlotInv
<1>3. CASE Slot!Accept
  <2>1. PICK c \in Slot!Commands :
           out' = [angle |-> Slot!AngleOf(c), on |-> c.status # "off",
                   named |-> Slot!NamesAngle(c)]
    BY <1>3 DEF Slot!Accept
  <2>2. out' \in Slot!Controls
    BY <1>2, <2>1, AngleIsLegal
  <2>3. QED
    BY <1>2, <1>3, <2>2 DEF Slot!Accept, Slot!gripperVars
<1>4. CASE Slot!GripperCtrl
  <2>1. out \in Slot!Controls /\ call' \in {"store", "idle"}
    BY <1>4 DEF SlotInv, Slot!GripperCtrl
  <2>2. target' \in Slot!Angles \union {Unset} /\ enabled' \in BOOLEAN
    BY <1>1, <1>2, <1>4, <2>1 DEF Slot!GripperCtrl
  <2>3. QED
    BY <1>2, <1>4, <2>1, <2>2 DEF Slot!GripperCtrl
<1>5. CASE Slot!Store
  <2>1. out.angle \in Slot!Angles
    BY <1>5 DEF SlotInv, Slot!Store
  <2>2. QED
    BY <1>2, <1>5, <2>1 DEF Slot!Store, Slot!gripperVars
<1>6. CASE Slot!GetArmGripperMsgs
  BY <1>2, <1>6 DEF Slot!GetArmGripperMsgs, Slot!gripperVars
<1>7. CASE Slot!Move
  <2>1. angle' \in Slot!Angles
    BY PiperAssumption, <1>2, <1>7 DEF Slot!Move
  <2>2. QED
    BY <1>2, <1>7, <2>1 DEF Slot!Move, Slot!slotVars
<1>8. CASE Slot!Feedback
  <2>1. state' \in Slot!Angles /\ measured' = measured \union {state'}
    BY <1>1, <1>2, <1>8 DEF Slot!Feedback
  <2>2. QED
    BY <1>2, <1>8, <2>1 DEF Slot!Feedback, Slot!slotVars, Slot!gripperVars
<1>9. CASE UNCHANGED slotVars
  BY <1>2, <1>9 DEF slotVars
<1>10. QED
  BY <1>3, <1>4, <1>5, <1>6, <1>7, <1>8, <1>9 DEF EENext, EEVars, Slot!Next

LEMMA SlotStep == SlotInv /\ [EENext]_EEVars => SlotInv'
<1> SUFFICES ASSUME SlotInv, [EENext]_EEVars PROVE SlotInv'
  OBVIOUS
<1>1. Slot!TypeOK'
  BY SlotTypeStep
<1> USE DEF SlotInv, Slot!TargetKnown, Slot!PositionIsMeasured
<1>2. CASE Slot!Accept
  <2>1. PICK c \in Slot!Commands :
           out' = [angle |-> Slot!AngleOf(c), on |-> c.status # "off",
                   named |-> Slot!NamesAngle(c)]
    BY <1>2 DEF Slot!Accept
  <2>2. ~Slot!NamesAngle(c) => Slot!AngleOf(c) = last_angle
    BY PiperAssumption DEF Slot!NamesAngle, Slot!AngleOf
  <2>3. out'.angle = Slot!AngleOf(c) /\ (out'.named <=> Slot!NamesAngle(c))
    BY <2>1
  <2>4. /\ call = "idle" /\ call' = "ctrl"
        /\ UNCHANGED <<last_angle, position, state, target, measured>>
    BY <1>2 DEF Slot!Accept, Slot!gripperVars
  <2>5. out' \in Slot!Controls
    BY <2>1, AngleIsLegal
  <2>6. QED
    BY <1>1, <2>2, <2>3, <2>4, <2>5
<1>3. CASE Slot!GripperCtrl
  BY <1>1, <1>3 DEF Slot!GripperCtrl
<1>4. CASE Slot!Store
  BY <1>1, <1>4 DEF Slot!Store, Slot!gripperVars
<1>5. CASE Slot!GetArmGripperMsgs
  BY <1>1, <1>5 DEF Slot!GetArmGripperMsgs, Slot!gripperVars
<1>6. CASE Slot!Move
  BY <1>1, <1>6 DEF Slot!Move, Slot!slotVars
<1>7. CASE Slot!Feedback
  BY <1>1, <1>7 DEF Slot!Feedback, Slot!slotVars, Slot!gripperVars
<1>8. CASE UNCHANGED slotVars
  BY <1>1, <1>8 DEF slotVars, Slot!Limit, Slot!Clamp
<1>9. QED
  BY <1>2, <1>3, <1>4, <1>5, <1>6, <1>7, <1>8 DEF EENext, EEVars, Slot!Next

LEMMA SlotInit == EEInit => SlotInv
<1> SUFFICES ASSUME EEInit PROVE SlotInv
  OBVIOUS
<1> USE DEF EEInit, Slot!Init
<1>1. Slot!TypeOK
  <2>1. 0 \in Slot!Angles /\ MaxRaw \in Slot!Angles /\ angle \in Slot!Angles
    BY PiperAssumption DEF Slot!Angles
  <2>2. QED
    BY <2>1 DEF Slot!TypeOK
<1>2. QED
  BY <1>1 DEF SlotInv, Slot!TargetKnown, Slot!PositionIsMeasured

\* A command without an angle tells the gripper what it was told before.
LEMMA TargetStep ==
    SlotInv /\ [EENext]_EEVars =>
        [call = "ctrl" /\ ~out.named /\ target # Unset => target' = target]_Slot!vars
<1> SUFFICES ASSUME SlotInv, [EENext]_EEVars, call = "ctrl", ~out.named, target # Unset
             PROVE  target' = target
  OBVIOUS
<1>1. CASE Slot!GripperCtrl
  BY <1>1 DEF SlotInv, Slot!TargetKnown, Slot!GripperCtrl
<1>2. CASE UNCHANGED target
  BY <1>2
<1>3. Slot!Next => Slot!GripperCtrl \/ UNCHANGED target
  BY DEF Slot!Next, Slot!Accept, Slot!Store, Slot!GetArmGripperMsgs, Slot!Move, Slot!Feedback,
         Slot!gripperVars
<1>4. QED
  BY <1>1, <1>2, <1>3 DEF EENext, EEVars, slotVars

-----------------------------------------------------------------------------
(* Division, and the digits of a number. *)

\* What \div and % mean,
LEMMA Euclid ==
    ASSUME NEW B \in Nat \ {0}, NEW a \in Int
    PROVE  /\ a \div B \in Int /\ a % B \in 0..(B - 1) /\ a = B * (a \div B) + (a % B)
<1>1. a \div B \in Int /\ a % B \in 0..(B - 1)
  OBVIOUS
<1>2. a = B * (a \div B) + (a % B)
  OBVIOUS
<1>3. QED
  BY <1>1, <1>2

\* and that nothing else does.
LEMMA EuclidUnique ==
    ASSUME NEW B \in Nat \ {0}, NEW a \in Int, NEW q \in Int, NEW r \in 0..(B - 1), a = B * q + r
    PROVE  a \div B = q /\ a % B = r
<1> DEFINE p == a \div B
           s == a % B
<1>1. p \in Int /\ s \in 0..(B - 1) /\ a = B * p + s
  BY Euclid
<1> HIDE DEF p, s
<1>2. B * (q - p) = s - r
  BY <1>1
<1>3. q - p \in Int
  BY <1>1
<1>4. ~(q - p >= 1)
  <2>1. SUFFICES ASSUME q - p >= 1 PROVE FALSE
    OBVIOUS
  <2>2. B * (q - p) >= B
    BY <1>3, <2>1
  <2>3. QED
    BY <1>1, <1>2, <2>2
<1>5. ~(q - p <= -1)
  <2>1. SUFFICES ASSUME q - p <= -1 PROVE FALSE
    OBVIOUS
  <2>2. B * (q - p) <= -B
    BY <1>3, <2>1
  <2>3. QED
    BY <1>1, <1>2, <2>2
<1>6. q = p
  BY <1>1, <1>3, <1>4, <1>5
<1>7. r = s
  BY <1>1, <1>2, <1>6
<1>8. QED
  BY <1>6, <1>7 DEF p, s

\* Adding a multiple of the base changes no lower digit.
LEMMA ShiftDiv ==
    ASSUME NEW B \in Nat \ {0}, NEW a \in Int, NEW k \in Int
    PROVE  (a + B * k) \div B = a \div B + k /\ (a + B * k) % B = a % B
<1> DEFINE p == a \div B
           s == a % B
<1>1. p \in Int /\ s \in 0..(B - 1) /\ a = B * p + s
  BY Euclid
<1> HIDE DEF p, s
<1>2. a + B * k = B * (p + k) + s /\ p + k \in Int /\ a + B * k \in Int
  BY <1>1
<1>3. QED
  BY <1>1, <1>2, EuclidUnique DEF p, s

\* Dividing twice is dividing by the product.
LEMMA DivDiv ==
    ASSUME NEW B \in Nat \ {0}, NEW m \in Nat \ {0}, NEW a \in Int
    PROVE  a \div (m * B) = (a \div m) \div B
<1> DEFINE q == a \div m
           r == a % m
           p == q \div B
           s == q % B
<1>1. q \in Int /\ r \in 0..(m - 1) /\ a = m * q + r
  BY Euclid
<1>2. p \in Int /\ s \in 0..(B - 1) /\ q = B * p + s
  BY <1>1, Euclid
<1> HIDE DEF q, r, p, s
<1>3. a = (m * B) * p + (m * s + r)
  BY <1>1, <1>2
<1>4. m * B \in Nat \ {0}
  OBVIOUS
<1>5. m * s + r \in 0..(m * B - 1)
  <2>1. m * s >= 0 /\ m * s \in Int
    BY <1>2
  <2>2. m * s <= m * (B - 1)
    BY <1>2
  <2>3. m * (B - 1) = m * B - m
    OBVIOUS
  <2>4. QED
    BY <1>1, <1>4, <2>1, <2>2, <2>3
<1>6. a \div (m * B) = p
  BY <1>2, <1>3, <1>4, <1>5, EuclidUnique
<1>7. QED
  BY <1>6 DEF p, q
\* The digits of two's complement, most significant first
LEMMA TwosComplement4 ==
    ASSUME NEW v
    PROVE  LET u == (v + Codec!Word4) % Codec!Word4 IN
           Codec!TwosComplement(v, 4) =
               <<(((u \div Base) \div Base) \div Base) % Base, ((u \div Base) \div Base) % Base,
                 (u \div Base) % Base, u % Base>>
<1> DEFINE u == (v + Codec!Word4) % Codec!Word4
           F(g) == [k \in 0..4 |-> IF k = 0 THEN u ELSE g[k - 1] \div Base]
           w == [k \in 0..4 |-> IF k = 0 THEN u
                                ELSE IF k = 1 THEN u \div Base
                                ELSE IF k = 2 THEN (u \div Base) \div Base
                                ELSE IF k = 3 THEN ((u \div Base) \div Base) \div Base
                                ELSE (((u \div Base) \div Base) \div Base) \div Base]
           r == CHOOSE g : g = F(g)
<1>1. Codec!TwosComplement(v, 4) = [k \in 1..4 |-> r[4 - k] % Base]
  BY DEF Codec!TwosComplement
<1> HIDE DEF u
<1>2. w = F(w)
  OBVIOUS
<1>3. r = F(r)
  <2> HIDE DEF w, F
  <2>1. QED
    BY <1>2
<1> HIDE DEF r, w
<1>4. /\ r[0] = u /\ r[1] = r[0] \div Base /\ r[2] = r[1] \div Base /\ r[3] = r[2] \div Base
  BY <1>3
<1> HIDE DEF F
<1>5. [k \in 1..4 |-> r[4 - k] % Base] = <<r[3] % Base, r[2] % Base, r[1] % Base, r[0] % Base>>
  OBVIOUS
<1>6. QED
  BY <1>1, <1>4, <1>5 DEF u

LEMMA TwosComplement2 ==
    ASSUME NEW v
    PROVE  LET u == (v + Codec!Word2) % Codec!Word2 IN
           Codec!TwosComplement(v, 2) = <<(u \div Base) % Base, u % Base>>
<1> DEFINE u == (v + Codec!Word2) % Codec!Word2
           F(g) == [k \in 0..2 |-> IF k = 0 THEN u ELSE g[k - 1] \div Base]
           w == [k \in 0..2 |-> IF k = 0 THEN u
                                ELSE IF k = 1 THEN u \div Base
                                ELSE (u \div Base) \div Base]
           r == CHOOSE g : g = F(g)
<1>1. Codec!TwosComplement(v, 2) = [k \in 1..2 |-> r[2 - k] % Base]
  BY DEF Codec!TwosComplement
<1> HIDE DEF u
<1>2. w = F(w)
  OBVIOUS
<1>3. r = F(r)
  <2> HIDE DEF w, F
  <2>1. QED
    BY <1>2
<1> HIDE DEF r, w
<1>4. r[0] = u /\ r[1] = r[0] \div Base
  BY <1>3
<1> HIDE DEF F
<1>5. [k \in 1..2 |-> r[2 - k] % Base] = <<r[1] % Base, r[0] % Base>>
  OBVIOUS
<1>6. QED
  BY <1>1, <1>4, <1>5 DEF u


\* The sizes of two and of four bytes
LEMMA Widths ==
    /\ Base \in Nat \ {0} /\ Codec!Word2 = Base * Base /\ Codec!Word2 \in Nat \ {0}
    /\ Codec!Word4 = Base * (Codec!Word2 * Base) /\ Codec!Word4 \in Nat \ {0}
    /\ Codec!Word2 * Base \in Nat \ {0}
    /\ Codec!Word4 = Codec!Word2 * (Base * Base)
    /\ Codec!Word4 = Codec!Word2 * Base * Base
<1>1. Base \in Nat \ {0}
  BY CodecAssumption
<1>2. Base * Base \in Nat \ {0}
  BY <1>1
<1>3. (Base * Base) * Base \in Nat \ {0}
  BY <1>1, <1>2
<1> DEFINE c == Base * Base
<1>4. c * c = Base * (c * Base) /\ c * c = c * (Base * Base) /\ c * c = c * Base * Base
  BY <1>1
<1>5. c * c \in Nat \ {0}
  BY <1>2
<1>6. QED
  BY <1>1, <1>2, <1>3, <1>4, <1>5 DEF Codec!Word4, Codec!Word2

\* A signed value wraps to a digit string and back.
LEMMA Wrap ==
    ASSUME NEW W \in Nat \ {0}, NEW v \in (-(W \div 2))..(W \div 2 - 1)
    PROVE  LET u == (v + W) % W
           IN  u \in 0..(W - 1) /\ (u = v \/ u = v + W) /\ Codec!Signed(u, W) = v
<1> DEFINE u == (v + W) % W
           one == 1
           zero == 0
<1>1. v \in Int /\ W \div 2 \in Nat /\ W \div 2 + W \div 2 <= W
  OBVIOUS
<1>2. v >= -(W \div 2) /\ v <= W \div 2 - 1
  BY <1>1
<1>3. CASE v >= 0
  <2>1. v + W = W * one + v /\ v \in 0..(W - 1) /\ v + W \in Int /\ one \in Int
    BY <1>1, <1>2, <1>3
  <2> HIDE DEF one
  <2>2. u = v
    BY <2>1, EuclidUnique
  <2>3. QED
    BY <1>1, <1>2, <1>3, <2>1, <2>2 DEF Codec!Signed
<1>4. CASE v < 0
  <2>1. v + W = W * zero + (v + W) /\ v + W \in 0..(W - 1) /\ v + W \in Int /\ zero \in Int
    BY <1>1, <1>2, <1>4
  <2> HIDE DEF zero
  <2>2. u = v + W
    BY <2>1, EuclidUnique
  <2>3. QED
    BY <1>1, <1>2, <1>4, <2>1, <2>2 DEF Codec!Signed
<1>5. QED
  BY <1>1, <1>3, <1>4

\* A number of fewer digits has a shorter quotient.
LEMMA DivBound ==
    ASSUME NEW B \in Nat \ {0}, NEW m \in Nat, NEW a \in 0..(B * m - 1)
    PROVE  a \div B \in 0..(m - 1)
<1> DEFINE q == a \div B
           r == a % B
<1>1. a \in Int /\ a >= 0 /\ a < B * m
  BY DEF q, r
<1>2. q \in Int /\ r \in 0..(B - 1) /\ a = B * q + r
  BY <1>1, Euclid
<1> HIDE DEF q, r
<1>3. ~(q <= -1)
  <2>1. SUFFICES ASSUME q <= -1 PROVE FALSE
    OBVIOUS
  <2>2. B * q <= -B
    BY <1>2, <2>1
  <2>3. QED
    BY <1>1, <1>2, <2>2
<1>4. ~(q >= m)
  <2>1. SUFFICES ASSUME q >= m PROVE FALSE
    OBVIOUS
  <2>2. B * q >= B * m
    BY <1>2, <2>1
  <2>3. QED
    BY <1>1, <1>2, <2>2
<1>5. QED
  BY <1>2, <1>3, <1>4 DEF q

\* The bytes that go out are the digits of two's complement.
LEMMA BytesAreDigits ==
    ASSUME NEW v \in Codec!Int32
    PROVE  Codec!BytesOfInt32(v) = Codec!TwosComplement(v, 4)
<1> DEFINE u == (v + Codec!Word4) % Codec!Word4
           W == Codec!Word4
           c == Codec!Word2
<1>0. v \in Int
  BY Widths DEF Codec!Int32
<1>1. /\ v \div c = (v \div Base) \div Base
      /\ v \div (c * Base) = ((v \div Base) \div Base) \div Base
  <2>1. v \div c = (v \div Base) \div Base
    BY <1>0, Widths, DivDiv
  <2>2. v \div (c * Base) = (v \div c) \div Base
    BY <1>0, Widths, DivDiv
  <2>3. QED
    BY <2>1, <2>2
<1>2. u = v \/ u = v + W
  BY Widths, Wrap DEF Codec!Int32
<1>3. /\ u % Base = v % Base
      /\ (u \div Base) % Base = (v \div Base) % Base
      /\ ((u \div Base) \div Base) % Base = ((v \div Base) \div Base) % Base
      /\ (((u \div Base) \div Base) \div Base) % Base
          = (((v \div Base) \div Base) \div Base) % Base
  <2>1. CASE u = v
    BY <2>1
  <2>2. CASE u = v + W
    <3> DEFINE k == c * Base
    <3>1. /\ Base \in Nat \ {0} /\ c \in Int /\ k \in Int
          /\ W = Base * k /\ k = Base * c /\ c = Base * Base /\ Base \in Int
      BY Widths
    <3> HIDE DEF u, W, c, k
    <3>2. u % Base = v % Base /\ u \div Base = v \div Base + k
      BY <1>0, <2>2, <3>1, ShiftDiv
    <3>3. v \div Base \in Int /\ (v \div Base) \div Base \in Int
      BY <1>0, <3>1
    <3>4. /\ (u \div Base) % Base = (v \div Base) % Base
          /\ (u \div Base) \div Base = (v \div Base) \div Base + c
      BY <3>1, <3>2, <3>3, ShiftDiv
    <3> DEFINE u2 == (u \div Base) \div Base
               v2 == (v \div Base) \div Base
    <3>5. v2 \in Int /\ u2 = v2 + Base * Base
      BY <3>1, <3>3, <3>4
    <3> HIDE DEF u2, v2
    <3>6. u2 % Base = v2 % Base /\ u2 \div Base = v2 \div Base + Base
      BY <3>1, <3>5, ShiftDiv
    <3> DEFINE u3 == u2 \div Base
               v3 == v2 \div Base
               one == 1
    <3>7. v3 \in Int /\ one \in Int /\ u3 = v3 + Base * one
      BY <3>1, <3>5, <3>6
    <3> HIDE DEF u3, v3, one
    <3>9. u3 % Base = v3 % Base
      BY <3>1, <3>7, ShiftDiv
    <3>8. QED
      BY <3>2, <3>4, <3>6, <3>9 DEF u3, v3, u2, v2
  <2>3. QED
    BY <1>2, <2>1, <2>2
<1>4. QED
  BY <1>1, <1>3, TwosComplement4 DEF Codec!BytesOfInt32

\* So are an effort's.
LEMMA EffortBytesAreDigits ==
    ASSUME NEW v \in Codec!Int16
    PROVE  <<(v \div Base) % Base, v % Base>> = Codec!TwosComplement(v, 2)
<1> DEFINE W == Codec!Word2
           u == (v + W) % W
<1>1. v \in Int
  BY Widths DEF Codec!Int16
<1>2. u = v \/ u = v + W
  BY Widths, Wrap DEF Codec!Int16
<1>3. u % Base = v % Base /\ (u \div Base) % Base = (v \div Base) % Base
  <2>1. CASE u = v
    BY <2>1
  <2>2. CASE u = v + W
    <3> DEFINE one == 1
               b == Base
    <3>1. Base \in Nat \ {0} /\ b \in Int /\ one \in Int /\ W = Base * b /\ b = Base * one
      BY Widths
    <3> HIDE DEF u, W, one, b
    <3>2. u % Base = v % Base /\ u \div Base = v \div Base + b /\ v \div Base \in Int
      BY <1>1, <2>2, <3>1, ShiftDiv
    <3> DEFINE u1 == u \div Base
               v1 == v \div Base
    <3>3. v1 \in Int /\ u1 = v1 + Base * one
      BY <3>1, <3>2
    <3> HIDE DEF u1, v1
    <3>4. u1 % Base = v1 % Base
      BY <3>1, <3>3, ShiftDiv
    <3>5. QED
      BY <3>2, <3>4 DEF u1, v1
  <2>3. QED
    BY <1>2, <2>1, <2>2
<1>4. QED
  BY <1>3, TwosComplement2

\* The reader's four bytes give the angle back.
LEMMA AngleIsRead ==
    ASSUME NEW v \in Codec!Int32
    PROVE  LET d == Codec!TwosComplement(v, 4)
           IN  d \in [1..4 -> Codec!Byte] /\ Codec!Int32FromBigEndian(d) = v
<1> DEFINE W == Codec!Word4
           c == Codec!Word2
           u == (v + W) % W
           q1 == u \div Base
           q2 == q1 \div Base
           q3 == q2 \div Base
           d == Codec!TwosComplement(v, 4)
<1>1. u \in 0..(W - 1) /\ Codec!Signed(u, W) = v
  BY Widths, Wrap DEF Codec!Int32
<1>2. d = <<q3 % Base, q2 % Base, q1 % Base, u % Base>>
  BY TwosComplement4
<1>3. /\ W = Base * (c * Base) /\ c * Base \in Nat /\ c * Base = Base * c /\ c \in Nat
      /\ c = Base * Base /\ Base \in Nat \ {0} /\ Base \in Nat
  BY Widths
<1> HIDE DEF u, W, c, d
<1>4. q1 \in 0..(c * Base - 1)
  BY <1>1, <1>3, DivBound
<1> HIDE DEF q1
<1>5. q2 \in 0..(c - 1)
  BY <1>3, <1>4, DivBound
<1> HIDE DEF q2
<1>6. q3 \in 0..(Base - 1)
  BY <1>3, <1>5, DivBound
<1>7. u \in Int /\ q1 \in Int /\ q2 \in Int /\ q3 \in Int
  BY <1>1, <1>4, <1>5, <1>6
<1>8. /\ u = Base * q1 + (u % Base) /\ u % Base \in 0..(Base - 1)
      /\ q1 = Base * q2 + (q1 % Base) /\ q1 % Base \in 0..(Base - 1)
      /\ q2 = Base * q3 + (q2 % Base) /\ q2 % Base \in 0..(Base - 1)
  BY <1>3, <1>7, Euclid DEF q1, q2, q3
<1>9. q3 % Base = q3
  <2> DEFINE zero == 0
  <2>1. q3 = Base * zero + q3 /\ zero \in Int
    BY <1>3, <1>7
  <2> HIDE DEF zero, q3
  <2>2. QED
    BY <1>3, <1>6, <1>7, <2>1, EuclidUnique
<1> DEFINE x == u % Base
           y == q1 % Base
           z == q2 % Base
<1>10. x \in Int /\ y \in Int /\ z \in Int
  BY <1>8
<1>11. d = <<q3, z, y, x>> /\ d \in [1..4 -> Codec!Byte]
  BY <1>2, <1>6, <1>8, <1>9 DEF Codec!Byte
<1>12. u = Base * q1 + x /\ q1 = Base * q2 + y /\ q2 = Base * q3 + z
  BY <1>8
<1> HIDE DEF x, y, z, q3
<1>13. q3 * c * Base + z * c + y * Base + x = u
  <2>1. Base * q2 = c * q3 + Base * z
    BY <1>3, <1>7, <1>10, <1>12
  <2>2. q1 = c * q3 + Base * z + y
    BY <1>12, <2>1
  <2>3. Base * q1 = Base * (c * q3) + Base * (Base * z) + Base * y
    BY <1>3, <1>7, <1>10, <2>2
  <2>4. Base * (c * q3) = q3 * c * Base /\ Base * (Base * z) = z * c /\ Base * y = y * Base
    BY <1>3, <1>7, <1>10
  <2>5. QED
    BY <1>12, <2>3, <2>4
<1>14. QED
  BY <1>1, <1>11, <1>13 DEF Codec!Int32FromBigEndian, d, W, c

\* And its two bytes the effort.
LEMMA EffortIsRead ==
    ASSUME NEW v \in Codec!Int16
    PROVE  LET d == Codec!TwosComplement(v, 2)
           IN  d \in [1..2 -> Codec!Byte] /\ Codec!Int16FromBigEndian(d) = v
<1> DEFINE W == Codec!Word2
           u == (v + W) % W
           q1 == u \div Base
           x == u % Base
           d == Codec!TwosComplement(v, 2)
<1>1. u \in 0..(W - 1) /\ Codec!Signed(u, W) = v
  BY Widths, Wrap DEF Codec!Int16
<1>2. d = <<q1 % Base, x>>
  BY TwosComplement2
<1>3. W = Base * Base /\ Base \in Nat \ {0} /\ Base \in Nat
  BY Widths
<1> HIDE DEF u, W, d
<1>4. q1 \in 0..(Base - 1)
  BY <1>1, <1>3, DivBound
<1>5. u \in Int /\ q1 \in Int
  BY <1>1, <1>4
<1>6. u = Base * q1 + x /\ x \in 0..(Base - 1)
  BY <1>3, <1>5, Euclid
<1> HIDE DEF q1, x
<1>7. q1 % Base = q1
  <2> DEFINE zero == 0
  <2>1. q1 = Base * zero + q1 /\ zero \in Int
    BY <1>3, <1>5
  <2> HIDE DEF zero
  <2>2. QED
    BY <1>3, <1>4, <1>5, <2>1, EuclidUnique
<1>8. d = <<q1, x>> /\ d \in [1..2 -> Codec!Byte]
  BY <1>2, <1>4, <1>6, <1>7 DEF Codec!Byte
<1>9. q1 * Base + x = u
  BY <1>3, <1>5, <1>6
<1>10. QED
  BY <1>1, <1>8, <1>9 DEF Codec!Int16FromBigEndian, d, W

-----------------------------------------------------------------------------
(* The frames. *)

\* Tuples of a known length, joined and cut
LEMMA Tuple ==
    ASSUME NEW S, NEW n \in Nat, NEW s \in [1..n -> S]
    PROVE  s \in Seq(S) /\ Len(s) = n
<1>1. s \in Seq(S)
  BY SeqDef
<1>2. Len(s) \in Nat /\ DOMAIN s = 1..Len(s)
  BY <1>1, LenProperties
<1>3. DOMAIN s = 1..n
  OBVIOUS
<1>4. QED
  BY <1>1, <1>2, <1>3

LEMMA Joined ==
    ASSUME NEW S, NEW m \in Nat, NEW n \in Nat, NEW s \in [1..m -> S], NEW t \in [1..n -> S]
    PROVE  /\ s \o t \in [1..(m + n) -> S]
           /\ \A i \in 1..m : (s \o t)[i] = s[i]
           /\ \A i \in 1..n : (s \o t)[m + i] = t[i]
<1>1. s \in Seq(S) /\ Len(s) = m /\ t \in Seq(S) /\ Len(t) = n
  BY Tuple
<1> DEFINE u == s \o t
<1>2. /\ u \in Seq(S) /\ Len(u) = m + n
      /\ \A i \in 1..(m + n) : u[i] = IF i <= m THEN s[i] ELSE t[i - m]
  BY <1>1, ConcatProperties
<1>3. u \in [1..Len(u) -> S]
  BY <1>2, LenProperties
<1> HIDE DEF u
<1>4. \A i \in 1..m : u[i] = s[i]
  BY <1>2
<1>5. \A i \in 1..n : u[m + i] = t[i]
  BY <1>2
<1>6. QED
  BY <1>2, <1>3, <1>4, <1>5 DEF u

LEMMA CutOut ==
    ASSUME NEW S, NEW n \in Nat, NEW s \in [1..n -> S], NEW m \in Nat, NEW k \in Nat \ {0},
           m + k <= n
    PROVE  /\ SubSeq(s, m + 1, m + k) \in [1..k -> S]
           /\ \A i \in 1..k : SubSeq(s, m + 1, m + k)[i] = s[m + i]
<1> DEFINE lo == m + 1
           hi == m + k
           u == SubSeq(s, lo, hi)
<1>1. lo \in Int /\ hi \in Int /\ hi - lo + 1 = k /\ lo <= hi
  OBVIOUS
<1>2. \A i \in lo..hi : s[i] \in S
  OBVIOUS
<1> HIDE DEF lo, hi
<1>3. /\ SubSeq(s, lo, hi) \in Seq(S)
      /\ Len(SubSeq(s, lo, hi)) = IF lo <= hi THEN hi - lo + 1 ELSE 0
      /\ \A i \in 1..(hi - lo + 1) : SubSeq(s, lo, hi)[i] = s[lo + i - 1]
  <2>1. lo \in Int /\ hi \in Int
    BY <1>1
  <2>2. QED
    BY <1>2, <2>1, SubSeqProperties
<1> HIDE DEF u
<1>4. /\ u \in Seq(S)
      /\ Len(u) = IF lo <= hi THEN hi - lo + 1 ELSE 0
      /\ \A i \in 1..(hi - lo + 1) : u[i] = s[lo + i - 1]
  BY <1>3, Zenon DEF u
<1>5. u \in Seq(S)
  BY <1>4
<1>6. Len(u) = k
  BY <1>1, <1>4
<1>7. \A i \in 1..k : u[i] = s[lo + i - 1]
  BY <1>1, <1>4
<1>8. u \in [1..Len(u) -> S]
  BY <1>5, LenProperties, Zenon
<1>9. \A i \in 1..k : lo + i - 1 = m + i
  BY DEF lo
<1>10. u \in [1..k -> S]
  BY <1>6, <1>8
<1>11. \A i \in 1..k : u[i] = s[m + i]
  BY <1>7, <1>9
<1>12. QED
  BY <1>10, <1>11, Zenon DEF u, lo, hi

\* Four bytes are two and two
LEMMA FourAreTwice ==
    ASSUME NEW S, NEW g \in [1..2 -> S], NEW h \in [1..2 -> S], NEW k \in [1..4 -> S],
           k[1] = g[1], k[2] = g[2], k[3] = h[1], k[4] = h[2]
    PROVE  k = g \o h
<1> DEFINE r == g \o h
           two == 2
<1>1. two \in Nat /\ g \in [1..two -> S] /\ h \in [1..two -> S]
  OBVIOUS
<1> HIDE DEF two
<1>2. r \in [1..(two + two) -> S]
  BY <1>1, Joined
<1>3. \A i \in 1..two : r[i] = g[i]
  BY <1>1, Joined
<1>4. ASSUME NEW i \in 1..two PROVE r[two + i] = h[i]
  BY <1>1, Joined
<1> HIDE DEF r
<1>5. r \in [1..4 -> S]
  BY <1>2 DEF two
<1>6. r[1] = k[1] /\ r[2] = k[2]
  BY <1>3 DEF two
<1>7. r[3] = k[3] /\ r[4] = k[4]
  BY <1>4 DEF two
<1>8. \A i \in 1..4 : r[i] = k[i]
  BY <1>6, <1>7
<1>9. QED
  BY <1>5, <1>8 DEF r

HasFields(f, S, a, e, p) ==
    f \in [1..8 -> S] /\ SubSeq(f, 1, 4) = a /\ SubSeq(f, 5, 6) = e /\ f[7] = p[1]

\* A frame's fields stand where they were put.
LEMMA FrameFields ==
    ASSUME NEW S, NEW a \in [1..4 -> S], NEW e \in [1..2 -> S], NEW p \in [1..2 -> S],
           NEW f, f = a \o e \o p
    PROVE  HasFields(f, S, a, e, p)
<1> DEFINE s == a \o e
           d == s \o p
           zero == 0
           two == 2
           four == 4
           six == 6
           eight == 8
<1>1. p \in [1..two -> S] /\ a \in [1..four -> S] /\ e \in [1..two -> S]
  OBVIOUS
<1>2. /\ zero \in Nat /\ two \in Nat \ {0} /\ two \in Nat /\ four \in Nat \ {0} /\ four \in Nat
      /\ six \in Nat /\ eight \in Nat
      /\ four + two = six /\ six + two = eight /\ zero + four <= eight /\ four + two <= eight
  OBVIOUS
<1> HIDE DEF zero, two, four, six, eight
<1>3. /\ s \in [1..(four + two) -> S]
      /\ \A i \in 1..four : s[i] = a[i]
      /\ \A i \in 1..two : s[four + i] = e[i]
  <2>1. s \in [1..(four + two) -> S]
    BY <1>1, <1>2, Joined
  <2>2. \A i \in 1..four : s[i] = a[i]
    BY <1>1, <1>2, Joined
  <2>3. \A i \in 1..two : s[four + i] = e[i]
    BY <1>1, <1>2, Joined
  <2>4. QED
    BY <2>1, <2>2, <2>3
<1>4. s \in [1..six -> S]
  BY <1>2, <1>3, Zenon
<1> HIDE DEF s
<1>5. /\ d \in [1..(six + two) -> S]
      /\ \A i \in 1..six : d[i] = s[i]
      /\ \A i \in 1..two : d[six + i] = p[i]
  <2>1. d \in [1..(six + two) -> S]
    BY <1>1, <1>2, <1>4, Joined
  <2>2. \A i \in 1..six : d[i] = s[i]
    BY <1>1, <1>2, <1>4, Joined
  <2>3. ASSUME NEW i \in 1..two PROVE d[six + i] = p[i]
    BY <1>1, <1>2, <1>4, Joined
  <2>4. QED
    BY <2>1, <2>2, <2>3
<1>6. d \in [1..eight -> S]
  BY <1>2, <1>5, Zenon
<1> HIDE DEF d
<1>7. /\ SubSeq(d, zero + 1, zero + four) \in [1..four -> S]
      /\ \A i \in 1..four : SubSeq(d, zero + 1, zero + four)[i] = d[zero + i]
  BY <1>2, <1>6, CutOut
<1>8. /\ SubSeq(d, four + 1, four + two) \in [1..two -> S]
      /\ \A i \in 1..two : SubSeq(d, four + 1, four + two)[i] = d[four + i]
  BY <1>2, <1>6, CutOut
<1> USE DEF zero, two, four, six, eight
<1>9. SubSeq(d, 1, 4) = a
  <2>1. \A i \in 1..4 : d[i] = a[i]
    BY <1>3, <1>5
  <2>2. QED
    BY <1>7, <2>1
<1>10. SubSeq(d, 5, 6) = e
  <2>1. \A i \in 1..2 : d[4 + i] = e[i]
    BY <1>3, <1>5
  <2>2. QED
    BY <1>8, <2>1
<1>11. d[7] = p[1]
  BY <1>5
<1>12. QED
  BY <1>6, <1>9, <1>10, <1>11 DEF d, s, HasFields

Readings == [angle: Codec!Int32, effort: Codec!Int16, status: Codec!Byte]

\* What the reader has had, or is about to have
CodecInv ==
    /\ feedback \in Readings /\ sent \in Readings
    /\ frame = <<>> => feedback = sent
    /\ frame # <<>> =>
          \/ /\ meant \in Codec!Commands /\ feedback = sent
             /\ frame = [id |-> CtrlId, dlc |-> 8, data |-> Codec!EncodeGripperCtrl(meant)]
          \/ /\ meant \in Codec!Measurements
             /\ \E id \in {FeedbackId, OtherId}, dlc \in {6, 8} :
                   /\ frame = [id |-> id, dlc |-> dlc, data |-> Codec!FeedbackOf(meant).data]
                   /\ IF id = FeedbackId /\ dlc = 8 THEN sent = meant ELSE feedback = sent

\* What goes out says what was meant.
LEMMA EncodedExactly ==
    ASSUME NEW c \in Codec!Commands
    PROVE  /\ Codec!EncodeGripperCtrl(c) =
                 Codec!TwosComplement(c.angle, 4) \o Codec!TwosComplement(c.effort, 2)
                     \o <<c.status, c.zero>>
           /\ Codec!EncodeGripperCtrl(c) \in [1..8 -> Codec!Byte]
<1> DEFINE a == Codec!TwosComplement(c.angle, 4)
           e == Codec!TwosComplement(c.effort, 2)
<1>1. /\ c.angle \in Codec!Int32 /\ c.effort \in Codec!Int16
      /\ c.status \in Codec!Byte /\ c.zero \in Codec!Byte
  BY CodecAssumption DEF Codec!Commands
<1>2. a \in [1..4 -> Codec!Byte] /\ e \in [1..2 -> Codec!Byte]
  BY <1>1, AngleIsRead, EffortIsRead
<1>3. a = Codec!BytesOfInt32(c.angle)
  BY <1>1, BytesAreDigits
<1>4. e = <<(c.effort \div Base) % Base, c.effort % Base>>
  BY <1>1, EffortBytesAreDigits
<1> DEFINE p == (c.effort \div Base) % Base
           q == c.effort % Base
<1> HIDE DEF a, e, p, q
<1> DEFINE h == <<c.status, c.zero>>
           k == <<p, q, c.status, c.zero>>
<1>5. a \o k = a \o e \o h
  <2>1. p \in Codec!Byte /\ q \in Codec!Byte
    <3>1. e[1] \in Codec!Byte /\ e[2] \in Codec!Byte
      BY <1>2
    <3>2. QED
      BY <3>1, <1>4 DEF p, q
  <2>2. /\ h \in [1..2 -> Codec!Byte] /\ k \in [1..4 -> Codec!Byte]
        /\ k[1] = p /\ k[2] = q /\ k[3] = h[1] /\ k[4] = h[2]
    BY <1>1, <2>1
  <2>3. e[1] = p /\ e[2] = q
    BY <1>4 DEF p, q
  <2> HIDE DEF h, k
  <2>4. k = e \o h
    BY <1>2, <2>2, <2>3, FourAreTwice
  <2>5. a \in Seq(Codec!Byte) /\ e \in Seq(Codec!Byte) /\ h \in Seq(Codec!Byte)
    BY <1>2, <2>2, Tuple
  <2>6. a \o (e \o h) = (a \o e) \o h
    BY <2>5, ConcatAssociative
  <2>7. QED
    BY <2>4, <2>6
<1>6. Codec!EncodeGripperCtrl(c) = a \o e \o <<c.status, c.zero>>
  BY <1>3, <1>4, <1>5 DEF Codec!EncodeGripperCtrl, p, q
<1>7. a \o e \o h \in [1..8 -> Codec!Byte]
  <2>1. h \in [1..2 -> Codec!Byte]
    BY <1>1
  <2> HIDE DEF h
  <2>2. QED
    BY <1>2, <2>1, FrameFields DEF HasFields
<1>8. QED
  BY <1>6, <1>7 DEF a, e

\* Whole feedback is read as what was measured.
LEMMA DecodedExactly ==
    ASSUME NEW m \in Codec!Measurements, NEW f, f.data = Codec!FeedbackOf(m).data
    PROVE  /\ f.data \in [1..8 -> Codec!Byte] /\ m \in Readings
           /\ Codec!DecodeGripperFeedback(f) = m
<1> DEFINE a == Codec!TwosComplement(m.angle, 4)
           e == Codec!TwosComplement(m.effort, 2)
<1>1. /\ m.angle \in Codec!Int32 /\ m.effort \in Codec!Int16 /\ m.status \in Codec!Byte
      /\ m = [angle |-> m.angle, effort |-> m.effort, status |-> m.status]
  BY CodecAssumption DEF Codec!Measurements
<1>2. 0 \in Codec!Byte
  BY CodecAssumption DEF Codec!Byte
<1>3. /\ a \in [1..4 -> Codec!Byte] /\ Codec!Int32FromBigEndian(a) = m.angle
      /\ e \in [1..2 -> Codec!Byte] /\ Codec!Int16FromBigEndian(e) = m.effort
  BY <1>1, AngleIsRead, EffortIsRead
<1>4. f.data = a \o e \o <<m.status, 0>>
  BY DEF Codec!FeedbackOf
<1> HIDE DEF a, e
<1>5. /\ f.data \in [1..8 -> Codec!Byte]
      /\ SubSeq(f.data, 1, 4) = a /\ SubSeq(f.data, 5, 6) = e /\ f.data[7] = m.status
  <2> DEFINE p == <<m.status, 0>>
             d == f.data
  <2>1. p \in [1..2 -> Codec!Byte] /\ p[1] = m.status /\ d = a \o e \o p
    BY <1>1, <1>2, <1>4
  <2> HIDE DEF p, d
  <2>2. HasFields(d, Codec!Byte, a, e, p)
    BY <1>3, <2>1, FrameFields
  <2>3. QED
    BY <2>1, <2>2 DEF d, HasFields
<1>6. Codec!DecodeGripperFeedback(f) = m
  BY <1>1, <1>3, <1>5 DEF Codec!DecodeGripperFeedback
<1>7. m \in Readings
  BY <1>1 DEF Readings
<1>8. QED
  BY <1>5, <1>6, <1>7

LEMMA CodecInit == EEInit => CodecInv
<1> SUFFICES ASSUME EEInit PROVE CodecInv
  OBVIOUS
<1>1. 0 \in Codec!Int32 /\ 0 \in Codec!Int16 /\ 0 \in Codec!Byte
  <2>1. Codec!Word2 >= 2 /\ Codec!Word4 >= 2 /\ Codec!Word2 \in Nat /\ Codec!Word4 \in Nat
    <3>1. Base \in Nat /\ Base >= 2
      BY CodecAssumption
    <3>2. Base * Base >= 2 * 2 /\ Base * Base \in Nat
      BY <3>1
    <3>3. (Base * Base) * (Base * Base) >= 4 * 4 /\ (Base * Base) * (Base * Base) \in Nat
      BY <3>2
    <3>4. QED
      BY <3>2, <3>3 DEF Codec!Word2, Codec!Word4
  <2>2. QED
    BY <2>1, CodecAssumption DEF Codec!Int32, Codec!Int16, Codec!Byte
<1>2. Codec!Zero \in Readings
  BY <1>1 DEF Codec!Zero, Readings
<1>3. QED
  BY <1>2 DEF EEInit, Codec!Init, CodecInv

LEMMA CodecStep == CodecInv /\ [EENext]_EEVars => CodecInv'
<1> SUFFICES ASSUME CodecInv, [EENext]_EEVars PROVE CodecInv'
  OBVIOUS
<1>1. CASE Codec!GripperCtrl
  <2>1. /\ frame = <<>> /\ meant' \in Codec!Commands /\ UNCHANGED <<feedback, sent>>
        /\ frame' = [id |-> CtrlId, dlc |-> 8, data |-> Codec!EncodeGripperCtrl(meant')]
    BY <1>1 DEF Codec!GripperCtrl
  <2>2. frame' # <<>>
    BY <2>1
  <2>3. QED
    BY <2>1, <2>2 DEF CodecInv
<1>2. CASE Codec!Arrive
  <2>1. PICK id \in {FeedbackId, OtherId}, dlc \in {6, 8} :
           /\ frame' = [Codec!FeedbackOf(meant') EXCEPT !.id = id, !.dlc = dlc]
           /\ sent' = IF id = FeedbackId /\ dlc = 8 THEN meant' ELSE sent
    BY <1>2 DEF Codec!Arrive
  <2>2. frame = <<>> /\ meant' \in Codec!Measurements /\ feedback' = feedback
    BY <1>2 DEF Codec!Arrive
  <2>3. frame' = [id |-> id, dlc |-> dlc, data |-> Codec!FeedbackOf(meant').data]
    BY <2>1 DEF Codec!FeedbackOf
  <2>4. frame' # <<>>
    BY <2>3
  <2>5. meant' \in Readings
    BY <2>2, CodecAssumption DEF Codec!Measurements, Readings
  <2>6. sent' \in Readings /\ feedback' \in Readings
    BY <2>1, <2>2, <2>5 DEF CodecInv
  <2>7. IF id = FeedbackId /\ dlc = 8 THEN sent' = meant' ELSE feedback' = sent'
    BY <2>1, <2>2 DEF CodecInv
  <2>8. QED
    BY <2>2, <2>3, <2>4, <2>6, <2>7 DEF CodecInv
<1>3. CASE Codec!Receive
  <2>1. /\ frame # <<>> /\ frame' = <<>> /\ UNCHANGED <<meant, sent>>
        /\ feedback' = IF frame.id # CtrlId /\ Codec!IsFeedback(frame)
                       THEN Codec!DecodeGripperFeedback(frame) ELSE feedback
    BY <1>3 DEF Codec!Receive
  <2>2. feedback' = sent
    <3>1. CASE feedback = sent /\ frame.id = CtrlId
      BY <2>1, <3>1
    <3>2. CASE /\ meant \in Codec!Measurements
               /\ \E id \in {FeedbackId, OtherId}, dlc \in {6, 8} :
                     /\ frame = [id |-> id, dlc |-> dlc, data |-> Codec!FeedbackOf(meant).data]
                     /\ IF id = FeedbackId /\ dlc = 8 THEN sent = meant ELSE feedback = sent
      <4>1. PICK id \in {FeedbackId, OtherId}, dlc \in {6, 8} :
               /\ frame = [id |-> id, dlc |-> dlc, data |-> Codec!FeedbackOf(meant).data]
               /\ IF id = FeedbackId /\ dlc = 8 THEN sent = meant ELSE feedback = sent
        BY <3>2
      <4>2. /\ frame.id = id /\ frame.dlc = dlc
            /\ frame.data = Codec!FeedbackOf(meant).data
        BY <4>1
      <4>3. CASE id = FeedbackId /\ dlc = 8
        <5>1. Codec!DecodeGripperFeedback(frame) = meant
          BY <3>2, <4>2, DecodedExactly
        <5>2. QED
          BY <2>1, <4>1, <4>2, <4>3, <5>1, CodecAssumption DEF Codec!IsFeedback
      <4>4. CASE ~(id = FeedbackId /\ dlc = 8)
        <5>1. ~Codec!IsFeedback(frame)
          BY <4>2, <4>4 DEF Codec!IsFeedback
        <5>2. QED
          BY <2>1, <4>1, <4>4, <5>1
      <4>5. QED
        BY <4>3, <4>4
    <3>3. QED
      BY <2>1, <3>1, <3>2 DEF CodecInv
  <2>3. QED
    BY <2>1, <2>2 DEF CodecInv
<1>4. CASE UNCHANGED codecVars
  BY <1>4 DEF CodecInv, codecVars
<1>5. QED
  BY <1>1, <1>2, <1>3, <1>4 DEF EENext, EEVars, Codec!Next

\* The invariant says what is checked.
LEMMA CodecExact ==
    CodecInv => Codec!TypeOK /\ Codec!EncodeIsExact /\ Codec!DecodeIsExact
<1> SUFFICES ASSUME CodecInv PROVE Codec!TypeOK /\ Codec!EncodeIsExact /\ Codec!DecodeIsExact
  OBVIOUS
<1>1. feedback \in [angle: Codec!Int32, effort: Codec!Int16, status: Codec!Byte]
  BY DEF CodecInv, Readings
<1>2. Codec!DecodeIsExact
  BY DEF CodecInv, Codec!DecodeIsExact
<1>3. CASE frame = <<>>
  BY <1>1, <1>2, <1>3 DEF Codec!TypeOK, Codec!EncodeIsExact
<1>4. CASE /\ meant \in Codec!Commands /\ feedback = sent
           /\ frame = [id |-> CtrlId, dlc |-> 8, data |-> Codec!EncodeGripperCtrl(meant)]
  <2>1. frame.data = Codec!EncodeGripperCtrl(meant) /\ frame.dlc = 8
    BY <1>4
  <2>2. frame.data \in [1..8 -> Codec!Byte] /\ Codec!EncodeIsExact
    BY <1>4, <2>1, EncodedExactly DEF Codec!EncodeIsExact
  <2>3. QED
    BY <1>1, <1>2, <2>1, <2>2 DEF Codec!TypeOK
<1>5. CASE /\ meant \in Codec!Measurements
           /\ \E id \in {FeedbackId, OtherId}, dlc \in {6, 8} :
                 frame = [id |-> id, dlc |-> dlc, data |-> Codec!FeedbackOf(meant).data]
  <2>1. frame.id # CtrlId /\ frame.dlc \in {6, 8}
    BY <1>5, CodecAssumption
  <2>2. frame.data = Codec!FeedbackOf(meant).data
    BY <1>5
  <2>3. frame.data \in [1..8 -> Codec!Byte]
    BY <1>5, <2>2, DecodedExactly
  <2>4. QED
    BY <1>1, <1>2, <2>1, <2>3 DEF Codec!TypeOK, Codec!EncodeIsExact
<1>6. QED
  BY <1>3, <1>4, <1>5 DEF CodecInv

-----------------------------------------------------------------------------
(* The serial slot and the hand on its line. *)

\* A set of numbers with 0 and every successor has them all.
LEMMA NatSets ==
    ASSUME NEW S, 0 \in S, \A n \in Nat : n \in S => n + 1 \in S
    PROVE  Nat \subseteq S
<1>1. SUFFICES ASSUME Nat \ S # {} PROVE FALSE
  OBVIOUS
<1>2. PICK x \in Nat \ S : \A y \in Nat \ S : ~(<<y, x>> \in OpToRel(<, Nat))
  BY <1>1, NatLessThanWellFounded, WFMin
<1>3. \A y \in Nat \ S : ~(y < x)
  BY <1>2 DEF OpToRel
<1>4. x # 0 /\ x - 1 \in Nat
  OBVIOUS
<1>5. x - 1 \in S
  BY <1>3, <1>4
<1>6. QED
  BY <1>4, <1>5

\* The largest of some numbers
LEMMA MaxIs ==
    ASSUME NEW S, NEW n \in S, S \subseteq Nat, \A m \in S : m <= n
    PROVE  Serial!Max(S) = n
<1>1. \A x \in S : (\A m \in S : m <= x) => x = n
  OBVIOUS
<1>2. QED
  BY <1>1 DEF Serial!Max

\* The recursive function behind FoldLeft, on the first n bytes
FoldedBy(p, n, f) ==
    f = [s \in SUBSET (1..n) |-> IF s = {} THEN 0 ELSE f[s \ {Serial!Max(s)}] + p[Serial!Max(s)]]

\* The largest position of some bytes, the last among them
LEMMA MaxOfSome ==
    ASSUME NEW n \in Nat, NEW s \in SUBSET (1..(n + 1)), n + 1 \in s
    PROVE  Serial!Max(s) = n + 1
<1>1. s \subseteq Nat /\ \A m \in s : m <= n + 1
  OBVIOUS
<1>2. QED
  BY <1>1, MaxIs

\* There is such a function, however many bytes there are.
LEMMA FoldExists ==
    ASSUME NEW p \in Seq(Int)
    PROVE  \E f : FoldedBy(p, Len(p), f)
<1> DEFINE S == {n \in Nat : \E f : FoldedBy(p, n, f)}
<1>1. 0 \in S
  <2> DEFINE f == [s \in SUBSET (1..0) |-> 0]
  <2>1. \A s \in SUBSET (1..0) : s = {}
    OBVIOUS
  <2>2. FoldedBy(p, 0, f)
    BY <2>1 DEF FoldedBy
  <2>3. QED
    BY <2>2
<1>2. ASSUME NEW n \in Nat, n \in S PROVE n + 1 \in S
  <2>1. PICK f : FoldedBy(p, n, f)
    BY <1>2
  <2> DEFINE g == [s \in SUBSET (1..(n + 1)) |->
                     IF n + 1 \in s THEN f[s \ {n + 1}] + p[n + 1] ELSE f[s]]
  <2>2. ASSUME NEW s \in SUBSET (1..(n + 1))
        PROVE  g[s] = IF s = {} THEN 0 ELSE g[s \ {Serial!Max(s)}] + p[Serial!Max(s)]
    <3>1. CASE n + 1 \in s
      <4>1. Serial!Max(s) = n + 1 /\ s # {} /\ s \ {n + 1} \in SUBSET (1..(n + 1))
        BY <3>1, MaxOfSome
      <4>2. g[s] = f[s \ {n + 1}] + p[n + 1] /\ g[s \ {n + 1}] = f[s \ {n + 1}]
        BY <3>1, <4>1
      <4> HIDE DEF g
      <4>3. QED
        BY <4>1, <4>2
    <3>2. CASE n + 1 \notin s
      <4>1. s \in SUBSET (1..n)
        BY <3>2
      <4>2. f[s] = IF s = {} THEN 0 ELSE f[s \ {Serial!Max(s)}] + p[Serial!Max(s)]
        BY <2>1, <4>1 DEF FoldedBy
      <4>3. g[s] = f[s]
        BY <3>2
      <4>4. CASE s # {}
        <5>1. s \ {Serial!Max(s)} \in SUBSET (1..(n + 1)) /\ n + 1 \notin s \ {Serial!Max(s)}
          BY <3>2
        <5>2. g[s \ {Serial!Max(s)}] = f[s \ {Serial!Max(s)}]
          BY <5>1
        <5> HIDE DEF g
        <5>3. QED
          BY <4>2, <4>3, <4>4, <5>2
      <4>5. QED
        BY <4>2, <4>3, <4>4
    <3>3. QED
      BY <3>1, <3>2
  <2>3. FoldedBy(p, n + 1, g)
    <3>1. g = [s \in SUBSET (1..(n + 1)) |-> g[s]]
      OBVIOUS
    <3> HIDE DEF g
    <3>2. QED
      BY <2>2, <3>1 DEF FoldedBy
  <2> HIDE DEF g
  <2>4. QED
    BY <2>3
<1> HIDE DEF S
<1>3. Len(p) \in S
  BY <1>1, <1>2, NatSets, LenProperties
<1>4. QED
  BY <1>3 DEF S

\* The checksum adds the bytes up, one after another.
LEMMA ChecksumAddsUp ==
    ASSUME NEW p \in Seq(Int)
    PROVE  \E total \in [0..Len(p) -> Int] :
              /\ total[0] = 0
              /\ \A k \in 1..Len(p) : total[k] = total[k - 1] + p[k]
              /\ Serial!ChecksumSum(p) = total[Len(p)] % 256
<1> DEFINE f == CHOOSE f : FoldedBy(p, Len(p), f)
           t == [k \in 0..Len(p) |-> f[1..k]]
<1>1. Len(p) \in Nat /\ DOMAIN p = 1..Len(p) /\ \A k \in 1..Len(p) : p[k] \in Int
  BY LenProperties
<1>2. FoldedBy(p, Len(p), f)
  BY FoldExists
<1>3. Serial!ChecksumSum(p) = f[1..Len(p)] % 256
  BY <1>1 DEF FoldedBy, Serial!ChecksumSum, Serial!FoldLeft, Serial!MapThenFoldSet
<1> HIDE DEF f
<1>4. t[0] = 0
  <2>1. 1..0 = {} /\ {} \in SUBSET (1..Len(p)) /\ 0 \in 0..Len(p)
    BY <1>1
  <2>2. f[{}] = 0
    BY <1>2, <2>1 DEF FoldedBy
  <2>3. QED
    BY <2>1, <2>2
<1>5. ASSUME NEW k \in 1..Len(p) PROVE t[k] = t[k - 1] + p[k]
  <2>0. k \in Nat /\ k >= 1 /\ k <= Len(p) /\ k \in 0..Len(p) /\ k - 1 \in 0..Len(p)
    BY <1>1
  <2>1. 1..k \in SUBSET (1..Len(p)) /\ k \in 1..k /\ (1..k) \ {k} = 1..(k - 1)
    BY <1>1, <2>0
  <2>2. Serial!Max(1..k) = k
    <3>1. 1..k \subseteq Nat /\ \A m \in 1..k : m <= k
      BY <2>0
    <3>2. QED
      BY <2>1, <3>1, MaxIs
  <2>3. f[1..k] = f[1..(k - 1)] + p[k]
    BY <1>2, <2>1, <2>2 DEF FoldedBy
  <2>4. QED
    BY <2>0, <2>3
<1> DEFINE S == {n \in Nat : n <= Len(p) => t[n] \in Int}
<1> HIDE DEF t
<1>6. 0 \in S
  BY <1>4
<1>7. ASSUME NEW n \in Nat, n \in S PROVE n + 1 \in S
  <2>1. CASE n + 1 <= Len(p)
    <3>1. n + 1 \in 1..Len(p) /\ t[n] \in Int /\ (n + 1) - 1 = n
      BY <1>1, <1>7, <2>1
    <3>2. t[n + 1] = t[n] + p[n + 1]
      BY <1>5, <3>1
    <3>3. QED
      BY <1>1, <3>1, <3>2
  <2>2. QED
    BY <2>1
<1> HIDE DEF S
<1>8. Nat \subseteq S
  BY <1>6, <1>7, NatSets
<1>9. t \in [0..Len(p) -> Int]
  <2>1. \A k \in 0..Len(p) : t[k] \in Int
    BY <1>1, <1>8 DEF S
  <2>2. QED
    BY <2>1 DEF t
<1>10. Serial!ChecksumSum(p) = t[Len(p)] % 256
  BY <1>1, <1>3 DEF t
<1>11. QED
  BY <1>4, <1>5, <1>9, <1>10

\* Its last byte is what goes out.
LEMMA ChecksumIsByte ==
    ASSUME NEW p \in Seq(Serial!Byte)
    PROVE  Serial!ChecksumSum(p) \in Serial!Byte
<1>1. p \in Seq(Int)
  <2>0. \A i \in 1..Len(p) : p[i] \in Serial!Byte
    BY ElementOfSeq
  <2>1. \A i \in 1..Len(p) : p[i] \in Int
    <3>1. Serial!Byte \subseteq Int
      BY DEF Serial!Byte
    <3>2. QED
      BY <2>0, <3>1
  <2>2. p \in [1..Len(p) -> Int] /\ Len(p) \in Nat
    BY <2>1, LenProperties
  <2>3. QED
    BY <2>2, Tuple
<1>2. PICK total \in [0..Len(p) -> Int] : Serial!ChecksumSum(p) = total[Len(p)] % 256
  BY <1>1, ChecksumAddsUp
<1> DEFINE x == total[Len(p)]
<1>3. x \in Int
  BY LenProperties
<1> HIDE DEF x
<1>4. x % 256 \in 0..255
  BY <1>3
<1>5. QED
  BY <1>2, <1>4 DEF Serial!Byte, x

\* A frame has its payload in the middle and the checksum of that at its end.
LEMMA FrameParts ==
    ASSUME NEW p \in Seq(Serial!Byte)
    PROVE  LET f == Serial!Frame(p)
               n == Len(p) IN
           /\ f \in Seq(Serial!Byte) /\ Len(f) = n + 3
           /\ f[1] = 85 /\ f[2] = 170 /\ f[n + 3] = Serial!ChecksumSum(p)
           /\ \A i \in 1..n : f[2 + i] = p[i]
           /\ SubSeq(f, 3, n + 2) = p
<1> DEFINE B == Serial!Byte
           n == Len(p)
           c == Serial!ChecksumSum(p)
           h == <<85, 170>>
           z == <<c>>
           hp == h \o p
           f == Serial!Frame(p)
<1>1. c \in B
  BY ChecksumIsByte
<1>2. 85 \in B /\ 170 \in B
  BY DEF Serial!Byte
<1>3. f = hp \o z
  BY DEF Serial!Frame
<1>4. p \in Seq(B)
  OBVIOUS
<1> HIDE DEF c, f, B
<1>5. h \in Seq(B) /\ Len(h) = 2 /\ h[1] = 85 /\ h[2] = 170
  BY <1>2
<1>6. z \in Seq(B) /\ Len(z) = 1 /\ z[1] = c
  BY <1>1
<1>7. n \in Nat
  BY LenProperties
<1> HIDE DEF h, z, n
<1>8. /\ hp \in Seq(B) /\ Len(hp) = 2 + n
      /\ \A i \in 1..(2 + n) : hp[i] = IF i <= 2 THEN h[i] ELSE p[i - 2]
  <2>0. Len(p) = n
    BY DEF n
  <2>1. /\ hp \in Seq(B) /\ Len(hp) = Len(h) + Len(p)
        /\ \A i \in 1..(Len(h) + Len(p)) :
              hp[i] = IF i <= Len(h) THEN h[i] ELSE p[i - Len(h)]
    <3>1. h \in Seq(B) /\ p \in Seq(B)
      BY <1>4, <1>5
    <3>2. h \o p \in Seq(B) /\ Len(h \o p) = Len(h) + Len(p)
      BY <3>1, ConcatProperties
    <3>3. \A i \in 1..(Len(h) + Len(p)) :
              (h \o p)[i] = IF i <= Len(h) THEN h[i] ELSE p[i - Len(h)]
      BY ONLY <3>1, ConcatProperties
    <3>4. QED
      BY <3>2, <3>3
  <2> HIDE DEF hp
  <2>2. QED
    BY <1>5, <2>0, <2>1
<1> HIDE DEF hp
<1>9. /\ f \in Seq(B) /\ Len(f) = (2 + n) + 1
      /\ \A i \in 1..((2 + n) + 1) : f[i] = IF i <= 2 + n THEN hp[i] ELSE z[i - (2 + n)]
  <2>1. /\ f \in Seq(B) /\ Len(f) = Len(hp) + Len(z)
        /\ \A i \in 1..(Len(hp) + Len(z)) :
              f[i] = IF i <= Len(hp) THEN hp[i] ELSE z[i - Len(hp)]
    BY <1>3, <1>6, <1>8, ConcatProperties
  <2>2. QED
    BY <1>6, <1>8, <2>1
<1> HIDE DEF n
<1>10. f[1] = 85 /\ f[2] = 170 /\ f[n + 3] = c
  BY <1>5, <1>6, <1>7, <1>8, <1>9
<1>11. \A i \in 1..n : f[2 + i] = p[i]
  <2>1. SUFFICES ASSUME NEW i \in 1..n PROVE f[2 + i] = p[i]
    OBVIOUS
  <2>2. /\ 2 + i \in 1..(2 + n) /\ 2 + i \in 1..((2 + n) + 1) /\ 2 + i <= 2 + n
        /\ ~(2 + i <= 2) /\ (2 + i) - 2 = i
    BY <1>7
  <2>3. QED
    BY <1>8, <1>9, <2>2
<1>12. SubSeq(f, 3, n + 2) = p
  <2> DEFINE u == SubSeq(f, 3, n + 2)
  <2>1. 3 \in 1..(Len(f) + 1) /\ n + 2 \in (3 - 1)..Len(f) /\ Len(f) \in Nat
    BY <1>7, <1>9
  <2>2. /\ u \in Seq(B) /\ Len(u) = (n + 2) - 3 + 1
        /\ \A i \in 1..((n + 2) - 3 + 1) : u[i] = f[3 + i - 1]
    BY <1>9, <2>1, SubSeqProperties
  <2> HIDE DEF u
  <2>3. Len(u) = n
    BY <1>7, <2>2
  <2>4. \A i \in 1..n : u[i] = p[i]
    <3>1. SUFFICES ASSUME NEW i \in 1..n PROVE u[i] = p[i]
      OBVIOUS
    <3>2. i \in 1..((n + 2) - 3 + 1) /\ 3 + i - 1 = 2 + i
      BY <1>7
    <3>3. QED
      BY <1>11, <2>2, <3>2
  <2>5. u = p
    BY <1>4, <2>2, <2>3, <2>4, SeqEqual DEF n
  <2>6. QED
    BY <2>5 DEF u
<1>13. Len(f) = n + 3
  BY <1>7, <1>9
<1>14. QED
  BY <1>9, <1>10, <1>11, <1>12, <1>13 DEF c, f, B, n

\* The payloads of a stop of all motors and of six setpoints
StopPayload == <<5, 6, 1, 2, 3, 4, 5, 6>>
PositionsPayload(hi, lo) == <<3, 6, 1, 2, 3, 4, 5, 6, 0, 0, 0, 0, 0, hi, lo>>

\* What two sequences make when they are put together
LEMMA Joins ==
    ASSUME NEW S, NEW s \in Seq(S), NEW t \in Seq(S), NEW u \in Seq(S), Len(u) = Len(s) + Len(t),
           \A i \in 1..Len(s) : u[i] = s[i], \A i \in 1..Len(t) : u[Len(s) + i] = t[i]
    PROVE  s \o t = u
<1> DEFINE v == s \o t
<1>1. Len(s) \in Nat /\ Len(t) \in Nat
  BY LenProperties
<1>2. v \in Seq(S) /\ Len(v) = Len(s) + Len(t)
  BY ConcatProperties
<1>3. \A i \in 1..(Len(s) + Len(t)) : v[i] = IF i <= Len(s) THEN s[i] ELSE t[i - Len(s)]
  BY ONLY s \in Seq(S), t \in Seq(S), ConcatProperties
<1> HIDE DEF v
<1>4. ASSUME NEW i \in 1..Len(u) PROVE v[i] = u[i]
  <2>1. CASE i <= Len(s)
    <3>1. i \in 1..Len(s) /\ i \in 1..(Len(s) + Len(t))
      BY <1>1, <2>1
    <3>2. QED
      BY <1>3, <2>1, <3>1
  <2>2. CASE i > Len(s)
    <3>1. /\ i - Len(s) \in 1..Len(t) /\ Len(s) + (i - Len(s)) = i /\ ~(i <= Len(s))
          /\ i \in 1..(Len(s) + Len(t))
      BY <1>1, <2>2
    <3>2. QED
      BY <1>3, <3>1
  <2>3. QED
    BY <1>1, <2>1, <2>2
<1>5. v = u
  BY <1>2, <1>4, SeqEqual
<1>6. QED
  BY <1>5 DEF v

\* They are what the code puts together.
LEMMA Payloads ==
    ASSUME NEW hi \in Serial!Byte, NEW lo \in Serial!Byte
    PROVE  /\ <<5, 6>> \o Serial!MotorIds = StopPayload
           /\ <<3, 6>> \o Serial!MotorIds \o <<0, 0, 0, 0, 0, hi, lo>> = PositionsPayload(hi, lo)
<1> DEFINE ids == <<1, 2, 3, 4, 5, 6>>
           s5 == <<5, 6>>
           s3 == <<3, 6>>
           w == <<3, 6, 1, 2, 3, 4, 5, 6>>
           v == <<0, 0, 0, 0, 0, hi, lo>>
           x == StopPayload
           y == PositionsPayload(hi, lo)
<1>1. hi \in Int /\ lo \in Int
  BY DEF Serial!Byte
<1>2. ids \in Seq(Int) /\ s5 \in Seq(Int) /\ s3 \in Seq(Int) /\ w \in Seq(Int)
  OBVIOUS
<1>3. x \in Seq(Int) /\ Len(x) = 8 /\ Len(ids) = 6 /\ Len(s5) = 2 /\ Len(s3) = 2 /\ Len(w) = 8
  BY DEF StopPayload
<1>4. v \in Seq(Int) /\ y \in Seq(Int) /\ Len(v) = 7 /\ Len(y) = 15
  BY <1>1 DEF PositionsPayload
<1>5. (\A i \in 1..2 : x[i] = s5[i]) /\ (\A i \in 1..6 : x[2 + i] = ids[i])
  BY DEF StopPayload
<1>6. (\A i \in 1..2 : w[i] = s3[i]) /\ (\A i \in 1..6 : w[2 + i] = ids[i])
  OBVIOUS
<1>7. (\A i \in 1..8 : y[i] = w[i]) /\ (\A i \in 1..7 : y[8 + i] = v[i])
  BY DEF PositionsPayload
<1> HIDE DEF ids, s5, s3, w, v, x, y
<1>8. s5 \o ids = x
  <2>1. Len(x) = Len(s5) + Len(ids)
    BY <1>3, <1>4
  <2>2. (\A i \in 1..Len(s5) : x[i] = s5[i]) /\ (\A i \in 1..Len(ids) : x[Len(s5) + i] = ids[i])
    BY <1>3, <1>4, <1>5
  <2>3. s5 \in Seq(Int) /\ ids \in Seq(Int) /\ x \in Seq(Int)
    BY <1>2, <1>3, <1>4
  <2>4. QED
    BY ONLY <2>1, <2>2, <2>3, Joins
<1>9. s3 \o ids = w
  <2>1. Len(w) = Len(s3) + Len(ids)
    BY <1>3, <1>4
  <2>2. (\A i \in 1..Len(s3) : w[i] = s3[i]) /\ (\A i \in 1..Len(ids) : w[Len(s3) + i] = ids[i])
    BY <1>3, <1>4, <1>6
  <2>3. s3 \in Seq(Int) /\ ids \in Seq(Int) /\ w \in Seq(Int)
    BY <1>2, <1>3, <1>4
  <2>4. QED
    BY ONLY <2>1, <2>2, <2>3, Joins
<1>10. w \o v = y
  <2>1. Len(y) = Len(w) + Len(v)
    BY <1>3, <1>4
  <2>2. (\A i \in 1..Len(w) : y[i] = w[i]) /\ (\A i \in 1..Len(v) : y[Len(w) + i] = v[i])
    BY <1>3, <1>4, <1>7
  <2>3. w \in Seq(Int) /\ v \in Seq(Int) /\ y \in Seq(Int)
    BY <1>2, <1>3, <1>4
  <2>4. QED
    BY ONLY <2>1, <2>2, <2>3, Joins
<1>11. QED
  BY <1>8, <1>9, <1>10 DEF ids, s5, s3, v, x, y, Serial!MotorIds

\* A frame the hand can read: three raw bytes, or a header, a payload as long as its first
\* bytes tell, and its checksum
Readable(b) ==
    /\ b \in Seq(Serial!Byte)
    /\ \/ b = <<2, 255, 0>>
       \/ /\ b[1] = 85 /\ b[2] = 170 /\ Len(b) >= 6
          /\ Len(b) = IF b[3] = 3 THEN 18 ELSE IF b[3] = 5 THEN 5 + b[4] ELSE 6
          /\ b[Len(b)] = Serial!ChecksumSum(SubSeq(b, 3, Len(b) - 1))

\* A frame of a payload that tells its own length is readable.
LEMMA ReadableFrame ==
    ASSUME NEW p \in Seq(Serial!Byte), Len(p) >= 3,
           Len(p) + 3 = IF p[1] = 3 THEN 18 ELSE IF p[1] = 5 THEN 5 + p[2] ELSE 6
    PROVE  /\ Readable(Serial!Frame(p)) /\ Serial!Frame(p)[1] = 85
           /\ \A i \in 1..Len(p) : Serial!Frame(p)[2 + i] = p[i]
           /\ Len(Serial!Frame(p)) = Len(p) + 3
<1> DEFINE f == Serial!Frame(p)
           n == Len(p)
<1>1. /\ f \in Seq(Serial!Byte) /\ Len(f) = n + 3
      /\ f[1] = 85 /\ f[2] = 170 /\ f[n + 3] = Serial!ChecksumSum(p)
      /\ \A i \in 1..n : f[2 + i] = p[i]
      /\ SubSeq(f, 3, n + 2) = p
  BY FrameParts
<1>2. n \in Nat
  BY LenProperties
<1> HIDE DEF f, n
<1>3. n >= 3 /\ n + 3 = IF p[1] = 3 THEN 18 ELSE IF p[1] = 5 THEN 5 + p[2] ELSE 6
  BY DEF n
<1>4. 1 \in 1..n /\ 2 \in 1..n /\ 2 + 1 = 3 /\ 2 + 2 = 4 /\ (n + 3) - 1 = n + 2
  BY <1>2, <1>3
<1>5. f[3] = p[1] /\ f[4] = p[2]
  BY <1>1, <1>4
<1>6. Len(f) >= 6 /\ Len(f) = IF f[3] = 3 THEN 18 ELSE IF f[3] = 5 THEN 5 + f[4] ELSE 6
  BY <1>1, <1>2, <1>3, <1>5
<1>7. f[Len(f)] = Serial!ChecksumSum(SubSeq(f, 3, Len(f) - 1))
  BY <1>1, <1>4
<1>8. QED
  BY <1>1, <1>6, <1>7 DEF Readable, f, n

\* The positions that go out, in two bytes
LEMMA PositionBytes ==
    ASSUME NEW t \in Int
    PROVE  LET m6 == Serial!Clamp(Serial!Round(t)) IN
           /\ m6 \in 0..2000 /\ m6 \div 256 \in Serial!Byte /\ m6 % 256 \in Serial!Byte
           /\ 256 * (m6 \div 256) + (m6 % 256) = m6
           /\ \/ 10 * m6 - t \in -5..5
              \/ m6 = 0 /\ t < 0
              \/ m6 = 2000 /\ t > 20000
<1> DEFINE r == Serial!Round(t)
           m6 == Serial!Clamp(r)
<1>1. r \in Int /\ 10 * r - t \in -5..5
  <2>1. CASE t >= 0
    <3>1. r = (t + 5) \div 10
      BY <2>1 DEF Serial!Round
    <3>2. QED
      BY <3>1
  <2>2. CASE t < 0
    <3>1. r = -((5 - t) \div 10)
      BY <2>2 DEF Serial!Round
    <3>2. QED
      BY <3>1
  <2>3. QED
    BY <2>1, <2>2
<1> HIDE DEF r
<1>2. m6 = IF r < 0 THEN 0 ELSE IF r > 2000 THEN 2000 ELSE r
  BY DEF Serial!Clamp, Serial!MaxPosition
<1> HIDE DEF m6
<1>3. m6 \in 0..2000
  BY <1>1, <1>2
<1>4. m6 \div 256 \in 0..255 /\ m6 % 256 \in 0..255 /\ 256 * (m6 \div 256) + (m6 % 256) = m6
  <2> DEFINE B == 256
  <2>1. B \in Nat \ {0} /\ m6 \in Int
    BY <1>3
  <2> HIDE DEF B
  <2>2. m6 \div B \in Int /\ m6 % B \in 0..(B - 1) /\ m6 = B * (m6 \div B) + (m6 % B)
    BY <2>1, Euclid
  <2>3. QED
    BY <1>3, <2>2 DEF B
<1>5. \/ 10 * m6 - t \in -5..5
      \/ m6 = 0 /\ t < 0
      \/ m6 = 2000 /\ t > 20000
  BY <1>1, <1>2
<1>6. QED
  BY <1>3, <1>4, <1>5 DEF Serial!Byte, r, m6

\* What a position sends
LEMMA SentPosition ==
    ASSUME NEW t \in Int
    PROVE  LET b == Serial!HandlePosition(t)
               m6 == Serial!Clamp(Serial!Round(t)) IN
           /\ Readable(b) /\ b[3] = 3 /\ \A i \in 11..15 : b[i] = 0
           /\ b[16] = m6 \div 256 /\ b[17] = m6 % 256
<1> DEFINE m6 == Serial!Clamp(Serial!Round(t))
           hi == m6 \div 256
           lo == m6 % 256
           p == PositionsPayload(hi, lo)
           b == Serial!HandlePosition(t)
<1>1. hi \in Serial!Byte /\ lo \in Serial!Byte
  BY PositionBytes
<1> HIDE DEF m6
<1>2. b = Serial!SetPositions(m6)
  BY DEF Serial!HandlePosition, m6
<1>3. b = Serial!Frame(<<3, 6>> \o Serial!MotorIds \o <<0, 0, 0, 0, 0, hi, lo>>)
  BY <1>2 DEF Serial!SetPositions
<1> HIDE DEF hi, lo, b
<1>4. b = Serial!Frame(p)
  BY <1>1, <1>3, Payloads
<1>5. /\ p \in Seq(Serial!Byte) /\ Len(p) = 15 /\ p[1] = 3 /\ p[2] = 6 /\ p[14] = hi /\ p[15] = lo
      /\ p[9] = 0 /\ p[10] = 0 /\ p[11] = 0 /\ p[12] = 0 /\ p[13] = 0
  <2>1. 0 \in Serial!Byte /\ 1 \in Serial!Byte /\ 2 \in Serial!Byte /\ 3 \in Serial!Byte
        /\ 4 \in Serial!Byte /\ 5 \in Serial!Byte /\ 6 \in Serial!Byte
    BY DEF Serial!Byte
  <2>2. QED
    BY <1>1, <2>1 DEF PositionsPayload
<1> HIDE DEF p
<1>6. Readable(b) /\ \A i \in 1..15 : b[2 + i] = p[i]
  <2>1. Len(p) >= 3 /\ Len(p) + 3 = IF p[1] = 3 THEN 18 ELSE IF p[1] = 5 THEN 5 + p[2] ELSE 6
    BY <1>5
  <2>2. Readable(Serial!Frame(p)) /\ \A i \in 1..Len(p) : Serial!Frame(p)[2 + i] = p[i]
    BY <1>5, <2>1, ReadableFrame
  <2>3. QED
    BY <1>4, <1>5, <2>2
<1>7. /\ b[2 + 1] = 3 /\ b[2 + 14] = hi /\ b[2 + 15] = lo /\ b[2 + 9] = 0 /\ b[2 + 10] = 0
      /\ b[2 + 11] = 0 /\ b[2 + 12] = 0 /\ b[2 + 13] = 0
  BY <1>5, <1>6
<1>8. b[3] = 3 /\ b[16] = hi /\ b[17] = lo /\ \A i \in 11..15 : b[i] = 0
  BY <1>7
<1>9. QED
  BY <1>6, <1>8 DEF b, hi, lo, m6

\* The bytes the presets use
LEMMA SmallBytes == {0, 1, 2, 3, 4, 5, 6, 9, 10, 71, 85, 88, 170, 255} \subseteq Serial!Byte
BY DEF Serial!Byte

\* A payload of three bytes that is not a setpoint
LEMMA ShortFrame ==
    ASSUME NEW x \in Serial!Byte, NEW y \in Serial!Byte, NEW z \in Serial!Byte,
           x # 3, x = 5 => y = 1
    PROVE  LET b == Serial!Frame(<<x, y, z>>) IN
           Readable(b) /\ b[1] = 85 /\ b[3] = x /\ b[4] = y /\ b[5] = z
<1> DEFINE p == <<x, y, z>>
           b == Serial!Frame(p)
<1>1. p \in Seq(Serial!Byte) /\ Len(p) = 3 /\ p[1] = x /\ p[2] = y /\ p[3] = z
  OBVIOUS
<1> HIDE DEF p
<1>2. Len(p) >= 3 /\ Len(p) + 3 = IF p[1] = 3 THEN 18 ELSE IF p[1] = 5 THEN 5 + p[2] ELSE 6
  BY <1>1
<1>3. Readable(b) /\ b[1] = 85 /\ \A i \in 1..Len(p) : b[2 + i] = p[i]
  BY <1>1, <1>2, ReadableFrame
<1>4. b[2 + 1] = x /\ b[2 + 2] = y /\ b[2 + 3] = z
  BY <1>1, <1>3
<1>5. QED
  BY <1>3, <1>4 DEF p

\* The stop of all motors, byte by byte
LEMMA StopFrame ==
    /\ Readable(Serial!StopAll)
    /\ Serial!StopAll = <<85, 170, 5, 6, 1, 2, 3, 4, 5, 6, 32>>
<1> DEFINE p == StopPayload
           b == Serial!StopAll
           e == <<85, 170, 5, 6, 1, 2, 3, 4, 5, 6, 32>>
<1>1. b = Serial!Frame(p)
  <2>1. 0 \in Serial!Byte
    BY SmallBytes
  <2>2. QED
    BY <2>1, Payloads DEF Serial!StopAll
<1>2. p \in Seq(Serial!Byte) /\ p \in Seq(Int) /\ Len(p) = 8
  BY SmallBytes DEF StopPayload
<1>3. /\ p[1] = 5 /\ p[2] = 6 /\ p[3] = 1 /\ p[4] = 2
      /\ p[5] = 3 /\ p[6] = 4 /\ p[7] = 5 /\ p[8] = 6
  BY DEF StopPayload
<1> HIDE DEF b, p
<1>4. Readable(b) /\ b[1] = 85 /\ (\A i \in 1..Len(p) : b[2 + i] = p[i]) /\ Len(b) = 11
  <2>1. Len(p) >= 3 /\ Len(p) + 3 = IF p[1] = 3 THEN 18 ELSE IF p[1] = 5 THEN 5 + p[2] ELSE 6
    BY <1>2, <1>3
  <2>2. /\ Readable(Serial!Frame(p)) /\ Serial!Frame(p)[1] = 85
        /\ \A i \in 1..Len(p) : Serial!Frame(p)[2 + i] = p[i]
        /\ Len(Serial!Frame(p)) = Len(p) + 3
    BY <1>2, <2>1, ReadableFrame
  <2>3. QED
    BY <1>1, <1>2, <2>2
<1>5. /\ b[2 + 1] = 5 /\ b[2 + 2] = 6 /\ b[2 + 3] = 1 /\ b[2 + 4] = 2
      /\ b[2 + 5] = 3 /\ b[2 + 6] = 4 /\ b[2 + 7] = 5 /\ b[2 + 8] = 6
  BY <1>2, <1>3, <1>4
<1>6. b[2] = 170 /\ b[11] = Serial!ChecksumSum(p)
  <2>1. b[2] = 170 /\ b[Len(p) + 3] = Serial!ChecksumSum(p)
    BY <1>1, <1>2, FrameParts
  <2>2. QED
    BY <1>2, <2>1
<1>7. Serial!ChecksumSum(p) = 32
  <2>1. PICK total \in [0..Len(p) -> Int] :
           /\ total[0] = 0 /\ \A k \in 1..Len(p) : total[k] = total[k - 1] + p[k]
           /\ Serial!ChecksumSum(p) = total[Len(p)] % 256
    BY <1>2, ChecksumAddsUp
  <2>2. /\ total[1] = total[1 - 1] + p[1] /\ total[2] = total[2 - 1] + p[2]
        /\ total[3] = total[3 - 1] + p[3] /\ total[4] = total[4 - 1] + p[4]
        /\ total[5] = total[5 - 1] + p[5] /\ total[6] = total[6 - 1] + p[6]
        /\ total[7] = total[7 - 1] + p[7] /\ total[8] = total[8 - 1] + p[8]
    BY <1>2, <2>1
  <2>3. total[8] = 32
    BY <1>3, <2>1, <2>2
  <2>4. QED
    BY <1>2, <2>1, <2>3
<1>8. e \in Seq(Serial!Byte) /\ Len(e) = 11
  <2>1. 32 \in Serial!Byte
    BY DEF Serial!Byte
  <2>2. QED
    BY <2>1, SmallBytes
<1>9. \A i \in 1..11 : b[i] = e[i]
  BY <1>4, <1>5, <1>6, <1>7
<1> HIDE DEF e
<1>10. b \in Seq(Serial!Byte)
  BY <1>4 DEF Readable
<1>11. b = e
  <2> DEFINE B == Serial!Byte
  <2>1. b \in Seq(B) /\ e \in Seq(B) /\ Len(b) = Len(e)
    BY <1>4, <1>8, <1>10
  <2>2. \A i \in 1..Len(b) : b[i] = e[i]
    BY <1>4, <1>9
  <2> HIDE DEF B
  <2>3. QED
    BY ONLY <2>1, <2>2, SeqEqual
<1>12. QED
  BY <1>4, <1>11 DEF b, e

\* What each preset sends
LEMMA PresetSent ==
    ASSUME NEW p \in Serial!Known
    PROVE  LET b == Serial!HandlePreset(p) IN
           /\ Readable(b)
           /\ p = 0 => b[1] = 85 /\ b[3] = 5 /\ b[4] = 6
           /\ p \in 1..6 => b[1] = 85 /\ b[3] = 5 /\ b[4] = 1 /\ b[5] = p
           /\ p \in {10, 11} => b[1] = 85 /\ b[3] = 9 /\ b[4] = IF p = 10 THEN 0 ELSE 71
           /\ p \in {20, 21} => b[1] = 85 /\ b[3] = 10 /\ b[4] = IF p = 20 THEN 0 ELSE 88
           /\ p = 99 => b[1] = 2
<1> DEFINE b == Serial!HandlePreset(p)
<1>1. CASE p = 0
  <2>1. b = Serial!StopAll
    BY <1>1 DEF Serial!HandlePreset
  <2>2. b[1] = 85 /\ b[3] = 5 /\ b[4] = 6
    BY <2>1, StopFrame
  <2> HIDE DEF b
  <2>3. QED
    BY <1>1, <2>1, <2>2, StopFrame DEF b
<1>2. CASE p \in 1..6
  <2>1. b = Serial!Frame(<<5, 1, p>>)
    BY <1>2 DEF Serial!HandlePreset, Serial!StopMotor
  <2>2. 5 \in Serial!Byte /\ 1 \in Serial!Byte /\ p \in Serial!Byte
    BY <1>2, SmallBytes
  <2>3. Readable(b) /\ b[1] = 85 /\ b[3] = 5 /\ b[4] = 1 /\ b[5] = p
    BY <2>1, <2>2, ShortFrame
  <2> HIDE DEF b
  <2>4. QED
    BY <1>2, <2>3 DEF b
<1>3. CASE p \in {10, 11}
  <2> DEFINE pct == IF p = 10 THEN 0 ELSE 71
  <2>1. b = Serial!Frame(<<9, pct, 0>>)
    BY <1>3 DEF Serial!HandlePreset, Serial!TwoFinger
  <2>2. 9 \in Serial!Byte /\ pct \in Serial!Byte /\ 0 \in Serial!Byte
    BY <1>3, SmallBytes
  <2> HIDE DEF pct
  <2>3. Readable(b) /\ b[1] = 85 /\ b[3] = 9 /\ b[4] = pct
    BY <2>1, <2>2, ShortFrame
  <2> HIDE DEF b
  <2>4. QED
    BY <1>3, <2>3 DEF b, pct
<1>4. CASE p \in {20, 21}
  <2> DEFINE pct == IF p = 20 THEN 0 ELSE 88
  <2>1. b = Serial!Frame(<<10, pct, 0>>)
    BY <1>4 DEF Serial!HandlePreset, Serial!ThreeFinger
  <2>2. 10 \in Serial!Byte /\ pct \in Serial!Byte /\ 0 \in Serial!Byte
    BY <1>4, SmallBytes
  <2> HIDE DEF pct
  <2>3. Readable(b) /\ b[1] = 85 /\ b[3] = 10 /\ b[4] = pct
    BY <2>1, <2>2, ShortFrame
  <2> HIDE DEF b
  <2>4. QED
    BY <1>4, <2>3 DEF b, pct
<1>5. CASE p = 99
  <2>1. b = <<2, 255, 0>>
    BY <1>5 DEF Serial!HandlePreset, Serial!Reinit
  <2>2. b \in Seq(Serial!Byte) /\ b[1] = 2
    BY <2>1, SmallBytes
  <2> HIDE DEF b
  <2>3. QED
    BY <1>5, <2>1, <2>2 DEF b, Readable
<1>6. QED
  BY <1>1, <1>2, <1>3, <1>4, <1>5 DEF Serial!Known

\* Bytes on the line or read by the hand are those of the one command under way, and what
\* the hand has understood are the bytes of a command.
Sent(c) == c \in Serial!Commands /\ Serial!BytesFor(c) # <<>>
SerialInv ==
    /\ \/ done = <<>>
       \/ \E c : Sent(c) /\ done = <<Serial!BytesFor(c), c>>
    /\ \/ line = <<>> /\ orders = <<>> /\ hand = <<>>
       \/ \E c, k : /\ Sent(c) /\ orders = <<c>> /\ k \in 0..(Len(Serial!BytesFor(c)) - 1)
                    /\ hand = SubSeq(Serial!BytesFor(c), 1, k)
                    /\ line = SubSeq(Serial!BytesFor(c), k + 1, Len(Serial!BytesFor(c)))

\* Whatever the command, the bytes it sends are a readable frame.
LEMMA SentReadable == ASSUME NEW c, Sent(c) PROVE Readable(Serial!BytesFor(c))
<1> DEFINE b == Serial!BytesFor(c)
<1>1. c \in Serial!Commands /\ b # <<>>
  BY DEF Sent
<1>2. c.position \in Positions \union {Unset} /\ c.preset \in Presets \union {Unset}
  BY <1>1 DEF Serial!Commands
<1>3. CASE c.mode = 0 /\ c.position # Unset
  <2>1. b = Serial!HandlePosition(c.position)
    BY <1>3 DEF Serial!BytesFor
  <2>2. c.position \in Int
    BY <1>2, <1>3, SerialAssumption
  <2>3. QED
    BY <2>1, <2>2, SentPosition
<1>4. CASE ~(c.mode = 0 /\ c.position # Unset)
  <2>1. b = Serial!HandlePreset(c.preset) /\ c.preset \in Int
    BY <1>1, <1>2, <1>4, SerialAssumption DEF Serial!BytesFor
  <2>2. c.preset \in Serial!Known
    BY <1>1, <2>1 DEF Serial!HandlePreset, Serial!Known
  <2>3. QED
    BY <2>1, <2>2, PresetSent
<1>5. QED
  BY <1>3, <1>4

\* The invariant holds of an idle line,
LEMMA SerialInit == ASSUME Serial!Init PROVE SerialInv
BY DEF Serial!Init, SerialInv

\* The hand takes the next byte of a readable frame.
LEMMA ReadOne ==
    ASSUME NEW b, Readable(b), NEW k \in 0..(Len(b) - 1),
           hand = SubSeq(b, 1, k), line = SubSeq(b, k + 1, Len(b))
    PROVE  LET f == Append(hand, Head(line)) IN
           /\ f = SubSeq(b, 1, k + 1) /\ Tail(line) = SubSeq(b, k + 2, Len(b))
           /\ Len(f) < Serial!LengthOf(f) <=> k + 1 < Len(b)
           /\ k + 1 = Len(b) => /\ f = b /\ Tail(line) = <<>>
                                /\ \/ f = Serial!Reinit
                                   \/ Serial!Last(f) = Serial!ChecksumSum(SubSeq(f, 3, Len(f) - 1))
<1> DEFINE n == Len(b)
           f == Append(hand, Head(line))
           B == Serial!Byte
           m == k + 1
<1>1. b \in Seq(B) /\ n \in Nat /\ DOMAIN b = 1..n /\ \A i \in 1..n : b[i] \in B
  <2>1. b \in Seq(B)
    BY DEF Readable
  <2>2. QED
    BY <2>1, LenProperties, ElementOfSeq
<1> HIDE DEF B, n
<1>0. k \in 0..(n - 1) /\ line = SubSeq(b, k + 1, n)
  BY DEF n
<1>2. k \in Nat /\ m \in 1..n /\ n \in m..n /\ m \in 1..m /\ m - 1 = k /\ m + 1 = k + 2
  BY <1>0, <1>1
<1>3. Head(line) = b[m] /\ Tail(line) = SubSeq(b, m + 1, n)
  <2>1. line = SubSeq(b, m, n) /\ m \in 1..Len(b) /\ n \in m..Len(b)
    BY <1>0, <1>2 DEF n
  <2> HIDE DEF m
  <2>2. QED
    BY <1>1, <2>1, HeadTailOfSubSeq
<1>4. hand \in Seq(B) /\ Len(hand) = k /\ \A i \in 1..k : hand[i] = b[i]
  <2> DEFINE one == 1
  <2>1. one \in Int /\ k \in Int /\ \A i \in one..k : b[i] \in B
    BY <1>1, <1>2
  <2> HIDE DEF one
  <2>2. /\ SubSeq(b, one, k) \in Seq(B)
        /\ Len(SubSeq(b, one, k)) = IF one <= k THEN k - one + 1 ELSE 0
        /\ \A i \in 1..(k - one + 1) : SubSeq(b, one, k)[i] = b[one + i - 1]
    BY <2>1, SubSeqProperties
  <2>3. QED
    BY <1>2, <2>2 DEF one
<1>5. f \in Seq(B) /\ Len(f) = m /\ \A i \in 1..m : f[i] = b[i]
  <2>1. b[m] \in B
    BY <1>1, <1>2
  <2>2. f = Append(hand, b[m])
    BY <1>3
  <2>3. /\ f \in Seq(B) /\ Len(f) = Len(hand) + 1
        /\ \A i \in 1..Len(hand) : f[i] = hand[i]
        /\ f[Len(hand) + 1] = b[m]
    BY <1>4, <2>1, <2>2, AppendProperties
  <2> HIDE DEF f
  <2>4. QED
    BY <1>2, <1>4, <2>3
<1> HIDE DEF f
<1>6. f = SubSeq(b, 1, m)
  <2> DEFINE u == SubSeq(b, 1, m)
             one == 1
  <2>1. one \in Int /\ m \in Int /\ \A i \in one..m : b[i] \in B
    BY <1>1, <1>2
  <2> HIDE DEF one
  <2>2. /\ SubSeq(b, one, m) \in Seq(B)
        /\ Len(SubSeq(b, one, m)) = IF one <= m THEN m - one + 1 ELSE 0
        /\ \A i \in 1..(m - one + 1) : SubSeq(b, one, m)[i] = b[one + i - 1]
    BY <2>1, SubSeqProperties
  <2>3. u \in Seq(B) /\ Len(u) = m /\ \A i \in 1..m : u[i] = b[i]
    BY <1>2, <2>2 DEF one
  <2> HIDE DEF u
  <2>4. \A i \in 1..Len(f) : f[i] = u[i]
    BY <1>5, <2>3
  <2>5. f = u
    BY <1>5, <2>3, <2>4, SeqEqual
  <2>6. QED
    BY <2>5 DEF u
<1>7. m = n => f = b /\ Tail(line) = <<>>
  <2>1. SUFFICES ASSUME m = n PROVE f = b /\ Tail(line) = <<>>
    OBVIOUS
  <2>2. \A i \in 1..Len(f) : f[i] = b[i]
    BY <1>5
  <2>3. f = b
    BY <1>1, <1>5, <2>1, <2>2, SeqEqual DEF n
  <2>4. SubSeq(b, m + 1, n) = <<>>
    <3>1. m + 1 \in Int /\ n \in Int /\ n < m + 1
      BY <1>1, <1>2, <2>1
    <3>2. QED
      BY <3>1, SubSeqEmpty
  <2>5. QED
    BY <1>3, <2>3, <2>4
<1>8. CASE b = <<2, 255, 0>>
  <2>1. n = 3 /\ b[1] = 2
    BY <1>8 DEF n
  <2>2. f[1] = 2
    BY <1>2, <1>5, <2>1
  <2>3. Serial!LengthOf(f) = 3
    BY <2>2 DEF Serial!LengthOf
  <2>4. m = n => f = Serial!Reinit
    BY <1>7, <1>8 DEF Serial!Reinit
  <2>5. Len(f) < Serial!LengthOf(f) <=> m < n
    BY <1>2, <1>5, <2>1, <2>3
  <2>6. QED
    BY <1>2, <1>3, <1>6, <1>7, <2>4, <2>5 DEF n, f
<1>9. CASE /\ b[1] = 85 /\ b[2] = 170 /\ n >= 6
           /\ n = IF b[3] = 3 THEN 18 ELSE IF b[3] = 5 THEN 5 + b[4] ELSE 6
           /\ b[n] = Serial!ChecksumSum(SubSeq(b, 3, n - 1))
  <2>1. f[1] = 85
    BY <1>2, <1>5, <1>9
  <2>2. CASE m < 4
    <3>1. Serial!LengthOf(f) = 4
      BY <1>5, <2>1, <2>2 DEF Serial!LengthOf
    <3>2. m < n /\ m # n /\ Len(f) < 4
      BY <1>1, <1>2, <1>5, <1>9, <2>2
    <3>3. Len(f) < Serial!LengthOf(f) <=> m < n
      BY <3>1, <3>2
    <3>4. QED
      BY <1>2, <1>3, <1>6, <3>2, <3>3 DEF n, f
  <2>3. CASE m >= 4
    <3>1. 3 \in 1..m /\ 4 \in 1..m
      BY <1>2, <2>3
    <3>2. f[3] = b[3] /\ f[4] = b[4] /\ ~(Len(f) < 4)
      BY <1>2, <1>5, <2>3, <3>1
    <3>3. Serial!LengthOf(f) = n
      BY <1>9, <2>1, <3>2 DEF Serial!LengthOf
    <3>4. Len(f) < Serial!LengthOf(f) <=> m < n
      BY <1>5, <3>3
    <3>5. m = n => Serial!Last(f) = Serial!ChecksumSum(SubSeq(f, 3, Len(f) - 1))
      BY <1>5, <1>7, <1>9 DEF Serial!Last
    <3>6. QED
      BY <1>2, <1>3, <1>6, <1>7, <3>4, <3>5 DEF n, f
  <2>4. QED
    BY <1>2, <2>2, <2>3
<1>10. QED
  BY <1>8, <1>9 DEF Readable, n

\* and every command written and byte read keeps it.
LEMMA SerialStep == ASSUME SerialInv, Serial!Next \/ UNCHANGED serialVars PROVE SerialInv'
<1>1. CASE Serial!AcceptCommand
  <2>1. /\ line = <<>> /\ hand = <<>> /\ orders = <<>> /\ done' = <<>> /\ hand' = <<>>
    <3>1. line = <<>> /\ hand = <<>> /\ done' = <<>> /\ hand' = hand
      BY <1>1 DEF Serial!AcceptCommand
    <3>2. orders = <<>>
      <4>1. SUFFICES ASSUME NEW c, NEW k, Sent(c), k \in 0..(Len(Serial!BytesFor(c)) - 1),
                            line = SubSeq(Serial!BytesFor(c), k + 1, Len(Serial!BytesFor(c)))
                     PROVE  FALSE
        BY <3>1 DEF SerialInv
      <4> DEFINE b == Serial!BytesFor(c)
                 n == Len(b)
      <4>2. b \in Seq(Serial!Byte) /\ n \in Nat
        BY <4>1, SentReadable, LenProperties DEF Readable
      <4> HIDE DEF b
      <4>3. k + 1 \in 1..n /\ n \in (k + 1)..n
        BY <4>1, <4>2 DEF b
      <4>4. Len(line) = n - (k + 1) + 1
        <5>1. k + 1 \in Int /\ n \in Int /\ \A i \in (k + 1)..n : b[i] \in Serial!Byte
          BY <4>1, <4>2, <4>3, ElementOfSeq
        <5>2. Len(SubSeq(b, k + 1, n)) = IF k + 1 <= n THEN n - (k + 1) + 1 ELSE 0
          BY <5>1, SubSeqProperties
        <5>3. QED
          BY <4>1, <4>3, <5>2 DEF b
      <4>5. Len(line) = 0
        BY <3>1
      <4>6. QED
        BY <4>1, <4>2, <4>3, <4>4, <4>5
    <3>3. QED
      BY <3>1, <3>2
  <2>2. CASE UNCHANGED <<line, orders>>
    BY <2>1, <2>2 DEF SerialInv
  <2>3. ASSUME NEW c \in Serial!Commands, Serial!BytesFor(c) # <<>>,
               line' = Serial!BytesFor(c), orders' = <<c>>
        PROVE  SerialInv'
    <3> DEFINE b == Serial!BytesFor(c)
    <3>1. Sent(c)
      BY <2>3 DEF Sent
    <3>2. b \in Seq(Serial!Byte) /\ Len(b) \in Nat /\ Len(b) >= 1
      <4>1. b \in Seq(Serial!Byte)
        BY <3>1, SentReadable DEF Readable
      <4>2. QED
        BY <2>3, <4>1, EmptySeq, LenProperties
    <3>3. SubSeq(b, 1, 0) = <<>>
      BY SubSeqEmpty
    <3>4. SubSeq(b, 0 + 1, Len(b)) = b
      BY <3>2, SubSeqFull
    <3>5. 0 \in 0..(Len(b) - 1)
      BY <3>2
    <3>6. Sent(c)' /\ b' = b
      BY <3>1 DEF Sent
    <3> HIDE DEF b
    <3>7. /\ Sent(c) /\ orders' = <<c>> /\ 0 \in 0..(Len(b) - 1)
          /\ hand' = SubSeq(b, 1, 0) /\ line' = SubSeq(b, 0 + 1, Len(b))
      BY <2>1, <2>3, <3>1, <3>3, <3>4, <3>5 DEF b
    <3>8. QED
      BY <2>1, <3>7 DEF SerialInv, b, Sent
  <2>4. QED
    BY <1>1, <2>2, <2>3 DEF Serial!AcceptCommand
<1>2. CASE Serial!Read
  <2>1. PICK c, k : /\ Sent(c) /\ orders = <<c>> /\ k \in 0..(Len(Serial!BytesFor(c)) - 1)
                    /\ hand = SubSeq(Serial!BytesFor(c), 1, k)
                    /\ line = SubSeq(Serial!BytesFor(c), k + 1, Len(Serial!BytesFor(c)))
    BY <1>2 DEF SerialInv, Serial!Read
  <2> DEFINE b == Serial!BytesFor(c)
             f == Append(hand, Head(line))
  <2>2. Readable(b) /\ b \in Seq(Serial!Byte) /\ Len(b) \in Nat
    BY <2>1, SentReadable, LenProperties DEF Readable
  <2> HIDE DEF b
  <2>3. /\ f = SubSeq(b, 1, k + 1) /\ Tail(line) = SubSeq(b, k + 2, Len(b))
        /\ Len(f) < Serial!LengthOf(f) <=> k + 1 < Len(b)
        /\ k + 1 = Len(b) => /\ f = b /\ Tail(line) = <<>>
                             /\ \/ f = Serial!Reinit
                                \/ Serial!Last(f) = Serial!ChecksumSum(SubSeq(f, 3, Len(f) - 1))
    BY <2>1, <2>2, ReadOne DEF b
  <2>4. /\ line' = Tail(line)
        /\ Len(f) < Serial!LengthOf(f) => hand' = f /\ UNCHANGED <<orders, done>>
        /\ ~(Len(f) < Serial!LengthOf(f)) =>
              /\ hand' = <<>> /\ orders' = <<>>
              /\ (\/ f = Serial!Reinit
                  \/ Serial!Last(f) = Serial!ChecksumSum(SubSeq(f, 3, Len(f) - 1)))
                    => done' = <<f, orders[1]>>
    BY <1>2 DEF Serial!Read
  <2> HIDE DEF f
  <2>5. CASE k + 1 < Len(b)
    <3>1. k + 1 \in 0..(Len(b) - 1) /\ (k + 1) + 1 = k + 2
      BY <2>1, <2>2, <2>5 DEF b
    <3>2. hand' = SubSeq(b, 1, k + 1) /\ line' = SubSeq(b, (k + 1) + 1, Len(b)) /\ orders' = <<c>>
          /\ done' = done
      BY <2>1, <2>3, <2>4, <2>5, <3>1
    <3>3. \E d, j : /\ Sent(d) /\ orders' = <<d>> /\ j \in 0..(Len(Serial!BytesFor(d)) - 1)
                    /\ hand' = SubSeq(Serial!BytesFor(d), 1, j)
                    /\ line' = SubSeq(Serial!BytesFor(d), j + 1, Len(Serial!BytesFor(d)))
      BY <2>1, <3>1, <3>2 DEF b
    <3>4. done = <<>> \/ \E d : Sent(d) /\ done = <<Serial!BytesFor(d), d>>
      BY DEF SerialInv
    <3>5. QED
      BY <3>2, <3>3, <3>4 DEF SerialInv, Sent
  <2>6. CASE k + 1 = Len(b)
    <3>1. ~(k + 1 < Len(b)) /\ orders[1] = c
      BY <2>1, <2>2, <2>6
    <3>2. hand' = <<>> /\ orders' = <<>> /\ line' = <<>> /\ done' = <<b, c>>
      BY <2>3, <2>4, <2>6, <3>1
    <3>3. QED
      BY <2>1, <3>2 DEF SerialInv, b, Sent
  <2>7. QED
    BY <2>1, <2>2, <2>5, <2>6 DEF b
<1>3. CASE UNCHANGED serialVars
  BY <1>3 DEF SerialInv, serialVars
<1>4. QED
  BY <1>1, <1>2, <1>3 DEF Serial!Next

\* The bytes on the line are the rest of a frame, so there is at least one.
LEMMA UnderWay ==
    ASSUME NEW c, Sent(c), NEW k \in 0..(Len(Serial!BytesFor(c)) - 1),
           hand = SubSeq(Serial!BytesFor(c), 1, k),
           line = SubSeq(Serial!BytesFor(c), k + 1, Len(Serial!BytesFor(c)))
    PROVE  line \in Seq(Serial!Byte) /\ hand \in Seq(Serial!Byte) /\ line # <<>>
<1> DEFINE b == Serial!BytesFor(c)
           n == Len(b)
           B == Serial!Byte
<1>1. b \in Seq(B) /\ n \in Nat
  BY SentReadable, LenProperties DEF Readable
<1>2. \A i \in 1..n : b[i] \in B
  BY <1>1, ElementOfSeq
<1> HIDE DEF b, B
<1>3. k \in Nat /\ k + 1 \in Int /\ k + 1 <= n
  BY <1>1 DEF b
<1> DEFINE m == k + 1
           one == 1
<1>4. m \in Int /\ n \in Int /\ m <= n /\ \A i \in m..n : b[i] \in B
  BY <1>1, <1>2, <1>3
<1>5. one \in Int /\ k \in Int /\ \A i \in one..k : b[i] \in B
  BY <1>1, <1>2, <1>3
<1> HIDE DEF m, n, one
<1>6. SubSeq(b, m, n) \in Seq(B) /\ Len(SubSeq(b, m, n)) = n - m + 1
  BY <1>4, SubSeqProperties
<1>7. SubSeq(b, one, k) \in Seq(B)
  BY <1>5, SubSeqProperties
<1>8. SubSeq(b, m, n) # <<>>
  <2>1. n - m + 1 # 0
    BY <1>4
  <2>2. QED
    BY <1>6, <2>1, EmptySeq
<1>9. QED
  BY <1>6, <1>7, <1>8 DEF b, m, n, one, B

\* It says what is checked.
LEMMA SerialSafe ==
    ASSUME SerialInv
    PROVE  Serial!TypeOK /\ Serial!AllUnderstood /\ Serial!PositionArrives /\ Serial!PresetsDiffer
<1>1. Len(done) \in {0, 2} /\ Len(orders) <= 1
  <2>1. \A x, c : Len(<<x, c>>) = 2 /\ Len(<<c>>) = 1
    OBVIOUS
  <2>2. done = <<>> \/ \E x, c : done = <<x, c>>
    BY DEF SerialInv
  <2>3. orders = <<>> \/ \E c : orders = <<c>>
    BY DEF SerialInv
  <2>4. Len(done) \in {0, 2}
    BY <2>1, <2>2
  <2>5. Len(orders) <= 1
    <3> DEFINE l == Len(orders)
    <3>1. l \in 0..1
      BY <2>1, <2>3
    <3> HIDE DEF l
    <3>2. l <= 1
      BY <3>1
    <3>3. QED
      BY <3>2 DEF l
  <2>6. QED
    BY <2>4, <2>5
<1>2. /\ line \in Seq(Serial!Byte) /\ hand \in Seq(Serial!Byte)
      /\ line = <<>> => hand = <<>> /\ orders = <<>>
  BY UnderWay, EmptySeq DEF SerialInv
<1>3. Serial!TypeOK /\ Serial!AllUnderstood
  BY <1>1, <1>2 DEF Serial!TypeOK, Serial!AllUnderstood
<1>4. ASSUME done # <<>>, done[2].mode = 0 PROVE Serial!PositionArrives
  <2>1. PICK c : Sent(c) /\ done = <<Serial!BytesFor(c), c>>
    BY <1>4 DEF SerialInv
  <2> DEFINE t == c.position
             b == Serial!BytesFor(c)
             m6 == Serial!Clamp(Serial!Round(t))
  <2>2. c.mode = 0 /\ done[1] = b /\ done[2] = c
    BY <1>4, <2>1
  <2>3. b = Serial!HandlePosition(t) /\ t \in Int
    <3>1. b # <<>> /\ t \in Positions \union {Unset}
      BY <2>1 DEF Sent, Serial!Commands
    <3>2. t # Unset
      BY <2>2, <3>1 DEF Serial!BytesFor
    <3>3. QED
      BY <2>2, <3>1, <3>2, SerialAssumption DEF Serial!BytesFor
  <2> HIDE DEF t, b
  <2>4. b[3] = 3 /\ (\A i \in 11..15 : b[i] = 0) /\ b[16] = m6 \div 256 /\ b[17] = m6 % 256
    BY <2>3, SentPosition
  <2>5. /\ m6 \in 0..2000 /\ 256 * (m6 \div 256) + (m6 % 256) = m6
        /\ \/ 10 * m6 - t \in -5..5
           \/ m6 = 0 /\ t < 0
           \/ m6 = 2000 /\ t > 20000
    BY <2>3, PositionBytes
  <2> DEFINE got == 256 * b[16] + b[17]
  <2>6. got = m6
    BY <2>4, <2>5
  <2>7. m6 = 0 => b[16] = 0 /\ b[17] = 0
    BY <2>4
  <2> HIDE DEF m6
  <2>8. /\ got \in 0..2000
        /\ \/ 10 * got - t \in -5..5
           \/ b[16] = 0 /\ b[17] = 0 /\ 10 * got - t > 0
           \/ got = 2000 /\ 10 * got - t < 0
    <3> HIDE DEF got
    <3>1. CASE 10 * m6 - t \in -5..5
      BY <2>5, <2>6, <3>1
    <3>2. CASE m6 = 0 /\ t < 0
      BY <2>3, <2>5, <2>6, <2>7, <3>2
    <3>3. CASE m6 = 2000 /\ t > 20000
      BY <2>3, <2>5, <2>6, <3>3
    <3>4. QED
      BY <2>5, <3>1, <3>2, <3>3
  <2>9. /\ done[1][3] = 3 /\ \A i \in 11..15 : done[1][i] = 0
        /\ 256 * done[1][16] + done[1][17] = got /\ done[2].position = t
        /\ done[1][16] = b[16] /\ done[1][17] = b[17]
    BY <2>2, <2>4 DEF t
  <2> HIDE DEF got
  <2> DEFINE top == Serial!MaxPosition
             off == 10 * got - t
  <2>10. /\ got \in 0..top
         /\ \/ off \in -5..5
            \/ b[16] = 0 /\ b[17] = 0 /\ off > 0
            \/ got = top /\ off < 0
    BY <2>8 DEF Serial!MaxPosition
  <2> HIDE DEF top
  <2>11. 10 * (256 * done[1][16] + done[1][17]) - done[2].position = off
    BY <2>9
  <2> HIDE DEF off
  <2>12. QED
    BY <2>9, <2>10, <2>11 DEF Serial!PositionArrives, top
<1>5. ASSUME done # <<>>, done[2].mode = 1 PROVE Serial!PresetsDiffer
  <2>1. PICK c : Sent(c) /\ done = <<Serial!BytesFor(c), c>>
    BY <1>5 DEF SerialInv
  <2> DEFINE p == c.preset
             b == Serial!BytesFor(c)
  <2>2. c.mode = 1 /\ done[1] = b /\ done[2] = c
    BY <1>5, <2>1
  <2>3. b = Serial!HandlePreset(p) /\ p \in Int /\ b # <<>>
    <3>1. b # <<>> /\ p \in Presets \union {Unset}
      BY <2>1 DEF Sent, Serial!Commands
    <3>2. p # Unset /\ b = Serial!HandlePreset(p)
      BY <2>2, <3>1 DEF Serial!BytesFor
    <3>3. QED
      BY <3>1, <3>2, SerialAssumption
  <2> HIDE DEF p, b
  <2>4. p \in Serial!Known
    BY <2>3 DEF Serial!HandlePreset, Serial!Known
  <2>5. ASSUME NEW q \in Serial!Known, Serial!HandlePreset(q) = b PROVE q = p
    <3>1. /\ p = 0 => b[1] = 85 /\ b[3] = 5 /\ b[4] = 6
          /\ p \in 1..6 => b[1] = 85 /\ b[3] = 5 /\ b[4] = 1 /\ b[5] = p
          /\ p \in {10, 11} => b[1] = 85 /\ b[3] = 9 /\ b[4] = IF p = 10 THEN 0 ELSE 71
          /\ p \in {20, 21} => b[1] = 85 /\ b[3] = 10 /\ b[4] = IF p = 20 THEN 0 ELSE 88
          /\ p = 99 => b[1] = 2
      BY <2>3, <2>4, PresetSent
    <3>2. /\ q = 0 => b[1] = 85 /\ b[3] = 5 /\ b[4] = 6
          /\ q \in 1..6 => b[1] = 85 /\ b[3] = 5 /\ b[4] = 1 /\ b[5] = q
          /\ q \in {10, 11} => b[1] = 85 /\ b[3] = 9 /\ b[4] = IF q = 10 THEN 0 ELSE 71
          /\ q \in {20, 21} => b[1] = 85 /\ b[3] = 10 /\ b[4] = IF q = 20 THEN 0 ELSE 88
          /\ q = 99 => b[1] = 2
      BY <2>5, PresetSent
    <3>3. /\ p = 0 \/ p \in 1..6 \/ p = 10 \/ p = 11 \/ p = 20 \/ p = 21 \/ p = 99
          /\ q = 0 \/ q \in 1..6 \/ q = 10 \/ q = 11 \/ q = 20 \/ q = 21 \/ q = 99
      BY <2>4, <2>5 DEF Serial!Known
    <3>4. QED
      BY <3>1, <3>2, <3>3
  <2>6. p = 0 => b = <<85, 170, 5, 6, 1, 2, 3, 4, 5, 6, 32>>
    <3>1. p = 0 => b = Serial!StopAll
      BY <2>3 DEF Serial!HandlePreset
    <3>2. QED
      BY <3>1, StopFrame
  <2>7. QED
    BY <2>2, <2>4, <2>5, <2>6 DEF Serial!PresetsDiffer, p
<1>6. QED
  BY <1>3, <1>4, <1>5 DEF Serial!PositionArrives, Serial!PresetsDiffer

-----------------------------------------------------------------------------
(* The Inspire hands. *)

\* Six pairs, one after another
LEMMA SixPairs ==
    ASSUME NEW B, NEW ss \in [1..6 -> Seq(B)], \A k \in 1..6 : Len(ss[k]) = 2
    PROVE  LET r == Inspire!FlattenSeq(ss) IN
           /\ r \in Seq(B) /\ Len(r) = 12
           /\ \A k \in 1..6 : r[2 * k - 1] = ss[k][1] /\ r[2 * k] = ss[k][2]
<1> DEFINE F(g) == [i \in 1..6 |-> IF i = 1 THEN ss[i] ELSE g[i - 1] \o ss[i]]
           w1 == ss[1]
           w2 == w1 \o ss[2]
           w3 == w2 \o ss[3]
           w4 == w3 \o ss[4]
           w5 == w4 \o ss[5]
           w6 == w5 \o ss[6]
           w == [i \in 1..6 |-> IF i = 1 THEN w1 ELSE IF i = 2 THEN w2 ELSE IF i = 3 THEN w3
                                ELSE IF i = 4 THEN w4 ELSE IF i = 5 THEN w5 ELSE w6]
           r == CHOOSE g : g = F(g)
<1>1. Len(ss) = 6
  BY Tuple
<1>2. Inspire!FlattenSeq(ss) = r[6]
  BY <1>1 DEF Inspire!FlattenSeq
<1>3. w = F(w)
  <2>1. /\ w[1] = ss[1] /\ w[2] = w[1] \o ss[2] /\ w[3] = w[2] \o ss[3] /\ w[4] = w[3] \o ss[4]
        /\ w[5] = w[4] \o ss[5] /\ w[6] = w[5] \o ss[6]
    <3>1. w1 = ss[1] /\ w2 = w1 \o ss[2] /\ w3 = w2 \o ss[3] /\ w4 = w3 \o ss[4]
          /\ w5 = w4 \o ss[5] /\ w6 = w5 \o ss[6]
      OBVIOUS
    <3> HIDE DEF w1, w2, w3, w4, w5, w6
    <3>2. w[1] = w1 /\ w[2] = w2 /\ w[3] = w3 /\ w[4] = w4 /\ w[5] = w5 /\ w[6] = w6
      OBVIOUS
    <3> HIDE DEF w
    <3>3. QED
      BY <3>1, <3>2
  <2>2. DOMAIN w = 1..6 /\ w = [i \in 1..6 |-> w[i]]
    OBVIOUS
  <2> HIDE DEF w
  <2>3. \A i \in 1..6 : w[i] = IF i = 1 THEN ss[i] ELSE w[i - 1] \o ss[i]
    <3>1. \A i \in 1..6 : i = 1 \/ i = 2 \/ i = 3 \/ i = 4 \/ i = 5 \/ i = 6
      OBVIOUS
    <3>2. 2 - 1 = 1 /\ 3 - 1 = 2 /\ 4 - 1 = 3 /\ 5 - 1 = 4 /\ 6 - 1 = 5
      OBVIOUS
    <3>3. QED
      BY <2>1, <3>1, <3>2
  <2>4. QED
    BY <2>2, <2>3
<1>4. r = F(r)
  <2> HIDE DEF w, F
  <2>1. QED
    BY <1>3
<1> HIDE DEF r, w, w1, w2, w3, w4, w5, w6
<1>5. r[1] = ss[1] /\ \A i \in 2..6 : r[i] = r[i - 1] \o ss[i]
  <2>1. r = [i \in 1..6 |-> IF i = 1 THEN ss[i] ELSE r[i - 1] \o ss[i]]
    BY <1>4
  <2> HIDE DEF F
  <2>2. \A i \in 1..6 : r[i] = IF i = 1 THEN ss[i] ELSE r[i - 1] \o ss[i]
    BY <2>1
  <2>3. r[1] = ss[1]
    <3>1. 1 \in 1..6
      OBVIOUS
    <3>2. QED
      BY <2>2, <3>1
  <2>4. \A i \in 2..6 : i \in 1..6 /\ i # 1
    OBVIOUS
  <2>5. \A i \in 2..6 : r[i] = r[i - 1] \o ss[i]
    BY <2>2, <2>4
  <2>6. QED
    BY <2>3, <2>5
<1> HIDE DEF F
<1> DEFINE G(n) == /\ r[n] \in Seq(B) /\ Len(r[n]) = 2 * n
                   /\ \A k \in 1..n : r[n][2 * k - 1] = ss[k][1] /\ r[n][2 * k] = ss[k][2]
           S == {n \in Nat : n \in 1..6 => G(n)}
<1>6. 0 \in S
  OBVIOUS
<1>7. ASSUME NEW n \in Nat, n \in S PROVE n + 1 \in S
  <2>1. SUFFICES ASSUME n + 1 \in 1..6 PROVE G(n + 1)
    OBVIOUS
  <2>2. CASE n = 0
    <3>1. ss[1] \in Seq(B) /\ Len(ss[1]) = 2 /\ r[1] = ss[1]
      BY <1>5
    <3>2. \A k \in 1..1 : k = 1 /\ 2 * k - 1 = 1 /\ 2 * k = 2
      OBVIOUS
    <3>3. G(1)
      BY <3>1, <3>2
    <3> HIDE DEF G
    <3>4. QED
      BY <2>2, <3>3
  <2>3. CASE n # 0
    <3> DEFINE s == r[n]
               t == ss[n + 1]
               u == r[n + 1]
    <3>1. n \in 1..6 /\ n + 1 \in 2..6 /\ (n + 1) - 1 = n
      BY <2>1, <2>3
    <3>2. /\ s \in Seq(B) /\ Len(s) = 2 * n
          /\ \A k \in 1..n : s[2 * k - 1] = ss[k][1] /\ s[2 * k] = ss[k][2]
      BY <1>7, <3>1
    <3>3. t \in Seq(B) /\ Len(t) = 2
      BY <3>1
    <3>4. u = s \o t
      BY <1>5, <3>1
    <3> HIDE DEF s, t, u
    <3>5. /\ s \o t \in Seq(B) /\ Len(s \o t) = Len(s) + Len(t)
      BY <3>2, <3>3, ConcatProperties
    <3>6. \A i \in 1..(Len(s) + Len(t)) : (s \o t)[i] = IF i <= Len(s) THEN s[i] ELSE t[i - Len(s)]
      BY ONLY <3>2, <3>3, ConcatProperties
    <3>7. \A i \in 1..(2 * n + 2) : u[i] = IF i <= 2 * n THEN s[i] ELSE t[i - 2 * n]
      BY <3>2, <3>3, <3>4, <3>6
    <3>8. ASSUME NEW k \in 1..(n + 1) PROVE u[2 * k - 1] = ss[k][1] /\ u[2 * k] = ss[k][2]
      <4>1. 2 * k - 1 \in 1..(2 * n + 2) /\ 2 * k \in 1..(2 * n + 2)
        OBVIOUS
      <4>2. CASE k <= n
        <5>1. 2 * k - 1 <= 2 * n /\ 2 * k <= 2 * n /\ k \in 1..n
          BY <4>2
        <5>2. QED
          BY <3>2, <3>7, <4>1, <5>1
      <4>3. CASE k = n + 1
        <5>1. /\ ~(2 * k - 1 <= 2 * n) /\ ~(2 * k <= 2 * n)
              /\ (2 * k - 1) - 2 * n = 1 /\ 2 * k - 2 * n = 2
          BY <4>3
        <5>2. u[2 * k - 1] = t[1] /\ u[2 * k] = t[2]
          BY <3>7, <4>1, <5>1
        <5>3. QED
          BY <4>3, <5>2 DEF t
      <4>4. QED
        BY <4>2, <4>3
    <3>9. u \in Seq(B) /\ Len(u) = 2 * (n + 1)
      BY <3>2, <3>3, <3>4, <3>5
    <3>10. QED
      BY <3>8, <3>9 DEF u
  <2>4. QED
    BY <2>2, <2>3
<1> HIDE DEF S
<1>8. 6 \in S
  BY <1>6, <1>7, NatSets
<1>9. G(6)
  BY <1>8 DEF S
<1>10. QED
  BY <1>2, <1>9

\* The powers that occur
LEMMA Powers ==
    /\ 2^0 = 1 /\ 2^1 = 2 /\ 2^2 = 4 /\ 2^3 = 8 /\ 2^4 = 16 /\ 2^5 = 32 /\ 2^6 = 64 /\ 2^7 = 128
    /\ 2^8 = 256 /\ 2^9 = 512 /\ 2^10 = 1024 /\ 2^11 = 2048 /\ 2^12 = 4096 /\ 2^13 = 8192
    /\ 2^14 = 16384 /\ 2^15 = 32768 /\ 2^16 = 65536 /\ 2^25 = 33554432 /\ 2^26 = 67108864
    /\ 256^0 = 1 /\ 256^1 = 256 /\ 256^2 = 65536 /\ 256^3 = 16777216 /\ 256^4 = 4294967296
BY SMT

\* The addresses of the finger registers have eleven bits
LEMMA ElevenBits == ASSUME NEW n \in Nat, 2^10 <= n, n < 2^11 PROVE Inspire!BitLength(n) = 11
<1> DEFINE P(l) == 2^(l - 1) <= n /\ n < 2^l
<1>1. P(11)
  <2>1. 11 - 1 = 10
    OBVIOUS
  <2>2. QED
    BY <2>1, Powers
<1>2. /\ ~P(1) /\ ~P(2) /\ ~P(3) /\ ~P(4) /\ ~P(5) /\ ~P(6) /\ ~P(7) /\ ~P(8) /\ ~P(9) /\ ~P(10)
      /\ ~P(12) /\ ~P(13) /\ ~P(14) /\ ~P(15) /\ ~P(16)
  BY SMT
<1> HIDE DEF P
<1>3. \A l \in 1..16 : P(l) => l = 11
  <2>1. \A l \in 1..16 : \/ l = 1 \/ l = 2 \/ l = 3 \/ l = 4 \/ l = 5 \/ l = 6 \/ l = 7 \/ l = 8
                         \/ l = 9 \/ l = 10 \/ l = 11 \/ l = 12 \/ l = 13 \/ l = 14 \/ l = 15
                         \/ l = 16
    OBVIOUS
  <2>2. QED
    BY <1>2, <2>1
<1>4. 11 \in 1..16
  OBVIOUS
<1>5. (CHOOSE l \in 1..16 : P(l)) = 11
  BY <1>1, <1>3, <1>4
<1>6. QED
  BY <1>5 DEF P, Inspire!BitLength

\* A number between 2^24 and 2^32 takes four bytes, and they are its digits
LEMMA FourBytes ==
    ASSUME NEW n \in Nat, 256^3 <= n, n < 256^4
    PROVE  LET b == Inspire!NumberToBytes(n) IN
           b \in [1..4 -> Inspire!Byte] /\ Inspire!Word(b) = n
<1> DEFINE P(c) == (c = 4 \/ n < 256^c) /\ (c = 1 \/ n >= 256^(c - 1))
           b == Inspire!NumberToBytes(n)
<1>1. P(4)
  <2>1. 4 - 1 = 3
    BY SMT
  <2>2. QED
    BY <2>1, Powers, SMT
<1>2. ~P(1) /\ ~P(2) /\ ~P(3)
  BY SMT
<1> HIDE DEF P
<1>3. 4 \in 1..4
  OBVIOUS
<1>4. (CHOOSE c \in 1..4 : P(c)) = 4
  <2>1. \A c \in 1..4 : c = 1 \/ c = 2 \/ c = 3 \/ c = 4
    BY SMT
  <2>2. \A c \in 1..4 : P(c) => c = 4
    BY <1>2, <2>1
  <2>3. QED
    BY <1>1, <1>3, <2>2
<1>5. b = [k \in 1..4 |-> (n \div 256^(4 - k)) % 256]
  <2> DEFINE D(count) == [k \in 1..count |-> (n \div 256^(count - k)) % 256]
  <2>1. b = D(CHOOSE c \in 1..4 : P(c))
    BY Zenon DEF P, Inspire!NumberToBytes
  <2> HIDE DEF b, D
  <2>2. b = D(4)
    BY <1>4, <2>1, Zenon
  <2>3. QED
    BY <2>2, Zenon DEF D
<1> HIDE DEF b
<1>6. /\ b[1] = (n \div 16777216) % 256 /\ b[2] = (n \div 65536) % 256
      /\ b[3] = (n \div 256) % 256 /\ b[4] = n % 256
  <2>1. 4 - 1 = 3 /\ 4 - 2 = 2 /\ 4 - 3 = 1 /\ 4 - 4 = 0 /\ 1 \in 1..4 /\ 2 \in 1..4 /\ 3 \in 1..4
    BY SMT
  <2>2. n \div 1 = n
    BY SMT
  <2>3. QED
    BY <1>3, <1>5, <2>1, <2>2, Powers, SMT
<1>7. DOMAIN b = 1..4 /\ b = [k \in 1..4 |-> b[k]]
  BY <1>5, SMT
<1>8. b[1] \in 0..255 /\ b[2] \in 0..255 /\ b[3] \in 0..255 /\ b[4] \in 0..255
  <2>1. /\ (n \div 16777216) \in Int /\ (n \div 65536) \in Int /\ (n \div 256) \in Int
    BY SMT
  <2>2. \A i \in Int : i % 256 \in 0..255
    BY SMT
  <2>3. QED
    BY <1>6, <2>1, <2>2, SMT
<1>9. \A k \in 1..4 : b[k] \in 0..255
  <2>1. \A k \in 1..4 : k = 1 \/ k = 2 \/ k = 3 \/ k = 4
    BY SMT
  <2>2. QED
    BY <1>8, <2>1, SMT
<1>10. b \in [1..4 -> 0..255]
  BY <1>7, <1>9, SMT
<1>11. b[1] * 16777216 + b[2] * 65536 + b[3] * 256 + b[4] = n
  BY <1>6, SMT
<1>12. Inspire!Word(b) = n
  BY <1>11, Powers, SMT DEF Inspire!Word
<1>13. QED
  BY <1>10, <1>12, SMT DEF b, Inspire!Byte

\* The identifier asks for a write to the register of the hand it was made for
LEMMA Identifier ==
    ASSUME NEW a \in Nat, 2^10 <= a, a < 2^11, NEW id \in Nat, id < 2^14
    PROVE  LET e == Inspire!ExtId(a, id) IN
           /\ e \in Nat /\ 256^3 <= e /\ e < 256^4
           /\ (e \div 2^26) % 8 = 1 /\ (e \div 2^14) % 2^12 = a /\ e % 2^14 = id
<1> DEFINE e == Inspire!ExtId(a, id)
<1>1. e = 67108864 + a * 16384 + id
  <2>1. 11 + 14 = 25
    BY SMT
  <2>2. e = 2 * 2^25 + a * 2^14 + id
    <3> DEFINE l == Inspire!BitLength(a)
    <3>1. l = 11
      BY ElevenBits
    <3>2. e = 2 * 2^(l + 14) + a * 2^14 + id
      BY Zenon DEF Inspire!ExtId
    <3> HIDE DEF l, e
    <3>3. QED
      BY <2>1, <3>1, <3>2, Zenon
  <2>3. QED
    BY <2>2, Powers, SMT
<1> HIDE DEF e
<1>2. e \in Nat /\ 256^3 <= e /\ e < 256^4
  BY <1>1, SMT
<1>3. (e \div 67108864) = 1 /\ (e \div 16384) = 4096 + a /\ e % 16384 = id
  BY <1>1, SMT
<1>4. (4096 + a) % 4096 = a /\ 1 % 8 = 1
  BY SMT
<1>5. QED
  BY <1>2, <1>3, <1>4, Powers, SMT DEF e

\* Two bytes, low first
LEMMA TwoBytes ==
    ASSUME NEW v \in FingerValues
    PROVE  LET s == Inspire!ValueBytes(v) IN
           s \in Seq(Inspire!Byte) /\ Len(s) = 2 /\ s[1] + 256 * s[2] = v
<1> DEFINE s == Inspire!ValueBytes(v)
           lo == v % 256
           hi == (v \div 256) % 256
<1>1. v \in Nat /\ v < 2^16
  <2> DEFINE m == 2^16 - 1
  <2>1. v \in 0..m
    BY InspireAssumption, Zenon
  <2>2. m \in Int /\ m + 1 = 2^16
    BY Powers, SMT
  <2> HIDE DEF m
  <2>3. v \in Nat /\ v < m + 1
    BY <2>1, <2>2
  <2>4. QED
    BY <2>2, <2>3, Zenon
<1>2. lo \in 0..255 /\ hi \in 0..255 /\ lo + 256 * hi = v
  <2>1. v < 65536
    BY <1>1, Powers, SMT
  <2>2. QED
    BY <1>1, <2>1, SMT
<1>3. s = <<lo, hi>>
  BY DEF Inspire!ValueBytes
<1> HIDE DEF lo, hi, s
<1>4. lo \in Inspire!Byte /\ hi \in Inspire!Byte
  BY <1>2 DEF Inspire!Byte
<1>5. s \in Seq(Inspire!Byte) /\ Len(s) = 2 /\ s[1] = lo /\ s[2] = hi
  BY <1>3, <1>4
<1>6. s[1] + 256 * s[2] = v
  BY <1>2, <1>5
<1>7. QED
  BY <1>5, <1>6 DEF s

\* The hand takes from a frame the write it was made for
LEMMA FrameTaken ==
    ASSUME NEW q \in Inspire!Requests
    PROVE  LET f == Inspire!Frame(Inspire!Registers[q.reg], q.values, q.id) IN
           /\ f \in Seq(Inspire!Byte) /\ Len(f) = 16
           /\ Inspire!Taken(f) = [write |-> 1, reg |-> Inspire!Registers[q.reg], id |-> q.id,
                                  values |-> q.values]
<1> DEFINE a == Inspire!Registers[q.reg]
           e == Inspire!ExtId(a, q.id)
           b == Inspire!NumberToBytes(e)
           ss == [k \in 1..6 |-> Inspire!ValueBytes(q.values[k])]
           t == Inspire!FlattenSeq(ss)
           f == b \o t
           B == Inspire!Byte
<1>1. /\ q.reg \in Inspire!FingerRegisters /\ q.id \in HandIds
      /\ q.values \in [1..6 -> FingerValues]
  BY DEF Inspire!Requests, Inspire!Fingers
<1>2. a \in Nat /\ 2^10 <= a /\ a < 2^11
  <2>1. a = 1480 \/ a = 1486 \/ a = 1498
    BY <1>1, SMT DEF Inspire!FingerRegisters, Inspire!Registers
  <2> HIDE DEF a
  <2>2. QED
    BY <2>1, Powers, SMT
<1>3. q.id \in Nat /\ q.id < 2^14
  <2> DEFINE m == 2^14 - 1
  <2>1. q.id \in 0..m
    BY <1>1, InspireAssumption, Zenon
  <2>2. m \in Int /\ m + 1 = 2^14
    BY Powers, SMT
  <2> HIDE DEF m
  <2>3. q.id \in Nat /\ q.id < m + 1
    BY <2>1, <2>2
  <2>4. QED
    BY <2>2, <2>3, Zenon
<1> HIDE DEF a
<1>4. /\ e \in Nat /\ 256^3 <= e /\ e < 256^4
      /\ (e \div 2^26) % 8 = 1 /\ (e \div 2^14) % 2^12 = a /\ e % 2^14 = q.id
  BY <1>2, <1>3, Identifier
<1> HIDE DEF e
<1>5. b \in [1..4 -> B] /\ Inspire!Word(b) = e
  BY <1>4, FourBytes
<1> HIDE DEF b
<1>6. \A k \in 1..6 : /\ ss[k] \in Seq(B) /\ Len(ss[k]) = 2
                      /\ ss[k][1] + 256 * ss[k][2] = q.values[k]
  BY <1>1, TwoBytes
<1>7. ss \in [1..6 -> Seq(B)]
  BY <1>6
<1>8. Inspire!Frame(a, q.values, q.id) = f
  BY DEF Inspire!Frame, Inspire!Fingers, b, e
<1> HIDE DEF ss, B
<1>9. /\ t \in Seq(B) /\ Len(t) = 12
      /\ \A k \in 1..6 : t[2 * k - 1] = ss[k][1] /\ t[2 * k] = ss[k][2]
  <2>1. \A k \in 1..6 : Len(ss[k]) = 2
    BY <1>6
  <2>2. QED
    BY ONLY <1>7, <2>1, SixPairs
<1> HIDE DEF t
<1>10. b \in Seq(B) /\ Len(b) = 4
  BY <1>5, Tuple
<1>11. /\ f \in Seq(B) /\ Len(f) = 16
       /\ \A i \in 1..16 : f[i] = IF i <= 4 THEN b[i] ELSE t[i - 4]
  <2>1. /\ b \o t \in Seq(B) /\ Len(b \o t) = Len(b) + Len(t)
        /\ \A i \in 1..(Len(b) + Len(t)) : (b \o t)[i] = IF i <= Len(b) THEN b[i] ELSE t[i - Len(b)]
    BY ONLY <1>9, <1>10, ConcatProperties
  <2>2. Len(b) + Len(t) = 16
    BY <1>9, <1>10
  <2>3. QED
    BY <1>10, <2>1, <2>2, Zenon
<1> HIDE DEF f
<1>12. f[1] = b[1] /\ f[2] = b[2] /\ f[3] = b[3] /\ f[4] = b[4]
  BY <1>11
<1>13. Inspire!Word(f) = e
  BY <1>5, <1>12, Zenon DEF Inspire!Word
<1>14. \A k \in 1..6 : f[3 + 2 * k] + 256 * f[4 + 2 * k] = q.values[k]
  <2>1. TAKE k \in 1..6
  <2>2. f[3 + 2 * k] = t[2 * k - 1] /\ f[4 + 2 * k] = t[2 * k]
    <3>1. /\ 3 + 2 * k \in 1..16 /\ ~(3 + 2 * k <= 4) /\ (3 + 2 * k) - 4 = 2 * k - 1
          /\ 4 + 2 * k \in 1..16 /\ ~(4 + 2 * k <= 4) /\ (4 + 2 * k) - 4 = 2 * k
      OBVIOUS
    <3>2. QED
      BY <1>11, <3>1, Zenon
  <2>3. t[2 * k - 1] = ss[k][1] /\ t[2 * k] = ss[k][2] /\ ss[k][1] + 256 * ss[k][2] = q.values[k]
    BY <1>6, <1>9
  <2>4. QED
    BY <2>2, <2>3
<1>15. [k \in 1..6 |-> f[3 + 2 * k] + 256 * f[4 + 2 * k]] = q.values
  <2>1. q.values = [k \in 1..6 |-> q.values[k]]
    BY <1>1
  <2>2. QED
    BY <1>14, <2>1
<1>16. Inspire!Taken(f) = [write |-> 1, reg |-> a, id |-> q.id, values |-> q.values]
  BY <1>4, <1>13, <1>15, Zenon DEF Inspire!Taken, Inspire!Fingers
<1>17. QED
  BY <1>8, <1>11, <1>16, Zenon DEF a, B

\* The line carries the frame of what was asked
InspireInv ==
    \/ asked = <<>> /\ bytes = <<>>
    \/ \E q \in Inspire!Requests :
          asked = <<q>> /\ bytes = Inspire!Frame(Inspire!Registers[q.reg], q.values, q.id)

\* It does before anything is asked,
LEMMA InspireInit == ASSUME Inspire!Init PROVE InspireInv
BY DEF Inspire!Init, InspireInv

\* and after.
LEMMA InspireStep == ASSUME InspireInv, Inspire!Next \/ UNCHANGED inspireVars PROVE InspireInv'
<1>1. CASE Inspire!Next
  BY <1>1, Zenon DEF Inspire!Next, Inspire!Write6, InspireInv
<1>2. CASE UNCHANGED inspireVars
  BY <1>2 DEF inspireVars, InspireInv
<1>3. QED
  BY <1>1, <1>2

\* So the hand takes what was asked.
LEMMA InspireSafe == ASSUME InspireInv PROVE Inspire!TypeOK /\ Inspire!FingersReached
<1>1. CASE asked = <<>> /\ bytes = <<>>
  <2>1. bytes \in Seq(Inspire!Byte) /\ Len(bytes) = 0 /\ DOMAIN asked = {}
    BY <1>1
  <2>2. QED
    BY <2>1 DEF Inspire!TypeOK, Inspire!FingersReached
<1>2. ASSUME NEW q \in Inspire!Requests, asked = <<q>>,
             bytes = Inspire!Frame(Inspire!Registers[q.reg], q.values, q.id)
      PROVE  Inspire!TypeOK /\ Inspire!FingersReached
  <2>1. DOMAIN asked = {1} /\ asked[1] = q
    BY <1>2
  <2>2. /\ bytes \in Seq(Inspire!Byte) /\ Len(bytes) = 16
        /\ Inspire!Taken(bytes) = [write |-> 1, reg |-> Inspire!Registers[q.reg], id |-> q.id,
                                   values |-> q.values]
    BY <1>2, FrameTaken
  <2>3. Inspire!TypeOK
    BY <2>2 DEF Inspire!TypeOK
  <2>4. Inspire!FingersReached
    BY <2>1, <2>2, Zenon DEF Inspire!FingersReached
  <2>5. QED
    BY <2>3, <2>4
<1>3. QED
  BY <1>1, <1>2 DEF InspireInv

-----------------------------------------------------------------------------
(* The parts together. *)

\* Steps of the other parts leave the cool-down, the serial line and the CAN line alone.
LEMMA StepIsCooldown == [EENext]_EEVars => [Next]_vars
BY DEF EENext, EEVars

LEMMA StepIsSerial == [EENext]_EEVars => Serial!Next \/ UNCHANGED serialVars
BY DEF EENext, EEVars

LEMMA StepIsInspire == [EENext]_EEVars => Inspire!Next \/ UNCHANGED inspireVars
BY DEF EENext, EEVars

\* No command is dropped, replaced, forgotten or garbled, in any of the parts.
THEOREM CommandsAreKept == EESpec => CommandsKept
<1> DEFINE Inv == IgnoreInv /\ SlotInv /\ CodecInv /\ SerialInv /\ InspireInv
<1>1. EEInit => Inv
  BY IgnoreInitially, SlotInit, CodecInit, SerialInit, InspireInit DEF EEInit
<1>2. Inv /\ [EENext]_EEVars => Inv'
  BY StepIsCooldown, IgnoreInvStep, SlotStep, CodecStep, StepIsSerial, SerialStep, StepIsInspire,
     InspireStep
<1>3. EESpec => []Inv
  BY <1>1, <1>2, PTL DEF EESpec
<1>4. EESpec => NoIdleDrop
  BY <1>3, StepIsCooldown, IgnoreStep, PTL DEF EESpec, NoIdleDrop
<1>5. EESpec => Slot!KeepsTarget
  BY <1>3, TargetStep, PTL DEF EESpec, Slot!KeepsTarget
<1>6. Inv => /\ Slot!TypeOK /\ Slot!TargetKnown /\ Slot!PositionIsMeasured
             /\ Codec!TypeOK /\ Codec!EncodeIsExact /\ Codec!DecodeIsExact
             /\ Serial!TypeOK /\ Serial!AllUnderstood /\ Serial!PositionArrives
             /\ Serial!PresetsDiffer
             /\ Inspire!TypeOK /\ Inspire!FingersReached
  BY CodecExact, SerialSafe, InspireSafe DEF SlotInv
<1>7. QED
  BY <1>3, <1>4, <1>5, <1>6, PTL DEF CommandsKept

-----------------------------------------------------------------------------
(* The CRC of the Modbus frames. *)

\* A word, without its bounds as an interval
IsWord(n) == n \in Nat /\ n < 65536

LEMMA Words == ASSUME NEW n PROVE n \in Crc!Word <=> IsWord(n)
<1> DEFINE top == 2^16 - 1
<1>1. top \in Int /\ top = 65535
  <2>1. 2^16 = 65536
    BY Powers
  <2>2. QED
    BY <2>1, SMT
<1> HIDE DEF top
<1>2. n \in 0..top <=> n \in Nat /\ n < 65536
  <2>1. top \in Int
    BY <1>1
  <2>2. n \in 0..top <=> n \in Int /\ 0 <= n /\ n <= top
    BY <2>1
  <2>3. n \in Int /\ 0 <= n <=> n \in Nat
    OBVIOUS
  <2>4. \A k \in Int : k <= top <=> k < 65536
    BY <1>1, SMT
  <2>5. QED
    BY <2>2, <2>3, <2>4
<1>3. QED
  BY <1>2 DEF Crc!Word, IsWord, top

\* Bit w of a number is set
On(a, w) == Crc!Bit(a, w) = 1

Weights == {1, 2, 4, 8, 16, 32, 64, 128, 256, 512, 1024, 2048, 4096, 8192, 16384, 32768}

LEMMA BitIs ==
    ASSUME NEW a \in Nat, NEW w \in Nat \ {0}
    PROVE  Crc!Bit(a, w) \in {0, 1} /\ a \div w \in Nat
<1>1. a \div w \in Nat
  OBVIOUS
<1>2. QED
  BY <1>1 DEF Crc!Bit

\* The bits of half a number are those of the number, one place down
LEMMA BitOfHalf ==
    ASSUME NEW a \in Nat, NEW w \in Nat \ {0}
    PROVE  Crc!Bit(a, 2 * w) = Crc!Bit(a \div 2, w)
BY DivDiv DEF Crc!Bit

LEMMA HalfOf ==
    ASSUME NEW a \in Nat, NEW w \in Nat \ {0}, NEW B \in Nat \ {0}, B = 2
    PROVE  a \div (2 * w) = (a \div w) \div B
<1>1. a \div (w * B) = (a \div w) \div B
  <2>1. a \in Int
    OBVIOUS
  <2>2. QED
    BY <2>1, DivDiv
<1>2. w * B = 2 * w
  OBVIOUS
<1>3. QED
  BY <1>1, <1>2

\* Numbers that agree above a bit, and in it, agree from it
LEMMA AgreeFrom ==
    ASSUME NEW a \in Nat, NEW b \in Nat, NEW w \in Nat \ {0},
           a \div (2 * w) = b \div (2 * w), On(a, w) <=> On(b, w)
    PROVE  a \div w = b \div w
<1> DEFINE B == 2
<1>1. Crc!Bit(a, w) = Crc!Bit(b, w)
  BY BitIs DEF On
<1>2. a \div w \in Int /\ b \div w \in Int
  OBVIOUS
<1>3. (a \div w) % B = (b \div w) % B
  BY <1>1 DEF Crc!Bit
<1>2a. B \in Nat \ {0} /\ B = 2
  OBVIOUS
<1> HIDE DEF B
<1>4. (a \div w) \div B = (b \div w) \div B
  BY <1>2a, HalfOf
<1>5. /\ a \div w = B * ((a \div w) \div B) + ((a \div w) % B)
      /\ b \div w = B * ((b \div w) \div B) + ((b \div w) % B)
  BY <1>2, <1>2a, Euclid
<1>6. QED
  BY <1>3, <1>4, <1>5

\* The bit of weight 1 is the last digit
LEMMA LowBit ==
    ASSUME NEW a \in Nat
    PROVE  On(a, 1) <=> a % 2 = 1
BY SMT DEF On, Crc!Bit

LEMMA NoBitAbove ==
    ASSUME NEW a, IsWord(a)
    PROVE  a \div 65536 = 0 /\ ~On(a, 65536)
<1> DEFINE B == 65536
<1>1. B \in Nat \ {0} /\ a \in Int /\ a \in 0..(B - 1) /\ a = B * 0 + a
  <2>1. B \in Nat \ {0} /\ a \in Int /\ 0 <= a /\ a < B
    BY SMT DEF IsWord
  <2> HIDE DEF B
  <2>2. QED
    BY <2>1, SMT
<1> HIDE DEF B
<1>2. a \div B = 0
  BY <1>1, EuclidUnique
<1>3. ~On(a, B)
  BY <1>2, SMT DEF On, Crc!Bit
<1>4. QED
  BY <1>2, <1>3 DEF B

\* From one bit to the next reaches every bit, upwards and downwards
LEMMA Doubled ==
    /\ 2 * 1 = 2 /\ 2 * 2 = 4 /\ 2 * 4 = 8 /\ 2 * 8 = 16 /\ 2 * 16 = 32
    /\ 2 * 32 = 64 /\ 2 * 64 = 128 /\ 2 * 128 = 256 /\ 2 * 256 = 512 /\ 2 * 512 = 1024
    /\ 2 * 1024 = 2048 /\ 2 * 2048 = 4096 /\ 2 * 4096 = 8192 /\ 2 * 8192 = 16384 /\ 2 * 16384 = 32768
    /\ 2 * 32768 = 65536
BY SMT

LEMMA WeightsAre ==
    /\ 1 \in Weights /\ 2 \in Weights /\ 4 \in Weights /\ 8 \in Weights
    /\ 16 \in Weights /\ 32 \in Weights /\ 64 \in Weights /\ 128 \in Weights
    /\ 256 \in Weights /\ 512 \in Weights /\ 1024 \in Weights /\ 2048 \in Weights
    /\ 4096 \in Weights /\ 8192 \in Weights /\ 16384 \in Weights /\ 32768 \in Weights
BY SMT DEF Weights

LEMMA Upwards ==
    ASSUME NEW S, 1 \in S, \A w \in Weights : w \in S => 2 * w \in S
    PROVE  Weights \subseteq S
<1>1. 2 \in S
  BY WeightsAre, Doubled, SMT
<1>2. 4 \in S
  BY <1>1, WeightsAre, Doubled, SMT
<1>3. 8 \in S
  BY <1>2, WeightsAre, Doubled, SMT
<1>4. 16 \in S
  BY <1>3, WeightsAre, Doubled, SMT
<1>5. 32 \in S
  BY <1>4, WeightsAre, Doubled, SMT
<1>6. 64 \in S
  BY <1>5, WeightsAre, Doubled, SMT
<1>7. 128 \in S
  BY <1>6, WeightsAre, Doubled, SMT
<1>8. 256 \in S
  BY <1>7, WeightsAre, Doubled, SMT
<1>9. 512 \in S
  BY <1>8, WeightsAre, Doubled, SMT
<1>10. 1024 \in S
  BY <1>9, WeightsAre, Doubled, SMT
<1>11. 2048 \in S
  BY <1>10, WeightsAre, Doubled, SMT
<1>12. 4096 \in S
  BY <1>11, WeightsAre, Doubled, SMT
<1>13. 8192 \in S
  BY <1>12, WeightsAre, Doubled, SMT
<1>14. 16384 \in S
  BY <1>13, WeightsAre, Doubled, SMT
<1>15. 32768 \in S
  BY <1>14, WeightsAre, Doubled, SMT
<1>16. QED
  BY <1>1, <1>2, <1>3, <1>4, <1>5, <1>6, <1>7, <1>8, <1>9, <1>10, <1>11, <1>12, <1>13, <1>14, <1>15, SMT DEF Weights

LEMMA Downwards ==
    ASSUME NEW S, 65536 \in S, \A w \in Weights : 2 * w \in S => w \in S
    PROVE  Weights \subseteq S
<1>1. 32768 \in S
  BY WeightsAre, Doubled, SMT
<1>2. 16384 \in S
  BY <1>1, WeightsAre, Doubled, SMT
<1>3. 8192 \in S
  BY <1>2, WeightsAre, Doubled, SMT
<1>4. 4096 \in S
  BY <1>3, WeightsAre, Doubled, SMT
<1>5. 2048 \in S
  BY <1>4, WeightsAre, Doubled, SMT
<1>6. 1024 \in S
  BY <1>5, WeightsAre, Doubled, SMT
<1>7. 512 \in S
  BY <1>6, WeightsAre, Doubled, SMT
<1>8. 256 \in S
  BY <1>7, WeightsAre, Doubled, SMT
<1>9. 128 \in S
  BY <1>8, WeightsAre, Doubled, SMT
<1>10. 64 \in S
  BY <1>9, WeightsAre, Doubled, SMT
<1>11. 32 \in S
  BY <1>10, WeightsAre, Doubled, SMT
<1>12. 16 \in S
  BY <1>11, WeightsAre, Doubled, SMT
<1>13. 8 \in S
  BY <1>12, WeightsAre, Doubled, SMT
<1>14. 4 \in S
  BY <1>13, WeightsAre, Doubled, SMT
<1>15. 2 \in S
  BY <1>14, WeightsAre, Doubled, SMT
<1>16. 1 \in S
  BY <1>15, WeightsAre, Doubled, SMT
<1>17. QED
  BY <1>1, <1>2, <1>3, <1>4, <1>5, <1>6, <1>7, <1>8, <1>9, <1>10, <1>11, <1>12, <1>13, <1>14, <1>15, <1>16, SMT DEF Weights

\* A word is made of its bits
LEMMA SameBits ==
    ASSUME NEW a, NEW b, IsWord(a), IsWord(b), \A w \in Weights : On(a, w) <=> On(b, w)
    PROVE  a = b
<1> DEFINE S == {w \in Nat : a \div w = b \div w}
<1>1. 65536 \in S
  BY NoBitAbove, SMT
<1>2. a \in Nat /\ b \in Nat /\ \A w \in Weights : w \in Nat \ {0}
  BY SMT DEF Weights, IsWord
<1>3. ASSUME NEW w \in Weights, 2 * w \in S PROVE w \in S
  <2>1. a \div (2 * w) = b \div (2 * w) /\ w \in Nat \ {0}
    BY <1>2, <1>3
  <2>2. QED
    BY <1>2, <2>1, AgreeFrom
<1>4. 1 \in S => a = b
  BY SMT DEF IsWord
<1> HIDE DEF S
<1>5. 1 \in S
  BY <1>1, <1>3, Downwards, WeightsAre
<1>6. QED
  BY <1>4, <1>5

LEMMA HalfIsWord ==
    ASSUME NEW a, IsWord(a)
    PROVE  IsWord(a \div 2) /\ a = 2 * (a \div 2) + (a % 2)
<1>1. a \in Nat
  BY DEF IsWord
<1>2. a \div 2 \in Nat /\ a % 2 \in {0, 1} /\ a = 2 * (a \div 2) + (a % 2)
  BY <1>1
<1>3. QED
  BY <1>1, <1>2, SMT DEF IsWord

\* The xor of two words is a word, its last bit the xor of the last bits and its half the
\* xor of the halves
LEMMA XorHalves ==
    ASSUME NEW a, NEW b, IsWord(a), IsWord(b)
    PROVE  /\ IsWord(Crc!Xor(a, b))
           /\ Crc!Xor(a, b) \div 2 = Crc!Xor(a \div 2, b \div 2)
           /\ On(Crc!Xor(a, b), 1) <=> ~(On(a, 1) <=> On(b, 1))
<1> DEFINE x(w) == IF Crc!Bit(a, w) # Crc!Bit(b, w) THEN w ELSE 0
           h(w) == IF Crc!Bit(a \div 2, w) # Crc!Bit(b \div 2, w) THEN w ELSE 0
           half == Crc!Xor(a \div 2, b \div 2)
<1>1. /\ Crc!Xor(a, b) = x(1) + x(2) + x(4) + x(8) + x(16) + x(32) + x(64) + x(128)
             + x(256) + x(512) + x(1024) + x(2048) + x(4096) + x(8192) + x(16384) + x(32768)
      /\ half = h(1) + h(2) + h(4) + h(8) + h(16) + h(32) + h(64) + h(128)
             + h(256) + h(512) + h(1024) + h(2048) + h(4096) + h(8192) + h(16384) + h(32768)
  BY DEF Crc!Xor
<1>2. a \in Nat /\ b \in Nat /\ a \div 2 \in Nat /\ b \div 2 \in Nat
  BY DEF IsWord
<1>3. \A w \in Nat \ {0} : x(2 * w) = 2 * h(w)
  BY <1>2, BitOfHalf
<1>4. h(32768) = 0
  <2>1. Crc!Bit(a, 65536) = Crc!Bit(b, 65536)
    BY <1>2, NoBitAbove, BitIs, SMT DEF On
  <2>2. Crc!Bit(a, 2 * 32768) = Crc!Bit(a \div 2, 32768)
    BY <1>2, BitOfHalf, SMT
  <2>3. Crc!Bit(b, 2 * 32768) = Crc!Bit(b \div 2, 32768)
    BY <1>2, BitOfHalf, SMT
  <2>4. QED
    BY <2>1, <2>2, <2>3, Doubled
<1>5. x(1) \in {0, 1} /\ (x(1) = 1 <=> ~(On(a, 1) <=> On(b, 1)))
  BY <1>2, BitIs DEF On
<1>6. \A w \in Weights : h(w) \in {0, w}
  OBVIOUS
<1> HIDE DEF x, h
<1>7. /\ x(2) = 2 * h(1) /\ x(4) = 2 * h(2) /\ x(8) = 2 * h(4)
      /\ x(16) = 2 * h(8) /\ x(32) = 2 * h(16) /\ x(64) = 2 * h(32)
      /\ x(128) = 2 * h(64) /\ x(256) = 2 * h(128) /\ x(512) = 2 * h(256)
      /\ x(1024) = 2 * h(512) /\ x(2048) = 2 * h(1024) /\ x(4096) = 2 * h(2048)
      /\ x(8192) = 2 * h(4096) /\ x(16384) = 2 * h(8192) /\ x(32768) = 2 * h(16384)
  BY <1>3, Doubled, SMT
<1>8. /\ h(1) \in {0, 1} /\ h(2) \in {0, 2} /\ h(4) \in {0, 4} /\ h(8) \in {0, 8}
      /\ h(16) \in {0, 16} /\ h(32) \in {0, 32} /\ h(64) \in {0, 64} /\ h(128) \in {0, 128}
      /\ h(256) \in {0, 256} /\ h(512) \in {0, 512} /\ h(1024) \in {0, 1024} /\ h(2048) \in {0, 2048}
      /\ h(4096) \in {0, 4096} /\ h(8192) \in {0, 8192} /\ h(16384) \in {0, 16384} /\ h(32768) \in {0, 32768}
  BY <1>6, SMT DEF Weights
<1>9. half \in Nat /\ half < 32768 /\ Crc!Xor(a, b) = 2 * half + x(1)
  <2>1. /\ h(1) \in Nat /\ h(2) \in Nat /\ h(4) \in Nat /\ h(8) \in Nat /\ h(16) \in Nat
        /\ h(32) \in Nat /\ h(64) \in Nat /\ h(128) \in Nat /\ h(256) \in Nat
        /\ h(512) \in Nat /\ h(1024) \in Nat /\ h(2048) \in Nat /\ h(4096) \in Nat
        /\ h(8192) \in Nat /\ h(16384) \in Nat
    BY <1>8, SMT
  <2>2. /\ h(1) <= 1 /\ h(2) <= 2 /\ h(4) <= 4 /\ h(8) <= 8 /\ h(16) <= 16 /\ h(32) <= 32
        /\ h(64) <= 64 /\ h(128) <= 128 /\ h(256) <= 256 /\ h(512) <= 512
        /\ h(1024) <= 1024 /\ h(2048) <= 2048 /\ h(4096) <= 4096 /\ h(8192) <= 8192
        /\ h(16384) <= 16384
    BY <1>8, SMT
  <2> DEFINE l1 == h(1) + h(2) + h(4) + h(8)
             l2 == l1 + h(16) + h(32) + h(64) + h(128)
             l3 == l2 + h(256) + h(512) + h(1024) + h(2048)
  <2>3. half = l3 + h(4096) + h(8192) + h(16384)
    BY <1>1, <1>4, <2>1, SMT
  <2>4. Crc!Xor(a, b) = x(1) + 2 * h(1) + 2 * h(2) + 2 * h(4) + 2 * h(8) + 2 * h(16)
                        + 2 * h(32) + 2 * h(64) + 2 * h(128) + 2 * h(256) + 2 * h(512)
                        + 2 * h(1024) + 2 * h(2048) + 2 * h(4096) + 2 * h(8192) + 2 * h(16384)
    BY <1>1, <1>7, SMT
  <2>5. l1 \in Nat /\ l1 <= 15
    BY <2>1, <2>2, SMT
  <2>6. x(1) + 2 * h(1) + 2 * h(2) + 2 * h(4) + 2 * h(8) = x(1) + 2 * l1
    BY <1>5, <2>1, SMT
  <2> HIDE DEF l1
  <2>7. l2 \in Nat /\ l2 <= 255
    BY <2>1, <2>2, <2>5, SMT
  <2>8. x(1) + 2 * l1 + 2 * h(16) + 2 * h(32) + 2 * h(64) + 2 * h(128) = x(1) + 2 * l2
    BY <1>5, <2>1, <2>5, SMT
  <2> HIDE DEF l2
  <2>9. l3 \in Nat /\ l3 <= 4095
    BY <2>1, <2>2, <2>7, SMT
  <2>10. x(1) + 2 * l2 + 2 * h(256) + 2 * h(512) + 2 * h(1024) + 2 * h(2048) = x(1) + 2 * l3
    BY <1>5, <2>1, <2>7, SMT
  <2> HIDE DEF l3, half
  <2>11. half \in Nat /\ half < 32768
    BY <2>1, <2>2, <2>3, <2>9, SMT
  <2>12. x(1) + 2 * l3 + 2 * h(4096) + 2 * h(8192) + 2 * h(16384) = x(1) + 2 * half
    BY <1>5, <2>1, <2>3, <2>9, SMT
  <2>13. Crc!Xor(a, b) = x(1) + 2 * half
    BY <2>4, <2>6, <2>8, <2>10, <2>12, SMT
  <2>14. QED
    BY <1>5, <2>11, <2>13
<1> HIDE DEF half
<1>10. Crc!Xor(a, b) \div 2 = half /\ Crc!Xor(a, b) % 2 = x(1) /\ Crc!Xor(a, b) \in Nat
  BY <1>5, <1>9, SMT
<1>11. IsWord(Crc!Xor(a, b))
  BY <1>5, <1>9, SMT DEF IsWord
<1>12. QED
  BY <1>5, <1>10, <1>11, LowBit DEF half

\* The bits of a xor are the xors of the bits
LEMMA OnXor ==
    ASSUME NEW a, NEW b, IsWord(a), IsWord(b)
    PROVE  /\ IsWord(Crc!Xor(a, b))
           /\ \A w \in Weights : On(Crc!Xor(a, b), w) <=> ~(On(a, w) <=> On(b, w))
<1> DEFINE P(w) == \A c, d : IsWord(c) /\ IsWord(d) =>
                     (On(Crc!Xor(c, d), w) <=> ~(On(c, w) <=> On(d, w)))
           S == {w \in Nat : P(w)}
<1>1. 1 \in S
  <2>1. P(1)
    BY XorHalves
  <2>2. QED
    BY <2>1
<1>2. ASSUME NEW w \in Weights, w \in S PROVE 2 * w \in S
  <2>1. w \in Nat \ {0} /\ 2 * w \in Nat
    BY <1>2, SMT DEF Weights
  <2>2. ASSUME NEW c, NEW d, IsWord(c), IsWord(d)
        PROVE  On(Crc!Xor(c, d), 2 * w) <=> ~(On(c, 2 * w) <=> On(d, 2 * w))
    <3>1. On(Crc!Xor(c, d), 2 * w) <=> On(Crc!Xor(c \div 2, d \div 2), w)
      BY <2>1, <2>2, XorHalves, BitOfHalf DEF On, IsWord
    <3>2. (On(c, 2 * w) <=> On(c \div 2, w)) /\ (On(d, 2 * w) <=> On(d \div 2, w))
      BY <2>1, <2>2, BitOfHalf DEF On, IsWord
    <3>3. IsWord(c \div 2) /\ IsWord(d \div 2)
      BY <2>2, HalfIsWord
    <3>4. QED
      BY <1>2, <3>1, <3>2, <3>3
  <2>3. QED
    BY <2>1, <2>2
<1>3. Weights \subseteq S
  <2> HIDE DEF S
  <2>1. QED
    BY <1>1, <1>2, Upwards
<1>4. QED
  BY <1>3, XorHalves

\* The bits of the polynomial
Taps == {1, 8192, 32768}

LEMMA Polynomial ==
    IsWord(40961) /\ \A w \in Weights : On(40961, w) <=> w \in Taps
<1>1. IsWord(40961)
  BY SMT DEF IsWord
<1>2. \A w \in Weights : On(40961, w) <=> w \in Taps
  BY SMT DEF Weights, Taps, On, Crc!Bit
<1>3. QED
  BY <1>1, <1>2

LEMMA NoHighBits ==
    ASSUME NEW n \in Nat, NEW w \in Nat, n < w
    PROVE  ~On(n, w)
<1>1. w \in Nat \ {0} /\ n \in 0..(w - 1) /\ n = w * 0 + n
  OBVIOUS
<1>2. n \div w = 0
  BY <1>1, EuclidUnique
<1>3. QED
  BY <1>2, SMT DEF On, Crc!Bit

\* A shift moves the bits down and adds the polynomial for the bit that falls out
LEMMA ShiftBits ==
    ASSUME NEW c, IsWord(c)
    PROVE  /\ IsWord(Crc!Shift(c))
           /\ \A w \in Weights :
                 On(Crc!Shift(c), w) <=> ~(On(c, 2 * w) <=> (On(c, 1) /\ w \in Taps))
<1>1. c \in Nat /\ IsWord(c \div 2) /\ (On(c, 1) <=> c % 2 = 1)
  BY HalfIsWord, LowBit DEF IsWord
<1>2. \A w \in Weights : On(c \div 2, w) <=> On(c, 2 * w)
  <2>1. \A w \in Weights : w \in Nat \ {0}
    BY SMT DEF Weights
  <2>2. QED
    BY <1>1, <2>1, BitOfHalf DEF On
<1>3. CASE c % 2 = 1
  <2>1. Crc!Shift(c) = Crc!Xor(c \div 2, 40961)
    BY <1>3 DEF Crc!Shift
  <2>2. QED
    BY <1>1, <1>2, <1>3, <2>1, Polynomial, OnXor
<1>4. CASE c % 2 # 1
  <2>1. Crc!Shift(c) = c \div 2
    BY <1>4 DEF Crc!Shift
  <2>2. QED
    BY <1>1, <1>2, <1>4, <2>1
<1>5. QED
  BY <1>3, <1>4

\* No two words are shifted to the same word
LEMMA ShiftInjective ==
    ASSUME NEW c, NEW d, IsWord(c), IsWord(d), Crc!Shift(c) = Crc!Shift(d)
    PROVE  c = d
<1>1. \A w \in Weights : (On(c, 2 * w) <=> (On(c, 1) /\ w \in Taps))
                          <=> (On(d, 2 * w) <=> (On(d, 1) /\ w \in Taps))
  BY ShiftBits
<1>2. On(c, 1) <=> On(d, 1)
  <2>1. 32768 \in Weights /\ 32768 \in Taps
    BY SMT DEF Weights, Taps
  <2>2. ~On(c, 2 * 32768) /\ ~On(d, 2 * 32768)
    BY NoBitAbove, Doubled, SMT
  <2>3. QED
    BY <1>1, <2>1, <2>2
<1>3. \A w \in Weights : On(c, 2 * w) <=> On(d, 2 * w)
  BY <1>1, <1>2
<1> DEFINE S == {w \in Nat : On(c, w) <=> On(d, w)}
<1>4. 1 \in S
  BY <1>2
<1>5. \A w \in Weights : 2 * w \in S
  <2>1. \A w \in Weights : 2 * w \in Nat
    BY SMT DEF Weights
  <2>2. QED
    BY <1>3, <2>1
<1> HIDE DEF S
<1>6. Weights \subseteq S
  BY <1>4, <1>5, Upwards
<1>7. QED
  BY <1>6, SameBits DEF S

\* Nor do two words or two bytes give the same word under eight shifts
LEMMA ByBitsInjective ==
    ASSUME NEW c, NEW b, NEW d, NEW e, IsWord(c), IsWord(b), IsWord(d), IsWord(e),
           Crc!ByBits(c, b) = Crc!ByBits(d, e)
    PROVE  Crc!Xor(c, b) = Crc!Xor(d, e)
<1> DEFINE s(w) == Crc!Shift(w)
           x == Crc!Xor(c, b)
           y == Crc!Xor(d, e)
<1>1. /\ Crc!ByBits(c, b) = s(s(s(s(s(s(s(s(x))))))))
      /\ Crc!ByBits(d, e) = s(s(s(s(s(s(s(s(y))))))))
  BY Zenon DEF Crc!ByBits
<1>2. \A w : IsWord(w) => IsWord(s(w))
  BY ShiftBits
<1>3. \A v, w : IsWord(v) /\ IsWord(w) /\ s(v) = s(w) => v = w
  BY ShiftInjective
<1>4. IsWord(x) /\ IsWord(y)
  BY OnXor
<1> HIDE DEF s, x, y
<1>5. /\ IsWord(s(x)) /\ IsWord(s(s(x))) /\ IsWord(s(s(s(x)))) /\ IsWord(s(s(s(s(x)))))
      /\ IsWord(s(s(s(s(s(x)))))) /\ IsWord(s(s(s(s(s(s(x)))))))
      /\ IsWord(s(s(s(s(s(s(s(x))))))))
  BY <1>2, <1>4
<1>6. /\ IsWord(s(y)) /\ IsWord(s(s(y))) /\ IsWord(s(s(s(y)))) /\ IsWord(s(s(s(s(y)))))
      /\ IsWord(s(s(s(s(s(y)))))) /\ IsWord(s(s(s(s(s(s(y)))))))
      /\ IsWord(s(s(s(s(s(s(s(y))))))))
  BY <1>2, <1>4
<1>7. x = y
  <2>8. s(s(s(s(s(s(s(s(x)))))))) = s(s(s(s(s(s(s(s(y))))))))
    BY <1>1, Zenon
  <2>7. s(s(s(s(s(s(s(x))))))) = s(s(s(s(s(s(s(y)))))))
    BY <2>8, <1>3, <1>4, <1>5, <1>6
  <2>6. s(s(s(s(s(s(x)))))) = s(s(s(s(s(s(y))))))
    BY <2>7, <1>3, <1>4, <1>5, <1>6
  <2>5. s(s(s(s(s(x))))) = s(s(s(s(s(y)))))
    BY <2>6, <1>3, <1>4, <1>5, <1>6
  <2>4. s(s(s(s(x)))) = s(s(s(s(y))))
    BY <2>5, <1>3, <1>4, <1>5, <1>6
  <2>3. s(s(s(x))) = s(s(s(y)))
    BY <2>4, <1>3, <1>4, <1>5, <1>6
  <2>2. s(s(x)) = s(s(y))
    BY <2>3, <1>3, <1>4, <1>5, <1>6
  <2>1. s(x) = s(y)
    BY <2>2, <1>3, <1>4, <1>5, <1>6
  <2>0. x = y
    BY <2>1, <1>3, <1>4, <1>5, <1>6
  <2>9. QED
    BY <2>0
<1>8. QED
  BY <1>7 DEF x, y

LEMMA XorInjective ==
    ASSUME NEW c, NEW b, NEW d, NEW e, IsWord(c), IsWord(b), IsWord(d), IsWord(e),
           Crc!Xor(c, b) = Crc!Xor(d, e), c = d \/ b = e
    PROVE  c = d /\ b = e
<1>1. \A w \in Weights : (On(c, w) <=> On(b, w)) <=> (On(d, w) <=> On(e, w))
  BY OnXor
<1>2. CASE c = d
  <2>1. \A w \in Weights : On(b, w) <=> On(e, w)
    BY <1>1, <1>2
  <2>2. QED
    BY <1>2, <2>1, SameBits
<1>3. CASE b = e
  <2>1. \A w \in Weights : On(c, w) <=> On(d, w)
    BY <1>1, <1>3
  <2>2. QED
    BY <1>3, <2>1, SameBits
<1>4. QED
  BY <1>2, <1>3

\* The low byte of a number has its low bits
LEMMA LowByte ==
    ASSUME NEW y \in Nat, NEW w \in Nat \ {0}, NEW k \in Nat, w * (2 * k) = 256
    PROVE  On(y % 256, w) <=> On(y, w)
<1> DEFINE B == 256
           q == y \div B
           r == y % B
<1>1. q \in Int /\ r \in Int /\ y = B * q + r
  <2>1. B \in Nat \ {0} /\ y \in Int
    OBVIOUS
  <2> HIDE DEF B
  <2>2. QED
    BY <2>1, Euclid
<1>2. B = w * (2 * k)
  OBVIOUS
<1> HIDE DEF B, q, r
<1>3. y = r + w * (2 * (k * q)) /\ k * q \in Int
  BY <1>1, <1>2
<1> DEFINE m == k * q
<1>4. m \in Int /\ 2 * m \in Int /\ y = r + w * (2 * m) /\ r \div w \in Int
  BY <1>1, <1>3
<1> HIDE DEF m
<1>5. y \div w = r \div w + 2 * m
  BY <1>1, <1>4, ShiftDiv
<1>6. (y \div w) % 2 = (r \div w) % 2
  BY <1>4, <1>5, ShiftDiv
<1>7. QED
  BY <1>6 DEF On, Crc!Bit, r, B

LEMMA LowBytes ==
    ASSUME NEW y \in Nat
    PROVE  \A w \in {1, 2, 4, 8, 16, 32, 64, 128} : On(y % 256, w) <=> On(y, w)
<1>1. /\ 1 * (2 * 128) = 256 /\ 2 * (2 * 64) = 256 /\ 4 * (2 * 32) = 256 /\ 8 * (2 * 16) = 256
      /\ 16 * (2 * 8) = 256 /\ 32 * (2 * 4) = 256 /\ 64 * (2 * 2) = 256 /\ 128 * (2 * 1) = 256
  BY SMT
<1>2. On(y % 256, 1) <=> On(y, 1)
  BY <1>1, LowByte, SMT
<1>3. On(y % 256, 2) <=> On(y, 2)
  BY <1>1, LowByte, SMT
<1>4. On(y % 256, 4) <=> On(y, 4)
  BY <1>1, LowByte, SMT
<1>5. On(y % 256, 8) <=> On(y, 8)
  BY <1>1, LowByte, SMT
<1>6. On(y % 256, 16) <=> On(y, 16)
  BY <1>1, LowByte, SMT
<1>7. On(y % 256, 32) <=> On(y, 32)
  BY <1>1, LowByte, SMT
<1>8. On(y % 256, 64) <=> On(y, 64)
  BY <1>1, LowByte, SMT
<1>9. On(y % 256, 128) <=> On(y, 128)
  BY <1>1, LowByte, SMT
<1>10. QED
  BY <1>2, <1>3, <1>4, <1>5, <1>6, <1>7, <1>8, <1>9, SMT

\* The high byte of a word has its high bits
LEMMA HighByte ==
    ASSUME NEW c, IsWord(c)
    PROVE  /\ c \div 256 \in Nat /\ c \div 256 < 256
           /\ \A w \in Weights : w < 256 => (On(c \div 256, w) <=> On(c, 256 * w))
<1>1. c \in Nat /\ c \div 256 \in Nat /\ c \div 256 < 256
  BY SMT DEF IsWord
<1>2. ASSUME NEW w \in Weights PROVE On(c \div 256, w) <=> On(c, 256 * w)
  <2> DEFINE m == 256
  <2>1. w \in Nat \ {0} /\ m \in Nat \ {0}
    BY SMT DEF Weights
  <2> HIDE DEF m
  <2>2. c \div (m * w) = (c \div m) \div w
    BY <1>1, <2>1, DivDiv
  <2>3. QED
    BY <2>2 DEF On, Crc!Bit, m
<1>3. QED
  BY <1>1, <1>2

\* What eight shifts make of a word, and what the table holds, in the bits of the word: its
\* low byte x0 to x7 feeds the polynomial back
Differ(p, q) == ~(p <=> q)
EightShifts(x, d) ==
    LET p0 == On(x, 1)
        p1 == Differ(p0, On(x, 2))
        p2 == Differ(p1, On(x, 4))
        p3 == Differ(p2, On(x, 8))
        p4 == Differ(p3, On(x, 16))
        p5 == Differ(p4, On(x, 32))
        p6 == Differ(p5, On(x, 64))
        p7 == Differ(p6, On(x, 128))
    IN
    /\ (On(d, 1) <=> Differ(On(x, 256), p7)) /\ (On(d, 2) <=> On(x, 512))
    /\ (On(d, 4) <=> On(x, 1024)) /\ (On(d, 8) <=> On(x, 2048))
    /\ (On(d, 16) <=> On(x, 4096)) /\ (On(d, 32) <=> On(x, 8192))
    /\ (On(d, 64) <=> Differ(On(x, 16384), p0)) /\ (On(d, 128) <=> Differ(On(x, 32768), p1))
    /\ (On(d, 256) <=> Differ(p0, p2)) /\ (On(d, 512) <=> Differ(p1, p3))
    /\ (On(d, 1024) <=> Differ(p2, p4)) /\ (On(d, 2048) <=> Differ(p3, p5))
    /\ (On(d, 4096) <=> Differ(p4, p6)) /\ (On(d, 8192) <=> Differ(p5, p7))
    /\ (On(d, 16384) <=> p6) /\ (On(d, 32768) <=> p7)

\* One shift, bit by bit
Shifted(c, d) ==
    /\ (On(d, 1) <=> Differ(On(c, 2), On(c, 1))) /\ (On(d, 2) <=> On(c, 4))
    /\ (On(d, 4) <=> On(c, 8)) /\ (On(d, 8) <=> On(c, 16))
    /\ (On(d, 16) <=> On(c, 32)) /\ (On(d, 32) <=> On(c, 64))
    /\ (On(d, 64) <=> On(c, 128)) /\ (On(d, 128) <=> On(c, 256))
    /\ (On(d, 256) <=> On(c, 512)) /\ (On(d, 512) <=> On(c, 1024))
    /\ (On(d, 1024) <=> On(c, 2048)) /\ (On(d, 2048) <=> On(c, 4096))
    /\ (On(d, 4096) <=> On(c, 8192)) /\ (On(d, 8192) <=> Differ(On(c, 16384), On(c, 1)))
    /\ (On(d, 16384) <=> On(c, 32768)) /\ (On(d, 32768) <=> On(c, 1))

LEMMA ShiftBitByBit == ASSUME NEW c, IsWord(c) PROVE Shifted(c, Crc!Shift(c))
<1> DEFINE d == Crc!Shift(c)
<1>1. \A w \in Weights : On(d, w) <=> ~(On(c, 2 * w) <=> (On(c, 1) /\ w \in Taps))
  BY ShiftBits
<1>2. ~On(c, 65536)
  BY NoBitAbove
<1> HIDE DEF d
<1>3. /\ 1 \in Taps /\ 8192 \in Taps /\ 32768 \in Taps
      /\ 2 \notin Taps /\ 4 \notin Taps /\ 8 \notin Taps /\ 16 \notin Taps
      /\ 32 \notin Taps /\ 64 \notin Taps /\ 128 \notin Taps /\ 256 \notin Taps
      /\ 512 \notin Taps /\ 1024 \notin Taps /\ 2048 \notin Taps /\ 4096 \notin Taps
      /\ 16384 \notin Taps
  BY SMT DEF Taps
<1>4. On(d, 1) <=> Differ(On(c, 2), On(c, 1))
  BY <1>1, <1>2, <1>3, Doubled, SMT DEF Weights, Differ
<1>5. On(d, 2) <=> On(c, 4)
  BY <1>1, <1>2, <1>3, Doubled, SMT DEF Weights, Differ
<1>6. On(d, 4) <=> On(c, 8)
  BY <1>1, <1>2, <1>3, Doubled, SMT DEF Weights, Differ
<1>7. On(d, 8) <=> On(c, 16)
  BY <1>1, <1>2, <1>3, Doubled, SMT DEF Weights, Differ
<1>8. On(d, 16) <=> On(c, 32)
  BY <1>1, <1>2, <1>3, Doubled, SMT DEF Weights, Differ
<1>9. On(d, 32) <=> On(c, 64)
  BY <1>1, <1>2, <1>3, Doubled, SMT DEF Weights, Differ
<1>10. On(d, 64) <=> On(c, 128)
  BY <1>1, <1>2, <1>3, Doubled, SMT DEF Weights, Differ
<1>11. On(d, 128) <=> On(c, 256)
  BY <1>1, <1>2, <1>3, Doubled, SMT DEF Weights, Differ
<1>12. On(d, 256) <=> On(c, 512)
  BY <1>1, <1>2, <1>3, Doubled, SMT DEF Weights, Differ
<1>13. On(d, 512) <=> On(c, 1024)
  BY <1>1, <1>2, <1>3, Doubled, SMT DEF Weights, Differ
<1>14. On(d, 1024) <=> On(c, 2048)
  BY <1>1, <1>2, <1>3, Doubled, SMT DEF Weights, Differ
<1>15. On(d, 2048) <=> On(c, 4096)
  BY <1>1, <1>2, <1>3, Doubled, SMT DEF Weights, Differ
<1>16. On(d, 4096) <=> On(c, 8192)
  BY <1>1, <1>2, <1>3, Doubled, SMT DEF Weights, Differ
<1>17. On(d, 8192) <=> Differ(On(c, 16384), On(c, 1))
  BY <1>1, <1>2, <1>3, Doubled, SMT DEF Weights, Differ
<1>18. On(d, 16384) <=> On(c, 32768)
  BY <1>1, <1>2, <1>3, Doubled, SMT DEF Weights, Differ
<1>19. On(d, 32768) <=> On(c, 1)
  BY <1>1, <1>2, <1>3, Doubled, SMT DEF Weights, Differ
<1>20. QED
  BY <1>4, <1>5, <1>6, <1>7, <1>8, <1>9, <1>10, <1>11, <1>12, <1>13, <1>14, <1>15, <1>16, <1>17, <1>18, <1>19, SMT DEF Shifted, d

LEMMA EightTimes ==
    ASSUME NEW c, NEW b, IsWord(c), IsWord(b)
    PROVE  IsWord(Crc!ByBits(c, b)) /\ EightShifts(Crc!Xor(c, b), Crc!ByBits(c, b))
<1> DEFINE s(w) == Crc!Shift(w)
           x == Crc!Xor(c, b)
           x1 == s(x)  x2 == s(x1)  x3 == s(x2)  x4 == s(x3)
           x5 == s(x4)  x6 == s(x5)  x7 == s(x6)  x8 == s(x7)
<1>1. Crc!ByBits(c, b) = x8
  BY Zenon DEF Crc!ByBits
<1>2. IsWord(x)
  BY OnXor
<1>3. \A w : IsWord(w) => IsWord(s(w)) /\ Shifted(w, s(w))
  BY ShiftBits, ShiftBitByBit
<1> HIDE DEF s, x
<1>4. /\ IsWord(x1) /\ IsWord(x2) /\ IsWord(x3) /\ IsWord(x4)
      /\ IsWord(x5) /\ IsWord(x6) /\ IsWord(x7) /\ IsWord(x8)
  BY <1>2, <1>3
<1>5. /\ Shifted(x, x1) /\ Shifted(x1, x2) /\ Shifted(x2, x3) /\ Shifted(x3, x4)
      /\ Shifted(x4, x5) /\ Shifted(x5, x6) /\ Shifted(x6, x7) /\ Shifted(x7, x8)
  BY <1>2, <1>3, <1>4
<1> HIDE DEF x1, x2, x3, x4, x5, x6, x7, x8
<1>6. EightShifts(x, x8)
  BY <1>5, SMTT(30) DEF Shifted, EightShifts, Differ
<1>7. QED
  BY <1>1, <1>4, <1>6 DEF x

\* The table holds what eight shifts make of a byte
LEMMA TableIsEightShifts ==
    ASSUME NEW i \in Nat, i < 256
    PROVE  IsWord(Crc!wCRCTable[i + 1]) /\ EightShifts(i, Crc!wCRCTable[i + 1])
<1> DEFINE d == Crc!wCRCTable[i + 1]
<1>1. IsWord(d)
  BY SMT DEF IsWord, Crc!wCRCTable
<1>2. EightShifts(i, d)
  BY SMTT(30) DEF EightShifts, Differ, On, Crc!Bit, Crc!wCRCTable
<1>3. QED
  BY <1>1, <1>2

\* A step of CRC16 is what the other end's eight shifts are
LEMMA UpdateIsByBits ==
    ASSUME NEW c, NEW b, IsWord(c), IsWord(b), b < 256
    PROVE  Crc!Update(c, b) = Crc!ByBits(c, b) /\ IsWord(Crc!Update(c, b))
<1> DEFINE x == Crc!Xor(c, b)
           y == Crc!Xor(b, c)
           i == y % 256
           t == Crc!wCRCTable[i + 1]
           h == c \div 256
           u == Crc!Xor(h, t)
<1>1. /\ IsWord(x) /\ \A w \in Weights : On(x, w) <=> ~(On(c, w) <=> On(b, w))
      /\ IsWord(y) /\ \A w \in Weights : On(y, w) <=> ~(On(b, w) <=> On(c, w))
  BY OnXor
<1>2. x = y
  <2> HIDE DEF x, y
  <2>1. \A w \in Weights : On(x, w) <=> On(y, w)
    BY <1>1
  <2>2. QED
    BY <1>1, <2>1, SameBits
<1> HIDE DEF x, y
<1>3. i \in Nat /\ i < 256
  BY <1>1, SMT DEF IsWord
<1>4. \A w \in {1, 2, 4, 8, 16, 32, 64, 128} : On(i, w) <=> On(x, w)
  BY <1>1, <1>2, LowBytes DEF IsWord
<1>5. \A w \in Weights : w >= 256 => ~On(i, w) /\ ~On(b, w) /\ ~On(h, w)
  <2>1. h \in Nat /\ h < 256 /\ b \in Nat
    BY HighByte DEF IsWord
  <2>2. \A w \in Weights : w \in Nat
    BY SMT DEF Weights
  <2> HIDE DEF i, h
  <2>3. QED
    BY <1>3, <2>1, <2>2, NoHighBits, SMT
<1>6. IsWord(t) /\ EightShifts(i, t)
  <2> HIDE DEF i
  <2>1. QED
    BY <1>3, TableIsEightShifts
<1>7. IsWord(h) /\ \A w \in Weights : w < 256 => (On(h, w) <=> On(c, 256 * w))
  <2>1. h \in Nat /\ h < 256 /\ \A w \in Weights : w < 256 => (On(h, w) <=> On(c, 256 * w))
    BY HighByte
  <2> HIDE DEF h
  <2>2. QED
    BY <2>1, SMT DEF IsWord
<1> HIDE DEF i, t, h
<1>8. IsWord(u) /\ \A w \in Weights : On(u, w) <=> ~(On(h, w) <=> On(t, w))
  BY <1>6, <1>7, OnXor
<1> HIDE DEF u
<1>9. EightShifts(x, u)
  <2>1. /\ (On(i, 1) <=> On(x, 1)) /\ (On(i, 2) <=> On(x, 2)) /\ (On(i, 4) <=> On(x, 4))
        /\ (On(i, 8) <=> On(x, 8)) /\ (On(i, 16) <=> On(x, 16)) /\ (On(i, 32) <=> On(x, 32))
        /\ (On(i, 64) <=> On(x, 64)) /\ (On(i, 128) <=> On(x, 128))
    BY <1>4, SMT
  <2>2. /\ ~On(i, 256) /\ ~On(i, 512) /\ ~On(i, 1024) /\ ~On(i, 2048)
        /\ ~On(i, 4096) /\ ~On(i, 8192) /\ ~On(i, 16384) /\ ~On(i, 32768)
        /\ ~On(h, 256) /\ ~On(h, 512) /\ ~On(h, 1024) /\ ~On(h, 2048)
        /\ ~On(h, 4096) /\ ~On(h, 8192) /\ ~On(h, 16384) /\ ~On(h, 32768)
    BY <1>5, SMT DEF Weights
  <2>3. /\ (On(h, 1) <=> On(x, 256)) /\ (On(h, 2) <=> On(x, 512)) /\ (On(h, 4) <=> On(x, 1024))
        /\ (On(h, 8) <=> On(x, 2048)) /\ (On(h, 16) <=> On(x, 4096)) /\ (On(h, 32) <=> On(x, 8192))
        /\ (On(h, 64) <=> On(x, 16384)) /\ (On(h, 128) <=> On(x, 32768))
    <3>1. \A w \in {1, 2, 4, 8, 16, 32, 64, 128} : On(h, w) <=> On(x, 256 * w)
      <4>1. ASSUME NEW w \in {1, 2, 4, 8, 16, 32, 64, 128} PROVE On(h, w) <=> On(x, 256 * w)
        <5>1. w \in Weights /\ w < 256 /\ 256 * w \in Weights /\ 256 * w >= 256
          BY <4>1, SMT DEF Weights
        <5>2. QED
          BY <5>1, <1>1, <1>5, <1>7
      <4>2. QED
        BY <4>1
    <3>2. /\ 256 * 1 = 256 /\ 256 * 2 = 512 /\ 256 * 4 = 1024 /\ 256 * 8 = 2048
          /\ 256 * 16 = 4096 /\ 256 * 32 = 8192 /\ 256 * 64 = 16384 /\ 256 * 128 = 32768
      BY SMT
    <3>3. On(h, 1) <=> On(x, 256)
      BY <3>1, <3>2, SMT
    <3>4. On(h, 2) <=> On(x, 512)
      BY <3>1, <3>2, SMT
    <3>5. On(h, 4) <=> On(x, 1024)
      BY <3>1, <3>2, SMT
    <3>6. On(h, 8) <=> On(x, 2048)
      BY <3>1, <3>2, SMT
    <3>7. On(h, 16) <=> On(x, 4096)
      BY <3>1, <3>2, SMT
    <3>8. On(h, 32) <=> On(x, 8192)
      BY <3>1, <3>2, SMT
    <3>9. On(h, 64) <=> On(x, 16384)
      BY <3>1, <3>2, SMT
    <3>10. On(h, 128) <=> On(x, 32768)
      BY <3>1, <3>2, SMT
    <3>11. QED
      BY <3>3, <3>4, <3>5, <3>6, <3>7, <3>8, <3>9, <3>10, SMT
  <2>4. /\ (On(u, 1) <=> Differ(On(h, 1), On(t, 1))) /\ (On(u, 2) <=> Differ(On(h, 2), On(t, 2)))
        /\ (On(u, 4) <=> Differ(On(h, 4), On(t, 4))) /\ (On(u, 8) <=> Differ(On(h, 8), On(t, 8)))
        /\ (On(u, 16) <=> Differ(On(h, 16), On(t, 16))) /\ (On(u, 32) <=> Differ(On(h, 32), On(t, 32)))
        /\ (On(u, 64) <=> Differ(On(h, 64), On(t, 64))) /\ (On(u, 128) <=> Differ(On(h, 128), On(t, 128)))
        /\ (On(u, 256) <=> Differ(On(h, 256), On(t, 256))) /\ (On(u, 512) <=> Differ(On(h, 512), On(t, 512)))
        /\ (On(u, 1024) <=> Differ(On(h, 1024), On(t, 1024))) /\ (On(u, 2048) <=> Differ(On(h, 2048), On(t, 2048)))
        /\ (On(u, 4096) <=> Differ(On(h, 4096), On(t, 4096))) /\ (On(u, 8192) <=> Differ(On(h, 8192), On(t, 8192)))
        /\ (On(u, 16384) <=> Differ(On(h, 16384), On(t, 16384))) /\ (On(u, 32768) <=> Differ(On(h, 32768), On(t, 32768)))
    BY <1>8, SMT DEF Weights, Differ
  <2>5. QED
    BY <1>6, <2>1, <2>2, <2>3, <2>4, SMTT(30) DEF EightShifts, Differ
<1>10. IsWord(Crc!ByBits(c, b)) /\ EightShifts(x, Crc!ByBits(c, b))
  BY EightTimes DEF x
<1> DEFINE e == Crc!ByBits(c, b)
<1> HIDE DEF e
<1>11. \A w \in Weights : On(u, w) <=> On(e, w)
  <2>1. EightShifts(x, u) /\ EightShifts(x, e)
    BY <1>9, <1>10 DEF e
  <2>2. QED
    BY <2>1, SMT DEF EightShifts, Differ, Weights
<1>12. u = e
  BY <1>8, <1>10, <1>11, SameBits DEF e
<1>13. u = Crc!Update(c, b)
  BY DEF u, h, t, i, y, Crc!Update
<1>14. QED
  BY <1>8, <1>12, <1>13 DEF e

\* One step tells two sums apart, and two bytes
LEMMA UpdateTells ==
    ASSUME NEW c, NEW d, NEW b, NEW e, IsWord(c), IsWord(d), IsWord(b), IsWord(e),
           b < 256, e < 256, c = d \/ b = e, Crc!Update(c, b) = Crc!Update(d, e)
    PROVE  c = d /\ b = e
<1>1. Crc!ByBits(c, b) = Crc!ByBits(d, e)
  BY UpdateIsByBits
<1>2. Crc!Xor(c, b) = Crc!Xor(d, e)
  BY <1>1, ByBitsInjective
<1>3. QED
  BY <1>2, XorInjective

\* A damaged byte is another byte
LEMMA DamagedByte ==
    ASSUME NEW b, NEW d, IsWord(b), IsWord(d), b < 256, d < 256, d # 0
    PROVE  IsWord(Crc!Xor(b, d)) /\ Crc!Xor(b, d) < 256 /\ Crc!Xor(b, d) # b
<1> DEFINE y == Crc!Xor(b, d)
           l == y % 256
<1>1. IsWord(y) /\ \A w \in Weights : On(y, w) <=> ~(On(b, w) <=> On(d, w))
  BY OnXor
<1> HIDE DEF y
<1>2. y \in Nat /\ b \in Nat /\ d \in Nat
  BY <1>1 DEF IsWord
<1>3. l \in Nat /\ l < 256 /\ IsWord(l)
  BY <1>2, SMT DEF IsWord
<1>4. \A w \in {1, 2, 4, 8, 16, 32, 64, 128} : On(l, w) <=> On(y, w)
  BY <1>2, LowBytes
<1> HIDE DEF l
<1>5. \A w \in Weights : w \in Nat
  BY SMT DEF Weights
<1>6. \A w \in Weights : On(l, w) <=> On(y, w)
  <2>1. ASSUME NEW w \in Weights, w >= 256 PROVE On(l, w) <=> On(y, w)
    <3>1. ~On(l, w) /\ ~On(b, w) /\ ~On(d, w)
      BY <1>2, <1>3, <1>5, <2>1, NoHighBits, SMT
    <3>2. QED
      BY <1>1, <3>1
  <2>2. \A w \in Weights : w >= 256 \/ w \in {1, 2, 4, 8, 16, 32, 64, 128}
    BY SMT DEF Weights
  <2>3. QED
    BY <1>4, <2>1, <2>2
<1>7. l = y
  BY <1>1, <1>3, <1>6, SameBits
<1>8. y # b
  <2>1. SUFFICES ASSUME y = b PROVE FALSE
    OBVIOUS
  <2>2. \A w \in Weights : ~On(d, w)
    BY <1>1, <2>1
  <2>3. 0 \in Nat /\ IsWord(0)
    BY SMT DEF IsWord
  <2>4. \A w \in Weights : ~On(0, w)
    <3>1. \A w \in Weights : 0 < w
      BY SMT DEF Weights
    <3>2. QED
      BY <1>5, <2>3, <3>1, NoHighBits
  <2>5. d = 0
    BY <2>2, <2>3, <2>4, SameBits
  <2>6. QED
    BY <2>5
<1>9. QED
  BY <1>1, <1>3, <1>7, <1>8 DEF y

\* The function that Reference defines by recursion
SumOver(m, n, f) ==
    f = [k \in 0..n |-> IF k = 0 THEN Crc!Initial ELSE Crc!ByBits(f[k - 1], m[k])]

LEMMA SumExists == ASSUME NEW m, NEW n \in Nat PROVE \E f : SumOver(m, n, f)
<1> DEFINE S == {k \in Nat : \E f : SumOver(m, k, f)}
<1>1. 0 \in S
  <2> DEFINE f == [k \in 0..0 |-> Crc!Initial]
  <2>1. SumOver(m, 0, f)
    BY DEF SumOver
  <2>2. QED
    BY <2>1
<1>2. ASSUME NEW k \in Nat, k \in S PROVE k + 1 \in S
  <2>1. PICK f : SumOver(m, k, f)
    BY <1>2
  <2> DEFINE g == [j \in 0..(k + 1) |-> IF j = k + 1 THEN Crc!ByBits(f[k], m[k + 1]) ELSE f[j]]
  <2>2. ASSUME NEW j \in 0..(k + 1)
        PROVE  g[j] = IF j = 0 THEN Crc!Initial ELSE Crc!ByBits(g[j - 1], m[j])
    <3>1. CASE j = k + 1
      <4>1. k \in 0..(k + 1) /\ k # k + 1 /\ j - 1 = k /\ j # 0
        BY <3>1
      <4>2. g[j] = Crc!ByBits(f[k], m[k + 1]) /\ g[k] = f[k]
        BY <3>1, <4>1
      <4> HIDE DEF g
      <4>3. QED
        BY <3>1, <4>1, <4>2
    <3>2. CASE j # k + 1
      <4>1. j \in 0..k /\ g[j] = f[j]
        BY <3>2
      <4>2. f[j] = IF j = 0 THEN Crc!Initial ELSE Crc!ByBits(f[j - 1], m[j])
        BY <2>1, <4>1 DEF SumOver
      <4>3. j # 0 => j - 1 \in 0..(k + 1) /\ j - 1 # k + 1
        BY <4>1
      <4>4. j # 0 => g[j - 1] = f[j - 1]
        BY <4>3
      <4> HIDE DEF g
      <4>5. QED
        BY <4>1, <4>2, <4>4
    <3>3. QED
      BY <3>1, <3>2
  <2>3. SumOver(m, k + 1, g)
    <3>1. g = [j \in 0..(k + 1) |-> g[j]]
      OBVIOUS
    <3> HIDE DEF g
    <3>2. QED
      BY <2>2, <3>1 DEF SumOver
  <2> HIDE DEF g
  <2>4. QED
    BY <2>3
<1> HIDE DEF S
<1>3. n \in S
  BY <1>1, <1>2, NatSets
<1>4. QED
  BY <1>3 DEF S

LEMMA ReferenceIs ==
    ASSUME NEW m, Len(m) \in Nat
    PROVE  \E f : SumOver(m, Len(m), f) /\ Crc!Reference(m) = f[Len(m)]
<1> DEFINE f == CHOOSE f : SumOver(m, Len(m), f)
<1>1. SumOver(m, Len(m), f)
  BY SumExists
<1>2. Crc!Reference(m) = f[Len(m)]
  BY DEF Crc!Reference, SumOver
<1> HIDE DEF f
<1>3. QED
  BY <1>1, <1>2

\* The reference of a longer message goes on from that of the shorter one
LEMMA ReferenceGrows ==
    ASSUME NEW m \in Seq(Crc!Byte), NEW b \in Crc!Byte
    PROVE  Crc!Reference(Append(m, b)) = Crc!ByBits(Crc!Reference(m), b)
<1> DEFINE a == Append(m, b)
           l == Len(m)
<1>1. l \in Nat /\ Len(a) = l + 1 /\ a[l + 1] = b /\ \A k \in 1..l : a[k] = m[k]
  BY AppendProperties, LenProperties
<1>2. PICK f : SumOver(m, l, f) /\ Crc!Reference(m) = f[l]
  BY <1>1, ReferenceIs
<1> HIDE DEF a
<1>3. PICK g : SumOver(a, l + 1, g) /\ Crc!Reference(a) = g[l + 1]
  <2>1. Len(a) \in Nat
    BY <1>1
  <2>2. PICK g : SumOver(a, Len(a), g) /\ Crc!Reference(a) = g[Len(a)]
    BY <2>1, ReferenceIs
  <2>3. QED
    BY <1>1, <2>2
<1> HIDE DEF l
<1> DEFINE S == {k \in Nat : k <= l => f[k] = g[k]}
<1>4. 0 \in S
  <2>1. 0 \in 0..l /\ 0 \in 0..(l + 1)
    BY <1>1
  <2>2. f[0] = Crc!Initial /\ g[0] = Crc!Initial
    BY <1>2, <1>3, <2>1 DEF SumOver
  <2>3. QED
    BY <2>2
<1>5. ASSUME NEW k \in Nat, k \in S PROVE k + 1 \in S
  <2>1. CASE k + 1 <= l
    <3>1. k + 1 \in 0..l /\ k + 1 \in 0..(l + 1) /\ k + 1 \in 1..l /\ k + 1 # 0 /\ (k + 1) - 1 = k
      BY <1>1, <2>1
    <3>2. f[k + 1] = Crc!ByBits(f[k], m[k + 1])
      BY <1>2, <3>1 DEF SumOver
    <3>3. g[k + 1] = Crc!ByBits(g[k], a[k + 1])
      BY <1>3, <3>1 DEF SumOver
    <3>4. f[k] = g[k]
      BY <1>1, <1>5, <2>1
    <3>5. QED
      BY <1>1, <3>1, <3>2, <3>3, <3>4
  <2>2. CASE ~(k + 1 <= l)
    BY <2>2
  <2>3. QED
    BY <2>1, <2>2
<1> HIDE DEF S
<1>6. l \in S
  BY <1>1, <1>4, <1>5, NatSets
<1>7. f[l] = g[l]
  BY <1>1, <1>6 DEF S
<1>8. g[l + 1] = Crc!ByBits(g[l], b)
  <2>1. l + 1 \in 0..(l + 1) /\ l + 1 # 0 /\ (l + 1) - 1 = l
    BY <1>1
  <2>2. QED
    BY <1>1, <1>3, <2>1 DEF SumOver
<1>9. QED
  BY <1>2, <1>3, <1>7, <1>8 DEF a

\* What has come in undamaged has the sum it was sent with, what has not another one
CrcInv ==
    /\ Crc!TypeOK /\ Crc!TableIsPolynomial
    /\ IF damaged THEN other # crc ELSE other = crc

LEMMA InitialIsWord == IsWord(Crc!Initial)
<1>1. 2^16 = 65536
  BY Powers
<1>2. QED
  BY <1>1, SMT DEF IsWord, Crc!Initial

LEMMA CrcInit == ASSUME Crc!Init PROVE CrcInv
<1>1. msg = <<>> /\ crc = Crc!Initial /\ other = Crc!Initial /\ ~damaged /\ damaged = FALSE
  BY DEF Crc!Init
<1>2. Crc!TypeOK
  <2>1. <<>> \in Seq(Crc!Byte)
    OBVIOUS
  <2>2. Crc!Initial \in Crc!Word
    BY InitialIsWord, Words
  <2>3. QED
    BY <1>1, <2>1, <2>2, Zenon DEF Crc!TypeOK
<1>3. Crc!Reference(<<>>) = Crc!Initial
  <2>1. Len(<<>>) = 0 /\ Len(<<>>) \in Nat /\ 0 \in 0..0
    OBVIOUS
  <2>2. PICK f : SumOver(<<>>, Len(<<>>), f) /\ Crc!Reference(<<>>) = f[Len(<<>>)]
    BY <2>1, ReferenceIs
  <2>3. QED
    BY <2>1, <2>2 DEF SumOver
<1>4. QED
  BY <1>1, <1>2, <1>3 DEF CrcInv, Crc!TableIsPolynomial

LEMMA CrcStep == ASSUME CrcInv, Crc!Next \/ UNCHANGED crcVars PROVE CrcInv'
<1>1. CASE UNCHANGED crcVars
  BY <1>1 DEF crcVars, CrcInv, Crc!TypeOK, Crc!TableIsPolynomial
<1>2. CASE Crc!Next
  <2>1. PICK b \in IF msg = <<>> THEN FirstBytes ELSE RestBytes :
          /\ msg' = Append(msg, b)
          /\ crc' = Crc!Update(crc, b)
          /\ \/ other' = Crc!Update(other, b) /\ UNCHANGED damaged
             \/ /\ ~damaged /\ damaged' = TRUE
                /\ \E d \in Damages : other' = Crc!Update(other, Crc!Xor(b, d))
    BY <1>2 DEF Crc!Next, Crc!Feed
  <2>2. b \in Crc!Byte /\ b \in Nat /\ b < 256 /\ IsWord(b)
    <3>1. b \in 0..255
      BY <2>1, CrcAssumption
    <3>2. QED
      BY <3>1, SMT DEF Crc!Byte, IsWord
  <2>3. msg \in Seq(Crc!Byte) /\ IsWord(crc) /\ IsWord(other) /\ damaged \in BOOLEAN
    BY Words DEF CrcInv, Crc!TypeOK
  <2>4. IsWord(crc') /\ crc' = Crc!ByBits(crc, b)
    BY <2>1, <2>2, <2>3, UpdateIsByBits
  <2>5. Crc!TableIsPolynomial'
    <3>1. crc = Crc!Reference(msg)
      BY DEF CrcInv, Crc!TableIsPolynomial
    <3>2. crc' = Crc!Reference(msg')
      BY <2>1, <2>2, <2>3, <2>4, <3>1, ReferenceGrows
    <3>3. QED
      BY <3>2 DEF Crc!TableIsPolynomial
  <2>6. /\ IsWord(other') /\ damaged' \in BOOLEAN
        /\ IF damaged' THEN other' # crc' ELSE other' = crc'
    <3>1. CASE other' = Crc!Update(other, b) /\ UNCHANGED damaged
      <4>1. IsWord(other')
        BY <2>2, <2>3, <3>1, UpdateIsByBits
      <4>2. other' = crc' => other = crc
        BY <2>1, <2>2, <2>3, <3>1, UpdateTells
      <4>3. other = crc => other' = crc'
        BY <2>1, <3>1
      <4>4. QED
        BY <2>3, <3>1, <4>1, <4>2, <4>3 DEF CrcInv
    <3>2. ASSUME ~damaged, damaged' = TRUE, NEW d \in Damages,
                 other' = Crc!Update(other, Crc!Xor(b, d))
          PROVE  IsWord(other') /\ other' # crc'
      <4>1. IsWord(d) /\ d < 256 /\ d # 0
        <5>1. d \in 1..255
          BY CrcAssumption
        <5>2. QED
          BY <5>1, SMT DEF IsWord
      <4>2. IsWord(Crc!Xor(b, d)) /\ Crc!Xor(b, d) < 256 /\ Crc!Xor(b, d) # b
        BY <2>2, <4>1, DamagedByte
      <4>3. other = crc
        BY <3>2 DEF CrcInv
      <4> DEFINE e == Crc!Xor(b, d)
      <4> HIDE DEF e
      <4>4. IsWord(e) /\ e < 256 /\ e # b /\ other' = Crc!Update(crc, e)
        BY <3>2, <4>2, <4>3 DEF e
      <4>5. IsWord(other') /\ Crc!Update(crc, e) # Crc!Update(crc, b)
        BY <2>2, <2>3, <4>4, UpdateIsByBits, UpdateTells
      <4>6. QED
        BY <2>1, <4>4, <4>5
    <3>3. QED
      BY <2>1, <3>1, <3>2
  <2>7. Crc!TypeOK'
    <3>1. msg' \in Seq(Crc!Byte)
      BY <2>1, <2>2, <2>3
    <3>2. crc' \in Crc!Word /\ other' \in Crc!Word
      BY <2>4, <2>6, Words
    <3>3. QED
      BY <2>6, <3>1, <3>2 DEF Crc!TypeOK
  <2>8. QED
    BY <2>5, <2>6, <2>7 DEF CrcInv
<1>3. QED
  BY <1>1, <1>2

LEMMA StepIsCrc == [EENext]_EEVars => Crc!Next \/ UNCHANGED crcVars
BY DEF EENext, EEVars

\* Every entry of CRC16's table, and the loop that uses it, computes the CRC of the
\* polynomial for every message, and a message of any length with one damaged byte,
\* whatever the byte and the damage, does not get the sum it was sent with.
THEOREM DamageIsSeen == EESpec => []DamageSeen
<1>1. EEInit => CrcInv
  BY CrcInit DEF EEInit
<1>2. CrcInv /\ [EENext]_EEVars => CrcInv'
  BY CrcStep, StepIsCrc
<1>3. CrcInv => DamageSeen
  BY DEF CrcInv, DamageSeen, Crc!DamageDetected
<1>4. QED
  BY <1>1, <1>2, <1>3, PTL DEF EESpec

=============================================================================
