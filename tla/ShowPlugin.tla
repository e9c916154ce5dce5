----------------------------- MODULE ShowPlugin ------------------------------
(***************************************************************************)
(* The show plugins (src/src/SUPCONPlugin.cpp, and JSMovePlugin.cpp, whose *)
(* handler is the same with joystick buttons for commands).  A handler     *)
(* thread takes commands one at a time; "move" spawns a detached thread    *)
(* that repeats the show until isstop.  Every command that moves the robot *)
(* first stops the show: DeviceStop, isstop, wait for isshow to fall,      *)
(* DeviceStopRecover.                                                      *)
(*                                                                         *)
(* The robot is external: DeviceStop aborts motions and refuses new ones   *)
(* until DeviceStopRecover, without power every motion is refused.         *)
(***************************************************************************)
EXTENDS Integers, Sequences, FiniteSets

CONSTANT MaxCommands     \* bound: commands taken

ASSUME CommandsAssumption == MaxCommands \in Nat

VARIABLES
    taken,               \* commands taken so far
    pc, cmd,             \* the handler and its command
    show,                \* the show threads, one per "move"
    isshow, isstop,      \* the two atomic flags
    stopped, power,      \* forced stop and power of the device (external)
    ok,                  \* robot_ok (external)
    settled,             \* the latest stop found no show, or one that runs (history)
    asked,               \* show threads such a stop was asked of (history)
    lateMove             \* one of them has moved the robot since (history)

flagVars == <<isshow, isstop>>
deviceVars == <<stopped, power>>
histVars == <<settled, asked, lateMove>>
vars == <<taken, pc, cmd, show, flagVars, deviceVars, ok, histVars>>

Commands == {"power", "poweroff", "home", "init", "good", "move"}
Shows == 1..MaxCommands

\* The parts of a pass of the show, in order; each is motions the thread waits for
Parts == <<"head", "wave", "thumb", "invite">>
InPass == {Parts[p] : p \in DOMAIN Parts}
Flagged == InPass \cup {"opening", "check", "closing"}   \* isshow was set by this thread

Running(t) == show[t] \in Flagged

Alive == {t \in Shows : show[t] \notin {"none", "done"}}

\* No show thread is between its creation and its two flags, and isshow tells the truth
Settled == \/ Alive = {}
           \/ isshow /\ \E t \in Shows : Alive = {t} /\ Running(t)

TypeOK ==
    /\ taken \in 0..MaxCommands
    /\ pc \in {"idle", "stop", "wait_show", "recover", "act"} /\ cmd \in Commands
    /\ show \in [Shows -> Flagged \cup {"none", "spawned", "reset", "done"}]
    /\ isshow \in BOOLEAN /\ isstop \in BOOLEAN
    /\ stopped \in BOOLEAN /\ power \in BOOLEAN /\ ok \in BOOLEAN
    /\ settled \in BOOLEAN /\ asked \subseteq Shows /\ lateMove \in BOOLEAN

Init ==
    /\ taken = 0 /\ pc = "idle" /\ cmd = "power"
    /\ show = [t \in Shows |-> "none"]
    /\ isshow = FALSE /\ isstop = FALSE
    /\ stopped = FALSE /\ power \in BOOLEAN /\ ok = TRUE
    /\ settled = TRUE /\ asked = {} /\ lateMove = FALSE

-----------------------------------------------------------------------------
(* The handler. *)

\* read the next command; power commands are done at once
Take(c) ==
    /\ pc = "idle" /\ taken < MaxCommands
    /\ taken' = taken + 1 /\ cmd' = c
    /\ IF c \in {"power", "poweroff"}
       THEN power' = (c = "power") /\ UNCHANGED pc
       ELSE pc' = "stop" /\ UNCHANGED power
    /\ UNCHANGED <<show, flagVars, stopped, ok, histVars>>

\* Mutant: the forced stop is lifted before the wait
StopShowRecovers ==
    /\ pc = "stop" /\ pc' = "wait_show"
    /\ stopped' = FALSE /\ isstop' = TRUE
    /\ settled' = Settled
    /\ asked' = IF Settled THEN asked \cup Alive ELSE asked
    /\ UNCHANGED <<taken, cmd, show, isshow, power, ok, lateMove>>

\* DeviceStop; isstop.store(true)
StopShow ==
    /\ pc = "stop" /\ pc' = "wait_show"
    /\ stopped' = TRUE /\ isstop' = TRUE
    /\ settled' = Settled
    /\ asked' = IF Settled THEN asked \cup Alive ELSE asked
    /\ UNCHANGED <<taken, cmd, show, isshow, power, ok, lateMove>>

\* while (isshow.load())
ShowStopped ==
    /\ pc = "wait_show" /\ ~isshow /\ pc' = "recover"
    /\ UNCHANGED <<taken, cmd, show, flagVars, deviceVars, ok, histVars>>

\* DeviceStopRecover, and power if it is off
Recover ==
    /\ pc = "recover" /\ pc' = "act"
    /\ stopped' = FALSE /\ power' = TRUE
    /\ UNCHANGED <<taken, cmd, show, flagVars, ok, histVars>>

\* The motions of home, init and good, or the new show thread
Act ==
    /\ pc = "act" /\ pc' = "idle"
    /\ show' = IF cmd = "move" THEN [show EXCEPT ![taken] = "spawned"] ELSE show
    /\ UNCHANGED <<taken, cmd, flagVars, deviceVars, ok, histVars>>

Handler == (\E c \in Commands : Take(c)) \/ StopShow \/ ShowStopped \/ Recover \/ Act

-----------------------------------------------------------------------------
(* A show thread. *)

Goto(t, from, to) == show[t] = from /\ show' = [show EXCEPT ![t] = to]

ResetStop(t) ==
    /\ Goto(t, "spawned", "reset")
    /\ isstop' = FALSE
    /\ UNCHANGED <<taken, pc, cmd, isshow, deviceVars, ok, histVars>>

RaiseShow(t) ==
    /\ Goto(t, "reset", "opening")
    /\ isshow' = TRUE
    /\ UNCHANGED <<taken, pc, cmd, isstop, deviceVars, ok, histVars>>

\* Motions are accepted, or refused at once without power or under a forced stop
Moves(t) == lateMove' = (lateMove \/ (t \in asked /\ power /\ ~stopped))

Opening(t) ==
    /\ Goto(t, "opening", "check")
    /\ Moves(t)
    /\ UNCHANGED <<taken, pc, cmd, flagVars, deviceVars, ok, settled, asked>>

\* while (robot_ok() && !isstop.load())
CheckStop(t) ==
    /\ Goto(t, "check", IF ok /\ ~isstop THEN Parts[1] ELSE "closing")
    /\ UNCHANGED <<taken, pc, cmd, flagVars, deviceVars, ok, histVars>>

Part(t, p) ==
    /\ Goto(t, Parts[p], IF p < Len(Parts) THEN Parts[p + 1] ELSE "check")
    /\ Moves(t)
    /\ UNCHANGED <<taken, pc, cmd, flagVars, deviceVars, ok, settled, asked>>

LowerShow(t) ==
    /\ Goto(t, "closing", "done")
    /\ isshow' = FALSE
    /\ UNCHANGED <<taken, pc, cmd, isstop, deviceVars, ok, histVars>>

Show(t) == \/ ResetStop(t) \/ RaiseShow(t) \/ Opening(t) \/ CheckStop(t) \/ LowerShow(t)
           \/ \E p \in DOMAIN Parts : Part(t, p)

Fault ==
    /\ ok /\ ok' = FALSE
    /\ UNCHANGED <<taken, pc, cmd, show, flagVars, deviceVars, histVars>>

Next == Handler \/ Fault \/ \E t \in Shows : Show(t)

\* The handler goes on with a command it has taken, the show threads are scheduled and
\* their motions end; no further command has to come
Fair ==
    /\ WF_vars(StopShow \/ ShowStopped \/ Recover \/ Act)
    /\ \A t \in Shows : WF_vars(Show(t))

Spec == Init /\ [][Next]_vars /\ Fair

-----------------------------------------------------------------------------
(* Properties *)

\* The handler moves the robot, or starts a show, only when no show is running, provided
\* its stop did not overtake a show thread that was still setting its flags.
HandlerAlone == pc = "act" /\ settled => \A t \in Shows : ~Running(t)

\* A show that was asked to stop does not move the robot again: DeviceStop refuses what
\* is left of its pass, and it is lifted only after the show has ended.
NoMoveAfterStop == ~lateMove

\* A show yields to the command that stops it.
ShowsYield == HandlerAlone /\ NoMoveAfterStop

\* The handler is not held up for good: a running show that is asked to stop ends, with
\* or without power and faults, and the command is carried out.
StopIsObeyed == (pc = "wait_show" /\ settled) ~> (pc = "idle")

=============================================================================
