-------------------------------- MODULE Programs --------------------------------
(***************************************************************************)
(* The programs around the controller that share nothing but the robot:    *)
(* the initial state chooses the program a behaviour is about.  Remote     *)
(* control, the teach client, the claw game and the end effector server    *)
(* without a robot.                                                        *)
(***************************************************************************)
EXTENDS Teleop

CONSTANTS
    MaxLost,                      \* teach client: commands lost on their way
    MaxFetches,                   \* claw game
    Robots, Values, MaxMessages   \* end effector server

ASSUME BoundsAssumption == MaxLost \in Nat /\ MaxFetches \in Nat /\ MaxMessages \in Nat

VARIABLES
    part,                                                       \* the program in hand
    at, seconds, set_flag, buf, out_flag, fb, server, received, lost, failed,  \* teach client
    main, IsRunMoveOut, fetches, script, phase, alive, thread, DO, grip, travelling, \* claw game
    step, conflate, conflating, pipe, arrived, newest, joint, tool, due, reported, g_stop

Teach == INSTANCE TeachClient WITH pc <- at, count <- seconds
Claw  == INSTANCE Joystick WITH pc <- main
Test  == INSTANCE EndEffectorTest WITH pc <- step

teachVars == <<at, seconds, set_flag, buf, out_flag, fb, server, received, lost, failed>>
clawVars == <<main, IsRunMoveOut, fetches, script, phase, alive, thread, DO, grip, travelling>>
testVars == <<step, conflate, conflating, pipe, arrived, newest, joint, tool, due, reported,
              g_stop>>

ProgramsInit ==
    /\ part \in {"teleop", "teach", "claw", "test"}
    /\ Init /\ (part # "teleop" => program = "game")
    /\ Teach!Init /\ Claw!Init /\ Test!Init

ProgramsNext ==
    /\ UNCHANGED part
    /\ \/ part = "teleop" /\ Next /\ UNCHANGED <<teachVars, clawVars, testVars>>
       \/ part = "teach" /\ Teach!Next /\ UNCHANGED <<vars, clawVars, testVars>>
       \/ part = "claw" /\ Claw!Next /\ UNCHANGED <<vars, teachVars, testVars>>
       \/ part = "test" /\ Test!Next /\ UNCHANGED <<vars, teachVars, clawVars>>

\* The fairness of each program holds of the program in hand
ProgramsSpec ==
    /\ ProgramsInit /\ [][ProgramsNext]_<<part, vars, teachVars, clawVars, testVars>>
    /\ WF_vars(part = "teleop" /\ Step)
    /\ WF_teachVars(part = "teach" /\ Teach!Main)
    /\ WF_teachVars(part = "teach" /\ Teach!CheckOut)
    /\ WF_teachVars(part = "teach" /\ Teach!Recv)
    /\ WF_clawVars(part = "claw" /\ Claw!MoveOut)
    /\ WF_testVars(part = "test" /\ Test!Main)
    /\ WF_testVars(part = "test" /\ Test!PeriodEnds)

-----------------------------------------------------------------------------
(* Properties *)

\* The newest command counts: remote control does what its latest frame asked for, stands
\* still between two directions and on a silent link, and moves under its constraint; the
\* test server obeys the newest message in full, whatever it replaced in the mailbox.
NewestCounts ==
    /\ TypeOK /\ StoppedBetween /\ ObeysLast /\ ConstrainedMotion /\ SilenceStops
    /\ Test!TypeOK /\ Test!OnlyNewest /\ Test!NewestObeyed

\* A script of steps is carried out whole and leaves things safe: the teach commands
\* arrive in order and what they started is ended; the claw is open between two fetches,
\* which the joystick does not disturb.
ScriptsKept ==
    /\ Teach!TypeOK /\ Teach!ScriptKept /\ Teach!LeftSafe /\ Teach!ClosedUnread
    /\ Claw!TypeOK /\ Claw!FetchBlocks /\ Claw!OutputsExclusive /\ Claw!OpenBetween

\* Every program comes to its end or back to its user: a lost partner, a finished script, a
\* fetch, a signal; and the state that is published catches up.
ProgramsEnd ==
    /\ LostLinkEnds
    /\ part = "teach" => Teach!ClientEnds
    /\ Claw!FetchReturns
    /\ Test!SignalEnds
    /\ part = "test" => Test!ReportsCatchUp

=============================================================================
