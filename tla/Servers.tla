-------------------------------- MODULE Servers --------------------------------
(***************************************************************************)
(* The two programs that a client commands while threads of theirs move    *)
(* the robot, the show plugins and the measuring server: the initial state *)
(* chooses the program, and for the measuring server whether it has one    *)
(* client or several.                                                      *)
(***************************************************************************)
EXTENDS ShowPlugin

CONSTANTS Alone, Together   \* two setups of the measuring server: its clients and the bounds

Setup(s) == IsFiniteSet(s.clients) /\ s.commands \in Nat /\ s.unread \in Nat

ASSUME SetupAssumption == Setup(Alone) /\ Cardinality(Alone.clients) = 1 /\ Setup(Together)

VARIABLES
    program,                                                 \* the program in hand
    link, inbox, sent, backlog, edge, at, batch, i, cur, fd, \* measuring server
    thr, state, feedback, points, m, num, visited, runs, told

Scan(s) == INSTANCE BscanServer WITH
    Clients <- s.clients, MaxCommands <- s.commands, MaxUnread <- s.unread, pc <- at

scanVars == <<link, inbox, sent, backlog, edge, at, batch, i, cur, fd,
              thr, state, feedback, points, m, num, visited, runs, told>>

ServersInit ==
    /\ program \in {"show", "alone", "together"}
    /\ Init /\ (program # "show" => power)
    /\ IF program = "together" THEN Scan(Together)!Init ELSE Scan(Alone)!Init

ServersNext ==
    /\ UNCHANGED program
    /\ \/ program = "show" /\ Next /\ UNCHANGED scanVars
       \/ program = "alone" /\ Scan(Alone)!Next /\ UNCHANGED vars
       \/ program = "together" /\ Scan(Together)!Next /\ UNCHANGED vars

\* The fairness of each program holds of the program in hand
ServersSpec ==
    /\ ServersInit /\ [][ServersNext]_<<program, vars, scanVars>>
    /\ WF_vars(program = "show" /\ (StopShow \/ ShowStopped \/ Recover \/ Act))
    /\ \A t \in Shows : WF_vars(program = "show" /\ Show(t))
    /\ WF_scanVars(program = "alone" /\ Scan(Alone)!Epoll)
    /\ WF_scanVars(program = "alone" /\ Scan(Alone)!Measure)
    /\ \A k \in Scan(Alone)!Slots : WF_scanVars(program = "alone" /\ Scan(Alone)!Feedback(k))
    /\ WF_scanVars(program = "together" /\ Scan(Together)!Epoll)
    /\ WF_scanVars(program = "together" /\ Scan(Together)!Measure)
    /\ \A k \in Scan(Together)!Slots :
          WF_scanVars(program = "together" /\ Scan(Together)!Feedback(k))

-----------------------------------------------------------------------------
(* Properties *)

\* Never two measurements drive the robot, whatever several clients do, and each visits all
\* its points; with one client, _stop stands only when none runs.
MeasurementsWhole ==
    /\ program = "alone" => /\ Scan(Alone)!TypeOK /\ Scan(Alone)!OneMeasurement
                            /\ Scan(Alone)!VisitsEach /\ Scan(Alone)!StopMeansIdle
    /\ program = "together" => /\ Scan(Together)!TypeOK /\ Scan(Together)!OneMeasurement
                               /\ Scan(Together)!VisitsEach

\* Nothing holds a server up for good: a stopped show ends, a client that is alone is
\* served and told of refusals, and clients that left are disconnected.
ServersServe ==
    /\ StopIsObeyed
    /\ program = "alone" => Scan(Alone)!RefusalReported /\ Scan(Alone)!CommandsServed
    /\ program = "together" => Scan(Together)!LeavingFreesServer

=============================================================================
