----------------------------- MODULE TeachClient ------------------------------
(***************************************************************************)
(* TeachComm (src/src/TeachComm.cpp): the main thread sends one scripted   *)
(* command after another on one connection, a feedback thread reads the    *)
(* other connection; at the end the main thread joins it.                  *)
(*                                                                         *)
(* A command is its "function"; what the feedback says is only printed.    *)
(* The controller is external.                                             *)
(***************************************************************************)
EXTENDS Integers, Sequences, FiniteSets

CONSTANT MaxLost    \* bound: commands whose send a signal interrupts

\* The value of `count` at which each command is sent
Schedule == <<
    <<0, "set_robot_index">>, <<5, "set_robot_teach_coordinate">>, <<10, "get_robot_num">>,
    <<15, "set_robot_teach_velocity">>, <<20, "robot_teach_enable">>,
    <<22, "robot_teach_move">>, <<25, "robot_teach_stop">>, <<27, "robot_teach_disenable">>,
    <<30, "get_robot_data_path">>, <<32, "start_robot_c_project">>,
    <<34, "suspend_robot_project">>, <<37, "continue_robot_project">>,
    <<40, "close_robot_c_project">> >>
LastCount == 50
Functions == {Schedule[i][2] : i \in DOMAIN Schedule}

VARIABLES
    pc, count, set_flag, buf,   \* the main thread
    out_flag,
    fb,                         \* the feedback thread
    server,                     \* the controller's side of the feedback connection (external)
    received,                   \* commands the controller has received
    lost, failed                \* commands not sent; a send has failed for good (history)

mainVars == <<pc, count, set_flag, buf>>
vars == <<mainVars, out_flag, fb, server, received, lost, failed>>

TypeOK ==
    /\ pc \in {"loop", "send", "shutdown", "raise", "join", "close", "done"}
    /\ count \in 0..(LastCount + 1) /\ set_flag \in BOOLEAN
    /\ buf \in Functions \union {"none"} /\ out_flag \in BOOLEAN
    /\ fb \in {"check", "recv", "ended"} /\ server \in {"streams", "quiet", "closed"}
    /\ received \in Seq(Functions) /\ lost \subseteq Functions /\ failed \in BOOLEAN

\* Both connections are made, the thread is started
Init ==
    /\ pc = "loop" /\ count = 0 /\ set_flag = FALSE /\ buf = "none" /\ out_flag = FALSE
    /\ fb = "check" /\ server = "streams"
    /\ received = <<>> /\ lost = {} /\ failed = FALSE

-----------------------------------------------------------------------------
(* The main thread. *)

Due == {i \in DOMAIN Schedule : Schedule[i][1] = count}

\* A second of the script: a due command is put into the buffer
Second ==
    /\ pc = "loop"
    /\ IF Due = {} /\ count > LastCount
       THEN pc' = "shutdown" /\ UNCHANGED <<count, set_flag, buf>>
       ELSE /\ count' = count + 1
            /\ set_flag' = (set_flag \/ Due # {})
            /\ buf' = IF Due = {} THEN buf ELSE Schedule[CHOOSE i \in Due : TRUE][2]
            /\ pc' = IF set_flag' THEN "send" ELSE "loop"
    /\ UNCHANGED <<out_flag, fb, server, received, lost, failed>>

Send ==
    /\ pc = "send" /\ pc' = "loop"
    /\ set_flag' = FALSE
    /\ received' = Append(received, buf)
    /\ UNCHANGED <<count, buf, out_flag, fb, server, lost, failed>>

\* A signal: `continue`, the flag is down and the command is never sent
SendInterrupted ==
    /\ pc = "send" /\ pc' = "loop" /\ Cardinality(lost) < MaxLost
    /\ set_flag' = FALSE
    /\ lost' = lost \union {buf}
    /\ UNCHANGED <<count, buf, out_flag, fb, server, received, failed>>

SendFails ==
    /\ pc = "send" /\ pc' = "shutdown"
    /\ set_flag' = FALSE /\ failed' = TRUE
    /\ UNCHANGED <<count, buf, out_flag, fb, server, received, lost>>

\* shutdown and close of the command connection
Shutdown ==
    /\ pc = "shutdown" /\ pc' = "raise"
    /\ UNCHANGED <<count, set_flag, buf, out_flag, fb, server, received, lost, failed>>

Raise ==
    /\ pc = "raise" /\ pc' = "join"
    /\ out_flag' = TRUE
    /\ UNCHANGED <<count, set_flag, buf, fb, server, received, lost, failed>>

Join ==
    /\ pc = "join" /\ fb = "ended" /\ pc' = "close"
    /\ UNCHANGED <<count, set_flag, buf, out_flag, fb, server, received, lost, failed>>

Close ==
    /\ pc = "close" /\ pc' = "done"
    /\ UNCHANGED <<count, set_flag, buf, out_flag, fb, server, received, lost, failed>>

Main == Second \/ Send \/ SendFails \/ Shutdown \/ Raise \/ Join \/ Close

-----------------------------------------------------------------------------
(* The feedback thread and the controller. *)

CheckOut ==
    /\ fb = "check"
    /\ fb' = IF out_flag THEN "ended" ELSE "recv"
    /\ UNCHANGED <<mainVars, out_flag, server, received, lost, failed>>

\* Feedback, or the end of the connection; a quiet controller leaves recv waiting
Recv ==
    /\ fb = "recv"
    /\ \/ server = "streams" /\ fb' = "check"
       \/ server = "closed" /\ fb' = "ended"
    /\ UNCHANGED <<mainVars, out_flag, server, received, lost, failed>>

RecvInterrupted ==
    /\ fb = "recv" /\ fb' = "check"
    /\ UNCHANGED <<mainVars, out_flag, server, received, lost, failed>>

ServerStops ==
    /\ server = "streams" /\ server' \in {"quiet", "closed"}
    /\ UNCHANGED <<mainVars, out_flag, fb, received, lost, failed>>

Next == Main \/ SendInterrupted \/ CheckOut \/ Recv \/ RecvInterrupted \/ ServerStops

\* Both threads run, and feedback comes as long as the controller streams it
Fair == WF_vars(Main) /\ WF_vars(CheckOut) /\ WF_vars(Recv)

Spec == Init /\ [][Next]_vars /\ Fair

-----------------------------------------------------------------------------
(* Properties *)

DueBefore(c) == {Schedule[i][2] : i \in {k \in DOMAIN Schedule : Schedule[k][1] < c}}
Place(f) == CHOOSE i \in DOMAIN Schedule : Schedule[i][2] = f

\* The controller receives every command that was due and not lost, once and in the order
\* of the script.
ScriptKept ==
    /\ pc = "loop" => {received[i] : i \in DOMAIN received} = DueBefore(count) \ lost
    /\ \A i, j \in DOMAIN received : i < j => Place(received[i]) < Place(received[j])

On(start, end) == \E i \in DOMAIN received :
                    /\ received[i] = start
                    /\ \A j \in DOMAIN received : j > i => received[j] # end

\* A client that has ended has left the arm moving, enabled or the project running only
\* if a send failed or was interrupted.
LeftSafe ==
    pc = "done" /\ ~failed /\ lost = {} =>
        /\ ~On("robot_teach_move", "robot_teach_stop")
        /\ ~On("robot_teach_enable", "robot_teach_disenable")
        /\ ~On("start_robot_c_project", "close_robot_c_project")

\* The feedback connection is closed only when nobody reads it any more.
ClosedUnread == pc \in {"close", "done"} => fb = "ended"

\* The client ends, unless the controller keeps the connection open and says no more:
\* the join waits for a recv without a timeout.
ClientEnds == <>(pc = "done" \/ server = "quiet")

=============================================================================
