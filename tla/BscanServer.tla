----------------------------- MODULE BscanServer -----------------------------
(***************************************************************************)
(* The measuring server (src/src/BscanServer.cpp).  Three kinds of threads *)
(* share server_state_ and input_feedback: the epoll thread accepts        *)
(* clients and serves one of them until it leaves, a feedback thread per   *)
(* slot of the event array reports to a client, and state_server drives    *)
(* the robot over the points received.  data_lock_ is held for one command *)
(* or one report; server_state_ is also written without it.                *)
(*                                                                         *)
(* A message is received whole; usleep(2000) after a start is long enough  *)
(* for the new thread to take its points; motions and force control are    *)
(* external.                                                               *)
(***************************************************************************)
EXTENDS Integers, Sequences, FiniteSets

CONSTANTS Clients,      \* the clients, each connects once
          MaxCommands,  \* bound: commands the clients send, all together
          MaxUnread     \* bound: commands of a client that are not received yet

Listener == "listener"
Commands == {"push", "start", "stop", "pause", "continue", "clear", "bad"}
Slots == 1..(Cardinality(Clients) + 1)

VARIABLES
    link, inbox, sent,   \* clients: connection, messages not received yet, count (external)
    backlog, edge,       \* connections to accept, descriptors epoll has an event for
    pc, batch, i, cur,   \* epoll thread: where it is, its events, index, fd served
    fd,                  \* feedbacd_fd_
    thr,                 \* feedback threads by slot of the event array
    state, feedback,     \* server_state_, input_feedback # 0
    points,              \* server_data_.size()
    m, num, visited,     \* state_server: where it is, its points, the points moved to
    runs,                \* state_server bodies that are executing (history)
    told                 \* the last InputFeedback sent was a refusal (history)

clientVars == <<link, inbox, sent>>
epollVars == <<backlog, edge, batch, i, cur>>
sharedVars == <<state, feedback>>
scanVars == <<m, num, visited, runs>>
vars == <<clientVars, epollVars, pc, fd, thr, sharedVars, points, scanVars, told>>

NoClient == "none"
Thread(st, client) == [st |-> st, client |-> client]
Joinable == {"starting", "timer", "running", "ended"}

TypeOK ==
    /\ link \in [Clients -> {"none", "backlog", "open", "gone", "closed"}]
    /\ inbox \in [Clients -> Seq(Commands)] /\ sent \in 0..MaxCommands
    /\ backlog \in Seq(Clients) /\ edge \subseteq Clients \cup {Listener}
    /\ pc \in {"wait", "event", "join_slot", "recv", "start_join", "start_sleep",
               "join_gone"}
    /\ batch \in Seq(Clients \cup {Listener}) /\ i \in 1..(Cardinality(Clients) + 2)
    /\ cur \in Clients \cup {NoClient} /\ fd \in Clients \cup {NoClient}
    /\ thr \in [Slots -> [st: Joinable \cup {"none"}, client: Clients \cup {NoClient}]]
    /\ state \in {"none", "start", "stop", "pause", "continue"}
    /\ feedback \in BOOLEAN /\ told \in BOOLEAN
    /\ points \in Nat /\ num \in Nat /\ visited \in Seq(Int)
    /\ m \in {"none", "prepare", "approach", "sfc_init", "sfc_start", "scan", "finish",
              "leaving", "ended"}
    /\ runs \in Nat

Init ==
    /\ link = [c \in Clients |-> "none"] /\ inbox = [c \in Clients |-> <<>>] /\ sent = 0
    /\ backlog = <<>> /\ edge = {}
    /\ pc = "wait" /\ batch = <<>> /\ i = 1 /\ cur = NoClient /\ fd = NoClient
    /\ thr = [k \in Slots |-> Thread("none", NoClient)]
    /\ state = "none" /\ feedback = FALSE /\ points = 0
    /\ m = "none" /\ num = 0 /\ visited = <<>> /\ runs = 0 /\ told = FALSE

-----------------------------------------------------------------------------
(* The clients. *)

Connect(c) ==
    /\ link[c] = "none"
    /\ link' = [link EXCEPT ![c] = "backlog"]
    /\ backlog' = Append(backlog, c)
    /\ edge' = edge \cup {Listener}
    /\ UNCHANGED <<inbox, sent, batch, i, cur, pc, fd, thr, sharedVars, points, scanVars, told>>

Send(c) ==
    /\ link[c] \in {"backlog", "open"} /\ sent < MaxCommands /\ Len(inbox[c]) < MaxUnread
    /\ \E cmd \in Commands : inbox' = [inbox EXCEPT ![c] = Append(@, cmd)]
    /\ sent' = sent + 1
    /\ edge' = IF link[c] = "open" THEN edge \cup {c} ELSE edge
    /\ UNCHANGED <<link, backlog, batch, i, cur, pc, fd, thr, sharedVars, points, scanVars, told>>

Disconnect(c) ==
    /\ link[c] = "open"
    /\ link' = [link EXCEPT ![c] = "gone"]
    /\ edge' = edge \cup {c}
    /\ UNCHANGED <<inbox, sent, backlog, batch, i, cur, pc, fd, thr, sharedVars, points,
                   scanVars, told>>

Client == \E c \in Clients : Connect(c) \/ Send(c) \/ Disconnect(c)

-----------------------------------------------------------------------------
(* The epoll thread: tcp_concurrent_server and cmd_server. *)

\* The descriptors with an event, in an order of the kernel's; each event is told once
Wait ==
    /\ pc = "wait" /\ edge # {}
    /\ \E s \in [1..Cardinality(edge) -> edge] :
          /\ {s[k] : k \in DOMAIN s} = edge
          /\ batch' = s
    /\ edge' = {} /\ i' = 1 /\ pc' = "event"
    /\ UNCHANGED <<clientVars, backlog, cur, fd, thr, sharedVars, points, scanVars, told>>

BatchDone ==
    /\ pc = "event" /\ i > Len(batch) /\ pc' = "wait"
    /\ UNCHANGED <<clientVars, epollVars, fd, thr, sharedVars, points, scanVars, told>>

\* accept one connection per event and aim feedbacd_fd_ at it
Accept ==
    /\ pc = "event" /\ i <= Len(batch) /\ batch[i] = Listener
    /\ IF backlog = <<>>
       THEN i' = i + 1 /\ UNCHANGED <<link, backlog, edge, pc, fd>>
       ELSE LET c == Head(backlog) IN
            /\ link' = [link EXCEPT ![c] = "open"]
            /\ backlog' = Tail(backlog)
            /\ edge' = IF inbox[c] # <<>> THEN edge \cup {c} ELSE edge
            /\ fd' = c /\ pc' = "join_slot" /\ UNCHANGED i
    /\ UNCHANGED <<inbox, sent, batch, cur, thr, sharedVars, points, scanVars, told>>

\* thread_[i].join() if it is joinable, then the new feedback thread
JoinSlot ==
    /\ pc = "join_slot" /\ thr[i].st \in {"none", "ended"}
    /\ thr' = [thr EXCEPT ![i] = Thread("starting", NoClient)]
    /\ pc' = "event" /\ i' = i + 1
    /\ UNCHANGED <<clientVars, backlog, edge, batch, cur, fd, sharedVars, points, scanVars, told>>

ServeClient ==
    /\ pc = "event" /\ i <= Len(batch) /\ batch[i] # Listener
    /\ pc' = "recv" /\ cur' = batch[i]
    /\ UNCHANGED <<clientVars, backlog, edge, batch, i, fd, thr, sharedVars, points, scanVars,
                   told>>

\* cmd_server, one message under data_lock_; recv blocks while there is none
Receive ==
    /\ pc = "recv" /\ inbox[cur] # <<>>
    /\ inbox' = [inbox EXCEPT ![cur] = Tail(@)]
    /\ LET cmd == Head(inbox[cur])
           refused == cmd = "bad" \/ (cmd = "start" /\ state # "stop")
       IN  /\ feedback' = (feedback \/ refused)
           /\ pc' = IF cmd = "start" /\ ~refused THEN "start_join" ELSE "recv"
           /\ state' = IF cmd \in {"start", "pause", "continue"} /\ ~refused THEN cmd ELSE state
           /\ points' = CASE cmd = "push" -> points + 1
                          [] cmd = "clear" -> 0
                          [] OTHER -> points
    /\ UNCHANGED <<link, sent, epollVars, fd, thr, scanVars, told>>

\* Mutant: the old measuring thread is not joined
StartWithoutJoin ==
    /\ pc = "start_join"
    /\ m' = "prepare" /\ visited' = <<>> /\ runs' = runs + 1
    /\ pc' = "start_sleep"
    /\ UNCHANGED <<clientVars, epollVars, fd, thr, sharedVars, points, num, told>>

\* join the measuring thread that ended, holding the lock, and start a new one
StartMeasuring ==
    /\ pc = "start_join" /\ m \in {"none", "ended"}
    /\ m' = "prepare" /\ visited' = <<>> /\ runs' = runs + 1
    /\ pc' = "start_sleep"
    /\ UNCHANGED <<clientVars, epollVars, fd, thr, sharedVars, points, num, told>>

StartSlept ==
    /\ pc = "start_sleep" /\ m # "prepare" /\ pc' = "recv"
    /\ UNCHANGED <<clientVars, epollVars, fd, thr, sharedVars, points, scanVars, told>>

\* recv returns 0: leave cmd_server
ClientLeft ==
    /\ pc = "recv" /\ inbox[cur] = <<>> /\ link[cur] = "gone"
    /\ pc' = "join_gone"
    /\ UNCHANGED <<clientVars, epollVars, fd, thr, sharedVars, points, scanVars, told>>

\* join the thread in this event's slot, close the descriptor
JoinGone ==
    /\ pc = "join_gone" /\ thr[i].st \in {"none", "ended"}
    /\ thr' = [thr EXCEPT ![i] = Thread("none", NoClient)]
    /\ link' = [link EXCEPT ![cur] = "closed"]
    /\ edge' = edge \ {cur}
    /\ pc' = "event" /\ i' = i + 1
    /\ UNCHANGED <<inbox, sent, backlog, batch, cur, fd, sharedVars, points, scanVars, told>>

Epoll == \/ Wait \/ BatchDone \/ Accept \/ JoinSlot \/ ServeClient \/ Receive
         \/ StartMeasuring \/ StartSlept \/ ClientLeft \/ JoinGone

-----------------------------------------------------------------------------
(* The feedback threads. *)

LockFree == pc \notin {"start_join", "start_sleep"}

\* The thread reads feedbacd_fd_ once it runs, not when it is created
FeedbackStart(k) ==
    /\ thr[k].st = "starting"
    /\ thr' = [thr EXCEPT ![k] = Thread("timer", fd)]
    /\ UNCHANGED <<clientVars, epollVars, pc, fd, sharedVars, points, scanVars, told>>

FeedbackReset(k) ==
    /\ thr[k].st = "timer"
    /\ thr' = [thr EXCEPT ![k].st = "running"]
    /\ state' = "stop"
    /\ UNCHANGED <<clientVars, epollVars, pc, fd, feedback, points, scanVars, told>>

\* Mutant: a failed send does not end the thread
FeedbackCycleGoesOn(k) ==
    /\ thr[k].st = "running" /\ LockFree
    /\ feedback' = FALSE
    /\ told' = (feedback /\ link[thr[k].client] = "open")
    /\ UNCHANGED <<clientVars, epollVars, pc, fd, thr, state, points, scanVars>>

\* Report and clear input_feedback; the thread ends when its client is gone.  The test
\* for a thread to join compares _stop with a copy that is always _stop: never true.
FeedbackCycle(k) ==
    /\ thr[k].st = "running" /\ LockFree
    /\ feedback' = FALSE
    /\ told' = (feedback /\ link[thr[k].client] = "open")
    /\ thr' = [thr EXCEPT ![k].st =
                  IF link[thr[k].client] = "open" THEN "running" ELSE "ended"]
    /\ UNCHANGED <<clientVars, epollVars, pc, fd, state, points, scanVars>>

Feedback(k) == FeedbackStart(k) \/ FeedbackReset(k) \/ FeedbackCycle(k)

-----------------------------------------------------------------------------
(* state_server. *)

Prepare ==
    /\ m = "prepare" /\ m' = "approach"
    /\ num' = points
    /\ UNCHANGED <<visited, runs, state>>

Approach ==
    /\ m = "approach" /\ m' = "sfc_init"
    /\ visited' = <<0, 1>>
    /\ UNCHANGED <<num, runs, state>>

\* SFCInit or SFCStart fails: _stop and return
ForceFails ==
    /\ m \in {"sfc_init", "sfc_start"} /\ m' = "ended"
    /\ state' = "stop" /\ runs' = runs - 1
    /\ UNCHANGED <<num, visited>>

ForceSucceeds ==
    /\ m \in {"sfc_init", "sfc_start"}
    /\ m' = IF m = "sfc_init" THEN "sfc_start" ELSE "scan"
    /\ UNCHANGED <<num, visited, runs, state>>

\* MoveL to point 2, MoveS over num-4 points from point 3 on
Scan ==
    /\ m = "scan" /\ m' = "finish"
    /\ visited' = visited \o <<2>> \o [k \in 1..(num - 4) |-> 2 + k]
    /\ UNCHANGED <<num, runs, state>>

Finish ==
    /\ m = "finish" /\ m' = "leaving"
    /\ visited' = Append(visited, num - 1)
    /\ UNCHANGED <<num, runs, state>>

Leave ==
    /\ m = "leaving" /\ m' = "ended"
    /\ state' = "stop" /\ runs' = runs - 1
    /\ UNCHANGED <<num, visited>>

Measure ==
    /\ Prepare \/ Approach \/ ForceFails \/ ForceSucceeds \/ Scan \/ Finish \/ Leave
    /\ UNCHANGED <<clientVars, epollVars, pc, fd, thr, feedback, points, told>>

Next == Client \/ Epoll \/ Measure \/ \E k \in Slots : Feedback(k)

\* Every thread is scheduled and every motion ends; the clients owe nothing
Fair ==
    /\ WF_vars(Epoll) /\ WF_vars(Measure)
    /\ \A k \in Slots : WF_vars(Feedback(k))

Spec == Init /\ [][Next]_vars /\ Fair

-----------------------------------------------------------------------------
(* Properties *)

\* Two measurements never drive the robot at the same time, even when a client that
\* reconnects has reset server_state_ to _stop under a running one.
OneMeasurement == runs <= 1

\* With one client, _stop is reported only when no measurement is running: pausing,
\* continuing and a failed force control never leave it standing too early.
StopMeansIdle == state = "stop" => m \in {"none", "ended"}

\* A measurement of four points or more moves to every one of them, once and in order.
VisitsEach == m = "leaving" /\ num >= 4 => visited = [k \in 1..num |-> k - 1]

\* A refusal is sent to a client before it is forgotten, while anybody is listening.
RefusalReported ==
    feedback ~> (told \/ \A k \in Slots : thr[k].st \in {"none", "ended"})

\* The commands of a client that is alone are all received.
CommandsServed == \A c \in Clients : (inbox[c] # <<>>) ~> (inbox[c] = <<>>)

\* When everybody has left, the server closes their connections and is back in its wait:
\* no join of a thread and no start of a measurement holds it up for good.
LeavingFreesServer ==
    <>[](\A c \in DOMAIN link : link[c] \in {"none", "gone", "closed"})
        => <>[](pc = "wait" /\ \A c \in DOMAIN link : link[c] # "gone")

=============================================================================
