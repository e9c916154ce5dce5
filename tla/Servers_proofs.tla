----------------------------- MODULE Servers_proofs -----------------------------
(***************************************************************************)
(* The two servers.  The handshake of the show plugins, for any number of  *)
(* commands: after a stop that did not overtake a starting show, the       *)
(* handler is alone on the robot, and the stopped show never moves it      *)
(* again.  The measuring server, for any clients and any number of         *)
(* commands: one measurement at a time, and it visits all its points; and  *)
(* with one client _stop means that none runs.                             *)
(***************************************************************************)
EXTENDS Servers, FiniteSetTheorems, TLAPS

-----------------------------------------------------------------------------
(* The show plugins. *)

\* Show threads are numbered by the command that spawns them
NumberInv ==
    /\ \A t \in Shows : t > taken => show[t] = "none"
    /\ pc # "idle" => taken \in Shows /\ show[taken] = "none"

\* A settled stop leaves the handler waiting for the one show it found, or for none
WaitInv ==
    /\ pc = "wait_show" => stopped
    /\ pc = "wait_show" /\ settled => Settled
    /\ pc \in {"recover", "act"} /\ settled => Alive = {}

\* A show that was asked to stop has been spawned; while it lives its stop is waited for
AskedInv ==
    /\ ~lateMove
    /\ \A t \in asked : show[t] # "none"
    /\ \A t \in asked : t \in Alive => pc = "wait_show" /\ settled

IInv == TypeOK /\ NumberInv /\ WaitInv /\ AskedInv

LEMMA TypeInit == Init => TypeOK
<1> SUFFICES ASSUME Init PROVE TypeOK
  OBVIOUS
<1> USE CommandsAssumption DEF Init
<1>1. taken \in 0..MaxCommands /\ pc = "idle" /\ cmd \in Commands
  BY DEF Commands
<1>2. show \in [Shows -> Flagged \cup {"none", "spawned", "reset", "done"}]
  OBVIOUS
<1>3. isshow \in BOOLEAN /\ isstop \in BOOLEAN /\ stopped \in BOOLEAN /\ ok \in BOOLEAN
  OBVIOUS
<1>4. power \in BOOLEAN /\ settled \in BOOLEAN /\ lateMove \in BOOLEAN
  OBVIOUS
<1>5. asked \subseteq Shows
  OBVIOUS
<1>6. QED
  BY <1>1, <1>2, <1>3, <1>4, <1>5, Zenon DEF TypeOK

\* The handler's and the counters' part of the types
HandlerOK == /\ taken \in 0..MaxCommands
             /\ pc \in {"idle", "stop", "wait_show", "recover", "act"} /\ cmd \in Commands
ShowOK == show \in [Shows -> Flagged \cup {"none", "spawned", "reset", "done"}]
BoolsOK == /\ isshow \in BOOLEAN /\ isstop \in BOOLEAN
           /\ stopped \in BOOLEAN /\ power \in BOOLEAN /\ ok \in BOOLEAN
           /\ settled \in BOOLEAN /\ lateMove \in BOOLEAN

LEMMA TypeSplit == TypeOK <=> HandlerOK /\ ShowOK /\ BoolsOK /\ asked \subseteq Shows
BY Zenon DEF TypeOK, HandlerOK, ShowOK, BoolsOK

\* What a step of a show thread changes
LEMMA ShowStep ==
    ASSUME ShowOK, NEW t \in Shows, Show(t)
    PROVE  /\ UNCHANGED <<taken, pc, cmd, stopped, power, ok, settled, asked>>
           /\ \A u \in Shows \ {t} : show'[u] = show[u]
           /\ ShowOK'
           /\ t \in Alive
           /\ show'[t] \notin {"none", "spawned"}
           /\ Running(t) => (show'[t] = "done" /\ ~isshow') \/ (Running(t)' /\ isshow' = isshow)
<1> USE DEF Goto, Moves, deviceVars, flagVars, histVars, Alive, Running, ShowOK
<1>0. /\ \A x \in Flagged : x \notin {"none", "spawned", "reset", "done"}
      /\ {"opening", "check", "closing"} \subseteq Flagged
  BY DEF Flagged, InPass, Parts
<1>1. CASE ResetStop(t)
  BY <1>1, <1>0 DEF ResetStop
<1>2. CASE RaiseShow(t)
  BY <1>2, <1>0 DEF RaiseShow
<1>3. CASE Opening(t)
  BY <1>3, <1>0 DEF Opening
<1>4. CASE CheckStop(t)
  <2>1. Parts[1] \in InPass /\ InPass \subseteq Flagged /\ "closing" \in Flagged
    BY DEF Flagged, InPass, Parts
  <2>2. \A x \in Flagged : x \notin {"none", "spawned", "reset", "done"}
    BY DEF Flagged, InPass, Parts
  <2>3. "check" \in Flagged
    BY DEF Flagged
  <2>4. /\ show[t] = "check"
        /\ show' = [show EXCEPT ![t] = IF ok /\ ~isstop THEN Parts[1] ELSE "closing"]
    BY <1>4 DEF CheckStop
  <2>5. show'[t] \in Flagged
    BY <2>1, <2>4
  <2>6. UNCHANGED <<taken, pc, cmd, stopped, power, ok, settled, asked, isshow>>
    BY <1>4 DEF CheckStop
  <2>7. QED
    BY <2>2, <2>3, <2>4, <2>5, <2>6
<1>5. CASE LowerShow(t)
  BY <1>5, <1>0 DEF LowerShow
<1>6. CASE \E p \in DOMAIN Parts : Part(t, p)
  <2>1. PICK p \in DOMAIN Parts : Part(t, p)
    BY <1>6
  <2>2. p \in 1..4 /\ Len(Parts) = 4
    BY DEF Parts
  <2>3. Parts[p] \in InPass /\ (p < 4 => Parts[p + 1] \in InPass)
    BY <2>2 DEF InPass, Parts
  <2>4. InPass \subseteq Flagged /\ "check" \in Flagged
    BY DEF Flagged
  <2>5. \A x \in Flagged : x \notin {"none", "spawned", "reset", "done"}
    BY DEF Flagged, InPass, Parts
  <2>6. show[t] \in Flagged /\ show'[t] \in Flagged
    BY <2>1, <2>2, <2>3, <2>4 DEF Part
  <2>7. QED
    BY <2>1, <2>5, <2>6 DEF Part
<1>7. QED
  BY <1>1, <1>2, <1>3, <1>4, <1>5, <1>6 DEF Show

LEMMA TypeStep == TypeOK /\ NumberInv /\ [Next]_vars => TypeOK'
<1> SUFFICES ASSUME HandlerOK, ShowOK, BoolsOK, asked \subseteq Shows, NumberInv,
                    [Next]_vars
             PROVE  HandlerOK' /\ ShowOK' /\ BoolsOK' /\ (asked \subseteq Shows)'
  BY TypeSplit, Zenon DEF TypeOK, HandlerOK, ShowOK, BoolsOK
<1> USE CommandsAssumption DEF flagVars, deviceVars, histVars
<1>1. CASE \E c \in Commands : Take(c)
  <2>1. PICK c \in Commands : Take(c)
    BY <1>1
  <2>2. HandlerOK'
    BY <2>1 DEF Take, HandlerOK
  <2>3. power' \in BOOLEAN
    BY <2>1 DEF Take, BoolsOK
  <2>4. UNCHANGED <<show, isshow, isstop, stopped, ok, settled, asked, lateMove>>
    BY <2>1 DEF Take
  <2>5. QED
    BY <2>2, <2>3, <2>4 DEF ShowOK, BoolsOK
<1>2. CASE StopShow
  <2>1. UNCHANGED <<taken, cmd, show, isshow, power, ok, lateMove>> /\ pc' = "wait_show"
        /\ stopped' = TRUE /\ isstop' = TRUE
    BY <1>2 DEF StopShow
  <2>2. settled' \in BOOLEAN
    BY <1>2 DEF StopShow, Settled
  <2>3. asked' \subseteq Shows
    BY <1>2 DEF StopShow, Alive
  <2>4. QED
    BY <2>1, <2>2, <2>3 DEF HandlerOK, ShowOK, BoolsOK
<1>3. CASE ShowStopped
  BY <1>3 DEF ShowStopped, HandlerOK, ShowOK, BoolsOK
<1>4. CASE Recover
  BY <1>4 DEF Recover, HandlerOK, ShowOK, BoolsOK
<1>5. CASE Act
  <2>1. ShowOK'
    BY <1>5 DEF Act, ShowOK
  <2>2. QED
    BY <1>5, <2>1 DEF Act, HandlerOK, BoolsOK
<1>6. CASE Fault
  BY <1>6 DEF Fault, HandlerOK, ShowOK, BoolsOK
<1>7. CASE \E t \in Shows : Show(t)
  <2>1. PICK t \in Shows : Show(t)
    BY <1>7
  <2>2. UNCHANGED <<taken, pc, cmd, stopped, power, ok, settled, asked>> /\ ShowOK'
    BY <2>1, ShowStep
  <2>3. isshow' \in BOOLEAN /\ isstop' \in BOOLEAN
    BY <2>1 DEF Show, ResetStop, RaiseShow, Opening, CheckStop, Part, LowerShow, BoolsOK
  <2>4. lateMove' \in BOOLEAN
    BY <2>1 DEF Show, ResetStop, RaiseShow, Opening, CheckStop, Part, LowerShow, Moves,
       BoolsOK
  <2>5. QED
    BY <2>2, <2>3, <2>4 DEF HandlerOK, BoolsOK
<1>8. CASE UNCHANGED vars
  BY <1>8 DEF vars, HandlerOK, ShowOK, BoolsOK
<1>9. QED
  BY <1>1, <1>2, <1>3, <1>4, <1>5, <1>6, <1>7, <1>8 DEF Next, Handler

LEMMA NumberStep == TypeOK /\ NumberInv /\ [Next]_vars => NumberInv'
<1> SUFFICES ASSUME HandlerOK, ShowOK, NumberInv, [Next]_vars PROVE NumberInv'
  BY TypeSplit
<1> USE CommandsAssumption DEF flagVars, deviceVars, histVars, NumberInv
<1>1. CASE \E c \in Commands : Take(c)
  <2>1. PICK c \in Commands : Take(c)
    BY <1>1
  <2>2. taken' = taken + 1 /\ taken' \in Shows /\ show' = show /\ taken \in Nat
    BY <2>1 DEF Take, HandlerOK, Shows
  <2>3. QED
    BY <2>2 DEF Shows
<1>2. CASE Handler /\ ~(\E c \in Commands : Take(c))
  BY <1>2 DEF Handler, StopShow, ShowStopped, Recover, Act, ShowOK, HandlerOK, Shows
<1>3. CASE Fault \/ UNCHANGED vars
  BY <1>3 DEF Fault, vars
<1>4. CASE \E t \in Shows : Show(t)
  <2>1. PICK t \in Shows : Show(t)
    BY <1>4
  <2>2. UNCHANGED <<taken, pc>> /\ \A u \in Shows \ {t} : show'[u] = show[u]
    BY <2>1, ShowStep
  <2>3. show[t] # "none"
    BY <2>1, ShowStep DEF Alive
  <2>4. QED
    BY <2>2, <2>3
<1>5. QED
  BY <1>1, <1>2, <1>3, <1>4 DEF Next

LEMMA WaitStep == TypeOK /\ NumberInv /\ WaitInv /\ [Next]_vars => WaitInv'
<1> SUFFICES ASSUME HandlerOK, ShowOK, NumberInv, WaitInv, [Next]_vars PROVE WaitInv'
  BY TypeSplit
<1> USE DEF flagVars, deviceVars, histVars
<1>1. CASE \E c \in Commands : Take(c)
  BY <1>1 DEF Take, WaitInv
<1>2. CASE StopShow
  <2>1. pc' = "wait_show" /\ stopped' /\ settled' = Settled /\ UNCHANGED <<show, isshow>>
    BY <1>2 DEF StopShow
  <2>2. Settled' = Settled
    BY <2>1 DEF Settled, Alive, Running
  <2>3. QED
    BY <2>1, <2>2 DEF WaitInv
<1>3. CASE ShowStopped
  <2>1. pc = "wait_show" /\ ~isshow /\ pc' = "recover"
        /\ UNCHANGED <<settled, show>>
    BY <1>3 DEF ShowStopped
  <2>2. settled => Alive = {}
    BY <2>1 DEF WaitInv, Settled
  <2>3. QED
    BY <2>1, <2>2 DEF WaitInv, Alive
<1>4. CASE Recover
  <2>1. pc = "recover" /\ pc' = "act" /\ UNCHANGED <<settled, show>>
    BY <1>4 DEF Recover
  <2>2. QED
    BY <2>1 DEF WaitInv, Alive
<1>5. CASE Act
  BY <1>5 DEF Act, WaitInv
<1>6. CASE Fault \/ UNCHANGED vars
  <2>1. UNCHANGED <<pc, settled, show, isshow, stopped>>
    BY <1>6 DEF Fault, vars
  <2>2. QED
    BY <2>1 DEF WaitInv, Settled, Alive, Running
<1>7. CASE \E t \in Shows : Show(t)
  <2>1. PICK t \in Shows : Show(t)
    BY <1>7
  <2>2. UNCHANGED <<pc, stopped, settled>> /\ t \in Alive
        /\ \A u \in Shows \ {t} : show'[u] = show[u]
    BY <2>1, ShowStep
  <2>3. CASE pc = "wait_show" /\ settled
    <3>1. isshow /\ Alive = {t} /\ Running(t)
      BY <2>2, <2>3 DEF WaitInv, Settled
    <3>2. (show'[t] = "done" /\ ~isshow') \/ (Running(t)' /\ isshow')
      BY <2>1, <3>1, ShowStep
    <3>3. \A u \in Shows \ {t} : show'[u] \in {"none", "done"}
      BY <2>2, <3>1 DEF Alive
    <3>4. CASE show'[t] = "done"
      <4>1. (Alive = {})'
        BY <3>3, <3>4 DEF Alive
      <4>2. QED
        BY <2>2, <2>3, <4>1 DEF WaitInv, Settled
    <3>5. CASE Running(t)' /\ isshow'
      <4>1. show'[t] \notin {"none", "done"}
        BY <3>5 DEF Running, Flagged, InPass, Parts
      <4>2. (Alive = {t})'
        BY <3>3, <4>1 DEF Alive
      <4>3. QED
        BY <2>2, <2>3, <3>5, <4>2 DEF WaitInv, Settled
    <3>6. QED
      BY <3>2, <3>4, <3>5
  <2>4. CASE ~(pc = "wait_show" /\ settled)
    BY <2>2, <2>4 DEF WaitInv
  <2>5. QED
    BY <2>3, <2>4
<1>8. QED
  BY <1>1, <1>2, <1>3, <1>4, <1>5, <1>6, <1>7 DEF Next, Handler

LEMMA AskedStep == IInv /\ [Next]_vars => AskedInv'
<1> SUFFICES ASSUME HandlerOK, ShowOK, asked \subseteq Shows, NumberInv, WaitInv, AskedInv,
                    [Next]_vars
             PROVE  AskedInv'
  BY TypeSplit DEF IInv
<1> USE DEF flagVars, deviceVars, histVars
<1>1. CASE \E c \in Commands : Take(c)
  <2>1. pc = "idle" /\ UNCHANGED <<show, asked, lateMove>>
    BY <1>1 DEF Take
  <2>2. QED
    BY <2>1 DEF AskedInv, Alive
<1>2. CASE StopShow
  <2>1. pc = "stop" /\ pc' = "wait_show" /\ UNCHANGED <<show, lateMove>>
        /\ settled' = Settled /\ asked' = IF Settled THEN asked \cup Alive ELSE asked
    BY <1>2 DEF StopShow
  <2>2. \A t \in asked : t \notin Alive
    BY <2>1 DEF AskedInv
  <2>3. QED
    BY <2>1, <2>2 DEF AskedInv, Alive
<1>3. CASE ShowStopped \/ Recover
  <2>1. /\ UNCHANGED <<show, asked, lateMove, settled>>
        /\ \/ pc = "wait_show" /\ ~isshow
           \/ pc = "recover"
    BY <1>3 DEF ShowStopped, Recover
  <2>2. \A t \in asked : t \notin Alive
    BY <2>1 DEF AskedInv, WaitInv, Settled
  <2>3. QED
    BY <2>1, <2>2 DEF AskedInv, Alive
<1>4. CASE Act
  <2>1. pc = "act" /\ UNCHANGED <<asked, lateMove>> /\ show[taken] = "none"
        /\ show' \in {show, [show EXCEPT ![taken] = "spawned"]}
    BY <1>4 DEF Act, NumberInv
  <2>2. \A t \in asked : t \notin Alive /\ show'[t] = show[t]
    BY <2>1 DEF AskedInv, ShowOK
  <2>3. QED
    BY <2>1, <2>2 DEF AskedInv, Alive
<1>5. CASE Fault \/ UNCHANGED vars
  <2>1. UNCHANGED <<pc, settled, show, asked, lateMove>>
    BY <1>5 DEF Fault, vars
  <2>2. QED
    BY <2>1 DEF AskedInv, Alive
<1>6. CASE \E t \in Shows : Show(t)
  <2>1. PICK t \in Shows : Show(t)
    BY <1>6
  <2>2. UNCHANGED <<pc, settled, asked>> /\ show'[t] # "none" /\ t \in Alive
        /\ \A u \in Shows \ {t} : show'[u] = show[u]
    BY <2>1, ShowStep
  <2>3. t \in asked => stopped
    BY <2>2 DEF AskedInv, WaitInv
  <2>4. ~lateMove'
    BY <2>1, <2>3 DEF AskedInv, Show, ResetStop, RaiseShow, Opening, CheckStop, Part,
       LowerShow, Moves
  <2>5. \A u \in asked : show'[u] # "none" /\ (u \in Alive' => u \in Alive)
    BY <2>2 DEF AskedInv, Alive
  <2>6. QED
    BY <2>2, <2>4, <2>5 DEF AskedInv
<1>7. QED
  BY <1>1, <1>2, <1>3, <1>4, <1>5, <1>6 DEF Next, Handler

LEMMA InvInit == Init => IInv
<1> SUFFICES ASSUME Init PROVE IInv
  OBVIOUS
<1>1. NumberInv /\ AskedInv /\ WaitInv
  BY DEF Init, NumberInv, AskedInv, WaitInv
<1>2. QED
  BY <1>1, TypeInit DEF IInv

LEMMA InvStep == IInv /\ [Next]_vars => IInv'
<1>1. IInv /\ [Next]_vars => TypeOK'
  BY TypeStep DEF IInv
<1>2. IInv /\ [Next]_vars => NumberInv' /\ WaitInv'
  BY NumberStep, WaitStep DEF IInv
<1>3. QED
  BY <1>1, <1>2, AskedStep DEF IInv

\* Every variable keeps its type.
THEOREM TypeCorrect == Spec => []TypeOK
<1>1. IInv => TypeOK
  BY DEF IInv
<1>2. QED
  BY <1>1, InvInit, InvStep, PTL DEF Spec

\* After a settled stop the handler is alone on the robot.
THEOREM HandlerIsAlone == Spec => []HandlerAlone
<1>1. IInv => HandlerAlone
  <2>1. SUFFICES ASSUME IInv, pc = "act", settled, NEW t \in Shows, Running(t) PROVE FALSE
    BY DEF HandlerAlone
  <2>2. t \notin Alive
    BY <2>1 DEF IInv, WaitInv
  <2>3. QED
    BY <2>1, <2>2 DEF Alive, Running, Flagged, InPass, Parts
<1>2. QED
  BY <1>1, InvInit, InvStep, PTL DEF Spec

\* A show that was asked to stop does not move the robot again.
THEOREM StoppedForGood == Spec => []NoMoveAfterStop
<1>1. IInv => NoMoveAfterStop
  BY DEF IInv, AskedInv, NoMoveAfterStop
<1>2. QED
  BY <1>1, InvInit, InvStep, PTL DEF Spec

\* A show yields to the command that stops it, and does not come back.
THEOREM ShowYields == Spec => []ShowsYield
BY HandlerIsAlone, StoppedForGood, PTL DEF ShowsYield

-----------------------------------------------------------------------------
(* The measuring server: types. *)

LinkStates == {"none", "backlog", "open", "gone", "closed"}
LinkOK(s) == /\ link \in [s.clients -> LinkStates]
             /\ inbox \in [s.clients -> Seq(Scan(s)!Commands)] /\ sent \in 0..s.commands
             /\ backlog \in Seq(s.clients) /\ edge \subseteq s.clients \cup {Scan(s)!Listener}
EpollOK(s) == /\ at \in {"wait", "event", "join_slot", "recv", "start_join", "start_sleep",
                         "join_gone"}
              /\ batch \in Seq(s.clients \cup {Scan(s)!Listener})
              /\ i \in 1..(Cardinality(s.clients) + 2)
              /\ cur \in s.clients \cup {Scan(s)!NoClient}
              /\ fd \in s.clients \cup {Scan(s)!NoClient}
ThreadsOK(s) == thr \in [Scan(s)!Slots -> [st: Scan(s)!Joinable \cup {"none"},
                                          client: s.clients \cup {Scan(s)!NoClient}]]
StateOK == /\ state \in {"none", "start", "stop", "pause", "continue"}
           /\ feedback \in BOOLEAN /\ told \in BOOLEAN /\ points \in Nat
MeasureOK == /\ num \in Nat /\ visited \in Seq(Int) /\ runs \in Nat
             /\ m \in {"none", "prepare", "approach", "sfc_init", "sfc_start", "scan", "finish",
                       "leaving", "ended"}

\* Cardinality, as the server's module and this one read it
LEMMA ScanCardinality == ASSUME NEW s, NEW S PROVE Scan(s)!Cardinality(S) = Cardinality(S)
BY DEF Cardinality, Scan!Cardinality

LEMMA ScanTypes == ASSUME NEW s
                   PROVE  Scan(s)!TypeOK <=> /\ LinkOK(s) /\ EpollOK(s) /\ ThreadsOK(s)
                                             /\ StateOK /\ MeasureOK
<1>1. Scan(s)!Cardinality(s.clients) = Cardinality(s.clients)
  BY ScanCardinality
<1>2. QED
  BY <1>1, Zenon DEF Scan!TypeOK, LinkOK, EpollOK, ThreadsOK, StateOK, MeasureOK, LinkStates

\* The event in hand is one of the batch, and the client served one that has an event
EpollInv(s) ==
    /\ Len(batch) <= Cardinality(s.clients) + 1 /\ i <= Len(batch) + 1
    /\ at \in {"join_slot", "recv", "start_join", "start_sleep", "join_gone"} => i <= Len(batch)
    /\ at \in {"recv", "start_join", "start_sleep", "join_gone"} => cur \in s.clients

TypeInv(s) == LinkOK(s) /\ EpollOK(s) /\ ThreadsOK(s) /\ StateOK /\ EpollInv(s)

LEMMA ScanTypeInit == ASSUME NEW s, Setup(s), Scan(s)!Init PROVE TypeInv(s) /\ MeasureOK
<1> USE DEF Scan!Init, Setup
<1>1. LinkOK(s)
  BY DEF LinkOK, LinkStates
<1>2. Cardinality(s.clients) \in Nat
  BY FS_CardinalityType
<1>3. EpollOK(s) /\ EpollInv(s)
  BY <1>2 DEF EpollOK, EpollInv
<1>4. ThreadsOK(s)
  BY DEF ThreadsOK, Scan!Thread
<1>5. StateOK
  BY DEF StateOK
<1>6. MeasureOK
  BY DEF MeasureOK
<1>7. QED
  BY <1>1, <1>3, <1>4, <1>5, <1>6 DEF TypeInv

\* The clients leave everything but their links and the events alone
LEMMA ClientStep == ASSUME NEW s, Setup(s), TypeInv(s), Scan(s)!Client
                    PROVE  /\ TypeInv(s)'
                           /\ UNCHANGED <<at, batch, i, cur, fd, thr, state, feedback, points,
                                          m, num, visited, runs, told>>
<1> USE DEF LinkOK, LinkStates, Scan!epollVars, Scan!sharedVars, Scan!scanVars
<1>1. PICK c \in s.clients : Scan(s)!Connect(c) \/ Scan(s)!Send(c) \/ Scan(s)!Disconnect(c)
  BY DEF Scan!Client
<1>2. UNCHANGED <<at, batch, i, cur, fd, thr, state, feedback, points, m, num, visited, runs, told>>
  BY <1>1 DEF Scan!Connect, Scan!Send, Scan!Disconnect
<1>3. LinkOK(s)'
  <2>1. CASE Scan(s)!Connect(c)
    BY <2>1 DEF Scan!Connect, TypeInv
  <2>2. CASE Scan(s)!Send(c)
    BY <2>2 DEF Scan!Send, TypeInv, Setup
  <2>3. CASE Scan(s)!Disconnect(c)
    BY <2>3 DEF Scan!Disconnect, TypeInv
  <2>4. QED
    BY <1>1, <2>1, <2>2, <2>3
<1>4. QED
  BY <1>2, <1>3 DEF TypeInv, EpollOK, ThreadsOK, StateOK, EpollInv

LEMMA MeasureTypes == ASSUME NEW s, TypeInv(s), Scan(s)!Measure PROVE TypeInv(s)'
<1>1. /\ UNCHANGED <<link, inbox, sent, backlog, edge, at, batch, i, cur, fd, thr, feedback, points,
                     told>>
      /\ state' \in {state, "stop"}
  BY DEF Scan!Measure, Scan!Prepare, Scan!Approach, Scan!ForceFails, Scan!ForceSucceeds, Scan!Scan,
     Scan!Finish, Scan!Leave, Scan!clientVars, Scan!epollVars
<1>2. QED
  BY <1>1 DEF TypeInv, LinkOK, EpollOK, ThreadsOK, StateOK, EpollInv

LEMMA FeedbackTypes == ASSUME NEW s, TypeInv(s), NEW k \in Scan(s)!Slots, Scan(s)!Feedback(k)
                       PROVE  TypeInv(s)'
<1>1. UNCHANGED <<link, inbox, sent, backlog, edge, at, batch, i, cur, fd, points>>
  BY DEF Scan!Feedback, Scan!FeedbackStart, Scan!FeedbackReset, Scan!FeedbackCycle,
     Scan!clientVars, Scan!epollVars
<1>2. ThreadsOK(s)'
  BY DEF Scan!Feedback, Scan!FeedbackStart, Scan!FeedbackReset, Scan!FeedbackCycle, TypeInv,
     ThreadsOK, EpollOK, Scan!Thread, Scan!Joinable
<1>3. StateOK'
  BY DEF Scan!Feedback, Scan!FeedbackStart, Scan!FeedbackReset, Scan!FeedbackCycle, TypeInv,
     StateOK, Scan!sharedVars
<1>4. QED
  BY <1>1, <1>2, <1>3 DEF TypeInv, LinkOK, EpollOK, EpollInv

LEMMA EpollTypes == ASSUME NEW s, Setup(s), TypeInv(s), Scan(s)!Epoll PROVE TypeInv(s)'
<1> USE DEF TypeInv, Scan!clientVars, Scan!epollVars, Scan!sharedVars
<1>n. Cardinality(s.clients) \in Nat
  BY FS_CardinalityType DEF Setup
<1>1. CASE Scan(s)!Wait
  <2>1. IsFiniteSet(s.clients \cup {Scan(s)!Listener})
        /\ Cardinality(s.clients \cup {Scan(s)!Listener}) <= Cardinality(s.clients) + 1
    BY <1>n, FS_AddElement DEF Setup
  <2>2. Cardinality(edge) \in Nat /\ Cardinality(edge) <= Cardinality(s.clients) + 1
    BY <1>n, <2>1, FS_Subset, FS_CardinalityType DEF LinkOK
  <2>3. PICK t \in [1..Cardinality(edge) -> edge] : batch' = t
    BY <1>1, ScanCardinality DEF Scan!Wait
  <2>4. batch' \in Seq(s.clients \cup {Scan(s)!Listener}) /\ Len(batch') = Cardinality(edge)
    BY <2>2, <2>3 DEF LinkOK
  <2>5. /\ i' = 1 /\ at' = "event" /\ edge' = {}
        /\ UNCHANGED <<link, inbox, sent, backlog, cur, fd, thr, state, feedback, points, told>>
    BY <1>1 DEF Scan!Wait
  <2>6. QED
    BY <1>n, <2>2, <2>4, <2>5 DEF LinkOK, EpollOK, ThreadsOK, StateOK, EpollInv
<1>2. CASE Scan(s)!BatchDone
  BY <1>2 DEF Scan!BatchDone, LinkOK, EpollOK, ThreadsOK, StateOK, EpollInv
<1>3. CASE Scan(s)!Accept
  <2>1. i <= Len(batch) /\ UNCHANGED <<inbox, sent, batch, cur, thr, state, feedback, points, told>>
    BY <1>3 DEF Scan!Accept
  <2>2. CASE backlog = <<>>
    <3>1. i' = i + 1 /\ at' = "event" /\ UNCHANGED <<link, backlog, edge, fd>>
      BY <1>3, <2>2 DEF Scan!Accept
    <3>2. QED
      BY <1>n, <2>1, <3>1 DEF LinkOK, EpollOK, ThreadsOK, StateOK, EpollInv
  <2>3. CASE backlog # <<>>
    <3> DEFINE c == Head(backlog)
    <3>1. /\ link' = [link EXCEPT ![c] = "open"] /\ backlog' = Tail(backlog)
          /\ edge' = (IF inbox[c] # <<>> THEN edge \cup {c} ELSE edge)
          /\ fd' = c /\ at' = "join_slot" /\ UNCHANGED i
      BY <1>3, <2>3 DEF Scan!Accept
    <3>2. c \in s.clients /\ backlog' \in Seq(s.clients)
      BY <2>3, <3>1 DEF LinkOK
    <3>3. LinkOK(s)'
      BY <2>1, <3>1, <3>2 DEF LinkOK, LinkStates
    <3>4. QED
      BY <2>1, <3>1, <3>2, <3>3 DEF EpollOK, ThreadsOK, StateOK, EpollInv
  <2>4. QED
    BY <2>2, <2>3
<1>4. CASE Scan(s)!JoinSlot
  <2>1. /\ at = "join_slot"
        /\ thr' = [thr EXCEPT ![i] = Scan(s)!Thread("starting", Scan(s)!NoClient)]
        /\ at' = "event" /\ i' = i + 1
        /\ UNCHANGED <<link, inbox, sent, backlog, edge, batch, cur, fd, state, feedback, points,
                       told>>
    BY <1>4 DEF Scan!JoinSlot
  <2>2. ThreadsOK(s)'
    BY <2>1 DEF ThreadsOK, Scan!Thread, Scan!Joinable
  <2>3. QED
    BY <1>n, <2>1, <2>2 DEF LinkOK, EpollOK, StateOK, EpollInv
<1>5. CASE Scan(s)!ServeClient
  <2>1. batch[i] \in s.clients
    BY <1>5 DEF Scan!ServeClient, EpollOK
  <2>2. QED
    BY <1>5, <2>1 DEF Scan!ServeClient, LinkOK, EpollOK, ThreadsOK, StateOK, EpollInv
<1>6. CASE Scan(s)!Receive
  <2>1. /\ at = "recv" /\ inbox[cur] # <<>> /\ inbox' = [inbox EXCEPT ![cur] = Tail(@)]
        /\ at' \in {"recv", "start_join"} /\ state' \in {state, "start", "pause", "continue"}
        /\ points' \in {points, points + 1, 0} /\ feedback' \in BOOLEAN
        /\ UNCHANGED <<link, sent, backlog, edge, batch, i, cur, fd, thr, told>>
    <3>1. at' \in {"recv", "start_join"} /\ state' \in {state, "start", "pause", "continue"}
      BY <1>6 DEF Scan!Receive
    <3>2. feedback' \in BOOLEAN
      BY <1>6 DEF Scan!Receive, StateOK
    <3>3. QED
      BY <1>6, <3>1, <3>2 DEF Scan!Receive
  <2>2. inbox[cur] \in Seq(Scan(s)!Commands) /\ cur \in s.clients
    BY <2>1 DEF LinkOK, EpollInv
  <2>3. inbox' \in [s.clients -> Seq(Scan(s)!Commands)]
    BY <2>1, <2>2 DEF LinkOK
  <2>4. QED
    BY <2>1, <2>3 DEF LinkOK, EpollOK, ThreadsOK, StateOK, EpollInv
<1>7. CASE Scan(s)!StartMeasuring \/ Scan(s)!StartSlept
  BY <1>7 DEF Scan!StartMeasuring, Scan!StartSlept, LinkOK, EpollOK, ThreadsOK, StateOK, EpollInv
<1>8. CASE Scan(s)!ClientLeft
  BY <1>8 DEF Scan!ClientLeft, LinkOK, EpollOK, ThreadsOK, StateOK, EpollInv
<1>9. CASE Scan(s)!JoinGone
  <2>1. /\ at = "join_gone" /\ thr' = [thr EXCEPT ![i] = Scan(s)!Thread("none", Scan(s)!NoClient)]
        /\ link' = [link EXCEPT ![cur] = "closed"] /\ edge' = edge \ {cur}
        /\ at' = "event" /\ i' = i + 1
        /\ UNCHANGED <<inbox, sent, backlog, batch, cur, fd, state, feedback, points, told>>
    BY <1>9 DEF Scan!JoinGone
  <2>2. ThreadsOK(s)'
    BY <2>1 DEF ThreadsOK, Scan!Thread
  <2>3. LinkOK(s)'
    BY <2>1 DEF LinkOK, LinkStates
  <2>4. QED
    BY <1>n, <2>1, <2>2, <2>3 DEF EpollOK, StateOK, EpollInv
<1>10. QED
  BY <1>1, <1>2, <1>3, <1>4, <1>5, <1>6, <1>7, <1>8, <1>9 DEF Scan!Epoll

LEMMA ScanTypeStep == ASSUME NEW s, Setup(s), TypeInv(s), Scan(s)!Next \/ UNCHANGED scanVars
                      PROVE  TypeInv(s)'
<1>1. CASE UNCHANGED scanVars
  BY <1>1 DEF scanVars, TypeInv, LinkOK, EpollOK, ThreadsOK, StateOK, EpollInv
<1>2. QED
  BY <1>1, ClientStep, EpollTypes, MeasureTypes, FeedbackTypes DEF Scan!Next

-----------------------------------------------------------------------------
(* The measuring server: measurements. *)

LEMMA Concat == ASSUME NEW a \in Seq(Int), NEW b \in Seq(Int)
                PROVE  /\ a \o b \in Seq(Int) /\ Len(a \o b) = Len(a) + Len(b)
                       /\ \A k \in 1..Len(a) : (a \o b)[k] = a[k]
                       /\ \A k \in 1..Len(b) : (a \o b)[Len(a) + k] = b[k]
  OBVIOUS

\* A sequence of n numbers that counts from 0
Counted(n) == [k \in 1..n |-> k - 1]

LEMMA CountedIs == ASSUME NEW n \in Nat, NEW t \in Seq(Int), Len(t) = n,
                          \A k \in 1..n : t[k] = k - 1
                   PROVE  t = Counted(n)
  BY DEF Counted

LEMMA CountedOn == ASSUME NEW a \in Seq(Int), NEW b \in Seq(Int),
                          \A k \in 1..Len(a) : a[k] = k - 1,
                          \A k \in 1..Len(b) : b[k] = Len(a) + k - 1
                   PROVE  a \o b = Counted(Len(a) + Len(b))
<1>1. a \o b \in Seq(Int) /\ Len(a \o b) = Len(a) + Len(b)
  BY Concat
<1>2. \A k \in 1..(Len(a) + Len(b)) : (a \o b)[k] = k - 1
  <2> TAKE k \in 1..(Len(a) + Len(b))
  <2>1. CASE k \in 1..Len(a)
    BY <2>1, Concat
  <2>2. CASE k \notin 1..Len(a)
    <3>1. k - Len(a) \in 1..Len(b)
      BY <2>2
    <3>2. (a \o b)[Len(a) + (k - Len(a))] = Len(a) + (k - Len(a)) - 1
      BY <3>1, Concat
    <3>3. Len(a) + (k - Len(a)) = k
      OBVIOUS
    <3>4. QED
      BY <3>2, <3>3
  <2>3. QED
    BY <2>1, <2>2
<1>3. Len(a) + Len(b) \in Nat
  OBVIOUS
<1>4. QED
  BY <1>1, <1>2, <1>3, CountedIs

LEMMA Points == ASSUME NEW n \in Nat, n >= 4
                PROVE  /\ (<<0, 1>> \o <<2>>) \o [k \in 1..(n - 4) |-> 2 + k] = Counted(n - 1)
                       /\ Append(Counted(n - 1), n - 1) = Counted(n)
<1> DEFINE a == <<0, 1>> \o <<2>>  b == [k \in 1..(n - 4) |-> 2 + k]
<1>1. a \in Seq(Int) /\ Len(a) = 3 /\ a[1] = 0 /\ a[2] = 1 /\ a[3] = 2
  OBVIOUS
<1>2. b \in Seq(Int) /\ Len(b) = n - 4 /\ \A k \in 1..(n - 4) : b[k] = 2 + k
  OBVIOUS
<1> HIDE DEF a, b
<1>3. \A k \in 1..3 : a[k] = k - 1
  <2>1. \A k \in 1..3 : k = 1 \/ k = 2 \/ k = 3
    OBVIOUS
  <2>2. QED
    BY <1>1, <2>1
<1>4. a \o b = Counted(3 + (n - 4))
  <2>1. \A k \in 1..Len(a) : a[k] = k - 1
    BY <1>1, <1>3
  <2>2. \A k \in 1..Len(b) : b[k] = Len(a) + k - 1
    BY <1>1, <1>2
  <2>3. a \o b = Counted(Len(a) + Len(b))
    BY <1>1, <1>2, <2>1, <2>2, CountedOn
  <2>4. QED
    BY <1>1, <1>2, <2>3
<1>5. 3 + (n - 4) = n - 1
  OBVIOUS
<1>6. Append(Counted(n - 1), n - 1) = Counted(n)
  BY DEF Counted
<1>7. QED
  BY <1>4, <1>5, <1>6 DEF a, b

\* The points moved to form a sequence, however few were received
LEMMA ScanVisits == ASSUME NEW n \in Nat
                    PROVE  (<<0, 1>> \o <<2>>) \o [k \in 1..(n - 4) |-> 2 + k] \in Seq(Int)
<1>1. [k \in 1..(n - 4) |-> 2 + k] \in Seq(Int)
  <2>1. CASE n >= 4
    BY <2>1
  <2>2. CASE n < 4
    <3>1. 1..(n - 4) = 1..0
      BY <2>2
    <3>2. QED
      BY <3>1
  <2>3. QED
    BY <2>1, <2>2
<1>2. <<0, 1>> \o <<2>> \in Seq(Int)
  OBVIOUS
<1>3. QED
  BY <1>1, <1>2

\* One measuring thread at most, and the points it has moved to so far
MeasureInv ==
    /\ runs = IF m \in {"none", "ended"} THEN 0 ELSE 1
    /\ m \in {"sfc_init", "sfc_start", "scan"} => visited = <<0, 1>>
    /\ m = "finish" /\ num >= 4 => visited = Counted(num - 1)
    /\ m = "leaving" /\ num >= 4 => visited = Counted(num)

LEMMA MeasureStep ==
    ASSUME NEW s, TypeInv(s), MeasureOK, MeasureInv, Scan(s)!Next \/ UNCHANGED scanVars
    PROVE  MeasureOK' /\ MeasureInv'
<1> USE DEF MeasureOK, MeasureInv
<1>1. CASE Scan(s)!Measure
  <2>1. CASE Scan(s)!Scan
    <3>1. /\ m = "scan" /\ m' = "finish" /\ visited = <<0, 1>> /\ UNCHANGED <<num, runs>>
          /\ visited' = (<<0, 1>> \o <<2>>) \o [k \in 1..(num - 4) |-> 2 + k]
      BY <2>1 DEF Scan!Scan
    <3>2. num \in Nat
      OBVIOUS
    <3>3. visited' \in Seq(Int)
      BY <3>1, <3>2, ScanVisits
    <3>4. num >= 4 => visited' = Counted(num - 1)
      BY <3>1, <3>2, Points
    <3>5. QED
      BY <3>1, <3>3, <3>4
  <2>2. CASE Scan(s)!Finish
    <3>1. /\ m = "finish" /\ m' = "leaving" /\ UNCHANGED <<num, runs>>
          /\ visited' = Append(visited, num - 1)
      BY <2>2 DEF Scan!Finish
    <3>2. visited' \in Seq(Int)
      BY <3>1
    <3>3. num >= 4 => visited' = Counted(num)
      BY <3>1, Points
    <3>4. QED
      BY <3>1, <3>2, <3>3
  <2>3. CASE Scan(s)!Prepare
    BY <2>3 DEF Scan!Prepare, TypeInv, StateOK
  <2>4. CASE Scan(s)!Approach
    BY <2>4 DEF Scan!Approach
  <2>5. CASE Scan(s)!ForceFails \/ Scan(s)!ForceSucceeds \/ Scan(s)!Leave
    BY <2>5 DEF Scan!ForceFails, Scan!ForceSucceeds, Scan!Leave
  <2>6. QED
    BY <1>1, <2>1, <2>2, <2>3, <2>4, <2>5 DEF Scan!Measure
<1>2. CASE Scan(s)!StartMeasuring
  BY <1>2 DEF Scan!StartMeasuring
<1>3. CASE \/ Scan(s)!Client \/ UNCHANGED scanVars \/ \E k \in Scan(s)!Slots : Scan(s)!Feedback(k)
           \/ Scan(s)!Epoll /\ ~Scan(s)!StartMeasuring
  <2>1. UNCHANGED <<m, num, visited, runs>>
    BY <1>3 DEF scanVars, Scan!scanVars, Scan!Client, Scan!Connect, Scan!Send,
       Scan!Disconnect, Scan!Feedback, Scan!FeedbackStart, Scan!FeedbackReset,
       Scan!FeedbackCycle, Scan!Epoll, Scan!Wait,
       Scan!BatchDone, Scan!Accept, Scan!JoinSlot, Scan!ServeClient, Scan!Receive,
       Scan!StartSlept, Scan!ClientLeft, Scan!JoinGone
  <2>2. QED
    BY <2>1
<1>4. QED
  BY <1>1, <1>2, <1>3 DEF Scan!Next, Scan!Epoll

-----------------------------------------------------------------------------
(* The measuring server: one client. *)

\* A feedback thread that has not reset server_state_ yet
Fresh(k) == thr[k].st \in {"starting", "timer"}

\* All clients have come, and every feedback thread there will be has reset the state
Joined(s) == \A c \in s.clients : link[c] \notin {"none", "backlog"}
AllReset(s) == Joined(s) /\ at # "join_slot" /\ \A k \in Scan(s)!Slots : ~Fresh(k)

\* With one client there is one feedback thread.  Before its reset the state cannot be
\* _stop, so no measurement can be started; after it only a measurement that ends sets _stop
AloneInv(s) ==
    /\ backlog # <<>> => Len(backlog) = 1 /\ \A c \in s.clients : link[c] = "backlog"
    /\ at = "join_slot" => Joined(s) /\ \A k \in Scan(s)!Slots : ~Fresh(k)
    /\ \A j, k \in Scan(s)!Slots : Fresh(j) /\ Fresh(k) => j = k
    /\ (\E k \in Scan(s)!Slots : Fresh(k)) => Joined(s)
    /\ state = "stop" \/ m # "none" \/ at \in {"start_join", "start_sleep"} => AllReset(s)
    /\ at = "start_join" => state = "start" /\ m \in {"none", "ended"}
    /\ at = "join_gone" => link[cur] = "gone"
    /\ state = "stop" => m \in {"none", "ended"}

LEMMA AloneInit == ASSUME NEW s, Scan(s)!Init PROVE AloneInv(s)
BY DEF Scan!Init, Scan!Thread, AloneInv, Fresh, AllReset

LEMMA AloneStep ==
    ASSUME NEW s, Setup(s), Cardinality(s.clients) = 1, TypeInv(s), MeasureOK, AloneInv(s),
           Scan(s)!Next \/ UNCHANGED scanVars
    PROVE  AloneInv(s)'
<1> USE DEF AloneInv, AllReset, Joined, Fresh, Scan!clientVars, Scan!epollVars, Scan!sharedVars,
            Scan!scanVars
<1>0. PICK x : s.clients = {x}
  BY FS_Singleton DEF Setup
<1>t. /\ link \in [s.clients -> LinkStates] /\ backlog \in Seq(s.clients)
      /\ thr \in [Scan(s)!Slots -> [st: Scan(s)!Joinable \cup {"none"},
                                   client: s.clients \cup {Scan(s)!NoClient}]]
  BY DEF TypeInv, LinkOK, ThreadsOK
<1>1. ASSUME NEW c \in s.clients, Scan(s)!Connect(c) PROVE AloneInv(s)'
  <2>1. /\ link[c] = "none" /\ link' = [link EXCEPT ![c] = "backlog"]
        /\ backlog' = Append(backlog, c)
        /\ UNCHANGED <<at, cur, thr, state, m>>
    BY <1>1 DEF Scan!Connect
  <2>2. backlog = <<>> /\ ~Joined(s) /\ at # "join_gone"
    BY <1>0, <2>1 DEF TypeInv, EpollInv
  <2>3. Len(backlog') = 1 /\ \A d \in s.clients : link'[d] = "backlog"
    BY <1>0, <1>t, <2>1, <2>2
  <2>4. QED
    BY <2>1, <2>2, <2>3
<1>2. ASSUME NEW c \in s.clients, Scan(s)!Send(c) \/ Scan(s)!Disconnect(c) PROVE AloneInv(s)'
  <2>1. UNCHANGED <<backlog, at, cur, thr, state, m>>
    BY <1>2 DEF Scan!Send, Scan!Disconnect
  <2>2. \A d \in s.clients : link'[d] = link[d] \/ (link[d] = "open" /\ link'[d] = "gone")
    BY <1>2, <1>t DEF Scan!Send, Scan!Disconnect
  <2>3. at = "join_gone" => cur \in s.clients
    BY DEF TypeInv, EpollInv
  <2>4. QED
    BY <2>1, <2>2, <2>3
<1>3. CASE Scan(s)!Accept
  <2>1. at = "event" /\ UNCHANGED <<thr, state, m>>
    BY <1>3 DEF Scan!Accept
  <2>2. CASE backlog = <<>>
    BY <1>3, <2>1, <2>2 DEF Scan!Accept
  <2>3. CASE backlog # <<>>
    <3>1. /\ link' = [link EXCEPT ![Head(backlog)] = "open"] /\ backlog' = Tail(backlog)
          /\ at' = "join_slot" /\ Head(backlog) \in s.clients
      BY <1>3, <1>t, <2>3 DEF Scan!Accept
    <3>2. backlog' = <<>> /\ \A d \in s.clients : link'[d] = "open"
      BY <1>0, <1>t, <2>3, <3>1
    <3>3. ~Joined(s)
      BY <1>0, <2>3
    <3>4. QED
      BY <2>1, <3>1, <3>2, <3>3
  <2>4. QED
    BY <2>2, <2>3
<1>4. CASE Scan(s)!JoinSlot
  <2>1. /\ at = "join_slot"
        /\ thr' = [thr EXCEPT ![i] = Scan(s)!Thread("starting", Scan(s)!NoClient)]
        /\ at' = "event" /\ UNCHANGED <<link, backlog, state, m>>
    BY <1>4 DEF Scan!JoinSlot
  <2>2. \A k \in Scan(s)!Slots : k # i => thr'[k] = thr[k]
    BY <1>t, <2>1
  <2>3. QED
    BY <2>1, <2>2
<1>5. CASE Scan(s)!JoinGone
  <2>1. /\ at = "join_gone" /\ thr' = [thr EXCEPT ![i] = Scan(s)!Thread("none", Scan(s)!NoClient)]
        /\ at' = "event" /\ UNCHANGED <<backlog, state, m>>
        /\ link' = [link EXCEPT ![cur] = "closed"] /\ link[cur] # "backlog"
    BY <1>5 DEF Scan!JoinGone
  <2>2. /\ \A k \in Scan(s)!Slots : Fresh(k)' => Fresh(k)
        /\ \A d \in s.clients : link'[d] \in {link[d], "closed"}
    BY <1>t, <2>1 DEF Scan!Thread
  <2>3. QED
    BY <2>1, <2>2
<1>6. CASE Scan(s)!Receive
  <2>1. /\ at = "recv" /\ at' \in {"recv", "start_join"} /\ UNCHANGED <<link, backlog, thr, m>>
        /\ at' = "start_join" => state = "stop" /\ state' = "start"
        /\ state' # state => state' \in {"start", "pause", "continue"}
    BY <1>6 DEF Scan!Receive
  <2>2. QED
    BY <2>1
<1>7. CASE Scan(s)!StartMeasuring
  BY <1>7 DEF Scan!StartMeasuring
<1>8. CASE \/ Scan(s)!Wait \/ Scan(s)!BatchDone \/ Scan(s)!ServeClient
           \/ Scan(s)!StartSlept \/ Scan(s)!ClientLeft
  BY <1>8 DEF Scan!Wait, Scan!BatchDone, Scan!ServeClient, Scan!StartSlept, Scan!ClientLeft
<1>9. ASSUME NEW k \in Scan(s)!Slots, Scan(s)!Feedback(k) PROVE AloneInv(s)'
  <2>1. /\ UNCHANGED <<link, backlog, at, cur, m>>
        /\ \A j \in Scan(s)!Slots : j # k => thr'[j] = thr[j]
    BY <1>9, <1>t DEF Scan!Feedback, Scan!FeedbackStart, Scan!FeedbackReset, Scan!FeedbackCycle
  <2>2. CASE Scan(s)!FeedbackReset(k)
    <3>1. Fresh(k) /\ ~Fresh(k)' /\ state' = "stop"
      BY <1>t, <2>2 DEF Scan!FeedbackReset
    <3>2. m = "none" /\ at # "start_join" /\ at # "join_slot" /\ Joined(s)
      BY <3>1
    <3>3. \A j \in Scan(s)!Slots : ~Fresh(j)'
      BY <2>1, <3>1
    <3>4. QED
      BY <2>1, <3>1, <3>2, <3>3
  <2>3. CASE Scan(s)!FeedbackStart(k) \/ Scan(s)!FeedbackCycle(k)
    <3>1. state' = state /\ (Fresh(k)' => Fresh(k))
      BY <1>t, <2>3 DEF Scan!FeedbackStart, Scan!FeedbackCycle, Scan!Thread
    <3>2. QED
      BY <2>1, <3>1
  <2>4. QED
    BY <1>9, <2>2, <2>3 DEF Scan!Feedback
<1>10. CASE Scan(s)!Measure
  <2>1. /\ UNCHANGED <<link, backlog, at, cur, thr>> /\ m \notin {"none", "ended"} /\ m' # "none"
        /\ state' = state \/ m' = "ended"
    BY <1>10 DEF Scan!Measure, Scan!Prepare, Scan!Approach, Scan!ForceFails, Scan!ForceSucceeds,
       Scan!Scan, Scan!Finish, Scan!Leave
  <2>2. QED
    BY <2>1
<1>11. CASE UNCHANGED scanVars
  BY <1>11 DEF scanVars
<1>12. QED
  BY <1>1, <1>2, <1>3, <1>4, <1>5, <1>6, <1>7, <1>8, <1>9, <1>10, <1>11
  DEF Scan!Next, Scan!Client, Scan!Epoll

\* Never two measurements drive the robot, whatever the clients and their commands are, and
\* each visits all its points; with one client, _stop stands only when none runs.
THEOREM MeasurementsAreWhole == ServersSpec => []MeasurementsWhole
<1> DEFINE Inv(s) == TypeInv(s) /\ MeasureOK /\ MeasureInv
           I == /\ program \in {"alone", "show"} => Inv(Alone) /\ AloneInv(Alone)
                /\ program = "together" => Inv(Together)
                /\ program \in {"alone", "show", "together"}
<1>1. ServersInit => I
  <2>1. ASSUME NEW s, Setup(s), Scan(s)!Init PROVE Inv(s)
    BY <2>1, ScanTypeInit DEF Scan!Init, MeasureInv
  <2>2. QED
    BY <2>1, AloneInit, SetupAssumption DEF ServersInit
<1>2. I /\ [ServersNext]_<<program, vars, scanVars>> => I'
  <2>1. ASSUME NEW s, Setup(s), Inv(s), Scan(s)!Next \/ UNCHANGED scanVars PROVE Inv(s)'
    BY <2>1, ScanTypeStep, MeasureStep
  <2>2. ASSUME Inv(Alone), AloneInv(Alone), Scan(Alone)!Next \/ UNCHANGED scanVars
        PROVE  AloneInv(Alone)'
    BY <2>2, AloneStep, SetupAssumption
  <2>3. QED
    BY <2>1, <2>2, SetupAssumption DEF ServersNext
<1>3. I => MeasurementsWhole
  <2>1. ASSUME NEW s, Inv(s)
        PROVE  Scan(s)!TypeOK /\ Scan(s)!OneMeasurement /\ Scan(s)!VisitsEach
    BY <2>1, ScanTypes DEF TypeInv, MeasureInv, Scan!OneMeasurement, Scan!VisitsEach, Counted
  <2>2. AloneInv(Alone) => Scan(Alone)!StopMeansIdle
    BY DEF AloneInv, Scan!StopMeansIdle
  <2>3. QED
    BY <2>1, <2>2 DEF MeasurementsWhole
<1>4. QED
  BY <1>1, <1>2, <1>3, PTL DEF ServersSpec

================================================================================
