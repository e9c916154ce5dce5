---------------------------- MODULE GripperClient ----------------------------
(***************************************************************************)
(* The Piper CAN gripper client (src/src/JeComm/piper/gripper_client.cpp)  *)
(* with its CAN socket and FPS counter.  Four threads share the client:    *)
(*                                                                         *)
(*   ctl   the caller of Start, Stop and the setters                       *)
(*   rd    read_thread, running ReadCanLoop                                *)
(*   mon   monitor_thread, running MonitorLoop                             *)
(*   fw    the FpsCounter worker, running WorkerLoop                       *)
(*                                                                         *)
(* Every step between two accesses of shared state is an action.  A thread *)
(* variable is the C++ thread object together with its program counter:    *)
(* "none" is a thread object that is not joinable, "done" a thread that    *)
(* has returned and was not joined yet.                                    *)
(*                                                                         *)
(* Data: a frame is the angle it carries; the CanMonitor counter pair      *)
(* (current, previous) is `fresh`, whether they differ, and the resulting  *)
(* rate is `rate`, whether it is above 0.0: nothing else is asked of them. *)
(***************************************************************************)
EXTENDS Integers, Sequences

CONSTANTS Raw,          \* angles a feedback frame may carry (0.001 mm, int32)
          IntMin,       \* INT32_MIN, whose absolute value does not exist
          FilterMax,    \* 150000: the largest angle the filter lets through
          Configs,      \* reachable [limit, lo, hi, filter] configurations
          WindowLimit   \* is_ok_window (1 when configured as 0)

ASSUME RawAssumption == Raw \subseteq Int /\ 0 \in Raw /\ IntMin \in Int
ASSUME FilterAssumption == FilterMax \in Nat /\ IntMin < -FilterMax
ASSUME ConfigAssumption ==
    Configs \subseteq [limit: BOOLEAN, lo: Int, hi: Int, filter: BOOLEAN]
ASSUME RangeAssumption == \A c \in Configs : c.lo <= c.hi
ASSUME WindowAssumption == WindowLimit \in Nat \ {0}

VARIABLES
    ctl,        \* where the calling thread is; "idle" between calls
    dirty,      \* the last Start threw or returned InternalError (history)
    connected, running, isOk,              \* the three atomics
    fd,                                    \* can_socket.fd_ >= 0
    bus,                                   \* the CAN interface (environment)
    rd, angle,                             \* read_thread and its local angle
    mon, sample, window,                   \* monitor_thread, its fps, the deque
    fw, fpsRunning, fresh, rate,           \* the FPS counter
    cfg, state,                            \* configuration, last stored angle
    published   \* stores since the configuration last changed, up to 2 (history)

ctlVars  == <<ctl, dirty, connected>>
fpsVars  == <<fw, fpsRunning, rate>>
monVars  == <<mon, sample, window>>
dataVars == <<cfg, state, published>>
vars == <<ctl, dirty, connected, running, isOk, fd, bus, rd, angle, mon, sample,
          window, fw, fpsRunning, fresh, rate, cfg, state, published>>

StartSteps == {"open", "reset", "fps", "run", "spawn_read", "spawn_mon", "connect"}
FailSteps  == {"f_run", "f_fps", "f_join", "f_close"}
StopSteps  == {"s_run", "s_read", "s_mon", "s_fps", "s_join", "s_close"}
Buses      == {"traffic", "silent", "down"}

ThreadsOK ==
    /\ ctl \in {"idle", "terminated"} \union StartSteps \union FailSteps \union StopSteps
    /\ rd \in {"none", "loop", "recv", "error", "limit", "filter", "store", "done"}
    /\ mon \in {"none", "loop", "get", "push", "done"}
    /\ fw \in {"none", "loop", "tick", "done"}

FlagsOK ==
    /\ dirty \in BOOLEAN /\ connected \in BOOLEAN /\ running \in BOOLEAN
    /\ isOk \in BOOLEAN /\ fd \in BOOLEAN /\ fpsRunning \in BOOLEAN
    /\ fresh \in BOOLEAN /\ rate \in BOOLEAN /\ sample \in BOOLEAN

DataOK ==
    /\ bus \in Buses
    /\ angle \in Int /\ state \in Int
    /\ window \in Seq(BOOLEAN)
    /\ cfg \in Configs
    /\ published \in 0..2

TypeOK == ThreadsOK /\ FlagsOK /\ DataOK

Init ==
    /\ ctl = "idle" /\ dirty = FALSE /\ connected = FALSE /\ running = FALSE
    /\ isOk = TRUE /\ fd = FALSE /\ bus \in Buses
    /\ rd = "none" /\ angle = 0
    /\ mon = "none" /\ sample = FALSE /\ window = <<>>
    /\ fw = "none" /\ fpsRunning = FALSE /\ fresh = FALSE /\ rate = FALSE
    /\ cfg \in Configs /\ state = 0 /\ published = 0

-----------------------------------------------------------------------------
(* Pure helpers. *)

\* Mutant: the upper limit is forgotten
ClampBelowOnly(c, a) == IF c.limit /\ a < c.lo THEN c.lo ELSE a

\* ApplySdkLimit
Clamp(c, a) == IF ~c.limit THEN a
               ELSE IF a < c.lo THEN c.lo ELSE IF a > c.hi THEN c.hi ELSE a

\* std::abs(angle) > 150000; at INT32_MIN the build may answer either way
Abnormal(a) == IF a = IntMin THEN BOOLEAN ELSE {a > FilterMax \/ -a > FilterMax}

\* The deque after MonitorLoop has dropped the oldest sample and added one
Slide(w, v) == Append(IF Len(w) >= WindowLimit THEN Tail(w) ELSE w, v)

AllZero(w) == Len(w) = WindowLimit /\ \A i \in DOMAIN w : ~w[i]

-----------------------------------------------------------------------------
(* The calling thread: Start. *)

Goto(from, to) == ctl = from /\ ctl' = to

\* Start on a connected client answers "already started" and changes nothing
StartCall ==
    /\ ~connected
    /\ Goto("idle", "open")
    /\ UNCHANGED <<dirty, connected, running, isOk, fd, bus, rd, angle, monVars,
                   fpsVars, fresh, dataVars>>

\* An open socket is kept; a failing Open closes what it had opened
OpenSocket ==
    /\ ctl = "open"
    /\ \/ ctl' = "reset" /\ fd' = TRUE
       \/ ctl' = "idle" /\ ~fd /\ fd' = FALSE
    /\ UNCHANGED <<dirty, connected, running, isOk, bus, rd, angle, monVars,
                   fpsVars, fresh, dataVars>>

ResetHealth ==
    /\ Goto("reset", "fps")
    /\ isOk' = TRUE /\ window' = <<>>
    /\ fpsRunning' = FALSE              \* FpsCounter::Start begins with Stop
    /\ UNCHANGED <<dirty, connected, running, fd, bus, rd, angle, mon, sample,
                   fw, rate, fresh, dataVars>>

\* Creating the FPS thread is outside the try block: its exception leaves Start
StartFps ==
    /\ ctl = "fps" /\ fw \in {"none", "done"}
    /\ fpsRunning' = TRUE
    /\ \/ fw' = "loop" /\ ctl' = "run" /\ UNCHANGED dirty
       \/ fw' = "none" /\ ctl' = "idle" /\ dirty' = TRUE
    /\ UNCHANGED <<connected, running, isOk, fd, bus, rd, angle, monVars, rate,
                   fresh, dataVars>>

\* Mutant: the workers are spawned without setting their flag
SetRunningForgotten ==
    /\ Goto("run", "spawn_read")
    /\ UNCHANGED <<dirty, connected, running, isOk, fd, bus, rd, angle, monVars, fpsVars,
                   fresh, dataVars>>

SetRunning ==
    /\ Goto("run", "spawn_read")
    /\ running' = TRUE
    /\ UNCHANGED <<dirty, connected, isOk, fd, bus, rd, angle, monVars, fpsVars,
                   fresh, dataVars>>

\* Assigning to a thread object that is still joinable calls std::terminate
SpawnReader ==
    /\ ctl = "spawn_read"
    /\ \/ rd = "none" /\ rd' = "loop" /\ ctl' = "spawn_mon"
       \/ rd # "none" /\ UNCHANGED rd /\ ctl' = "terminated"
       \/ UNCHANGED rd /\ ctl' = "f_run"
    /\ UNCHANGED <<dirty, connected, running, isOk, fd, bus, angle, monVars,
                   fpsVars, fresh, dataVars>>

SpawnMonitor ==
    /\ ctl = "spawn_mon"
    /\ \/ /\ mon' = IF mon = "none" THEN "loop" ELSE mon
          /\ ctl' = IF mon = "none" THEN "connect" ELSE "terminated"
       \/ UNCHANGED mon /\ ctl' = "f_run"
    /\ UNCHANGED <<dirty, connected, running, isOk, fd, bus, rd, angle, sample,
                   window, fpsVars, fresh, dataVars>>

Connect ==
    /\ Goto("connect", "idle")
    /\ connected' = TRUE /\ dirty' = FALSE
    /\ UNCHANGED <<running, isOk, fd, bus, rd, angle, monVars, fpsVars, fresh,
                   dataVars>>

\* The catch block: it stops the workers' flag and the FPS thread and closes the
\* socket, and joins neither read_thread nor monitor_thread
FailRun ==
    /\ Goto("f_run", "f_fps")
    /\ running' = FALSE
    /\ UNCHANGED <<dirty, connected, isOk, fd, bus, rd, angle, monVars, fpsVars,
                   fresh, dataVars>>

FailClose ==
    /\ Goto("f_close", "idle")
    /\ fd' = FALSE /\ dirty' = TRUE
    /\ UNCHANGED <<connected, running, isOk, bus, rd, angle, monVars, fpsVars,
                   fresh, dataVars>>

-----------------------------------------------------------------------------
(* The calling thread: Stop, and FpsCounter::Stop for Stop and the catch block. *)

StopCall ==
    /\ Goto("idle", "s_run")
    /\ UNCHANGED <<dirty, connected, running, isOk, fd, bus, rd, angle, monVars,
                   fpsVars, fresh, dataVars>>

StopRun ==
    /\ Goto("s_run", "s_read")
    /\ running' = FALSE
    /\ UNCHANGED <<dirty, connected, isOk, fd, bus, rd, angle, monVars, fpsVars,
                   fresh, dataVars>>

\* Mutant: Stop does not join read_thread
JoinReaderSkipped ==
    /\ Goto("s_read", "s_mon")
    /\ UNCHANGED <<dirty, connected, running, isOk, fd, bus, rd, angle, monVars,
                   fpsVars, fresh, dataVars>>

JoinReader ==
    /\ Goto("s_read", "s_mon")
    /\ rd \in {"none", "done"} /\ rd' = "none"
    /\ UNCHANGED <<dirty, connected, running, isOk, fd, bus, angle, monVars,
                   fpsVars, fresh, dataVars>>

\* Mutant: Stop does not join monitor_thread
JoinMonitorSkipped ==
    /\ Goto("s_mon", "s_fps")
    /\ UNCHANGED <<dirty, connected, running, isOk, fd, bus, rd, angle, monVars,
                   fpsVars, fresh, dataVars>>

JoinMonitor ==
    /\ Goto("s_mon", "s_fps")
    /\ mon \in {"none", "done"} /\ mon' = "none"
    /\ UNCHANGED <<dirty, connected, running, isOk, fd, bus, rd, angle, sample,
                   window, fpsVars, fresh, dataVars>>

StopFps ==
    /\ Goto("s_fps", "s_join") \/ Goto("f_fps", "f_join")
    /\ fpsRunning' = FALSE
    /\ UNCHANGED <<dirty, connected, running, isOk, fd, bus, rd, angle, monVars,
                   fw, rate, fresh, dataVars>>

JoinFps ==
    /\ Goto("s_join", "s_close") \/ Goto("f_join", "f_close")
    /\ fw \in {"none", "done"} /\ fw' = "none"
    /\ UNCHANGED <<dirty, connected, running, isOk, fd, bus, rd, angle, monVars,
                   fpsRunning, rate, fresh, dataVars>>

StopClose ==
    /\ Goto("s_close", "idle")
    /\ fd' = FALSE /\ connected' = FALSE /\ dirty' = FALSE
    /\ UNCHANGED <<running, isOk, bus, rd, angle, monVars, fpsVars, fresh,
                   dataVars>>

\* Mutant: the range setter stores its arguments in the wrong order
ConfigureSwapped ==
    /\ ctl = "idle"
    /\ cfg' = [cfg EXCEPT !.lo = cfg.hi, !.hi = cfg.lo]
    /\ published' = 0
    /\ UNCHANGED <<ctlVars, running, isOk, fd, bus, rd, angle, monVars, fpsVars,
                   fresh, state>>

\* SetSDKGripperRangeParam, EnableSDKGripperLimit, EnableFilterAbnormalData: one
\* setter changes the limits, or the limit switch, or the filter switch
Configure ==
    /\ ctl = "idle"
    /\ cfg' \in Configs \ {cfg}
    /\ \/ cfg'.limit = cfg.limit /\ cfg'.filter = cfg.filter
       \/ cfg' = [cfg EXCEPT !.limit = ~@]
       \/ cfg' = [cfg EXCEPT !.filter = ~@]
    /\ published' = 0
    /\ UNCHANGED <<ctlVars, running, isOk, fd, bus, rd, angle, monVars, fpsVars,
                   fresh, state>>

-----------------------------------------------------------------------------
(* read_thread *)

ReadLoop ==
    /\ rd = "loop"
    /\ rd' = IF running THEN "recv" ELSE "done"
    /\ UNCHANGED <<ctlVars, running, isOk, fd, bus, angle, monVars, fpsVars,
                   fresh, dataVars>>

\* Mutant: the socket has no receive timeout
RecvBlocks == rd = "recv" /\ fd /\ bus = "silent" /\ UNCHANGED vars

\* RecvFrame times out on a silent bus: SO_RCVTIMEO was set when it was opened
RecvTimeout ==
    /\ rd = "recv" /\ fd /\ bus = "silent"
    /\ rd' = "loop"
    /\ UNCHANGED <<ctlVars, running, isOk, fd, bus, angle, monVars, fpsVars,
                   fresh, dataVars>>

RecvInterfaceDown ==
    /\ rd = "recv" /\ fd /\ bus = "down"
    /\ isOk' = FALSE
    /\ rd' = "loop"
    /\ UNCHANGED <<ctlVars, running, fd, bus, angle, monVars, fpsVars, fresh,
                   dataVars>>

\* NotOpen, RecvFailed
RecvError ==
    /\ rd = "recv" /\ (~fd \/ bus = "traffic")
    /\ rd' = "error"
    /\ UNCHANGED <<ctlVars, running, isOk, fd, bus, angle, monVars, fpsVars,
                   fresh, dataVars>>

ReadError ==
    /\ rd = "error"
    /\ \/ running /\ isOk' = FALSE /\ rd' = "loop"
       \/ ~running /\ UNCHANGED isOk /\ rd' = "done"
    /\ UNCHANGED <<ctlVars, running, fd, bus, angle, monVars, fpsVars, fresh,
                   dataVars>>

\* A frame that does not decode is skipped, any other one is counted
RecvFrame ==
    /\ rd = "recv" /\ fd /\ bus = "traffic"
    /\ \/ rd' = "loop" /\ UNCHANGED <<fresh, angle>>
       \/ /\ rd' = "limit" /\ fresh' = TRUE
          /\ angle' \in Raw
    /\ UNCHANGED <<ctlVars, running, isOk, fd, bus, monVars, fpsVars, dataVars>>

LimitAngle ==
    /\ rd = "limit"
    /\ angle' = Clamp(cfg, angle)
    /\ rd' = "filter"
    /\ UNCHANGED <<ctlVars, running, isOk, fd, bus, monVars, fpsVars, fresh,
                   dataVars>>

FilterAngle ==
    /\ rd = "filter"
    /\ \E abnormal \in Abnormal(angle) :
          rd' = IF cfg.filter /\ abnormal THEN "loop" ELSE "store"
    /\ UNCHANGED <<ctlVars, running, isOk, fd, bus, angle, monVars, fpsVars,
                   fresh, dataVars>>

StoreAngle ==
    /\ rd = "store"
    /\ state' = angle
    /\ published' = IF published < 2 THEN published + 1 ELSE 2
    /\ rd' = "loop"
    /\ UNCHANGED <<ctlVars, running, isOk, fd, bus, angle, monVars, fpsVars,
                   fresh, cfg>>

Reader == \/ ReadLoop \/ RecvTimeout \/ RecvInterfaceDown \/ RecvError
          \/ ReadError \/ RecvFrame \/ LimitAngle \/ FilterAngle \/ StoreAngle

-----------------------------------------------------------------------------
(* monitor_thread *)

MonitorCheck ==
    /\ mon = "loop"
    /\ mon' = IF running THEN "get" ELSE "done"
    /\ UNCHANGED <<ctlVars, running, isOk, fd, bus, rd, angle, sample, window,
                   fpsVars, fresh, dataVars>>

MonitorGetFps ==
    /\ mon = "get"
    /\ sample' = rate
    /\ mon' = "push"
    /\ UNCHANGED <<ctlVars, running, isOk, fd, bus, rd, angle, window, fpsVars,
                   fresh, dataVars>>

\* Mutant: the monitor only ever lowers the health flag
MonitorPushLatching ==
    /\ mon = "push"
    /\ window' = Slide(window, sample)
    /\ isOk' = (isOk /\ ~AllZero(window'))
    /\ mon' = "loop"
    /\ UNCHANGED <<ctlVars, running, fd, bus, rd, angle, sample, fpsVars, fresh,
                   dataVars>>

MonitorPush ==
    /\ mon = "push"
    /\ window' = Slide(window, sample)
    /\ isOk' = ~AllZero(window')
    /\ mon' = "loop"
    /\ UNCHANGED <<ctlVars, running, fd, bus, rd, angle, sample, fpsVars, fresh,
                   dataVars>>

Monitor == MonitorCheck \/ MonitorGetFps \/ MonitorPush

-----------------------------------------------------------------------------
(* The FPS worker *)

FpsLoop ==
    /\ fw = "loop"
    /\ fw' = IF fpsRunning THEN "tick" ELSE "done"
    /\ UNCHANGED <<ctlVars, running, isOk, fd, bus, rd, angle, monVars,
                   fpsRunning, rate, fresh, dataVars>>

\* previous := current, so the next rate counts from here
FpsTick ==
    /\ fw = "tick"
    /\ rate' = fresh /\ fresh' = FALSE
    /\ fw' = "loop"
    /\ UNCHANGED <<ctlVars, running, isOk, fd, bus, rd, angle, monVars,
                   fpsRunning, dataVars>>

FpsWorker == FpsLoop \/ FpsTick

-----------------------------------------------------------------------------
\* The interface starts or stops carrying frames, or goes down (environment)
BusChange ==
    /\ bus' \in Buses \ {bus}
    /\ UNCHANGED <<ctlVars, running, isOk, fd, rd, angle, monVars, fpsVars,
                   fresh, dataVars>>

InStart == \/ OpenSocket \/ ResetHealth \/ StartFps \/ SetRunning \/ SpawnReader
           \/ SpawnMonitor \/ Connect \/ FailRun \/ FailClose
InStop  == \/ StopRun \/ JoinReader \/ JoinMonitor \/ StopFps \/ JoinFps
           \/ StopClose
Control == StartCall \/ StopCall \/ Configure \/ InStart \/ InStop

\* std::terminate ends the process: nothing runs any more
Terminated == ctl = "terminated" /\ UNCHANGED vars

Next ==
    \/ ctl # "terminated" /\ (Control \/ Reader \/ Monitor \/ FpsWorker \/ BusChange)
    \/ Terminated

Spec == Init /\ [][Next]_vars

\* Every thread that can run is eventually scheduled; calls are the caller's choice
Alive(A) == ctl # "terminated" /\ A
Fairness ==
    /\ WF_vars(Alive(InStart \/ InStop))
    /\ WF_vars(Alive(Reader))
    /\ WF_vars(Alive(Monitor))
    /\ WF_vars(Alive(FpsWorker))

FairSpec == Spec /\ Fairness

-----------------------------------------------------------------------------
(* Properties *)

Quiet == rd = "none" /\ mon = "none" /\ fw = "none" /\ ~running /\ ~fd

\* When Stop has returned (or Start failed to open the socket of a clean client)
\* no thread of the client runs, none is left to join, and the socket is closed:
\* the destructor may free the object.
CleanWhenStopped == ctl = "idle" /\ ~connected /\ ~dirty => Quiet

\* A connected client between two calls is really served: the three workers run,
\* their flags are set and the socket they read is open.
ServedWhenConnected ==
    ctl = "idle" /\ connected =>
        /\ running /\ fpsRunning /\ fd
        /\ rd \notin {"none", "done"} /\ mon \notin {"none", "done"}
        /\ fw \notin {"none", "done"}

\* The process is aborted by a Start only if an earlier Start failed half way and
\* no Stop came between: Start/Stop cycles in any other order are safe.
AbortNeedsFailedStart == ctl = "terminated" => dirty

\* The reader sits in RecvFrame on a closed socket only because Start's catch block
\* closes it under the reader it does not join; Stop never does that.
ReaderOwnsSocket == rd = "recv" /\ ~fd => dirty \/ ctl \in FailSteps

Conforms(c, a) ==
    /\ c.limit => c.lo <= a /\ a <= c.hi
    /\ c.filter => a = IntMin \/ (a <= FilterMax /\ -a <= FilterMax)

\* The limits and the filter are read under one lock each and the angle is stored
\* under another: after a setter, at most the one frame already in flight is
\* published under the old configuration, every later one obeys the new one.
RangeConverges == published = 2 => Conforms(cfg, state)

\* Stop always returns: the receive timeout brings the reader back to its flag.
StopReturns == ctl \in StopSteps ~> ctl = "idle"

\* A bus that carries no more frames, down or silent, is reported: IsOk becomes
\* FALSE for good, whatever the window held and however the threads interleave.
SilenceDetected ==
    <>[](connected /\ bus # "traffic") => <>[]~isOk

\* A rate that stays positive clears an earlier alarm again and again, even if the
\* reader keeps raising it on receive errors.
RecoveryDetected == <>[](connected /\ rate) => []<>isOk

\* The health flag follows the bus, for better and for worse, although two threads set it.
FlagFollowsBus == SilenceDetected /\ RecoveryDetected

=============================================================================
