------------------------ MODULE GripperClient_proofs ------------------------
(***************************************************************************)
(* Type correctness and the lifecycle invariants of GripperClient, proved  *)
(* for every configuration, window size and set of angles, and that it     *)
(* implements ClientLifecycle.                                             *)
(***************************************************************************)
EXTENDS GripperRefinement, TLAPS

Live(pc) == pc \notin {"none", "done"}

-----------------------------------------------------------------------------
(* The inductive invariant, by what each part ties together. *)

\* How far a Start has come, leftovers of an earlier failed Start aside
StartInv ==
    /\ ctl \in StartSteps \ {"open"} => fd
    /\ ctl \in {"run", "spawn_read", "spawn_mon", "connect"} => fpsRunning /\ Live(fw)
    /\ ctl \in {"spawn_read", "spawn_mon", "connect"} => running
    /\ ctl \in {"spawn_mon", "connect"} => Live(rd)
    /\ ctl = "connect" => Live(mon)

\* What a clean client looks like at the same points
CleanInv ==
    ~dirty =>
        /\ ctl = "open" => Quiet
        /\ ctl \in {"reset", "fps"} => rd = "none" /\ fw = "none" /\ ~running
        /\ ctl = "run" => rd = "none" /\ ~running
        /\ ctl = "spawn_read" => rd = "none"
        /\ ctl \in {"idle", "s_run"} /\ ~connected => Quiet

\* A connected client, also while Stop has been entered but has done nothing yet
ServedInv ==
    ctl \in {"idle", "s_run"} /\ connected =>
        running /\ fpsRunning /\ fd /\ Live(rd) /\ Live(mon) /\ Live(fw)

\* monitor_thread is only ever joinable in a client that is or was connected
MonitorInv ==
    /\ ctl \in (StartSteps \ {"connect"}) \union FailSteps => mon = "none"
    /\ ctl \in {"idle", "s_run"} /\ ~connected => mon = "none"

\* How far a Stop, or the catch block of Start, has come
StopInv ==
    /\ ctl \in (StopSteps \ {"s_run"}) \union (FailSteps \ {"f_run"}) => ~running
    /\ ctl \in {"s_mon", "s_fps", "s_join", "s_close"} => rd = "none"
    /\ ctl \in {"s_fps", "s_join", "s_close"} => mon = "none"
    /\ ctl \in {"s_close", "f_close"} => fw = "none"

ConnectedInv == connected => ctl \in {"idle"} \union StopSteps

SocketInv == Live(rd) /\ ~fd => dirty \/ ctl \in FailSteps

Lifecycle ==
    /\ StartInv /\ CleanInv /\ ServedInv /\ MonitorInv /\ StopInv
    /\ ConnectedInv /\ SocketInv
    /\ AbortNeedsFailedStart

-----------------------------------------------------------------------------
(* Type correctness. *)

LEMMA ClampType ==
    ASSUME NEW c \in Configs, NEW a \in Int
    PROVE  Clamp(c, a) \in Int
BY ConfigAssumption DEF Clamp

LEMMA SlideType ==
    ASSUME NEW w \in Seq(BOOLEAN), NEW v \in BOOLEAN
    PROVE  Slide(w, v) \in Seq(BOOLEAN)
<1>1. CASE Len(w) >= WindowLimit
  <2>1. w # <<>>
    BY <1>1, WindowAssumption
  <2>2. Tail(w) \in Seq(BOOLEAN)
    BY <2>1
  <2>3. QED
    BY <1>1, <2>2 DEF Slide
<1>2. CASE ~(Len(w) >= WindowLimit)
  BY <1>2 DEF Slide
<1>3. QED
  BY <1>1, <1>2

LEMMA ThreadsStep == ThreadsOK /\ [Next]_vars => ThreadsOK'
<1> SUFFICES ASSUME ThreadsOK, [Next]_vars PROVE ThreadsOK'
  OBVIOUS
<1> USE DEF ThreadsOK, StartSteps, FailSteps, StopSteps, ctlVars, fpsVars, monVars, dataVars
<1>1. CASE InStart
  <2>1. CASE OpenSocket
    BY <2>1 DEF OpenSocket
  <2>2. CASE ResetHealth
    BY <2>2 DEF ResetHealth, Goto
  <2>3. CASE StartFps
    BY <2>3 DEF StartFps
  <2>4. CASE SetRunning
    BY <2>4 DEF SetRunning, Goto
  <2>5. CASE SpawnReader
    BY <2>5 DEF SpawnReader
  <2>6. CASE SpawnMonitor
    BY <2>6 DEF SpawnMonitor
  <2>7. CASE Connect
    BY <2>7 DEF Connect, Goto
  <2>8. CASE FailRun \/ FailClose
    BY <2>8 DEF FailRun, FailClose, Goto
  <2>9. QED
    BY <1>1, <2>1, <2>2, <2>3, <2>4, <2>5, <2>6, <2>7, <2>8
      DEF InStart
<1>2. CASE InStop
  <2>1. CASE StopRun
    BY <2>1 DEF StopRun, Goto
  <2>2. CASE JoinReader
    BY <2>2 DEF JoinReader, Goto
  <2>3. CASE JoinMonitor
    BY <2>3 DEF JoinMonitor, Goto
  <2>4. CASE StopFps
    BY <2>4 DEF StopFps, Goto
  <2>5. CASE JoinFps
    BY <2>5 DEF JoinFps, Goto
  <2>6. CASE StopClose
    BY <2>6 DEF StopClose, Goto
  <2>7. QED
    BY <1>2, <2>1, <2>2, <2>3, <2>4, <2>5, <2>6
      DEF InStop
<1>3. CASE StartCall \/ StopCall \/ Configure
  BY <1>3 DEF StartCall, StopCall, Configure, Goto
<1>4. CASE Reader
  <2>1. CASE ReadLoop
    BY <2>1 DEF ReadLoop
  <2>2. CASE RecvTimeout
    BY <2>2 DEF RecvTimeout
  <2>3. CASE RecvInterfaceDown
    BY <2>3 DEF RecvInterfaceDown
  <2>4. CASE RecvError \/ ReadError
    BY <2>4 DEF RecvError, ReadError
  <2>5. CASE RecvFrame
    BY <2>5 DEF RecvFrame
  <2>6. CASE LimitAngle
    BY <2>6 DEF LimitAngle
  <2>7. CASE FilterAngle
    BY <2>7 DEF FilterAngle
  <2>8. CASE StoreAngle
    BY <2>8 DEF StoreAngle
  <2>9. QED
    BY <1>4, <2>1, <2>2, <2>3, <2>4, <2>5, <2>6, <2>7, <2>8
      DEF Reader
<1>5. CASE Monitor
  BY <1>5 DEF Monitor, MonitorCheck, MonitorGetFps, MonitorPush
<1>6. CASE FpsWorker
  BY <1>6 DEF FpsWorker, FpsLoop, FpsTick
<1>7. CASE BusChange
  BY <1>7 DEF BusChange
<1>8. CASE UNCHANGED vars
  BY <1>8 DEF vars
<1>9. QED
  BY <1>1, <1>2, <1>3, <1>4, <1>5, <1>6, <1>7, <1>8 DEF Next, Control, Terminated

LEMMA FlagsStep == FlagsOK /\ [Next]_vars => FlagsOK'
<1> SUFFICES ASSUME FlagsOK, [Next]_vars PROVE FlagsOK'
  OBVIOUS
<1> USE DEF FlagsOK, ctlVars, fpsVars, monVars, dataVars
<1>1. CASE InStart
  <2>1. CASE OpenSocket
    BY <2>1 DEF OpenSocket
  <2>2. CASE ResetHealth
    BY <2>2 DEF ResetHealth, Goto
  <2>3. CASE StartFps
    BY <2>3 DEF StartFps
  <2>4. CASE SetRunning
    BY <2>4 DEF SetRunning, Goto
  <2>5. CASE SpawnReader
    BY <2>5 DEF SpawnReader
  <2>6. CASE SpawnMonitor
    BY <2>6 DEF SpawnMonitor
  <2>7. CASE Connect
    BY <2>7 DEF Connect, Goto
  <2>8. CASE FailRun \/ FailClose
    BY <2>8 DEF FailRun, FailClose, Goto
  <2>9. QED
    BY <1>1, <2>1, <2>2, <2>3, <2>4, <2>5, <2>6, <2>7, <2>8
      DEF InStart
<1>2. CASE InStop
  <2>1. CASE StopRun
    BY <2>1 DEF StopRun, Goto
  <2>2. CASE JoinReader
    BY <2>2 DEF JoinReader, Goto
  <2>3. CASE JoinMonitor
    BY <2>3 DEF JoinMonitor, Goto
  <2>4. CASE StopFps
    BY <2>4 DEF StopFps, Goto
  <2>5. CASE JoinFps
    BY <2>5 DEF JoinFps, Goto
  <2>6. CASE StopClose
    BY <2>6 DEF StopClose, Goto
  <2>7. QED
    BY <1>2, <2>1, <2>2, <2>3, <2>4, <2>5, <2>6
      DEF InStop
<1>3. CASE StartCall \/ StopCall \/ Configure
  BY <1>3 DEF StartCall, StopCall, Configure, Goto
<1>4. CASE Reader
  <2>1. CASE ReadLoop
    BY <2>1 DEF ReadLoop
  <2>2. CASE RecvTimeout
    BY <2>2 DEF RecvTimeout
  <2>3. CASE RecvInterfaceDown
    BY <2>3 DEF RecvInterfaceDown
  <2>4. CASE RecvError \/ ReadError
    BY <2>4 DEF RecvError, ReadError
  <2>5. CASE RecvFrame
    BY <2>5 DEF RecvFrame
  <2>6. CASE LimitAngle
    BY <2>6 DEF LimitAngle
  <2>7. CASE FilterAngle
    BY <2>7 DEF FilterAngle
  <2>8. CASE StoreAngle
    BY <2>8 DEF StoreAngle
  <2>9. QED
    BY <1>4, <2>1, <2>2, <2>3, <2>4, <2>5, <2>6, <2>7, <2>8
      DEF Reader
<1>5. CASE Monitor
  BY <1>5 DEF Monitor, MonitorCheck, MonitorGetFps, MonitorPush, AllZero
<1>6. CASE FpsWorker
  BY <1>6 DEF FpsWorker, FpsLoop, FpsTick
<1>7. CASE BusChange
  BY <1>7 DEF BusChange
<1>8. CASE UNCHANGED vars
  BY <1>8 DEF vars
<1>9. QED
  BY <1>1, <1>2, <1>3, <1>4, <1>5, <1>6, <1>7, <1>8 DEF Next, Control, Terminated

LEMMA DataStep == TypeOK /\ [Next]_vars => DataOK'
<1> SUFFICES ASSUME DataOK, FlagsOK, [Next]_vars PROVE DataOK'
  BY DEF TypeOK
<1> USE DEF DataOK, Buses, ctlVars, fpsVars, monVars, dataVars
<1>1. CASE InStart
  <2>1. CASE ResetHealth
    BY <2>1 DEF ResetHealth
  <2>2. CASE ~ResetHealth
    BY <1>1, <2>2 DEF InStart, OpenSocket, StartFps, SetRunning, SpawnReader,
                      SpawnMonitor, Connect, FailRun, FailClose, Goto
  <2>3. QED
    BY <2>1, <2>2
<1>2. CASE InStop
  BY <1>2 DEF InStop, StopRun, JoinReader, JoinMonitor, StopFps, JoinFps, StopClose,
              Goto
<1>3. CASE StartCall \/ StopCall \/ Configure
  BY <1>3 DEF StartCall, StopCall, Configure, Goto
<1>4. CASE Reader
  <2>1. CASE LimitAngle
    <3>1. Clamp(cfg, angle) \in Int
      BY ClampType
    <3>2. QED
      BY <2>1, <3>1 DEF LimitAngle
  <2>2. CASE RecvFrame
    BY <2>2, RawAssumption DEF RecvFrame
  <2>3. CASE StoreAngle
    BY <2>3 DEF StoreAngle
  <2>4. CASE ReadLoop \/ RecvTimeout \/ RecvInterfaceDown \/ RecvError
             \/ ReadError \/ FilterAngle
    BY <2>4 DEF ReadLoop, RecvTimeout, RecvInterfaceDown, RecvError, ReadError,
                FilterAngle
  <2>5. QED
    BY <1>4, <2>1, <2>2, <2>3, <2>4 DEF Reader
<1>5. CASE Monitor
  <2>1. CASE MonitorCheck \/ MonitorGetFps
    BY <2>1 DEF MonitorCheck, MonitorGetFps
  <2>2. CASE MonitorPush
    <3>1. Slide(window, sample) \in Seq(BOOLEAN)
      BY SlideType DEF FlagsOK
    <3>2. QED
      BY <2>2, <3>1 DEF MonitorPush
  <2>3. QED
    BY <1>5, <2>1, <2>2 DEF Monitor
<1>6. CASE FpsWorker
  BY <1>6 DEF FpsWorker, FpsLoop, FpsTick
<1>7. CASE BusChange
  BY <1>7 DEF BusChange
<1>8. CASE UNCHANGED vars
  BY <1>8 DEF vars
<1>9. QED
  BY <1>1, <1>2, <1>3, <1>4, <1>5, <1>6, <1>7, <1>8 DEF Next, Control, Terminated

LEMMA TypeStep == TypeOK /\ [Next]_vars => TypeOK'
BY ThreadsStep, FlagsStep, DataStep DEF TypeOK

LEMMA TypeInit == Init => TypeOK
<1> SUFFICES ASSUME Init PROVE TypeOK
  OBVIOUS
<1>1. ThreadsOK
  BY DEF Init, ThreadsOK
<1>2. FlagsOK
  BY DEF Init, FlagsOK
<1>3. DataOK
  BY DEF Init, DataOK
<1>4. QED
  BY <1>1, <1>2, <1>3 DEF TypeOK

\* Every reachable state is well typed, for every value of the constants.
THEOREM TypeCorrect == Spec => []TypeOK
BY TypeInit, TypeStep, PTL DEF Spec

-----------------------------------------------------------------------------
(* The lifecycle invariant.  Only flags and program counters matter here. *)

LEMMA LifecycleInit == Init => Lifecycle
BY DEF Init, Lifecycle, Quiet, Live, StartSteps, FailSteps, StopSteps, StartInv,
       CleanInv, ServedInv, MonitorInv, StopInv, ConnectedInv, SocketInv,
       AbortNeedsFailedStart

LEMMA LifecycleStep == ThreadsOK /\ Lifecycle /\ [Next]_vars => Lifecycle'
<1> SUFFICES ASSUME ThreadsOK, Lifecycle, [Next]_vars PROVE Lifecycle'
  OBVIOUS
<1> USE DEF ThreadsOK, Lifecycle, Quiet, Live, StartSteps, FailSteps, StopSteps,
            StartInv, CleanInv, ServedInv, MonitorInv, StopInv, ConnectedInv,
            SocketInv, AbortNeedsFailedStart, ctlVars, fpsVars, monVars, dataVars
<1>1. CASE InStart
  BY <1>1 DEF InStart, OpenSocket, ResetHealth, StartFps, SetRunning, SpawnReader,
              SpawnMonitor, Connect, FailRun, FailClose, Goto
<1>2. CASE InStop
  BY <1>2 DEF InStop, StopRun, JoinReader, JoinMonitor, StopFps, JoinFps, StopClose,
              Goto
<1>3. CASE StartCall \/ StopCall \/ Configure
  BY <1>3 DEF StartCall, StopCall, Configure, Goto
<1>4. CASE Reader
  BY <1>4 DEF Reader, ReadLoop, RecvTimeout, RecvInterfaceDown, RecvError, ReadError,
              RecvFrame, LimitAngle, FilterAngle, StoreAngle
<1>5. CASE Monitor
  BY <1>5 DEF Monitor, MonitorCheck, MonitorGetFps, MonitorPush
<1>6. CASE FpsWorker
  BY <1>6 DEF FpsWorker, FpsLoop, FpsTick
<1>7. CASE BusChange
  BY <1>7 DEF BusChange
<1>8. CASE UNCHANGED vars
  BY <1>8 DEF vars
<1>9. QED
  BY <1>1, <1>2, <1>3, <1>4, <1>5, <1>6, <1>7, <1>8 DEF Next, Control, Terminated

\* The lifecycle invariant holds in every reachable state.
THEOREM LifecycleCorrect == Spec => []Lifecycle
<1>1. ThreadsOK /\ Lifecycle /\ [Next]_vars => (ThreadsOK /\ Lifecycle)'
  BY ThreadsStep, LifecycleStep
<1>2. Init => ThreadsOK /\ Lifecycle
  BY TypeInit, LifecycleInit DEF TypeOK
<1>3. QED
  BY <1>1, <1>2, PTL DEF Spec

\* When Stop has returned, or Start has failed to open the socket of a clean client,
\* no thread of the client is left and the socket is closed.
THEOREM StopIsClean == Spec => []CleanWhenStopped
<1>1. Lifecycle => CleanWhenStopped
  BY DEF Lifecycle, CleanInv, CleanWhenStopped
<1>2. QED
  BY <1>1, LifecycleCorrect, PTL

\* Between calls, a connected client has all its workers on an open socket.
THEOREM StartedIsServed == Spec => []ServedWhenConnected
<1>1. Lifecycle => ServedWhenConnected
  BY DEF Lifecycle, ServedInv, ServedWhenConnected, Live
<1>2. QED
  BY <1>1, LifecycleCorrect, PTL

\* std::terminate is reached only through a Start that follows a failed Start.
THEOREM AbortIsExplained == Spec => []AbortNeedsFailedStart
<1>1. Lifecycle => AbortNeedsFailedStart
  BY DEF Lifecycle
<1>2. QED
  BY <1>1, LifecycleCorrect, PTL

\* Only the catch block of Start closes the socket under a reader.
THEOREM SocketIsOwned == Spec => []ReaderOwnsSocket
<1>1. Lifecycle => ReaderOwnsSocket
  BY DEF Lifecycle, SocketInv, ReaderOwnsSocket, Live
<1>2. QED
  BY <1>1, LifecycleCorrect, PTL

-----------------------------------------------------------------------------
(* The published angle. *)

\* Once a store has happened since the last setter, whatever the reader holds was
\* clamped, and later filtered, under the present configuration.
AngleInv ==
    /\ published # 0 /\ rd = "filter" => (cfg.limit => cfg.lo <= angle /\ angle <= cfg.hi)
    /\ published # 0 /\ rd = "store" => Conforms(cfg, angle)
    /\ RangeConverges

LEMMA ClampInRange ==
    ASSUME NEW c \in Configs, NEW a \in Int, c.limit
    PROVE  c.lo <= Clamp(c, a) /\ Clamp(c, a) <= c.hi
BY ConfigAssumption, RangeAssumption DEF Clamp

LEMMA AbnormalComplete ==
    ASSUME NEW a \in Int, FALSE \in Abnormal(a)
    PROVE  a = IntMin \/ (a <= FilterMax /\ -a <= FilterMax)
<1>1. CASE a # IntMin
  <2>1. ~(a > FilterMax \/ -a > FilterMax)
    <3>1. FALSE \in {a > FilterMax \/ -a > FilterMax}
      BY <1>1 DEF Abnormal
    <3>2. QED
      BY <3>1, Zenon
  <2>2. QED
    BY <2>1, FilterAssumption
<1>2. QED
  BY <1>1

LEMMA AngleStep == TypeOK /\ AngleInv /\ [Next]_vars => AngleInv'
<1> SUFFICES ASSUME ThreadsOK, DataOK, AngleInv, [Next]_vars PROVE AngleInv'
  BY DEF TypeOK
<1> USE DEF DataOK, ctlVars, fpsVars, monVars, dataVars
<1>1. CASE Configure
  BY <1>1 DEF Configure, AngleInv, RangeConverges
<1>2. CASE LimitAngle
  <2>1. cfg'.limit => cfg'.lo <= angle' /\ angle' <= cfg'.hi
    BY <1>2, ClampInRange DEF LimitAngle
  <2>2. rd' = "filter" /\ UNCHANGED <<cfg, state, published>>
    BY <1>2 DEF LimitAngle
  <2>3. QED
    BY <2>1, <2>2 DEF AngleInv, RangeConverges, Conforms
<1>3. CASE FilterAngle
  <2>1. UNCHANGED <<cfg, state, published, angle>> /\ rd = "filter"
    BY <1>3 DEF FilterAngle
  <2>2. rd' # "store" => rd' = "loop"
    BY <1>3 DEF FilterAngle
  <2>3. rd' = "store" /\ cfg.filter => FALSE \in Abnormal(angle)
    <3>1. SUFFICES ASSUME rd' = "store", cfg.filter PROVE FALSE \in Abnormal(angle)
      OBVIOUS
    <3>2. PICK abnormal \in Abnormal(angle) :
             rd' = IF cfg.filter /\ abnormal THEN "loop" ELSE "store"
      BY <1>3 DEF FilterAngle
    <3>3. abnormal \in BOOLEAN
      BY DEF Abnormal
    <3>4. abnormal = FALSE
      BY <3>1, <3>2, <3>3
    <3>5. QED
      BY <3>2, <3>4
  <2>4. rd' = "store" /\ published # 0 => Conforms(cfg, angle)
    BY <2>1, <2>3, AbnormalComplete DEF AngleInv, Conforms
  <2>5. QED
    BY <2>1, <2>2, <2>4 DEF AngleInv, RangeConverges
<1>4. CASE StoreAngle
  BY <1>4 DEF StoreAngle, AngleInv, RangeConverges
<1>5. CASE ReadLoop \/ RecvTimeout \/ RecvInterfaceDown \/ RecvError \/ ReadError
           \/ RecvFrame
  <2>1. UNCHANGED <<cfg, state, published>> /\ rd' \notin {"filter", "store"}
    BY <1>5 DEF ReadLoop, RecvTimeout, RecvInterfaceDown, RecvError, ReadError,
                RecvFrame
  <2>2. QED
    BY <2>1 DEF AngleInv, RangeConverges
<1>6. CASE InStart \/ InStop
  <2>1. UNCHANGED <<cfg, state, published, angle>>
    BY <1>6 DEF InStart, OpenSocket, ResetHealth, StartFps, SetRunning, SpawnReader,
                SpawnMonitor, Connect, FailRun, FailClose, InStop, StopRun,
                JoinReader, JoinMonitor, StopFps, JoinFps, StopClose
  <2>2. rd' \in {"filter", "store"} => rd' = rd
    BY <1>6 DEF InStart, OpenSocket, ResetHealth, StartFps, SetRunning, SpawnReader,
                SpawnMonitor, Connect, FailRun, FailClose, InStop, StopRun,
                JoinReader, JoinMonitor, StopFps, JoinFps, StopClose
  <2>3. QED
    BY <2>1, <2>2 DEF AngleInv, RangeConverges
<1>7. CASE StartCall \/ StopCall \/ Monitor \/ FpsWorker \/ BusChange \/ UNCHANGED vars
  <2>1. UNCHANGED <<cfg, state, published, angle, rd>>
    BY <1>7 DEF StartCall, StopCall, Monitor, MonitorCheck, MonitorGetFps,
                MonitorPush, FpsWorker, FpsLoop, FpsTick, BusChange, vars
  <2>2. QED
    BY <2>1 DEF AngleInv, RangeConverges
<1>8. QED
  BY <1>1, <1>2, <1>3, <1>4, <1>5, <1>6, <1>7 DEF Next, Control, Reader, Terminated

\* For every configuration and every angle, at most one frame that was in flight
\* when a setter ran is published against the new configuration.
THEOREM PublishedAngleConverges == Spec => []RangeConverges
<1>1. Init => TypeOK /\ AngleInv
  BY TypeInit DEF Init, AngleInv, RangeConverges
<1>2. (TypeOK /\ AngleInv) /\ [Next]_vars => (TypeOK /\ AngleInv)'
  BY TypeStep, AngleStep
<1>3. AngleInv => RangeConverges
  BY DEF AngleInv
<1>4. QED
  BY <1>1, <1>2, <1>3, PTL DEF Spec

-----------------------------------------------------------------------------
(* GripperClient implements ClientLifecycle, for every configuration and   *)
(* window size: the safety part of ImplementsLifecycle.                    *)

\* The catch block runs with the socket it is about to close
FailInv == ctl \in FailSteps => fd

RefineInv == ThreadsOK /\ FlagsOK /\ Lifecycle /\ FailInv

LEMMA RefineInvInit == Init => RefineInv
<1> SUFFICES ASSUME Init PROVE RefineInv
  OBVIOUS
<1>1. ThreadsOK /\ FlagsOK
  BY TypeInit DEF TypeOK
<1>2. Lifecycle
  BY LifecycleInit
<1>3. FailInv
  BY DEF Init, FailInv, FailSteps
<1>4. QED
  BY <1>1, <1>2, <1>3 DEF RefineInv

LEMMA FailStep == RefineInv /\ [Next]_vars => FailInv'
<1> SUFFICES ASSUME ThreadsOK, Lifecycle, FailInv, [Next]_vars PROVE FailInv'
  BY DEF RefineInv
<1> USE DEF FailInv, ThreadsOK, Lifecycle, StartInv, StartSteps, FailSteps, StopSteps,
            ctlVars, fpsVars, monVars, dataVars
<1>1. CASE InStart
  BY <1>1 DEF InStart, OpenSocket, ResetHealth, StartFps, SetRunning, SpawnReader,
              SpawnMonitor, Connect, FailRun, FailClose, Goto
<1>2. CASE InStop
  BY <1>2 DEF InStop, StopRun, JoinReader, JoinMonitor, StopFps, JoinFps, StopClose,
              Goto
<1>3. CASE StartCall \/ StopCall \/ Configure
  BY <1>3 DEF StartCall, StopCall, Configure, Goto
<1>4. CASE Reader
  BY <1>4 DEF Reader, ReadLoop, RecvTimeout, RecvInterfaceDown, RecvError, ReadError,
              RecvFrame, LimitAngle, FilterAngle, StoreAngle
<1>5. CASE Monitor \/ FpsWorker \/ BusChange
  BY <1>5 DEF Monitor, MonitorCheck, MonitorGetFps, MonitorPush, FpsWorker, FpsLoop,
              FpsTick, BusChange
<1>6. CASE UNCHANGED vars
  BY <1>6 DEF vars
<1>7. QED
  BY <1>1, <1>2, <1>3, <1>4, <1>5, <1>6 DEF Next, Control, Terminated

LEMMA RefineInvStep == RefineInv /\ [Next]_vars => RefineInv'
BY ThreadsStep, FlagsStep, LifecycleStep, FailStep DEF RefineInv

-----------------------------------------------------------------------------
(* Each group of steps, through the mapping. *)

\* Workers and environment change neither `ctl` nor whether a thread object exists
LEMMA WorkersStutter ==
    ASSUME RefineInv, Reader \/ Monitor \/ FpsWorker \/ BusChange
    PROVE  Phase' = Phase /\ Held' = Held
<1> USE DEF Phase, Held, ctlVars, fpsVars, monVars, dataVars
<1>1. CASE Reader
  BY <1>1 DEF Reader, ReadLoop, RecvTimeout, RecvInterfaceDown, RecvError, ReadError,
              RecvFrame, LimitAngle, FilterAngle, StoreAngle
<1>2. CASE Monitor
  BY <1>2 DEF Monitor, MonitorCheck, MonitorGetFps, MonitorPush
<1>3. CASE FpsWorker \/ BusChange
  BY <1>3 DEF FpsWorker, FpsLoop, FpsTick, BusChange
<1>4. QED
  BY <1>1, <1>2, <1>3

LEMMA CallsMap ==
    ASSUME RefineInv, StartCall \/ StopCall \/ Configure
    PROVE  [Life!Next]_(Life!vars)
<1> USE DEF RefineInv, ThreadsOK, FlagsOK, Phase, Held, StartSteps, FailSteps, StopSteps,
            ctlVars, fpsVars, monVars, dataVars, Life!vars, Life!Next, Life!Resting
<1>1. CASE StartCall
  BY <1>1 DEF StartCall, Goto, Life!Start
<1>2. CASE StopCall
  BY <1>2 DEF StopCall, Goto, Life!Stop
<1>3. CASE Configure
  BY <1>3 DEF Configure
<1>4. QED
  BY <1>1, <1>2, <1>3

LEMMA StartMaps ==
    ASSUME RefineInv, InStart
    PROVE  [Life!Next]_(Life!vars)
<1> USE DEF RefineInv, ThreadsOK, FlagsOK, Phase, Held, StartSteps, FailSteps, StopSteps,
            ctlVars, fpsVars, monVars, dataVars, Life!vars, Life!Next, Life!Return, Goto,
            FailInv, Lifecycle, StartInv, ConnectedInv
<1>1. CASE OpenSocket
  BY <1>1 DEF OpenSocket, CleanInv, Quiet, Life!Acquire, Life!Refuse, Life!Break
<1>2. CASE ResetHealth \/ SetRunning
  BY <1>2 DEF ResetHealth, SetRunning
<1>3. CASE StartFps
  BY <1>3 DEF StartFps, Life!Break
<1>4. CASE SpawnReader
  BY <1>4 DEF SpawnReader, CleanInv, Life!Abort
<1>5. CASE SpawnMonitor
  BY <1>5 DEF SpawnMonitor, MonitorInv, Life!Abort
<1>6. CASE Connect
  BY <1>6 DEF Connect, Life!Serve
<1>7. CASE FailRun
  BY <1>7 DEF FailRun
<1>8. CASE FailClose
  BY <1>8 DEF FailClose, Life!Break
<1>9. QED
  BY <1>1, <1>2, <1>3, <1>4, <1>5, <1>6, <1>7, <1>8 DEF InStart

LEMMA StopMaps ==
    ASSUME RefineInv, InStop
    PROVE  [Life!Next]_(Life!vars)
<1> USE DEF RefineInv, ThreadsOK, FlagsOK, Phase, Held, StartSteps, FailSteps, StopSteps,
            ctlVars, fpsVars, monVars, dataVars, Life!vars, Life!Next, Life!Return, Goto,
            FailInv, Lifecycle, StopInv
<1>1. CASE StopRun
  BY <1>1 DEF StopRun
<1>2. CASE JoinReader \/ JoinMonitor
  BY <1>2 DEF JoinReader, JoinMonitor, Life!Release
<1>3. CASE StopFps
  BY <1>3 DEF StopFps
<1>4. CASE JoinFps
  BY <1>4 DEF JoinFps, Life!Release
<1>5. CASE StopClose
  BY <1>5 DEF StopClose, Life!Stopped
<1>6. QED
  BY <1>1, <1>2, <1>3, <1>4, <1>5 DEF InStop

LEMMA StepMaps ==
    ASSUME RefineInv, [Next]_vars
    PROVE  [Life!Next]_(Life!vars)
<1>1. CASE UNCHANGED vars
  BY <1>1 DEF vars, Phase, Held, Life!vars
<1>2. CASE Reader \/ Monitor \/ FpsWorker \/ BusChange
  BY <1>2, WorkersStutter DEF Life!vars
<1>3. QED
  BY <1>1, <1>2, CallsMap, StartMaps, StopMaps DEF Next, Control, Terminated

LEMMA InitMaps == Init => Life!Init
BY DEF Init, Life!Init, Phase, Held, StartSteps, FailSteps, StopSteps

\* Every behaviour of the four threads is, seen by the owner, one of the lifecycle:
\* Start serves with its resources held, fails cleanly or leaves a broken client;
\* Stop ends with nothing held; only the Start of a broken client aborts.
THEOREM RefinesLifecycle == Spec => ImplementsLifecycle
<1>1. Init => RefineInv /\ Life!Init
  BY RefineInvInit, InitMaps
<1>2. RefineInv /\ [Next]_vars => RefineInv' /\ [Life!Next]_(Life!vars)
  BY RefineInvStep, StepMaps
<1>3. QED
  BY <1>1, <1>2, PTL DEF Spec, Life!Spec, ImplementsLifecycle

=============================================================================
