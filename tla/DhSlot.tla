-------------------------------- MODULE DhSlot --------------------------------
(***************************************************************************)
(* DhGripperEndEffectorSlot::AcceptCommand                                  *)
(* (src/src/JeComm/end_effector_slot.cpp) on a gripper's registers: up to    *)
(* four register writes, any of which may fail, with or without effect, and  *)
(* the position reported is the one last written.  The writes are those of   *)
(* RegisterAccess, which ModbusRtu implements.                               *)
(***************************************************************************)
EXTENDS Integers, Sequences

CONSTANTS
    Positions,  \* thousandths a command may ask for: int(position * 1000)
    Forces,     \* forces and speeds
    WordSize,   \* 2^16
    Nothing     \* an absent field, no request, no answer

Registers == {"init", "position", "force", "speed"}
StartInit == 165  \* 0xA5

\* WriteRegisterFunc's parameters are cast to uint16_t
Word(v) == v % WordSize
Words == {Word(v) : v \in Positions \union Forces \union {StartInit, 0, 1, 2}}

VARIABLES regs, pending, got, outcome,  \* the registers and the access in hand
          todo,      \* the writes AcceptCommand has yet to make
          position,  \* current_position_ in thousandths
          doubt      \* a write of the position was reported failed but had its effect

busVars == <<regs, pending, got, outcome>>
vars == <<busVars, todo, position, doubt>>

Bus == INSTANCE RegisterAccess WITH
    Regs <- Registers, Values <- Words, Moving <- {"init"}

Write(r, v) == [reg |-> r, val |-> v]
Writes == [reg: Registers, val: Positions \union Forces \union {StartInit}]

TypeOK ==
    /\ regs \in [Registers -> 0..(WordSize - 1)] /\ pending \in Bus!Requests \union {Nothing}
    /\ got \in Words \union {Nothing}
    /\ todo \in Seq(Writes) /\ Len(todo) <= 4
    /\ position \in Positions \union {Nothing} /\ doubt \in BOOLEAN

\* LoadAndInit has left the gripper initialised; it may stand anywhere
Init ==
    /\ Bus!Init /\ regs["init"] = 1 /\ \A r \in Registers : regs[r] \in 0..1000
    /\ todo = <<>> /\ position = Nothing /\ doubt = FALSE

\* A command's fields, in the order of the code; one without any is rejected
Commands == [init: BOOLEAN, position: Positions \union {Nothing},
             force: Forces \union {Nothing}, speed: Forces \union {Nothing}]

WritesOf(c) ==
    (IF c.init THEN <<Write("init", StartInit)>> ELSE <<>>)
    \o (IF c.position # Nothing THEN <<Write("position", c.position)>> ELSE <<>>)
    \o (IF c.force # Nothing THEN <<Write("force", c.force)>> ELSE <<>>)
    \o (IF c.speed # Nothing THEN <<Write("speed", c.speed)>> ELSE <<>>)

Accept ==
    /\ todo = <<>>
    /\ \E c \in Commands : todo' = WritesOf(c)
    /\ todo' # <<>>
    /\ UNCHANGED <<busVars, position, doubt>>

WriteSingleRegister ==
    /\ todo # <<>>
    /\ pending' = [op |-> "write", reg |-> Head(todo).reg, val |-> Word(Head(todo).val)]
    /\ Bus!Invoke
    /\ UNCHANGED <<todo, position, doubt>>

Effect == Bus!Effect /\ UNCHANGED <<todo, position, doubt>>

\* A position that was written is the one reported from now on
Written ==
    /\ Bus!Succeed
    /\ todo' = Tail(todo)
    /\ IF Head(todo).reg = "position"
       THEN position' = Head(todo).val /\ doubt' = FALSE
       ELSE UNCHANGED <<position, doubt>>

\* Mutant: the position is stored whatever the write returned
NotWrittenStores ==
    /\ Bus!Fail
    /\ todo' = Tail(todo)
    /\ doubt' = (doubt \/ (Head(todo).reg = "position" /\ got # Nothing))
    /\ position' = IF Head(todo).reg = "position" THEN Head(todo).val ELSE position

\* A write that failed is logged, and the next one is made
NotWritten ==
    /\ Bus!Fail
    /\ todo' = Tail(todo)
    /\ doubt' = (doubt \/ (Head(todo).reg = "position" /\ got # Nothing))
    /\ UNCHANGED position

\* The gripper's own changes of its init state (environment)
Initialises ==
    /\ regs["init"] \in {0, StartInit, 2} /\ Bus!Move
    /\ regs'["init"] \in {1, 2} /\ UNCHANGED <<todo, position, doubt>>

Next == Accept \/ WriteSingleRegister \/ Effect \/ Written \/ NotWritten \/ Initialises

Spec == Init /\ [][Next]_vars

-----------------------------------------------------------------------------
(* Properties *)

\* The reported position is where the gripper was told to go, through failed writes of
\* any register and failed acknowledgements of others: unless a position took effect
\* whose write was reported failed.
ReportIsTarget ==
    pending = Nothing /\ position # Nothing /\ ~doubt => regs["position"] = Word(position)

=============================================================================
