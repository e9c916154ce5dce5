-------------------------------- MODULE Devices --------------------------------
(***************************************************************************)
(* The way from a DH slot's command to a device and back: the slot on      *)
(* atomic registers, the Modbus master that provides them on a faulty      *)
(* line, and the transport the line is.  The initial state chooses the     *)
(* layer a behaviour is about; they meet at RegisterAccess.                *)
(***************************************************************************)
EXTENDS ModbusRtu

CONSTANTS
    Positions, Forces, WordSize,   \* DH slot
    Fds, MaxLen                    \* transport

ASSUME SlotAssumption ==
    /\ Positions \subseteq Int /\ Forces \subseteq Int /\ WordSize \in Nat \ {0}
    /\ Nothing \notin Int
ASSUME TransportAssumption == Nothing \notin Fds /\ MaxLen \in Nat

VARIABLES
    layer,                                                   \* the layer in hand
    registers, access, answer, outcome, todo, position, doubt, \* DH slot
    kind, rateKnown, vmin, owner, fd, raw, rateSet, timed,     \* transport
    at, ret, len, off, out, input, signalled

Slot == INSTANCE DhSlot WITH regs <- registers, pending <- access, got <- answer

Line == INSTANCE DeviceTransport WITH None <- Nothing, pc <- at

slotVars == <<registers, access, answer, outcome, todo, position, doubt>>
lineVars == <<kind, rateKnown, vmin, owner, fd, raw, rateSet, timed,
              at, ret, len, off, out, input, signalled>>

DevicesInit ==
    /\ layer \in {"slot", "master", "line"}
    /\ Init /\ (layer # "master" => \A r \in Regs : regs[r] = 0)
    /\ Slot!Init /\ (layer # "slot" => \A r \in Slot!Registers : registers[r] = 1)
    /\ Line!Init /\ (layer # "line" => kind = "tcp" /\ rateKnown /\ vmin = 0)

DevicesNext ==
    /\ UNCHANGED layer
    /\ \/ layer = "slot" /\ Slot!Next /\ UNCHANGED <<vars, lineVars>>
       \/ layer = "master" /\ Next /\ UNCHANGED <<slotVars, lineVars>>
       \/ layer = "line" /\ Line!Next /\ UNCHANGED <<vars, slotVars>>

\* The fairness of each layer holds of the layer in hand
DevicesSpec ==
    /\ DevicesInit /\ [][DevicesNext]_<<layer, vars, slotVars, lineVars>>
    /\ WF_vars(layer = "master" /\ Master)
    /\ WF_vars(layer = "master" /\ Slave)
    /\ WF_lineVars(layer = "line" /\ at # "idle" /\ Line!Open)
    /\ WF_lineVars(layer = "line" /\ (Line!WriteChunk \/ Line!WriteEnds))
    /\ WF_lineVars(layer = "line" /\ Line!SelectEnds)
    /\ WF_lineVars(layer = "line" /\ Line!ReadEnds)

-----------------------------------------------------------------------------
(* Properties *)

\* The slot reports the position the gripper was last told, over every failed write.
ReportHolds == Slot!TypeOK /\ Slot!ReportIsTarget

\* A transport keeps its one descriptor through every failed open and close and never
\* closes one of the rest of the process, a ready port is set up, and a write in pieces
\* delivers every byte once.
TransportSafe ==
    /\ [](Line!TypeOK /\ Line!NoDescriptorLost /\ Line!ReadyIsConfigured /\ Line!WrittenWhole)
    /\ Line!NeverClosesOthers

\* Every call ends, of the master and of the transport below it, whatever the line does.
EveryCallEnds == CallsEnd /\ Line!CallsReturn

=============================================================================
