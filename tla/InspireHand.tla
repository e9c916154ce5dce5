----------------------------- MODULE InspireHand -----------------------------
(***************************************************************************)
(* The register writes to the two hands of the show plugin                 *)
(* (src/src/inspire.cpp).  A frame is an extended CAN identifier as bytes, *)
(* then each value as two bytes, low byte first.  The identifier is put    *)
(* together as a text of bits, without the leading zeros of the address    *)
(* and, later, without leading zero bytes: only some addresses end up in   *)
(* the field the hand reads them from.                                     *)
(***************************************************************************)
EXTENDS Integers, Sequences, SequencesExt

CONSTANTS Ids,          \* hand identifiers
          Values        \* finger positions

Byte == 0..255
Fingers == 1..6

\* regdict
Registers == [ID |-> 1000, baudrate |-> 1001, clearErr |-> 1003, forceClb |-> 1008,
              angleSet |-> 1480, forceSet |-> 1486, speedSet |-> 1498, angleAct |-> 1510,
              forceAct |-> 1528, errCode |-> 1540, statusCode |-> 1546, temp |-> 1552,
              actionSeq |-> 2320, actionRun |-> 2322]

\* The three registers of six finger values
FingerRegisters == {"angleSet", "forceSet", "speedSet"}

\* How many bits are left of n > 0 without its leading zeros
BitLength(n) == CHOOSE l \in 1..16 : 2^(l - 1) <= n /\ n < 2^l

\* "0000010", the bits of the address, the 14 bits of the hand's identifier
ExtId(address, id) == 2 * 2^(BitLength(address) + 14) + address * 2^14 + id

\* The bytes of n, the highest first, without leading zero bytes
NumberToBytes(n) ==
    LET count == CHOOSE c \in 1..4 : (c = 4 \/ n < 256^c) /\ (c = 1 \/ n >= 256^(c - 1))
    IN  [k \in 1..count |-> (n \div 256^(count - k)) % 256]

ValueBytes(v) == <<v % 256, (v \div 256) % 256>>

\* What write_register sends
Frame(address, values, id) ==
    NumberToBytes(ExtId(address, id)) \o FlattenSeq([f \in Fingers |-> ValueBytes(values[f])])

-----------------------------------------------------------------------------
VARIABLES asked,        \* register, values and identifier of the last write6
          line          \* the bytes of the last frame

vars == <<asked, line>>

Requests == [reg: FingerRegisters, values: [Fingers -> Values], id: Ids]

Init == asked = <<>> /\ line = <<>>

\* Frames do not depend on each other: one is looked at
Write6 ==
    asked = <<>> /\ \E q \in Requests :
        /\ asked' = <<q>>
        /\ line' = Frame(Registers[q.reg], q.values, q.id)

Next == Write6

Spec == Init /\ [][Next]_vars

-----------------------------------------------------------------------------
(* What the hand takes from a frame (external): bit 26 of the identifier asks for a   *)
(* write, bits 14 to 25 are the register, bits 0 to 13 the hand.                        *)

Word(b) == b[1] * 256^3 + b[2] * 256^2 + b[3] * 256 + b[4]

Taken(f) ==
    LET e == Word(f) IN
    [write |-> (e \div 2^26) % 8, reg |-> (e \div 2^14) % 2^12, id |-> e % 2^14,
     values |-> [k \in Fingers |-> f[3 + 2 * k] + 256 * f[4 + 2 * k]]]

(* Properties *)

TypeOK == line \in Seq(Byte) /\ Len(line) \in {0, 16}

\* A write of six finger values reaches the hand, the register and the fingers it names:
\* dropping zeros moves no field for these registers.
FingersReached ==
    \A k \in DOMAIN asked :
        Taken(line) = [write |-> 1, reg |-> Registers[asked[k].reg], id |-> asked[k].id,
                       values |-> asked[k].values]

=============================================================================
