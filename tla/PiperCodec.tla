------------------------------ MODULE PiperCodec ------------------------------
(***************************************************************************)
(* ProtocolCodec (src/src/JeComm/piper/internal/protocol_codec.cpp) between  *)
(* the client and the gripper: commands go out encoded, frames of any kind   *)
(* come in, and the reader keeps what the feedback among them says.          *)
(***************************************************************************)
EXTENDS Integers, Sequences

CONSTANTS
    Base,                \* values of a byte, 256; TLC takes fewer
    Angles, Efforts,     \* what commands carry, and what the gripper measures
    Statuses,
    CtrlId, FeedbackId, OtherId  \* CAN identifiers

Byte  == 0..(Base - 1)
Word2 == Base * Base
Word4 == Word2 * Word2
Int16 == (-(Word2 \div 2))..(Word2 \div 2 - 1)
Int32 == (-(Word4 \div 2))..(Word4 \div 2 - 1)

-----------------------------------------------------------------------------
(* The codec. *)

\* A cast to a signed type of `size` values
Signed(raw, size) == IF raw >= size \div 2 THEN raw - size ELSE raw

BytesOfInt32(v) == << (v \div (Word2 * Base)) % Base, (v \div Word2) % Base,
                      (v \div Base) % Base, v % Base >>

Int32FromBigEndian(d) ==
    Signed(d[1] * Word2 * Base + d[2] * Word2 + d[3] * Base + d[4], Word4)

Int16FromBigEndian(d) == Signed(d[1] * Base + d[2], Word2)

EncodeGripperCtrl(c) ==
    BytesOfInt32(c.angle)
    \o << (c.effort \div Base) % Base, c.effort % Base, c.status, c.zero >>

IsFeedback(f) == f.id = FeedbackId /\ f.dlc >= 7

DecodeGripperFeedback(f) ==
    [angle  |-> Int32FromBigEndian(SubSeq(f.data, 1, 4)),
     effort |-> Int16FromBigEndian(SubSeq(f.data, 5, 6)),
     status |-> f.data[7]]

-----------------------------------------------------------------------------
(* The bus. A measurement is sent as two's complement, most significant byte first. *)

TwosComplement(v, n) ==
    LET size == IF n = 4 THEN Word4 ELSE Word2
        rest[k \in 0..n] == IF k = 0 THEN (v + size) % size ELSE rest[k - 1] \div Base
    IN [k \in 1..n |-> rest[n - k] % Base]

Measurements == [angle: Angles, effort: Efforts, status: Statuses]
Commands == [angle: Angles, effort: Efforts \intersect Nat, status: Statuses, zero: Byte]

FeedbackOf(m) ==
    [id |-> FeedbackId, dlc |-> 8,
     data |-> TwosComplement(m.angle, 4) \o TwosComplement(m.effort, 2) \o <<m.status, 0>>]

VARIABLES frame,    \* the frame on the bus, or <<>>
          meant,    \* what its sender meant by it
          out,      \* the reader's last feedback
          last      \* the last measurement sent in a whole feedback frame (history)

vars == <<frame, meant, out, last>>

Zero == [angle |-> 0, effort |-> 0, status |-> 0]
Init == frame = <<>> /\ meant = Zero /\ out = Zero /\ last = Zero

GripperCtrl ==
    /\ frame = <<>>
    /\ meant' \in Commands
    /\ frame' = [id |-> CtrlId, dlc |-> 8, data |-> EncodeGripperCtrl(meant')]
    /\ UNCHANGED <<out, last>>

\* The gripper's feedback, whole or cut short, and frames of other devices
Arrive ==
    /\ frame = <<>>
    /\ meant' \in Measurements
    /\ \E id \in {FeedbackId, OtherId}, dlc \in {6, 8} :
          /\ frame' = [FeedbackOf(meant') EXCEPT !.id = id, !.dlc = dlc]
          /\ last' = IF id = FeedbackId /\ dlc = 8 THEN meant' ELSE last
    /\ UNCHANGED out

\* The reader sees what it did not send itself
Receive ==
    /\ frame # <<>>
    /\ frame' = <<>>
    /\ out' = IF frame.id # CtrlId /\ IsFeedback(frame)
              THEN DecodeGripperFeedback(frame) ELSE out
    /\ UNCHANGED <<meant, last>>

Next == GripperCtrl \/ Arrive \/ Receive
Spec == Init /\ [][Next]_vars

-----------------------------------------------------------------------------
(* Properties *)

TypeOK ==
    /\ frame # <<>> => frame.data \in [1..8 -> Byte] /\ frame.dlc \in 0..8
    /\ out \in [angle: Int32, effort: Int16, status: Byte]

\* Once a frame is read, what the reader has is the last whole feedback's measurement,
\* negative angles and efforts included: nothing of a short or a foreign frame.
DecodeIsExact == frame = <<>> => out = last

\* What goes out says what was meant: read as two's complement, most significant byte
\* first, the first four bytes are the angle, the next two the effort.
EncodeIsExact ==
    frame # <<>> /\ frame.id = CtrlId =>
        frame.data = TwosComplement(meant.angle, 4) \o TwosComplement(meant.effort, 2)
                         \o <<meant.status, meant.zero>>

=============================================================================
