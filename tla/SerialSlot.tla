------------------------------ MODULE SerialSlot ------------------------------
(***************************************************************************)
(* SerialEndEffectorSlot::AcceptCommand with EndEffectorDevice               *)
(* (src/src/JeComm/end_effector_slot.cpp, end_effector_device.cpp): which     *)
(* bytes a command puts on the serial line, and what a hand that reads them  *)
(* one by one makes of them.  The cool-down of preset 99 is ReinitCooldown's. *)
(***************************************************************************)
EXTENDS Integers, Sequences, SequencesExt

CONSTANTS
    Modes,      \* modes a command may name
    Positions,  \* positions a command may ask for, in tenths
    Presets,    \* presets a command may ask for
    None        \* an absent field

MaxPosition == 2000
Byte == 0..255

-----------------------------------------------------------------------------
(* EndEffectorDevice. *)

ChecksumSum(payload) == FoldLeft(+, 0, payload) % 256
Frame(payload) == <<85, 170>> \o payload \o <<ChecksumSum(payload)>>

MotorIds == <<1, 2, 3, 4, 5, 6>>
StopAll          == Frame(<<5, 6>> \o MotorIds)
StopMotor(id)    == Frame(<<5, 1, id>>)
TwoFinger(pct)   == Frame(<<9, pct, 0>>)
ThreeFinger(pct) == Frame(<<10, pct, 0>>)
SetPositions(m6) == Frame(<<3, 6>> \o MotorIds \o <<0, 0, 0, 0, 0, m6 \div 256, m6 % 256>>)
Reinit           == <<2, 255, 0>>   \* raw bytes, without header and checksum

\* std::lround: halves away from zero
Round(tenths) == IF tenths >= 0 THEN (tenths + 5) \div 10 ELSE -((5 - tenths) \div 10)
Clamp(pos) == IF pos < 0 THEN 0 ELSE IF pos > MaxPosition THEN MaxPosition ELSE pos

HandlePosition(tenths) == SetPositions(Clamp(Round(tenths)))

Known == 0..6 \union {10, 11, 20, 21, 99}
HandlePreset(p) ==
    CASE p = 0 -> StopAll
      [] p \in 1..6 -> StopMotor(p)
      [] p \in {10, 11} -> TwoFinger(IF p = 10 THEN 0 ELSE 71)
      [] p \in {20, 21} -> ThreeFinger(IF p = 20 THEN 0 ELSE 88)
      [] p = 99 -> Reinit
      [] OTHER -> <<>>

-----------------------------------------------------------------------------
(* The slot, and a hand at the other end of the line (environment). *)

Commands == [mode: Modes \union {None}, position: Positions \union {None},
             preset: Presets \union {None}]

\* Mode 0 needs a position, mode 1 a preset; anything else is logged and dropped
BytesFor(c) ==
    IF c.mode = 0 /\ c.position # None THEN HandlePosition(c.position)
    ELSE IF c.mode = 1 /\ c.preset # None THEN HandlePreset(c.preset)
    ELSE <<>>

VARIABLES line,     \* bytes on their way
          orders,   \* commands whose bytes were written and not yet understood (history)
          hand,     \* bytes the hand has of the frame it is reading
          done      \* frames the hand has understood, with the commands they came from

vars == <<line, orders, hand, done>>

Init == line = <<>> /\ orders = <<>> /\ hand = <<>> /\ done = <<>>

\* The write is all or nothing (dh_transport.cpp:134)
AcceptCommand ==
    /\ line = <<>> /\ hand = <<>>
    /\ \E c \in Commands :
          LET bytes == BytesFor(c)
          IN \/ /\ bytes # <<>> /\ line' = bytes /\ orders' = <<c>>
             \/ UNCHANGED <<line, orders>>   \* nothing to send, or the write failed
    /\ done' = <<>> /\ UNCHANGED hand

\* How long the frame in hand is, as far as its first bytes tell: none of the frames of
\* a kind differ in length
LengthOf(f) ==
    IF f[1] # 85 THEN 3
    ELSE IF Len(f) < 4 THEN 4
    ELSE IF f[3] = 3 THEN 18
    ELSE IF f[3] = 5 THEN 5 + f[4] ELSE 6

\* The hand takes the next byte; a frame that is complete is understood if its checksum
\* is right
Read ==
    /\ line # <<>>
    /\ line' = Tail(line)
    /\ LET f == Append(hand, Head(line))
           ok == f = Reinit \/ Last(f) = ChecksumSum(SubSeq(f, 3, Len(f) - 1))
       IN IF Len(f) < LengthOf(f)
          THEN hand' = f /\ UNCHANGED <<orders, done>>
          ELSE /\ hand' = <<>>
               /\ done' = IF ok THEN <<f, orders[1]>> ELSE <<>>
               /\ orders' = <<>>

Next == AcceptCommand \/ Read
Spec == Init /\ [][Next]_vars

-----------------------------------------------------------------------------
(* Properties *)

TypeOK == /\ line \in Seq(Byte) /\ hand \in Seq(Byte)
          /\ Len(orders) <= 1 /\ Len(done) \in {0, 2}

\* A hand that reads byte by byte, by header, kind and checksum, understands every frame
\* that was written, up to its last byte: no frame is longer or shorter than its kind
\* tells, so none swallows a byte of the next or leaves one behind.
AllUnderstood == line = <<>> => hand = <<>> /\ orders = <<>>

\* What it understands is what the command asked for: motor 6 at the position rounded
\* and held between 0 and 2000, the five others at 0.
PositionArrives ==
    done # <<>> /\ done[2].mode = 0 =>
        LET f == done[1]
        IN /\ f[3] = 3 /\ \A i \in 11..15 : f[i] = 0
           /\ 256 * f[16] + f[17] \in 0..MaxPosition
           /\ LET off == 10 * (256 * f[16] + f[17]) - done[2].position
              IN \/ off \in -5..5
                 \/ f[16] = 0 /\ f[17] = 0 /\ off > 0
                 \/ 256 * f[16] + f[17] = MaxPosition /\ off < 0

\* Two presets never look alike on the line, and the frames the comments spell out
\* (end_effector_device.cpp:96-129) are the ones sent.
PresetsDiffer ==
    done # <<>> /\ done[2].mode = 1 =>
        /\ done[2].preset \in Known
        /\ \A p \in Known : HandlePreset(p) = done[1] => p = done[2].preset
        /\ done[2].preset = 0 => done[1] = <<85, 170, 5, 6, 1, 2, 3, 4, 5, 6, 32>>

=============================================================================
