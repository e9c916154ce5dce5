----------------------------- MODULE Devices_proofs -----------------------------
(***************************************************************************)
(* The DH slot on its registers, for any positions, forces and word size,  *)
(* and the transport below the Modbus master, for any descriptors and      *)
(* lengths.  (The master itself is ModbusRtu_proofs'.)                     *)
(***************************************************************************)
EXTENDS Devices, TLAPS

-----------------------------------------------------------------------------
(* The slot. *)

\* The writes of a command: a position is one of Positions
SlotWrites == {w \in Slot!Writes : w.reg = "position" => w.val \in Positions}
TodoInv == todo \in Seq(SlotWrites)

\* The access in hand is the first write AcceptCommand has yet to make
PendingInv ==
    access # Nothing =>
        /\ todo # <<>>
        /\ access = [op |-> "write", reg |-> Head(todo).reg, val |-> Slot!Word(Head(todo).val)]

Settled == position # Nothing /\ ~doubt => registers["position"] = Slot!Word(position)

\* A write of the position that has taken effect is the one in hand; otherwise the
\* register is where the reported position says
PositionInv ==
    IF access # Nothing /\ access.reg = "position" /\ answer # Nothing
    THEN registers["position"] = access.val
    ELSE Settled

SlotInv == Slot!TypeOK /\ TodoInv /\ PendingInv /\ PositionInv

LEMMA WordsInRange ==
    /\ Slot!Words \subseteq 0..(WordSize - 1) /\ Nothing \notin Slot!Words
    /\ \A v \in Positions \union Forces \union {Slot!StartInit} : Slot!Word(v) \in Slot!Words
<1>1. \A v \in Int : Slot!Word(v) \in 0..(WordSize - 1)
  BY SlotAssumption DEF Slot!Word
<1>2. Positions \union Forces \union {Slot!StartInit, 0, 1, 2} \subseteq Int
  BY SlotAssumption DEF Slot!StartInit
<1>3. QED
  BY <1>1, <1>2, SlotAssumption DEF Slot!Words

\* A field of a command makes one write or none
LEMMA OneOrNone == ASSUME NEW S, NEW p \in BOOLEAN, NEW x, p => x \in S
                   PROVE  /\ (IF p THEN <<x>> ELSE <<>>) \in Seq(S)
                          /\ Len(IF p THEN <<x>> ELSE <<>>) <= 1
  OBVIOUS

LEMMA OneMore == ASSUME NEW S, NEW s \in Seq(S), NEW t \in Seq(S), NEW n \in Nat,
                        Len(s) <= n, Len(t) <= 1
                 PROVE  s \o t \in Seq(S) /\ Len(s \o t) <= n + 1
  OBVIOUS

LEMMA WritesOfType == ASSUME NEW c \in Slot!Commands
                      PROVE  Slot!WritesOf(c) \in Seq(SlotWrites) /\ Len(Slot!WritesOf(c)) <= 4
<1> DEFINE a == IF c.init THEN <<Slot!Write("init", Slot!StartInit)>> ELSE <<>>
           b == IF c.position # Nothing THEN <<Slot!Write("position", c.position)>> ELSE <<>>
           f == IF c.force # Nothing THEN <<Slot!Write("force", c.force)>> ELSE <<>>
           s == IF c.speed # Nothing THEN <<Slot!Write("speed", c.speed)>> ELSE <<>>
<1>1. /\ Slot!Write("init", Slot!StartInit) \in SlotWrites
      /\ c.position # Nothing => Slot!Write("position", c.position) \in SlotWrites
      /\ c.force # Nothing => Slot!Write("force", c.force) \in SlotWrites
      /\ c.speed # Nothing => Slot!Write("speed", c.speed) \in SlotWrites
      /\ c.init \in BOOLEAN
  BY DEF Slot!Write, Slot!Writes, SlotWrites, Slot!Registers, Slot!Commands
<1>2. a \in Seq(SlotWrites) /\ Len(a) <= 1
  BY <1>1, OneOrNone
<1>3. b \in Seq(SlotWrites) /\ Len(b) <= 1
  BY <1>1, OneOrNone
<1>4. f \in Seq(SlotWrites) /\ Len(f) <= 1
  BY <1>1, OneOrNone
<1>5. s \in Seq(SlotWrites) /\ Len(s) <= 1
  BY <1>1, OneOrNone
<1>6. Slot!WritesOf(c) = ((a \o b) \o f) \o s
  BY DEF Slot!WritesOf
<1> HIDE DEF a, b, f, s
<1>7. a \o b \in Seq(SlotWrites) /\ Len(a \o b) <= 1 + 1
  BY <1>2, <1>3, OneMore
<1>8. (a \o b) \o f \in Seq(SlotWrites) /\ Len((a \o b) \o f) <= 2 + 1
  BY <1>7, <1>4, OneMore
<1>9. ((a \o b) \o f) \o s \in Seq(SlotWrites) /\ Len(((a \o b) \o f) \o s) <= 3 + 1
  BY <1>8, <1>5, OneMore
<1>10. QED
  BY <1>6, <1>9

\* What is written is a write; the access in hand is one, too
LEMMA HeadIsWrite == ASSUME TodoInv, todo # <<>>
                     PROVE  /\ Head(todo) \in SlotWrites /\ Tail(todo) \in Seq(SlotWrites)
                            /\ Len(Tail(todo)) = Len(todo) - 1
                            /\ Head(todo).reg \in Slot!Registers
                            /\ Slot!Word(Head(todo).val) \in Slot!Words
<1>1. Head(todo) \in SlotWrites /\ Tail(todo) \in Seq(SlotWrites) /\ Len(Tail(todo)) = Len(todo) - 1
  BY DEF TodoInv
<1>2. /\ Head(todo).reg \in Slot!Registers
      /\ Head(todo).val \in Positions \union Forces \union {Slot!StartInit}
  BY <1>1 DEF SlotWrites, Slot!Writes
<1>3. QED
  BY <1>1, <1>2, WordsInRange

LEMMA SlotInit == ASSUME Slot!Init PROVE SlotInv
<1>1. registers \in [Slot!Registers -> Slot!Words]
  BY DEF Slot!Init, Slot!Bus!Init
<1>2. \A r \in Slot!Registers : registers[r] \in 0..(WordSize - 1)
  BY <1>1, WordsInRange
<1>3. registers \in [Slot!Registers -> 0..(WordSize - 1)]
  BY <1>1, <1>2
<1>4. todo = <<>> /\ todo \in Seq(Slot!Writes) /\ Len(todo) <= 4 /\ TodoInv
  BY DEF Slot!Init, TodoInv
<1>5. QED
  BY <1>3, <1>4 DEF Slot!Init, Slot!Bus!Init, SlotInv, Slot!TypeOK, PendingInv, PositionInv, Settled

\* A sequence of writes that respect the positions is one of writes
LEMMA SlotWritesAreWrites == ASSUME NEW s \in Seq(SlotWrites) PROVE s \in Seq(Slot!Writes)
  BY DEF SlotWrites

LEMMA SlotStep == ASSUME SlotInv, Slot!Next \/ UNCHANGED slotVars PROVE SlotInv'
<1> USE DEF SlotInv
<1>1. CASE Slot!Accept
  <2>1. PICK c \in Slot!Commands : todo' = Slot!WritesOf(c)
    BY <1>1 DEF Slot!Accept
  <2>2. todo' \in Seq(SlotWrites) /\ Len(todo') <= 4 /\ todo' \in Seq(Slot!Writes)
    BY <2>1, WritesOfType, SlotWritesAreWrites
  <2>3. UNCHANGED <<registers, access, answer, outcome, position, doubt>> /\ access = Nothing
    BY <1>1 DEF Slot!Accept, Slot!busVars, PendingInv
  <2>4. QED
    BY <2>2, <2>3 DEF Slot!TypeOK, TodoInv, PendingInv, PositionInv, Settled
<1>2. CASE Slot!WriteSingleRegister
  <2>1. /\ access = Nothing /\ access' \in Slot!Bus!Requests /\ answer' = Nothing
        /\ todo # <<>>
        /\ access' = [op |-> "write", reg |-> Head(todo).reg, val |-> Slot!Word(Head(todo).val)]
        /\ UNCHANGED <<registers, todo, position, doubt>>
    BY <1>2 DEF Slot!WriteSingleRegister, Slot!Bus!Invoke
  <2>2. Slot!TypeOK'
    BY <2>1 DEF Slot!TypeOK
  <2>3. TodoInv' /\ PendingInv' /\ PositionInv'
    BY <2>1 DEF TodoInv, PendingInv, PositionInv, Settled
  <2>4. QED
    BY <2>2, <2>3
<1>3. CASE Slot!Effect
  <2>1. /\ access # Nothing /\ todo # <<>>
        /\ access = [op |-> "write", reg |-> Head(todo).reg, val |-> Slot!Word(Head(todo).val)]
        /\ registers' = [registers EXCEPT ![access.reg] = access.val]
        /\ answer' = registers'[access.reg]
        /\ UNCHANGED <<access, todo, position, doubt>>
    BY <1>3 DEF Slot!Effect, Slot!Bus!Effect, PendingInv
  <2>2. access.reg \in Slot!Registers /\ access.val \in Slot!Words
    BY <2>1, HeadIsWrite
  <2>3. /\ registers \in [Slot!Registers -> 0..(WordSize - 1)]
        /\ registers' \in [Slot!Registers -> 0..(WordSize - 1)] /\ answer' = access.val
    BY <2>1, <2>2, WordsInRange DEF Slot!TypeOK
  <2>4. Slot!TypeOK'
    BY <2>1, <2>2, <2>3 DEF Slot!TypeOK
  <2>5. TodoInv' /\ PendingInv'
    BY <2>1 DEF TodoInv, PendingInv
  <2>6. PositionInv'
    <3>1. CASE access.reg = "position"
      BY <2>1, <2>2, <2>3, <3>1, WordsInRange DEF PositionInv, Slot!Registers
    <3>2. CASE access.reg # "position"
      <4>1. registers'["position"] = registers["position"]
        BY <2>1, <2>3, <3>2 DEF Slot!Registers
      <4>2. QED
        BY <2>1, <3>2, <4>1 DEF PositionInv, Settled
    <3>3. QED
      BY <3>1, <3>2
  <2>7. QED
    BY <2>4, <2>5, <2>6
<1>4. CASE Slot!Written
  <2>1. /\ access # Nothing /\ answer # Nothing /\ todo # <<>> /\ access' = Nothing
        /\ access = [op |-> "write", reg |-> Head(todo).reg, val |-> Slot!Word(Head(todo).val)]
        /\ todo' = Tail(todo) /\ UNCHANGED <<registers, answer>>
        /\ IF Head(todo).reg = "position"
           THEN position' = Head(todo).val /\ doubt' = FALSE
           ELSE UNCHANGED <<position, doubt>>
    BY <1>4 DEF Slot!Written, Slot!Bus!Succeed, PendingInv
  <2>2. /\ todo' \in Seq(SlotWrites) /\ Len(todo') <= 4 /\ todo' \in Seq(Slot!Writes)
        /\ Head(todo) \in SlotWrites
    BY <2>1, HeadIsWrite, SlotWritesAreWrites DEF Slot!TypeOK
  <2>3. position' \in Positions \union {Nothing} /\ doubt' \in BOOLEAN
    BY <2>1, <2>2 DEF SlotWrites, Slot!TypeOK
  <2>4. Slot!TypeOK'
    BY <2>1, <2>2, <2>3 DEF Slot!TypeOK
  <2>5. TodoInv' /\ PendingInv'
    BY <2>1, <2>2 DEF TodoInv, PendingInv
  <2>6. PositionInv'
    BY <2>1 DEF PositionInv, Settled
  <2>7. QED
    BY <2>4, <2>5, <2>6
<1>5. CASE Slot!NotWritten
  <2>1. /\ access # Nothing /\ todo # <<>> /\ access' = Nothing
        /\ access = [op |-> "write", reg |-> Head(todo).reg, val |-> Slot!Word(Head(todo).val)]
        /\ todo' = Tail(todo) /\ UNCHANGED <<registers, answer, position>>
        /\ doubt' = (doubt \/ (Head(todo).reg = "position" /\ answer # Nothing))
    BY <1>5 DEF Slot!NotWritten, Slot!Bus!Fail, PendingInv
  <2>2. todo' \in Seq(SlotWrites) /\ Len(todo') <= 4 /\ todo' \in Seq(Slot!Writes)
    BY <2>1, HeadIsWrite, SlotWritesAreWrites DEF Slot!TypeOK
  <2>3. Slot!TypeOK'
    BY <2>1, <2>2 DEF Slot!TypeOK
  <2>4. TodoInv' /\ PendingInv'
    BY <2>1, <2>2 DEF TodoInv, PendingInv
  <2>5. PositionInv'
    BY <2>1 DEF PositionInv, Settled
  <2>6. QED
    BY <2>3, <2>4, <2>5
<1>6. CASE Slot!Initialises
  <2>1. PICK v \in Slot!Words : registers' = [registers EXCEPT !["init"] = v]
    BY <1>6 DEF Slot!Initialises, Slot!Bus!Move
  <2>2. UNCHANGED <<access, answer, outcome, todo, position, doubt>>
    BY <1>6 DEF Slot!Initialises, Slot!Bus!Move
  <2>3. registers \in [Slot!Registers -> 0..(WordSize - 1)] /\ v \in 0..(WordSize - 1)
    BY WordsInRange DEF Slot!TypeOK
  <2>4. /\ registers' \in [Slot!Registers -> 0..(WordSize - 1)]
        /\ registers'["position"] = registers["position"]
    BY <2>1, <2>3 DEF Slot!Registers
  <2>5. QED
    BY <2>2, <2>4 DEF Slot!TypeOK, TodoInv, PendingInv, PositionInv, Settled
<1>7. CASE UNCHANGED slotVars
  BY <1>7 DEF slotVars, Slot!TypeOK, TodoInv, PendingInv, PositionInv, Settled
<1>8. QED
  BY <1>1, <1>2, <1>3, <1>4, <1>5, <1>6, <1>7 DEF Slot!Next

\* What the slot reports is where the gripper was last told to go, over every write that
\* failed, with or without effect, of the position or of another register.
THEOREM PositionIsKept == DevicesSpec => []ReportHolds
<1>1. DevicesInit => SlotInv
  BY SlotInit DEF DevicesInit
<1>2. SlotInv /\ [DevicesNext]_<<layer, vars, slotVars, lineVars>> => SlotInv'
  BY SlotStep DEF DevicesNext
<1>3. SlotInv => ReportHolds
  BY DEF SlotInv, PendingInv, PositionInv, Settled, ReportHolds, Slot!ReportIsTarget
<1>4. QED
  BY <1>1, <1>2, <1>3, PTL DEF DevicesSpec

-----------------------------------------------------------------------------
(* The transport. *)

\* A descriptor in the making is the transport's, and there is none beside fd_; a serial
\* transport holds no other
DescriptorInv ==
    /\ IF at \in {"setup", "timing"}
       THEN raw \in Fds /\ owner[raw] = "own" /\ fd = Nothing
       ELSE raw = Nothing
    /\ fd # Nothing => owner[fd] = "own"
    /\ kind # "tcp" => Line!Own \subseteq {fd, raw}
    /\ at = "timing" => kind = "dh"

\* A call that reported the data written has written all of them; the next write starts anew
WriteInv ==
    /\ out = [i \in 1..off |-> i]
    /\ ret = "written" /\ at # "write" => off = len

LineInv == Line!TypeOK /\ DescriptorInv /\ WriteInv /\ Line!ReadyIsConfigured

\* The next n bytes after the first m of the data
LEMMA NextBytes == ASSUME NEW m \in Nat, NEW n \in Nat
                   PROVE  [i \in 1..m |-> i] \o [i \in 1..n |-> m + i] = [i \in 1..(m + n) |-> i]
<1> DEFINE s == [i \in 1..m |-> i]  t == [i \in 1..n |-> m + i]
<1>1. s \in Seq(Nat) /\ Len(s) = m /\ t \in Seq(Nat) /\ Len(t) = n
  OBVIOUS
<1>2. s \o t \in Seq(Nat) /\ Len(s \o t) = m + n
  BY <1>1
<1>3. \A i \in 1..(m + n) : (s \o t)[i] = i
  <2> TAKE i \in 1..(m + n)
  <2>1. CASE i <= m
    BY <1>1, <2>1
  <2>2. CASE i > m
    <3>1. i - m \in 1..n /\ (s \o t)[i] = t[i - m]
      BY <1>1, <2>2
    <3>2. QED
      BY <3>1
  <2>3. QED
    BY <2>1, <2>2
<1>4. QED
  BY <1>2, <1>3

LEMMA LineInit == ASSUME Line!Init PROVE LineInv
<1>1. out = <<>> /\ off = 0 /\ out = [i \in 1..off |-> i]
  BY DEF Line!Init
<1>2. WriteInv /\ out \in Seq(1..MaxLen) /\ off \in 0..len /\ len \in 0..MaxLen
  BY <1>1, TransportAssumption DEF Line!Init, WriteInv
<1>3. owner \in [Fds -> {"free", "own", "other"}] /\ Line!Own = {}
  BY DEF Line!Init, Line!Own
<1>4. QED
  BY <1>2, <1>3
  DEF Line!Init, LineInv, Line!TypeOK, Line!Results, DescriptorInv, Line!ReadyIsConfigured

LEMMA LineStep == ASSUME LineInv, Line!Next \/ UNCHANGED lineVars
                  PROVE  LineInv' /\ \A d \in Fds : owner[d] = "other" => owner'[d] = "other"
<1> USE TransportAssumption
    DEF LineInv, Line!TypeOK, Line!Results, DescriptorInv, Line!Own, Line!ReadyIsConfigured,
        Line!configVars, Line!lineVars, Line!writeVars, Line!Return
<1>1. CASE Line!OpenAgain
  BY <1>1 DEF Line!OpenAgain, WriteInv
<1>2. CASE Line!OpenDescriptor
  <2>1. /\ fd = Nothing /\ raw = Nothing /\ at = "idle" /\ rateSet' = FALSE /\ timed' = FALSE
        /\ UNCHANGED <<kind, rateKnown, vmin, fd, len, off, out, input, signalled>>
    BY <1>2 DEF Line!OpenDescriptor
  <2>2. CASE at' = "idle" /\ ret' = "failed" /\ UNCHANGED <<owner, raw>>
    BY <2>1, <2>2 DEF WriteInv
  <2>3. ASSUME NEW d \in Fds, owner[d] = "free", owner' = [owner EXCEPT ![d] = "own"],
               raw' = d, at' = "setup", UNCHANGED ret
        PROVE  LineInv' /\ \A e \in Fds : owner[e] = "other" => owner'[e] = "other"
    <3>1. /\ owner' \in [Fds -> {"free", "own", "other"}] /\ owner'[d] = "own"
          /\ \A e \in Fds \ {d} : owner'[e] = owner[e]
      BY <2>3
    <3>2. kind # "tcp" => Line!Own' \subseteq {d}
      BY <2>1, <3>1
    <3>3. QED
      BY <2>1, <2>3, <3>1, <3>2 DEF WriteInv
  <2>4. QED
    BY <1>2, <2>2, <2>3 DEF Line!OpenDescriptor
<1>3. CASE Line!SetupLegacy
  BY <1>3 DEF Line!SetupLegacy, Line!Keep, Line!Drop, WriteInv
<1>4. CASE Line!SetupDevice
  <2>1. /\ at = "setup" /\ kind = "dh" /\ at' = "timing" /\ rateSet' \in BOOLEAN
        /\ UNCHANGED <<kind, rateKnown, vmin, owner, fd, raw, timed, ret, len, off, out, input,
                       signalled>>
    BY <1>4 DEF Line!SetupDevice
  <2>2. DescriptorInv' /\ Line!ReadyIsConfigured'
    BY <2>1
  <2>3. QED
    BY <2>1, <2>2 DEF WriteInv
<1>5. CASE Line!ApplyOptions
  BY <1>5 DEF Line!ApplyOptions, Line!Keep, Line!Drop, WriteInv
<1>6. CASE Line!ConnectSocket
  BY <1>6 DEF Line!ConnectSocket, Line!Keep, Line!Forget, WriteInv
<1>7. CASE Line!Close
  <2>1. /\ at = "idle" /\ fd \in Fds /\ fd' = Nothing /\ owner[fd] = "own"
        /\ owner' = [owner EXCEPT ![fd] = "free"] /\ input' = FALSE
        /\ UNCHANGED <<kind, rateKnown, vmin, raw, rateSet, timed, at, ret, len, off, out,
                       signalled>>
    BY <1>7 DEF Line!Close
  <2>2. /\ owner' \in [Fds -> {"free", "own", "other"}] /\ owner'[fd] = "free"
        /\ \A d \in Fds \ {fd} : owner'[d] = owner[d]
    BY <2>1
  <2>3. DescriptorInv' /\ Line!ReadyIsConfigured'
    BY <2>1, <2>2
  <2>4. Line!TypeOK'
    BY <2>1, <2>2
  <2>5. QED
    BY <2>1, <2>2, <2>3, <2>4 DEF WriteInv
<1>8. CASE Line!OthersOpen
  BY <1>8 DEF Line!OthersOpen, WriteInv
<1>9. CASE Line!Refuse
  BY <1>9 DEF Line!Refuse, WriteInv
<1>10. CASE Line!WriteCall
  BY <1>10 DEF Line!WriteCall, WriteInv
<1>11. CASE Line!WriteChunk
  <2>1. PICK n \in 1..(len - off) : out' = out \o [i \in 1..n |-> off + i] /\ off' = off + n
    BY <1>11 DEF Line!WriteChunk
  <2>2. off \in Nat /\ n \in Nat /\ off' \in 0..len /\ len \in 0..MaxLen
    BY <2>1
  <2>3. out' = [i \in 1..off' |-> i]
    BY <2>1, <2>2, NextBytes DEF WriteInv
  <2>4. out' \in Seq(1..MaxLen)
    BY <2>2, <2>3
  <2>5. at = "write" /\ UNCHANGED <<kind, rateKnown, vmin, owner, fd, raw, rateSet, timed, at, ret,
                                     len, input, signalled>>
    BY <1>11 DEF Line!WriteChunk
  <2>6. QED
    BY <2>2, <2>3, <2>4, <2>5 DEF WriteInv
<1>12. CASE Line!WriteEnds
  BY <1>12 DEF Line!WriteEnds, WriteInv
<1>13. CASE Line!ReadCall
  <2>1. /\ at = "idle" /\ at' = "select" /\ signalled' = FALSE
        /\ UNCHANGED <<kind, rateKnown, vmin, owner, fd, raw, rateSet, timed, ret, len, off,
                       out, input>>
    BY <1>13 DEF Line!ReadCall
  <2>2. Line!TypeOK'
    BY <2>1
  <2>3. DescriptorInv' /\ Line!ReadyIsConfigured'
    BY <2>1
  <2>4. QED
    BY <2>1, <2>2, <2>3 DEF WriteInv
<1>14. CASE Line!Arrive
  BY <1>14 DEF Line!Arrive, WriteInv
<1>15. CASE Line!SelectEnds
  BY <1>15 DEF Line!SelectEnds, WriteInv
<1>16. CASE Line!SelectInterrupted
  BY <1>16 DEF Line!SelectInterrupted, WriteInv
<1>17. CASE Line!ReadEnds
  <2>1. /\ at = "read" /\ at' = "idle" /\ ret' \in {"read", "empty"} /\ input' \in BOOLEAN
        /\ UNCHANGED <<kind, rateKnown, vmin, owner, fd, raw, rateSet, timed, len, off, out,
                       signalled>>
    BY <1>17 DEF Line!ReadEnds
  <2>2. Line!TypeOK'
    BY <2>1
  <2>3. DescriptorInv' /\ Line!ReadyIsConfigured'
    BY <2>1
  <2>4. QED
    BY <2>1, <2>2, <2>3 DEF WriteInv
<1>18. CASE UNCHANGED lineVars
  BY <1>18 DEF lineVars, WriteInv
<1>19. QED
  BY <1>1, <1>2, <1>3, <1>4, <1>5, <1>6, <1>7, <1>8, <1>9, <1>10, <1>11, <1>12, <1>13, <1>14,
     <1>15, <1>16, <1>17, <1>18
  DEF Line!Next, Line!Open

\* Whatever fails while a descriptor is opened, set up, written to, read and closed: a serial
\* transport has its one descriptor or none, no close reaches a descriptor of the rest of the
\* process, a ready port is set up, and a write that reports success wrote every byte once.
THEOREM TransportIsSafe == DevicesSpec => TransportSafe
<1>1. DevicesInit => LineInv
  BY LineInit DEF DevicesInit
<1>2. LineInv /\ [DevicesNext]_<<layer, vars, slotVars, lineVars>>
         => /\ LineInv'
            /\ [\A d \in Fds : owner[d] = "other" => owner'[d] = "other"]_(Line!vars)
  BY LineStep DEF DevicesNext
<1>3. LineInv => Line!TypeOK /\ Line!NoDescriptorLost /\ Line!ReadyIsConfigured /\ Line!WrittenWhole
  BY TransportAssumption
  DEF LineInv, Line!TypeOK, DescriptorInv, WriteInv, Line!NoDescriptorLost, Line!Own,
      Line!WrittenWhole
<1>4. QED
  BY <1>1, <1>2, <1>3, PTL DEF DevicesSpec, TransportSafe, Line!NeverClosesOthers

================================================================================
