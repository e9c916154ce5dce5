------------------------------ MODULE ModbusRtu ------------------------------
(***************************************************************************)
(* ModbusRtuMaster (src/src/JeComm/dh_modbus_rtu.cpp) on its transport,     *)
(* with one slave: requests are repeated until a reply passes the checks or *)
(* the tries are used up, a read waits 200 ms for the first byte and takes  *)
(* what has arrived, and nothing ever empties the port's input.             *)
(*                                                                         *)
(* A reply is a frame of EchoLen or ReplyLen bytes; a byte is the frame it  *)
(* belongs to and its place in it, which is what the CRC tells apart.       *)
(***************************************************************************)
EXTENDS Integers, Sequences

CONSTANTS
    Regs, Values, \* registers and the 16-bit values used
    Moving,       \* registers the slave changes by itself
    Nothing,      \* no request, no outcome
    EchoLen,      \* 8: bytes of the echo that acknowledges a write
    ReplyLen,     \* 7: bytes of the answer to a read
    WriteTries,   \* 3
    ReadTries,    \* 100
    Faults,       \* what the line may do: see below
    Backlog       \* bound: no call starts with more bytes than this unread or to come

\* lost: a request or reply vanishes; corrupt: a reply fails its CRC; short: a write
\* to the port fails; late: a reply comes after the 200 ms; split: in two pieces
AllFaults == {"lost", "corrupt", "short", "late", "split"}

ASSUME LenAssumption == EchoLen \in Nat \ {0} /\ ReplyLen \in Nat \ {0}
ASSUME TriesAssumption == WriteTries \in Nat \ {0} /\ ReadTries \in Nat \ {0}
ASSUME FaultsAssumption == Faults \subseteq AllFaults
ASSUME RegsAssumption == Moving \subseteq Regs /\ Nothing \notin Values
ASSUME BacklogAssumption == Backlog \in Nat

Requests == [op: {"read"}, reg: Regs, val: {Nothing}]
                \union [op: {"write"}, reg: Regs, val: Values]

ASSUME NothingAssumption == Nothing \notin Requests

VARIABLES
    open,     \* transport_ is set and open
    pc,       \* "idle", "send" or "recv": where the calling thread is
    req, tries, result,
    wire,     \* requests on their way to the slave
    regs,     \* the slave's registers
    buf,      \* bytes in the port's input buffer
    got,      \* what the slave answered last, for this call (history)
    ever,     \* values each register has had (history)
    calm      \* no reply was late or split since the input was last empty (history)

slaveVars == <<regs, got, ever>>
vars == <<open, pc, req, tries, result, wire, regs, buf, got, ever, calm>>

Frames == [req: Requests, val: Values, good: BOOLEAN]
LenOf(r) == IF r.op = "write" THEN EchoLen ELSE ReplyLen
Bytes(f) == [i \in 1..LenOf(f.req) |-> [frame |-> f, at |-> i]]
ByteSet  == [frame: Frames, at: Nat]
Outcomes == [req: Requests, val: Values]

TypeOK ==
    /\ open \in BOOLEAN /\ pc \in {"idle", "send", "recv"}
    /\ req \in Requests \union {Nothing} /\ (pc # "idle" => req # Nothing)
    /\ tries \in Nat
    /\ result \in Outcomes \union {Nothing}
    /\ wire \in Seq(Requests) /\ buf \in Seq(ByteSet)
    /\ regs \in [Regs -> Values] /\ got \in Values \union {Nothing}
    /\ ever \in [Regs -> SUBSET Values] /\ calm \in BOOLEAN

Init ==
    /\ open = FALSE /\ pc = "idle" /\ req = Nothing /\ tries = 0 /\ result = Nothing
    /\ wire = <<>> /\ buf = <<>> /\ got = Nothing /\ calm = TRUE
    /\ regs \in [Regs -> Values] /\ ever = [r \in Regs |-> {regs[r]}]

-----------------------------------------------------------------------------
(* The caller. *)

\* Opening a port, and closing it, leaves no input behind
Open ==
    /\ pc = "idle" /\ ~open
    /\ open' = TRUE /\ buf' = <<>> /\ calm' = (wire = <<>>) /\ result' = Nothing
    /\ UNCHANGED <<pc, req, tries, wire, slaveVars>>

Close ==
    /\ pc = "idle" /\ open
    /\ open' = FALSE /\ buf' = <<>>
    /\ UNCHANGED <<pc, req, tries, result, wire, slaveVars, calm>>

Refuse ==
    /\ pc = "idle" /\ ~open /\ result' = Nothing
    /\ UNCHANGED <<open, pc, req, tries, wire, slaveVars, buf, calm>>

Call ==
    /\ pc = "idle" /\ open /\ Len(buf) + EchoLen * Len(wire) <= Backlog
    /\ pc' = "send" /\ req' \in Requests
    /\ tries' = IF req'.op = "write" THEN WriteTries ELSE ReadTries
    /\ result' = Nothing /\ got' = Nothing
    /\ UNCHANGED <<open, wire, regs, ever, buf, calm>>

Send ==
    /\ pc = "send" /\ tries > 0
    /\ tries' = tries - 1
    /\ \/ wire' = Append(wire, req) /\ pc' = "recv"
       \/ "short" \in Faults /\ UNCHANGED <<wire, pc>>
    /\ UNCHANGED <<open, req, result, slaveVars, buf, calm>>

\* Mutant: a call that used up its tries reports success
GiveUpSuccessfully ==
    /\ pc = "send" /\ tries = 0
    /\ pc' = "idle"
    /\ result' = [req |-> req, val |-> IF req.op = "write" THEN req.val ELSE 0]
    /\ UNCHANGED <<open, req, tries, wire, slaveVars, buf, calm>>

\* The tries are used up
GiveUp ==
    /\ pc = "send" /\ tries = 0
    /\ pc' = "idle"
    /\ UNCHANGED <<open, req, tries, result, wire, slaveVars, buf, calm>>

\* Mutant: a timeout goes on waiting without sending again
TimeoutWaits ==
    /\ pc = "recv" /\ buf = <<>>
    /\ wire = <<>> \/ "late" \in Faults
    /\ calm' = (calm /\ wire = <<>>)
    /\ UNCHANGED <<open, pc, req, tries, result, wire, slaveVars, buf>>

\* select() ran out. A timely slave runs out only if something was lost
Timeout ==
    /\ pc = "recv" /\ buf = <<>>
    /\ wire = <<>> \/ "late" \in Faults
    /\ pc' = "send"
    /\ calm' = (calm /\ wire = <<>>)
    /\ UNCHANGED <<open, req, tries, result, wire, slaveVars, buf>>

\* Mutant: the CRC of an answer is not compared
AcceptsUnchecked(r, bytes) ==
    /\ Len(bytes) = LenOf(r)
    /\ LET f == bytes[1].frame
       IN /\ \A i \in DOMAIN bytes : bytes[i] = [frame |-> f, at |-> i]
          /\ f.req.op = r.op
          /\ r.op = "write" => f.req = r

\* rdlen, memcmp with the request, or CRC and header: a read's answer names no register
Accepts(r, bytes) ==
    /\ Len(bytes) = LenOf(r)
    /\ LET f == bytes[1].frame
       IN /\ \A i \in DOMAIN bytes : bytes[i] = [frame |-> f, at |-> i]
          /\ f.good /\ f.req.op = r.op
          /\ r.op = "write" => f.req = r

Receive ==
    /\ pc = "recv" /\ buf # <<>>
    /\ \E n \in 1..LenOf(req) :
          /\ n <= Len(buf)
          /\ n = LenOf(req) \/ n = Len(buf) \/ "split" \in Faults
          /\ buf' = SubSeq(buf, n + 1, Len(buf))
          /\ calm' = (calm /\ buf' = <<>>)
          /\ IF Accepts(req, SubSeq(buf, 1, n))
             THEN /\ result' = [req |-> req, val |-> buf[1].frame.val]
                  /\ pc' = "idle"
             ELSE pc' = "send" /\ UNCHANGED result
    /\ UNCHANGED <<open, req, tries, wire, slaveVars>>

-----------------------------------------------------------------------------
(* The slave and the line (environment). *)

Reply(f) == buf' = IF open THEN buf \o Bytes(f) ELSE buf

Serve ==
    /\ wire # <<>>
    /\ LET r == Head(wire)
       IN /\ wire' = Tail(wire)
          /\ regs' = IF r.op = "write" THEN [regs EXCEPT ![r.reg] = r.val] ELSE regs
          /\ ever' = [ever EXCEPT ![r.reg] = @ \union {regs'[r.reg]}]
          /\ got' = regs'[r.reg]
          /\ \/ Reply([req |-> r, val |-> regs'[r.reg], good |-> TRUE])
             \/ /\ "corrupt" \in Faults
                /\ \E v \in Values : Reply([req |-> r, val |-> v, good |-> FALSE])
             \/ "lost" \in Faults /\ UNCHANGED buf
    /\ UNCHANGED <<open, pc, req, tries, result, calm>>

LoseRequest ==
    /\ wire # <<>> /\ "lost" \in Faults
    /\ wire' = Tail(wire)
    /\ UNCHANGED <<open, pc, req, tries, result, slaveVars, buf, calm>>

Move ==
    /\ \E r \in Moving, v \in Values :
          regs' = [regs EXCEPT ![r] = v] /\ ever' = [ever EXCEPT ![r] = @ \union {v}]
    /\ UNCHANGED <<open, pc, req, tries, result, wire, buf, got, calm>>

Master == Send \/ GiveUp \/ Timeout \/ Receive
Slave  == Serve \/ LoseRequest
Next   == Open \/ Close \/ Refuse \/ Call \/ Master \/ Slave \/ Move

Spec == Init /\ [][Next]_vars
Fair == WF_vars(Master) /\ WF_vars(Slave)

-----------------------------------------------------------------------------
(* Properties *)

\* While no reply has been late or split, a call that succeeds answers what the slave
\* answered to this very call: retries after losses, failed CRCs and failed writes
\* never leave an answer behind for a later call.
CalmCallsAreExact ==
    pc = "idle" /\ result # Nothing /\ calm => result.val = got

\* Even with late and split replies: a write reported as done was done some time, and
\* what a read returns was the content of some register, never a piece of two frames.
AnswersAreReal ==
    result # Nothing =>
        IF result.req.op = "write"
        THEN result.val = result.req.val /\ result.val \in ever[result.req.reg]
        ELSE \E r \in Regs : result.val \in ever[r]

\* What a call answers is what it was answered, whatever the line does.
RepliesSound == CalmCallsAreExact /\ AnswersAreReal

\* Every call ends: no reply, a reply that never passes the checks and a port that
\* refuses every write all use up the tries.
CallsEnd == pc # "idle" ~> pc = "idle"

\* On a line without late or split replies the master is an atomic register access.
Access == INSTANCE RegisterAccess
              WITH pending <- IF pc = "idle" THEN Nothing ELSE req,
                   outcome <- result
ImplementsAccess == Access!Spec

\* Under any faults, it is one as long as it is calm: late and split replies cost the
\* atomicity, and only until the port is opened anew with nothing under way.
CalmAccess == Access!Init /\ [][calm /\ calm' => Access!Next]_(Access!vars)

=============================================================================
