-------------------------- MODULE ModbusRtu_proofs --------------------------
(***************************************************************************)
(* ModbusRtu for every register map, frame length, number of tries and     *)
(* backlog: exactness of calm calls under any faults, and the refinement   *)
(* of RegisterAccess on a line whose replies are never late or split.      *)
(***************************************************************************)
EXTENDS ModbusRtu, SequenceTheorems, TLAPS

Timely == Faults \intersect {"late", "split"} = {}

\* While nothing was late or split, at most the reply to the request in hand is on
\* its way: either the request is, or its whole reply is all there is to read.
LineInv ==
    calm =>
        /\ pc = "recv" =>
              \/ wire = <<req>> /\ buf = <<>>
              \/ /\ wire = <<>>
                 /\ \/ buf = <<>>
                    \/ got # Nothing /\ \E good \in BOOLEAN, v \in Values :
                          /\ good => v = got
                          /\ buf = Bytes([req |-> req, val |-> v, good |-> good])
        /\ pc # "recv" => wire = <<>> /\ buf = <<>>

ReqInv == /\ req \in Requests \union {Nothing}
          /\ pc \in {"idle", "send", "recv"} /\ (pc # "idle" => req # Nothing)
          /\ wire \in Seq(Requests)
          /\ pc # "idle" => open /\ result = Nothing
          /\ calm \in BOOLEAN
          /\ regs \in [Regs -> Values]

CalmInv == ReqInv /\ LineInv /\ CalmCallsAreExact

LEMMA LenOfType == \A r \in Requests : LenOf(r) \in Nat \ {0}
BY LenAssumption DEF LenOf

LEMMA BytesLen ==
    ASSUME NEW f, f.req \in Requests
    PROVE  /\ Len(Bytes(f)) = LenOf(f.req)
           /\ Bytes(f) # <<>>
           /\ DOMAIN Bytes(f) = 1..LenOf(f.req)
           /\ \A i \in 1..LenOf(f.req) : Bytes(f)[i] = [frame |-> f, at |-> i]
<1>1. LenOf(f.req) \in Nat \ {0}
  BY LenOfType
<1>2. /\ DOMAIN Bytes(f) = 1..LenOf(f.req)
      /\ \A i \in 1..LenOf(f.req) : Bytes(f)[i] = [frame |-> f, at |-> i]
  BY DEF Bytes
<1>3. Bytes(f) \in Seq({[frame |-> f, at |-> i] : i \in Nat})
  BY <1>1 DEF Bytes
<1>4. Len(Bytes(f)) = LenOf(f.req)
  BY <1>1, <1>2, <1>3
<1>5. Bytes(f) # <<>>
  BY <1>1, <1>4
<1>6. QED
  BY <1>2, <1>4, <1>5

LEMMA ReqStep == ReqInv /\ [Next]_vars => ReqInv'
<1> SUFFICES ASSUME ReqInv, [Next]_vars PROVE ReqInv'
  OBVIOUS
<1> USE DEF ReqInv, slaveVars
<1>1. CASE Open \/ Close \/ Refuse \/ Move
  BY <1>1 DEF Open, Close, Refuse, Move
<1>2. CASE Call
  BY <1>2, NothingAssumption DEF Call
<1>3. CASE Send
  BY <1>3 DEF Send
<1>4. CASE GiveUp \/ Timeout
  BY <1>4 DEF GiveUp, Timeout
<1>5. CASE Receive
  BY <1>5 DEF Receive
<1>6. CASE Serve
  <2>1. wire # <<>> /\ Head(wire) \in Requests /\ wire' = Tail(wire)
        /\ UNCHANGED <<open, pc, req, result, calm>>
    BY <1>6 DEF Serve
  <2>2. regs' \in [Regs -> Values]
    BY <1>6, <2>1 DEF Serve, Requests
  <2>3. QED
    BY <2>1, <2>2
<1>7. CASE LoseRequest
  BY <1>7 DEF LoseRequest
<1>8. CASE UNCHANGED vars
  BY <1>8 DEF vars
<1>9. QED
  BY <1>1, <1>2, <1>3, <1>4, <1>5, <1>6, <1>7, <1>8 DEF Next, Master, Slave

\* What a receive step does to a calm line: it reads the whole reply or ends the calm
LEMMA CalmReceive ==
    ASSUME CalmInv, Receive, calm'
    PROVE  /\ wire' = <<>> /\ buf' = <<>> /\ calm
           /\ got # Nothing
           /\ \/ pc' = "send" /\ result' = result
              \/ pc' = "idle" /\ result' = [req |-> req, val |-> got]
<1>1. calm /\ buf' = <<>> /\ buf # <<>> /\ pc = "recv"
  BY DEF Receive, CalmInv, ReqInv
<1>2. wire = <<>> /\ wire' = wire
  BY <1>1 DEF CalmInv, LineInv, Receive
<1>30. got # Nothing
  BY <1>1 DEF CalmInv, LineInv
<1>3. PICK good \in BOOLEAN, v \in Values :
         /\ good => v = got
         /\ buf = Bytes([req |-> req, val |-> v, good |-> good])
  BY <1>1 DEF CalmInv, LineInv
<1>4. req \in Requests
  BY <1>1 DEF CalmInv, ReqInv
<1>5. buf[1] = [frame |-> [req |-> req, val |-> v, good |-> good], at |-> 1]
  <2>1. 1 \in 1..LenOf(req)
    BY <1>4, LenOfType
  <2>2. QED
    BY <1>3, <1>4, <2>1, BytesLen
<1>6. PICK n \in 1..LenOf(req) :
         /\ n <= Len(buf)
         /\ \/ Accepts(req, SubSeq(buf, 1, n)) /\ pc' = "idle"
               /\ result' = [req |-> req, val |-> buf[1].frame.val]
            \/ pc' = "send" /\ result' = result
  BY DEF Receive
<1>7. SubSeq(buf, 1, n)[1] = buf[1]
  <2> DEFINE f == [req |-> req, val |-> v, good |-> good]
  <2>1. Bytes(f) \in Seq({[frame |-> f, at |-> i] : i \in Nat})
    BY <1>4, LenOfType DEF Bytes
  <2>2. QED
    BY <2>1, <1>3, <1>6
<1>8. Accepts(req, SubSeq(buf, 1, n)) => buf[1].frame.val = got
  BY <1>3, <1>5, <1>7 DEF Accepts
<1>9. QED
  BY <1>1, <1>2, <1>30, <1>6, <1>8

\* A read that may not split a reply empties a buffer that holds just one
LEMMA WholeReply ==
    ASSUME NEW f, f.req \in Requests
    PROVE  SubSeq(Bytes(f), LenOf(f.req) + 1, Len(Bytes(f))) = <<>>
<1>1. LenOf(f.req) \in Nat \ {0} /\ Len(Bytes(f)) = LenOf(f.req)
  BY LenOfType, BytesLen
<1>2. Bytes(f) \in Seq({[frame |-> f, at |-> i] : i \in Nat})
  BY <1>1 DEF Bytes
<1>3. QED
  BY <1>1, <1>2

LEMMA StaysCalm ==
    ASSUME Timely, CalmInv, calm, [Next]_vars
    PROVE  calm'
<1>1. CASE Receive
  <2>1. pc = "recv" /\ buf # <<>> /\ req \in Requests
    BY <1>1 DEF Receive, CalmInv, ReqInv
  <2>2. PICK good \in BOOLEAN, v \in Values :
             buf = Bytes([req |-> req, val |-> v, good |-> good])
    BY <2>1 DEF CalmInv, LineInv
  <2>3. PICK n \in 1..LenOf(req) :
          /\ n = LenOf(req) \/ n = Len(buf)
          /\ buf' = SubSeq(buf, n + 1, Len(buf)) /\ calm' = (calm /\ buf' = <<>>)
    BY <1>1 DEF Receive, Timely
  <2>4. n = LenOf(req) /\ Len(buf) = LenOf(req)
    BY <2>1, <2>2, <2>3, BytesLen
  <2>5. buf' = <<>>
    BY <2>1, <2>2, <2>3, <2>4, WholeReply
  <2>6. QED
    BY <2>3, <2>5
<1>2. CASE Timeout
  BY <1>2 DEF Timeout, Timely
<1>3. CASE Open
  BY <1>3 DEF Open, CalmInv, LineInv
<1>4. CASE calm' = calm
  BY <1>4
<1>5. QED
  BY <1>1, <1>2, <1>3, <1>4 DEF Next, Master, Slave, vars, Close, Refuse, Call, Send,
     GiveUp, Serve, LoseRequest, Move

LEMMA LineSame ==
    ASSUME LineInv, UNCHANGED <<calm, pc, req, wire, buf, got>>
    PROVE  LineInv'
BY DEF LineInv

LEMMA CalmStep == CalmInv /\ [Next]_vars => CalmInv'
<1> SUFFICES ASSUME CalmInv, [Next]_vars PROVE LineInv' /\ CalmCallsAreExact'
  BY ReqStep DEF CalmInv
<1> USE DEF CalmInv, LineInv, CalmCallsAreExact, slaveVars
<1>1. CASE Open
  BY <1>1 DEF Open, ReqInv
<1>2. CASE Close
  BY <1>2 DEF Close
<1>3. CASE Refuse
  <2>1. UNCHANGED <<calm, pc, req, wire, buf, got>>
        /\ (result' = result \/ result' = Nothing)
    BY <1>3 DEF Refuse
  <2>2. LineInv'
    BY <2>1, LineSame
  <2>3. CalmCallsAreExact'
    BY <2>1
  <2>4. QED
    BY <2>2, <2>3
<1>4. CASE Move
  <2>1. UNCHANGED <<calm, pc, req, wire, buf, got>>
        /\ (result' = result \/ result' = Nothing)
    BY <1>4 DEF Move
  <2>2. LineInv'
    BY <2>1, LineSame
  <2>3. CalmCallsAreExact'
    BY <2>1
  <2>4. QED
    BY <2>2, <2>3
<1>5. CASE Call
  BY <1>5 DEF Call
<1>6. CASE Send
  <2>1. pc = "send" /\ UNCHANGED <<req, result, buf, calm, got>> /\ pc' \in {"send", "recv"}
    BY <1>6 DEF Send
  <2>2. calm => wire = <<>> /\ buf = <<>>
    BY <2>1
  <2>3. \/ wire' = Append(wire, req) /\ pc' = "recv"
        \/ wire' = wire /\ pc' = "send"
    BY <1>6 DEF Send
  <2>4. Append(<<>>, req) = <<req>>
    OBVIOUS
  <2>5. LineInv'
    BY <2>1, <2>2, <2>3, <2>4
  <2>6. QED
    BY <2>1, <2>5
<1>7. CASE GiveUp
  <2>1. /\ pc = "send" /\ pc' = "idle" /\ UNCHANGED <<req, result, buf, calm, wire, got>>
    BY <1>7 DEF GiveUp
  <2>2. calm => wire = <<>> /\ buf = <<>>
    BY <2>1
  <2>3. result = Nothing
    BY <2>1 DEF ReqInv
  <2>4. QED
    BY <2>1, <2>2, <2>3
<1>8. CASE Timeout
  BY <1>8 DEF Timeout, ReqInv
<1>9. CASE Receive
  <2>1. ~calm' \/ calm'
    OBVIOUS
  <2>2. pc' # "recv" /\ got' = got
    BY <1>9 DEF Receive
  <2>3. CASE calm'
    <3>1. /\ wire' = <<>> /\ buf' = <<>> /\ calm
          /\ \/ pc' = "send" /\ result' = result
             \/ pc' = "idle" /\ result' = [req |-> req, val |-> got]
      BY <1>9, <2>3, CalmReceive
    <3>2. QED
      BY <2>2, <3>1
  <2>4. QED
    BY <2>3
<1>10. CASE Serve
  <2>1. wire # <<>> /\ wire' = Tail(wire) /\ calm' = calm /\ pc' = pc /\ req' = req
        /\ result' = result /\ open' = open
    BY <1>10 DEF Serve
  <2>2. CASE calm
    <3>1. pc = "recv" /\ wire = <<req>> /\ buf = <<>>
      BY <2>1, <2>2
    <3>2. Head(wire) = req /\ Tail(wire) = <<>> /\ req \in Requests /\ open
      BY <3>1 DEF ReqInv
    <3>6. got' \in Values /\ got' # Nothing
      BY <1>10, <3>1, <3>2, RegsAssumption DEF Serve, ReqInv, Requests
    <3>3. \/ buf' = <<>>
          \/ \E good \in BOOLEAN, v \in Values :
                /\ good => v = got'
                /\ buf' = <<>> \o Bytes([req |-> req, val |-> v, good |-> good])
      BY <1>10, <3>1, <3>2, <3>6 DEF Serve, Reply
    <3>4. ASSUME NEW good \in BOOLEAN, NEW v \in Values
          PROVE <<>> \o Bytes([req |-> req, val |-> v, good |-> good])
                  = Bytes([req |-> req, val |-> v, good |-> good])
      <4> DEFINE f == [req |-> req, val |-> v, good |-> good]
      <4>1. Bytes(f) \in Seq({[frame |-> f, at |-> i] : i \in Nat})
        BY <3>2, LenOfType DEF Bytes
      <4>2. QED
        BY <4>1, ConcatEmptySeq
    <3>5. QED
      BY <2>1, <3>1, <3>2, <3>3, <3>4, <3>6
  <2>3. QED
    BY <2>1, <2>2
<1>11. CASE LoseRequest
  <2>1. wire # <<>> /\ wire' = Tail(wire) /\ UNCHANGED <<pc, req, result, buf, got, calm>>
    BY <1>11 DEF LoseRequest
  <2>2. QED
    BY <2>1
<1>12. CASE UNCHANGED vars
  BY <1>12 DEF vars
<1>13. QED
  BY <1>1, <1>2, <1>3, <1>4, <1>5, <1>6, <1>7, <1>8, <1>9, <1>10, <1>11, <1>12
     DEF Next, Master, Slave

LEMMA CalmInit == Init => CalmInv
BY DEF Init, CalmInv, ReqInv, LineInv, CalmCallsAreExact

\* Whatever the line does, a successful call of a calm line returns the slave's answer
\* to that call.
THEOREM CalmAnswersExact == Spec => []CalmCallsAreExact
<1>1. CalmInv => CalmCallsAreExact
  BY DEF CalmInv
<1>2. QED
  BY <1>1, CalmInit, CalmStep, PTL DEF Spec

-----------------------------------------------------------------------------
(* The refinement. *)

LEMMA AccessInit == Init => Access!Init
BY DEF Init, Access!Init

LEMMA AccessStep ==
    ASSUME CalmInv, calm, calm', [Next]_vars
    PROVE  [Access!Next]_(Access!vars)
<1> USE DEF Access!Next, Access!vars, slaveVars
<1>1. CASE Open \/ Refuse
  BY <1>1 DEF Open, Refuse, Access!Refuse
<1>2. CASE Close
  BY <1>2 DEF Close
<1>3. CASE Call
  <2>1. Requests = Access!Requests
    BY DEF Requests, Access!Requests
  <2>2. QED
    BY <1>3, <2>1, NothingAssumption DEF Call, Access!Invoke
<1>4. CASE Send
  BY <1>4 DEF Send
<1>5. CASE GiveUp
  BY <1>5 DEF GiveUp, Access!Fail, CalmInv, ReqInv
<1>6. CASE Timeout
  BY <1>6 DEF Timeout
<1>7. CASE Receive
  <2>1. pc = "recv" /\ req # Nothing /\ UNCHANGED <<req, regs, got>>
    BY <1>7 DEF Receive, CalmInv, ReqInv
  <2>2. /\ got # Nothing
        /\ \/ pc' = "send" /\ result' = result
           \/ pc' = "idle" /\ result' = [req |-> req, val |-> got]
    BY <1>7, CalmReceive
  <2>3. QED
    BY <2>1, <2>2 DEF Access!Succeed
<1>8. CASE Serve
  <2>1. wire # <<>> /\ pc = "recv" /\ wire = <<req>> /\ req # Nothing
    BY <1>8 DEF Serve, CalmInv, ReqInv, LineInv
  <2>2. Head(wire) = req
    BY <2>1
  <2>3. /\ regs' = IF req.op = "write" THEN [regs EXCEPT ![req.reg] = req.val] ELSE regs
        /\ got' = regs'[req.reg]
        /\ UNCHANGED <<pc, req, result>>
    BY <1>8, <2>2 DEF Serve
  <2>4. QED
    BY <2>1, <2>3 DEF Access!Effect
<1>9. CASE LoseRequest
  BY <1>9 DEF LoseRequest
<1>10. CASE Move
  <2>1. \E r \in Moving, v \in Values : regs' = [regs EXCEPT ![r] = v]
    BY <1>10 DEF Move
  <2>2. UNCHANGED <<pc, req, result, got>>
    BY <1>10 DEF Move
  <2>3. QED
    BY <2>1, <2>2 DEF Access!Move
<1>11. CASE UNCHANGED vars
  BY <1>11 DEF vars
<1>12. QED
  BY <1>1, <1>2, <1>3, <1>4, <1>5, <1>6, <1>7, <1>8, <1>9, <1>10, <1>11
     DEF Next, Master, Slave

\* A calm line makes the master an atomic register access, whatever it did before.
THEOREM CalmRefinesAccess == Spec => CalmAccess
<1>1. Init => CalmInv /\ Access!Init
  BY CalmInit, AccessInit
<1>2. CalmInv /\ [Next]_vars => CalmInv'
  BY CalmStep
<1>3. CalmInv /\ [Next]_vars => [calm /\ calm' => Access!Next]_(Access!vars)
  BY AccessStep
<1>4. QED
  BY <1>1, <1>2, <1>3, PTL DEF Spec, CalmAccess

\* With replies that are lost, corrupted or refused by the port, but never late or split,
\* the retries are invisible: the master is an atomic register access.
THEOREM RefinesAccess == Timely /\ Spec => ImplementsAccess
<1>1. Init => CalmInv /\ calm /\ Access!Init
  BY CalmInit, AccessInit DEF Init
<1>2. Timely /\ CalmInv /\ calm /\ [Next]_vars
        => (CalmInv /\ calm)' /\ [Access!Next]_(Access!vars)
  BY CalmStep, StaysCalm, AccessStep
<1>3. CASE Timely
  <2>1. CalmInv /\ calm /\ [Next]_vars
          => (CalmInv /\ calm)' /\ [Access!Next]_(Access!vars)
    BY <1>2, <1>3
  <2>2. QED
    BY <1>1, <2>1, PTL DEF Spec, ImplementsAccess, Access!Spec
<1>4. CASE ~Timely
  BY <1>4
<1>5. QED
  BY <1>3, <1>4

-----------------------------------------------------------------------------
(* What the bytes in the port stand for, late and split replies included. *)

\* A byte that was not corrupted stands for a real answer: a value its register has had
\* by e, and for a write the value that was asked to be written
Real(b, e) ==
    b.frame.good =>
        /\ b.frame.val \in e[b.frame.req.reg]
        /\ b.frame.req.op = "write" => b.frame.val = b.frame.req.val

AllReal(bytes, e) == \A i \in 1..Len(bytes) : Real(bytes[i], e)

Histories == [Regs -> SUBSET Values]

RealInv ==
    /\ ever \in Histories /\ \A r \in Regs : regs[r] \in ever[r]
    /\ buf \in Seq(ByteSet) /\ AllReal(buf, ever)
    /\ result \in Outcomes \union {Nothing}
    /\ AnswersAreReal

RealAll == ReqInv /\ RealInv

LEMMA RequestFields ==
    \A r \in Requests : /\ r.reg \in Regs /\ r.op \in {"read", "write"}
                        /\ r.op = "write" => r.val \in Values
BY DEF Requests

LEMMA ByteIndex == ASSUME NEW s \in Seq(ByteSet), NEW i \in 1..Len(s) PROVE s[i] \in ByteSet
OBVIOUS

\* Values are only ever added to `ever`
LEMMA RealGrows ==
    ASSUME NEW s \in Seq(ByteSet), NEW e \in Histories, NEW g \in Histories,
           AllReal(s, e), \A r \in Regs : e[r] \subseteq g[r]
    PROVE  AllReal(s, g)
<1> SUFFICES ASSUME NEW i \in 1..Len(s) PROVE Real(s[i], g)
  BY DEF AllReal
<1>1. s[i] \in ByteSet /\ Real(s[i], e)
  BY ByteIndex DEF AllReal
<1>2. s[i].frame.req.reg \in Regs
  BY <1>1, RequestFields DEF ByteSet, Frames
<1>3. QED
  BY <1>1, <1>2 DEF Real

LEMMA RealReply ==
    ASSUME NEW f \in Frames, NEW e \in Histories,
           f.good => f.val \in e[f.req.reg],
           f.good /\ f.req.op = "write" => f.val = f.req.val
    PROVE  Bytes(f) \in Seq(ByteSet) /\ AllReal(Bytes(f), e)
<1>1. f.req \in Requests
  BY DEF Frames
<1>2. /\ LenOf(f.req) \in Nat /\ Len(Bytes(f)) = LenOf(f.req)
      /\ \A i \in 1..LenOf(f.req) : Bytes(f)[i] = [frame |-> f, at |-> i]
  BY <1>1, BytesLen, LenOfType
<1>3. Bytes(f) \in Seq(ByteSet)
  <2>1. \A i \in 1..LenOf(f.req) : [frame |-> f, at |-> i] \in ByteSet
    BY <1>2 DEF ByteSet
  <2>2. Bytes(f) \in [1..LenOf(f.req) -> ByteSet]
    BY <2>1 DEF Bytes
  <2>3. QED
    BY <1>2, <2>2
<1>4. QED
  BY <1>2, <1>3 DEF AllReal, Real

LEMMA RealConcat ==
    ASSUME NEW s \in Seq(ByteSet), NEW t \in Seq(ByteSet), NEW e,
           AllReal(s, e), AllReal(t, e)
    PROVE  s \o t \in Seq(ByteSet) /\ AllReal(s \o t, e)
<1>1. /\ s \o t \in Seq(ByteSet) /\ Len(s \o t) = Len(s) + Len(t)
      /\ \A i \in 1..Len(s) + Len(t) :
            (s \o t)[i] = IF i <= Len(s) THEN s[i] ELSE t[i - Len(s)]
  BY ConcatProperties
<1>2. ASSUME NEW i \in 1..Len(s \o t) PROVE Real((s \o t)[i], e)
  <2>1. CASE i <= Len(s)
    BY <1>1, <2>1 DEF AllReal
  <2>2. CASE ~(i <= Len(s))
    <3>1. i - Len(s) \in 1..Len(t) /\ (s \o t)[i] = t[i - Len(s)]
      BY <1>1, <2>2
    <3>2. QED
      BY <3>1 DEF AllReal
  <2>3. QED
    BY <2>1, <2>2
<1>3. QED
  BY <1>1, <1>2 DEF AllReal

LEMMA RealSuffix ==
    ASSUME NEW s \in Seq(ByteSet), NEW e, AllReal(s, e), NEW n \in 1..Len(s)
    PROVE  SubSeq(s, n + 1, Len(s)) \in Seq(ByteSet) /\ AllReal(SubSeq(s, n + 1, Len(s)), e)
<1>1. \A i \in n + 1..Len(s) : s[i] \in ByteSet
  BY ByteIndex
<1>2. /\ SubSeq(s, n + 1, Len(s)) \in Seq(ByteSet)
      /\ Len(SubSeq(s, n + 1, Len(s))) = IF n + 1 <= Len(s) THEN Len(s) - n ELSE 0
      /\ \A i \in 1..Len(s) - n : SubSeq(s, n + 1, Len(s))[i] = s[n + i]
  <2>1. Len(s) \in Nat /\ n \in Int /\ n + 1 \in Int
    OBVIOUS
  <2>2. QED
    BY <1>1, <2>1, SubSeqProperties
<1>3. ASSUME NEW i \in 1..Len(SubSeq(s, n + 1, Len(s)))
      PROVE  Real(SubSeq(s, n + 1, Len(s))[i], e)
  <2>1. i \in 1..Len(s) - n /\ n + i \in 1..Len(s)
    BY <1>2
  <2>2. QED
    BY <1>2, <2>1 DEF AllReal
<1>4. QED
  BY <1>2, <1>3 DEF AllReal

LEMMA AnswersGrow ==
    ASSUME RealInv, result' = result, ever' \in Histories,
           \A r \in Regs : ever[r] \subseteq ever'[r]
    PROVE  AnswersAreReal'
<1>1. CASE result # Nothing
  <2>1. result.req.reg \in Regs
    BY <1>1, RequestFields DEF RealInv, Outcomes
  <2>2. QED
    BY <1>1, <2>1 DEF RealInv, AnswersAreReal
<1>2. QED
  BY <1>1 DEF AnswersAreReal

LEMMA RealServe == ASSUME RealAll, Serve PROVE RealInv'
<1>1. PICK r \in Requests : r = Head(wire)
  BY DEF RealAll, ReqInv, Serve
<1>2. /\ r.reg \in Regs /\ regs \in [Regs -> Values] /\ ever \in Histories
      /\ buf \in Seq(ByteSet) /\ AllReal(buf, ever) /\ \A q \in Regs : regs[q] \in ever[q]
  BY RequestFields DEF RealAll, ReqInv, RealInv
<1>3. /\ regs' = IF r.op = "write" THEN [regs EXCEPT ![r.reg] = r.val] ELSE regs
      /\ ever' = [ever EXCEPT ![r.reg] = @ \union {regs'[r.reg]}]
      /\ result' = result
  BY <1>1 DEF Serve
<1>4. PICK v \in Values : v = regs'[r.reg] /\ (r.op = "write" => v = r.val)
  BY <1>2, <1>3, RequestFields
<1>5. regs' \in [Regs -> Values]
  BY <1>2, <1>3, RequestFields
<1>6. /\ ever' \in Histories /\ v \in ever'[r.reg]
      /\ \A q \in Regs : ever[q] \subseteq ever'[q] /\ regs'[q] \in ever'[q]
  BY <1>2, <1>3, <1>4, <1>5 DEF Histories
<1>7. AllReal(buf, ever')
  BY <1>2, <1>6, RealGrows
<1>8. \/ buf' = buf
      \/ \E good \in BOOLEAN, w \in Values :
            /\ good => w = v
            /\ buf' = buf \o Bytes([req |-> r, val |-> w, good |-> good])
  BY <1>1, <1>4 DEF Serve, Reply
<1>9. ASSUME NEW good \in BOOLEAN, NEW w \in Values, good => w = v,
             buf' = buf \o Bytes([req |-> r, val |-> w, good |-> good])
      PROVE  buf' \in Seq(ByteSet) /\ AllReal(buf', ever')
  <2>1. PICK f \in Frames : f = [req |-> r, val |-> w, good |-> good]
    BY DEF Frames
  <2>2. Bytes(f) \in Seq(ByteSet) /\ AllReal(Bytes(f), ever')
    BY <2>1, <1>4, <1>6, <1>9, RealReply
  <2>3. QED
    BY <2>1, <2>2, <1>2, <1>7, <1>9, RealConcat
<1>10. AnswersAreReal'
  BY <1>3, <1>6, AnswersGrow DEF RealAll
<1>11. QED
  BY <1>2, <1>3, <1>6, <1>7, <1>8, <1>9, <1>10 DEF RealAll, RealInv

LEMMA RealReceive == ASSUME RealAll, Receive PROVE RealInv'
<1>1. /\ buf \in Seq(ByteSet) /\ buf # <<>> /\ AllReal(buf, ever) /\ ever \in Histories
      /\ pc = "recv" /\ req \in Requests /\ result = Nothing
      /\ UNCHANGED <<regs, ever, req>>
  BY DEF RealAll, RealInv, ReqInv, Receive, slaveVars
<1>2. PICK n \in 1..LenOf(req) :
         /\ n <= Len(buf) /\ buf' = SubSeq(buf, n + 1, Len(buf))
         /\ \/ /\ Accepts(req, SubSeq(buf, 1, n))
               /\ result' = [req |-> req, val |-> buf[1].frame.val]
            \/ result' = result
  BY DEF Receive
<1>3. n \in 1..Len(buf) /\ 1 \in 1..Len(buf)
  BY <1>1, <1>2, LenOfType
<1>4. buf' \in Seq(ByteSet) /\ AllReal(buf', ever')
  BY <1>1, <1>2, <1>3, RealSuffix
<1>5. ASSUME Accepts(req, SubSeq(buf, 1, n)), result' = [req |-> req, val |-> buf[1].frame.val]
      PROVE  result' \in Outcomes /\ AnswersAreReal'
  <2>1. SubSeq(buf, 1, n)[1] = buf[1]
    BY <1>1, <1>3
  <2>2. /\ buf[1].frame.good /\ buf[1].frame.req.op = req.op
        /\ req.op = "write" => buf[1].frame.req = req
    BY <1>5, <2>1 DEF Accepts
  <2>3. buf[1] \in ByteSet /\ Real(buf[1], ever)
    BY <1>1, <1>3, ByteIndex DEF AllReal
  <2>4. /\ buf[1].frame.val \in Values /\ buf[1].frame.req.reg \in Regs
        /\ buf[1].frame.val \in ever[buf[1].frame.req.reg]
        /\ buf[1].frame.req.op = "write" => buf[1].frame.val = buf[1].frame.req.val
    BY <2>2, <2>3, RequestFields DEF ByteSet, Frames, Real
  <2>5. QED
    BY <1>1, <1>5, <2>2, <2>4 DEF Outcomes, AnswersAreReal
<1>6. ASSUME result' = result
      PROVE  result' \in Outcomes \union {Nothing} /\ AnswersAreReal'
  BY <1>1, <1>6 DEF AnswersAreReal
<1>7. result' \in Outcomes \union {Nothing} /\ AnswersAreReal'
  BY <1>1, <1>2, <1>5, <1>6
<1>8. QED
  BY <1>1, <1>4, <1>7 DEF RealAll, RealInv

LEMMA RealStep == RealAll /\ [Next]_vars => RealAll'
<1> SUFFICES ASSUME RealAll, [Next]_vars PROVE RealInv'
  BY ReqStep DEF RealAll
<1>1. CASE Open \/ Close
  <2>1. buf' = <<>> /\ UNCHANGED <<regs, ever>> /\ (result' = result \/ result' = Nothing)
    BY <1>1 DEF Open, Close, slaveVars
  <2>2. buf' \in Seq(ByteSet) /\ AllReal(buf', ever')
    BY <2>1 DEF AllReal
  <2>3. QED
    BY <2>1, <2>2 DEF RealAll, RealInv, AnswersAreReal
<1>2. CASE UNCHANGED <<buf, regs, ever>> /\ (result' = result \/ result' = Nothing)
  BY <1>2 DEF RealAll, RealInv, AnswersAreReal, AllReal, Real
<1>3. CASE Move
  <2>1. PICK r \in Moving, v \in Values :
           /\ regs' = [regs EXCEPT ![r] = v] /\ ever' = [ever EXCEPT ![r] = @ \union {v}]
           /\ UNCHANGED <<buf, result>>
    BY <1>3 DEF Move
  <2>2. /\ regs \in [Regs -> Values] /\ ever \in Histories /\ r \in Regs
        /\ \A q \in Regs : regs[q] \in ever[q]
        /\ buf \in Seq(ByteSet) /\ AllReal(buf, ever)
    BY RegsAssumption DEF RealAll, ReqInv, RealInv
  <2>3. /\ ever' \in Histories
        /\ \A q \in Regs : ever[q] \subseteq ever'[q] /\ regs'[q] \in ever'[q]
    BY <2>1, <2>2 DEF Histories
  <2>4. AllReal(buf', ever')
    BY <2>1, <2>2, <2>3, RealGrows
  <2>5. QED
    BY <2>1, <2>2, <2>3, <2>4, AnswersGrow DEF RealAll, RealInv
<1>4. CASE Serve
  BY <1>4, RealServe
<1>5. CASE Receive
  BY <1>5, RealReceive
<1>6. CASE Refuse \/ Call \/ Send \/ GiveUp \/ Timeout \/ LoseRequest \/ UNCHANGED vars
  BY <1>2, <1>6 DEF Refuse, Call, Send, GiveUp, Timeout, LoseRequest, vars, slaveVars
<1>7. QED
  BY <1>1, <1>3, <1>4, <1>5, <1>6 DEF Next, Master, Slave

LEMMA RealInit == Init => RealAll
<1> SUFFICES ASSUME Init PROVE RealAll
  OBVIOUS
<1>1. ReqInv
  BY CalmInit DEF CalmInv
<1>2. buf = <<>> /\ AllReal(buf, ever)
  BY DEF Init, AllReal
<1>3. QED
  BY <1>1, <1>2 DEF Init, RealAll, RealInv, Histories, AnswersAreReal

\* With every fault of the line: an acknowledged write was applied some time, and a read
\* returns what some register has held.
THEOREM AnswersReal == Spec => []AnswersAreReal
<1>1. RealAll => AnswersAreReal
  BY DEF RealAll, RealInv
<1>2. QED
  BY <1>1, RealInit, RealStep, PTL DEF Spec

\* A call answers what it was answered: to the word on a calm line, and on any line nothing
\* that was not there.
THEOREM RepliesAreSound == Spec => []RepliesSound
BY CalmAnswersExact, AnswersReal, PTL DEF RepliesSound

-----------------------------------------------------------------------------
(* Type correctness, from the two invariants above. *)

CounterInv == open \in BOOLEAN /\ tries \in Nat
GotInv     == got \in Values \union {Nothing}

LEMMA CounterStep == CounterInv /\ [Next]_vars => CounterInv'
<1> SUFFICES ASSUME CounterInv, [Next]_vars PROVE CounterInv'
  OBVIOUS
<1>1. CASE Call
  BY <1>1, TriesAssumption DEF Call, CounterInv
<1>2. CASE Send
  BY <1>2 DEF Send, CounterInv
<1>3. CASE Open \/ Close
  BY <1>3 DEF Open, Close, CounterInv
<1>4. CASE UNCHANGED <<open, tries>>
  BY <1>4 DEF CounterInv
<1>5. QED
  BY <1>1, <1>2, <1>3, <1>4 DEF Next, Master, Slave, Refuse, GiveUp, Timeout, Receive,
     Serve, LoseRequest, Move, vars

LEMMA GotStep == RealAll /\ GotInv /\ [Next]_vars => GotInv'
<1> SUFFICES ASSUME RealAll, GotInv, [Next]_vars PROVE GotInv'
  OBVIOUS
<1>1. CASE Serve
  <2>1. Head(wire) \in Requests /\ regs' \in [Regs -> Values]
    BY <1>1, ReqStep DEF RealAll, ReqInv, Serve
  <2>2. QED
    BY <1>1, <2>1, RequestFields DEF Serve, GotInv
<1>2. CASE got' = got \/ got' = Nothing
  BY <1>2 DEF GotInv
<1>3. QED
  BY <1>1, <1>2 DEF Next, Master, Slave, Open, Close, Refuse, Call, Send, GiveUp,
     Timeout, Receive, LoseRequest, Move, vars, slaveVars

\* All parts of the state keep their types, the port's input buffer included.
THEOREM TypeCorrect == Spec => []TypeOK
<1>0. Init => CounterInv /\ GotInv
  <2>1. Init => open \in BOOLEAN
    BY Zenon DEF Init
  <2>2. Init => tries = 0 /\ got = Nothing
    BY Zenon DEF Init
  <2>3. QED
    BY <2>1, <2>2 DEF CounterInv, GotInv
<1>1. Init => RealAll /\ CounterInv /\ GotInv
  BY <1>0, RealInit
<1>2. (RealAll /\ CounterInv /\ GotInv) /\ [Next]_vars => (RealAll /\ CounterInv /\ GotInv)'
  BY RealStep, CounterStep, GotStep
<1>3. RealAll /\ CounterInv /\ GotInv => TypeOK
  BY DEF RealAll, ReqInv, RealInv, CounterInv, GotInv, Histories, TypeOK
<1>4. QED
  BY <1>1, <1>2, <1>3, PTL DEF Spec

=============================================================================
