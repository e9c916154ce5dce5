--------------------------- MODULE RegisterAccess ----------------------------
(***************************************************************************)
(* What a caller of ModbusRtuMaster expects: a call takes effect on the     *)
(* slave's register while it runs (a retried write perhaps several times)   *)
(* and, if it succeeds, answers with the value that effect saw or left.     *)
(***************************************************************************)
CONSTANTS Regs, Values, Moving, Nothing

VARIABLES regs,     \* the slave's registers
          pending,  \* the request in hand, or Nothing
          got,      \* what its last effect saw or left, or Nothing
          outcome   \* what the last call answered

vars == <<regs, pending, got, outcome>>

Requests == [op: {"read"}, reg: Regs, val: {Nothing}]
                \union [op: {"write"}, reg: Regs, val: Values]

Init == /\ regs \in [Regs -> Values]
        /\ pending = Nothing /\ got = Nothing /\ outcome = Nothing

Invoke == /\ pending = Nothing
          /\ pending' \in Requests /\ got' = Nothing /\ outcome' = Nothing
          /\ UNCHANGED regs

Effect == /\ pending # Nothing
          /\ regs' = IF pending.op = "write"
                     THEN [regs EXCEPT ![pending.reg] = pending.val] ELSE regs
          /\ got' = regs'[pending.reg]
          /\ UNCHANGED <<pending, outcome>>

Succeed == /\ pending # Nothing /\ got # Nothing
           /\ outcome' = [req |-> pending, val |-> got]
           /\ pending' = Nothing /\ UNCHANGED <<regs, got>>

Fail == /\ pending # Nothing
        /\ pending' = Nothing /\ UNCHANGED <<regs, got, outcome>>

\* A call on a closed port, and opening it: there is no last answer
Refuse == pending = Nothing /\ outcome' = Nothing /\ UNCHANGED <<regs, pending, got>>

\* Status registers change by themselves
Move == /\ \E r \in Moving, v \in Values : regs' = [regs EXCEPT ![r] = v]
        /\ UNCHANGED <<pending, got, outcome>>

Next == Invoke \/ Effect \/ Succeed \/ Fail \/ Refuse \/ Move

Spec == Init /\ [][Next]_vars
=============================================================================
