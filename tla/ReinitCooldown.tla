--------------------------- MODULE ReinitCooldown ---------------------------
(***************************************************************************)
(* EndEffectorDevice::HandlePreset(99): re-initialise the end effector at  *)
(* most once per cool-down period, decided without a lock by a             *)
(* compare-exchange loop on last_reinit_ms_.  Any number of threads may be *)
(* inside the call; each reads the steady clock once, before the loop.     *)
(***************************************************************************)
EXTENDS Integers, Sequences

CONSTANTS Threads,     \* callers of HandlePreset
          Cooldown,    \* 2000 ms
          MaxTime      \* bound: the clock of the model stops here

ASSUME CooldownAssumption == Cooldown \in Nat \ {0}
ASSUME TimeAssumption == MaxTime \in Nat

None == -1             \* last_reinit_ms_ before the first re-initialisation

VARIABLES
    clock,     \* steady_clock, in ms
    last,      \* last_reinit_ms_
    pc, now,   \* per thread: position in the call, and its `now`
    seen,      \* per thread: the `last` it loaded
    claims     \* history: the `now` of each successful compare-exchange, in order

vars == <<clock, last, pc, now, seen, claims>>

TypeOK ==
    /\ clock \in Nat
    /\ last \in Nat \union {None}
    /\ pc \in [Threads -> {"out", "load", "test", "cas", "send"}]
    /\ now \in [Threads -> Nat]
    /\ seen \in [Threads -> Nat \union {None}]
    /\ claims \in Seq(Nat)

Init ==
    /\ clock = 0 /\ last = None /\ claims = <<>>
    /\ pc = [t \in Threads |-> "out"]
    /\ now = [t \in Threads |-> 0]
    /\ seen = [t \in Threads |-> None]

Tick ==
    /\ clock < MaxTime
    /\ clock' = clock + 1
    /\ UNCHANGED <<last, pc, now, seen, claims>>

Goto(t, from, to) == pc[t] = from /\ pc' = [pc EXCEPT ![t] = to]

\* The locals of a call end with it
Return(t) == now' = [now EXCEPT ![t] = 0] /\ seen' = [seen EXCEPT ![t] = None]

\* now = NowSteadyMs()
Call(t) ==
    /\ Goto(t, "out", "load")
    /\ now' = [now EXCEPT ![t] = clock]
    /\ UNCHANGED <<clock, last, seen, claims>>

Load(t) ==
    /\ Goto(t, "load", "test")
    /\ seen' = [seen EXCEPT ![t] = last]
    /\ UNCHANGED <<clock, last, now, claims>>

\* A thread whose clock reading is older than the claim it sees also cools down
Cooling(t) == seen[t] >= 0 /\ now[t] - seen[t] < Cooldown

Ignore(t) ==
    /\ Cooling(t)
    /\ Goto(t, "test", "out") /\ Return(t)
    /\ UNCHANGED <<clock, last, claims>>

Try(t) ==
    /\ ~Cooling(t)
    /\ Goto(t, "test", "cas")
    /\ UNCHANGED <<clock, last, now, seen, claims>>

\* Mutant: a plain store instead of the compare-exchange
ClaimByStore(t) ==
    /\ Goto(t, "cas", "send")
    /\ last' = now[t]
    /\ claims' = Append(claims, now[t])
    /\ UNCHANGED <<clock, now, seen>>

\* compare_exchange_weak succeeds ...
Claim(t) ==
    /\ last = seen[t]
    /\ Goto(t, "cas", "send")
    /\ last' = now[t]
    /\ claims' = Append(claims, now[t])
    /\ UNCHANGED <<clock, now, seen>>

\* ... or fails: another thread updated last, or it fails spuriously
Retry(t) ==
    /\ Goto(t, "cas", "load")
    /\ UNCHANGED <<clock, last, now, seen, claims>>

\* Reinit writes 02 FF 00; whether the write succeeds is not looked at
Send(t) ==
    /\ Goto(t, "send", "out") /\ Return(t)
    /\ UNCHANGED <<clock, last, claims>>

Step(t) == Load(t) \/ Ignore(t) \/ Try(t) \/ Claim(t) \/ Retry(t) \/ Send(t)

Next == Tick \/ \E t \in Threads : Call(t) \/ Step(t)

Spec == Init /\ [][Next]_vars

\* Threads inside the call run; a compare-exchange that could succeed again and
\* again does not fail spuriously for ever
Fair == \A t \in Threads : WF_vars(Step(t)) /\ SF_vars(Claim(t))

-----------------------------------------------------------------------------
(* Properties *)

\* "If executed once, ignore further commands within 2 seconds": any two executions
\* are decided on clock readings at least the cool-down apart, in order.
ClaimsSpaced ==
    \A i, j \in DOMAIN claims : i < j => claims[j] - claims[i] >= Cooldown

\* A command is dropped only because an execution lies less than the cool-down
\* before its own clock reading, or after it: a device at rest never ignores one.
NoIdleDrop ==
    [][\A t \in Threads : Ignore(t) =>
          \E i \in DOMAIN claims : now[t] - claims[i] < Cooldown]_vars

\* The retry loop ends: threads cannot keep each other from finishing.
CallsReturn == \A t \in Threads : pc[t] # "out" ~> pc[t] = "out"

=============================================================================
