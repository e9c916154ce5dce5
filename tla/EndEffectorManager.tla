-------------------------- MODULE EndEffectorManager --------------------------
(***************************************************************************)
(* EndEffectorManager::LoadAndInit with the Init of each kind of slot        *)
(* (src/src/JeComm/end_effector_manager.cpp, end_effector_slot.cpp): the     *)
(* slots of a configuration are built and started one after another, and    *)
(* the first that fails ends the call; destructors give back what it took.  *)
(*                                                                         *)
(* A Piper slot's Start is ClientLifecycle's, a DH slot's reads and writes   *)
(* are RegisterAccess's: they may fail, and what they answer is exact.       *)
(***************************************************************************)
EXTENDS Integers, Sequences

CONSTANTS
    RobotNum,  \* slots the controller wants
    Kinds,     \* kinds of slot a configuration may name, "bad" for one that does not build
    MaxTry     \* 40 polls of a DH gripper that initialises

ASSUME RobotNumAssumption == RobotNum \in Nat
ASSUME KindsAssumption == Kinds \subseteq {"none", "dh", "piper", "serial", "bad"}
ASSUME MaxTryAssumption == MaxTry \in Nat

VARIABLES
    file,   \* what is at config_path: "missing", "garbled" JSON, "shapeless", or an "array"
    cfg,    \* its elements
    step,     \* where LoadAndInit is
    at,     \* the slot in hand: new_slots holds those before it
    tries,  \* polls left
    ready,  \* the slots whose ready_ is set
    held,   \* the slots that hold a port, or a client's threads and socket
    slots,  \* size of slots_
    dh      \* init state of the gripper at each slot (environment)

managerVars == <<file, cfg, step, at, tries, ready, held, slots, dh>>

InitStates == {"not", "doing", "finished"}
Configs == UNION {[1..n -> Kinds] : n \in 0..(RobotNum + 1)}
Steps == {"open", "shape", "build", "init", "dh_state", "dh_init", "dh_poll",
          "unwind", "failed", "done"}

ManagerTypeOK ==
    /\ file \in {"missing", "garbled", "shapeless", "array"} /\ cfg \in Seq(Kinds)
    /\ step \in Steps /\ at \in 1..(RobotNum + 1) /\ tries \in 0..MaxTry
    /\ ready \subseteq 1..RobotNum /\ held \subseteq 1..RobotNum
    /\ slots \in Nat /\ dh \in [1..RobotNum -> InitStates]

ManagerInit ==
    /\ file \in {"missing", "garbled", "shapeless", "array"} /\ cfg \in Configs
    /\ step = "open" /\ at = 1 /\ tries = 0
    /\ ready = {} /\ held = {} /\ slots = 0
    /\ dh \in [1..RobotNum -> InitStates]

-----------------------------------------------------------------------------
(* LoadAndInit. *)

\* Opening and parsing; the shape of the root; the number of slots
ReadConfig ==
    /\ step = "open"
    /\ step' = IF file \in {"missing", "garbled"} THEN "unwind" ELSE "shape"
    /\ UNCHANGED <<file, cfg, at, tries, ready, held, slots, dh>>

CheckShape ==
    /\ step = "shape"
    /\ step' = IF file = "array" /\ Len(cfg) = RobotNum THEN "build" ELSE "unwind"
    /\ UNCHANGED <<file, cfg, at, tries, ready, held, slots, dh>>

Build ==
    /\ step = "build" /\ at <= RobotNum
    /\ step' = IF cfg[at] = "bad" THEN "unwind" ELSE "init"
    /\ UNCHANGED <<file, cfg, at, tries, ready, held, slots, dh>>

Swap ==
    /\ step = "build" /\ at > RobotNum
    /\ slots' = RobotNum /\ step' = "done"
    /\ UNCHANGED <<file, cfg, at, tries, ready, held, dh>>

\* ready_ is set, the slot joins new_slots
SlotReady ==
    /\ ready' = ready \union {at} /\ at' = at + 1 /\ step' = "build"
    /\ UNCHANGED <<file, cfg, slots, dh>>

SlotFails == step' = "unwind" /\ UNCHANGED <<file, cfg, at, ready, slots, dh>>

InitNone == step = "init" /\ cfg[at] = "none" /\ SlotReady /\ UNCHANGED <<tries, held>>

\* A Start that fails may leave threads to the client's destructor
InitPiper ==
    /\ step = "init" /\ cfg[at] = "piper"
    /\ \/ SlotReady /\ held' = held \union {at}
       \/ SlotFails /\ held' \in {held, held \union {at}}
    /\ UNCHANGED tries

InitSerial ==
    /\ step = "init" /\ cfg[at] = "serial"
    /\ \/ SlotReady /\ held' = held \union {at}
       \/ SlotFails /\ UNCHANGED held
    /\ UNCHANGED tries

DhOpen ==
    /\ step = "init" /\ cfg[at] = "dh" /\ UNCHANGED tries
    /\ \/ /\ held' = held \union {at} /\ step' = "dh_state"
          /\ UNCHANGED <<file, cfg, at, ready, slots, dh>>
       \/ SlotFails /\ UNCHANGED held

DhGetInitState ==
    /\ step = "dh_state" /\ UNCHANGED <<tries, held>>
    /\ \/ SlotFails
       \/ dh[at] = "finished" /\ SlotReady
       \/ /\ dh[at] # "finished" /\ step' = "dh_init"
          /\ UNCHANGED <<file, cfg, at, ready, slots, dh>>

\* The write may take effect and still be reported as failed
DhInitialization ==
    /\ step = "dh_init" /\ UNCHANGED <<file, cfg, at, ready, held, slots>>
    /\ \/ /\ dh' = [dh EXCEPT ![at] = "doing"]
          /\ tries' = MaxTry /\ step' = "dh_poll"
       \/ /\ dh' \in {dh, [dh EXCEPT ![at] = "doing"]}
          /\ UNCHANGED tries /\ step' = "unwind"

DhPoll ==
    /\ step = "dh_poll" /\ tries > 0 /\ tries' = tries - 1 /\ UNCHANGED held
    /\ \/ dh[at] = "finished" /\ SlotReady
       \/ UNCHANGED <<file, cfg, step, at, ready, slots, dh>>   \* not finished, or no answer

\* Mutant: a gripper that does not finish in time is polled all over again
DhTimeoutRestarts ==
    /\ step = "dh_poll" /\ tries = 0 /\ tries' = MaxTry
    /\ UNCHANGED <<file, cfg, step, at, ready, held, slots, dh>>

DhTimeout == step = "dh_poll" /\ tries = 0 /\ SlotFails /\ UNCHANGED <<tries, held>>

\* Destructors: the slot in hand and those in new_slots
Unwind ==
    /\ step = "unwind" /\ held # {}
    /\ \E k \in held : held' = held \ {k} /\ ready' = ready \ {k}
    /\ UNCHANGED <<file, cfg, step, at, tries, slots, dh>>

\* Mutant: the slot in hand is kept by a raw pointer and never destroyed
ReturnFalseLeaking ==
    /\ step = "unwind" /\ held \subseteq {at}
    /\ step' = "failed" /\ ready' = {}
    /\ UNCHANGED <<file, cfg, at, tries, held, slots, dh>>

ReturnFalse ==
    /\ step = "unwind" /\ held = {}
    /\ step' = "failed" /\ ready' = {}
    /\ UNCHANGED <<file, cfg, at, tries, held, slots, dh>>

\* A gripper finishes, or never does (environment)
DhFinishes ==
    /\ \E k \in 1..RobotNum : dh[k] = "doing" /\ dh' = [dh EXCEPT ![k] = "finished"]
    /\ UNCHANGED <<file, cfg, step, at, tries, ready, held, slots>>

InitSlot == \/ InitNone \/ InitPiper \/ InitSerial \/ DhOpen
            \/ DhGetInitState \/ DhInitialization \/ DhPoll \/ DhTimeout
LoadAndInit == ReadConfig \/ CheckShape \/ Build \/ Swap \/ InitSlot \/ Unwind \/ ReturnFalse

ManagerNext == LoadAndInit \/ DhFinishes

ManagerSpec     == ManagerInit /\ [][ManagerNext]_managerVars
ManagerFair     == WF_managerVars(LoadAndInit)

-----------------------------------------------------------------------------
(* Properties *)

\* LoadAndInit that returns false leaves no port open, no thread running and no slot
\* to dispatch to, wherever it failed: after earlier slots have started, with a
\* gripper half initialised, with a client half started.
FailureHoldsNothing == step = "failed" => held = {} /\ ready = {} /\ slots = 0

\* LoadAndInit that returns true serves every robot: each slot is ready, holds its
\* device, and a DH gripper has finished its initialisation.
SuccessServesAll ==
    step = "done" =>
        /\ slots = RobotNum /\ ready = 1..RobotNum
        /\ \A k \in 1..RobotNum :
              /\ cfg[k] \notin {"none", "bad"} => k \in held
              /\ cfg[k] = "dh" => dh[k] = "finished"

\* LoadAndInit is all or nothing, whichever slot fails and however far it had come.
AllOrNothing == FailureHoldsNothing /\ SuccessServesAll

\* LoadAndInit returns, whatever the devices do: a gripper that never finishes its
\* initialisation costs MaxTry polls.
LoadReturns == <>(step \in {"failed", "done"})

=============================================================================
