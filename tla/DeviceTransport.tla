--------------------------- MODULE DeviceTransport ---------------------------
(***************************************************************************)
(* SerialTransport and TcpTransport (src/src/JeComm/dh_transport.cpp) on   *)
(* the device functions of dh_device.cpp: a descriptor is opened in steps  *)
(* that may each fail, written to until every byte is gone, and read with  *)
(* a select of 200 ms.  The two serial profiles differ in what they check. *)
(*                                                                         *)
(* A byte written is its place in the data.  Another part of the process   *)
(* opens descriptors of its own from the same table.                       *)
(***************************************************************************)
EXTENDS Integers, Sequences

CONSTANTS Fds, None,    \* the descriptors of the process (the bound on them); no descriptor
          MaxLen        \* bound: bytes of a write

VARIABLES
    kind,          \* "jeserver", "dh" or "tcp": the transport and its serial profile
    rateKnown,     \* the baud rate is one of the four
    vmin,          \* SerialOptions: a read waits for at least this many bytes
    owner,         \* who holds each descriptor
    fd, raw,       \* fd_; the descriptor of an open in progress
    rateSet, timed,\* what was applied to fd_: the line's attributes, VMIN and VTIME
    pc, ret,       \* where the caller is, and what its last call returned
    len, off,      \* device_write_all
    out,           \* what the device has received of this write
    input,         \* bytes wait to be read
    signalled      \* a signal has interrupted this read (history)

configVars == <<kind, rateKnown, vmin>>
lineVars == <<fd, raw, rateSet, timed>>
writeVars == <<len, off, out>>
vars == <<configVars, owner, lineVars, pc, ret, writeVars, input, signalled>>

Results == {"none", "opened", "failed", "written", "read", "empty"}

TypeOK ==
    /\ kind \in {"jeserver", "dh", "tcp"} /\ rateKnown \in BOOLEAN /\ vmin \in {0, 1}
    /\ owner \in [Fds -> {"free", "own", "other"}]
    /\ fd \in Fds \union {None} /\ raw \in Fds \union {None}
    /\ rateSet \in BOOLEAN /\ timed \in BOOLEAN
    /\ pc \in {"idle", "setup", "timing", "write", "select", "read"} /\ ret \in Results
    /\ len \in 0..MaxLen /\ off \in 0..len /\ out \in Seq(1..MaxLen)
    /\ input \in BOOLEAN /\ signalled \in BOOLEAN

Init ==
    /\ kind \in {"jeserver", "dh", "tcp"} /\ rateKnown \in BOOLEAN /\ vmin \in {0, 1}
    /\ owner = [d \in Fds |-> "free"]
    /\ fd = None /\ raw = None /\ rateSet = FALSE /\ timed = FALSE
    /\ pc = "idle" /\ ret = "none"
    /\ len = 0 /\ off = 0 /\ out = <<>>
    /\ input = FALSE /\ signalled = FALSE

Return(r) == pc' = "idle" /\ ret' = r

-----------------------------------------------------------------------------
(* open *)

OpenAgain ==
    /\ pc = "idle" /\ fd # None
    /\ Return("opened")
    /\ UNCHANGED <<configVars, owner, lineVars, writeVars, input, signalled>>

\* open() of the port, socket() of the endpoint
OpenDescriptor ==
    /\ pc = "idle" /\ fd = None
    /\ \/ \E d \in Fds :
            /\ owner[d] = "free"
            /\ owner' = [owner EXCEPT ![d] = "own"] /\ raw' = d
            /\ pc' = "setup" /\ UNCHANGED ret
       \/ Return("failed") /\ UNCHANGED <<owner, raw>>
    /\ rateSet' = FALSE /\ timed' = FALSE
    /\ UNCHANGED <<configVars, fd, writeVars, input, signalled>>

Keep == fd' = raw /\ raw' = None /\ Return("opened") /\ UNCHANGED owner
Drop == owner' = [owner EXCEPT ![raw] = "free"] /\ raw' = None /\ Return("failed")
        /\ UNCHANGED fd
Forget == raw' = None /\ Return("failed") /\ UNCHANGED <<owner, fd>>

\* Mutant: a failing setup does not close
SetupLegacyForgets ==
    /\ pc = "setup" /\ kind = "jeserver"
    /\ \/ rateKnown /\ rateSet' = TRUE /\ timed' = TRUE /\ Keep
       \/ Forget /\ UNCHANGED <<rateSet, timed>>
    /\ UNCHANGED <<configVars, writeVars, input, signalled>>

\* open_jeserver_serial: the rate is checked and everything is set in one tcsetattr
SetupLegacy ==
    /\ pc = "setup" /\ kind = "jeserver"
    /\ \/ rateKnown /\ rateSet' = TRUE /\ timed' = TRUE /\ Keep
       \/ Drop /\ UNCHANGED <<rateSet, timed>>
    /\ UNCHANGED <<configVars, writeVars, input, signalled>>

\* serial_connect: nothing is set for an unknown rate, and a failure to set is not looked at
SetupDevice ==
    /\ pc = "setup" /\ kind = "dh"
    /\ rateSet' \in {FALSE, rateKnown} /\ pc' = "timing"
    /\ UNCHANGED <<configVars, owner, fd, raw, timed, ret, writeVars, input, signalled>>

\* apply_serial_options
ApplyOptions ==
    /\ pc = "timing"
    /\ \/ timed' = TRUE /\ Keep
       \/ Drop /\ UNCHANGED timed
    /\ UNCHANGED <<configVars, rateSet, writeVars, input, signalled>>

\* tcp_connect: the socket of a failed connect is not closed
ConnectSocket ==
    /\ pc = "setup" /\ kind = "tcp"
    /\ Keep \/ Forget
    /\ UNCHANGED <<configVars, rateSet, timed, writeVars, input, signalled>>

Open == OpenAgain \/ OpenDescriptor \/ SetupLegacy \/ SetupDevice \/ ApplyOptions
        \/ ConnectSocket

\* close, and the destructor
Close ==
    /\ pc = "idle" /\ fd # None
    /\ owner' = [owner EXCEPT ![fd] = "free"] /\ fd' = None
    /\ input' = FALSE
    /\ UNCHANGED <<configVars, raw, rateSet, timed, pc, ret, writeVars, signalled>>

\* The rest of the process opens a file and keeps it
OthersOpen ==
    /\ \E d \in Fds : owner[d] = "free" /\ owner' = [owner EXCEPT ![d] = "other"]
    /\ UNCHANGED <<configVars, lineVars, pc, ret, writeVars, input, signalled>>

-----------------------------------------------------------------------------
(* write *)

\* write and read without a descriptor
Refuse ==
    /\ pc = "idle" /\ fd = None
    /\ Return("failed")
    /\ UNCHANGED <<configVars, owner, lineVars, writeVars, input, signalled>>

WriteCall ==
    /\ pc = "idle" /\ fd # None
    /\ pc' = "write" /\ len' \in 1..MaxLen /\ off' = 0 /\ out' = <<>>
    /\ UNCHANGED <<configVars, owner, lineVars, ret, input, signalled>>

\* The device takes some of the bytes that are left; an interrupted write takes none
WriteChunk ==
    /\ pc = "write" /\ off < len
    /\ \E n \in 1..(len - off) :
         /\ out' = out \o [i \in 1..n |-> off + i]
         /\ off' = off + n
    /\ UNCHANGED <<configVars, owner, lineVars, pc, ret, len, input, signalled>>

WriteEnds ==
    /\ pc = "write"
    /\ (off = len /\ Return("written")) \/ (off < len /\ Return("failed"))
    /\ UNCHANGED <<configVars, owner, lineVars, writeVars, input, signalled>>

-----------------------------------------------------------------------------
(* read: device_read *)

ReadCall ==
    /\ pc = "idle" /\ fd # None
    /\ pc' = "select" /\ signalled' = FALSE
    /\ UNCHANGED <<configVars, owner, lineVars, ret, writeVars, input>>

Arrive ==
    /\ fd # None /\ ~input /\ input' = TRUE
    /\ UNCHANGED <<configVars, owner, lineVars, pc, ret, writeVars, signalled>>

SelectEnds ==
    /\ pc = "select"
    /\ IF input THEN pc' = "read" /\ UNCHANGED ret ELSE Return("failed")
    /\ UNCHANGED <<configVars, owner, lineVars, writeVars, input, signalled>>

\* A signal: select returns -1, which `if (fs_sel)` takes for data
SelectInterrupted ==
    /\ pc = "select"
    /\ pc' = "read" /\ signalled' = TRUE
    /\ UNCHANGED <<configVars, owner, lineVars, ret, writeVars, input>>

\* read() blocks without data, unless VMIN is 0
ReadEnds ==
    /\ pc = "read"
    /\ \/ input /\ input' = FALSE /\ Return("read")
       \/ ~input /\ kind # "tcp" /\ vmin = 0 /\ Return("empty") /\ UNCHANGED input
    /\ UNCHANGED <<configVars, owner, lineVars, writeVars, signalled>>

Next ==
    \/ Open \/ Close \/ OthersOpen \/ Refuse
    \/ WriteCall \/ WriteChunk \/ WriteEnds
    \/ ReadCall \/ SelectEnds \/ SelectInterrupted \/ ReadEnds \/ Arrive

\* The caller's thread runs, select ends after 200 ms and the device takes or refuses what
\* is written; no answer has to come
Fair ==
    /\ WF_vars(pc # "idle" /\ Open) /\ WF_vars(WriteChunk \/ WriteEnds)
    /\ WF_vars(SelectEnds) /\ WF_vars(ReadEnds)

Spec == Init /\ [][Next]_vars /\ Fair

-----------------------------------------------------------------------------
(* Properties *)

Own == {d \in Fds : owner[d] = "own"}

\* A serial open that fails half way, and every close, leaves no descriptor behind.
\* (A failed connect does: tcp_connect returns -1 with the socket open.)
NoDescriptorLost ==
    pc = "idle" => /\ fd # None => fd \in Own
                   /\ kind # "tcp" => Own \subseteq {fd}

\* A close, also a second one or the destructor's, never closes a descriptor that the
\* rest of the process has been given since.
NeverClosesOthers == [][\A d \in Fds : owner[d] = "other" => owner'[d] = "other"]_vars

\* A port that reports ready has been set up: its read timing in both profiles, its rate in
\* the legacy profile (serial_connect does not look whether the rate was set).
ReadyIsConfigured ==
    fd # None => /\ kind # "tcp" => timed
                 /\ kind = "jeserver" => rateSet /\ rateKnown

\* A write in pieces delivers every byte once and in order; a successful one all of them.
WrittenWhole ==
    /\ out = [i \in 1..off |-> i]
    /\ pc = "idle" /\ ret = "written" => off = len

\* Every call returns, whatever the device does, except a read that a signal interrupted
\* on a port whose read waits for data.
CallsReturn == (pc # "idle") ~> (pc = "idle" \/ (signalled /\ (kind = "tcp" \/ vmin > 0)))

=============================================================================
