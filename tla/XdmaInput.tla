------------------------------ MODULE XdmaInput ------------------------------
(***************************************************************************)
(* The XDMA input of scdaq: DmaInputFilter, which has the driver write     *)
(* packets straight into the slice that the next filter will get.          *)
(*                                                                         *)
(* The driver is external.  read() returns the oldest packet; one that is  *)
(* larger than the slice is taken away and reported as EMSGSIZE; EIO may   *)
(* take one away as well; either may have written a part of it.            *)
(***************************************************************************)
EXTENDS Naturals, Sequences

CONSTANTS
    MaxQueue,    \* bound: the packets that the driver keeps
    Packets,     \* the packets that the board can send
    Oversized,   \* those that are larger than a slice
    NoPacket,    \* nothing
    Torn         \* a part of a packet

XdmaAssumption ==
    /\ MaxQueue \in Nat \ {0}
    /\ Oversized \subseteq Packets
    /\ NoPacket \notin Packets /\ Torn \notin Packets \cup {NoPacket}

VARIABLES
    queue,       \* the driver: packets that were sent and not yet read
    pc,          \* where DmaInputFilter is
    skip,        \* its count of failed reads, which is only printed: modulo 2
    nextSlice,   \* what is in the slice that is read into
    returned     \* the packet that the last returned slice holds

vars == <<queue, pc, skip, nextSlice, returned>>

Init ==
    /\ queue = <<>>
    /\ pc = "construct" /\ skip = 0
    /\ nextSlice = NoPacket /\ returned = NoPacket

Send(p) ==
    /\ pc \in {"idle", "read"}
    /\ Len(queue) < MaxQueue
    /\ queue' = Append(queue, p)
    /\ UNCHANGED <<pc, skip, nextSlice, returned>>

\* The constructor opens the device, or throws.
Construct ==
    /\ pc = "construct"
    /\ pc' \in {"idle", "failed"}
    /\ UNCHANGED <<queue, skip, nextSlice, returned>>

\* InputFilter::operator() calls readInput with an empty slice.
Call ==
    /\ pc = "idle"
    /\ pc' = "read" /\ skip' = 0
    /\ nextSlice' = NoPacket
    /\ UNCHANGED <<queue, returned>>

\* A packet that fits is in the slice, which operator() returns.
ReadPacket ==
    /\ pc = "read"
    /\ queue # <<>> /\ Head(queue) \notin Oversized
    /\ queue' = Tail(queue)
    /\ nextSlice' = Head(queue)
    /\ returned' = nextSlice'
    /\ pc' = "idle"
    /\ UNCHANGED skip

\* Mutant: the result of the failed read is tested again and again.
ReadOversizedOnce ==
    /\ pc = "read"
    /\ queue # <<>> /\ Head(queue) \in Oversized
    /\ queue' = Tail(queue)
    /\ nextSlice' = Torn
    /\ pc' = "spin"
    /\ UNCHANGED <<skip, returned>>

\* EMSGSIZE: read again.
ReadOversized ==
    /\ pc = "read"
    /\ queue # <<>> /\ Head(queue) \in Oversized
    /\ queue' = Tail(queue)
    /\ nextSlice' = Torn
    /\ skip' = 1 - skip
    /\ UNCHANGED <<pc, returned>>

\* Mutant: the packet is returned as far as it was read.
ReadErrorReturns ==
    /\ pc = "read"
    /\ queue' = IF queue = <<>> THEN <<>> ELSE Tail(queue)
    /\ nextSlice' = Torn
    /\ returned' = nextSlice'
    /\ pc' = "idle"
    /\ UNCHANGED skip

\* EIO: read again into the same slice, however often that was before.
ReadError ==
    /\ pc = "read"
    /\ queue' \in {queue} \cup {Tail(q) : q \in {queue} \ {<<>>}}
    /\ nextSlice' = Torn
    /\ skip' = 1 - skip
    /\ UNCHANGED <<pc, returned>>

\* Another error (EAGAIN is one: the device was opened with O_NONBLOCK) is
\* thrown; assert(bytesRead != 0) aborts.
ReadFails ==
    /\ pc = "read"
    /\ pc' \in {"failed", "exited"}
    /\ UNCHANGED <<queue, skip, nextSlice, returned>>

\* main ends, with an exception of this filter or of another one.
Destroy ==
    /\ pc \in {"idle", "failed"}
    /\ pc' = "exited"
    /\ UNCHANGED <<queue, skip, nextSlice, returned>>

\* run.sh starts the program again; what was sent before is lost.
Restart ==
    /\ pc = "exited"
    /\ pc' = "construct"
    /\ queue' = <<>>
    /\ nextSlice' = NoPacket
    /\ UNCHANGED <<skip, returned>>

Read == ReadPacket \/ ReadOversized \/ ReadError \/ ReadFails

Next ==
    \/ \E p \in Packets : Send(p)
    \/ Construct \/ Call \/ Read \/ Destroy \/ Restart

Spec == Init /\ [][Next]_vars

\* The board never stops sending packets that fit, and the thread goes on: the
\* driver answers a read for which a packet waits, be it with an error each
\* time.
Fairness ==
    /\ SF_vars(\E p \in Packets \ Oversized : Send(p))
    /\ WF_vars(queue # <<>> /\ Read)

-----------------------------------------------------------------------------
(* Properties                                                              *)

\* Every variable keeps its type, and no part of a packet is in a slice that
\* was returned or that a call begins with.
TypeOK ==
    /\ queue \in Seq(Packets) /\ Len(queue) <= MaxQueue
    /\ pc \in {"construct", "idle", "read", "failed", "exited"}
    /\ skip \in {0, 1}
    /\ nextSlice \in Packets \cup {NoPacket, Torn}
    /\ returned \in Packets \cup {NoPacket}
    /\ pc \in {"construct", "idle"} => nextSlice # Torn

\* The slices get the packets of the board in their order, each once and
\* whole, however many reads failed half way into the same slice; EIO may lose
\* single packets (DmaInputFilter.cc:68-96).
Source == INSTANCE PacketSource
    WITH waiting <- queue, delivered <- returned, LosesOne <- TRUE

IsPacketSource == Source!SourceSpec

\* A call returns or throws, however many oversized packets come before one
\* that fits, although nothing bounds the attempts.  The one way in which it
\* does not is that EIO is reported again and again: the code has no limit for
\* that either (DmaInputFilter.cc:68-84).
CallReturns ==
    \/ []<><<ReadError>>_vars
    \/ pc = "read" ~> pc \in {"idle", "failed", "exited"}
=============================================================================
