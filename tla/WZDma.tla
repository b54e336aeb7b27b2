------------------------------- MODULE WZDma -------------------------------
(***************************************************************************)
(* The WZ DMA input of scdaq: WZDmaInputFilter with wz_dma.c, called by    *)
(* InputFilter::operator(), against the driver's ring of buffers and the   *)
(* board, which fills them at its own pace.                                *)
(*                                                                         *)
(* The driver is external.  The board fills the next buffer of the ring if *)
(* it is free; GETBUF waits for the oldest filled buffer and takes it;     *)
(* CONFIRM frees the buffer it names and all that were taken before it     *)
(* (if it freed only that one, more buffers would stay away); a packet     *)
(* fits into one buffer of the ring, though not always into a slice.       *)
(***************************************************************************)
EXTENDS Naturals, Sequences, Functions

CONSTANTS
    NofBufs,     \* WZ_DMA_NOFBUFS: the buffers of the ring
    MaxSkips,    \* 100: oversized packets until the board is reset
    MaxResets,   \* 10: resets of the board in one call
    MaxTries,    \* 10: restarts of the DMA until the filter gives up
    Packets,     \* the packets that the board can send
    Oversized,   \* those that are larger than a slice
    NoPacket

ASSUME WZDmaAssumption ==
    /\ NofBufs \in Nat \ {0}
    /\ MaxSkips \in Nat \ {0}
    /\ MaxResets \in Nat
    /\ MaxTries \in Nat \ {0, 1}
    /\ Oversized \subseteq Packets
    /\ NoPacket \notin Packets

VARIABLES
    \* the driver
    dma,         \* "closed" or "running"
    ring,        \* what each buffer holds
    next,        \* the buffer that is filled next
    filled,      \* the buffers that hold a packet nobody took, in order
    taken,       \* the buffers that were taken and not confirmed
    \* WZDmaInputFilter
    pc, tries, skip, reset,
    bdesc,       \* the buffer that GETBUF returned last
    error,       \* why the last exception was thrown
    slice        \* the packet that was copied into a slice last

driverVars == <<dma, ring, next, filled, taken>>
counters == <<tries, skip, reset>>
vars == <<dma, ring, next, filled, taken, pc, tries, skip, reset, bdesc,
          error, slice>>

Buffers == 0..(NofBufs - 1)

Init ==
    /\ dma = "closed"
    /\ ring = [b \in Buffers |-> NoPacket]
    /\ next = 0 /\ filled = <<>> /\ taken = {}
    /\ pc = "construct"
    /\ tries = 1 /\ skip = 0 /\ reset = 0
    /\ bdesc = 0
    /\ error = "none"
    /\ slice = NoPacket

-----------------------------------------------------------------------------
(* The driver and the board                                                *)

\* The board writes a packet into the next buffer of the ring.
Fill ==
    /\ dma = "running"
    /\ next \notin taken \cup Range(filled)
    /\ \E p \in Packets : ring' = [ring EXCEPT ![next] = p]
    /\ filled' = Append(filled, next)
    /\ next' = (next + 1) % NofBufs
    /\ UNCHANGED <<dma, taken, pc, counters, bdesc, error, slice>>

\* wz_init and wz_start_dma: a new ring; wz_stop_dma and wz_close: none.
NewRing(state) ==
    /\ dma' = state
    /\ next' = 0 /\ filled' = <<>> /\ taken' = {}
    /\ UNCHANGED ring

-----------------------------------------------------------------------------
(* WZDmaInputFilter                                                        *)

Throw(reason) == pc' = "failed" /\ error' = reason

\* The constructor.
Construct ==
    /\ pc = "construct"
    /\ \/ NewRing("running") /\ pc' = "idle" /\ UNCHANGED error
       \/ Throw("init") /\ UNCHANGED driverVars
    /\ UNCHANGED <<counters, bdesc, slice>>

\* InputFilter::operator() calls readInput.
Call ==
    /\ pc = "idle"
    /\ pc' = "get"
    /\ tries' = 1 /\ skip' = 0 /\ reset' = 0
    /\ UNCHANGED <<driverVars, bdesc, error, slice>>

\* wz_get_buf: take the oldest filled buffer.
Take ==
    /\ dma = "running"
    /\ filled # <<>>
    /\ bdesc' = Head(filled)
    /\ filled' = Tail(filled)
    /\ taken' = taken \cup {Head(filled)}
    /\ UNCHANGED <<dma, ring, next>>

\* Mutant: a buffer is confirmed before its packet was copied.
StepsSwapped == <<"confirm", "copy">>

\* What operator() does with the buffer that readInput returned.
Steps == <<"copy", "confirm">>

After(step) == IF step = Steps[1] THEN Steps[2] ELSE "idle"

\* A packet that fits is returned.
ReadFits ==
    /\ pc = "get"
    /\ Take
    /\ ring[Head(filled)] \notin Oversized
    /\ pc' = Steps[1]
    /\ UNCHANGED <<counters, error, slice>>

\* Mutant: the skipped packets are counted over all resets.
ReadSkipsKeepsSkip ==
    /\ pc = "get"
    /\ Take
    /\ ring[Head(filled)] \in Oversized
    /\ IF skip + 1 < MaxSkips
         THEN pc' = "get" /\ skip' = skip + 1 /\ UNCHANGED <<reset, error>>
       ELSE IF reset + 1 > MaxResets
         THEN Throw("oversized") /\ UNCHANGED <<skip, reset>>
         ELSE /\ pc' = "reset" /\ reset' = reset + 1
              /\ skip' = skip + 1 /\ UNCHANGED error
    /\ tries' = 1
    /\ UNCHANGED slice

\* A packet that is larger than a slice is skipped, but not confirmed.  After
\* MaxSkips of them the board is reset, after MaxResets the filter gives up.
ReadSkips ==
    /\ pc = "get"
    /\ Take
    /\ ring[Head(filled)] \in Oversized
    /\ IF skip + 1 < MaxSkips
         THEN pc' = "get" /\ skip' = skip + 1 /\ UNCHANGED <<reset, error>>
       ELSE IF reset + 1 > MaxResets
         THEN Throw("oversized") /\ UNCHANGED <<skip, reset>>
         ELSE /\ pc' = "reset" /\ reset' = reset + 1
              /\ skip' = 0 /\ UNCHANGED error
    /\ tries' = 1
    /\ UNCHANGED slice

\* wz_reset_board and the wait; that the reset failed is only logged.
ResetBoard ==
    /\ pc = "reset"
    /\ pc' = "get"
    /\ UNCHANGED <<driverVars, counters, bdesc, error, slice>>

\* Mutant: the restarts are not counted.
ReadRestartsUncounted ==
    /\ pc = "get"
    /\ NewRing("running")
    /\ pc' = "get"
    /\ UNCHANGED <<counters, bdesc, error, slice>>

\* wz_read_start fails with EIO and the DMA is restarted.  The attempts are
\* counted after they succeeded.
ReadRestarts ==
    /\ pc = "get"
    /\ NewRing("running")
    /\ tries' = tries + 1
    /\ IF tries + 1 = MaxTries THEN Throw("restart")
                               ELSE pc' = "get" /\ UNCHANGED error
    /\ UNCHANGED <<skip, reset, bdesc, slice>>

\* wz_init or wz_start_dma fails after EIO.
RestartFails ==
    /\ pc = "get"
    /\ NewRing("closed")
    /\ Throw("init")
    /\ UNCHANGED <<counters, bdesc, slice>>

\* wz_read_start fails with another error.
ReadFails ==
    /\ pc = "get"
    /\ Throw("read")
    /\ UNCHANGED <<driverVars, counters, bdesc, slice>>

\* assert(bytes_read > 0)
ReadAborts ==
    /\ pc = "get"
    /\ pc' = "exited"
    /\ NewRing("closed")
    /\ UNCHANGED <<counters, bdesc, error, slice>>

\* InputFilter::operator() copies the packet into its slice.
Copy ==
    /\ pc = "copy"
    /\ slice' = ring[bdesc]
    /\ pc' = After("copy")
    /\ UNCHANGED <<driverVars, counters, bdesc, error>>

\* readComplete
ReadComplete ==
    /\ pc = "confirm"
    /\ \/ taken' = {} /\ pc' = After("confirm") /\ UNCHANGED error
       \/ Throw("confirm") /\ UNCHANGED taken
    /\ UNCHANGED <<dma, ring, next, filled, counters, bdesc, slice>>

\* The exception, or that of another filter, leaves main; the destructor stops
\* and closes the DMA.
Destroy ==
    /\ pc \in {"idle", "failed"}
    /\ pc' = "exited"
    /\ NewRing("closed")
    /\ UNCHANGED <<counters, bdesc, error, slice>>

\* run.sh starts the program again.
Restart ==
    /\ pc = "exited"
    /\ pc' = "construct"
    /\ error' = "none"
    /\ UNCHANGED <<driverVars, counters, bdesc, slice>>

\* One iteration of the loops of readInput.
Read ==
    ReadFits \/ ReadSkips \/ ReadRestarts \/ RestartFails \/ ReadFails
    \/ ReadAborts

\* What the thread inside operator() does with a buffer.
Use == ResetBoard \/ Copy \/ ReadComplete

Process == Construct \/ Call \/ Read \/ Use \/ Destroy \/ Restart

Next == Fill \/ Process

Spec == Init /\ [][Next]_vars

\* The board keeps sending, and a step that can be taken is taken.  That the
\* driver fails is possible at every read and never sure.
Fairness == WF_vars(Fill) /\ WF_vars(ReadFits \/ ReadSkips) /\ WF_vars(Use)

FairSpec == Spec /\ Fairness

-----------------------------------------------------------------------------
(* Properties                                                              *)

\* Every variable keeps its type, and the counters their bounds.
TypeOK ==
    /\ dma \in {"closed", "running"}
    /\ ring \in [Buffers -> Packets \cup {NoPacket}]
    /\ next \in Buffers
    /\ filled \in Seq(Buffers)
    /\ taken \subseteq Buffers
    /\ pc \in {"construct", "idle", "get", "reset", "copy", "confirm",
               "failed", "exited"}
    /\ tries \in 1..MaxTries
    /\ skip \in 0..(MaxSkips - 1)
    /\ reset \in 0..MaxResets
    /\ bdesc \in Buffers
    /\ error \in {"none", "init", "restart", "oversized", "read", "confirm"}
    /\ slice \in Packets \cup {NoPacket}

\* The buffers whose packets were sent and not yet copied nor skipped.
Unread ==
    IF pc = "copy" \/ (pc = "confirm" /\ After(pc) = "copy")
      THEN <<bdesc>> \o filled
      ELSE filled

Waiting == [i \in DOMAIN Unread |-> ring[Unread[i]]]

\* The slices get the packets of the board in their order, each once and
\* unharmed by the board, which goes on writing into the ring while packets
\* are read, skipped and copied; only oversized packets are skipped, and only
\* a restart loses packets (InputFilter.cc:133-148).
Source == INSTANCE PacketSource
    WITH waiting <- Waiting, delivered <- slice, LosesOne <- FALSE

IsPacketSource == Source!SourceSpec

\* The iterations that a call of readInput may still make: of the restarts
\* until a packet is taken, of the packets until a reset, of the resets.
IterationsLeft ==
    ((MaxResets - reset) * MaxSkips + (MaxSkips - 1 - skip)) * MaxTries
      + (MaxTries - tries)

Reading == pc \in {"get", "reset"}

\* One iteration is used up, unless the call only waits: for the board to be
\* reset, or while the board sends.
UsesUpOne ==
    \/ IterationsLeft' \in 0..(IterationsLeft - 1)
    \/ /\ IterationsLeft' = IterationsLeft
       /\ pc = "reset" \/ Len(filled') > Len(filled)

\* However restarts of the DMA, oversized packets and resets of the board
\* follow each other, each iteration uses up one of a number that is fixed when
\* the call starts; what clears a counter has moved a slower one on
\* (WZDmaInputFilter.cc:47-141).
RetriesAreBounded == [][Reading /\ Reading' => UsesUpOne]_vars

\* A call of readInput returns a packet or ends with an exception, however the
\* driver's errors and the oversized packets mix, if the ring is not smaller
\* than the number of packets that one call may skip
\* (WZDmaInputFilter.cc:47-141).
CallReturns == pc = "get" ~> pc \notin {"get", "reset"}
=============================================================================
