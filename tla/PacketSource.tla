---------------------------- MODULE PacketSource ----------------------------
(***************************************************************************)
(* What a DMA input promises to the pipeline: the packets of the board in  *)
(* their order, each at most once, without those that do not fit into a    *)
(* slice.  A failure may lose packets that fit, and some drivers may lose  *)
(* a single one.                                                           *)
(***************************************************************************)
EXTENDS Sequences

CONSTANTS Packets,    \* the packets that the board can send
          Oversized,  \* those that do not fit into a slice
          NoPacket,   \* nothing was delivered yet
          LosesOne    \* may the driver lose a single packet?

VARIABLES waiting,    \* sent by the board and not yet read, in order
          delivered   \* the packet that was copied into a slice last

sourceVars == <<waiting, delivered>>

SourceInit == waiting = <<>> /\ delivered = NoPacket

Send(p) ==
    /\ waiting' = Append(waiting, p)
    /\ UNCHANGED delivered

Deliver ==
    /\ waiting # <<>>
    /\ Head(waiting) \notin Oversized
    /\ delivered' = Head(waiting)
    /\ waiting' = Tail(waiting)

Skip ==
    /\ waiting # <<>>
    /\ Head(waiting) \in Oversized
    /\ waiting' = Tail(waiting)
    /\ UNCHANGED delivered

\* The oldest packet is lost.
Lose ==
    /\ LosesOne
    /\ waiting # <<>>
    /\ waiting' = Tail(waiting)
    /\ UNCHANGED delivered

Fail ==
    /\ waiting' = <<>>
    /\ UNCHANGED delivered

SourceNext == (\E p \in Packets : Send(p)) \/ Deliver \/ Skip
              \/ Lose \/ Fail

SourceSpec == SourceInit /\ [][SourceNext]_sourceVars
=============================================================================
