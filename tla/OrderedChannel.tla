--------------------------- MODULE OrderedChannel ---------------------------
(***************************************************************************)
(* What the packet pipeline of scdaq promises to the file writer, without  *)
(* threads, buffers or filters: a bounded first-in first-out channel of    *)
(* packets that may only lose what it holds when the process goes down.    *)
(***************************************************************************)
EXTENDS Naturals, Sequences

CONSTANTS Packets,    \* the contents a packet can have
          Capacity,   \* how many packets the channel can hold
          NoPacket    \* nothing was delivered yet

VARIABLES up,         \* is the process healthy?
          queue,      \* accepted and not yet delivered, in order
          delivered   \* the packet handed to the file writer last

chanVars == <<up, queue, delivered>>

ChannelInit ==
    /\ up = TRUE
    /\ queue = <<>>
    /\ delivered = NoPacket

Accept(p) ==
    /\ up
    /\ Len(queue) < Capacity
    /\ queue' = Append(queue, p)
    /\ UNCHANGED <<up, delivered>>

\* A delivery that had begun when the process failed may still complete.
Deliver ==
    /\ queue # <<>>
    /\ delivered' = Head(queue)
    /\ queue' = Tail(queue)
    /\ UNCHANGED up

\* A failure may take with it the packet that was being delivered.
Fail ==
    /\ up' = FALSE
    /\ \/ queue' = queue
       \/ queue # <<>> /\ queue' = Tail(queue)
    /\ UNCHANGED delivered

Reset ==
    /\ ~up
    /\ up' = TRUE
    /\ queue' = <<>>
    /\ UNCHANGED delivered

ChannelNext ==
    \/ \E p \in Packets : Accept(p)
    \/ Deliver
    \/ Fail
    \/ Reset

ChannelSpec == ChannelInit /\ [][ChannelNext]_chanVars
=============================================================================
