---------------------------- MODULE InputsProofs ----------------------------
(***************************************************************************)
(* Proofs about the three inputs together, for any packets, queues, files  *)
(* and sizes of a slice: what was proved of the WZ DMA input carries over, *)
(* and the XDMA input and the file input are proved here.                  *)
(***************************************************************************)
EXTENDS Inputs, WZDmaProofs, SequenceTheorems

-----------------------------------------------------------------------------
(* An input that does not exist stays as it was                            *)

LEMMA InputSteps ==
    InputSpec => Spec /\ Xdma!Spec /\ File!Spec
<1>1. InputInit => Init /\ Xdma!Init /\ File!Init
  BY DEF InputInit
<1>2. [InputNext]_inputVars =>
         /\ [Next]_vars /\ [Xdma!Next]_(Xdma!vars) /\ [File!Next]_(File!vars)
  BY DEF InputNext, inputVars, xdmaVars, fileVars, Xdma!vars, File!vars,
         File!inputVars
<1> QED
  BY <1>1, <1>2, PTL DEF InputSpec, Spec, Xdma!Spec, File!Spec

-----------------------------------------------------------------------------
(* The XDMA input                                                          *)

LEMMA XdmaTypeInit == Xdma!Init => XdmaTypeOK
<1> SUFFICES ASSUME Xdma!Init PROVE XdmaTypeOK
  OBVIOUS
<1>1. queue \in Seq(Packets) /\ Len(queue) = 0 /\ MaxQueue \in Nat
      /\ Torn # NoPacket
  BY InputsAssumption, EmptySeq DEF Xdma!Init, Xdma!XdmaAssumption
<1> QED
  BY <1>1 DEF Xdma!Init, XdmaTypeOK, Xdma!TypeOK

LEMMA XdmaTypeNext ==
    XdmaTypeOK /\ [Xdma!Next]_(Xdma!vars) => XdmaTypeOK'
<1> SUFFICES ASSUME XdmaTypeOK, [Xdma!Next]_(Xdma!vars) PROVE XdmaTypeOK'
  OBVIOUS
<1> USE DEF XdmaTypeOK, Xdma!TypeOK
<1>0. /\ MaxQueue \in Nat /\ Torn \notin Packets \cup {NoPacket}
      /\ NoPacket \notin Packets
      /\ Len(queue) \in Nat
  BY InputsAssumption, LenProperties DEF Xdma!XdmaAssumption
<1>1. ASSUME NEW p \in Packets, Xdma!Send(p) PROVE XdmaTypeOK'
  <2>1. queue' \in Seq(Packets) /\ Len(queue') = Len(queue) + 1
    BY <1>1, AppendProperties DEF Xdma!Send
  <2> QED
    BY <1>0, <1>1, <2>1 DEF Xdma!Send
<1>2. queue # <<>> =>
         /\ Head(queue) \in Packets /\ Tail(queue) \in Seq(Packets)
         /\ Len(Tail(queue)) = Len(queue) - 1
  BY HeadTailProperties
<1>3. CASE Xdma!ReadPacket
  BY <1>0, <1>2, <1>3 DEF Xdma!ReadPacket
<1>4. CASE Xdma!ReadOversized
  BY <1>0, <1>2, <1>4 DEF Xdma!ReadOversized
<1>5. CASE Xdma!ReadError
  <2>1. queue' = queue \/ (queue # <<>> /\ queue' = Tail(queue))
    BY <1>5 DEF Xdma!ReadError
  <2> QED
    BY <1>0, <1>2, <1>5, <2>1 DEF Xdma!ReadError
<1>6. CASE Xdma!Construct \/ Xdma!Call \/ Xdma!ReadFails \/ Xdma!Destroy
  BY <1>0, <1>6 DEF Xdma!Construct, Xdma!Call, Xdma!ReadFails, Xdma!Destroy
<1>7. CASE Xdma!Restart
  <2>1. queue' \in Seq(Packets) /\ Len(queue') = 0
    BY <1>7, EmptySeq DEF Xdma!Restart
  <2> QED
    BY <1>0, <1>7, <2>1 DEF Xdma!Restart
<1>8. CASE UNCHANGED Xdma!vars
  BY <1>8 DEF Xdma!vars
<1> QED
  BY <1>1, <1>3, <1>4, <1>5, <1>6, <1>7, <1>8 DEF Xdma!Next, Xdma!Read

LEMMA XdmaSourceStep ==
    [Xdma!Next]_(Xdma!vars)
       => [Xdma!Source!SourceNext]_(Xdma!Source!sourceVars)
<1> SUFFICES ASSUME [Xdma!Next]_(Xdma!vars)
             PROVE  [Xdma!Source!SourceNext]_(Xdma!Source!sourceVars)
  OBVIOUS
<1> USE DEF Xdma!Source!SourceNext, Xdma!Source!sourceVars
<1>1. ASSUME NEW p \in Packets, Xdma!Send(p) PROVE Xdma!Source!Send(p)
  BY <1>1 DEF Xdma!Send, Xdma!Source!Send
<1>2. CASE Xdma!ReadPacket
  BY <1>2 DEF Xdma!ReadPacket, Xdma!Source!Deliver
<1>3. CASE Xdma!ReadOversized
  BY <1>3 DEF Xdma!ReadOversized, Xdma!Source!Skip
<1>4. CASE Xdma!ReadError
  <2>1. queue' = queue \/ (queue # <<>> /\ queue' = Tail(queue))
    BY <1>4 DEF Xdma!ReadError
  <2> QED
    BY <1>4, <2>1 DEF Xdma!ReadError, Xdma!Source!Lose
<1>5. CASE Xdma!Restart
  BY <1>5 DEF Xdma!Restart, Xdma!Source!Fail
<1>6. CASE Xdma!Construct \/ Xdma!Call \/ Xdma!ReadFails \/ Xdma!Destroy
           \/ UNCHANGED Xdma!vars
  BY <1>6 DEF Xdma!Construct, Xdma!Call, Xdma!ReadFails, Xdma!Destroy,
              Xdma!vars
<1> QED
  BY <1>1, <1>2, <1>3, <1>4, <1>5, <1>6 DEF Xdma!Next, Xdma!Read

\* The types of the XDMA input, for any number of packets in the driver: no
\* part of a packet is in a slice that is returned.
THEOREM XdmaTypeSafety == InputSpec => []XdmaTypeOK
<1> QED
  BY InputSteps, XdmaTypeInit, XdmaTypeNext, PTL DEF Xdma!Spec

\* The XDMA input implements the source of packets.
THEOREM XdmaSourceSafety == InputSpec => IsXdmaSource
<1>1. Xdma!Init => Xdma!Source!SourceInit
  BY DEF Xdma!Init, Xdma!Source!SourceInit
<1> QED
  BY <1>1, InputSteps, XdmaSourceStep, PTL
     DEF Xdma!Spec, IsXdmaSource, Xdma!IsPacketSource, Xdma!Source!SourceSpec

-----------------------------------------------------------------------------
(* The file input                                                          *)

\* The frames of the packet that is being read: none of them is its last, and
\* only the last may go beyond the slice.
PacketInv ==
    /\ first <= pos + 1
    /\ \A k \in first..pos : file[k] = "data"
    /\ bytesRead = (pos + 1 - first) * FrameSize
    /\ bytesRead < size + FrameSize

FileInv ==
    /\ File!TypeOK
    /\ filePc = "read" => PacketInv
    /\ filePc = "failed" => fileError # "none"

LEMMA FileConstants ==
    /\ MaxFrames \in Nat /\ FrameSize \in Nat \ {0}
    /\ Sizes \subseteq Nat \ {0} /\ MaxSkips \in Nat \ {0}
BY InputsAssumption DEF File!FileAssumption

LEMMA FileInit == File!Init => FileInv
<1> SUFFICES ASSUME File!Init PROVE FileInv
  OBVIOUS
<1>1. PICK n \in 0..MaxFrames : file \in [1..n -> {"data", "end"}]
  BY DEF File!Init
<1>2. file \in Seq({"data", "end"}) /\ Len(file) = n /\ n \in Nat
  BY <1>1, FileConstants
<1>3. /\ filePc = "idle" /\ fileError = "none"
      /\ rest \in 0..(FrameSize - 1) /\ size \in Sizes
      /\ pos = 0 /\ first = 1 /\ bytesRead = 0 /\ fileSkip = 0
      /\ fileReturned = <<0, 0>>
  BY DEF File!Init
<1>4. /\ pos \in 0..Len(file) /\ first \in 1..(Len(file) + 1)
      /\ fileReturned \in (0..Len(file)) \X (0..Len(file))
      /\ fileSkip \in 0..(MaxSkips - 1)
      /\ bytesRead \in 0..(size + FrameSize - 1)
  BY <1>2, <1>3, FileConstants
<1>5. Len(file) <= MaxFrames
  BY <1>1, <1>2, FileConstants
<1> QED
  BY <1>2, <1>3, <1>4, <1>5 DEF FileInv, File!TypeOK

\* What the state says about the numbers.
LEMMA FileNumbers ==
    ASSUME File!TypeOK
    PROVE  /\ Len(file) \in Nat /\ DOMAIN file = 1..Len(file)
           /\ \A k \in 1..Len(file) : file[k] \in {"data", "end"}
           /\ pos \in Nat /\ first \in Nat \ {0} /\ bytesRead \in Nat
           /\ size \in Nat \ {0} /\ fileSkip \in Nat
BY FileConstants, LenProperties DEF File!TypeOK

LEMMA FileNext == FileInv /\ [File!Next]_(File!vars) => FileInv'
<1> SUFFICES ASSUME FileInv, [File!Next]_(File!vars) PROVE FileInv'
  OBVIOUS
<1>0. File!TypeOK
  BY DEF FileInv
<1>1. CASE File!ReadInput
  BY <1>0, <1>1, FileNumbers, FileConstants
     DEF File!ReadInput, File!Begin, File!inputVars, FileInv, File!TypeOK,
         PacketInv
<1>2. CASE File!ReadData
  BY <1>0, <1>2, FileNumbers, FileConstants
     DEF File!ReadData, File!AddFrame, File!inputVars, FileInv, File!TypeOK,
         PacketInv
<1>3. CASE File!ReadEnd
  <2>0. /\ Len(file) \in Nat /\ pos \in Nat /\ first \in Nat \ {0}
        /\ bytesRead \in Nat /\ size \in Nat \ {0} /\ fileSkip \in Nat
        /\ FrameSize \in Nat \ {0} /\ MaxSkips \in Nat \ {0}
    BY ONLY <1>0, FileNumbers, FileConstants
  <2>1. /\ filePc = "read" /\ pos < Len(file) /\ pos' = pos + 1
        /\ UNCHANGED <<file, rest, size>>
        /\ bytesRead < size
    BY <1>3 DEF File!ReadEnd, File!Begin, File!Throw, File!inputVars
  <2>2. CASE bytesRead + FrameSize <= size
    <3>1. /\ filePc' = "idle" /\ bytesRead' = bytesRead + FrameSize
          /\ fileReturned' = <<first, pos + 1>>
          /\ UNCHANGED <<first, fileSkip, fileError>>
      BY <1>3, <2>2 DEF File!ReadEnd, File!AddFrame
    <3>2. /\ pos' \in 0..Len(file) /\ first \in 0..Len(file)
          /\ bytesRead' \in 0..(size + FrameSize - 1)
      <4>1. first <= pos + 1 /\ bytesRead < size + FrameSize
        BY <2>1 DEF FileInv, PacketInv
      <4> QED
        BY ONLY <2>0, <2>1, <2>2, <3>1, <4>1
    <3> QED
      BY <1>0, <2>1, <3>1, <3>2 DEF FileInv, File!TypeOK
  <2>3. CASE ~(bytesRead + FrameSize <= size) /\ File!MaySkip
    <3>1. /\ filePc' = "read" /\ bytesRead' = 0 /\ first' = pos + 2
          /\ fileSkip' = fileSkip + 1 /\ fileSkip + 1 < MaxSkips
          /\ UNCHANGED <<fileReturned, fileError>>
      BY <1>3, <2>3
         DEF File!ReadEnd, File!AddFrame, File!Begin, File!MaySkip,
             File!inputVars
    <3>2. /\ pos' \in 0..Len(file) /\ first' \in 1..(Len(file) + 1)
          /\ bytesRead' \in 0..(size + FrameSize - 1)
          /\ fileSkip' \in 0..(MaxSkips - 1)
      BY ONLY <2>0, <2>1, <3>1
    <3>3. PacketInv'
      BY <1>0, <2>1, <3>1, FileNumbers, FileConstants DEF PacketInv
    <3> QED
      BY <1>0, <2>1, <3>1, <3>2, <3>3 DEF FileInv, File!TypeOK
  <2>4. CASE ~(bytesRead + FrameSize <= size) /\ ~File!MaySkip
    <3>1. /\ filePc' = "failed" /\ fileError' = "large"
          /\ bytesRead' = bytesRead + FrameSize
          /\ UNCHANGED <<first, fileSkip, fileReturned>>
      BY <1>3, <2>4 DEF File!ReadEnd, File!AddFrame, File!Throw
    <3>2. /\ pos' \in 0..Len(file)
          /\ bytesRead' \in 0..(size + FrameSize - 1)
      BY ONLY <2>0, <2>1, <3>1
    <3> QED
      BY <1>0, <2>1, <3>1, <3>2 DEF FileInv, File!TypeOK
  <2> QED
    BY <2>2, <2>3, <2>4
<1>4. CASE File!Rewind
  BY <1>0, <1>4, FileNumbers, FileConstants
     DEF File!Rewind, File!PerfectEnd, File!inputVars, FileInv, File!TypeOK,
         PacketInv
<1>5. CASE File!EndsPrematurely \/ File!TooBig \/ File!FileError
  BY <1>0, <1>5, FileNumbers, FileConstants
     DEF File!EndsPrematurely, File!TooBig, File!FileError, File!Throw,
         File!inputVars, FileInv, File!TypeOK
<1>6. CASE File!Restart
  BY <1>0, <1>6, FileNumbers, FileConstants
     DEF File!Restart, File!inputVars, FileInv, File!TypeOK
<1>7. CASE UNCHANGED File!vars
  BY <1>7 DEF File!vars, File!inputVars, FileInv, File!TypeOK, PacketInv
<1> QED
  BY <1>1, <1>2, <1>3, <1>4, <1>5, <1>6, <1>7 DEF File!Next, File!Read

\* The next end of a packet, if all frames before it are inside the packet.
LEMMA NextEndIs ==
    ASSUME FileInv, filePc = "read"
    PROVE  /\ \A k \in File!Source!Ends : k >= pos + 1
           /\ pos < Len(file) /\ file[pos + 1] = "end"
                 => /\ pos + 1 \in File!Source!Ends
                    /\ File!Source!NextEnd = pos + 1
<1>0. File!TypeOK /\ PacketInv
  BY DEF FileInv
<1>1. \A k \in File!Source!Ends : k >= pos + 1 /\ k \in Nat
  BY <1>0, FileNumbers DEF File!Source!Ends, PacketInv
<1>2. ASSUME pos < Len(file), file[pos + 1] = "end"
      PROVE  pos + 1 \in File!Source!Ends /\ File!Source!NextEnd = pos + 1
  <2> DEFINE E == File!Source!Ends
  <2>1. pos + 1 \in E
    BY <1>0, <1>2, FileNumbers DEF File!Source!Ends, PacketInv
  <2>2. \A k \in E : pos + 1 <= k
    BY <1>0, <1>1, FileNumbers
  <2> HIDE DEF E
  <2>3. File!Source!Min(E) = pos + 1
    <3>1. \A k \in E : (\A j \in E : k <= j) => k = pos + 1
      BY <1>0, <1>1, <2>1, <2>2, FileNumbers DEF E
    <3> QED
      BY <2>1, <2>2, <3>1 DEF File!Source!Min
  <2> QED
    BY <2>1, <2>3 DEF E, File!Source!NextEnd
<1> QED
  BY <1>1, <1>2

\* How far the packets of the file were delivered or skipped.
Cursor == IF filePc = "idle" THEN pos ELSE first - 1

\* A larger number of frames has more bytes.
LEMMA MoreBytes ==
    ASSUME NEW m \in Nat, NEW n \in Nat, m < n, NEW f \in Nat
    PROVE  m * f + f <= n * f
<1>1. PICK d \in Nat : n = m + 1 + d
  <2>1. n - m - 1 \in Nat /\ n = m + 1 + (n - m - 1)
    OBVIOUS
  <2> QED
    BY <2>1
<1>2. n * f = m * f + f + d * f
  BY <1>1
<1>3. d * f >= 0 /\ d * f \in Nat /\ m * f \in Nat
  OBVIOUS
<1> QED
  BY <1>2, <1>3

\* The bytes up to an end that is still to be read.
LEMMA BytesToEnd ==
    ASSUME FileInv, filePc = "read", NEW k \in File!Source!Ends
    PROVE  bytesRead + FrameSize <= (k - (first - 1)) * FrameSize
<1>0. File!TypeOK /\ PacketInv
  BY DEF FileInv
<1>1. k >= pos + 1 /\ k \in Nat
  BY <1>0, NextEndIs, FileNumbers DEF File!Source!Ends
<1>2. /\ pos + 1 - first \in Nat /\ k - (first - 1) \in Nat
      /\ pos + 1 - first < k - (first - 1)
  BY <1>0, <1>1, FileNumbers DEF PacketInv
<1> QED
  BY <1>0, <1>2, FileConstants, MoreBytes DEF PacketInv

\* When the packet that is being read goes beyond the frames of a slice, the
\* next end does, too.
LEMMA TooLarge ==
    ASSUME FileInv, filePc = "read", bytesRead >= size
    PROVE  ~File!Source!Fits
<1> SUFFICES ASSUME NEW k \in File!Source!Ends PROVE
                    ~((k - (first - 1)) * FrameSize <= size)
  BY DEF File!Source!Fits
<1>0. File!TypeOK
  BY DEF FileInv
<1>1. k - (first - 1) \in Int
  BY <1>0, FileNumbers DEF File!Source!Ends
<1>2. (k - (first - 1)) * FrameSize \in Int
  BY <1>1, FileConstants
<1> QED
  BY <1>0, <1>2, BytesToEnd, FileNumbers, FileConstants

LEMMA FileSourceStep ==
    FileInv /\ [File!Next]_(File!vars)
       => [File!Source!SourceNext]_(File!Source!sourceVars)
<1> SUFFICES ASSUME FileInv, [File!Next]_(File!vars)
             PROVE  [File!Source!SourceNext]_(File!Source!sourceVars)
  OBVIOUS
<1>0. File!TypeOK /\ (filePc = "read" => PacketInv)
  BY DEF FileInv
<1>1. ASSUME UNCHANGED <<file, size, Cursor, fileReturned, fileError>>
      PROVE  UNCHANGED File!Source!sourceVars
  BY <1>1 DEF File!Source!sourceVars, Cursor
<1>2. CASE File!ReadInput
  BY <1>0, <1>1, <1>2, FileNumbers
     DEF File!ReadInput, File!Begin, File!inputVars, Cursor
<1>3. CASE File!ReadData
  BY <1>1, <1>3 DEF File!ReadData, File!inputVars, Cursor
<1>4. CASE File!ReadEnd
  <2>1. /\ filePc = "read" /\ pos < Len(file) /\ file[pos + 1] = "end"
        /\ pos' = pos + 1 /\ bytesRead < size /\ UNCHANGED <<file, size>>
    BY <1>4 DEF File!ReadEnd, File!Begin, File!Throw, File!inputVars
  <2>2. File!Source!Ends # {} /\ File!Source!NextEnd = pos + 1
    BY <2>1, NextEndIs
  <2>3. File!Source!Fits <=> bytesRead + FrameSize <= size
    <3>1. pos + 1 \in File!Source!Ends
      BY <2>1, NextEndIs
    <3>2. ASSUME NEW k \in File!Source!Ends,
                 (k - (first - 1)) * FrameSize <= size
          PROVE  bytesRead + FrameSize <= size
      <4>1. (k - (first - 1)) * FrameSize \in Int
        BY <1>0, FileNumbers, FileConstants DEF File!Source!Ends
      <4> QED
        BY <1>0, <2>1, <3>2, <4>1, BytesToEnd, FileNumbers, FileConstants
    <3> DEFINE Bytes(k) == (k - (first - 1)) * FrameSize
    <3>3. File!Source!Fits <=> \E k \in File!Source!Ends : Bytes(k) <= size
      BY <2>1 DEF File!Source!Fits
    <3>4. Bytes(pos + 1) = bytesRead + FrameSize
      BY <1>0, <2>1, FileNumbers, FileConstants DEF PacketInv
    <3>5. \A k \in File!Source!Ends :
             Bytes(k) <= size => bytesRead + FrameSize <= size
      BY <3>2
    <3> HIDE DEF Bytes
    <3> QED
      BY <3>1, <3>3, <3>4, <3>5
  <2>4. CASE bytesRead + FrameSize <= size
    <3>1. /\ filePc' = "idle" /\ fileReturned' = <<first, pos + 1>>
          /\ UNCHANGED fileError
      BY <1>4, <2>4 DEF File!ReadEnd, File!AddFrame
    <3>2. (first - 1) + 1 = first
      BY <1>0, FileNumbers
    <3>3. File!Source!Deliver
      BY <2>1, <2>2, <2>3, <2>4, <3>1, <3>2 DEF File!Source!Deliver
    <3> QED
      BY <3>3 DEF File!Source!SourceNext
  <2>5. CASE ~(bytesRead + FrameSize <= size) /\ File!MaySkip
    <3>1. /\ filePc' = "read" /\ first' = pos + 2
          /\ UNCHANGED <<fileReturned, fileError>>
      BY <1>4, <2>5 DEF File!ReadEnd, File!AddFrame, File!Begin
    <3>2. first' - 1 = pos + 1
      BY <1>0, <3>1, FileNumbers
    <3>3. File!Source!Skip
      BY <2>1, <2>2, <2>3, <2>5, <3>1, <3>2 DEF File!Source!Skip
    <3> QED
      BY <3>3 DEF File!Source!SourceNext
  <2>6. CASE ~(bytesRead + FrameSize <= size) /\ ~File!MaySkip
    <3>1. /\ filePc' = "failed" /\ fileError' = "large"
          /\ UNCHANGED <<first, fileReturned>>
      BY <1>4, <2>6 DEF File!ReadEnd, File!AddFrame, File!Throw
    <3>2. File!Source!Fail
      BY <2>1, <2>3, <2>6, <3>1 DEF File!Source!Fail
    <3> QED
      BY <3>2 DEF File!Source!SourceNext
  <2> QED
    BY <2>4, <2>5, <2>6
<1>5. CASE File!Rewind
  <2>1. /\ filePc = "read" /\ pos = Len(file) /\ bytesRead = 0
        /\ filePc' = "read" /\ first' = 1
        /\ UNCHANGED <<file, size, fileReturned, fileError>>
    BY <1>5 DEF File!Rewind, File!PerfectEnd, File!inputVars
  <2>2. first - 1 = Len(file)
    <3>1. pos + 1 - first \in Nat /\ (pos + 1 - first) * FrameSize = 0
      BY <1>0, <2>1, FileNumbers DEF PacketInv
    <3>2. ~(0 < pos + 1 - first)
      <4> SUFFICES ASSUME 0 < pos + 1 - first PROVE FALSE
        OBVIOUS
      <4>1. 0 * FrameSize + FrameSize <= (pos + 1 - first) * FrameSize
        BY <3>1, FileConstants, MoreBytes
      <4> QED
        BY <3>1, <4>1, FileConstants
    <3> QED
      BY <1>0, <2>1, <3>1, <3>2, FileNumbers
  <2>3. File!Source!Rewind
    BY <2>1, <2>2 DEF File!Source!Rewind
  <2> QED
    BY <2>3 DEF File!Source!SourceNext
<1>6. CASE File!EndsPrematurely
  <2>1. /\ filePc = "read" /\ pos = Len(file)
        /\ filePc' = "failed" /\ fileError' = "misaligned"
        /\ UNCHANGED <<file, size, first, fileReturned>>
    BY <1>6 DEF File!EndsPrematurely, File!Throw, File!inputVars
  <2>2. File!Source!Ends = {}
    <3>1. \A k \in File!Source!Ends : k >= pos + 1 /\ k \in 1..Len(file)
      BY <1>0, <2>1, NextEndIs, FileNumbers DEF File!Source!Ends
    <3> QED
      BY <1>0, <2>1, <3>1, FileNumbers
  <2>3. File!Source!Fail
    BY <2>1, <2>2 DEF File!Source!Fail
  <2> QED
    BY <2>3 DEF File!Source!SourceNext
<1>7. CASE File!TooBig
  <2>1. /\ filePc = "read" /\ bytesRead >= size
        /\ filePc' = "failed" /\ fileError' = "oversized"
        /\ UNCHANGED <<file, size, first, fileReturned>>
    BY <1>7 DEF File!TooBig, File!Throw, File!inputVars
  <2>2. File!Source!Fail
    BY <2>1, TooLarge DEF File!Source!Fail
  <2> QED
    BY <2>2 DEF File!Source!SourceNext
<1>8. CASE File!FileError
  <2>1. /\ filePc = "read" /\ filePc' = "failed" /\ fileError' = "io"
        /\ UNCHANGED <<file, size, first, fileReturned>>
    BY <1>8 DEF File!FileError, File!Throw, File!inputVars
  <2>2. File!Source!Fail
    BY <2>1 DEF File!Source!Fail
  <2> QED
    BY <2>2 DEF File!Source!SourceNext
<1>9. CASE File!Restart
  <2>1. File!Source!Restart
    BY <1>9 DEF File!Restart, File!inputVars, File!Source!Restart, FileInv
  <2> QED
    BY <2>1 DEF File!Source!SourceNext
<1>10. CASE UNCHANGED File!vars
  BY <1>1, <1>10 DEF File!vars, File!inputVars, Cursor
<1> QED
  BY <1>2, <1>3, <1>4, <1>5, <1>6, <1>7, <1>8, <1>9, <1>10
     DEF File!Next, File!Read

\* The types of the file input and the bound on skipped packets, for every
\* file and every size of a slice.
THEOREM FileTypeSafety == InputSpec => []FileTypeOK
<1>1. FileInv => FileTypeOK
  BY DEF FileInv, FileTypeOK
<1> QED
  BY <1>1, InputSteps, FileInit, FileNext, PTL DEF File!Spec

\* The file input implements the source of packets that is the file.
THEOREM FileSourceSafety == InputSpec => IsFileSource
<1>1. File!Init => File!Source!SourceInit
  BY DEF File!Init, File!Source!SourceInit
<1> QED
  BY <1>1, InputSteps, FileInit, FileNext, FileSourceStep, PTL
     DEF File!Spec, IsFileSource, File!IsFileSource, File!Source!SourceSpec

-----------------------------------------------------------------------------
(* The WZ DMA input, as one of the three                                   *)

\* What was proved of it alone holds for the program that may have created
\* another input.
THEOREM WZDmaInputSafety ==
    InputSpec => []TypeOK /\ IsPacketSource /\ RetriesAreBounded
<1> QED
  BY InputSteps, TypeSafety, SourceSafety, RetrySafety, PTL
=============================================================================
