------------------------------ MODULE FileInput ------------------------------
(***************************************************************************)
(* The file input of scdaq: FileDmaInputFilter, which reads packets from a *)
(* file of 32 byte frames, the last frame of a packet being marked.  A     *)
(* packet is given by the places of its first and last frames.             *)
(***************************************************************************)
EXTENDS Naturals, Sequences, SequencesExt

CONSTANTS
    MaxFrames,    \* bound: the frames of the file
    FrameSize,    \* 32
    Sizes,        \* the sizes of a slice
    MaxSkips      \* 100: large packets that are skipped in one call

FileAssumption ==
    /\ MaxFrames \in Nat
    /\ FrameSize \in Nat \ {0}
    /\ Sizes \subseteq Nat \ {0}
    /\ MaxSkips \in Nat \ {0}

VARIABLES
    \* the file: whole frames, and bytes after the last one; a slice
    file, rest, size,
    \* the stream: the frames that were read
    pos,
    \* readPacket and read_dma_packet_from_file
    pc, first, bytesRead, skip,
    \* what was returned or thrown last
    returned, error

inputVars == <<file, rest, size>>
vars == <<file, rest, size, pos, pc, first, bytesRead, skip, returned, error>>

Init ==
    /\ file \in UNION {[1..n -> {"data", "end"}] : n \in 0..MaxFrames}
    /\ rest \in 0..(FrameSize - 1)
    /\ size \in Sizes
    /\ pos = 0
    /\ pc = "idle" /\ first = 1 /\ bytesRead = 0 /\ skip = 0
    /\ returned = <<0, 0>> /\ error = "none"

Throw(reason) ==
    /\ pc' = "failed" /\ error' = reason
    /\ UNCHANGED <<inputVars, first, skip, returned>>

\* read_dma_packet_from_file begins to read a packet.
Begin == pc' = "read" /\ bytesRead' = 0

\* readInput
ReadInput ==
    /\ pc = "idle"
    /\ Begin
    /\ first' = pos + 1
    /\ skip' = 0
    /\ UNCHANGED <<inputVars, pos, returned, error>>

\* Mutant: the bytes are not counted.
SameBytes(n) == n

AddFrame(n) == n + FrameSize

\* A frame inside a packet.
ReadData ==
    /\ pc = "read" /\ bytesRead < size
    /\ pos < Len(file) /\ file[pos + 1] = "data"
    /\ pos' = pos + 1
    /\ bytesRead' = AddFrame(bytesRead)
    /\ UNCHANGED <<inputVars, pc, first, skip, returned, error>>

\* Mutant: one packet too many is skipped.
MaySkipOneMore == skip + 1 <= MaxSkips

MaySkip == skip + 1 < MaxSkips

\* The last frame of a packet.  Only when the size of a slice is no multiple
\* of that of a frame the packet may be larger and is skipped.
ReadEnd ==
    /\ pc = "read" /\ bytesRead < size
    /\ pos < Len(file) /\ file[pos + 1] = "end"
    /\ pos' = pos + 1
    /\ IF AddFrame(bytesRead) <= size
         THEN /\ pc' = "idle"
              /\ bytesRead' = AddFrame(bytesRead)
              /\ returned' = <<first, pos + 1>>
              /\ UNCHANGED <<inputVars, first, skip, error>>
       ELSE IF MaySkip
         THEN /\ Begin
              /\ first' = pos + 2
              /\ skip' = skip + 1
              /\ UNCHANGED <<inputVars, returned, error>>
         ELSE Throw("large") /\ bytesRead' = AddFrame(bytesRead)

\* Mutant: the file is rewound in the middle of a packet too.
AnyEnd == rest = 0

\* fread found the end of the file where a packet would begin.
PerfectEnd == rest = 0 /\ bytesRead = 0

Rewind ==
    /\ pc = "read" /\ bytesRead < size
    /\ pos = Len(file) /\ PerfectEnd
    /\ pos' = 0
    /\ first' = 1
    /\ UNCHANGED <<inputVars, pc, bytesRead, skip, returned, error>>

\* fread found the end of the file anywhere else.
EndsPrematurely ==
    /\ pc = "read" /\ bytesRead < size
    /\ pos = Len(file) /\ ~PerfectEnd
    /\ Throw("misaligned")
    /\ UNCHANGED <<pos, bytesRead>>

\* The loop ends without the end of a packet.  It cannot be at the end of the
\* file, which the read before has thrown at.
TooBig ==
    /\ pc = "read" /\ bytesRead >= size
    /\ Throw("oversized")
    /\ UNCHANGED <<pos, bytesRead>>

\* ferror
FileError ==
    /\ pc = "read" /\ bytesRead < size
    /\ Throw("io")
    /\ UNCHANGED <<pos, bytesRead>>

\* main ends and run.sh starts the program again, which opens the file.
Restart ==
    /\ pc = "failed"
    /\ pc' = "idle" /\ error' = "none"
    /\ pos' = 0 /\ first' = 1 /\ bytesRead' = 0
    /\ UNCHANGED <<inputVars, skip, returned>>

\* The loop of read_dma_packet_from_file.
Read == ReadData \/ ReadEnd \/ Rewind \/ EndsPrematurely \/ TooBig

Next == ReadInput \/ Read \/ FileError \/ Restart

Spec == Init /\ [][Next]_vars

\* The thread goes on; nothing makes a file error happen.
Fairness == WF_vars(Read)

-----------------------------------------------------------------------------
(* Properties                                                              *)

\* Every variable keeps its type, and the skipped packets their bound.
TypeOK ==
    /\ file \in Seq({"data", "end"}) /\ Len(file) <= MaxFrames
    /\ rest \in 0..(FrameSize - 1) /\ size \in Sizes
    /\ pos \in 0..Len(file)
    /\ pc \in {"idle", "read", "failed"}
    /\ first \in 1..(Len(file) + 1)
    /\ bytesRead \in 0..(size + FrameSize - 1)
    /\ skip \in 0..(MaxSkips - 1)
    /\ returned \in (0..Len(file)) \X (0..Len(file))
    /\ error \in {"none", "misaligned", "oversized", "large", "io"}

\* Every file, and every size of a slice: packets come whole, in the order of
\* the file and again from its beginning, and only packets that are too large
\* are skipped (FileDmaInputFilter.cc:35-106).
Source == INSTANCE FileSource
    WITH cursor <- IF pc = "idle" THEN pos ELSE first - 1,
         delivered <- returned

IsFileSource == Source!SourceSpec

\* A call ends, with a packet or with an exception, unless the file is empty
\* (FileDmaInputFilter.cc:41-68).
CallEnds == (file # <<>> \/ rest # 0) /\ pc = "read" ~> pc # "read"
=============================================================================
