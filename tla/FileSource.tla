----------------------------- MODULE FileSource -----------------------------
(***************************************************************************)
(* What the file input promises: the packets of the file, which end with a *)
(* marker, one after the other and whole, over and over again.  It fails   *)
(* only where the file cannot be read, a packet has no end or is too large.*)
(***************************************************************************)
EXTENDS Naturals, Sequences, FiniteSetsExt

CONSTANT FrameSize

VARIABLES file, size,    \* the frames of the file; the size of a slice
          cursor,        \* the frames up to here were delivered or skipped
          delivered,     \* the frames <<first, last>> that were read last
          error

sourceVars == <<file, size, cursor, delivered, error>>

Ends == {k \in DOMAIN file : k > cursor /\ file[k] = "end"}

NextEnd == Min(Ends)

\* Some packet, and so the next one, ends within a slice.
Fits == \E k \in Ends : (k - cursor) * FrameSize <= size

SourceInit == cursor = 0 /\ delivered = <<0, 0>> /\ error = "none"

Deliver ==
    /\ Ends # {} /\ Fits
    /\ delivered' = <<cursor + 1, NextEnd>>
    /\ cursor' = NextEnd
    /\ UNCHANGED <<file, size, error>>

Skip ==
    /\ Ends # {} /\ ~Fits
    /\ cursor' = NextEnd
    /\ UNCHANGED <<file, size, delivered, error>>

Rewind ==
    /\ cursor = Len(file)
    /\ cursor' = 0
    /\ UNCHANGED <<file, size, delivered, error>>

Fail ==
    /\ error' = "io" \/ (error' # "none" /\ (Ends = {} \/ ~Fits))
    /\ UNCHANGED <<file, size, cursor, delivered>>

Restart ==
    /\ error # "none"
    /\ error' = "none" /\ cursor' = 0
    /\ UNCHANGED <<file, size, delivered>>

SourceNext == Deliver \/ Skip \/ Rewind \/ Fail \/ Restart

SourceSpec == SourceInit /\ [][SourceNext]_sourceVars
=============================================================================
