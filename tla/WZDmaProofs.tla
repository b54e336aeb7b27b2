---------------------------- MODULE WZDmaProofs ----------------------------
(***************************************************************************)
(* Proofs about WZDma, for any ring, packets and numbers of retries.       *)
(***************************************************************************)
EXTENDS WZDma, SequenceTheorems, TLAPS

Held == Packets \cup {NoPacket}

\* A read is only attempted while the DMA may still be restarted once.
TriesInv == pc \in {"get", "reset"} => tries < MaxTries

\* The packet that is being copied fits, and its buffer is kept from the board.
HoldInv == pc \in {"copy", "confirm"} =>
              bdesc \in taken /\ ring[bdesc] \notin Oversized

ReadInv == TypeOK /\ TriesInv /\ HoldInv

LEMMA Numbers ==
    /\ NofBufs \in Nat \ {0} /\ MaxSkips \in Nat \ {0}
    /\ MaxResets \in Nat /\ MaxTries \in Nat /\ MaxTries > 1
    /\ Oversized \subseteq Packets
    /\ 0 \in Buffers
    /\ \A i \in Buffers : (i + 1) % NofBufs \in Buffers
BY WZDmaAssumption DEF WZDmaAssumption, Buffers

\* The buffer that GETBUF takes is one of the ring.
LEMMA HeadOfFilled ==
    ASSUME filled \in Seq(Buffers), filled # <<>>
    PROVE  Head(filled) \in Buffers /\ Tail(filled) \in Seq(Buffers)
BY HeadTailProperties

LEMMA ReadInit == Init => ReadInv
BY Numbers, EmptySeq DEF Init, ReadInv, TypeOK, TriesInv, HoldInv, Buffers

LEMMA ReadNext == ReadInv /\ [Next]_vars => ReadInv'
<1> SUFFICES ASSUME ReadInv, [Next]_vars PROVE ReadInv'
  OBVIOUS
<1>0. <<>> \in Seq(Buffers)
  BY EmptySeq
<1> USE Numbers DEF ReadInv, TypeOK, TriesInv, HoldInv
<1>1. CASE Fill
  <2>1. PICK p \in Packets : ring' = [ring EXCEPT ![next] = p]
    BY <1>1 DEF Fill
  <2>2. filled' \in Seq(Buffers)
    BY <1>1, AppendProperties DEF Fill
  <2>3. TypeOK' /\ TriesInv'
    BY <1>1, <2>1, <2>2 DEF Fill, counters
  <2>4. HoldInv'
    <3> SUFFICES ASSUME pc \in {"copy", "confirm"} PROVE HoldInv'
      BY <1>1 DEF Fill
    <3>1. bdesc # next
      BY <1>1 DEF Fill
    <3> QED
      BY <1>1, <2>1, <3>1 DEF Fill
  <2> QED
    BY <2>3, <2>4
<1>2. CASE Construct
  <2>1. TypeOK'
    BY <1>2, <1>0 DEF Construct, NewRing, Throw, driverVars, counters
  <2> QED
    BY <1>2, <2>1 DEF Construct, Throw
<1>3. CASE Call
  BY <1>3 DEF Call, driverVars
<1>4. CASE ReadFits
  <2>1. Head(filled) \in Buffers /\ Tail(filled) \in Seq(Buffers)
    BY <1>4, HeadOfFilled DEF ReadFits, Take
  <2>2. pc' = "copy" /\ bdesc' \in taken' /\ ring'[bdesc'] \notin Oversized
    BY <1>4 DEF ReadFits, Take, Steps
  <2>3. TypeOK'
    BY <1>4, <2>1, <2>2 DEF ReadFits, Take, counters
  <2> QED
    BY <2>2, <2>3
<1>5. CASE ReadSkips
  <2>1. Head(filled) \in Buffers /\ Tail(filled) \in Seq(Buffers)
    BY <1>5, HeadOfFilled DEF ReadSkips, Take
  <2>2. /\ tries' = 1
        /\ pc' \in {"get", "reset", "failed"}
        /\ skip' \in 0..(MaxSkips - 1)
        /\ reset' \in 0..MaxResets
        /\ error' \in {error, "oversized"}
    BY <1>5 DEF ReadSkips, Throw
  <2>3. TypeOK'
    BY <1>5, <2>1, <2>2 DEF ReadSkips, Take
  <2> QED
    BY <2>2, <2>3
<1>6. CASE ReadRestarts
  <2>1. TypeOK'
    BY <1>0, <1>6 DEF ReadRestarts, NewRing, Throw
  <2> QED
    BY <1>6, <2>1 DEF ReadRestarts, Throw
<1>7. CASE RestartFails \/ ReadFails \/ ReadAborts
  <2>1. pc' \in {"failed", "exited"} /\ UNCHANGED <<ring, counters, bdesc, slice>>
    BY <1>7 DEF RestartFails, ReadFails, ReadAborts, NewRing, Throw, driverVars
  <2>2. /\ dma' \in {"closed", "running"} /\ next' \in Buffers
        /\ filled' \in Seq(Buffers) /\ taken' \subseteq Buffers
        /\ error' \in {error, "init", "read"}
    BY <1>0, <1>7 DEF RestartFails, ReadFails, ReadAborts, NewRing, Throw, driverVars
  <2> QED
    BY <2>1, <2>2 DEF counters
<1>8. CASE ResetBoard
  BY <1>8 DEF ResetBoard, driverVars, counters
<1>9. CASE Copy
  BY <1>9 DEF Copy, After, Steps, driverVars, counters
<1>10. CASE ReadComplete
  BY <1>10 DEF ReadComplete, After, Steps, Throw, counters
<1>11. CASE Destroy
  BY <1>0, <1>11 DEF Destroy, NewRing, counters
<1>12. CASE Restart
  BY <1>12 DEF Restart, driverVars, counters
<1>13. CASE UNCHANGED vars
  BY <1>13 DEF vars
<1> QED
  BY <1>1, <1>2, <1>3, <1>4, <1>5, <1>6, <1>7, <1>8, <1>9, <1>10, <1>11,
     <1>12, <1>13 DEF Next, Process, Read, Use

\* Every variable keeps its type and the retries stay below their limits, for
\* any sequence of driver errors and packets (WZDmaInputFilter.cc:43-144).
THEOREM TypeSafety == Spec => []TypeOK
<1>1. ReadInv => TypeOK
  BY DEF ReadInv
<1> QED
  BY <1>1, ReadInit, ReadNext, PTL DEF Spec

-----------------------------------------------------------------------------
(* The retries of a call are bounded                                       *)

\* Packets that may still be taken, and restarts for each of them.
PacketsLeft == (MaxResets - reset) * MaxSkips + (MaxSkips - 1 - skip)
RestartsLeft == MaxTries - tries

LEMMA LeftIs ==
    /\ IterationsLeft = PacketsLeft * MaxTries + RestartsLeft
    /\ IterationsLeft' = PacketsLeft' * MaxTries + RestartsLeft'
BY DEF IterationsLeft, PacketsLeft, RestartsLeft

LEMMA PacketsLeftType ==
    ASSUME NEW r \in 0..MaxResets, NEW s \in 0..(MaxSkips - 1)
    PROVE  (MaxResets - r) * MaxSkips + (MaxSkips - 1 - s) \in Nat
<1>1. /\ MaxResets - r \in Nat /\ MaxSkips - 1 - s \in Nat /\ MaxSkips \in Nat
  BY Numbers
<1>2. (MaxResets - r) * MaxSkips \in Nat
  BY ONLY <1>1
<1> QED
  BY <1>1, <1>2

\* What is left is a number.
LEMMA LeftType ==
    ASSUME ReadInv
    PROVE  /\ PacketsLeft \in Nat /\ RestartsLeft \in Nat
           /\ IterationsLeft \in Nat /\ PacketsLeft * MaxTries \in Nat
<1>1. /\ reset \in 0..MaxResets /\ skip \in 0..(MaxSkips - 1)
      /\ MaxTries \in Nat /\ tries \in 1..MaxTries
  BY Numbers DEF ReadInv, TypeOK
<1>2. PacketsLeft \in Nat
  BY <1>1, PacketsLeftType DEF PacketsLeft
<1>3. RestartsLeft \in Nat
  BY <1>1 DEF RestartsLeft
<1>4. PacketsLeft * MaxTries \in Nat
  BY ONLY <1>1, <1>2
<1> QED
  BY ONLY <1>2, <1>3, <1>4, LeftIs

\* A packet is skipped: with one packet fewer all restarts do not make up for
\* the one that the reads before left over.
LEMMA SkipUsesUpOne ==
    ASSUME ReadInv, ReadInv', TriesInv, pc = "get",
           PacketsLeft' = PacketsLeft - 1, tries' = 1
    PROVE  IterationsLeft' \in 0..(IterationsLeft - 1)
<1>1. /\ PacketsLeft \in Nat /\ MaxTries \in Nat \ {0}
      /\ PacketsLeft * MaxTries \in Nat
  BY LeftType, Numbers
<1>2. PacketsLeft - 1 \in Nat
  <2>1. reset' \in 0..MaxResets /\ skip' \in 0..(MaxSkips - 1)
    BY DEF ReadInv, TypeOK
  <2>2. PacketsLeft' \in Nat
    BY <2>1, PacketsLeftType DEF PacketsLeft
  <2> QED
    BY <2>2
<1>3. (PacketsLeft - 1) * MaxTries = PacketsLeft * MaxTries - MaxTries
  BY ONLY <1>1
<1>4. (PacketsLeft - 1) * MaxTries \in Nat
  BY ONLY <1>1, <1>2
<1>5. RestartsLeft' = MaxTries - 1 /\ RestartsLeft \in Nat \ {0}
  BY Numbers DEF RestartsLeft, ReadInv, TypeOK, TriesInv
<1>6. IterationsLeft' = (PacketsLeft - 1) * MaxTries + (MaxTries - 1)
  BY <1>5, LeftIs
<1>7. IterationsLeft = PacketsLeft * MaxTries + RestartsLeft
  BY LeftIs
<1> QED
  BY ONLY <1>1, <1>3, <1>4, <1>5, <1>6, <1>7

LEMMA RetryStep ==
    ReadInv /\ [Next]_vars => [Reading /\ Reading' => UsesUpOne]_vars
<1> SUFFICES ASSUME ReadInv, Next, Reading, Reading' PROVE UsesUpOne
  OBVIOUS
<1>0. ReadInv' /\ TriesInv
  BY ReadNext DEF ReadInv
<1>1. ASSUME UNCHANGED counters PROVE IterationsLeft' = IterationsLeft
  BY <1>1 DEF counters, IterationsLeft
<1>2. CASE Fill
  <2>1. UNCHANGED counters /\ filled' = Append(filled, next)
    BY <1>2 DEF Fill
  <2>2. Len(filled') > Len(filled)
    BY <2>1, AppendProperties, LenProperties DEF ReadInv, TypeOK
  <2> QED
    BY <1>1, <2>1, <2>2 DEF UsesUpOne
<1>3. CASE ReadSkips
  <2>1. /\ pc = "get" /\ tries' = 1
        /\ \/ skip' = skip + 1 /\ reset' = reset
           \/ skip' = 0 /\ skip = MaxSkips - 1 /\ reset' = reset + 1
    BY <1>3, Numbers DEF ReadSkips, Throw, Reading, ReadInv, TypeOK
  <2>2. /\ MaxResets \in Nat /\ reset \in Nat /\ MaxSkips \in Nat
        /\ skip \in Nat
    BY Numbers DEF ReadInv, TypeOK
  <2>3. PacketsLeft' = PacketsLeft - 1
    <3>1. CASE skip' = skip + 1 /\ reset' = reset
      <4>1. (MaxResets - reset) * MaxSkips \in Int
        BY ONLY <2>2
      <4> QED
        BY <2>2, <3>1, <4>1 DEF PacketsLeft
    <3>2. CASE skip' = 0 /\ skip = MaxSkips - 1 /\ reset' = reset + 1
      <4>1. /\ (MaxResets - reset) * MaxSkips \in Int
            /\ (MaxResets - (reset + 1)) * MaxSkips
                  = (MaxResets - reset) * MaxSkips - MaxSkips
        BY ONLY <2>2
      <4> QED
        BY <2>2, <3>2, <4>1 DEF PacketsLeft
    <3> QED
      BY <2>1, <3>1, <3>2
  <2> QED
    BY <1>0, <2>1, <2>3, SkipUsesUpOne DEF UsesUpOne
<1>4. CASE ReadRestarts
  <2>1. pc = "get" /\ tries' = tries + 1 /\ skip' = skip /\ reset' = reset
    BY <1>4 DEF ReadRestarts
  <2>2. /\ PacketsLeft' = PacketsLeft /\ PacketsLeft * MaxTries \in Nat
        /\ RestartsLeft' = RestartsLeft - 1 /\ RestartsLeft \in Nat \ {0}
    <3>1. PacketsLeft' = PacketsLeft
      BY <2>1 DEF PacketsLeft
    <3>2. RestartsLeft' = RestartsLeft - 1 /\ RestartsLeft \in Nat \ {0}
      BY <1>0, <2>1, Numbers DEF RestartsLeft, ReadInv, TypeOK, TriesInv
    <3> QED
      BY <3>1, <3>2, LeftType
  <2>3. IterationsLeft' \in 0..(IterationsLeft - 1)
    BY ONLY <2>2, LeftIs
  <2> QED
    BY <2>3 DEF UsesUpOne
<1>5. CASE ResetBoard
  BY <1>1, <1>5 DEF ResetBoard, UsesUpOne
<1>6. CASE \/ Construct \/ Call \/ ReadFits \/ RestartFails \/ ReadFails
           \/ ReadAborts \/ Copy \/ ReadComplete \/ Destroy \/ Restart
  BY <1>6 DEF Construct, Call, ReadFits, Steps, RestartFails, ReadFails,
              ReadAborts, Copy, ReadComplete, Destroy, Restart, Throw, Reading
<1> QED
  BY <1>2, <1>3, <1>4, <1>5, <1>6 DEF Next, Process, Read, Use

LEMMA LeftBound ==
    ReadInv => IterationsLeft < (MaxResets + 1) * MaxSkips * MaxTries
<1> SUFFICES ASSUME ReadInv
             PROVE  IterationsLeft < (MaxResets + 1) * MaxSkips * MaxTries
  OBVIOUS
<1> DEFINE most == (MaxResets + 1) * MaxSkips
<1>1. /\ MaxResets \in Nat /\ reset \in Nat /\ MaxSkips \in Nat \ {0}
      /\ skip \in Nat /\ MaxTries \in Nat /\ RestartsLeft <= MaxTries - 1
  BY Numbers DEF ReadInv, TypeOK, RestartsLeft
<1>2. /\ (MaxResets - reset) * MaxSkips = MaxResets * MaxSkips - reset * MaxSkips
      /\ reset * MaxSkips \in Nat /\ MaxResets * MaxSkips \in Nat
      /\ most = MaxResets * MaxSkips + MaxSkips
  BY ONLY <1>1
<1>3. most \in Nat /\ PacketsLeft <= most - 1
  BY ONLY <1>1, <1>2 DEF PacketsLeft
<1> HIDE DEF most
<1>4. PacketsLeft \in Nat /\ RestartsLeft \in Nat
  BY LeftType
<1>5. /\ most - 1 - PacketsLeft \in Nat
      /\ most * MaxTries = PacketsLeft * MaxTries + MaxTries
                              + (most - 1 - PacketsLeft) * MaxTries
  BY ONLY <1>1, <1>3, <1>4
<1>6. /\ (most - 1 - PacketsLeft) * MaxTries \in Nat
      /\ PacketsLeft * MaxTries \in Nat
  BY ONLY <1>1, <1>4, <1>5
<1>7. IterationsLeft < most * MaxTries
  BY ONLY <1>1, <1>4, <1>5, <1>6, LeftIs
<1> QED
  BY <1>7 DEF most

\* For any limits, and any order of errors and oversized packets, a call makes
\* fewer iterations than MaxTries times MaxSkips times MaxResets + 1
\* (WZDmaInputFilter.cc:43-141).
THEOREM RetrySafety ==
    Spec => /\ RetriesAreBounded
            /\ [](IterationsLeft < (MaxResets + 1) * MaxSkips * MaxTries)
<1> QED
  BY RetryStep, LeftBound, ReadInit, ReadNext, PTL DEF Spec, RetriesAreBounded

-----------------------------------------------------------------------------
(* The input implements PacketSource                                       *)

\* The packets in a sequence of buffers.
PacketsIn(r, s) == [i \in DOMAIN s |-> r[s[i]]]

LEMMA PacketsInSeq ==
    ASSUME NEW r \in [Buffers -> Held], NEW s \in Seq(Buffers)
    PROVE  /\ PacketsIn(r, s) \in Seq(Held)
           /\ Len(PacketsIn(r, s)) = Len(s)
           /\ \A i \in 1..Len(s) : PacketsIn(r, s)[i] = r[s[i]]
<1>1. Len(s) \in Nat /\ DOMAIN s = 1..Len(s) /\ \A i \in 1..Len(s) : s[i] \in Buffers
  BY LenProperties
<1> QED
  BY <1>1 DEF PacketsIn

\* The board writes into a buffer that is not in the sequence.
LEMMA PacketsInFill ==
    ASSUME NEW r \in [Buffers -> Held], NEW s \in Seq(Buffers),
           NEW n \in Buffers, n \notin Range(s), NEW p \in Packets
    PROVE  PacketsIn([r EXCEPT ![n] = p], Append(s, n))
             = Append(PacketsIn(r, s), p)
<1> DEFINE q == [r EXCEPT ![n] = p]
           t == Append(s, n)
<1>1. q \in [Buffers -> Held] /\ p \in Held
  BY DEF Held
<1>2. /\ t \in Seq(Buffers) /\ Len(t) = Len(s) + 1 /\ Len(s) \in Nat
      /\ t[Len(s) + 1] = n /\ \A i \in 1..Len(s) : t[i] = s[i]
  BY AppendProperties, LenProperties
<1>3. \A i \in 1..Len(s) : s[i] # n /\ s[i] \in Buffers
  BY RangeEquality, LenProperties
<1>4. \A i \in 1..Len(s) : q[s[i]] = r[s[i]]
  BY <1>3
<1>5. q[n] = p
  OBVIOUS
<1> HIDE DEF q, t
<1>6. /\ PacketsIn(q, t) \in Seq(Held) /\ Len(PacketsIn(q, t)) = Len(s) + 1
      /\ \A i \in 1..(Len(s) + 1) : PacketsIn(q, t)[i] = q[t[i]]
  BY <1>1, <1>2, PacketsInSeq
<1>7. /\ PacketsIn(r, s) \in Seq(Held) /\ Len(PacketsIn(r, s)) = Len(s)
      /\ \A i \in 1..Len(s) : PacketsIn(r, s)[i] = r[s[i]]
  BY PacketsInSeq
<1>8. /\ Append(PacketsIn(r, s), p) \in Seq(Held)
      /\ Len(Append(PacketsIn(r, s), p)) = Len(s) + 1
      /\ Append(PacketsIn(r, s), p)[Len(s) + 1] = p
      /\ \A i \in 1..Len(s) : Append(PacketsIn(r, s), p)[i] = PacketsIn(r, s)[i]
  BY <1>1, <1>7, AppendProperties
<1>9. \A i \in 1..(Len(s) + 1) : PacketsIn(q, t)[i] = Append(PacketsIn(r, s), p)[i]
  <2> TAKE i \in 1..(Len(s) + 1)
  <2>0. i \in 1..Len(s) \/ i = Len(s) + 1
    <3>1. Len(s) \in Nat
      BY LenProperties
    <3> QED
      BY ONLY <3>1, i \in 1..(Len(s) + 1)
  <2>1. CASE i = Len(s) + 1
    BY <1>2, <1>5, <1>6, <1>8, <2>1
  <2>2. CASE i \in 1..Len(s)
    BY <1>2, <1>4, <1>6, <1>7, <1>8, <2>2
  <2> QED
    BY <2>0, <2>1, <2>2
<1>10. PacketsIn(q, t) = Append(PacketsIn(r, s), p)
  BY <1>6, <1>8, <1>9, SeqEqual
<1> QED
  BY <1>10 DEF q, t

\* The first packet is that of the first buffer; the others follow.
LEMMA PacketsInHead ==
    ASSUME NEW r \in [Buffers -> Held], NEW s \in Seq(Buffers), s # <<>>
    PROVE  /\ PacketsIn(r, s) # <<>>
           /\ Head(PacketsIn(r, s)) = r[Head(s)]
           /\ Tail(PacketsIn(r, s)) = PacketsIn(r, Tail(s))
<1>1. Len(s) \in Nat \ {0}
  BY EmptySeq
<1>2. /\ Tail(s) \in Seq(Buffers) /\ Len(Tail(s)) = Len(s) - 1
      /\ \A i \in 1..Len(Tail(s)) : Tail(s)[i] = s[i + 1]
  BY HeadTailProperties
<1>3. /\ PacketsIn(r, s) \in Seq(Held) /\ Len(PacketsIn(r, s)) = Len(s)
      /\ \A i \in 1..Len(s) : PacketsIn(r, s)[i] = r[s[i]]
  BY PacketsInSeq
<1>4. PacketsIn(r, s) # <<>>
  BY <1>1, <1>3, EmptySeq
<1>5. Head(PacketsIn(r, s)) = r[Head(s)]
  BY <1>1, <1>3
<1>6. /\ Tail(PacketsIn(r, s)) \in Seq(Held)
      /\ Len(Tail(PacketsIn(r, s))) = Len(s) - 1
      /\ \A i \in 1..(Len(s) - 1) : Tail(PacketsIn(r, s))[i] = PacketsIn(r, s)[i + 1]
  BY <1>3, <1>4, HeadTailProperties
<1>7. /\ PacketsIn(r, Tail(s)) \in Seq(Held)
      /\ Len(PacketsIn(r, Tail(s))) = Len(s) - 1
      /\ \A i \in 1..(Len(s) - 1) : PacketsIn(r, Tail(s))[i] = r[Tail(s)[i]]
  BY <1>2, PacketsInSeq
<1>8. \A i \in 1..(Len(s) - 1) : Tail(PacketsIn(r, s))[i] = PacketsIn(r, Tail(s))[i]
  BY <1>1, <1>2, <1>3, <1>6, <1>7
<1>9. Tail(PacketsIn(r, s)) = PacketsIn(r, Tail(s))
  BY <1>1, <1>6, <1>7, <1>8, SeqEqual
<1> QED
  BY <1>4, <1>5, <1>9

\* The buffers that are unread: the one that is being copied, and the filled.
LEMMA UnreadIs ==
    /\ pc = "copy" => Unread = <<bdesc>> \o filled
    /\ pc # "copy" => Unread = filled
    /\ pc' = "copy" => Unread' = <<bdesc'>> \o filled'
    /\ pc' # "copy" => Unread' = filled'
BY DEF Unread, After, Steps

LEMMA WaitingIs ==
    Waiting = PacketsIn(ring, Unread) /\ Waiting' = PacketsIn(ring', Unread')
BY DEF Waiting, PacketsIn

LEMMA SourceInitial == Init => Source!SourceInit
<1> SUFFICES ASSUME Init PROVE Source!SourceInit
  OBVIOUS
<1>1. Unread = <<>>
  BY UnreadIs DEF Init
<1>2. Waiting = <<>>
  BY <1>1 DEF Waiting
<1> QED
  BY <1>2 DEF Init, Source!SourceInit

LEMMA SourceStep ==
    ReadInv /\ [Next]_vars => [Source!SourceNext]_(Source!sourceVars)
<1> SUFFICES ASSUME ReadInv, [Next]_vars
             PROVE  [Source!SourceNext]_(Source!sourceVars)
  OBVIOUS
<1> USE DEF ReadInv
<1> DEFINE Goal == [Source!SourceNext]_(Source!sourceVars)
<1>0. /\ ring \in [Buffers -> Held] /\ filled \in Seq(Buffers)
      /\ next \in Buffers /\ bdesc \in Buffers
      /\ <<bdesc>> \in Seq(Buffers)
  BY DEF TypeOK, Held
\* A step that leaves the ring and the unread buffers alone is a stutter.
<1>1. ASSUME Unread' = Unread, ring' = ring, slice' = slice PROVE Goal
  BY <1>1 DEF Waiting, Source!sourceVars
\* When the ring is lost nothing is waiting any more.
<1>2. ASSUME Unread' = <<>>, slice' = slice PROVE Goal
  <2>1. Waiting' = <<>>
    BY <1>2 DEF Waiting
  <2> QED
    BY <1>2, <2>1 DEF Source!SourceNext, Source!Fail
<1>3. CASE Fill
  <2>1. PICK p \in Packets : ring' = [ring EXCEPT ![next] = p]
    BY <1>3 DEF Fill
  <2>2. next \notin Range(filled) /\ next \notin taken
    BY <1>3 DEF Fill
  <2>3. Unread \in Seq(Buffers) /\ next \notin Range(Unread)
    <3>1. CASE pc = "copy"
      <4>1. Unread = <<bdesc>> \o filled
        BY <3>1, UnreadIs
      <4>2. Range(Unread) = Range(<<bdesc>>) \cup Range(filled)
        <5>1. filled \in Seq(Buffers) /\ <<bdesc>> \in Seq(Buffers)
          BY <1>0
        <5>2. Range(<<bdesc>> \o filled) = Range(<<bdesc>>) \cup Range(filled)
          BY <5>1, RangeConcatenation
        <5> QED
          BY <4>1, <5>2
      <4>3. Range(<<bdesc>>) = {bdesc} /\ bdesc \in taken
        BY <3>1 DEF Range, HoldInv
      <4> QED
        BY <1>0, <2>2, <4>1, <4>2, <4>3, ConcatProperties
    <3>2. CASE pc # "copy"
      BY <1>0, <2>2, <3>2, UnreadIs
    <3> QED
      BY <3>1, <3>2
  <2>4. Unread' = Append(Unread, next)
    <3>1. filled' = Append(filled, next) /\ pc' = pc /\ bdesc' = bdesc
      BY <1>3 DEF Fill
    <3>2. <<bdesc>> \o Append(filled, next) = Append(<<bdesc>> \o filled, next)
      BY <1>0
    <3> QED
      BY <3>1, <3>2, UnreadIs
  <2>5. Waiting' = Append(Waiting, p)
    BY <1>0, <2>1, <2>3, <2>4, PacketsInFill, WaitingIs
  <2> QED
    BY <1>3, <2>5 DEF Fill, Source!SourceNext, Source!Send
<1>4. CASE Construct
  <2>1. pc # "copy" /\ pc' # "copy" /\ slice' = slice /\ ring' = ring
    BY <1>4 DEF Construct, Throw, NewRing, driverVars
  <2>2. filled' = <<>> \/ filled' = filled
    BY <1>4 DEF Construct, NewRing, driverVars
  <2> QED
    BY <1>1, <1>2, <2>1, <2>2, UnreadIs
<1>5. CASE Call \/ ResetBoard \/ Restart
  <2>1. pc # "copy" /\ pc' # "copy" /\ UNCHANGED <<slice, ring, filled>>
    BY <1>5 DEF Call, ResetBoard, Restart, driverVars
  <2> QED
    BY <1>1, <2>1, UnreadIs
\* The buffer that is taken is still unread.
<1>6. CASE ReadFits
  <2>1. /\ filled # <<>> /\ bdesc' = Head(filled) /\ filled' = Tail(filled)
        /\ pc = "get" /\ pc' = "copy" /\ slice' = slice /\ ring' = ring
    BY <1>6 DEF ReadFits, Take, Steps
  <2>2. <<Head(filled)>> \o Tail(filled) = filled
    BY <1>0, <2>1
  <2> QED
    BY <1>1, <2>1, <2>2, UnreadIs
<1>7. CASE ReadSkips
  <2>1. /\ filled # <<>> /\ filled' = Tail(filled)
        /\ ring[Head(filled)] \in Oversized
        /\ pc = "get" /\ pc' # "copy" /\ slice' = slice /\ ring' = ring
    BY <1>7 DEF ReadSkips, Take, Throw
  <2>2. Unread = filled /\ Unread' = Tail(filled)
    BY <2>1, UnreadIs
  <2>3. /\ Waiting # <<>> /\ Head(Waiting) \in Oversized
        /\ Waiting' = Tail(Waiting)
    BY <1>0, <2>1, <2>2, PacketsInHead, WaitingIs
  <2> QED
    BY <2>1, <2>3 DEF Source!SourceNext, Source!Skip
<1>8. CASE ReadRestarts \/ RestartFails \/ ReadAborts
  <2>1. filled' = <<>> /\ pc' # "copy" /\ slice' = slice
    BY <1>8 DEF ReadRestarts, RestartFails, ReadAborts, NewRing, Throw
  <2> QED
    BY <1>2, <2>1, UnreadIs
<1>9. CASE ReadFails
  <2>1. pc # "copy" /\ pc' # "copy" /\ UNCHANGED <<slice, ring, filled>>
    BY <1>9 DEF ReadFails, Throw, driverVars
  <2> QED
    BY <1>1, <2>1, UnreadIs
<1>10. CASE Copy
  <2>1. /\ pc = "copy" /\ pc' # "copy" /\ slice' = ring[bdesc]
        /\ filled' = filled /\ ring' = ring
    BY <1>10 DEF Copy, After, Steps, driverVars
  <2>2. Unread = <<bdesc>> \o filled /\ Unread' = filled
    BY <2>1, UnreadIs
  <2>3. Unread \in Seq(Buffers) /\ Unread # <<>>
    BY <1>0, <2>2
  <2>4. Head(Unread) = bdesc /\ Tail(Unread) = filled
    BY <1>0, <2>2
  <2>5. /\ Waiting # <<>> /\ Head(Waiting) = ring[bdesc]
        /\ Waiting' = Tail(Waiting)
    BY <1>0, <2>1, <2>2, <2>3, <2>4, PacketsInHead, WaitingIs
  <2>6. ring[bdesc] \notin Oversized
    BY <2>1 DEF HoldInv
  <2> QED
    BY <2>1, <2>5, <2>6 DEF Source!SourceNext, Source!Deliver
<1>11. CASE ReadComplete
  <2>1. pc # "copy" /\ pc' # "copy" /\ UNCHANGED <<slice, ring, filled>>
    BY <1>11 DEF ReadComplete, After, Steps, Throw
  <2> QED
    BY <1>1, <2>1, UnreadIs
<1>12. CASE Destroy
  <2>1. filled' = <<>> /\ pc' # "copy" /\ slice' = slice
    BY <1>12 DEF Destroy, NewRing
  <2> QED
    BY <1>2, <2>1, UnreadIs
<1>13. CASE UNCHANGED vars
  <2>1. UNCHANGED <<pc, bdesc, filled, ring, slice>>
    BY <1>13 DEF vars
  <2> QED
    BY <1>1, <2>1, UnreadIs
<1> QED
  BY <1>3, <1>4, <1>5, <1>6, <1>7, <1>8, <1>9, <1>10, <1>11, <1>12, <1>13
     DEF Next, Process, Read, Use

\* For any ring and any limits, the packets of the board reach the slices in
\* their order, each once and unharmed, and only oversized packets and what is
\* in the ring at a restart are lost (InputFilter.cc:133-148).
THEOREM SourceSafety == Spec => IsPacketSource
<1> QED
  BY SourceInitial, SourceStep, ReadInit, ReadNext, PTL
     DEF Spec, IsPacketSource, Source!SourceSpec
=============================================================================
