---------------------------- MODULE GmtProcessor ----------------------------
(***************************************************************************)
(* The unpacking of GMT data: StreamProcessor::process with CountBX and    *)
(* FillOrbit, loop by loop.  A packet is a sequence of orbits and a        *)
(* trailer.  An orbit is a header, one block for each bunch crossing of    *)
(* its map, and the orbit trailer with the map; a block has a first and a  *)
(* second muon per link.  The output is a header for a block and its       *)
(* muons, in cells of 12 bytes.  Input is measured in units of 32 bytes.   *)
(***************************************************************************)
EXTENDS Naturals, Sequences, FiniteSets

CONSTANTS
    OrbitCounts,   \* bound: how many orbits a packet may have
    MapBits,       \* bound: the bits of the map of an orbit, 14 * 8 * 32
    BunchCrossings,\* bound: those that are used
    MuonSets       \* bound: the sets of links of a block that have a muon

Links == 0..7

ASSUME GmtAssumption ==
    /\ OrbitCounts \subseteq Nat \ {0}
    /\ MapBits \in 0..3584 /\ BunchCrossings \subseteq 0..(MapBits - 1)
    /\ MuonSets \subseteq SUBSET Links

VARIABLES packet, size,   \* the input and input.size()
          doZS, nOrbits,  \* nOrbitsPerDMAPacket
          pc,             \* the loop that process() is in
          p, q, counts,   \* its variables, p and q as distances
          bit, bxVect,    \* CountBX: the next bit of the map; the result
          block, relbx, orbitCount, \* FillOrbit: p as a block, relbx from 1
          out,            \* what was written to the output slice
          result          \* its end and counts

input == <<packet, size, doZS, nOrbits>>
counting == <<bit, bxVect>>
filling == <<block, relbx, orbitCount, out>>
totals == <<p, q, counts>>
vars == <<input, pc, totals, counting, filling, result>>

HeaderUnits == 1
BlockUnits == 6
TrailerUnits == 17

\* The links of a block with a first (a) and with a second muon (b).
Block == [a : MuonSets, b : MuonSets]

Orbit == UNION {[map : {m}, blocks : [1..Cardinality(m) -> Block]] :
                   m \in SUBSET BunchCrossings}

OrbitUnits(nbx) == HeaderUnits + nbx * BlockUnits + TrailerUnits

\* A call begins with new variables and a new slice for the output; calls have
\* nothing in common.
Init ==
    /\ pc = "packet"
    /\ packet = <<>> /\ size = 1
    /\ doZS \in BOOLEAN /\ nOrbits \in OrbitCounts
    /\ p = 0 /\ q = 0 /\ counts = 0
    /\ bit = 0 /\ bxVect = <<>>
    /\ block = 1 /\ relbx = 1 /\ orbitCount = 0 /\ out = <<>>
    /\ result = [end |-> 0, counts |-> 0]

-----------------------------------------------------------------------------
(* The packet                                                              *)

\* The packet of the input slice has one more orbit.
AddOrbit(orbit) ==
    /\ pc = "packet" /\ \E n \in OrbitCounts : Len(packet) < n
    /\ packet' = Append(packet, orbit)
    /\ size' = size + OrbitUnits(Len(orbit.blocks))
    /\ UNCHANGED <<doZS, nOrbits, pc, totals, counting, filling, result>>

\* operator() gets the slice.
Call ==
    /\ pc = "packet" /\ Len(packet) \in OrbitCounts
    /\ pc' = "check"
    /\ UNCHANGED <<input, totals, counting, filling, result>>

-----------------------------------------------------------------------------
(* CheckFrameMultBlock and CountBX                                         *)

\* The 2^32 bytes at which the size wraps around, in units.
Wrap == 134217728

CheckFrameMultBlock ==
    LET overhead == nOrbits * (TrailerUnits + HeaderUnits) + HeaderUnits
    IN  ((Wrap + size - overhead) % Wrap) % BlockUnits = 0

Check ==
    /\ pc = "check"
    /\ pc' = IF CheckFrameMultBlock THEN "count" ELSE "done"
    /\ UNCHANGED <<input, totals, counting, filling, result>>

\* CountBX and FillOrbit begin at the first orbit every time.
First == packet[1]

\* bit_check: a bit that is set is a crossing.
BitCheck == IF bit \in First.map THEN Append(bxVect, bit) ELSE bxVect

\* The crossings are found in order, so there is nothing to sort.
TestBit ==
    /\ pc = "count" /\ bit < MapBits
    /\ bxVect' = BitCheck
    /\ bit' = bit + 1
    /\ UNCHANGED <<input, pc, totals, filling, result>>

\* FillOrbit begins at the beginning of the output every time.
StartFill ==
    /\ pc = "count" /\ bit = MapBits
    /\ pc' = "fill"
    /\ block' = 1 /\ relbx' = 1 /\ orbitCount' = 0
    /\ UNCHANGED <<input, totals, counting, out, result>>

-----------------------------------------------------------------------------
(* FillOrbit                                                               *)

\* The links that are written: without zero suppression all of them.
On(muons) == IF doZS THEN muons ELSE Links

HasMuons(bl) == On(bl.a) # {} \/ On(bl.b) # {}

\* Mutant: the second muons are counted twice.
MuonCountTwice(bl) == Cardinality(On(bl.a)) + 2 * Cardinality(On(bl.b))

MuonCount(bl) == Cardinality(On(bl.a)) + Cardinality(On(bl.b))

\* What is written for a block: the header with the crossing, and the muons
\* with a crossing whose last bit tells the second muon of a link.
Entry(orbit, k, bl, bx) ==
    [orbit |-> orbit, block |-> k, bx |-> bx,
     a |-> On(bl.a) \X {2 * (bx \div 2)},
     b |-> On(bl.b) \X {2 * (bx \div 2) + 1}]

\* All crossings are done, or the trailer of the orbit is reached.
OrbitEnds == relbx > Len(bxVect) \/ block > Len(First.blocks)

\* A block is written, over the one that an earlier round wrote there.
FillBlock ==
    /\ pc = "fill" /\ ~OrbitEnds /\ HasMuons(First.blocks[block])
    /\ LET entry == Entry(1, block, First.blocks[block], bxVect[relbx])
       IN  out' = IF relbx \in DOMAIN out THEN [out EXCEPT ![relbx] = entry]
                                          ELSE Append(out, entry)
    /\ orbitCount' = orbitCount + MuonCount(First.blocks[block])
    /\ block' = block + 1
    /\ relbx' = relbx + 1
    /\ UNCHANGED <<input, pc, totals, counting, result>>

\* A block without muons is left out, and its crossing is that of the next.
SkipBlock ==
    /\ pc = "fill" /\ ~OrbitEnds /\ ~HasMuons(First.blocks[block])
    /\ block' = block + 1
    /\ UNCHANGED <<input, pc, totals, counting, relbx, orbitCount, out, result>>

-----------------------------------------------------------------------------
(* process                                                                 *)

\* Mutant: the header of the orbit is forgotten.
AdvanceNoHeader(nbx) == nbx * BlockUnits + TrailerUnits

\* How far the input is read on for an orbit.
Advance(nbx) == HeaderUnits + nbx * BlockUnits + TrailerUnits

\* Mutant: the block headers are forgotten.
WrittenNoHeaders(count, nbx) == count

\* How many cells an orbit is taken to fill.
Written(count, nbx) == count + nbx

\* FillOrbit returns.  Bound: nothing is counted any more behind the packet.
FillReturns ==
    /\ pc = "fill" /\ OrbitEnds
    /\ pc' = "trailer"
    /\ IF p < size
         THEN /\ p' = p + Advance(Len(bxVect))
              /\ q' = q + Written(orbitCount, Len(bxVect))
              /\ counts' = counts + orbitCount
         ELSE UNCHANGED totals
    /\ bit' = 0 /\ bxVect' = <<>>
    /\ UNCHANGED <<input, filling, result>>

\* Mutant: the trailer is looked for behind the packet.
BehindTrailer == p = size

\* Is there the trailer of the packet?
AtTrailer == p = size - 1

EndOfPacket ==
    /\ pc = "trailer" /\ AtTrailer
    /\ pc' = "done"
    /\ result' = [end |-> q, counts |-> counts]
    /\ UNCHANGED <<input, totals, counting, filling>>

NextOrbit ==
    /\ pc = "trailer" /\ ~AtTrailer
    /\ pc' = "count"
    /\ UNCHANGED <<input, totals, counting, filling, result>>

Process == \/ Check \/ TestBit \/ StartFill \/ FillBlock \/ SkipBlock
           \/ FillReturns \/ EndOfPacket \/ NextOrbit

Next == (\E orbit \in Orbit : AddOrbit(orbit)) \/ Call \/ Process

\* The worker goes on.
Spec == Init /\ [][Next]_vars /\ WF_vars(Process)

-----------------------------------------------------------------------------
(* Properties                                                              *)

OutputEntry == [orbit : {1}, block : Nat, bx : BunchCrossings,
              a : SUBSET (Links \X Nat), b : SUBSET (Links \X Nat)]

\* Every variable keeps its type; of the blocks that were read no more muons
\* are counted than there is room for.
TypeOK ==
    /\ packet \in Seq(Orbit) /\ size \in Nat
    /\ doZS \in BOOLEAN /\ nOrbits \in OrbitCounts
    /\ pc \in {"packet", "check", "count", "fill", "trailer", "done"}
    /\ p \in Nat /\ q \in Nat /\ counts \in Nat
    /\ bit \in 0..MapBits /\ bxVect \in Seq(BunchCrossings)
    /\ block \in Nat \ {0} /\ relbx \in 1..block
    /\ orbitCount \in 0..(16 * (block - 1))
    /\ out \in Seq(OutputEntry)
    /\ result \in [end : Nat, counts : Nat]

\* The blocks of the packet: orbit, number and its own crossing.
Occupied ==
    {t \in (DOMAIN packet) \X (1..MapBits) \X BunchCrossings :
        LET orbit == packet[t[1]]
        IN  /\ t[2] \in DOMAIN orbit.blocks
            /\ t[3] \in orbit.map
            /\ Cardinality({b \in orbit.map : b < t[3]}) = t[2] - 1}

Muons(o, k) ==
    LET bl == packet[o].blocks[k]
    IN  {<<o, k>>} \X (({"a"} \X On(bl.a)) \cup ({"b"} \X On(bl.b)))

PacketMuons ==
    UNION {UNION {Muons(o, k) : k \in DOMAIN packet[o].blocks} :
              o \in DOMAIN packet}

Before(e, f) ==
    e.orbit < f.orbit \/ (e.orbit = f.orbit /\ e.block < f.block)

\* The output is what the packet contains, in its order; up to its end there
\* is nothing else, and the muons are counted.
OutputIsPacket ==
    /\ {out[i] : i \in DOMAIN out} =
         {Entry(t[1], t[2], packet[t[1]].blocks[t[2]], t[3]) : t \in Occupied}
    /\ \A i, j \in DOMAIN out : i < j => Before(out[i], out[j])
    /\ result.end = Len(out) + Cardinality(PacketMuons)
    /\ result.counts = Cardinality(PacketMuons)

\* No block of the orbit is without muons.
Full(o) == \A k \in DOMAIN packet[o].blocks : HasMuons(packet[o].blocks[k])

\* Of a packet of one orbit, read as such and without a block that has no
\* muons, the output is what the packet contains, as far as its end says, with
\* the number of its muons (processor.cc:74-189).
Unpacks ==
    pc = "done" /\ Len(packet) = 1 /\ nOrbits = 1 /\ Full(1) => OutputIsPacket

\* The same for packets of as many orbits as there should be, which is what
\* the loop over orbits is for (processor.cc:167).
UnpacksEveryOrbit ==
    /\ pc = "done" /\ Len(packet) = nOrbits
    /\ \A o \in DOMAIN packet : Full(o)
    => OutputIsPacket

\* The orbits of the packet have equally many crossings.
Uniform ==
    \A o \in DOMAIN packet : Len(packet[o].blocks) = Len(First.blocks)

\* Of a packet whose orbits have equally many crossings nothing behind its
\* trailer is ever taken for an orbit, and unpacking it ends at the trailer
\* (processor.cc:167-188).
ReadsWithinPacket ==
    pc # "packet" /\ Uniform =>
        /\ p < size
        /\ pc \in {"count", "fill"} => p + OrbitUnits(Len(First.blocks)) < size

\* process() returns when the orbits of the packet have equally many
\* crossings, and also when the packet is not unpacked (processor.cc:167-188).
UniformReturns == pc = "check" /\ Uniform ~> pc = "done"
=============================================================================
