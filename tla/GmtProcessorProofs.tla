------------------------- MODULE GmtProcessorProofs -------------------------
(***************************************************************************)
(* Proofs about GmtProcessor, for packets of any number of orbits with any *)
(* crossings and muons.                                                    *)
(***************************************************************************)
EXTENDS GmtProcessor, FiniteSetTheorems, SequenceTheorems, TLAPS

-----------------------------------------------------------------------------
(* The invariants                                                          *)

Below(map, bx) == {b \in map : b < bx}

\* How many crossings of the first orbit are before bx.
Rank(bx) == Cardinality(Below(First.map, bx))

NBlocks == Len(First.blocks)

\* A packet that is processed has orbits; nothing was done before.
BeginInv ==
    /\ pc # "packet" => Len(packet) \in OrbitCounts
    /\ pc \in {"packet", "check"} => p = 0 /\ q = 0 /\ counts = 0 /\ out = <<>>
    /\ pc \notin {"count", "fill"} => bit = 0 /\ bxVect = <<>>

\* The crossings that were found are the first ones of the map, in order.
BxInv ==
    pc \in {"count", "fill"} =>
        /\ \A i \in DOMAIN bxVect :
               bxVect[i] \in First.map /\ Rank(bxVect[i]) = i - 1
        /\ Len(bxVect) = Rank(bit)
        /\ pc = "fill" => bit = MapBits

\* The muons of the first blocks of the first orbit.
MuonsUpTo(n) == UNION {Muons(1, k) : k \in 1..n}

\* They are counted while blocks are read.
CountInv ==
    pc = "fill" =>
        /\ block <= NBlocks + 1
        /\ orbitCount = Cardinality(MuonsUpTo(block - 1))

\* An output entry is that of a block of the first orbit, with its crossing.
IsEntry(e, i) ==
    \E bx \in First.map :
        Rank(bx) = i - 1 /\ e = Entry(1, i, First.blocks[i], bx)

\* Without empty blocks the entries are those of the first blocks in order,
\* and after one round they are those of all blocks.
OutInv ==
    pc # "packet" /\ Full(1) =>
        /\ Len(out) <= NBlocks
        /\ \A i \in DOMAIN out : IsEntry(out[i], i)
        /\ pc = "fill" => relbx = block /\ Len(out) >= relbx - 1
        /\ p > 0 => Len(out) = NBlocks

\* The size is at least that of the first orbit.
SizeInv ==
    /\ packet = <<>> => size = 1
    /\ packet # <<>> => size >= 1 + OrbitUnits(NBlocks)
    /\ Len(packet) = 1 => size = 1 + OrbitUnits(NBlocks)

\* A packet of one orbit is read in one round.
SingleInv ==
    pc # "packet" /\ Len(packet) = 1 =>
        /\ \/ p = 0 /\ q = 0 /\ counts = 0 /\ pc # "trailer"
           \/ /\ p = size - 1 /\ pc \in {"trailer", "done"}
              /\ counts = Cardinality(MuonsUpTo(NBlocks))
              /\ q = NBlocks + counts
        /\ pc = "done" /\ nOrbits = 1 =>
              p > 0 /\ result = [end |-> q, counts |-> counts]

\* Orbits of one length: the packet is so many of them, and some are read.
UniformInv ==
    packet # <<>> /\ Uniform =>
        /\ size = 1 + Len(packet) * OrbitUnits(NBlocks)
        /\ \E n \in 0..Len(packet) :
              /\ p = n * OrbitUnits(NBlocks)
              /\ pc \in {"packet", "check", "count", "fill"} => n < Len(packet)

GmtInv == /\ TypeOK /\ BeginInv /\ BxInv /\ CountInv /\ OutInv /\ SizeInv
          /\ SingleInv /\ UniformInv

CellBytes == 12
UnitBytes == 32

\* The slice for the output has twice as many bytes as that of the input, and
\* the blocks that are written end within it, and so does the end that is set
\* (processor.cc:122-142, 183, 192).
OutputFits ==
    /\ CellBytes * result.end <= 2 * UnitBytes * size
    /\ pc = "fill" =>
          CellBytes * (orbitCount + relbx - 1) <= 2 * UnitBytes * size

\* The end is ahead of what was read by no more than that.
FitInv ==
    /\ CellBytes * q <= 2 * UnitBytes * p
    /\ CellBytes * result.end <= 2 * UnitBytes * size

-----------------------------------------------------------------------------
(* Crossings, blocks and muons                                             *)

\* The crossings that a map has bits for.
Crossings == 0..(MapBits - 1)

LEMMA MapFacts ==
    /\ MapBits \in Nat /\ MapBits <= 3584
    /\ IsFiniteSet(Crossings)
    /\ Cardinality(Crossings) = MapBits
    /\ BunchCrossings \subseteq Crossings
    /\ \A bx \in Crossings : bx \in Nat /\ bx < MapBits
<1>1. MapBits \in Nat /\ MapBits <= 3584 /\ BunchCrossings \subseteq Crossings
  BY GmtAssumption DEF GmtAssumption, Crossings
<1>2. 0 \in Int /\ MapBits - 1 \in Int
  BY <1>1
<1>3. /\ IsFiniteSet(Crossings)
      /\ Cardinality(Crossings) =
            IF 0 > MapBits - 1 THEN 0 ELSE MapBits - 1 - 0 + 1
  BY ONLY <1>2, FS_Interval DEF Crossings
<1>4. \A bx \in Crossings : bx \in Nat /\ bx < MapBits
  BY <1>1 DEF Crossings
<1> QED
  BY <1>1, <1>3, <1>4

\* An orbit has a block for each crossing of its map.
LEMMA OrbitFacts ==
    ASSUME NEW o \in Orbit
    PROVE  /\ o.map \in SUBSET BunchCrossings
           /\ o.map \in SUBSET Crossings
           /\ IsFiniteSet(o.map)
           /\ Cardinality(o.map) \in 0..MapBits
           /\ o.blocks \in Seq(Block)
           /\ Len(o.blocks) = Cardinality(o.map)
           /\ DOMAIN o.blocks = 1..Cardinality(o.map)
<1>1. /\ o.map \in SUBSET BunchCrossings
      /\ o.blocks \in [1..Cardinality(o.map) -> Block]
  BY DEF Orbit
<1>2. MapBits \in Nat /\ o.map \in SUBSET Crossings
  BY <1>1, MapFacts
<1>4. /\ IsFiniteSet(o.map)
      /\ Cardinality(o.map) <= MapBits
  BY <1>2, MapFacts, FS_Subset
<1>5. Cardinality(o.map) \in Nat
  BY <1>4, FS_CardinalityType
<1> HIDE DEF Orbit
<1> QED
  BY <1>1, <1>2, <1>4, <1>5

\* How many members of a map are before a crossing.
LEMMA RankFacts ==
    ASSUME NEW map \in SUBSET Crossings, NEW b \in Nat
    PROVE  /\ Cardinality(Below(map, b)) \in Nat
           /\ Cardinality(Below(map, 0)) = 0
           /\ Cardinality(Below(map, MapBits)) = Cardinality(map)
           /\ Cardinality(Below(map, b + 1)) =
                 Cardinality(Below(map, b)) + IF b \in map THEN 1 ELSE 0
<1>1. /\ MapBits \in Nat /\ IsFiniteSet(map)
      /\ \A y \in map : y \in Nat /\ y < MapBits
  BY MapFacts, FS_Subset
<1>2. IsFiniteSet(Below(map, b)) /\ b \notin Below(map, b)
  BY <1>1, FS_Subset DEF Below
<1>3. Below(map, 0) = {} /\ Below(map, MapBits) = map
  BY <1>1 DEF Below
<1>4. Below(map, b + 1) = IF b \in map THEN Below(map, b) \cup {b}
                                       ELSE Below(map, b)
  BY <1>1 DEF Below
<1>5. /\ Cardinality(Below(map, b)) \in Nat
      /\ Cardinality(Below(map, b) \cup {b}) = Cardinality(Below(map, b)) + 1
  BY <1>2, FS_CardinalityType, FS_AddElement
<1> QED
  BY <1>3, <1>4, <1>5, FS_EmptySet

\* Two crossings of a map have different ranks.
LEMMA RankInjective ==
    ASSUME NEW map \in SUBSET Crossings, NEW b \in map, NEW c \in map,
           Cardinality(Below(map, b)) = Cardinality(Below(map, c))
    PROVE  b = c
<1>1. IsFiniteSet(map) /\ \A x \in map : x \in Nat
  BY MapFacts, FS_Subset
<1>2. ASSUME NEW x \in map, NEW y \in map, x < y
      PROVE  Cardinality(Below(map, x)) # Cardinality(Below(map, y))
  <2>1. /\ Below(map, x) \in SUBSET Below(map, y)
        /\ x \in Below(map, y) /\ x \notin Below(map, x)
    BY <1>1, <1>2 DEF Below
  <2>2. IsFiniteSet(Below(map, y))
    BY <1>1, FS_Subset DEF Below
  <2> QED
    BY <2>1, <2>2, FS_Subset
<1>3. ~(b < c) /\ ~(c < b) /\ b \in Int /\ c \in Int
  BY <1>1, <1>2
<1> QED
  BY <1>3

LEMMA LinkFacts == IsFiniteSet(Links) /\ Cardinality(Links) = 8
<1>1. 0 \in Int /\ 7 \in Int
  OBVIOUS
<1>2. IsFiniteSet(0..7) /\ Cardinality(0..7) = IF 0 > 7 THEN 0 ELSE 7 - 0 + 1
  BY ONLY <1>1, FS_Interval
<1> QED
  BY <1>2 DEF Links

\* The links that are written.
LEMMA OnFacts ==
    ASSUME NEW muons \in MuonSets
    PROVE  /\ On(muons) \in SUBSET Links
           /\ IsFiniteSet(On(muons))
           /\ Cardinality(On(muons)) \in 0..8
<1>1. On(muons) \in SUBSET Links
  BY GmtAssumption DEF GmtAssumption, On
<1>3. IsFiniteSet(On(muons)) /\ Cardinality(On(muons)) <= 8
  BY <1>1, LinkFacts, FS_Subset
<1>4. Cardinality(On(muons)) \in Nat
  BY <1>3, FS_CardinalityType
<1> QED
  BY <1>1, <1>3, <1>4

\* As many pairs as members.
LEMMA PairWith ==
    ASSUME NEW x, NEW S, IsFiniteSet(S)
    PROVE  /\ IsFiniteSet({x} \X S)
           /\ Cardinality({x} \X S) = Cardinality(S)
<1>1. IsFiniteSet({x}) /\ Cardinality({x}) = 1
  BY FS_Singleton
<1>2. /\ IsFiniteSet({x} \X S)
      /\ Cardinality({x} \X S) = Cardinality({x}) * Cardinality(S)
  BY <1>1, FS_Product
<1>3. Cardinality(S) \in Nat
  BY FS_CardinalityType
<1> QED
  BY <1>1, <1>2, <1>3

\* Sets without a common member.
LEMMA DisjointUnion ==
    ASSUME NEW S, IsFiniteSet(S), NEW T, IsFiniteSet(T), S \cap T = {}
    PROVE  /\ IsFiniteSet(S \cup T)
           /\ Cardinality(S \cup T) = Cardinality(S) + Cardinality(T)
<1>1. /\ IsFiniteSet(S \cup T)
      /\ Cardinality(S \cup T) =
            Cardinality(S) + Cardinality(T) - Cardinality(S \cap T)
  BY FS_Union
<1>2. Cardinality(S \cap T) = 0
  BY FS_EmptySet
<1>3. Cardinality(S) \in Nat /\ Cardinality(T) \in Nat
  BY FS_CardinalityType
<1> QED
  BY <1>1, <1>2, <1>3

LEMMA CountType ==
    ASSUME NEW bl \in Block PROVE MuonCount(bl) \in 0..16
<1>1. bl.a \in MuonSets /\ bl.b \in MuonSets
  BY DEF Block
<1>2. Cardinality(On(bl.a)) \in 0..8 /\ Cardinality(On(bl.b)) \in 0..8
  BY <1>1, OnFacts
<1> QED
  BY <1>2 DEF MuonCount

LEMMA EntryType ==
    ASSUME NEW k \in Nat, NEW bl \in Block, NEW bx \in BunchCrossings
    PROVE  Entry(1, k, bl, bx) \in OutputEntry
<1>1. bl.a \in MuonSets /\ bl.b \in MuonSets
  BY DEF Block
<1>2. On(bl.a) \in SUBSET Links /\ On(bl.b) \in SUBSET Links
  BY <1>1, OnFacts
<1>3. bx \in Nat
  BY GmtAssumption DEF GmtAssumption
<1>4. 2 * (bx \div 2) \in Nat
  BY <1>3
<1> HIDE DEF Links
<1>5. On(bl.a) \X {2 * (bx \div 2)} \in SUBSET (Links \X Nat)
  BY <1>2, <1>4
<1>6. On(bl.b) \X {2 * (bx \div 2) + 1} \in SUBSET (Links \X Nat)
  BY <1>2, <1>4
<1> QED
  BY <1>5, <1>6 DEF Entry, OutputEntry

\* The muons of a block are as many as are counted, and those of the blocks
\* before are others.
LEMMA MuonFacts ==
    ASSUME TypeOK, packet # <<>>, NEW k \in DOMAIN First.blocks
    PROVE  /\ MuonCount(First.blocks[k]) \in 0..16
           /\ ~HasMuons(First.blocks[k]) => MuonCount(First.blocks[k]) = 0
           /\ Cardinality(MuonsUpTo(k)) =
                 Cardinality(MuonsUpTo(k - 1)) + MuonCount(First.blocks[k])
<1> DEFINE bl == First.blocks[k]
           A == {"a"} \X On(bl.a)
           B == {"b"} \X On(bl.b)
<1>1. /\ First.blocks \in Seq(Block) /\ bl \in Block /\ k \in Nat \ {0}
      /\ bl.a \in MuonSets /\ bl.b \in MuonSets
  <2>1. First \in Orbit
    BY LenProperties, EmptySeq DEF TypeOK, First
  <2>2. First.blocks \in Seq(Block) /\ k \in Nat \ {0}
    BY <2>1, OrbitFacts
  <2>3. bl \in Block
    BY <2>2, LenProperties
  <2> QED
    BY <2>2, <2>3 DEF Block
<1>2. MuonCount(bl) \in 0..16
  BY <1>1, CountType
<1>3. /\ IsFiniteSet(On(bl.a)) /\ Cardinality(On(bl.a)) \in Nat
      /\ IsFiniteSet(On(bl.b)) /\ Cardinality(On(bl.b)) \in Nat
      /\ On(bl.a) \subseteq Links /\ On(bl.b) \subseteq Links
  BY <1>1, OnFacts
<1>4. ~HasMuons(bl) => MuonCount(bl) = 0
  BY <1>3, FS_EmptySet DEF HasMuons, MuonCount
<1>5. /\ IsFiniteSet(A) /\ Cardinality(A) = Cardinality(On(bl.a))
      /\ IsFiniteSet(B) /\ Cardinality(B) = Cardinality(On(bl.b))
  BY <1>3, PairWith
<1>6. /\ IsFiniteSet(A \cup B)
      /\ Cardinality(A \cup B) = MuonCount(bl)
  <2>1. A \cap B = {}
    OBVIOUS
  <2> HIDE DEF A, B
  <2>2. /\ IsFiniteSet(A \cup B)
        /\ Cardinality(A \cup B) = Cardinality(A) + Cardinality(B)
    BY <1>5, <2>1, DisjointUnion
  <2> QED
    BY <1>3, <1>5, <2>2 DEF MuonCount
<1>7. Muons(1, k) = {<<1, k>>} \X (A \cup B)
  BY DEF Muons, First
<1>8. /\ IsFiniteSet(Muons(1, k))
      /\ Cardinality(Muons(1, k)) = MuonCount(bl)
  <2> DEFINE x == <<1, k>>
             S == A \cup B
  <2>1. /\ IsFiniteSet(S) /\ Cardinality(S) = MuonCount(bl)
        /\ Muons(1, k) = {x} \X S
    BY <1>6, <1>7
  <2> HIDE DEF x, S, bl
  <2>2. /\ IsFiniteSet({x} \X S)
        /\ Cardinality({x} \X S) = Cardinality(S)
    BY <2>1, PairWith
  <2> QED
    BY <2>1, <2>2
<1>9. IsFiniteSet(MuonsUpTo(k - 1)) /\ MuonsUpTo(k - 1) \cap Muons(1, k) = {}
  <2> DEFINE Space == ({1} \X (1..k)) \X ({"a", "b"} \X Links)
  <2>1. IsFiniteSet(Space)
    <3>1. IsFiniteSet({1} \X (1..k))
      <4>1. 1 \in Int /\ k \in Int
        BY <1>1
      <4>2. IsFiniteSet(1..k)
        BY ONLY <4>1, FS_Interval
      <4> QED
        BY <4>2, PairWith
    <3>2. IsFiniteSet({"a"} \cup {"b"})
      BY FS_Singleton, FS_AddElement
    <3>3. IsFiniteSet({"a", "b"} \X Links)
      <4>1. {"a", "b"} = {"a"} \cup {"b"}
        OBVIOUS
      <4> QED
        BY <3>2, <4>1, LinkFacts, FS_Product
    <3> QED
      BY <3>1, <3>3, FS_Product
  <2>2. \A j \in 1..(k - 1) : Muons(1, j) \subseteq Space
    <3> SUFFICES ASSUME NEW j \in 1..(k - 1) PROVE Muons(1, j) \subseteq Space
      OBVIOUS
    <3>1. j \in 1..k /\ j \in DOMAIN First.blocks
      BY <1>1, LenProperties
    <3>2. First.blocks[j] \in Block
      BY <1>1, <3>1, LenProperties
    <3>3. /\ On(First.blocks[j].a) \subseteq Links
          /\ On(First.blocks[j].b) \subseteq Links
      BY <3>2, OnFacts DEF Block
    <3> HIDE DEF Links
    <3> QED
      BY <3>1, <3>3 DEF Muons, First
  <2>3. MuonsUpTo(k - 1) \in SUBSET Space
    BY <2>2 DEF MuonsUpTo
  <2>4. \A j \in 1..(k - 1) : Muons(1, j) \cap Muons(1, k) = {}
    BY <1>1 DEF Muons
  <2> QED
    BY <2>1, <2>3, <2>4, FS_Subset DEF MuonsUpTo
<1>10. MuonsUpTo(k) = MuonsUpTo(k - 1) \cup Muons(1, k)
  BY <1>1 DEF MuonsUpTo
<1>11. Cardinality(MuonsUpTo(k)) =
          Cardinality(MuonsUpTo(k - 1)) + Cardinality(Muons(1, k))
  BY <1>8, <1>9, <1>10, DisjointUnion
<1> HIDE DEF bl, A, B
<1>12. Cardinality(MuonsUpTo(k - 1)) \in Nat
  BY <1>9, FS_CardinalityType
<1>13. Cardinality(MuonsUpTo(k)) =
          Cardinality(MuonsUpTo(k - 1)) + MuonCount(bl)
  BY <1>2, <1>8, <1>11, <1>12
<1> QED
  BY <1>2, <1>4, <1>13 DEF bl

-----------------------------------------------------------------------------
(* Types                                                                   *)

TypeInv == TypeOK /\ BeginInv

\* A packet that is processed has a first orbit.
LEMMA FirstFacts ==
    ASSUME TypeInv, pc # "packet" \/ packet # <<>>
    PROVE  /\ packet # <<>> /\ Len(packet) \in Nat \ {0}
           /\ 1 \in DOMAIN packet
           /\ First \in Orbit
           /\ First.map \in SUBSET Crossings
           /\ First.map \in SUBSET BunchCrossings
           /\ IsFiniteSet(First.map)
           /\ First.blocks \in Seq(Block)
           /\ NBlocks \in 0..MapBits /\ NBlocks \in Nat
           /\ NBlocks = Cardinality(First.map)
           /\ DOMAIN First.blocks = 1..NBlocks
           /\ \A k \in 1..NBlocks : First.blocks[k] \in Block
<1>1. packet \in Seq(Orbit) /\ Len(packet) \in Nat
  BY LenProperties DEF TypeInv, TypeOK
<1>2. packet # <<>>
  <2>1. CASE pc # "packet"
    <3>1. Len(packet) # 0
      BY <2>1, GmtAssumption DEF GmtAssumption, TypeInv, BeginInv
    <3> QED
      BY <3>1, EmptySeq
  <2> QED
    BY <2>1
<1>3. Len(packet) \in Nat \ {0}
  BY <1>1, <1>2, EmptySeq
<1>4. 1 \in DOMAIN packet /\ First \in Orbit
  BY <1>1, <1>3, LenProperties DEF First
<1>5. \A k \in 1..NBlocks : First.blocks[k] \in Block
  BY <1>4, OrbitFacts, LenProperties DEF NBlocks
<1>6. NBlocks \in 0..MapBits
  BY <1>4, OrbitFacts DEF NBlocks
<1>7. NBlocks \in Nat
  BY ONLY <1>6, MapFacts
<1> QED
  BY <1>2, <1>3, <1>4, <1>5, <1>6, <1>7, OrbitFacts DEF NBlocks

LEMMA TypeInit == Init => TypeInv
<1> SUFFICES ASSUME Init PROVE TypeInv
  OBVIOUS
<1>1. packet \in Seq(Orbit) /\ bxVect \in Seq(BunchCrossings)
      /\ out \in Seq(OutputEntry)
  BY EmptySeq DEF Init
<1>2. bit \in 0..MapBits
  BY MapFacts DEF Init
<1> QED
  BY <1>1, <1>2 DEF Init, TypeInv, TypeOK, BeginInv

\* The packet grows before it is processed.
LEMMA TypeAdd ==
    ASSUME TypeInv, NEW orbit \in Orbit, AddOrbit(orbit) PROVE TypeInv'
<1>1. packet' \in Seq(Orbit)
  BY AppendProperties DEF TypeInv, TypeOK, AddOrbit
<1>2. size' \in Nat
  <2>1. Len(orbit.blocks) \in Nat
    BY OrbitFacts, LenProperties
  <2> QED
    BY <2>1 DEF TypeInv, TypeOK, AddOrbit, OrbitUnits, HeaderUnits, BlockUnits,
                TrailerUnits
<1> QED
  BY <1>1, <1>2 DEF TypeInv, TypeOK, BeginInv, AddOrbit, totals, counting,
                    filling

LEMMA TypeTestBit ==
    ASSUME TypeInv, TestBit PROVE TypeInv'
<1>1. bit \in First.map => bit \in BunchCrossings
  BY FirstFacts DEF TestBit
<1>2. bxVect' \in Seq(BunchCrossings)
  BY <1>1, AppendProperties DEF TestBit, BitCheck, TypeInv, TypeOK
<1>3. bit' \in 0..MapBits
  BY MapFacts DEF TestBit, TypeInv, TypeOK
<1> QED
  BY <1>2, <1>3 DEF TestBit, TypeInv, TypeOK, BeginInv, input, totals, filling

LEMMA TypeFillBlock ==
    ASSUME TypeInv, FillBlock PROVE TypeInv'
<1>1. /\ block \in 1..NBlocks /\ relbx \in DOMAIN bxVect
      /\ block \in Nat /\ relbx \in 1..block
      /\ orbitCount \in 0..(16 * (block - 1))
  BY FirstFacts, LenProperties
     DEF FillBlock, OrbitEnds, TypeInv, TypeOK, NBlocks
<1>2. First.blocks[block] \in Block /\ bxVect[relbx] \in BunchCrossings
  BY <1>1, FirstFacts, LenProperties DEF FillBlock, TypeInv, TypeOK
<1>3. out' \in Seq(OutputEntry)
  <2> DEFINE e == Entry(1, block, First.blocks[block], bxVect[relbx])
  <2>1. e \in OutputEntry
    BY <1>1, <1>2, EntryType
  <2>2. out' = IF relbx \in DOMAIN out THEN [out EXCEPT ![relbx] = e]
                                       ELSE Append(out, e)
    BY DEF FillBlock
  <2>3. out \in Seq(OutputEntry) /\ DOMAIN out = 1..Len(out)
    BY LenProperties DEF TypeInv, TypeOK
  <2> HIDE DEF e
  <2>4. CASE relbx \in 1..Len(out)
    BY <2>1, <2>2, <2>3, <2>4, ExceptSeq
  <2>5. CASE relbx \notin 1..Len(out)
    BY <2>1, <2>2, <2>3, <2>5, AppendProperties
  <2> QED
    BY <2>4, <2>5
<1>4. orbitCount' \in 0..(16 * (block' - 1))
  <2>1. MuonCount(First.blocks[block]) \in 0..16
    BY <1>2, CountType
  <2>2. /\ orbitCount' = orbitCount + MuonCount(First.blocks[block])
        /\ block' = block + 1
    BY DEF FillBlock
  <2> QED
    BY <1>1, <2>1, <2>2
<1>5. block' \in Nat \ {0} /\ relbx' \in 1..block'
  BY <1>1 DEF FillBlock
<1> QED
  BY <1>3, <1>4, <1>5
     DEF FillBlock, TypeInv, TypeOK, BeginInv, input, totals, counting

LEMMA TypeFillReturns ==
    ASSUME TypeInv, FillReturns PROVE TypeInv'
<1>1. Len(bxVect) \in Nat /\ orbitCount \in Nat
  BY LenProperties DEF TypeInv, TypeOK
<1>2. p' \in Nat /\ q' \in Nat /\ counts' \in Nat
  BY <1>1 DEF FillReturns, TypeInv, TypeOK, Advance, Written, HeaderUnits,
              BlockUnits, TrailerUnits, totals
<1>3. bit' \in 0..MapBits /\ bxVect' \in Seq(BunchCrossings)
  BY EmptySeq, MapFacts DEF FillReturns
<1> QED
  BY <1>2, <1>3
     DEF FillReturns, TypeInv, TypeOK, BeginInv, input, filling

LEMMA TypeNext == TypeInv /\ [Next]_vars => TypeInv'
<1> SUFFICES ASSUME TypeInv, [Next]_vars PROVE TypeInv'
  OBVIOUS
<1>1. CASE Call
  BY <1>1 DEF Call, TypeInv, TypeOK, BeginInv, input, totals, counting, filling
<1>2. CASE Check
  BY <1>2 DEF Check, TypeInv, TypeOK, BeginInv, input, totals, counting, filling
<1>3. CASE StartFill
  BY <1>3 DEF StartFill, TypeInv, TypeOK, BeginInv, input, totals, counting
<1>4. CASE SkipBlock
  <2>1. /\ block' \in Nat \ {0} /\ relbx' \in 1..block'
        /\ orbitCount' \in 0..(16 * (block' - 1))
    BY <1>4 DEF SkipBlock, TypeInv, TypeOK
  <2> QED
    BY <1>4, <2>1
       DEF SkipBlock, TypeInv, TypeOK, BeginInv, input, totals, counting
<1>5. CASE EndOfPacket
  BY <1>5 DEF EndOfPacket, TypeInv, TypeOK, BeginInv, input, totals, counting,
              filling
<1>6. CASE NextOrbit
  BY <1>6 DEF NextOrbit, TypeInv, TypeOK, BeginInv, input, totals, counting,
              filling
<1>7. CASE UNCHANGED vars
  BY <1>7 DEF vars, TypeInv, TypeOK, BeginInv, input, totals, counting, filling
<1> QED
  BY <1>1, <1>2, <1>3, <1>4, <1>5, <1>6, <1>7, TypeAdd, TypeTestBit,
     TypeFillBlock, TypeFillReturns DEF Next, Process

\* The variables keep their types, and no more muons are counted than the
\* blocks that were read have room for.
THEOREM TypeSafety == Spec => []TypeOK
<1>1. TypeInv => TypeOK
  BY DEF TypeInv
<1> QED
  BY <1>1, TypeInit, TypeNext, PTL DEF Spec

-----------------------------------------------------------------------------
(* The map and the blocks                                                  *)

\* The packet only changes before it is processed.
LEMMA InputStays ==
    [Next]_vars => UNCHANGED input \/ \E orbit \in Orbit : AddOrbit(orbit)
BY DEF Next, Process, Call, Check, TestBit, StartFill, FillBlock, SkipBlock,
       FillReturns, EndOfPacket, NextOrbit, vars

\* What is said of the packet stays true while it does not change.
LEMMA SameInput ==
    ASSUME UNCHANGED input
    PROVE  /\ packet' = packet /\ size' = size
           /\ doZS' = doZS /\ nOrbits' = nOrbits
           /\ First' = First /\ NBlocks' = NBlocks
           /\ \A bx : Rank(bx)' = Rank(bx)
           /\ \A e, i : IsEntry(e, i)' <=> IsEntry(e, i)
           /\ \A n : MuonsUpTo(n)' = MuonsUpTo(n)
           /\ Full(1)' <=> Full(1)
           /\ Uniform' <=> Uniform
<1>1. /\ packet' = packet /\ size' = size
      /\ doZS' = doZS /\ nOrbits' = nOrbits
  BY DEF input
<1>2. First' = First /\ NBlocks' = NBlocks
  BY <1>1 DEF First, NBlocks
<1>3. \A bx : Rank(bx)' = Rank(bx)
  BY <1>2 DEF Rank
<1>4. \A muons : On(muons)' = On(muons)
  BY <1>1 DEF On
<1>5. \A k, bl, bx : Entry(1, k, bl, bx)' = Entry(1, k, bl, bx)
  BY <1>4 DEF Entry
<1>6. \A e, i : IsEntry(e, i)' <=> IsEntry(e, i)
  BY <1>2, <1>3, <1>5 DEF IsEntry
<1>7. \A k : Muons(1, k)' = Muons(1, k)
  BY <1>1, <1>4 DEF Muons
<1>8. \A n : MuonsUpTo(n)' = MuonsUpTo(n)
  BY <1>7 DEF MuonsUpTo
<1>9. Full(1)' <=> Full(1)
  BY <1>1, <1>4 DEF Full, HasMuons
<1>10. Uniform' <=> Uniform
  BY <1>1, <1>2 DEF Uniform
<1> QED
  BY <1>1, <1>2, <1>3, <1>6, <1>8, <1>9, <1>10

\* The next bit of the map is one more crossing, or none.
LEMMA BxStep ==
    ASSUME TypeInv, BxInv, [Next]_vars PROVE BxInv'
<1>1. CASE pc' \notin {"count", "fill"}
  BY <1>1 DEF BxInv
<1>2. CASE Check \/ NextOrbit
  <2>1. pc # "packet" /\ bit = 0 /\ bxVect = <<>> /\ UNCHANGED <<input, counting>>
    BY <1>2 DEF Check, NextOrbit, TypeInv, BeginInv
  <2>2. First.map \in SUBSET Crossings
    BY <2>1, FirstFacts
  <2>3. Rank(0) = 0
    BY <2>2, RankFacts DEF Rank
  <2>4. Len(bxVect) = 0 /\ DOMAIN bxVect = {}
    BY <2>1, EmptySeq
  <2>5. pc' # "fill"
    BY <1>2 DEF Check, NextOrbit
  <2> QED
    BY <2>1, <2>3, <2>4, <2>5, SameInput DEF BxInv, counting
<1>3. CASE TestBit
  <2>1. /\ pc = "count" /\ pc' = "count" /\ UNCHANGED input
        /\ bit \in Nat /\ bit' = bit + 1
        /\ bxVect' = IF bit \in First.map THEN Append(bxVect, bit) ELSE bxVect
    BY <1>3, MapFacts DEF TestBit, BitCheck, TypeInv, TypeOK
  <2>2. First.map \in SUBSET Crossings /\ First.map \in SUBSET BunchCrossings
    BY <2>1, FirstFacts
  <2>3. /\ Rank(bit) \in Nat
        /\ Rank(bit + 1) = Rank(bit) + IF bit \in First.map THEN 1 ELSE 0
    BY <2>1, <2>2, RankFacts DEF Rank
  <2>4. /\ bxVect \in Seq(BunchCrossings) /\ DOMAIN bxVect = 1..Len(bxVect)
        /\ Len(bxVect) = Rank(bit)
        /\ \A i \in 1..Len(bxVect) :
               bxVect[i] \in First.map /\ Rank(bxVect[i]) = i - 1
    BY <2>1, LenProperties DEF BxInv, TypeInv, TypeOK
  <2>5. CASE bit \in First.map
    <3>1. /\ Len(bxVect') = Len(bxVect) + 1 /\ DOMAIN bxVect' = 1..(Rank(bit) + 1)
          /\ bxVect'[Rank(bit) + 1] = bit
          /\ \A i \in 1..Rank(bit) : bxVect'[i] = bxVect[i]
      BY <2>1, <2>2, <2>4, <2>5, AppendProperties, LenProperties
    <3>2. \A i \in 1..(Rank(bit) + 1) :
             bxVect'[i] \in First.map /\ Rank(bxVect'[i]) = i - 1
      <4> SUFFICES ASSUME NEW i \in 1..(Rank(bit) + 1)
                   PROVE  bxVect'[i] \in First.map /\ Rank(bxVect'[i]) = i - 1
        OBVIOUS
      <4>1. CASE i = Rank(bit) + 1
        BY <2>3, <2>5, <3>1, <4>1
      <4>2. CASE i # Rank(bit) + 1
        BY <2>3, <2>4, <3>1, <4>2
      <4> QED
        BY <4>1, <4>2
    <3> QED
      BY <2>1, <2>3, <2>4, <2>5, <3>1, <3>2, SameInput DEF BxInv
  <2>6. CASE bit \notin First.map
    BY <2>1, <2>3, <2>4, <2>6, SameInput DEF BxInv
  <2> QED
    BY <2>5, <2>6
<1>4. CASE StartFill \/ FillBlock \/ SkipBlock \/ UNCHANGED vars
  <2>1. UNCHANGED <<input, counting>>
    BY <1>4 DEF StartFill, FillBlock, SkipBlock, vars
  <2>2. pc' = "fill" => pc = "fill" \/ bit = MapBits
    BY <1>4 DEF StartFill, FillBlock, SkipBlock, vars
  <2>3. pc' \in {"count", "fill"} => pc \in {"count", "fill"}
    BY <1>4 DEF StartFill, FillBlock, SkipBlock, vars
  <2> QED
    BY <2>1, <2>2, <2>3, SameInput DEF BxInv, counting
<1> QED
  BY <1>1, <1>2, <1>3, <1>4
     DEF Next, Process, AddOrbit, Call, FillReturns, EndOfPacket

\* All crossings are found when the orbit is filled.
LEMMA BxCount ==
    ASSUME TypeInv, BxInv, pc = "fill"
    PROVE  /\ Len(bxVect) = NBlocks
           /\ DOMAIN bxVect = 1..NBlocks
           /\ \A i \in 1..NBlocks :
                  bxVect[i] \in First.map /\ Rank(bxVect[i]) = i - 1
<1>1. First.map \in SUBSET Crossings /\ NBlocks = Cardinality(First.map)
  BY FirstFacts
<1>2. Rank(MapBits) = Cardinality(First.map)
  BY <1>1, RankFacts, MapFacts DEF Rank
<1>3. DOMAIN bxVect = 1..Len(bxVect)
  BY LenProperties DEF TypeInv, TypeOK
<1> QED
  BY <1>1, <1>2, <1>3 DEF BxInv

\* FillOrbit is at a block of the orbit, and has a crossing for it.
LEMMA FillFacts ==
    ASSUME TypeInv, BxInv, pc = "fill", ~OrbitEnds
    PROVE  /\ block \in 1..NBlocks /\ relbx \in 1..NBlocks
           /\ relbx <= block
           /\ First.blocks[block] \in Block
           /\ bxVect[relbx] \in First.map
           /\ Rank(bxVect[relbx]) = relbx - 1
<1>1. block \in Nat \ {0} /\ relbx \in 1..block
  BY DEF TypeInv, TypeOK
<1>2. NBlocks \in Nat /\ Len(bxVect) = NBlocks
  BY FirstFacts, BxCount
<1>3. block <= NBlocks /\ relbx <= NBlocks
  BY <1>1, <1>2 DEF OrbitEnds, NBlocks
<1> QED
  BY <1>1, <1>2, <1>3, FirstFacts, BxCount

LEMMA CountStep ==
    ASSUME TypeInv, BxInv, CountInv, [Next]_vars PROVE CountInv'
<1>1. CASE pc' # "fill"
  BY <1>1 DEF CountInv
<1>2. CASE StartFill
  <2>1. pc # "packet" /\ block' = 1 /\ orbitCount' = 0 /\ UNCHANGED input
    BY <1>2 DEF StartFill
  <2>2. NBlocks \in Nat
    BY <2>1, FirstFacts
  <2>3. MuonsUpTo(1 - 1) = {}
    BY DEF MuonsUpTo
  <2> QED
    BY <2>1, <2>2, <2>3, SameInput, FS_EmptySet DEF CountInv
<1>3. CASE FillBlock \/ SkipBlock
  <2> DEFINE bl == First.blocks[block]
  <2>1. pc = "fill" /\ ~OrbitEnds /\ UNCHANGED input /\ block' = block + 1
    BY <1>3 DEF FillBlock, SkipBlock
  <2>2. packet # <<>> /\ NBlocks \in Nat /\ DOMAIN First.blocks = 1..NBlocks
    BY <2>1, FirstFacts
  <2>3. block \in 1..NBlocks
    BY <2>1, FillFacts
  <2>4. /\ MuonCount(bl) \in 0..16
        /\ ~HasMuons(bl) => MuonCount(bl) = 0
        /\ Cardinality(MuonsUpTo(block)) =
              Cardinality(MuonsUpTo(block - 1)) + MuonCount(bl)
    BY <2>2, <2>3, MuonFacts DEF TypeInv
  <2>5. orbitCount \in Nat /\ orbitCount = Cardinality(MuonsUpTo(block - 1))
    BY <2>1 DEF TypeInv, TypeOK, CountInv
  <2>6. orbitCount' = orbitCount + MuonCount(bl)
    BY <1>3, <2>4, <2>5 DEF FillBlock, SkipBlock
  <2> HIDE DEF bl
  <2>7. block' - 1 = block
    BY <2>1, <2>3
  <2> QED
    BY <2>1, <2>2, <2>3, <2>4, <2>5, <2>6, <2>7, SameInput DEF CountInv
<1>4. CASE UNCHANGED vars
  BY <1>4, SameInput DEF CountInv, vars, filling
<1> QED
  BY <1>1, <1>2, <1>3, <1>4
     DEF Next, Process, AddOrbit, Call, Check, TestBit, FillReturns, EndOfPacket,
         NextOrbit

-----------------------------------------------------------------------------
(* The size                                                                *)

\* An orbit is added.
LEMMA AddFacts ==
    ASSUME TypeInv, NEW orbit \in Orbit, AddOrbit(orbit)
    PROVE  /\ Len(packet) \in Nat /\ Len(packet') = Len(packet) + 1
           /\ packet' # <<>>
           /\ packet = <<>> <=> Len(packet) = 0
           /\ \A o \in DOMAIN packet : o \in DOMAIN packet' /\ packet'[o] = packet[o]
           /\ Len(packet) + 1 \in DOMAIN packet'
           /\ packet'[Len(packet) + 1] = orbit
           /\ First' = IF packet = <<>> THEN orbit ELSE First
           /\ Len(orbit.blocks) \in Nat
<1>1. packet \in Seq(Orbit) /\ packet' = Append(packet, orbit)
  BY DEF TypeInv, TypeOK, AddOrbit
<1>2. /\ Len(packet) \in Nat /\ DOMAIN packet = 1..Len(packet)
      /\ packet = <<>> <=> Len(packet) = 0
  BY <1>1, LenProperties, EmptySeq
<1>3. /\ Len(packet') = Len(packet) + 1 /\ packet' # <<>>
      /\ packet' \in Seq(Orbit)
      /\ \A o \in 1..Len(packet) : packet'[o] = packet[o]
      /\ packet'[Len(packet) + 1] = orbit
  BY <1>1, AppendProperties
<1>4. DOMAIN packet' = 1..(Len(packet) + 1)
  BY <1>3, LenProperties
<1>5. First' = IF packet = <<>> THEN orbit ELSE First
  BY <1>2, <1>3 DEF First
<1>6. Len(orbit.blocks) \in Nat
  BY OrbitFacts, LenProperties
<1> QED
  BY <1>2, <1>3, <1>4, <1>5, <1>6

LEMMA UnitsType ==
    ASSUME NEW n \in Nat
    PROVE  OrbitUnits(n) \in Nat \ {0} /\ OrbitUnits(n) = 18 + 6 * n
BY DEF OrbitUnits, HeaderUnits, BlockUnits, TrailerUnits

LEMMA SizeStep ==
    ASSUME TypeInv, SizeInv, [Next]_vars PROVE SizeInv'
<1>1. CASE UNCHANGED input
  BY <1>1, SameInput DEF SizeInv
<1>2. ASSUME NEW orbit \in Orbit, AddOrbit(orbit) PROVE SizeInv'
  <2>1. size \in Nat /\ size' = size + OrbitUnits(Len(orbit.blocks))
    BY <1>2 DEF AddOrbit, TypeInv, TypeOK
  <2>2. OrbitUnits(Len(orbit.blocks)) \in Nat
    BY <1>2, AddFacts, UnitsType
  <2>3. CASE packet = <<>>
    <3>1. First' = orbit /\ NBlocks' = Len(orbit.blocks) /\ Len(packet') = 1
      BY <1>2, <2>3, AddFacts DEF NBlocks
    <3> QED
      BY <1>2, <2>1, <2>2, <2>3, <3>1, AddFacts DEF SizeInv
  <2>4. CASE packet # <<>>
    <3>1. First' = First /\ NBlocks' = NBlocks /\ Len(packet') # 1
      BY <1>2, <2>4, AddFacts DEF NBlocks
    <3>2. NBlocks \in Nat
      BY ONLY TypeInv, <2>4, FirstFacts
    <3>4. OrbitUnits(NBlocks) \in Nat
      BY ONLY <3>2, UnitsType
    <3>3. OrbitUnits(NBlocks)' = OrbitUnits(NBlocks)
      BY <3>1 DEF OrbitUnits
    <3> QED
      BY <1>2, <2>1, <2>2, <2>4, <3>1, <3>2, <3>3, <3>4, AddFacts DEF SizeInv
  <2> QED
    BY <2>3, <2>4
<1> QED
  BY <1>1, <1>2, InputStays

-----------------------------------------------------------------------------
(* The output                                                              *)

\* A block is written at the place of its crossing.
LEMMA OutFill ==
    ASSUME TypeInv, BxInv, OutInv, FillBlock, Full(1)
    PROVE  OutInv'
<1> DEFINE e == Entry(1, block, First.blocks[block], bxVect[relbx])
<1>1. /\ pc = "fill" /\ pc' = "fill" /\ ~OrbitEnds /\ UNCHANGED <<input, totals>>
      /\ block' = block + 1 /\ relbx' = relbx + 1
      /\ out' = IF relbx \in DOMAIN out THEN [out EXCEPT ![relbx] = e]
                                         ELSE Append(out, e)
  BY DEF FillBlock
<1>2. /\ NBlocks \in Nat /\ relbx = block /\ Len(out) <= NBlocks
      /\ Len(out) >= relbx - 1
      /\ \A i \in DOMAIN out : IsEntry(out[i], i)
  BY <1>1, FirstFacts DEF OutInv
<1>8. p > 0 => Len(out) = NBlocks
  BY <1>1 DEF OutInv
<1>3. relbx \in 1..NBlocks
  BY <1>1, FillFacts
<1>4. e \in OutputEntry /\ IsEntry(e, relbx)
  <2>1. /\ First.blocks[block] \in Block
        /\ bxVect[relbx] \in First.map /\ bxVect[relbx] \in BunchCrossings
        /\ Rank(bxVect[relbx]) = relbx - 1
    BY <1>1, FillFacts, FirstFacts
  <2> QED
    BY <1>2, <1>3, <2>1, EntryType DEF IsEntry
<1>5. out \in Seq(OutputEntry) /\ Len(out) \in Nat /\ DOMAIN out = 1..Len(out)
  BY LenProperties DEF TypeInv, TypeOK
<1> HIDE DEF e
<1>6. CASE relbx \in DOMAIN out
  <2>1. /\ out' \in Seq(OutputEntry) /\ Len(out') = Len(out)
        /\ \A i \in 1..Len(out) : out'[i] = IF i = relbx THEN e ELSE out[i]
    BY <1>1, <1>4, <1>5, <1>6, ExceptSeq
  <2>2. DOMAIN out' = 1..Len(out)
    BY <2>1, LenProperties
  <2>3. \A i \in DOMAIN out' : IsEntry(out'[i], i)
    BY <1>2, <1>4, <1>5, <2>1, <2>2
  <2>4. Len(out') <= NBlocks /\ Len(out') >= relbx
    BY <1>2, <1>3, <1>5, <1>6, <2>1
  <2>5. relbx' - 1 = relbx
    BY <1>1, <1>3
  <2> QED
    BY <1>1, <1>2, <1>8, <2>1, <2>3, <2>4, <2>5, SameInput DEF OutInv, totals
<1>7. CASE relbx \notin DOMAIN out
  <2>1. Len(out) = relbx - 1
    BY <1>2, <1>3, <1>5, <1>7
  <2>2. /\ out' \in Seq(OutputEntry) /\ Len(out') = relbx
        /\ \A i \in 1..Len(out) : out'[i] = out[i]
        /\ out'[relbx] = e
    BY <1>1, <1>3, <1>4, <1>5, <1>7, <2>1, AppendProperties
  <2>3. DOMAIN out' = 1..relbx
    BY <2>2, LenProperties
  <2>4. \A i \in DOMAIN out' : IsEntry(out'[i], i)
    <3> SUFFICES ASSUME NEW i \in 1..relbx PROVE IsEntry(out'[i], i)
      BY <2>3
    <3>1. CASE i = relbx
      BY <1>4, <2>2, <3>1
    <3>2. CASE i # relbx
      <4>1. i \in 1..Len(out)
        BY <1>3, <2>1, <3>2
      <4> QED
        BY <1>2, <1>5, <2>2, <4>1
    <3> QED
      BY <3>1, <3>2
  <2>5. ~(p > 0)
    BY <1>2, <1>3, <1>8, <2>1
  <2> QED
    BY <1>1, <1>2, <1>3, <2>2, <2>4, <2>5, SameInput DEF OutInv, totals
<1> QED
  BY <1>6, <1>7

LEMMA OutStep ==
    ASSUME TypeInv, BxInv, OutInv, [Next]_vars PROVE OutInv'
<1> SUFFICES ASSUME pc' # "packet", Full(1)' PROVE OutInv'
  BY DEF OutInv
<1>1. UNCHANGED input /\ Full(1)
  <2>1. UNCHANGED input
    BY InputStays DEF AddOrbit
  <2> QED
    BY <2>1, SameInput
<1>2. packet # <<>> /\ NBlocks \in Nat /\ DOMAIN First.blocks = 1..NBlocks
  <2>1. CASE pc # "packet"
    BY <2>1, FirstFacts
  <2>2. CASE pc = "packet"
    <3>1. Len(packet) \in OrbitCounts
      BY <2>2, TypeNext, SameInput, <1>1 DEF TypeInv, BeginInv
    <3>2. packet # <<>>
      BY <3>1, EmptySeq, GmtAssumption DEF GmtAssumption
    <3> QED
      BY <3>2, FirstFacts
  <2> QED
    BY <2>1, <2>2
<1>3. Len(out) \in Nat /\ DOMAIN out = 1..Len(out) /\ p \in Nat
  BY LenProperties DEF TypeInv, TypeOK
<1>4. CASE pc = "packet"
  <2>1. out = <<>> /\ p = 0 /\ out' = out /\ p' = p /\ pc' # "fill"
    BY <1>4 DEF TypeInv, BeginInv, Next, Process, AddOrbit, Call, Check, TestBit,
                StartFill, FillBlock, SkipBlock, FillReturns, EndOfPacket,
                NextOrbit, vars, filling, totals
  <2>2. Len(out) = 0 /\ DOMAIN out = {}
    BY <2>1, EmptySeq
  <2> QED
    BY <1>1, <1>2, <2>1, <2>2, SameInput DEF OutInv
<1>5. CASE pc # "packet"
  <2>1. /\ Len(out) <= NBlocks
        /\ \A i \in DOMAIN out : IsEntry(out[i], i)
        /\ pc = "fill" => relbx = block /\ Len(out) >= relbx - 1
    BY <1>1, <1>5 DEF OutInv
  <2>7. p > 0 => Len(out) = NBlocks
    BY <1>1, <1>5 DEF OutInv
  <2>2. CASE Check \/ TestBit \/ EndOfPacket \/ NextOrbit
    <3>1. out' = out /\ p' = p /\ pc' # "fill"
      BY <2>2 DEF Check, TestBit, EndOfPacket, NextOrbit, filling, totals
    <3> QED
      BY <1>1, <2>1, <2>7, <3>1, SameInput DEF OutInv
  <2>3. CASE StartFill
    <3>1. out' = out /\ p' = p /\ relbx' = 1 /\ block' = 1
      BY <2>3 DEF StartFill, totals
    <3> QED
      BY <1>1, <1>3, <2>1, <2>7, <3>1, SameInput DEF OutInv
  <2>4. CASE SkipBlock
    <3>1. block \in DOMAIN First.blocks
      BY <1>2, <2>4, FillFacts DEF SkipBlock
    <3> QED
      BY <1>1, <2>4, <3>1 DEF SkipBlock, Full, First
  <2>5. CASE FillReturns
    <3>1. Len(out) = NBlocks
      <4>1. pc = "fill" /\ OrbitEnds /\ Len(bxVect) = NBlocks /\ relbx \in Nat
        BY <2>5, BxCount DEF FillReturns, TypeInv, TypeOK
      <4>2. relbx = block /\ Len(out) >= relbx - 1 /\ Len(out) <= NBlocks
        BY <2>1, <4>1
      <4>3. relbx > NBlocks
        BY <4>1, <4>2 DEF OrbitEnds, NBlocks
      <4>4. NBlocks \in Nat /\ Len(out) \in Nat /\ relbx \in Nat
        BY <1>2, <1>3, <4>1
      <4> QED
        BY <4>2, <4>3, <4>4
    <3>2. out' = out /\ pc' # "fill"
      BY <2>5 DEF FillReturns, filling
    <3> QED
      BY <1>1, <1>2, <2>1, <2>7, <3>1, <3>2, SameInput DEF OutInv
  <2>6. CASE UNCHANGED vars
    BY <1>1, <2>1, <2>7, <2>6, SameInput DEF OutInv, vars, filling, totals
  <2> QED
    BY <1>1, <1>5, <2>2, <2>3, <2>4, <2>5, <2>6, OutFill
       DEF Next, Process, Call, AddOrbit
<1> QED
  BY <1>4, <1>5

-----------------------------------------------------------------------------
(* The loop over the packet                                                *)

\* FillOrbit returns when all blocks of the orbit were read.
LEMMA AllRead ==
    ASSUME TypeInv, BxInv, CountInv, pc = "fill", OrbitEnds
    PROVE  /\ block = NBlocks + 1
           /\ NBlocks \in Nat /\ Len(bxVect) = NBlocks
           /\ orbitCount = Cardinality(MuonsUpTo(NBlocks))
           /\ orbitCount \in 0..(16 * NBlocks)
<1>1. NBlocks \in Nat /\ Len(bxVect) = NBlocks
  BY FirstFacts, BxCount
<1>2. block \in Nat \ {0} /\ relbx \in 1..block /\ block <= NBlocks + 1
  BY DEF TypeInv, TypeOK, CountInv
<1>3. block = NBlocks + 1
  BY <1>1, <1>2 DEF OrbitEnds, NBlocks
<1>4. block - 1 = NBlocks
  BY <1>1, <1>3
<1> QED
  BY <1>1, <1>3, <1>4 DEF TypeInv, TypeOK, CountInv

\* A packet of one orbit that is read as such passes the check of its size.
LEMMA CheckPasses ==
    ASSUME NBlocks \in 0..MapBits, nOrbits = 1, size = 1 + OrbitUnits(NBlocks)
    PROVE  CheckFrameMultBlock
<1>1. NBlocks \in Nat /\ NBlocks <= 3584 /\ size = 19 + 6 * NBlocks
  BY MapFacts DEF OrbitUnits, HeaderUnits, BlockUnits, TrailerUnits
<1>2. Wrap + size - (nOrbits * (TrailerUnits + HeaderUnits) + HeaderUnits)
        = 134217728 + 6 * NBlocks
  BY <1>1 DEF Wrap, TrailerUnits, HeaderUnits
<1>3. (134217728 + 6 * NBlocks) % 134217728 = 6 * NBlocks
  BY <1>1
<1>4. (6 * NBlocks) % 6 = 0
  BY <1>1
<1> QED
  BY <1>2, <1>3, <1>4 DEF CheckFrameMultBlock, Wrap, BlockUnits

LEMMA SingleStep ==
    ASSUME TypeInv, BxInv, CountInv, SizeInv, SingleInv, [Next]_vars
    PROVE  SingleInv'
<1> SUFFICES ASSUME pc' # "packet", Len(packet') = 1 PROVE SingleInv'
  BY DEF SingleInv
<1>1. UNCHANGED input /\ Len(packet) = 1
  <2>1. UNCHANGED input
    BY InputStays DEF AddOrbit
  <2> QED
    BY <2>1 DEF input
<1>2. /\ packet # <<>> /\ NBlocks \in Nat /\ NBlocks \in 0..MapBits
      /\ size = 1 + OrbitUnits(NBlocks) /\ OrbitUnits(NBlocks) = 18 + 6 * NBlocks
      /\ size \in Nat
  <2>1. packet # <<>>
    <3>1. Len(packet) # 0
      BY <1>1
    <3> QED
      BY <3>1, EmptySeq
  <2>2. NBlocks \in Nat /\ NBlocks \in 0..MapBits
    BY <2>1, FirstFacts
  <2>3. OrbitUnits(NBlocks) = 18 + 6 * NBlocks
    BY <2>2, UnitsType
  <2>4. size = 1 + OrbitUnits(NBlocks)
    BY <1>1 DEF SizeInv
  <2> QED
    BY <2>1, <2>2, <2>3, <2>4 DEF TypeInv, TypeOK
<1>3. CASE Call
  <2>1. p' = 0 /\ q' = 0 /\ counts' = 0 /\ pc' = "check"
    BY <1>3 DEF Call, TypeInv, BeginInv, totals
  <2> QED
    BY <2>1 DEF SingleInv
<1>4. CASE Check
  <2>1. /\ p' = 0 /\ q' = 0 /\ counts' = 0 /\ pc' # "trailer"
        /\ nOrbits' = nOrbits
    BY <1>4 DEF Check, TypeInv, BeginInv, totals, input
  <2>2. nOrbits = 1 => pc' = "count"
    BY <1>2, <1>4, CheckPasses DEF Check
  <2> QED
    BY <2>1, <2>2 DEF SingleInv
<1>5. CASE TestBit \/ StartFill \/ FillBlock \/ SkipBlock
  <2>1. /\ pc \in {"count", "fill"} /\ pc' \in {"count", "fill"}
        /\ UNCHANGED totals
    BY <1>5 DEF TestBit, StartFill, FillBlock, SkipBlock
  <2>2. p = 0 /\ q = 0 /\ counts = 0
    BY <1>1, <2>1 DEF SingleInv
  <2> QED
    BY <2>1, <2>2 DEF SingleInv, totals
<1>6. CASE FillReturns
  <2>1. pc = "fill" /\ OrbitEnds /\ pc' = "trailer"
    BY <1>6 DEF FillReturns
  <2>2. p = 0 /\ q = 0 /\ counts = 0
    BY <1>1, <2>1 DEF SingleInv
  <2>3. /\ orbitCount \in Nat /\ Len(bxVect) = NBlocks
        /\ orbitCount = Cardinality(MuonsUpTo(NBlocks))
    BY <2>1, AllRead
  <2>4. /\ p' = 0 + Advance(NBlocks)
        /\ q' = 0 + Written(orbitCount, NBlocks)
        /\ counts' = 0 + orbitCount
    BY <1>2, <1>6, <2>2, <2>3 DEF FillReturns
  <2>5. p' = size - 1 /\ q' = NBlocks + counts' /\ counts' = orbitCount
    BY <1>2, <2>3, <2>4 DEF Advance, Written, HeaderUnits, BlockUnits, TrailerUnits
  <2> QED
    BY <1>1, <2>1, <2>3, <2>5, SameInput DEF SingleInv
<1>7. CASE EndOfPacket
  <2>1. /\ pc = "trailer" /\ pc' = "done" /\ UNCHANGED totals
        /\ result' = [end |-> q, counts |-> counts]
    BY <1>7 DEF EndOfPacket
  <2>2. /\ p = size - 1 /\ q = NBlocks + counts
        /\ counts = Cardinality(MuonsUpTo(NBlocks))
    BY <1>1, <2>1 DEF SingleInv
  <2>3. p > 0
    BY <1>2, <2>2
  <2> QED
    BY <1>1, <2>1, <2>2, <2>3, SameInput DEF SingleInv, totals
<1>8. CASE NextOrbit
  BY <1>1, <1>8 DEF NextOrbit, AtTrailer, SingleInv
<1>9. CASE UNCHANGED vars
  BY <1>1, <1>9, SameInput DEF SingleInv, vars, totals
<1> QED
  BY <1>3, <1>4, <1>5, <1>6, <1>7, <1>8, <1>9 DEF Next, Process, AddOrbit

LEMMA Distribute ==
    ASSUME NEW n \in Nat, NEW u \in Nat
    PROVE  /\ n * u \in Nat
           /\ (n + 1) * u = n * u + u
           /\ 0 * u = 0
OBVIOUS

LEMMA Monotone ==
    ASSUME NEW m \in Nat, NEW n \in Nat, NEW u \in Nat, m <= n
    PROVE  m * u <= n * u
OBVIOUS

LEMMA UniformAdd ==
    ASSUME TypeInv, SizeInv, UniformInv,
           NEW orbit \in Orbit, AddOrbit(orbit), Uniform'
    PROVE  UniformInv'
<1> DEFINE U == OrbitUnits(NBlocks)
           L == Len(packet)
<1>1. /\ L \in Nat /\ Len(packet') = L + 1 /\ pc = "packet" /\ pc' = "packet"
      /\ p = 0 /\ p' = 0
      /\ size' = size + OrbitUnits(Len(orbit.blocks))
      /\ Len(orbit.blocks) \in Nat
  BY AddFacts DEF AddOrbit, TypeInv, BeginInv, totals
<1>2. /\ OrbitUnits(NBlocks)' = OrbitUnits(Len(orbit.blocks))
      /\ OrbitUnits(Len(orbit.blocks)) \in Nat
      /\ size' = 1 + (L + 1) * OrbitUnits(Len(orbit.blocks))
  <2>1. CASE packet = <<>>
    <3>1. L = 0 /\ NBlocks' = Len(orbit.blocks) /\ size = 1
      BY <2>1, AddFacts DEF NBlocks, SizeInv
    <3> QED
      BY <1>1, <3>1, UnitsType, Distribute DEF OrbitUnits
  <2>2. CASE packet # <<>>
    <3>1. NBlocks' = NBlocks /\ First' = First
      BY <2>2, AddFacts DEF NBlocks
    <3>2. Len(orbit.blocks) = NBlocks
      BY <3>1, AddFacts DEF Uniform, NBlocks
    <3>3. Uniform
      BY <3>1, AddFacts DEF Uniform
    <3>4. size = 1 + L * U
      BY <2>2, <3>3 DEF UniformInv
    <3>5. U \in Nat /\ U' = U
      BY <1>1, <3>1, <3>2, UnitsType DEF OrbitUnits
    <3>6. L * U \in Nat /\ (L + 1) * U = L * U + U
      BY <1>1, <3>5, Distribute
    <3>7. size' = size + U
      BY <1>1, <3>2
    <3> HIDE DEF U, L
    <3>8. size' = 1 + (L + 1) * U
      BY <1>1, <3>4, <3>5, <3>6, <3>7
    <3> QED
      BY <3>2, <3>5, <3>8 DEF U
  <2> QED
    BY <2>1, <2>2
<1>3. 0 * OrbitUnits(Len(orbit.blocks)) = 0
  BY <1>2, Distribute
<1>4. 0 \in 0..Len(packet') /\ 0 < Len(packet')
  BY <1>1
<1> HIDE DEF L, U
<1> QED
  BY <1>1, <1>2, <1>3, <1>4 DEF UniformInv

LEMMA UniformStep ==
    ASSUME TypeInv, BxInv, CountInv, SizeInv, UniformInv, [Next]_vars
    PROVE  UniformInv'
<1> SUFFICES ASSUME packet' # <<>>, Uniform' PROVE UniformInv'
  BY DEF UniformInv
<1>1. ASSUME NEW orbit \in Orbit, AddOrbit(orbit) PROVE UniformInv'
  BY <1>1, UniformAdd
<1>2. CASE UNCHANGED input
  <2> DEFINE U == OrbitUnits(NBlocks)
             L == Len(packet)
  <2>1. packet # <<>> /\ Uniform /\ packet' = packet
    BY <1>2, SameInput
  <2>2. /\ L \in Nat \ {0} /\ NBlocks \in Nat /\ U \in Nat
        /\ size' = size /\ U' = U
    <3>1. L \in Nat \ {0} /\ NBlocks \in Nat
      BY <2>1, FirstFacts
    <3>2. size' = size /\ NBlocks' = NBlocks
      BY <1>2, SameInput
    <3> QED
      BY <3>1, <3>2, UnitsType DEF OrbitUnits
  <2>3. size = 1 + L * U /\ L * U \in Nat
    BY <2>1, <2>2, Distribute DEF UniformInv
  <2>4. PICK n \in 0..L :
           /\ p = n * U
           /\ pc \in {"packet", "check", "count", "fill"} => n < L
    BY <2>1 DEF UniformInv
  <2>5. n \in Nat /\ n * U \in Nat /\ (n + 1) * U = n * U + U
    BY <2>2, <2>4, Distribute
  <2>6. SUFFICES \E m \in 0..L :
           /\ p' = m * U
           /\ pc' \in {"packet", "check", "count", "fill"} => m < L
    BY <2>1, <2>2, <2>3 DEF UniformInv
  <2>7. CASE FillReturns
    <3>1. pc = "fill" /\ OrbitEnds /\ pc' = "trailer"
      BY <2>7 DEF FillReturns
    <3>2. Len(bxVect) = NBlocks
      BY <3>1, AllRead
    <3>3. n < L /\ n + 1 \in 0..L
      BY <2>2, <2>4, <3>1
    <3>4. n * U <= L * U
      BY <2>2, <2>5, <3>3, Monotone
    <3> HIDE DEF L
    <3>5. p < size
      BY <2>3, <2>4, <2>5, <3>4
    <3>6. p' = p + U
      BY <2>7, <3>2, <3>5 DEF FillReturns, Advance, OrbitUnits
    <3> HIDE DEF U
    <3> QED
      BY <2>4, <2>5, <3>1, <3>3, <3>6
  <2>8. CASE NextOrbit
    <3>1. p' = p /\ p # size - 1
      BY <2>8 DEF NextOrbit, AtTrailer, totals
    <3> HIDE DEF U, L
    <3>2. n # L
      BY <2>3, <2>4, <3>1
    <3>3. n < L
      BY <2>2, <2>4, <3>2
    <3> QED
      BY <2>4, <3>1, <3>3
  <2>9. CASE ~FillReturns /\ ~NextOrbit
    <3>1. /\ p' = p
          /\ pc' \in {"packet", "check", "count", "fill"} =>
                pc \in {"packet", "check", "count", "fill"}
      BY <2>9 DEF Next, Process, AddOrbit, Call, Check, TestBit, StartFill,
                  FillBlock, SkipBlock, EndOfPacket, totals, vars
    <3> QED
      BY <2>4, <3>1
  <2> QED
    BY <2>7, <2>8, <2>9
<1> QED
  BY <1>1, <1>2, InputStays

-----------------------------------------------------------------------------
(* The theorems                                                            *)

LEMMA GmtInit == Init => GmtInv
<1> SUFFICES ASSUME Init PROVE GmtInv
  OBVIOUS
<1>1. TypeOK /\ BeginInv
  BY TypeInit DEF TypeInv
<1>2. pc = "packet" /\ packet = <<>> /\ size = 1 /\ p = 0 /\ Len(packet) = 0
  BY EmptySeq DEF Init
<1> QED
  BY <1>1, <1>2 DEF GmtInv, BxInv, CountInv, OutInv, SizeInv, SingleInv, UniformInv

LEMMA GmtNext == GmtInv /\ [Next]_vars => GmtInv'
BY TypeNext, BxStep, CountStep, OutStep, SizeStep, SingleStep, UniformStep
   DEF GmtInv, TypeInv

LEMMA GmtSafety == Spec => []GmtInv
BY GmtInit, GmtNext, PTL DEF Spec

\* When a packet of one orbit is done the output is what it contains.
LEMMA DoneUnpacks == GmtInv => Unpacks
<1> SUFFICES ASSUME GmtInv, pc = "done", Len(packet) = 1, nOrbits = 1, Full(1)
             PROVE  OutputIsPacket
  BY DEF Unpacks
<1> DEFINE N == NBlocks
<1>1. /\ TypeInv /\ N \in 0..MapBits /\ N \in Nat
      /\ First.map \in SUBSET Crossings
      /\ First.map \in SUBSET BunchCrossings
      /\ DOMAIN First.blocks = 1..N
  BY FirstFacts DEF GmtInv, TypeInv
<1>2. DOMAIN packet = {1}
  BY LenProperties DEF GmtInv, TypeOK
<1>3. /\ p > 0 /\ result = [end |-> q, counts |-> counts]
      /\ p = size - 1
      /\ counts = Cardinality(MuonsUpTo(N))
      /\ q = N + counts
  BY DEF GmtInv, SingleInv
<1>4. Len(out) = N /\ \A i \in DOMAIN out : IsEntry(out[i], i)
  BY <1>3 DEF GmtInv, OutInv
<1>5. DOMAIN out = 1..N
  BY <1>4, LenProperties DEF GmtInv, TypeOK
<1>6. /\ \A k \in 1..N, bx \in First.map :
            Rank(bx) = k - 1 => <<1, k, bx>> \in Occupied
      /\ \A t \in Occupied : /\ t[1] = 1 /\ t[2] \in 1..N /\ t[3] \in First.map
                             /\ Rank(t[3]) = t[2] - 1
  <2> DEFINE Space == (DOMAIN packet) \X (1..MapBits) \X BunchCrossings
             Has(t) == /\ t[2] \in DOMAIN packet[t[1]].blocks
                       /\ t[3] \in packet[t[1]].map
                       /\ Cardinality(Below(packet[t[1]].map, t[3])) = t[2] - 1
  <2>1. Occupied = {t \in Space : Has(t)}
    BY DEF Occupied, Below
  <2>2. ASSUME NEW k \in 1..N, NEW bx \in First.map, Rank(bx) = k - 1
        PROVE  <<1, k, bx>> \in Space /\ Has(<<1, k, bx>>)
    <3>1. k \in 1..MapBits /\ bx \in BunchCrossings
      BY <1>1, <2>2, MapFacts
    <3> QED
      BY <1>1, <1>2, <2>2, <3>1 DEF First, Rank
  <2>3. ASSUME NEW t \in Space, Has(t)
        PROVE  /\ t[1] = 1 /\ t[2] \in 1..N /\ t[3] \in First.map
               /\ Rank(t[3]) = t[2] - 1
    BY <1>1, <1>2, <2>3 DEF First, Rank
  <2> HIDE DEF Space, Has
  <2> QED
    BY <2>1, <2>2, <2>3
<1>7. {out[i] : i \in DOMAIN out} =
        {Entry(t[1], t[2], packet[t[1]].blocks[t[2]], t[3]) : t \in Occupied}
  <2>1. ASSUME NEW i \in 1..N
        PROVE  \E t \in Occupied :
                  out[i] = Entry(t[1], t[2], packet[t[1]].blocks[t[2]], t[3])
    <3>1. PICK bx \in First.map :
             Rank(bx) = i - 1 /\ out[i] = Entry(1, i, First.blocks[i], bx)
      BY <1>4, <1>5, <2>1 DEF IsEntry
    <3>2. <<1, i, bx>> \in Occupied
      BY <1>6, <2>1, <3>1
    <3> QED
      BY <3>1, <3>2 DEF First
  <2>2. ASSUME NEW t \in Occupied
        PROVE  /\ t[2] \in 1..N
               /\ out[t[2]] = Entry(t[1], t[2], packet[t[1]].blocks[t[2]], t[3])
    <3>1. /\ t[1] = 1 /\ t[2] \in 1..N /\ t[3] \in First.map
          /\ Rank(t[3]) = t[2] - 1
      BY <1>6, <2>2
    <3>2. PICK bx \in First.map :
             /\ Rank(bx) = t[2] - 1
             /\ out[t[2]] = Entry(1, t[2], First.blocks[t[2]], bx)
      BY <1>4, <1>5, <3>1 DEF IsEntry
    <3>3. bx = t[3]
      BY <1>1, <3>1, <3>2, RankInjective DEF Rank
    <3> QED
      BY <3>1, <3>2, <3>3 DEF First
  <2> QED
    BY <1>5, <2>1, <2>2
<1>8. \A i, j \in DOMAIN out : i < j => Before(out[i], out[j])
  <2> SUFFICES ASSUME NEW i \in 1..N, NEW j \in 1..N, i < j
               PROVE  Before(out[i], out[j])
    BY <1>5
  <2>1. /\ out[i].orbit = 1 /\ out[i].block = i
        /\ out[j].orbit = 1 /\ out[j].block = j
    BY <1>4, <1>5 DEF IsEntry, Entry
  <2> QED
    BY <2>1 DEF Before
<1>9. PacketMuons = MuonsUpTo(N)
  BY <1>1, <1>2 DEF PacketMuons, MuonsUpTo, First
<1> QED
  BY <1>3, <1>4, <1>7, <1>8, <1>9 DEF OutputIsPacket

\* Of a packet of one orbit, with any crossings and any muons, that is read as
\* such and has no block without muons, the output is exactly what the packet
\* contains, up to its end, and its muons are counted.
THEOREM UnpackSafety == Spec => []Unpacks
BY GmtSafety, DoneUnpacks, PTL

LEMMA UniformReads == GmtInv => ReadsWithinPacket
<1> SUFFICES ASSUME GmtInv, pc # "packet", Uniform
             PROVE  /\ p < size
                    /\ pc \in {"count", "fill"} =>
                          p + OrbitUnits(Len(First.blocks)) < size
  BY DEF ReadsWithinPacket
<1> DEFINE U == OrbitUnits(NBlocks)
           L == Len(packet)
<1>1. packet # <<>> /\ L \in Nat /\ U \in Nat
  <2>1. packet # <<>> /\ L \in Nat /\ NBlocks \in Nat
    BY FirstFacts DEF GmtInv, TypeInv
  <2> QED
    BY <2>1, UnitsType
<1>2. size = 1 + L * U /\ L * U \in Nat
  BY <1>1, Distribute DEF GmtInv, UniformInv
<1>3. PICK n \in 0..L :
         /\ p = n * U
         /\ pc \in {"packet", "check", "count", "fill"} => n < L
  BY <1>1 DEF GmtInv, UniformInv
<1>4. n \in Nat /\ n <= L /\ n * U \in Nat /\ (n + 1) * U = n * U + U
  BY <1>1, <1>3, Distribute
<1>5. n * U <= L * U
  BY <1>1, <1>4, Monotone
<1>6. n < L => (n + 1) * U <= L * U
  BY <1>1, <1>4, Monotone
<1> HIDE DEF U, L
<1>7. p < size
  BY <1>2, <1>3, <1>4, <1>5
<1>8. n < L => p + U < size
  BY <1>1, <1>2, <1>3, <1>4, <1>6
<1> QED
  BY <1>3, <1>7, <1>8 DEF U, NBlocks

\* Of any number of orbits with equally many crossings none is taken to be
\* behind the trailer of the packet, and the trailer is not missed.
THEOREM ReadSafety == Spec => []ReadsWithinPacket
BY GmtSafety, UniformReads, PTL

-----------------------------------------------------------------------------
(* The slice for the output                                                *)

LEMMA FitStep ==
    ASSUME GmtInv, FitInv, [Next]_vars PROVE FitInv'
<1>1. /\ size \in Nat /\ p \in Nat /\ q \in Nat /\ result.end \in Nat
      /\ 12 * q <= 64 * p /\ 12 * result.end <= 64 * size
  BY DEF GmtInv, TypeOK, FitInv, CellBytes, UnitBytes
<1>2. ASSUME NEW orbit \in Orbit, AddOrbit(orbit) PROVE FitInv'
  <2>1. OrbitUnits(Len(orbit.blocks)) \in Nat
    BY <1>2, AddFacts, UnitsType DEF GmtInv, TypeInv
  <2>2. /\ size' = size + OrbitUnits(Len(orbit.blocks))
        /\ p' = p /\ q' = q /\ result' = result
    BY <1>2 DEF AddOrbit, totals
  <2> QED
    BY <1>1, <2>1, <2>2 DEF FitInv, CellBytes, UnitBytes
<1>3. ASSUME UNCHANGED <<size, p, q, result>> PROVE FitInv'
  BY <1>3 DEF FitInv
<1>4. CASE FillReturns
  <2>1. /\ pc = "fill" /\ OrbitEnds /\ size' = size /\ result' = result
        /\ \/ /\ p' = p + Advance(Len(bxVect))
              /\ q' = q + Written(orbitCount, Len(bxVect))
           \/ p' = p /\ q' = q
    BY <1>4 DEF FillReturns, input, totals
  <2>2. /\ NBlocks \in Nat /\ Len(bxVect) = NBlocks
        /\ orbitCount \in 0..(16 * NBlocks)
    BY <2>1, AllRead DEF GmtInv, TypeInv
  <2>3. /\ Advance(NBlocks) = 18 + 6 * NBlocks
        /\ Written(orbitCount, NBlocks) = orbitCount + NBlocks
    BY <2>2 DEF Advance, Written, HeaderUnits, BlockUnits, TrailerUnits
  <2> QED
    BY <1>1, <2>1, <2>2, <2>3 DEF FitInv, CellBytes, UnitBytes
<1>5. CASE EndOfPacket
  <2>1. /\ p = size - 1 /\ size' = size /\ p' = p /\ q' = q
        /\ result'.end = q
    BY <1>5 DEF EndOfPacket, AtTrailer, input, totals
  <2> QED
    BY <1>1, <2>1 DEF FitInv, CellBytes, UnitBytes
<1> QED
  BY <1>2, <1>3, <1>4, <1>5
     DEF Next, Process, Call, Check, TestBit, StartFill, FillBlock, SkipBlock,
         NextOrbit, vars, input, totals

LEMMA FitNow == GmtInv /\ FitInv => OutputFits
<1> SUFFICES ASSUME GmtInv, FitInv, pc = "fill"
             PROVE  12 * (orbitCount + relbx - 1) <= 64 * size
  BY DEF OutputFits, FitInv, CellBytes, UnitBytes
<1>1. /\ block \in Nat \ {0} /\ relbx \in 1..block /\ size \in Nat
      /\ orbitCount \in 0..(16 * (block - 1))
  BY DEF GmtInv, TypeOK
<1>2. packet # <<>> /\ NBlocks \in Nat
  BY FirstFacts DEF GmtInv, TypeInv
<1>3. block <= NBlocks + 1 /\ size >= 1 + OrbitUnits(NBlocks)
  BY <1>2 DEF GmtInv, CountInv, SizeInv
<1>4. OrbitUnits(NBlocks) = 18 + 6 * NBlocks
  BY <1>2, UnitsType
<1> QED
  BY <1>1, <1>2, <1>3, <1>4

\* The output fits, for any number of orbits and crossings.
THEOREM FitSafety == Spec => []OutputFits
<1>1. Init => FitInv
  BY DEF Init, FitInv, CellBytes, UnitBytes
<1>2. GmtInv /\ FitInv /\ [Next]_vars => FitInv'
  BY FitStep
<1> QED
  BY <1>1, <1>2, GmtSafety, FitNow, PTL DEF Spec
=============================================================================
