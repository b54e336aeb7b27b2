--------------------------- MODULE PipelineProofs ---------------------------
(***************************************************************************)
(* Proofs about Pipeline, for any number of workers, tokens and slices.    *)
(***************************************************************************)
EXTENDS Pipeline, FiniteSetTheorems, SequenceTheorems, TLAPS

-----------------------------------------------------------------------------
(* What the operations do to the sequence of items                         *)

\* One item changes, the others keep their places.
LEMMA ChangeItem ==
    ASSUME flight \in Seq(Item), NEW i \in DOMAIN flight, NEW it \in Item
    PROVE  LET s == [flight EXCEPT ![i] = it]
           IN  /\ s \in Seq(Item)
               /\ Len(s) = Len(flight)
               /\ DOMAIN s = DOMAIN flight
               /\ s[i] = it
               /\ \A k \in DOMAIN flight : k # i => s[k] = flight[k]
BY ExceptSeq, LenProperties

\* An item is appended.
LEMMA AppendItem ==
    ASSUME flight \in Seq(Item), NEW it \in Item
    PROVE  LET s == Append(flight, it)
           IN  /\ s \in Seq(Item)
               /\ Len(s) = Len(flight) + 1
               /\ DOMAIN s = DOMAIN flight \cup {Len(flight) + 1}
               /\ Len(flight) + 1 \notin DOMAIN flight
               /\ s[Len(flight) + 1] = it
               /\ \A k \in DOMAIN flight : s[k] = flight[k]
<1>1. DOMAIN flight = 1..Len(flight) /\ Len(flight) \in Nat
  BY LenProperties
<1>2. /\ Append(flight, it) \in Seq(Item)
      /\ Len(Append(flight, it)) = Len(flight) + 1
      /\ Append(flight, it)[Len(flight) + 1] = it
      /\ \A k \in 1..Len(flight) : Append(flight, it)[k] = flight[k]
  BY AppendProperties
<1>3. DOMAIN Append(flight, it) = 1..(Len(flight) + 1)
  BY <1>2, LenProperties
<1> QED
  BY <1>1, <1>2, <1>3

\* The oldest item leaves.
LEMMA RemoveOldest ==
    ASSUME flight \in Seq(Item), 1 \in DOMAIN flight
    PROVE  LET s == SubSeq(flight, 1, 1 - 1) \o SubSeq(flight, 1 + 1, Len(flight))
           IN  /\ s \in Seq(Item)
               /\ Len(s) = Len(flight) - 1
               /\ DOMAIN s = 1..(Len(flight) - 1)
               /\ \A k \in DOMAIN s : k + 1 \in DOMAIN flight /\ s[k] = flight[k + 1]
<1> DEFINE tail == SubSeq(flight, 2, Len(flight))
<1>1. /\ Len(flight) \in Nat \ {0}
      /\ DOMAIN flight = 1..Len(flight)
      /\ \A k \in 1..Len(flight) : flight[k] \in Item
  BY LenProperties
<1>2. SubSeq(flight, 1, 1 - 1) = <<>>
  BY SubSeqEmpty
<1>3. /\ tail \in Seq(Item)
      /\ Len(tail) = Len(flight) - 1
      /\ \A k \in 1..(Len(flight) - 1) : tail[k] = flight[k + 1]
  BY <1>1, SubSeqProperties
<1>4. <<>> \o tail = tail
  BY <1>3, ConcatEmptySeq
<1>5. DOMAIN tail = 1..(Len(flight) - 1)
  BY <1>3, LenProperties
<1> QED
  BY <1>1, <1>2, <1>3, <1>4, <1>5

-----------------------------------------------------------------------------
(* Type correctness                                                        *)

\* Only the oldest item is inside the output filter, a packet that was read
\* is with a worker, and the worker inside the input filter has a token.
TypeInv ==
    /\ TypeOK
    /\ inputPacket # NoPacket => inputThread # NoThread
    /\ inputThread # NoThread => Len(flight) < MaxTokens
    /\ \A i \in DOMAIN flight : flight[i].stage = "writing" => i = 1

LEMMA MaxTokensType == MaxTokens \in Nat \ {0}
<1>1. Cardinality(Threads) \in Nat /\ Cardinality(Threads) # 0
  BY PipelineAssumption, FS_CardinalityType, FS_EmptySet
<1> QED
  BY <1>1, PipelineAssumption DEF MaxTokens

\* The state in which the program starts is well typed.
LEMMA BootTypes ==
    ASSUME NEW st, NEW thread, NEW packet, NEW next, NEW queue, NEW memory,
           NEW filled, NEW items,
           Boot(st, thread, packet, next, queue, memory, filled, items)
    PROVE  /\ st = "running" /\ thread = NoThread /\ packet = NoPacket
           /\ next \in Slices
           /\ queue \in Seq(Slices)
           /\ Len(queue) = NSlices - 1
           /\ \A j \in 1..(NSlices - 1) : queue[j] = j + 1
           /\ memory \in [Slices -> Packets \cup {NoPacket}]
           /\ filled \in [Slices -> Nat]
           /\ items = <<>> /\ items \in Seq(Item) /\ Len(items) = 0
           /\ DOMAIN items = {}
<1>1. NSlices \in Nat \ {0}
  BY PipelineAssumption
<1>2. queue \in Seq(Slices) /\ Len(queue) = NSlices - 1
  BY <1>1 DEF Boot, Slices
<1> QED
  BY <1>1, <1>2 DEF Boot, Slices

LEMMA TypeInit == Init => TypeInv
<1> SUFFICES ASSUME Init PROVE TypeInv
  OBVIOUS
<1>1. /\ status = "running" /\ inputThread = NoThread /\ inputPacket = NoPacket
      /\ nextSlice \in Slices /\ free \in Seq(Slices)
      /\ mem \in [Slices -> Packets \cup {NoPacket}]
      /\ fill \in [Slices -> Nat]
      /\ flight \in Seq(Item) /\ Len(flight) = 0 /\ DOMAIN flight = {}
  BY BootTypes DEF Init
<1> QED
  BY <1>1, MaxTokensType DEF Init, TypeInv, TypeOK

\* What the filters change in an item.
LEMMA StageTypes ==
    ASSUME NEW it \in Item, NEW st \in Stages,
           NEW o \in Packets \cup {NoPacket}
    PROVE  /\ [it EXCEPT !.stage = st] \in Item
           /\ [it EXCEPT !.stage = st].stage = st
           /\ [it EXCEPT !.stage = st, !.out = o] \in Item
           /\ [it EXCEPT !.stage = st, !.out = o].stage = st
BY DEF Item

\* Every step keeps TypeInv: one step of the proof per action.
LEMMA TypeNext == TypeInv /\ [Next]_vars => TypeInv'
<1> SUFFICES ASSUME TypeInv, [Next]_vars PROVE TypeInv'
  OBVIOUS
<1> USE DEF TypeInv, TypeOK, inputVars, poolVars
<1>0. /\ PipelineAssumption
      /\ DOMAIN flight = 1..Len(flight) /\ Len(flight) \in Nat
      /\ \A k \in DOMAIN flight : flight[k] \in Item
  BY PipelineAssumption, LenProperties
<1>1. CASE (\E t \in Threads : InputFilterStart(t)) \/ InputFilterRead
  <2>1. CASE \E t \in Threads : InputFilterStart(t)
    BY <2>1 DEF InputFilterStart, MayStartInput, MaxTokens
  <2>2. CASE InputFilterRead
    BY <2>2 DEF InputFilterRead, Reading, Slices, MaxTokens
  <2> QED
    BY <1>1, <2>1, <2>2
<1>2. CASE InputFilterThrows \/ InputFilterAborts
  BY <1>2 DEF InputFilterThrows, InputFilterAborts, Reading, MaxTokens
<1>3. CASE InputFilterReturn
  <2>1. /\ nextSlice' \in Slices /\ free' \in Seq(Slices)
        /\ fill' \in [Slices -> Nat]
    BY <1>3, HeadTailProperties DEF InputFilterReturn, getAllocated
  <2>2. CASE status = "running"
    <3>1. NewItem \in Item
      BY <1>0, <1>3 DEF InputFilterReturn, NewItem, Item, Stages
    <3>2. flight' = Append(flight, NewItem) /\ Len(flight) < MaxTokens
      BY <1>0, <1>3, <2>2 DEF InputFilterReturn
    <3>3. flight' \in Seq(Item) /\ Len(flight') <= MaxTokens
      BY <1>0, <3>1, <3>2, AppendItem, MaxTokensType
    <3>4. \A k \in DOMAIN flight' : flight'[k].stage = "writing" => k = 1
      <4>1. NewItem.stage # "writing"
        BY DEF NewItem
      <4> QED
        BY <3>1, <3>2, <4>1, AppendItem
    <3> QED
      BY <1>3, <2>1, <3>3, <3>4 DEF InputFilterReturn, MaxTokens
  <2>3. CASE status # "running"
    BY <1>3, <2>1, <2>3 DEF InputFilterReturn
  <2> QED
    BY <2>2, <2>3
\* The items of `flight' are changed one at a time by the other operations.
<1>4. ASSUME NEW i \in DOMAIN flight, NEW it \in Item,
             flight' = [flight EXCEPT ![i] = it],
             it.stage = "writing" => i = 1
      PROVE  /\ flight' \in Seq(Item) /\ Len(flight') = Len(flight)
             /\ \A k \in DOMAIN flight' : flight'[k].stage = "writing" => k = 1
  BY <1>4, ChangeItem
<1>5. ASSUME NEW i \in DOMAIN flight, StreamProcessorStart(i) PROVE TypeInv'
  <2> DEFINE it == [flight[i] EXCEPT !.stage = "processing"]
  <2>1. it \in Item /\ it.stage = "processing"
    BY <1>0, StageTypes DEF Stages
  <2>2. flight' = [flight EXCEPT ![i] = it]
    BY <1>5 DEF StreamProcessorStart, SetStage
  <2>3. /\ flight' \in Seq(Item) /\ Len(flight') = Len(flight)
        /\ \A k \in DOMAIN flight' : flight'[k].stage = "writing" => k = 1
    BY <2>1, <2>2, <1>4
  <2> QED
    BY <1>5, <2>3 DEF StreamProcessorStart, MaxTokens
<1>6. ASSUME NEW i \in DOMAIN flight, StreamProcessorProcess(i) PROVE TypeInv'
  <2> DEFINE s == flight[i].slice
             o == IF fill[s] = 1 THEN mem[s] ELSE NoPacket
             it == [flight[i] EXCEPT !.stage = "processed", !.out = o]
  <2>1. it \in Item /\ it.stage = "processed"
    <3>1. flight[i] \in Item /\ s \in Slices
      BY <1>0 DEF Item
    <3>2. o \in Packets \cup {NoPacket}
      BY <3>1
    <3>3. "processed" \in Stages
      BY DEF Stages
    <3> HIDE DEF o
    <3> QED
      BY ONLY <3>1, <3>2, <3>3, StageTypes
  <2>2. flight' = [flight EXCEPT ![i] = it]
    BY <1>6 DEF StreamProcessorProcess
  <2>3. /\ flight' \in Seq(Item) /\ Len(flight') = Len(flight)
        /\ \A k \in DOMAIN flight' : flight'[k].stage = "writing" => k = 1
    BY <2>1, <2>2, <1>4
  <2> QED
    BY <1>6, <2>3 DEF StreamProcessorProcess, MaxTokens
<1>7. ASSUME NEW i \in DOMAIN flight, StreamProcessorReturn(i) PROVE TypeInv'
  <2> DEFINE it == [flight[i] EXCEPT !.stage = "ready"]
  <2>1. it \in Item /\ it.stage = "ready" /\ flight[i].slice \in Slices
    <3>1. flight[i].slice \in Slices
      BY <1>0 DEF Item
    <3> QED
      BY <1>0, <3>1, StageTypes DEF Stages
  <2>2. flight' = [flight EXCEPT ![i] = it]
    BY <1>7 DEF StreamProcessorReturn, SetStage
  <2>3. /\ flight' \in Seq(Item) /\ Len(flight') = Len(flight)
        /\ \A k \in DOMAIN flight' : flight'[k].stage = "writing" => k = 1
    BY <2>1, <2>2, <1>4
  <2>4. free' \in Seq(Slices) /\ fill' \in [Slices -> Nat]
    BY <1>7, <2>1, AppendProperties DEF StreamProcessorReturn, giveAllocated
  <2> QED
    BY <1>7, <2>3, <2>4 DEF StreamProcessorReturn, MaxTokens
<1>8. ASSUME NEW i \in DOMAIN flight, Park(i) PROVE TypeInv'
  <2> DEFINE it == [flight[i] EXCEPT !.worker = NoThread]
  <2>1. it \in Item /\ (it.stage = "writing" => i = 1)
    BY <1>0 DEF Item
  <2>2. flight' = [flight EXCEPT ![i] = it]
    BY <1>8 DEF Park
  <2>3. /\ flight' \in Seq(Item) /\ Len(flight') = Len(flight)
        /\ \A k \in DOMAIN flight' : flight'[k].stage = "writing" => k = 1
    BY <2>1, <2>2, <1>4
  <2> QED
    BY <1>8, <2>3 DEF Park, MaxTokens
<1>9. ASSUME NEW i \in DOMAIN flight, NEW t \in Threads, OutputStart(i, t)
      PROVE  TypeInv'
  <2> DEFINE it == [flight[i] EXCEPT !.stage = "writing", !.worker = t]
  <2>1. it \in Item /\ i = 1
    <3>1. i = 1
      BY <1>9 DEF OutputStart, MayEnterOutput
    <3>2. flight[i] \in Item /\ t \in Threads \cup {NoThread}
      BY <1>0
    <3>3. it \in Item
      BY ONLY <3>2 DEF Item, Stages
    <3> QED
      BY <3>1, <3>3
  <2>2. flight' = [flight EXCEPT ![i] = it]
    BY <1>9 DEF OutputStart
  <2>3. /\ flight' \in Seq(Item) /\ Len(flight') = Len(flight)
        /\ \A k \in DOMAIN flight' : flight'[k].stage = "writing" => k = 1
    BY <2>1, <2>2, <1>4
  <2> QED
    BY <1>9, <2>3 DEF OutputStart, MaxTokens
<1>10. ASSUME NEW i \in DOMAIN flight, OutputReturn(i) \/ OutputThrows(i)
       PROVE  TypeInv'
  <2>1. i = 1 /\ flight[i].stage = "writing"
    BY <1>10 DEF OutputReturn, OutputThrows
  <2>2. flight' = SubSeq(flight, 1, 1 - 1) \o SubSeq(flight, 1 + 1, Len(flight))
    BY <1>10, <2>1 DEF OutputReturn, OutputThrows, RemoveItem
  <2>3. /\ flight' \in Seq(Item) /\ Len(flight') = Len(flight) - 1
        /\ \A k \in DOMAIN flight' : k \in Nat \ {0} /\ k + 1 \in DOMAIN flight
                                     /\ flight'[k] = flight[k + 1]
    BY <1>0, <2>1, <2>2, RemoveOldest
  <2>4. \A k \in DOMAIN flight' : flight'[k].stage = "writing" => k = 1
    BY <2>3
  <2>5. OutputContent(flight[i]) \in Packets \cup {NoPacket}
    BY <1>0 DEF OutputContent, Item
  <2>6. status' \in {"running", "cancelled", "exited"}
        /\ written' \in Packets \cup {NoPacket}
    BY <1>10, <2>5 DEF OutputReturn, OutputThrows
  <2>7. Len(flight') <= MaxTokens /\ Len(flight') < Len(flight)
    BY <1>0, <2>3, MaxTokensType
  <2> QED
    BY <1>0, <1>10, <2>3, <2>4, <2>6, <2>7, MaxTokensType
       DEF OutputReturn, OutputThrows, MaxTokens
<1>11. CASE Exit
  BY <1>11 DEF Exit
<1>12. CASE Restart
  BY <1>12, BootTypes, MaxTokensType DEF Restart, MaxTokens
<1>13. CASE UNCHANGED vars
  BY <1>13 DEF vars, MaxTokens
<1> QED
  BY <1>1, <1>2, <1>3, <1>5, <1>6, <1>7, <1>8, <1>9, <1>10, <1>11, <1>12,
     <1>13 DEF Next, InputFilterNext, StreamProcessorNext, OutputNext

\* In every state that is reachable, for any number of workers, tokens and
\* slices, the variables have their types, at most MaxTokens packets are in
\* flight and the output filter is entered by the oldest one only.
THEOREM TypeCorrect == Spec => []TypeInv
<1> QED
  BY TypeInit, TypeNext, PTL DEF Spec

THEOREM TypeSafety == Spec => []TypeOK
<1>1. TypeInv => TypeOK
  BY DEF TypeInv
<1> QED
  BY <1>1, TypeCorrect, PTL

-----------------------------------------------------------------------------
(* Ownership of the slices                                                 *)

\* A worker is in one place.  An item that is not parked has a worker, and an
\* item is only parked when it has given its slice back.
WorkerInv ==
    /\ \A i \in DOMAIN flight :
         EnableStreamProcessor /\ HoldsSlice(flight[i])
            => flight[i].worker # NoThread
    /\ \A i, j \in DOMAIN flight :
         flight[i].worker = flight[j].worker /\ flight[i].worker # NoThread
            => i = j
    /\ inputThread # NoThread =>
         \A i \in DOMAIN flight : flight[i].worker # inputThread
    /\ ~EnableStreamProcessor =>
         \A i \in DOMAIN flight : flight[i].stage \in {"arrived", "writing"}

\* The worker inside the input filter has filled the next slice.
InputInv == inputPacket # NoPacket => mem[nextSlice] = inputPacket

\* No slice is lost, as long as the input filter can still need one.
CoverInv ==
    EnableStreamProcessor /\ (status = "running" \/ inputThread # NoThread) =>
        \A s \in Slices :
            \/ s = nextSlice
            \/ \E j \in DOMAIN free : free[j] = s
            \/ \E i \in Holders : flight[i].slice = s

SafeInv ==
    /\ TypeInv
    /\ WorkerInv
    /\ ExclusiveOwnership
    /\ ContentIntact
    /\ InputInv
    /\ CoverInv

LEMMA ItemTypes ==
    ASSUME TypeInv
    PROVE  /\ DOMAIN flight = 1..Len(flight) /\ Len(flight) \in Nat
           /\ \A k \in DOMAIN flight : flight[k] \in Item
           /\ \A k \in DOMAIN flight : flight[k].slice \in Slices
           /\ DOMAIN free = 1..Len(free) /\ Len(free) \in Nat
           /\ \A j \in DOMAIN free : free[j] \in Slices
<1>1. /\ DOMAIN flight = 1..Len(flight) /\ Len(flight) \in Nat
      /\ \A k \in DOMAIN flight : flight[k] \in Item
  BY LenProperties DEF TypeInv, TypeOK
<1>2. \A k \in DOMAIN flight : flight[k].slice \in Slices
  BY <1>1 DEF Item
<1>3. /\ DOMAIN free = 1..Len(free) /\ Len(free) \in Nat
      /\ \A j \in DOMAIN free : free[j] \in Slices
  BY LenProperties DEF TypeInv, TypeOK
<1> QED
  BY <1>1, <1>2, <1>3

LEMMA SafeInit == Init => SafeInv
<1> SUFFICES ASSUME Init PROVE SafeInv
  OBVIOUS
<1>1. /\ inputThread = NoThread /\ inputPacket = NoPacket
      /\ DOMAIN flight = {}
      /\ free \in Seq(Slices) /\ Len(free) = NSlices - 1
      /\ \A j \in 1..(NSlices - 1) : free[j] = j + 1
  BY BootTypes DEF Init
<1>2. nextSlice = 1 /\ fill = [s \in Slices |-> 0]
  BY DEF Init, Boot
<1>3. DOMAIN free = 1..(NSlices - 1) /\ NSlices \in Nat \ {0}
  BY <1>1, LenProperties, PipelineAssumption
<1>4. \A s \in Slices : s = 1 \/ (s - 1 \in DOMAIN free /\ free[s - 1] = s)
  BY <1>1, <1>3 DEF Slices
<1>5. /\ \A j \in DOMAIN free : free[j] = j + 1
      /\ \A j \in DOMAIN free : free[j] \in Slices /\ free[j] # 1
  BY <1>1, <1>3 DEF Slices
<1>6. Holders = {}
  BY <1>1 DEF Holders
<1>7. ExclusiveOwnership /\ ContentIntact /\ CoverInv
  <2>1. ExclusiveOwnership
    BY <1>2, <1>3, <1>5, <1>6 DEF ExclusiveOwnership
  <2>2. 1 \in Slices
    BY <1>3 DEF Slices
  <2>3. ContentIntact
    BY <1>1, <1>2, <1>5, <1>6, <2>2 DEF ContentIntact
  <2> QED
    BY <1>2, <1>4, <2>1, <2>3 DEF CoverInv
<1> QED
  BY <1>1, <1>7, TypeInit DEF SafeInv, WorkerInv, InputInv

\* An item that keeps its slice and its packet changes nothing for the others.
LEMMA KeepSlice ==
    ASSUME SafeInv, NEW i \in DOMAIN flight, NEW it \in Item,
           flight' = [flight EXCEPT ![i] = it],
           it.slice = flight[i].slice, it.packet = flight[i].packet,
           HoldsSlice(it) <=> HoldsSlice(flight[i]),
           UNCHANGED <<inputThread, inputPacket, nextSlice, free, mem, fill,
                       status>>,
           EnableStreamProcessor
             /\ it.stage \in {"processed", "ready", "writing"}
                => it.out = it.packet
    PROVE  ExclusiveOwnership' /\ ContentIntact' /\ InputInv' /\ CoverInv'
<1> USE DEF SafeInv
<1>1. /\ DOMAIN flight' = DOMAIN flight
      /\ flight'[i] = it
      /\ \A k \in DOMAIN flight : k # i => flight'[k] = flight[k]
  BY ChangeItem DEF TypeInv, TypeOK
<1>2. /\ Holders' = Holders
      /\ \A k \in DOMAIN flight : flight'[k].slice = flight[k].slice
                                  /\ flight'[k].packet = flight[k].packet
  BY <1>1 DEF Holders
<1>3. Holders \subseteq DOMAIN flight
  BY DEF Holders
<1>4. ExclusiveOwnership'
  BY <1>2, <1>3 DEF ExclusiveOwnership
<1>5. ContentIntact'
  <2>1. EnableStreamProcessor =>
          \A k \in DOMAIN flight' :
             flight'[k].stage \in {"processed", "ready", "writing"}
               => flight'[k].out = flight'[k].packet
    BY <1>1 DEF ContentIntact
  <2>2. \A k \in Holders' : mem'[flight'[k].slice] = flight'[k].packet
                            /\ fill'[flight'[k].slice] = 1
    BY <1>2, <1>3 DEF ContentIntact
  <2> QED
    BY <2>1, <2>2 DEF ContentIntact
<1>6. InputInv' /\ CoverInv'
  BY <1>2, <1>3 DEF InputInv, CoverInv
<1> QED
  BY <1>4, <1>5, <1>6

\* An item keeps its worker, is parked, or is taken up by an idle worker.
LEMMA KeepWorkers ==
    ASSUME SafeInv, NEW i \in DOMAIN flight, NEW it \in Item,
           flight' = [flight EXCEPT ![i] = it],
           inputThread' = inputThread,
           \/ it.worker = flight[i].worker
           \/ it.worker = NoThread
           \/ it.worker \in Threads /\ Idle(it.worker),
           EnableStreamProcessor /\ HoldsSlice(it) => it.worker # NoThread,
           ~EnableStreamProcessor => it.stage \in {"arrived", "writing"}
    PROVE  WorkerInv'
<1> USE DEF SafeInv
<1>1. /\ DOMAIN flight' = DOMAIN flight
      /\ flight'[i] = it
      /\ \A k \in DOMAIN flight : k # i => flight'[k] = flight[k]
  BY ChangeItem DEF TypeInv, TypeOK
<1>2. \A k \in DOMAIN flight : it.worker = flight[k].worker
                               /\ it.worker # NoThread => k = i
  BY DEF WorkerInv, Idle
<1>3. inputThread # NoThread => it.worker # inputThread
  BY DEF WorkerInv, Idle
<1>4. \A k \in DOMAIN flight' :
        EnableStreamProcessor /\ HoldsSlice(flight'[k])
            => flight'[k].worker # NoThread
  BY <1>1 DEF WorkerInv
<1>5. \A k, l \in DOMAIN flight' :
        flight'[k].worker = flight'[l].worker /\ flight'[k].worker # NoThread
            => k = l
  BY <1>1, <1>2 DEF WorkerInv
<1>6. inputThread' # NoThread =>
        \A k \in DOMAIN flight' : flight'[k].worker # inputThread'
  BY <1>1, <1>3 DEF WorkerInv
<1>7. ~EnableStreamProcessor =>
        \A k \in DOMAIN flight' : flight'[k].stage \in {"arrived", "writing"}
  BY <1>1 DEF WorkerInv
<1> QED
  BY <1>4, <1>5, <1>6, <1>7 DEF WorkerInv

\* Steps that touch neither the items nor the pool.
LEMMA KeepAll ==
    ASSUME SafeInv, UNCHANGED <<inputVars, poolVars, flight>>,
           status' = "running" => status = "running"
    PROVE  WorkerInv' /\ ExclusiveOwnership' /\ ContentIntact' /\ InputInv'
           /\ CoverInv'
<1>1. UNCHANGED <<inputThread, inputPacket, nextSlice, free, mem, fill, flight>>
  BY DEF inputVars, poolVars
<1>2. Holders' = Holders
  BY <1>1 DEF Holders
<1>3. ExclusiveOwnership' /\ ContentIntact'
  BY <1>1, <1>2 DEF ExclusiveOwnership, ContentIntact, SafeInv
<1>4. WorkerInv' /\ InputInv' /\ CoverInv'
  BY <1>1, <1>2 DEF WorkerInv, InputInv, CoverInv, SafeInv
<1> QED
  BY <1>3, <1>4

\* A worker enters the input filter, or leaves it because readInput throws.
LEMMA EnterKeeps ==
    ASSUME SafeInv, TypeInv',
           (\E t \in Threads : InputFilterStart(t)) \/ InputFilterThrows
    PROVE  SafeInv'
<1> USE DEF SafeInv
<1>1. UNCHANGED <<inputPacket, nextSlice, free, mem, fill, flight>>
  BY DEF InputFilterStart, InputFilterThrows, poolVars
<1>2. Holders' = Holders
  BY <1>1 DEF Holders
<1>3. ExclusiveOwnership' /\ ContentIntact' /\ InputInv'
  BY <1>1, <1>2 DEF ExclusiveOwnership, ContentIntact, InputInv
<1>4. CASE \E t \in Threads : InputFilterStart(t)
  <2>1. PICK t \in Threads : InputFilterStart(t)
    BY <1>4
  <2>2. /\ inputThread' = t /\ Idle(t)
        /\ status = "running" /\ status' = "running"
    BY <2>1 DEF InputFilterStart, MayStartInput
  <2> QED
    BY <1>1, <1>2, <1>3, <2>2 DEF WorkerInv, CoverInv, Idle
<1>5. CASE InputFilterThrows
  <2>1. inputThread' = NoThread /\ status' = "cancelled"
    BY <1>5 DEF InputFilterThrows
  <2> QED
    BY <1>1, <1>2, <1>3, <2>1 DEF WorkerInv, CoverInv
<1> QED
  BY <1>4, <1>5

LEMMA ReadKeeps ==
    ASSUME SafeInv, TypeInv', InputFilterRead
    PROVE  SafeInv'
<1> USE DEF SafeInv
<1>1. UNCHANGED <<status, inputThread, nextSlice, free, fill, flight, written>>
  BY DEF InputFilterRead
<1>2. PICK p \in Packets : /\ mem' = [mem EXCEPT ![nextSlice] = p]
                           /\ inputPacket' = p
  BY DEF InputFilterRead
<1>3. nextSlice \in Slices /\ mem \in [Slices -> Packets \cup {NoPacket}]
  BY DEF TypeInv, TypeOK
<1>4. mem'[nextSlice] = p /\ \A s \in Slices : s # nextSlice => mem'[s] = mem[s]
  BY <1>2, <1>3
<1>5. \A i \in Holders : flight[i].slice \in Slices /\ i \in DOMAIN flight
  BY ItemTypes DEF Holders
<1>6. Holders' = Holders
  BY <1>1 DEF Holders
<1>7. WorkerInv'
  BY <1>1 DEF WorkerInv
<1>8. ExclusiveOwnership' /\ CoverInv'
  BY <1>1, <1>6 DEF ExclusiveOwnership, CoverInv
<1>9. ContentIntact'
  BY <1>1, <1>4, <1>5, <1>6 DEF ContentIntact, ExclusiveOwnership
<1>10. InputInv'
  BY <1>1, <1>2, <1>4 DEF InputInv
<1> QED
  BY <1>7, <1>8, <1>9, <1>10

LEMMA ReturnKeeps ==
    ASSUME SafeInv, TypeInv', InputFilterReturn
    PROVE  SafeInv'
<1> USE DEF SafeInv
<1>1. /\ inputPacket # NoPacket /\ inputPacket' = NoPacket
      /\ inputThread # NoThread /\ inputThread' = NoThread
      /\ mem' = mem /\ status' = status /\ free # <<>>
      /\ nextSlice' = Head(free) /\ free' = Tail(free)
      /\ fill' = [fill EXCEPT ![nextSlice] = @ + 1]
  BY DEF InputFilterReturn, getAllocated, TypeInv
<1>2. /\ nextSlice \in Slices /\ free \in Seq(Slices)
      /\ fill \in [Slices -> Nat]
      /\ DOMAIN free = 1..Len(free) /\ Len(free) \in Nat \ {0}
      /\ Len(free') = Len(free) - 1
      /\ DOMAIN free' = 1..(Len(free) - 1)
      /\ \A j \in DOMAIN free' : j + 1 \in DOMAIN free /\ free'[j] = free[j + 1]
      /\ 1 \in DOMAIN free /\ nextSlice' = free[1]
      /\ \A j \in DOMAIN free : j # 1 => j - 1 \in DOMAIN free'
                                         /\ free'[j - 1] = free[j]
  <2>1. nextSlice \in Slices /\ free \in Seq(Slices) /\ fill \in [Slices -> Nat]
    BY DEF TypeInv, TypeOK
  <2>2. /\ Len(free) \in Nat \ {0} /\ DOMAIN free = 1..Len(free)
        /\ Tail(free) \in Seq(Slices)
        /\ Len(Tail(free)) = Len(free) - 1
        /\ \A j \in 1..(Len(free) - 1) : Tail(free)[j] = free[j + 1]
    BY <1>1, <2>1, HeadTailProperties, LenProperties, EmptySeq
  <2>3. DOMAIN Tail(free) = 1..(Len(free) - 1)
    BY <2>2, LenProperties
  <2>4. Head(free) = free[1]
    BY <1>1, <2>1
  <2> QED
    BY <1>1, <2>1, <2>2, <2>3, <2>4
<1>3. fill[nextSlice] = 0 /\ fill'[nextSlice] = 1
      /\ \A s \in Slices : s # nextSlice => fill'[s] = fill[s]
  BY <1>1, <1>2 DEF ContentIntact
<1>4. /\ \A j \in DOMAIN free : free[j] # nextSlice /\ free[j] \in Slices
      /\ \A i \in Holders : /\ flight[i].slice # nextSlice
                            /\ flight[i].slice \in Slices
                            /\ i \in DOMAIN flight
  BY ItemTypes DEF ExclusiveOwnership, Holders
\* What becomes of the items is the only difference between the two cases.
<1>5. CASE status = "running"
  <2> DEFINE n == Len(flight) + 1
             new == NewItem
  <2>1. new \in Item
    <3>1. inputPacket \in Packets /\ inputThread \in Threads
      BY <1>1 DEF TypeInv, TypeOK
    <3> QED
      BY <3>1, <1>2 DEF NewItem, Item, Stages
  <2>2. /\ DOMAIN flight' = DOMAIN flight \cup {n}
        /\ n \notin DOMAIN flight
        /\ flight'[n] = new
        /\ \A k \in DOMAIN flight : flight'[k] = flight[k]
    <3>1. flight' = Append(flight, new)
      BY <1>5 DEF InputFilterReturn
    <3>2. flight \in Seq(Item)
      BY DEF TypeInv, TypeOK
    <3> QED
      BY <2>1, <3>1, <3>2, AppendItem
  <2>3. /\ new.slice = nextSlice /\ new.packet = inputPacket
        /\ new.stage = "arrived" /\ new.worker = inputThread /\ HoldsSlice(new)
    BY DEF NewItem, HoldsSlice
  <2> HIDE DEF n, new
  <2>4. Holders' = Holders \cup {n}
    BY <2>2, <2>3 DEF Holders
  <2>5. WorkerInv'
    BY <1>1, <2>2, <2>3 DEF WorkerInv
  <2>6. ExclusiveOwnership'
    <3>1. /\ \A i \in Holders : /\ flight'[i].slice = flight[i].slice
                                /\ i \in DOMAIN flight'
          /\ flight'[n].slice = nextSlice
      BY <1>4, <2>2, <2>3
    <3>2. \A j, k \in DOMAIN free' : free'[j] = free'[k] => j = k
      BY <1>2 DEF ExclusiveOwnership
    <3>3. \A i, j \in Holders' : flight'[i].slice = flight'[j].slice => i = j
      BY <1>4, <2>4, <3>1 DEF ExclusiveOwnership
    <3>4. \A j \in DOMAIN free' : free'[j] # nextSlice'
      BY <1>2 DEF ExclusiveOwnership
    <3>5. \A i \in Holders' : flight'[i].slice # nextSlice'
      BY <1>2, <1>4, <2>4, <3>1 DEF ExclusiveOwnership
    <3>6. \A i \in Holders', j \in DOMAIN free' : flight'[i].slice # free'[j]
      BY <1>2, <1>4, <2>4, <3>1 DEF ExclusiveOwnership
    <3> QED
      BY <3>2, <3>3, <3>4, <3>5, <3>6 DEF ExclusiveOwnership
  <2>7. ContentIntact'
    <3>1. \A i \in Holders' : mem'[flight'[i].slice] = flight'[i].packet
                              /\ fill'[flight'[i].slice] = 1
      BY <1>1, <1>3, <1>4, <2>2, <2>3, <2>4 DEF ContentIntact, InputInv
    <3>2. EnableStreamProcessor =>
            \A i \in DOMAIN flight' :
              flight'[i].stage \in {"processed", "ready", "writing"}
                => flight'[i].out = flight'[i].packet
      BY <2>2, <2>3 DEF ContentIntact
    <3>3. fill'[nextSlice'] = 0 /\ \A j \in DOMAIN free' : fill'[free'[j]] = 0
      BY <1>2, <1>3, <1>4 DEF ContentIntact
    <3> QED
      BY <3>1, <3>2, <3>3 DEF ContentIntact
  <2>8. CoverInv'
    <3> SUFFICES ASSUME EnableStreamProcessor, NEW s \in Slices
                 PROVE  \/ s = nextSlice'
                        \/ \E j \in DOMAIN free' : free'[j] = s
                        \/ \E i \in Holders' : flight'[i].slice = s
      BY DEF CoverInv
    <3>1. CASE s = nextSlice
      BY <2>2, <2>3, <2>4, <3>1
    <3>2. CASE \E j \in DOMAIN free : free[j] = s
      BY <1>2, <3>2
    <3>3. CASE \E i \in Holders : flight[i].slice = s
      BY <1>4, <2>2, <2>4, <3>3
    <3> QED
      BY <1>5, <3>1, <3>2, <3>3 DEF CoverInv
  <2> QED
    BY <1>1, <2>5, <2>6, <2>7, <2>8 DEF InputInv
<1>6. CASE status # "running"
  <2>1. flight' = flight /\ Holders' = Holders
    BY <1>6 DEF InputFilterReturn, Holders
  <2>2. WorkerInv'
    BY <1>1, <2>1 DEF WorkerInv
  <2>3. ExclusiveOwnership'
    BY <1>2, <1>4, <2>1 DEF ExclusiveOwnership
  <2>4. ContentIntact'
    BY <1>1, <1>2, <1>3, <1>4, <2>1 DEF ContentIntact
  <2> QED
    BY <1>1, <1>6, <2>2, <2>3, <2>4 DEF InputInv, CoverInv
<1> QED
  BY <1>5, <1>6

LEMMA GiveBackKeeps ==
    ASSUME SafeInv, TypeInv', NEW i \in DOMAIN flight, StreamProcessorReturn(i)
    PROVE  SafeInv'
<1> USE DEF SafeInv
<1> DEFINE it == [flight[i] EXCEPT !.stage = "ready"]
           s == flight[i].slice
<1>1. /\ flight[i] \in Item /\ s \in Slices
      /\ flight[i].stage = "processed"
      /\ UNCHANGED <<status, inputThread, inputPacket, nextSlice, mem>>
      /\ fill' = [fill EXCEPT ![s] = 0]
      /\ free' = Append(free, s)
  BY ItemTypes DEF StreamProcessorReturn, giveAllocated, inputVars
<1>2. /\ it \in Item /\ it.stage = "ready" /\ it.worker = flight[i].worker
      /\ it.slice = flight[i].slice /\ it.packet = flight[i].packet
      /\ it.out = flight[i].out
  BY <1>1 DEF Item, Stages
<1>3. flight' = [flight EXCEPT ![i] = it]
  BY DEF StreamProcessorReturn, SetStage
<1> HIDE DEF it
<1>4. /\ DOMAIN flight' = DOMAIN flight
      /\ flight'[i] = it
      /\ \A k \in DOMAIN flight : k # i => flight'[k] = flight[k]
  BY <1>2, <1>3, ChangeItem DEF TypeInv, TypeOK
<1>5. i \in Holders /\ HoldsSlice(flight[i]) /\ ~HoldsSlice(it)
  BY <1>1, <1>2 DEF Holders, HoldsSlice
<1>6. /\ Holders' = Holders \ {i}
      /\ \A k \in DOMAIN flight : flight'[k].slice = flight[k].slice
                                  /\ flight'[k].packet = flight[k].packet
  BY <1>2, <1>4, <1>5 DEF Holders
<1>7. /\ DOMAIN free' = DOMAIN free \cup {Len(free) + 1}
      /\ Len(free) + 1 \notin DOMAIN free
      /\ free'[Len(free) + 1] = s
      /\ \A j \in DOMAIN free : free'[j] = free[j]
  <2>1. free \in Seq(Slices) /\ free' \in Seq(Slices)
    BY DEF TypeInv, TypeOK
  <2>2. /\ DOMAIN free = 1..Len(free) /\ Len(free) \in Nat
        /\ Len(free') = Len(free) + 1 /\ DOMAIN free' = 1..Len(free')
        /\ free'[Len(free) + 1] = s
        /\ \A j \in 1..Len(free) : free'[j] = free[j]
    BY <1>1, <2>1, AppendProperties, LenProperties
  <2> QED
    BY <2>2
<1>8. /\ \A k \in Holders : k \in DOMAIN flight /\ flight[k].slice \in Slices
      /\ \A j \in DOMAIN free : free[j] \in Slices
  BY ItemTypes DEF Holders
<1>9. fill'[s] = 0 /\ \A x \in Slices : x # s => fill'[x] = fill[x]
  BY <1>1 DEF TypeInv, TypeOK
<1> HIDE DEF s
<1>10. \A k \in Holders : k # i => flight[k].slice # s
  BY <1>5 DEF s, ExclusiveOwnership
<1>11. \A j \in DOMAIN free : free[j] # s
  BY <1>5 DEF s, ExclusiveOwnership
<1>12. nextSlice # s /\ nextSlice \in Slices
  BY <1>5 DEF s, ExclusiveOwnership, TypeInv, TypeOK
<1>13. WorkerInv'
  <2>1. EnableStreamProcessor
    BY <1>1, PipelineAssumption DEF WorkerInv
  <2> QED
    BY <1>1, <1>2, <1>3, <1>5, <2>1, KeepWorkers
<1>14. ExclusiveOwnership'
  <2>1. \A j, k \in DOMAIN free' : free'[j] = free'[k] => j = k
    BY <1>7, <1>11 DEF ExclusiveOwnership
  <2>2. \A k, l \in Holders' : flight'[k].slice = flight'[l].slice => k = l
    BY <1>6, <1>8 DEF ExclusiveOwnership
  <2>3. \A j \in DOMAIN free' : free'[j] # nextSlice'
    BY <1>1, <1>7, <1>12 DEF ExclusiveOwnership
  <2>4. \A k \in Holders' : flight'[k].slice # nextSlice'
    BY <1>1, <1>6, <1>8 DEF ExclusiveOwnership
  <2>5. \A k \in Holders', j \in DOMAIN free' : flight'[k].slice # free'[j]
    BY <1>6, <1>7, <1>8, <1>10 DEF ExclusiveOwnership
  <2> QED
    BY <2>1, <2>2, <2>3, <2>4, <2>5 DEF ExclusiveOwnership
<1>15. ContentIntact'
  <2>1. \A k \in Holders' : mem'[flight'[k].slice] = flight'[k].packet
                            /\ fill'[flight'[k].slice] = 1
    BY <1>1, <1>6, <1>8, <1>9, <1>10 DEF ContentIntact
  <2>2. EnableStreamProcessor =>
          \A k \in DOMAIN flight' :
            flight'[k].stage \in {"processed", "ready", "writing"}
              => flight'[k].out = flight'[k].packet
    BY <1>1, <1>2, <1>4 DEF ContentIntact
  <2>3. fill'[nextSlice'] = 0 /\ \A j \in DOMAIN free' : fill'[free'[j]] = 0
    BY <1>1, <1>7, <1>8, <1>9, <1>11, <1>12 DEF ContentIntact
  <2> QED
    BY <2>1, <2>2, <2>3 DEF ContentIntact
<1>16. CoverInv'
  <2> SUFFICES ASSUME EnableStreamProcessor,
                      status = "running" \/ inputThread # NoThread,
                      NEW x \in Slices
               PROVE  \/ x = nextSlice'
                      \/ \E j \in DOMAIN free' : free'[j] = x
                      \/ \E k \in Holders' : flight'[k].slice = x
    BY <1>1 DEF CoverInv
  <2>1. CASE x = s
    BY <1>7, <2>1
  <2>2. CASE x # s
    BY <1>1, <1>6, <1>7, <1>8, <2>2 DEF CoverInv, s
  <2> QED
    BY <2>1, <2>2
<1> QED
  BY <1>1, <1>13, <1>14, <1>15, <1>16 DEF InputInv

LEMMA LeaveKeeps ==
    ASSUME SafeInv, TypeInv', NEW i \in DOMAIN flight,
           OutputReturn(i) \/ OutputThrows(i)
    PROVE  SafeInv'
<1> USE DEF SafeInv
<1>1. /\ i = 1 /\ flight[i].stage = "writing"
      /\ UNCHANGED <<inputThread, inputPacket, nextSlice, free, mem, fill>>
      /\ status' = "running" => status = "running"
  BY DEF OutputReturn, OutputThrows, TypeInv, inputVars, poolVars
<1>2. /\ DOMAIN flight' \subseteq Nat
      /\ \A k \in DOMAIN flight' : k + 1 \in DOMAIN flight
                                   /\ flight'[k] = flight[k + 1]
      /\ \A k \in DOMAIN flight : k \in Nat /\ (k # 1 => k - 1 \in DOMAIN flight')
  <2>1. flight' = SubSeq(flight, 1, 1 - 1) \o SubSeq(flight, 1 + 1, Len(flight))
    BY <1>1 DEF OutputReturn, OutputThrows, RemoveItem
  <2>2. DOMAIN flight = 1..Len(flight) /\ Len(flight) \in Nat
    BY ItemTypes
  <2>3. /\ DOMAIN flight' = 1..(Len(flight) - 1)
        /\ \A k \in DOMAIN flight' : k + 1 \in DOMAIN flight
                                     /\ flight'[k] = flight[k + 1]
    BY <1>1, <2>1, RemoveOldest DEF TypeInv, TypeOK
  <2> QED
    BY <2>2, <2>3
<1>3. /\ \A k \in Holders' : k \in Nat /\ k + 1 \in Holders
                             /\ flight'[k] = flight[k + 1]
      /\ \A k \in Holders : k \in Nat
                            /\ (k # 1 => k - 1 \in Holders' /\
                                         flight'[k - 1] = flight[k])
  BY <1>2 DEF Holders
<1>4. WorkerInv'
  <2>1. \A k, l \in DOMAIN flight' :
          flight'[k].worker = flight'[l].worker /\ flight'[k].worker # NoThread
            => k = l
    <3> SUFFICES ASSUME NEW k \in DOMAIN flight', NEW l \in DOMAIN flight',
                        flight'[k].worker = flight'[l].worker,
                        flight'[k].worker # NoThread
                 PROVE  k = l
      OBVIOUS
    <3>1. k + 1 = l + 1
      BY <1>2 DEF WorkerInv
    <3> QED
      BY <1>2, <3>1
  <2> QED
    BY <1>1, <1>2, <2>1 DEF WorkerInv
<1>5. ExclusiveOwnership'
  <2>1. \A k, l \in Holders' : flight'[k].slice = flight'[l].slice => k = l
    <3> SUFFICES ASSUME NEW k \in Holders', NEW l \in Holders',
                        flight'[k].slice = flight'[l].slice
                 PROVE  k = l
      OBVIOUS
    <3>1. k + 1 = l + 1
      BY <1>3 DEF ExclusiveOwnership
    <3> QED
      BY <1>3, <3>1
  <2> QED
    BY <1>1, <1>3, <2>1 DEF ExclusiveOwnership
<1>6. ContentIntact'
  BY <1>1, <1>2, <1>3 DEF ContentIntact
<1>7. CoverInv'
  <2> SUFFICES ASSUME EnableStreamProcessor,
                      status = "running" \/ inputThread # NoThread,
                      NEW x \in Slices
               PROVE  \/ x = nextSlice
                      \/ \E j \in DOMAIN free : free[j] = x
                      \/ \E k \in Holders' : flight'[k].slice = x
    BY <1>1 DEF CoverInv
  <2>1. 1 \notin Holders
    BY <1>1 DEF Holders, HoldsSlice
  <2> QED
    BY <1>3, <2>1 DEF CoverInv
<1> QED
  BY <1>1, <1>4, <1>5, <1>6, <1>7 DEF InputInv

\* Every step keeps SafeInv: one step of the proof per action.
LEMMA SafeNext == SafeInv /\ [Next]_vars => SafeInv'
<1> SUFFICES ASSUME SafeInv, [Next]_vars PROVE SafeInv'
  OBVIOUS
<1>0. /\ TypeInv /\ TypeInv'
      /\ \A k \in DOMAIN flight : flight[k] \in Item
  BY TypeNext, ItemTypes DEF SafeInv
<1>1. CASE (\E t \in Threads : InputFilterStart(t)) \/ InputFilterThrows
  BY <1>0, <1>1, EnterKeeps
<1>2. CASE InputFilterAborts
  BY <1>0, <1>2, KeepAll DEF InputFilterAborts, SafeInv
<1>3. CASE InputFilterRead \/ InputFilterReturn
  BY <1>0, <1>3, ReadKeeps, ReturnKeeps
<1>4. ASSUME NEW i \in DOMAIN flight, StreamProcessorStart(i) PROVE SafeInv'
  <2> DEFINE it == [flight[i] EXCEPT !.stage = "processing"]
  <2>1. /\ it \in Item /\ it.stage = "processing"
        /\ it.worker = flight[i].worker /\ it.slice = flight[i].slice
        /\ it.packet = flight[i].packet
    BY <1>0 DEF Item, Stages
  <2>2. /\ flight' = [flight EXCEPT ![i] = it]
        /\ flight[i].stage = "arrived" /\ EnableStreamProcessor
        /\ UNCHANGED <<status, inputThread, inputPacket, nextSlice, free, mem,
                       fill>>
    BY <1>4 DEF StreamProcessorStart, SetStage, inputVars, poolVars
  <2>3. HoldsSlice(it) /\ HoldsSlice(flight[i])
    BY <2>1, <2>2 DEF HoldsSlice
  <2> HIDE DEF it
  <2>4. flight[i].worker # NoThread
    BY <2>2, <2>3 DEF SafeInv, WorkerInv
  <2>5. ExclusiveOwnership' /\ ContentIntact' /\ InputInv' /\ CoverInv'
    BY <2>1, <2>2, <2>3, KeepSlice
  <2>6. WorkerInv'
    BY <2>1, <2>2, <2>4, KeepWorkers
  <2> QED
    BY <1>0, <2>5, <2>6 DEF SafeInv
<1>5. ASSUME NEW i \in DOMAIN flight, StreamProcessorProcess(i) PROVE SafeInv'
  <2> DEFINE s == flight[i].slice
             it == [flight[i] EXCEPT !.stage = "processed",
                      !.out = IF fill[s] = 1 THEN mem[s] ELSE NoPacket]
  <2>1. /\ it \in Item /\ it.stage = "processed"
        /\ it.worker = flight[i].worker /\ it.slice = flight[i].slice
        /\ it.packet = flight[i].packet
        /\ it.out = IF fill[s] = 1 THEN mem[s] ELSE NoPacket
    BY <1>0 DEF Item, Stages, TypeInv, TypeOK
  <2>2. /\ flight' = [flight EXCEPT ![i] = it]
        /\ flight[i].stage = "processing"
        /\ UNCHANGED <<status, inputThread, inputPacket, nextSlice, free, mem,
                       fill>>
    BY <1>5 DEF StreamProcessorProcess, inputVars, poolVars
  <2>3. HoldsSlice(it) /\ HoldsSlice(flight[i]) /\ i \in Holders
    BY <2>1, <2>2 DEF HoldsSlice, Holders
  <2>4. it.out = it.packet
    BY <2>1, <2>3 DEF SafeInv, ContentIntact
  <2> HIDE DEF it, s
  <2>5. EnableStreamProcessor /\ flight[i].worker # NoThread
    BY <2>2, <2>3, PipelineAssumption DEF SafeInv, WorkerInv
  <2>6. ExclusiveOwnership' /\ ContentIntact' /\ InputInv' /\ CoverInv'
    BY <2>1, <2>2, <2>3, <2>4, KeepSlice
  <2>7. WorkerInv'
    BY <2>1, <2>2, <2>5, KeepWorkers
  <2> QED
    BY <1>0, <2>6, <2>7 DEF SafeInv
<1>6. ASSUME NEW i \in DOMAIN flight, StreamProcessorReturn(i) PROVE SafeInv'
  BY <1>0, <1>6, GiveBackKeeps
<1>7. ASSUME NEW i \in DOMAIN flight, Park(i) PROVE SafeInv'
  <2> DEFINE it == [flight[i] EXCEPT !.worker = NoThread]
  <2>1. /\ it \in Item /\ it.worker = NoThread
        /\ it.stage = flight[i].stage /\ it.slice = flight[i].slice
        /\ it.packet = flight[i].packet /\ it.out = flight[i].out
    BY <1>0 DEF Item
  <2>2. /\ flight' = [flight EXCEPT ![i] = it]
        /\ flight[i].stage = BeforeOutput
        /\ UNCHANGED <<status, inputThread, inputPacket, nextSlice, free, mem,
                       fill>>
    BY <1>7 DEF Park, inputVars, poolVars
  <2> HIDE DEF it
  <2>3. HoldsSlice(it) <=> HoldsSlice(flight[i])
    BY <2>1 DEF HoldsSlice
  <2>4. EnableStreamProcessor => ~HoldsSlice(it) /\ it.stage = "ready"
    BY <2>1, <2>2 DEF BeforeOutput, HoldsSlice
  <2>5. ~EnableStreamProcessor => it.stage = "arrived"
    BY <2>1, <2>2 DEF BeforeOutput
  <2>6. EnableStreamProcessor /\ it.stage \in {"processed", "ready", "writing"}
          => it.out = it.packet
    BY <2>1 DEF SafeInv, ContentIntact
  <2>7. ExclusiveOwnership' /\ ContentIntact' /\ InputInv' /\ CoverInv'
    BY <2>1, <2>2, <2>3, <2>6, KeepSlice
  <2>8. WorkerInv'
    BY <2>1, <2>2, <2>4, <2>5, KeepWorkers
  <2> QED
    BY <1>0, <2>7, <2>8 DEF SafeInv
<1>8. ASSUME NEW i \in DOMAIN flight, NEW t \in Threads, OutputStart(i, t)
      PROVE  SafeInv'
  <2> DEFINE it == [flight[i] EXCEPT !.stage = "writing", !.worker = t]
  <2>1. /\ it \in Item /\ it.worker = t /\ it.stage = "writing"
        /\ it.slice = flight[i].slice
        /\ it.packet = flight[i].packet /\ it.out = flight[i].out
    <3>1. flight[i] \in Item /\ t \in Threads \cup {NoThread}
      BY <1>0
    <3> QED
      BY ONLY <3>1 DEF Item, Stages
  <2>2. /\ flight' = [flight EXCEPT ![i] = it]
        /\ flight[i].stage = BeforeOutput
        /\ flight[i].worker = t \/ Idle(t)
        /\ UNCHANGED <<status, inputThread, inputPacket, nextSlice, free, mem,
                       fill>>
    BY <1>8 DEF OutputStart, inputVars, poolVars
  <2> HIDE DEF it
  <2>3. HoldsSlice(it) <=> HoldsSlice(flight[i])
    BY <2>1, <2>2, PipelineAssumption DEF HoldsSlice, BeforeOutput
  <2>4. EnableStreamProcessor => it.out = it.packet
    BY <2>1, <2>2 DEF SafeInv, ContentIntact, BeforeOutput
  <2>5. ExclusiveOwnership' /\ ContentIntact' /\ InputInv' /\ CoverInv'
    BY <2>1, <2>2, <2>3, <2>4, KeepSlice
  <2>6. t # NoThread
    BY PipelineAssumption
  <2>7. WorkerInv'
    BY <2>1, <2>2, <2>6, KeepWorkers
  <2> QED
    BY <1>0, <2>5, <2>7 DEF SafeInv
<1>9. ASSUME NEW i \in DOMAIN flight, OutputReturn(i) \/ OutputThrows(i)
      PROVE  SafeInv'
  BY <1>0, <1>9, LeaveKeeps
<1>10. CASE Exit
  BY <1>0, <1>10, KeepAll DEF Exit, SafeInv
<1>11. CASE Restart
  <2>1. /\ inputThread' = NoThread /\ inputPacket' = NoPacket
        /\ flight' = <<>> /\ DOMAIN flight' = {}
        /\ free' \in Seq(Slices) /\ Len(free') = NSlices - 1
        /\ \A j \in 1..(NSlices - 1) : free'[j] = j + 1
    BY <1>11, BootTypes DEF Restart
  <2>2. nextSlice' = 1 /\ fill' = [s \in Slices |-> 0]
    BY <1>11 DEF Restart, Boot
  <2>3. DOMAIN free' = 1..(NSlices - 1) /\ NSlices \in Nat \ {0}
    BY <2>1, LenProperties, PipelineAssumption
  <2>4. \A s \in Slices : s = 1 \/ (s - 1 \in DOMAIN free' /\ free'[s - 1] = s)
    BY <2>1, <2>3 DEF Slices
  <2>5. \A j \in DOMAIN free' : free'[j] = j + 1 /\ free'[j] # 1
                                /\ free'[j] \in Slices
    BY <2>1, <2>3 DEF Slices
  <2>6. Holders' = {} /\ 1 \in Slices
    BY <2>1, <2>3 DEF Holders, Slices
  <2>7. ExclusiveOwnership'
    BY <2>2, <2>3, <2>5, <2>6 DEF ExclusiveOwnership
  <2>8. ContentIntact'
    BY <2>1, <2>2, <2>5, <2>6 DEF ContentIntact
  <2>9. CoverInv'
    BY <2>2, <2>4 DEF CoverInv
  <2> QED
    BY <1>0, <2>1, <2>7, <2>8, <2>9 DEF SafeInv, WorkerInv, InputInv
<1>12. CASE UNCHANGED vars
  BY <1>0, <1>12, KeepAll DEF vars, inputVars, poolVars, SafeInv
<1> QED
  BY <1>1, <1>2, <1>3, <1>4, <1>5, <1>6, <1>7, <1>8, <1>9, <1>10, <1>11, <1>12
     DEF Next, InputFilterNext, StreamProcessorNext, OutputNext

\* In every reachable state, for any number of workers, tokens and slices, a
\* slice has one owner.
THEOREM OwnershipSafety == Spec => []ExclusiveOwnership
<1>1. SafeInv => ExclusiveOwnership
  BY DEF SafeInv
<1> QED
  BY <1>1, SafeInit, SafeNext, PTL DEF Spec

\* In every reachable state a slice that is held has the packet that was read
\* into it, and a slice that is to be filled is empty.
THEOREM ContentSafety == Spec => []ContentIntact
<1>1. SafeInv => ContentIntact
  BY DEF SafeInv
<1> QED
  BY <1>1, SafeInit, SafeNext, PTL DEF Spec

-----------------------------------------------------------------------------
(* The input filter never waits for a slice                                *)

\* When the pool is empty every slice but the next one is held by an item, and
\* with the worker of the input filter there is a worker per slice.
LEMMA WorkerPerSlice ==
    ASSUME SafeInv, EnableStreamProcessor,
           inputThread # NoThread, free = <<>>,
           NEW T \in SUBSET Threads, inputThread \in T,
           \A i \in Holders : flight[i].worker \in T
    PROVE  NSlices <= Cardinality(T)
<1> USE DEF SafeInv
<1> DEFINE HolderOf(s) == CHOOSE i \in Holders : flight[i].slice = s
           f == [s \in Slices |-> IF s = nextSlice THEN inputThread
                                  ELSE flight[HolderOf(s)].worker]
<1>1. /\ DOMAIN free = {}
      /\ \A i \in Holders : i \in DOMAIN flight
                            /\ flight[i].worker # inputThread
  BY ItemTypes DEF Holders, WorkerInv
<1>2. \A s \in Slices : s # nextSlice =>
        HolderOf(s) \in Holders /\ flight[HolderOf(s)].slice = s
  BY <1>1 DEF CoverInv
<1> HIDE DEF HolderOf
<1>3. f \in [Slices -> T]
  BY <1>1, <1>2
<1>4. \A s, u \in Slices : f[s] = f[u] => s = u
  <2> SUFFICES ASSUME NEW s \in Slices, NEW u \in Slices, f[s] = f[u]
               PROVE  s = u
    OBVIOUS
  <2>1. CASE s # nextSlice /\ u # nextSlice
    <3>1. flight[HolderOf(s)].worker = flight[HolderOf(u)].worker
      BY <2>1
    <3>2. HolderOf(s) = HolderOf(u)
      BY <1>1, <1>2, <2>1, <3>1, PipelineAssumption DEF WorkerInv
    <3> QED
      BY <1>2, <2>1, <3>2
  <2>2. CASE s = nextSlice \/ u = nextSlice
    BY <1>1, <1>2, <2>2
  <2> QED
    BY <2>1, <2>2
<1>5. f \in Injection(Slices, T)
  BY <1>3, <1>4 DEF Injection, IsInjective
<1>6. IsFiniteSet(T)
  BY PipelineAssumption, FS_Subset
<1>7. Cardinality(Slices) <= Cardinality(T)
  BY <1>5, <1>6, FS_Injection
<1>8. Cardinality(Slices) = NSlices
  <2>1. NSlices \in Nat \ {0}
    BY PipelineAssumption
  <2>2. Cardinality(1..NSlices) = IF 1 > NSlices THEN 0 ELSE NSlices - 1 + 1
    BY <2>1, FS_Interval
  <2> QED
    BY <2>1, <2>2 DEF Slices
<1> QED
  BY <1>7, <1>8

\* The workers of items that hold slices are workers.
LEMMA HolderWorkers ==
    ASSUME SafeInv, EnableStreamProcessor
    PROVE  \A i \in Holders : i \in DOMAIN flight /\ flight[i].worker \in Threads
<1>1. \A i \in Holders : i \in DOMAIN flight /\ HoldsSlice(flight[i])
  BY DEF Holders
<1>2. \A i \in DOMAIN flight : flight[i].worker \in Threads \cup {NoThread}
  BY ItemTypes DEF Item, SafeInv
<1> QED
  BY <1>1, <1>2 DEF SafeInv, WorkerInv

\* The input filter only waits for a slice while a worker is inside it.
LEMMA WaitingWorker ==
    ASSUME SafeInv, AwaitsSlice PROVE inputThread # NoThread /\ free = <<>>
BY DEF SafeInv, TypeInv, AwaitsSlice

LEMMA NoWait == SafeInv => InputNeverWaits
<1> SUFFICES ASSUME SafeInv, EnableStreamProcessor,
                    NSlices > Cardinality(Threads),
                    inputThread # NoThread, free = <<>>
             PROVE  FALSE
  BY WaitingWorker DEF InputNeverWaits
<1>1. inputThread \in Threads
  BY DEF SafeInv, TypeInv, TypeOK
<1>2. NSlices <= Cardinality(Threads)
  BY <1>1, HolderWorkers, WorkerPerSlice
<1>3. Cardinality(Threads) \in Nat /\ NSlices \in Nat
  BY PipelineAssumption, FS_CardinalityType
<1> QED
  BY <1>2, <1>3

\* With more slices than workers, whatever the two numbers are, the input
\* filter finds a free slice whenever it needs one.
THEOREM InputNeverBlocks == Spec => []InputNeverWaits
<1> QED
  BY NoWait, SafeInit, SafeNext, PTL DEF Spec

-----------------------------------------------------------------------------
(* The pipeline implements the ordered channel                             *)

PacketsOf(items) == [i \in DOMAIN items |-> items[i].packet]

LEMMA PacketsOfSeq ==
    ASSUME NEW s \in Seq(Item)
    PROVE  PacketsOf(s) \in Seq(Packets) /\ Len(PacketsOf(s)) = Len(s)
<1>1. Len(s) \in Nat /\ DOMAIN s = 1..Len(s) /\ \A k \in 1..Len(s) : s[k] \in Item
  BY LenProperties
<1>2. \A k \in 1..Len(s) : s[k].packet \in Packets
  BY <1>1 DEF Item
<1> QED
  BY <1>1, <1>2 DEF PacketsOf

LEMMA ChannelInitial == Init => Channel!ChannelInit
<1> SUFFICES ASSUME Init PROVE Channel!ChannelInit
  OBVIOUS
<1>1. status = "running" /\ flight = <<>> /\ written = NoPacket
  BY DEF Init, Boot
<1>2. [i \in DOMAIN flight |-> flight[i].packet] = <<>>
  BY <1>1
<1> QED
  BY <1>1, <1>2 DEF Channel!ChannelInit

\* Each step of the pipeline is a step of the channel, or changes nothing
\* that can be seen of it.
LEMMA ChannelStep ==
    SafeInv /\ [Next]_vars => [Channel!ChannelNext]_(Channel!chanVars)
<1> SUFFICES ASSUME SafeInv, [Next]_vars
             PROVE  [Channel!ChannelNext]_(Channel!chanVars)
  OBVIOUS
<1> DEFINE up == status = "running"
           queue == [i \in DOMAIN flight |-> flight[i].packet]
<1>0. /\ queue \in Seq(Packets) /\ Len(queue) = Len(flight)
      /\ DOMAIN flight = 1..Len(flight) /\ Len(flight) \in Nat
      /\ \A k \in DOMAIN flight : flight[k] \in Item
      /\ flight \in Seq(Item)
      /\ DOMAIN queue = DOMAIN flight
  BY PacketsOfSeq, ItemTypes DEF SafeInv, TypeInv, TypeOK, PacketsOf
<1> USE DEF Channel!chanVars, Channel!ChannelNext
\* A step that leaves the packets and their order alone is a stutter or, if
\* the process fails in it, the failure.
<1>1. ASSUME queue' = queue, written' = written, up' = up \/ ~up'
      PROVE  [Channel!ChannelNext]_(Channel!chanVars)
  BY <1>1 DEF Channel!Fail
<1>2. ASSUME NEW i \in DOMAIN flight, NEW it \in Item,
             flight' = [flight EXCEPT ![i] = it],
             it.packet = flight[i].packet,
             status' = status, written' = written
      PROVE  [Channel!ChannelNext]_(Channel!chanVars)
  <2>1. /\ DOMAIN flight' = DOMAIN flight
        /\ \A k \in DOMAIN flight : flight'[k].packet = flight[k].packet
    BY <1>0, <1>2, ChangeItem
  <2> QED
    BY <1>1, <1>2, <2>1
<1>3. CASE \/ \E t \in Threads : InputFilterStart(t)
           \/ InputFilterRead \/ InputFilterThrows \/ InputFilterAborts
  BY <1>1, <1>3 DEF InputFilterStart, InputFilterRead, InputFilterThrows,
                    InputFilterAborts
<1>4. CASE InputFilterReturn
  <2>1. CASE status = "running"
    <3>1. /\ inputPacket \in Packets /\ Len(flight) < MaxTokens
          /\ nextSlice \in Slices /\ inputThread \in Threads
      BY <1>4, PipelineAssumption
         DEF InputFilterReturn, SafeInv, TypeInv, TypeOK
    <3>2. NewItem \in Item /\ NewItem.packet = inputPacket
      BY <3>1 DEF NewItem, Item, Stages
    <3>3. flight' = Append(flight, NewItem) /\ UNCHANGED <<status, written>>
      BY <1>4, <2>1 DEF InputFilterReturn
    <3>4. /\ flight' \in Seq(Item)
          /\ DOMAIN flight' = DOMAIN flight \cup {Len(flight) + 1}
          /\ Len(flight') = Len(flight) + 1
          /\ flight'[Len(flight) + 1].packet = inputPacket
          /\ \A k \in DOMAIN flight : flight'[k] = flight[k]
      BY <1>0, <3>2, <3>3, AppendItem
    <3>5. queue' \in Seq(Packets) /\ Len(queue') = Len(queue) + 1
      BY <1>0, <3>4, PacketsOfSeq DEF PacketsOf
    <3>6. \A k \in 1..Len(queue') : queue'[k] = Append(queue, inputPacket)[k]
      BY <1>0, <3>1, <3>4, <3>5, AppendProperties
    <3>7. /\ Append(queue, inputPacket) \in Seq(Packets)
          /\ Len(Append(queue, inputPacket)) = Len(queue')
      BY <1>0, <3>1, <3>5, AppendProperties
    <3>8. queue' = Append(queue, inputPacket)
      BY <3>5, <3>6, <3>7, SeqEqual
    <3>9. \E p \in Packets : Channel!Accept(p)
      BY <1>0, <2>1, <3>1, <3>3, <3>8 DEF Channel!Accept
    <3> QED
      BY <3>9
  <2>2. CASE status # "running"
    BY <1>1, <1>4, <2>2 DEF InputFilterReturn
  <2> QED
    BY <2>1, <2>2
<1>5. ASSUME NEW i \in DOMAIN flight, StreamProcessorStart(i)
      PROVE  [Channel!ChannelNext]_(Channel!chanVars)
  <2> DEFINE it == [flight[i] EXCEPT !.stage = "processing"]
  <2>1. it \in Item /\ it.packet = flight[i].packet
    BY <1>0 DEF Item, Stages
  <2> QED
    BY <1>2, <1>5, <2>1 DEF StreamProcessorStart, SetStage
<1>6. ASSUME NEW i \in DOMAIN flight, StreamProcessorProcess(i)
      PROVE  [Channel!ChannelNext]_(Channel!chanVars)
  <2> DEFINE s == flight[i].slice
             it == [flight[i] EXCEPT !.stage = "processed",
                      !.out = IF fill[s] = 1 THEN mem[s] ELSE NoPacket]
  <2>1. it \in Item /\ it.packet = flight[i].packet
    BY <1>0 DEF Item, Stages, SafeInv, TypeInv, TypeOK
  <2> QED
    BY <1>2, <1>6, <2>1 DEF StreamProcessorProcess
<1>7. ASSUME NEW i \in DOMAIN flight, StreamProcessorReturn(i)
      PROVE  [Channel!ChannelNext]_(Channel!chanVars)
  <2> DEFINE it == [flight[i] EXCEPT !.stage = "ready"]
  <2>1. it \in Item /\ it.packet = flight[i].packet
    BY <1>0 DEF Item, Stages
  <2> QED
    BY <1>2, <1>7, <2>1 DEF StreamProcessorReturn, SetStage
<1>8. ASSUME NEW i \in DOMAIN flight, Park(i)
      PROVE  [Channel!ChannelNext]_(Channel!chanVars)
  <2> DEFINE it == [flight[i] EXCEPT !.worker = NoThread]
  <2>1. it \in Item /\ it.packet = flight[i].packet
    BY <1>0 DEF Item
  <2> QED
    BY <1>2, <1>8, <2>1 DEF Park
<1>9. ASSUME NEW i \in DOMAIN flight, NEW t \in Threads, OutputStart(i, t)
      PROVE  [Channel!ChannelNext]_(Channel!chanVars)
  <2> DEFINE it == [flight[i] EXCEPT !.stage = "writing", !.worker = t]
  <2>1. it \in Item /\ it.packet = flight[i].packet
    <3>1. flight[i] \in Item /\ t \in Threads \cup {NoThread}
      BY <1>0
    <3> QED
      BY ONLY <3>1 DEF Item, Stages
  <2> QED
    BY <1>2, <1>9, <2>1 DEF OutputStart
<1>10. ASSUME NEW i \in DOMAIN flight, OutputReturn(i) \/ OutputThrows(i)
       PROVE  [Channel!ChannelNext]_(Channel!chanVars)
  <2>1. i = 1 /\ flight[i].stage = "writing"
    BY <1>10 DEF OutputReturn, OutputThrows, SafeInv, TypeInv
  <2>2. flight' = SubSeq(flight, 1, 1 - 1) \o SubSeq(flight, 1 + 1, Len(flight))
    BY <1>10, <2>1 DEF OutputReturn, OutputThrows, RemoveItem
  <2>3. /\ flight' \in Seq(Item) /\ Len(flight') = Len(flight) - 1
        /\ DOMAIN flight' = 1..(Len(flight) - 1)
        /\ \A k \in DOMAIN flight' : k + 1 \in DOMAIN flight
                                     /\ flight'[k] = flight[k + 1]
    BY <1>0, <2>1, <2>2, RemoveOldest
  <2>4. queue # <<>> /\ Head(queue) = flight[1].packet
    BY <1>0, <2>1
  <2>5. queue' \in Seq(Packets) /\ Len(queue') = Len(queue) - 1
    BY <1>0, <2>3, PacketsOfSeq DEF PacketsOf
  <2>6. /\ Tail(queue) \in Seq(Packets) /\ Len(Tail(queue)) = Len(queue')
        /\ \A k \in 1..Len(queue') : Tail(queue)[k] = queue[k + 1]
    BY <1>0, <2>4, <2>5, HeadTailProperties
  <2>7. \A k \in 1..Len(queue') : queue'[k] = queue[k + 1]
    BY <1>0, <2>3, <2>5
  <2>8. queue' = Tail(queue)
    BY <2>5, <2>6, <2>7, SeqEqual
  <2>9. OutputContent(flight[i]) = flight[1].packet
    <3>1. CASE EnableStreamProcessor
      BY <2>1, <3>1 DEF OutputContent, SafeInv, ContentIntact
    <3>2. CASE ~EnableStreamProcessor
      <4>1. i \in Holders
        BY <2>1, <3>2 DEF Holders, HoldsSlice
      <4> QED
        BY <2>1, <3>2, <4>1 DEF OutputContent, SafeInv, ContentIntact
    <3> QED
      BY <3>1, <3>2
  <2>10. CASE OutputReturn(i)
    <3>1. Channel!Deliver
      BY <2>4, <2>8, <2>9, <2>10 DEF OutputReturn, Channel!Deliver
    <3> QED
      BY <3>1
  <2>11. CASE OutputThrows(i)
    <3>1. Channel!Fail
      BY <2>4, <2>8, <2>11 DEF OutputThrows, Channel!Fail
    <3> QED
      BY <3>1
  <2> QED
    BY <1>10, <2>10, <2>11
<1>11. CASE Exit
  BY <1>1, <1>11 DEF Exit
<1>12. CASE Restart
  <2>1. status = "exited" /\ status' = "running" /\ flight' = <<>>
        /\ written' = written
    BY <1>12 DEF Restart, Boot
  <2>2. queue' = <<>>
    BY <2>1
  <2> QED
    BY <2>1, <2>2 DEF Channel!Reset
<1>13. CASE UNCHANGED vars
  BY <1>1, <1>13 DEF vars
<1> QED
  BY <1>3, <1>4, <1>5, <1>6, <1>7, <1>8, <1>9, <1>10, <1>11, <1>12, <1>13
     DEF Next, InputFilterNext, StreamProcessorNext, OutputNext

\* For any number of workers, tokens and slices the pipeline of threads and
\* recycled buffers implements the bounded FIFO channel.
THEOREM PipelineIsChannel == Spec => IsOrderedChannel
<1> QED
  BY ChannelInitial, ChannelStep, SafeInit, SafeNext, PTL
     DEF Spec, IsOrderedChannel, Channel!ChannelSpec

-----------------------------------------------------------------------------
(* What the input filter waits for comes back, also after a failure        *)

\* No worker is the only one.
TwoWorkers == \A t \in Threads : \E u \in Threads : u # t

\* A worker is in the output filter with every item that is being written, and
\* an item was parked because another worker had an older one.
WritingInv ==
    \A i \in DOMAIN flight :
        /\ flight[i].stage = "writing" => flight[i].worker # NoThread
        /\ flight[i].worker = NoThread => TwoWorkers

\* A worker that is inside the input filter when another filter throws will
\* find a slice: the worker that throws holds none.
SpareInv ==
    EnableStreamProcessor /\ NSlices >= Cardinality(Threads)
    /\ status = "cancelled" /\ inputThread # NoThread => free # <<>>

ReturnInv == SafeInv /\ WritingInv /\ SpareInv

LEMMA ReturnInit == Init => ReturnInv
<1> SUFFICES ASSUME Init PROVE ReturnInv
  OBVIOUS
<1>1. status = "running" /\ DOMAIN flight = {}
  BY BootTypes DEF Init
<1> QED
  BY <1>1, SafeInit DEF ReturnInv, WritingInv, SpareInv

\* One item changes.
LEMMA ChangeKeepsWriting ==
    ASSUME ReturnInv, NEW i \in DOMAIN flight, NEW it \in Item,
           flight' = [flight EXCEPT ![i] = it],
           it.stage = "writing" => it.worker # NoThread,
           it.worker = NoThread => TwoWorkers
    PROVE  WritingInv'
BY ChangeItem DEF ReturnInv, SafeInv, TypeInv, TypeOK, WritingInv

\* An item that is in the output filter is in no other.
LEMMA WritingStep ==
    ASSUME ReturnInv, [Next]_vars PROVE WritingInv'
<1>0. /\ flight \in Seq(Item) /\ DOMAIN flight = 1..Len(flight)
      /\ \A k \in DOMAIN flight : flight[k] \in Item
  BY ItemTypes DEF ReturnInv, SafeInv, TypeInv, TypeOK
<1>1. CASE InputFilterReturn
  <2>1. CASE status = "running"
    <3>1. /\ inputPacket \in Packets /\ nextSlice \in Slices
          /\ inputThread \in Threads
      BY <1>1, PipelineAssumption
         DEF InputFilterReturn, ReturnInv, SafeInv, TypeInv, TypeOK
    <3>2. /\ NewItem \in Item /\ NewItem.stage = "arrived"
          /\ NewItem.worker # NoThread
      BY <3>1, PipelineAssumption DEF NewItem, Item, Stages
    <3>3. flight' = Append(flight, NewItem)
      BY <1>1, <2>1 DEF InputFilterReturn
    <3> QED
      BY <1>0, <3>2, <3>3, AppendItem DEF ReturnInv, WritingInv
  <2>2. CASE status # "running"
    BY <1>1, <2>2 DEF InputFilterReturn, ReturnInv, WritingInv
  <2> QED
    BY <2>1, <2>2
<1>2. ASSUME NEW i \in DOMAIN flight,
             StreamProcessorStart(i) \/ StreamProcessorReturn(i)
      PROVE  WritingInv'
  <2> DEFINE it(stage) == [flight[i] EXCEPT !.stage = stage]
  <2>1. \E stage \in {"processing", "ready"} : flight' = [flight EXCEPT ![i] = it(stage)]
    BY <1>2 DEF StreamProcessorStart, StreamProcessorReturn, SetStage
  <2>2. \A stage \in {"processing", "ready"} :
          /\ it(stage) \in Item /\ it(stage).stage # "writing"
          /\ it(stage).worker = flight[i].worker
    BY <1>0 DEF Item, Stages
  <2>3. flight[i].worker = NoThread => TwoWorkers
    BY DEF ReturnInv, WritingInv
  <2> QED
    BY <2>1, <2>2, <2>3, ChangeKeepsWriting
<1>3. ASSUME NEW i \in DOMAIN flight, StreamProcessorProcess(i)
      PROVE  WritingInv'
  <2> DEFINE s == flight[i].slice
             it == [flight[i] EXCEPT !.stage = "processed",
                      !.out = IF fill[s] = 1 THEN mem[s] ELSE NoPacket]
  <2>1. /\ it \in Item /\ it.stage = "processed"
        /\ it.worker = flight[i].worker
    BY <1>0 DEF Item, Stages, ReturnInv, SafeInv, TypeInv, TypeOK
  <2>2. flight' = [flight EXCEPT ![i] = it]
    BY <1>3 DEF StreamProcessorProcess
  <2>3. flight[i].worker = NoThread => TwoWorkers
    BY DEF ReturnInv, WritingInv
  <2> HIDE DEF it
  <2> QED
    BY <2>1, <2>2, <2>3, ChangeKeepsWriting
<1>4. ASSUME NEW i \in DOMAIN flight, Park(i) PROVE WritingInv'
  <2> DEFINE it == [flight[i] EXCEPT !.worker = NoThread]
  <2>1. it \in Item /\ it.stage = flight[i].stage
    BY <1>0 DEF Item
  <2>2. /\ flight' = [flight EXCEPT ![i] = it]
        /\ flight[i].stage # "writing"
    BY <1>4 DEF Park, BeforeOutput
  <2>3. TwoWorkers
    <3>1. /\ i # 1 /\ 1 \in DOMAIN flight
          /\ flight[i].worker \in Threads
          /\ flight[1].worker \in Threads \cup {NoThread}
      BY <1>0, <1>4 DEF Park, MayEnterOutput, Item
    <3>2. CASE flight[1].worker = NoThread
      BY <3>1, <3>2 DEF ReturnInv, WritingInv
    <3>3. CASE flight[1].worker \in Threads
      <4>1. flight[1].worker # flight[i].worker
        BY <3>1, <3>3, PipelineAssumption DEF ReturnInv, SafeInv, WorkerInv
      <4> QED
        BY <3>1, <3>3, <4>1 DEF TwoWorkers
    <3> QED
      BY <3>1, <3>2, <3>3
  <2> HIDE DEF it
  <2> QED
    BY <2>1, <2>2, <2>3, ChangeKeepsWriting
<1>5. ASSUME NEW i \in DOMAIN flight, NEW t \in Threads, OutputStart(i, t)
      PROVE  WritingInv'
  <2> DEFINE it == [flight[i] EXCEPT !.stage = "writing", !.worker = t]
  <2>1. it \in Item /\ it.worker = t
    <3>1. flight[i] \in Item /\ t \in Threads \cup {NoThread}
      BY <1>0
    <3> QED
      BY ONLY <3>1 DEF Item, Stages
  <2>2. flight' = [flight EXCEPT ![i] = it] /\ t # NoThread
    BY <1>5, PipelineAssumption DEF OutputStart
  <2> HIDE DEF it
  <2> QED
    BY <2>1, <2>2, ChangeKeepsWriting
<1>6. ASSUME NEW i \in DOMAIN flight, OutputReturn(i) \/ OutputThrows(i)
      PROVE  WritingInv'
  <2>1. i = 1 /\ RemoveItem(i)
    BY <1>6 DEF OutputReturn, OutputThrows, ReturnInv, SafeInv, TypeInv
  <2> QED
    BY <1>0, <2>1, RemoveOldest DEF RemoveItem, ReturnInv, WritingInv
<1>7. CASE Restart
  <2>1. DOMAIN flight' = {}
    BY <1>7, BootTypes DEF Restart
  <2> QED
    BY <2>1 DEF WritingInv
<1>8. ASSUME UNCHANGED flight PROVE WritingInv'
  BY <1>8 DEF ReturnInv, WritingInv
<1> QED
  BY <1>1, <1>2, <1>3, <1>4, <1>5, <1>6, <1>7, <1>8
     DEF Next, InputFilterNext, StreamProcessorNext, OutputNext, Exit, vars,
         InputFilterStart, InputFilterRead, InputFilterThrows,
         InputFilterAborts

\* The output filter throws while a worker is inside the input filter: with an
\* empty pool there would be a worker per slice besides the one that throws.
LEMMA ThrowLeavesSlice ==
    ASSUME ReturnInv, EnableStreamProcessor, NSlices >= Cardinality(Threads),
           NEW i \in DOMAIN flight, flight[i].stage = "writing",
           inputThread # NoThread
    PROVE  free # <<>>
<1> SUFFICES ASSUME free = <<>> PROVE FALSE
  OBVIOUS
<1> DEFINE w == flight[i].worker
           T == Threads \ {w}
<1>1. w \in Threads /\ w # inputThread /\ inputThread \in Threads
  <2>1. w # NoThread /\ w \in Threads \cup {NoThread}
    BY ItemTypes DEF ReturnInv, WritingInv, SafeInv, Item
  <2> QED
    BY <2>1 DEF ReturnInv, SafeInv, WorkerInv, TypeInv, TypeOK
<1>2. \A k \in Holders : flight[k].worker \in T
  <2> SUFFICES ASSUME NEW k \in Holders PROVE flight[k].worker \in T
    OBVIOUS
  <2>1. k \in DOMAIN flight /\ flight[k].worker \in Threads
    BY HolderWorkers DEF ReturnInv
  <2>2. k # i
    BY DEF Holders, HoldsSlice
  <2> QED
    BY <1>1, <2>1, <2>2, PipelineAssumption DEF ReturnInv, SafeInv, WorkerInv
<1>3. NSlices <= Cardinality(T)
  BY <1>1, <1>2, WorkerPerSlice DEF ReturnInv
<1>4. /\ Cardinality(T) = Cardinality(Threads) - 1
      /\ Cardinality(Threads) \in Nat /\ NSlices \in Nat
  <2>1. IsFiniteSet(Threads) /\ NSlices \in Nat
    BY PipelineAssumption DEF PipelineAssumption
  <2>2. Cardinality(T) = Cardinality(Threads) - 1
    BY <1>1, <2>1, FS_RemoveElement
  <2> QED
    BY <2>1, <2>2, FS_CardinalityType
<1> QED
  BY <1>3, <1>4

LEMMA SpareStep ==
    ASSUME ReturnInv, [Next]_vars PROVE SpareInv'
<1> SUFFICES ASSUME EnableStreamProcessor, NSlices >= Cardinality(Threads),
                    status' = "cancelled", inputThread' # NoThread
             PROVE  free' # <<>>
  BY DEF SpareInv
<1>1. ASSUME UNCHANGED <<status, inputThread, free>> PROVE free' # <<>>
  BY <1>1 DEF ReturnInv, SpareInv
<1>2. CASE InputFilterNext
  BY <1>1, <1>2 DEF InputFilterNext, InputFilterStart, InputFilterRead,
                    InputFilterThrows, InputFilterAborts, InputFilterReturn,
                    MayStartInput, inputVars, poolVars
<1>3. ASSUME NEW i \in DOMAIN flight, StreamProcessorNext(i) PROVE free' # <<>>
  <2>1. CASE StreamProcessorReturn(i)
    <3>1. free \in Seq(Slices) /\ flight[i].slice \in Slices
      BY ItemTypes DEF ReturnInv, SafeInv, TypeInv, TypeOK
    <3>2. free' = Append(free, flight[i].slice)
      BY <2>1 DEF StreamProcessorReturn, giveAllocated
    <3> QED
      BY <3>1, <3>2, AppendProperties, EmptySeq
  <2>2. CASE StreamProcessorStart(i) \/ StreamProcessorProcess(i)
    BY <1>1, <2>2 DEF StreamProcessorStart, StreamProcessorProcess, inputVars,
                      poolVars
  <2> QED
    BY <1>3, <2>1, <2>2 DEF StreamProcessorNext
<1>4. ASSUME NEW i \in DOMAIN flight, OutputNext(i) PROVE free' # <<>>
  <2>1. CASE OutputThrows(i)
    BY <2>1, ThrowLeavesSlice DEF OutputThrows, inputVars, poolVars
  <2>2. CASE Park(i) \/ OutputReturn(i) \/ \E t \in Threads : OutputStart(i, t)
    BY <1>1, <2>2 DEF Park, OutputReturn, OutputStart, inputVars, poolVars
  <2> QED
    BY <1>4, <2>1, <2>2 DEF OutputNext
<1>5. CASE Exit \/ Restart
  BY <1>5 DEF Exit, Restart, Boot
<1>6. CASE UNCHANGED vars
  BY <1>1, <1>6 DEF vars, inputVars, poolVars
<1> QED
  BY <1>2, <1>3, <1>4, <1>5, <1>6 DEF Next

LEMMA ReturnNext == ReturnInv /\ [Next]_vars => ReturnInv'
BY SafeNext, WritingStep, SpareStep DEF ReturnInv

\* A slice that is neither free nor the next one is held, and a holder of the
\* running pipeline goes on; after a failure the pool is not empty.
LEMMA HolderGoesOn == ReturnInv /\ EnableStreamProcessor => SliceComesBack
<1> SUFFICES ASSUME ReturnInv, EnableStreamProcessor,
                    NSlices >= Cardinality(Threads), NSlices > 1,
                    status # "exited", inputThread # NoThread, free = <<>>
             PROVE  \E i \in Holders : /\ status = "running" \/ InBody(flight[i])
                                       /\ flight[i].stage # "writing"
  BY WaitingWorker DEF SliceComesBack, ReturnInv
<1>1. status = "running"
  BY DEF ReturnInv, SpareInv, SafeInv, TypeInv, TypeOK
<1>2. PICK s \in Slices : s # nextSlice
  <2>1. 1 \in Slices /\ 2 \in Slices
    BY PipelineAssumption DEF Slices
  <2> QED
    BY <2>1
<1>3. PICK i \in Holders : flight[i].slice = s
  BY <1>1, <1>2 DEF ReturnInv, SafeInv, CoverInv
<1>4. flight[i].stage # "writing"
  BY DEF Holders, HoldsSlice
<1> QED
  BY <1>1, <1>3, <1>4

\* With a slice per worker, for any number of both, the input filter never
\* waits for a slice that nobody will give back.
THEOREM SliceSafety == EnableStreamProcessor => (Spec => []SliceComesBack)
<1> SUFFICES ASSUME EnableStreamProcessor PROVE Spec => []SliceComesBack
  OBVIOUS
<1>1. ReturnInv => SliceComesBack
  BY HolderGoesOn
<1> QED
  BY <1>1, ReturnInit, ReturnNext, PTL DEF Spec

-----------------------------------------------------------------------------
(* The workers never all wait for each other                               *)

\* When the pool of the running pipeline is empty an item holds a slice, and
\* the worker that carries it goes on.
LEMMA EmptyPoolGoesOn ==
    ASSUME ReturnInv, EnableStreamProcessor, NSlices > 1,
           status = "running", free = <<>>
    PROVE  \E i \in DOMAIN flight : CanGoOn(i)
<1>1. PICK s \in Slices : s # nextSlice
  <2>1. 1 \in Slices /\ 2 \in Slices
    BY PipelineAssumption DEF Slices
  <2> QED
    BY <2>1
<1>2. PICK i \in Holders : flight[i].slice = s
  <2>1. DOMAIN free = {}
    OBVIOUS
  <2> QED
    BY <1>1, <2>1 DEF ReturnInv, SafeInv, CoverInv
<1>3. i \in DOMAIN flight /\ flight[i].worker # NoThread
  BY DEF Holders, ReturnInv, SafeInv, WorkerInv
<1> QED
  BY <1>3 DEF CanGoOn

\* The oldest item goes on, or a worker is with another one: if one is blocked
\* in the input filter and the oldest item is parked there is a second worker.
LEMMA OldestGoesOn ==
    ASSUME ReturnInv, EnableStreamProcessor, status = "running", flight # <<>>
    PROVE  \E i \in DOMAIN flight : CanGoOn(i)
<1>1. 1 \in DOMAIN flight /\ flight[1] \in Item
  <2>1. flight \in Seq(Item)
    BY DEF ReturnInv, SafeInv, TypeInv, TypeOK
  <2> QED
    BY <2>1, EmptySeq
<1>2. CASE flight[1].worker # NoThread
  BY <1>1, <1>2 DEF CanGoOn
<1>3. CASE flight[1].worker = NoThread /\ \E t \in Threads : Idle(t)
  <2>1. ~HoldsSlice(flight[1]) /\ flight[1].stage # "writing"
    BY <1>1, <1>3 DEF ReturnInv, SafeInv, WorkerInv, WritingInv
  <2>2. flight[1].stage = BeforeOutput
    BY <1>1, <2>1 DEF HoldsSlice, Item, Stages, BeforeOutput
  <2> QED
    BY <1>1, <1>3, <2>2 DEF CanGoOn, MayEnterOutput
<1>4. CASE flight[1].worker = NoThread /\ \A t \in Threads : ~Idle(t)
  <2>1. TwoWorkers
    BY <1>1, <1>4 DEF ReturnInv, WritingInv
  <2>2. PICK u \in Threads : u # inputThread
    BY <2>1, PipelineAssumption DEF TwoWorkers
  <2>3. \E i \in DOMAIN flight : flight[i].worker = u
    BY <1>4, <2>2 DEF Idle
  <2> QED
    BY <2>3, PipelineAssumption DEF CanGoOn
<1> QED
  BY <1>2, <1>3, <1>4

LEMMA SomeoneGoesOn == ReturnInv => NeverStuck
<1> SUFFICES ASSUME ReturnInv, EnableStreamProcessor, NSlices > 1,
                    \/ status = "running"
                         /\ (flight # <<>> \/ inputPacket # NoPacket)
                    \/ /\ status = "cancelled" /\ inputPacket # NoPacket
                       /\ NSlices >= Cardinality(Threads)
             PROVE  \/ inputPacket # NoPacket /\ free # <<>>
                    \/ \E i \in DOMAIN flight : CanGoOn(i)
  BY DEF NeverStuck
<1>1. CASE status = "running" /\ flight # <<>>
  BY <1>1, OldestGoesOn
<1>2. CASE status = "running" /\ inputPacket # NoPacket
  BY <1>2, EmptyPoolGoesOn
<1>3. CASE status = "cancelled" /\ inputPacket # NoPacket
  BY <1>3 DEF ReturnInv, SpareInv, SafeInv, TypeInv
<1> QED
  BY <1>1, <1>2, <1>3

\* For any number of workers, tokens and slices, if there are two: as long as a
\* packet is in flight or the input waits for a slice, some worker can go on.
THEOREM ProgressSafety == Spec => []NeverStuck
<1> QED
  BY SomeoneGoesOn, ReturnInit, ReturnNext, PTL DEF Spec
=============================================================================
