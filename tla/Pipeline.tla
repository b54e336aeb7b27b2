------------------------------ MODULE Pipeline ------------------------------
(***************************************************************************)
(* The packet pipeline of scdaq: the pool of preallocated slices, the      *)
(* serial input filter, the parallel stream processor and the serial       *)
(* output filter, run by a fixed number of TBB worker threads.             *)
(*                                                                         *)
(* A slice is named by its number; its memory holds one packet.  A packet  *)
(* that left the input filter is an item of `flight', in token order.  An  *)
(* item keeps the worker that carries it until the worker must park it in  *)
(* front of the serial output filter.                                      *)
(***************************************************************************)
EXTENDS Naturals, Sequences, FiniteSets

CONSTANTS
    Threads,                \* the worker threads (scdaq.conf: threads)
    TokensPerThread,        \* 4 in run_pipeline
    NSlices,                \* scdaq.conf: dma_number_of_packet_buffers
    Packets,                \* the contents a DMA packet can have
    EnableStreamProcessor,  \* scdaq.conf: enable_stream_processor
    NoThread,
    NoPacket

ASSUME PipelineAssumption ==
    /\ IsFiniteSet(Threads) /\ Threads # {}
    /\ TokensPerThread \in Nat \ {0}
    /\ NSlices \in Nat \ {0}
    /\ EnableStreamProcessor \in BOOLEAN
    /\ NoThread \notin Threads
    /\ NoPacket \notin Packets

VARIABLES
    status,         \* "running", "cancelled" by an exception, or "exited"
    inputThread,    \* the worker inside InputFilter::operator()
    inputPacket,    \* the packet that worker read; none while it reads
    nextSlice,      \* InputFilter::nextSlice_
    free,           \* Slice::free_slices, a FIFO queue
    mem,            \* what the memory of each slice holds
    fill,           \* packets between begin() and end() of each slice
    flight,         \* the items between input and the end of the pipeline
    written         \* the packet the output filter wrote last

poolVars == <<nextSlice, free, mem, fill>>
inputVars == <<inputThread, inputPacket>>
vars == <<status, inputThread, inputPacket, nextSlice, free, mem, fill,
          flight, written>>

Slices == 1..NSlices

\* pipeline.run(nbThreads * 4): how many items may be in flight.
MaxTokens == Cardinality(Threads) * TokensPerThread

Stages == {"arrived", "processing", "processed", "ready", "writing"}

Item == [packet : Packets,                  \* history: what was read
         slice  : Slices,                   \* the slice the input returned
         out    : Packets \cup {NoPacket},  \* the processor's output slice
         stage  : Stages,
         worker : Threads \cup {NoThread}]

InBody(it) == it.stage \in {"processing", "processed", "writing"}

\* The slice of the item was not given back yet, nor freed.
HoldsSlice(it) ==
    \/ it.stage \in {"arrived", "processing", "processed"}
    \/ ~EnableStreamProcessor /\ it.stage = "writing"

Idle(t) == inputThread # t /\ \A i \in DOMAIN flight : flight[i].worker # t

-----------------------------------------------------------------------------
(* The slice pool                                                          *)

\* Slice::preAllocate: the slices are pushed in order, the first is popped.
Boot(st, thread, packet, next, queue, memory, filled, items) ==
    /\ st = "running"
    /\ thread = NoThread /\ packet = NoPacket
    /\ next = 1
    /\ queue = [i \in 1..(NSlices - 1) |-> i + 1]
    /\ memory = [s \in Slices |-> NoPacket]
    /\ filled = [s \in Slices |-> 0]
    /\ items = <<>>

Init ==
    /\ Boot(status, inputThread, inputPacket, nextSlice, free, mem, fill,
            flight)
    /\ written = NoPacket

\* Slice::getAllocated: blocks while the queue is empty.
getAllocated ==
    /\ free # <<>>
    /\ nextSlice' = Head(free)
    /\ free' = Tail(free)

\* Mutant: the end of the slice is not reset.
GiveWithoutReset(s) ==
    /\ UNCHANGED fill
    /\ free' = Append(free, s)

\* Slice::giveAllocated: reset the end of the slice, then push it.
giveAllocated(s) ==
    /\ fill' = [fill EXCEPT ![s] = 0]
    /\ free' = Append(free, s)

-----------------------------------------------------------------------------
(* InputFilter: serial, so one worker at a time is inside it               *)

\* Mutant: one token too many.
MayStartInputOffByOne(t) ==
    /\ status = "running"
    /\ inputThread = NoThread
    /\ Idle(t)
    /\ Len(flight) <= MaxTokens

\* A worker may start the input filter when a token is left.
MayStartInput(t) ==
    /\ status = "running"
    /\ inputThread = NoThread
    /\ Idle(t)
    /\ Len(flight) < MaxTokens

\* operator() calls readInput, which may wait for a packet for ever.
InputFilterStart(t) ==
    /\ MayStartInput(t)
    /\ inputThread' = t
    /\ UNCHANGED <<status, inputPacket, poolVars, flight, written>>

\* A worker is inside readInput.
Reading == inputThread # NoThread /\ inputPacket = NoPacket

\* readInput returns a packet, also when the pipeline was cancelled meanwhile;
\* the copy into the slice and readComplete.
InputFilterRead ==
    /\ status # "exited"
    /\ Reading
    /\ \E p \in Packets :
         /\ mem' = [mem EXCEPT ![nextSlice] = p]
         /\ inputPacket' = p
    /\ UNCHANGED <<status, inputThread, nextSlice, free, fill, flight, written>>

\* readInput throws: TBB cancels the pipeline.
InputFilterThrows ==
    /\ status # "exited"
    /\ Reading
    /\ status' = "cancelled"
    /\ inputThread' = NoThread
    /\ UNCHANGED <<inputPacket, poolVars, flight, written>>

\* assert(bytesRead != 0) aborts the process.
InputFilterAborts ==
    /\ status # "exited"
    /\ Reading
    /\ status' = "exited"
    /\ UNCHANGED <<inputVars, poolVars, flight, written>>

NewItem == [packet |-> inputPacket, slice |-> nextSlice, out |-> NoPacket,
            stage |-> "arrived", worker |-> inputThread]

\* Take the slice for the next call, close this one and return it.  The
\* task of an item that is returned to a cancelled pipeline is destroyed.
InputFilterReturn ==
    /\ status # "exited"
    /\ inputPacket # NoPacket
    /\ getAllocated
    /\ fill' = [fill EXCEPT ![nextSlice] = @ + 1]
    /\ flight' = IF status = "running" THEN Append(flight, NewItem)
                                       ELSE flight
    /\ inputThread' = NoThread
    /\ inputPacket' = NoPacket
    /\ UNCHANGED <<status, mem, written>>

-----------------------------------------------------------------------------
(* StreamProcessor: parallel, any number of workers are inside it          *)

SetStage(i, stage) == flight' = [flight EXCEPT ![i].stage = stage]

\* Mutant: the input slice is given back before it is processed.
StreamProcessorStartGives(i) ==
    /\ EnableStreamProcessor
    /\ status = "running"
    /\ flight[i].stage = "arrived"
    /\ SetStage(i, "processing")
    /\ giveAllocated(flight[i].slice)
    /\ UNCHANGED <<status, inputVars, nextSlice, mem, written>>

\* Enter operator() and allocate the output slice.
StreamProcessorStart(i) ==
    /\ EnableStreamProcessor
    /\ status = "running"
    /\ flight[i].stage = "arrived"
    /\ SetStage(i, "processing")
    /\ UNCHANGED <<status, inputVars, poolVars, written>>

\* Mutant: the loop over the packet does not end.
StreamProcessorProcessLoops(i) ==
    /\ status # "exited"
    /\ flight[i].stage = "processing"
    /\ UNCHANGED vars

\* process() as PASS_THROUGH: copy what lies between begin() and end().
StreamProcessorProcess(i) ==
    /\ status # "exited"
    /\ flight[i].stage = "processing"
    /\ LET s == flight[i].slice
       IN  flight' = [flight EXCEPT
                        ![i].stage = "processed",
                        ![i].out = IF fill[s] = 1 THEN mem[s] ELSE NoPacket]
    /\ UNCHANGED <<status, inputVars, poolVars, written>>

\* Mutant: the input slice is not given back.
StreamProcessorReturnLeaks(i) ==
    /\ status # "exited"
    /\ flight[i].stage = "processed"
    /\ SetStage(i, "ready")
    /\ UNCHANGED <<status, inputVars, poolVars, written>>

\* Slice::giveAllocated(&input) and return.
StreamProcessorReturn(i) ==
    /\ status # "exited"
    /\ flight[i].stage = "processed"
    /\ giveAllocated(flight[i].slice)
    /\ SetStage(i, "ready")
    /\ UNCHANGED <<status, inputVars, nextSlice, mem, written>>

-----------------------------------------------------------------------------
(* OutputStream: serial and in order, so only the oldest item enters it    *)

\* The stage of an item whose next filter is the output filter.
BeforeOutput == IF EnableStreamProcessor THEN "ready" ELSE "arrived"

\* What the output filter finds in the slice it is given.
OutputContent(it) ==
    IF EnableStreamProcessor THEN it.out
    ELSE IF fill[it.slice] = 1 THEN mem[it.slice] ELSE NoPacket

\* Mutant: the output filter is declared serial but out of order.
MayEnterOutputAnyOrder(i) ==
    \A j \in DOMAIN flight : flight[j].stage # "writing"

\* serial_in_order: the item whose token is the lowest one in flight.
MayEnterOutput(i) == i = 1

\* It is not this item's turn: its worker leaves it in the filter's buffer.
Park(i) ==
    /\ status = "running"
    /\ flight[i].stage = BeforeOutput
    /\ flight[i].worker # NoThread
    /\ ~MayEnterOutput(i)
    /\ flight' = [flight EXCEPT ![i].worker = NoThread]
    /\ UNCHANGED <<status, inputVars, poolVars, written>>

\* The worker that carries the item goes on; a parked item waits for one.
OutputStart(i, t) ==
    /\ status = "running"
    /\ flight[i].stage = BeforeOutput
    /\ MayEnterOutput(i)
    /\ flight[i].worker = t \/ (flight[i].worker = NoThread /\ Idle(t))
    /\ flight' = [flight EXCEPT
                     ![i] = [@ EXCEPT !.stage = "writing", !.worker = t]]
    /\ UNCHANGED <<status, inputVars, poolVars, written>>

RemoveItem(i) == flight' = SubSeq(flight, 1, i - 1)
                             \o SubSeq(flight, i + 1, Len(flight))

\* Write the slice and free it: the token is returned.
OutputReturn(i) ==
    /\ status # "exited"
    /\ flight[i].stage = "writing"
    /\ written' = OutputContent(flight[i])
    /\ RemoveItem(i)
    /\ UNCHANGED <<status, inputVars, poolVars>>

\* open_next_file throws.
OutputThrows(i) ==
    /\ status # "exited"
    /\ flight[i].stage = "writing"
    /\ status' = "cancelled"
    /\ RemoveItem(i)
    /\ UNCHANGED <<inputVars, poolVars, written>>

-----------------------------------------------------------------------------
(* The process                                                             *)

\* Mutant: main waits for the server thread, which never ends.
ExitWaits ==
    /\ status = "cancelled"
    /\ inputThread = NoThread
    /\ \A i \in DOMAIN flight : ~InBody(flight[i])
    /\ UNCHANGED vars

\* pipeline.run rethrows when no worker is inside a filter; main returns 1.
Exit ==
    /\ status = "cancelled"
    /\ inputThread = NoThread
    /\ \A i \in DOMAIN flight : ~InBody(flight[i])
    /\ status' = "exited"
    /\ UNCHANGED <<inputVars, poolVars, flight, written>>

\* run.sh starts the program again.
Restart ==
    /\ status = "exited"
    /\ Boot(status', inputThread', inputPacket', nextSlice', free', mem',
            fill', flight')
    /\ UNCHANGED written

InputFilterNext ==
    \/ \E t \in Threads : InputFilterStart(t)
    \/ InputFilterRead \/ InputFilterThrows \/ InputFilterAborts
    \/ InputFilterReturn

StreamProcessorNext(i) ==
    StreamProcessorStart(i) \/ StreamProcessorProcess(i)
    \/ StreamProcessorReturn(i)

OutputNext(i) ==
    \/ Park(i) \/ OutputReturn(i) \/ OutputThrows(i)
    \/ \E t \in Threads : OutputStart(i, t)

Next ==
    \/ InputFilterNext
    \/ \E i \in DOMAIN flight : StreamProcessorNext(i) \/ OutputNext(i)
    \/ Exit
    \/ Restart

Spec == Init /\ [][Next]_vars

\* A filter body that was entered returns once it needs no packet, a worker
\* takes up what it can do, a cancelled pipeline is left when no worker is
\* inside a filter, and run.sh starts the program again.  That a packet
\* arrives is not assumed: readInput need not return, nor throw.
Fairness ==
    /\ WF_vars(InputFilterReturn)
    /\ WF_vars(\E i \in DOMAIN flight : StreamProcessorNext(i))
    /\ WF_vars(\E i \in DOMAIN flight : OutputNext(i))
    /\ WF_vars(Exit)
    /\ WF_vars(Restart)

FairSpec == Spec /\ Fairness

-----------------------------------------------------------------------------
(* Properties                                                              *)

\* Every variable keeps its type, and the tokens bound what is in flight.
TypeOK ==
    /\ status \in {"running", "cancelled", "exited"}
    /\ inputThread \in Threads \cup {NoThread}
    /\ inputPacket \in Packets \cup {NoPacket}
    /\ nextSlice \in Slices
    /\ free \in Seq(Slices)
    /\ mem \in [Slices -> Packets \cup {NoPacket}]
    /\ fill \in [Slices -> Nat]
    /\ flight \in Seq(Item)
    /\ Len(flight) <= MaxTokens
    /\ written \in Packets \cup {NoPacket}

Holders == {i \in DOMAIN flight : HoldsSlice(flight[i])}

\* A slice has one owner: it is the input filter's next slice, or it is in
\* the pool once, or one item holds it (slice.cc, InputFilter.cc:166-170,
\* processor.cc:194).
ExclusiveOwnership ==
    /\ \A j, k \in DOMAIN free : free[j] = free[k] => j = k
    /\ \A i, j \in Holders : flight[i].slice = flight[j].slice => i = j
    /\ \A j \in DOMAIN free : free[j] # nextSlice
    /\ \A i \in Holders : flight[i].slice # nextSlice
    /\ \A i \in Holders, j \in DOMAIN free : flight[i].slice # free[j]

\* A slice that is held still has exactly the packet that was read into it,
\* whatever the input and the other workers did meanwhile, and the
\* processor's output is made of that packet.  A slice that is to be filled
\* is empty, although the input filter appends to its old end
\* (InputFilter.cc:168).
ContentIntact ==
    /\ \A i \in Holders : LET s == flight[i].slice
                          IN  mem[s] = flight[i].packet /\ fill[s] = 1
    /\ EnableStreamProcessor =>
         \A i \in DOMAIN flight :
            flight[i].stage \in {"processed", "ready", "writing"}
                => flight[i].out = flight[i].packet
    /\ fill[nextSlice] = 0
    /\ \A j \in DOMAIN free : fill[free[j]] = 0

\* The input filter has read a packet and the pool is empty (InputFilter.cc:167).
AwaitsSlice == inputPacket # NoPacket /\ free = <<>>

\* With more slices than workers the input filter, which is serial, never
\* waits for a slice: a worker that waits in getAllocated does not read the
\* DMA, so this is what keeps the board from dropping orbits.
InputNeverWaits ==
    EnableStreamProcessor /\ NSlices > Cardinality(Threads)
        => ~AwaitsSlice

\* When the input filter does wait for a slice, a worker that is sure to go on
\* holds one that it will give back, also while the pipeline is cancelled and
\* only the bodies that were entered go on.  With a slice per worker the wait
\* cannot last for ever.
SliceComesBack ==
    NSlices >= Cardinality(Threads) /\ NSlices > 1
    /\ status # "exited" /\ AwaitsSlice
        => \E i \in Holders :
             /\ status = "running" \/ InBody(flight[i])
             /\ flight[i].stage # "writing"

\* A worker is inside a filter with the item or may take it to the next one,
\* or the item is the oldest one and a worker is free to take it up.
CanGoOn(i) ==
    \/ InBody(flight[i])
    \/ /\ status = "running"
       /\ \/ flight[i].worker # NoThread
          \/ /\ flight[i].stage = BeforeOutput /\ MayEnterOutput(i)
             /\ \E t \in Threads : Idle(t)

\* The workers never all wait for each other: with what is in flight parked
\* behind the oldest packet, the other workers carrying packets and one of them
\* in the input filter, blocked in the driver or waiting for a slice, there is
\* always a step that needs neither a new packet nor a failure
\* (scdaq.cc:66-94, InputFilter.cc:135-167).
NeverStuck ==
    /\ EnableStreamProcessor /\ NSlices > 1
    /\ \/ status = "running" /\ (flight # <<>> \/ inputPacket # NoPacket)
       \/ /\ status = "cancelled" /\ inputPacket # NoPacket
          /\ NSlices >= Cardinality(Threads)
    => \/ inputPacket # NoPacket /\ free # <<>>
       \/ \E i \in DOMAIN flight : CanGoOn(i)

\* Packets reach the file writer in the order in which they were read, none
\* is lost, duplicated or altered, and only a failing process drops what is
\* in flight.
Channel == INSTANCE OrderedChannel
             WITH Capacity <- MaxTokens,
                  up <- status = "running",
                  queue <- [i \in DOMAIN flight |-> flight[i].packet],
                  delivered <- written

IsOrderedChannel == Channel!ChannelSpec

\* A pipeline that holds packets for ever keeps delivering some, although no
\* further packet need arrive: none is stuck behind a parked one or behind the
\* worker that is blocked in the driver's read.  Only a pipeline that was
\* cancelled keeps what it holds, and only for as long as that read lasts
\* (InputFilter.cc:135, scdaq.cc:94).
PacketsKeepFlowing ==
    NSlices >= Cardinality(Threads) /\ <>[](flight # <<>>)
        => \/ []<><<\E i \in DOMAIN flight : OutputReturn(i)>>_vars
           \/ <>[](status = "cancelled" /\ Reading)

\* With a slice per worker the input filter does not wait for ever for the
\* slice of its next call once it has read a packet, not even when the
\* pipeline is cancelled and slices are lost with its tasks: the call returns,
\* or the process ends.  (With fewer it can wait for ever.)
InputReturns ==
    NSlices >= Cardinality(Threads) =>
        (inputPacket # NoPacket ~> inputPacket = NoPacket)

\* After any failure the program runs again, unless a worker stays blocked in
\* the driver's read for ever: nothing else holds up pipeline.run, which
\* cannot rethrow before every worker has left its filter (scdaq.cc:94,
\* scdaq.cc:158-165, InputFilter.cc:135).
Recovers ==
    NSlices >= Cardinality(Threads) =>
        (status # "running" ~> status = "running" \/ []Reading)
=============================================================================
