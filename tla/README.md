# Verification of scouting-es

This directory holds TLA+ models of `scdaq`, the data taking program of the
CMS level-1 scouting prototype, the TLC runs that check them on small
instances and proofs that TLAPS checks for instances of any size.  Paths are
those of the repository (`src/` is its source directory).

## The system

The board sends DMA packets of 20 orbits.  `scdaq` reads them, optionally
unpacks them, and writes them into files while a run is on.

| component | state | operations | what makes it correct |
|---|---|---|---|
| slice pool (`slice.h`, `slice.cc`) | a queue of preallocated buffers | allocate, give back | one owner per slice; a recycled slice is empty |
| `InputFilter` | the next slice | read a packet, copy it, take the next slice | never waits for ever for a slice; reads what the board sent, in order |
| pipeline (`scdaq.cc`) | filters, tokens, worker threads | run, cancel on an exception, exit, restart by `run.sh` | packets are delivered once and in order; every failure is recovered from once no read is blocked |
| `StreamProcessor` | none (parallel) | process a packet into a new slice, give the input slice back | gives back after its last use; the output is made of the input |
| `OutputStream` | open file, its size and index, the run | write, open the next file, close and move, journal | the right run, bounded size, no file overwritten, closed when stopped |
| `ctrl`, `server`, `session` | run number, running flag | `start N`, `stop` | the writer never sees a run number that was not on |
| `runControl.py` | the last snapshot | poll the experiment, send start or stop | scdaq follows the experiment |
| WZ DMA input (`WZDmaInputFilter`, `wz_dma.c`) | counters, the driver's ring | read, confirm, restart, skip, reset the board | packets in order, once, unharmed; bounded retries |
| XDMA input (`DmaInputFilter`) | the slice that is read into | read, retry | no part of a packet is taken for one; a call ends |
| file input (`FileDmaInputFilter`) | file position | read frames, rewind, skip | framing; a call ends |
| `ElasticProcessor` (obsolete) | request url, curl handle | create an index, add data | shared state of parallel calls |
| `fileMover.py` | its listing, the archive | list, compress, remove | a file stays until it is archived whole, and leaves in the end |
| reset server, `run.sh` | | reset the board, start the program again | |

How they interact: the filters are called by the worker threads of one
`tbb::pipeline`; they share the slice pool.  The server thread, which runs all
sessions, shares `ctrl` with the file writer and with nobody else.  The file
writer shares the disk with `fileMover.py` and with its own next incarnation.

What is hard: the pipeline has a parallel stage between two serial ones and a
bounded pool under it; an exception of one filter cancels what the others
have not started; commands arrive between any two steps of the writer; the
process may end between any two writes to the disk, and is always started
again.  `PROJECT.json` lists these hazards line by line.

## The modules

`Pipeline` models the slice pool, `InputFilter`, `StreamProcessor` as
`PASS_THROUGH`, the in-order entry to `OutputStream`, the tokens, exceptions,
the exit and the restart.  `OrderedChannel` says what it promises: a bounded
first-in first-out channel that only loses packets when the process fails.

* A slice is a number; `mem` is what its memory holds and `fill` how many
  packets lie between `begin()` and `end()`.  `getAllocated` and
  `giveAllocated` are the operations of `slice.cc`.
* A packet between the input filter and its end is an item of `flight`, in the
  order of the TBB tokens.  The worker that read it carries it through the
  parallel filter and parks it when it is not its turn to be written.  This
  behaviour of TBB (task bypass, parking in a `serial_in_order` filter, a
  cancelled pipeline destroys tasks that are not inside a filter) is external
  to the repository.
* One action stands for the part of a filter between two accesses to shared
  state: `InputFilterStart` (call `readInput`), `InputFilterRead` (it returns a
  packet, which is copied and confirmed), `InputFilterReturn` (take the next
  slice, close this one), `StreamProcessorStart`, `Process`, `Return`,
  `OutputStart`, `Return`.  `InputFilterThrows`, `InputFilterAborts` and
  `OutputThrows` are the ways in which filters fail, `Exit` and `Restart` what
  follows.
* Between `InputFilterStart` and the end of the read (`Reading`) a worker is
  blocked in the driver.  It is not idle, holds no packet, and a cancelled
  pipeline cannot be left before it returns: `pipeline.run` waits for it.

`OutputStream` models the file writer and the server thread.

* `pc` is the place of the writer in `operator()` and `open_next_file`.  Each
  access to `running` or `run_number` is a step of its own, as are closing,
  creating, journaling and writing: the server thread, a crash or an exception
  may come between any two.
* `inProgress` and `published` map file names to the number of packets in the
  file, `journal` is the content of the journal.  They survive `Crash` (the
  process is killed: stdio's buffer is lost) and `Throws` (an exception ends
  main).  `Faults` selects what may go wrong: `crash`, `open` (the file cannot
  be created), `write` (too little is written), `rename`, `journal` (it fails
  once, which is a bound).
* `journalFailed`, `window` and two variables of `Ctrl`, `commanded` and
  `active`, are history variables for the properties.

`Ctrl` is what run control does to `struct ctrl`: a start command is two stores,
in their order (`StoreFirst`, `StoreSecond`), a stop is one, a restart clears
both.  With `RunsIncrease` no run is started again after a later one.
`OutputStream` extends it, and `RunControl` is shown to implement it with
`RunsIncrease` (`IsCtrl`): what the writer assumes of run control is what run
control does.

`FileMover` extends `OutputStream` with `fileMover.py`, which shares `published`
with it.  `listed`, `moving` and `mover` are the script's loop; `lbzip2` and `rm`
run in a step each (`Compress`, `TakeAway`) after the shell has truncated the
archive file (`Open`).  Both may fail (`MoverFaults`).  `published` keeps only
what was not yet taken away; that names are not used again is then up to the
journal.

`WZDma` models the WZ DMA input: `read_packet` and `read_packet_from_dma` with
`wz_dma.c`, and what `InputFilter::operator()` does with the buffer it gets.
`PacketSource` says what an input promises: the packets of the board in order,
once and unharmed; only oversized packets are skipped, only a failure loses
others.

* `tries`, `skip` and `reset` are the counters of the two loops; each iteration
  is one action (`ReadFits`, `ReadSkips`, `ReadRestarts`, ...), chosen by what
  `wz_read_start` returns.  `ResetBoard`, `Copy` and `ReadComplete` are steps of
  their own because the board writes into the ring meanwhile (`Fill`).
* The driver is external.  It is taken to fill the next free buffer, to give the
  oldest filled one to `GETBUF`, and to free with `CONFIRM` the buffer named and
  all taken before it; a packet lies in one buffer.  The reset server is taken
  to answer.

`XdmaInput` models the XDMA input, which reads straight into the next slice.
`nextSlice` is what that slice holds; a failed read may leave a part of a packet
in it (`Torn`).  The outcomes of `read()` are the actions `ReadPacket`,
`ReadOversized`, `ReadError` and `ReadFails`; `skip`, the code's count of failed
reads, makes each of them a step.  The driver and its queue are external; `EIO`
may lose a packet, which `PacketSource` allows (`LosesOne`).

`FileInput` models the file input and `FileSource` what it promises: the packets
of the file one after the other, whole, and again from its beginning.  A state
has a whole file; `pos` is what `fread` has consumed.  There is one action for
each outcome of `fread` (`ReadData`, `ReadEnd`, `Rewind`, `EndsPrematurely`).

`Inputs` puts the three together as `run_pipeline` does, which creates the one
that is configured.

`RunControl` models `runControl.py`, the server's sessions and their
connections.  The script is one loop with a step for each call that may block or
fail (`Poll`, `Connect`, `Send`, `Receive`, `Sleep`); a session is its connection
with the handler it waits for (`HandleAccept`, `HandleRead`, `HandleReadError`,
`HandleWrite`).  Script and scdaq may end at any step; what a script sent before
it was killed stays in its connection.  TCP and asio are external: a command
arrives whole and handlers run in the order of their events.  A start is two
steps of the server's thread, between which the script goes on and scdaq may end
(`HandleRead`, `StoreRunning`).

`Elastic` models the parallel calls of `ElasticProcessor`, which share the
request url and the curl handle.  A slice is the number of its blocks, a block
the number of its muons.  What curl does when two threads use a handle is
`SharedHandleFails`.

`GmtProcessor` models `process()` for GMT packets.  The input is measured in
units of 32 bytes, the output is the sequence of the blocks that were written.
The packet is put together orbit by orbit (`AddOrbit`), and then each iteration
of a loop is a step: of `CountBX` over the bits of the map (`TestBit`), of
`FillOrbit` over the blocks (`FillBlock`, `SkipBlock`), and of `process()` over
the orbits (`FillReturns`, then `EndOfPacket` or `NextOrbit`).  Calls have nothing
in common, so a behaviour is one call and the run lets it stop.  The reference,
`OutputIsPacket`, says what the output should be from the packet alone
(`Occupied`, `PacketMuons`).

The theorems are in `PipelineProofs`, `OutputStreamProofs`,
`OutputJournalProofs`, `FileMoverProofs`, `WZDmaProofs`, `InputsProofs`,
`RunControlProofs` and `GmtProcessorProofs`.  `MCPipeline`, `MCWZDma`, `MCInputs` and
`MCGmtProcessor` give constants their values; the other modules are checked
directly, their constants being numbers or model values.

## The runs

| run | question | bounds |
|---|---|---|
| `pipeline` | ownership, contents, no waiting, implements `OrderedChannel` | 2 workers with 2 tokens, 3 slices, 2 packet contents |
| `pipeline_tight` | liveness, and no deadlock of the workers, when the pool is as small as their number | 3 workers, 3 slices |
| `pipeline_noproc` | finding: the pool runs empty without the stream processor | 2 workers, 2 slices |
| `output_files` | right run, bounded files, nothing overwritten | 2 runs, files of one or two packets, all faults; nothing new once an index, or that in the journal, is 2 |
| `output_stop` | a stop closes the file | as above, without short writes |
| `file_mover` | published files leave only for the archive, and all do; a stop publishes all files | 2 runs, nothing new once an index is 1; faults `open` and `write`, and those of the script |
| `inputs` | the three inputs implement `PacketSource` and `FileSource`; every call returns or throws, that of the WZ input after a bounded number of iterations | WZ: 4 buffers, resets after 2 skips, 1 reset, 3 tries; XDMA: 3 packets queued; file: all files of up to 5 frames, whole or not, slices of 1.5 and 2 frames |
| `wzdma_ring` | finding: with a smaller ring a call may hang | 3 buffers |
| `runcontrol` | replies are true and never waited for in vain; runs are never started again; scdaq ends up following the experiment; implements `Ctrl` | 2 runs, one end of the script and one of scdaq, 3 connections |
| `gmt` | the output is what the packet contains; nothing behind the packet is read; `process()` returns | 1 or 2 orbits, 2 crossings, no muon or those of the first and the last link in each column, all links without zero suppression |
| `gmt_orbits` | finding: only the first orbit is unpacked | 2 orbits |
| `elastic` | finding: a call with data never ends | 2 threads, slices of up to one block |

Three workers are enough for one in the input filter, one in the stream
processor and one in the writer at a time, and for an item parked behind
another.  Two tokens per worker (the code has four) let items wait without a
worker; the order of two equal contents cannot be told apart, so two contents
suffice for a swap to be seen.  In `OutputStream` `Room` is a bound that the
code has not: it holds up new runs and packets once an index is `MaxIndex`, and
never stops a packet half way.  With two indexes and two runs a run opens a
second file because the first is full, is started again after a crash and goes
on at the index of the journal, and is switched twice.  Behind the last index
nothing is started any more; that is left to the theorems, which hold for any
`MaxIndex`.  `output_stop` leaves out short writes, which a stop does not depend
on, because liveness takes longer to check.  A journal that fails lets many
files of the same index come, so it fails once.  `FileMover`, with the script
beside the writer, has one index only.  There a file that cannot be created
stands for all that start the process again; crashes and failing renames are
left to `output_files`, as they leave files in the working directory for ever,
and to the proofs.

In `WZDma` the limits 100, 10 and 10 become 2, 1 and 3: each loop is left, and
entered again, inside each other one.  A ring of four buffers holds as many
packets as a call may skip.  In `XdmaInput` three packets in the queue are one
that fits between two that are too large.  In `FileInput` five frames hold
a packet that fits, one that does not, and a rest without an end; a slice of one
and a half frames stands for sizes that are no multiple of 32.  In `RunControl`
one command of a killed script and one of its successor are enough to be out of
order, and a third connection is one that was not yet deleted.  In
`GmtProcessor` crossings are an even and an odd one in different words of the
map, which is cut after 34 bits.

`FairSpec` of `WZDma` assumes that the board keeps sending and that the thread
runs, but of no error that it happens or ends.  That of `FileInput` assumes that
the thread runs.  That of `XdmaInput` assumes that the board does not send
oversized packets only and that a read for which a packet waits returns, be it
with an error.  It does not assume that a read ever succeeds: the code retries
`EIO` without a bound, nothing guarantees that it ends, and `XdmaCallReturns`
says that this is the only way in which a call does not.  An input that was not
created is never ready for a step.  That of `RunControl` assumes that script,
handlers and `run.sh` go on and that somebody starts the script again; `MaxEnds`
and `MaxExits` make the failures finitely many, without which nothing could
follow.

`FairSpec` of `Pipeline` assumes that a filter that has its packet returns, that
workers take up what they can do, that a cancelled pipeline is left and that
`run.sh` starts the program again.  It does not assume that packets arrive, nor
that a blocked read ever returns or throws.  So `InputReturns` is about the wait
for a slice, after the read, and `Recovers` and `PacketsKeepFlowing` name the
one thing that may keep a cancelled pipeline, with the packets it holds, for
ever: a worker that stays in that read (`InputFilter.cc:135`).  Without these
words TLC refutes both.

`FairSpec` of `OutputStream` assumes that packets keep arriving (the board
sends empty orbits too) and that the two threads run; a stop is only noticed
when a packet arrives (`output.cc:107`), so nothing weaker would do.
`BothFairSpec` of `FileMover` keeps that, lets the script go on and assumes of
each file that, if it is tried again and again, one compression and one removal
succeed: the script has no other remedy than the next listing.

## The findings

* With `enable_stream_processor:no` nobody gives slices back, the writer frees
  them, and the input filter waits for ever (`pipeline_noproc`).
* Skipped packets of the WZ DMA are never confirmed: 1100 may be skipped in a
  call, the ring has 1024 buffers (`wzdma_ring`, for the driver as described
  above).
* Of a GMT packet of several orbits only the first one is unpacked
  (`gmt_orbits`).
* `ElasticProcessor` gets the pointer to the next block by value and parses the
  first block for ever (`elastic`).

The properties that hold have boundaries which follow from the code as well.
The models contain what lies beyond them, and no claim is made of it:

* The file that is open when the process is killed stays in `in_progress`
  (`output.cc:40-48`): `file_mover` has no crashes, and `WrittenStays` only
  says that its data stays.
* Once the journal could not be written (`output.cc:72`), which is only logged,
  names of files may be used again: `JournalDominates`, `PublishedImmutable`,
  `WrittenStays` and `ArchivedForGood` say nothing of what comes after
  (`journalFailed`).  The other properties of the writer do.
* With `output_force_write` run 0 comes back after each restart and its entry
  replaces that of the run in the journal, so published files may be overwritten.
  No line promises that this option, which is for debugging, keeps them:
  `JournalDominates`, `PublishedImmutable` and `WrittenStays` are claimed with it
  off (`OnlyNewRuns`).
* A pipeline that was cancelled is not left while a worker is blocked in the
  driver's read (`scdaq.cc:94`): the program is only started again after that.
* The XDMA input retries `EIO` for ever (`DmaInputFilter.cc:68-84`).
* Without a journal uninitialised variables decide on the first index of a run
  (`output.cc:175`); `GarbageIndexes` stands for them.
* The WZ DMA input gives up after its ninth successful restart
  (`WZDmaInputFilter.cc:76`), which a call may end with.
* A file of whole frames whose last packet has no end is reported as misaligned,
  by the read behind its last frame (`FileDmaInputFilter.cc:52-57`).
* One failed request for a snapshot ends `runControl.py`; that it is started
  again is an assumption of `FairSpec`.
* With GMT orbits of different lengths the trailer is missed and the loop over
  the packet does not end, a block without muons shifts the crossings of those
  behind it, and a packet with fewer orbits than configured may be skipped.

With fewer slices than workers the pipeline can hang for ever after an
exception of the writer: all workers wait behind the one that waits for a
slice, and the tasks that hold slices are never run again.  The properties
state this boundary (`NSlices >= Cardinality(Threads)`); the shipped
configuration has 1000 slices and 8 threads.

## The proofs

For any number of workers, tokens, slices and packets, from
`PipelineAssumption` (finite nonempty set of threads, positive numbers):

* `TypeSafety`, `OwnershipSafety`, `ContentSafety`: the conjunction of
  `TypeOK`, `ExclusiveOwnership`, `ContentIntact` and what workers hold is
  inductive.  Ownership needs the contents only for the end of a slice, and
  the contents need ownership for every slice that another worker fills.
* `InputNeverBlocks`: each item that holds a slice is carried by a worker of
  its own, and the input filter's worker is another, so fewer slices than
  workers are held; counting leaves one in the pool.
* `SliceSafety`: with a slice per worker, the input filter only waits for a slice
  that somebody can still give back (`SliceComesBack`).
* `ProgressSafety`: the workers never all wait for each other (`NeverStuck`).  The
  oldest item is never kept waiting by another one, so if it is parked and no
  worker is free to take it, each worker is with an item or in the input filter;
  when the one in the input filter is the only one and the pool is empty, no
  slice being lost (`CoverInv`) gives an item that holds one, and its worker.
  `ReturnInv` adds to `SafeInv` that a worker is with an item that is written and
  that the failure of a filter leaves a slice in the pool.
* `PipelineIsChannel`: initial states map to initial states and every step to
  a step of the channel or a stutter.

For any runs, file sizes, indexes and faults, from `OutputAssumption` and
`NamesAssumption` (the two model values are not file names):

* `TypeSafety`, `AttributionSafety`, `SizeSafety` from `BaseInv`: where the
  writer has a file (`OpenInv`), that its size is that on the disk (`SizeInv`)
  and that the run number it may read was on since the packet came
  (`WindowInv`).
* `JournalIsSafe`, `PublishedSafety`, `WrittenSafety` from `JournalInv`, which
  holds as long as the journal could be written (`~journalFailed`), under
  `OnlyNewRuns`: runs are not resumed once a later one was started, which
  `RunControl` guarantees, and `output_force_write` is off.  That all files are
  below the journal is not inductive: it needs `NextInv` (how the journal
  relates to the index in memory at every place of the writer) and `RunsInv`
  (the journal's run is never above the one that was commanded last), and that
  `open` truncates no file with data (`CreateIsNew`).
* `ArchiveSafety`: `ArchivedForGood` under the same conditions, with every fault
  of the writer and the script.  If archived files are counted as published
  (`EverPublished`), a step of the writer is a step of a writer whose files
  nobody takes (`WriterMaps`), and a step of the script is none
  (`MoverStutters`), so `OutputJournalProofs` applies to what was ever
  published.  `MoverInv` is what the script's steps need: the file it is working
  on is still published, unchanged, and archived before it is removed.

For any number of runs, connections, ends and exits:

* `RunControlProofs`: `TypeSafety`, `CommandedSafety`, `ControlSafety`,
  `ReplySafety` and `DueSafety`.  `OrderInv` says that the commands that are under way are in the
  order of their connections, and that their runs lie between the one that was
  commanded last and the snapshot of the script; `AnswerInv` says how far the
  command that the script waits for has come, which gives both that a reply is
  true and that one is due while there is none.  `ControlSafety` is the refinement
  `IsCtrl`.  Besides the bounds it assumes that `NoCommand` is no command.

For any ring, packets and limits, from `WZDmaAssumption`:

* `TypeSafety`, from `ReadInv`: a read is only attempted while the DMA may still
  be restarted once, so the counters keep their bounds.
* `RetrySafety`: the number of iterations that are left (`IterationsLeft`, a mixed
  base number of resets, skips and restarts) is below
  `(MaxResets + 1) * MaxSkips * MaxTries`, and each iteration makes it smaller.
  `TriesInv` is needed where a packet is skipped: the restarts that are allowed
  anew do not make up for the packet because one of the old ones was left.
* `SourceSafety`: `WZDma` implements `PacketSource`.  The step that needs an
  invariant is `Fill`: the buffer that is being copied is among the taken ones
  (`HoldInv`), so the board does not write into it.  The lemmas about
  `PacketsIn` say what filling and taking a buffer do to the waiting packets.

For any packets, queue, files and sizes of slices, of the specification `Inputs`:

* `XdmaTypeSafety` and `XdmaSourceSafety`: `XdmaTypeOK` is inductive by itself,
  and every step is one of the source or none.
* `FileTypeSafety` and `FileSourceSafety` from `FileInv`, with `PacketInv`: the
  frames since the beginning of the packet are as many as the bytes that were
  read, none of them is a last one, and only the last may go beyond the slice.
* `WZDmaInputSafety`: what was proved of `WZDma` holds with the other inputs
  beside it.

For packets of any number of orbits with any crossings and muons, any map of up to
3584 bits, and any number of orbits configured, from `GmtAssumption`:

* `TypeSafety`, with the bound on the muons that are counted.
* `UnpackSafety`: of one orbit without empty blocks the output is what the packet
  contains (`Unpacks`).  The loops are steps, so what they compute is an
  invariant and needs no induction over data: the crossings that were found are
  those whose rank in the map is their place (`BxInv`), the muons counted are
  those of the blocks that were read (`CountInv`), each entry written is that
  of the block with its crossing (`OutInv`), and one round reads it all
  (`SingleInv`, `SizeInv`).  That a crossing of the map has exactly one rank
  (`RankInjective`) turns the entries into the set that `Unpacks` states.
* `ReadSafety`: orbits of equal length are read one by one up to the trailer
  (`UniformInv`), and nothing behind it (`ReadsWithinPacket`).
* `FitSafety`: the output fits into the slice that is allocated for it, which
  has twice the size of the packet (`OutputFits`).  No run states it: within
  bounds that a run can check the room is never used up.

Liveness is only model-checked: temporal reasoning about fairness and `ENABLED`
is out of the prover's reach.  `PacketsKeepFlowing`, `InputReturns`, `Recovers`,
`StopCloses`, `StopPublishes`, `FilesLeave`, `Follows`, `CallReturns`,
`XdmaCallReturns`, `FileCallEnds` and `UniformReturns` are such properties.
`NeverStuck`, `SliceComesBack`, `ReplyIsDue`, `RetriesAreBounded` and
`ReadsWithinPacket` are what can be proved of their causes.  Every other property
that a passing run checks is a theorem.

## Not modelled

The byte layout of slices, the fields of a muon, the text of requests, replies
and log messages, statistics, and the parsing of the configuration, whose values
are the constants of the models.  The reset server and the packaging have no
state of their own that matters here.  `Slice pool`, `InputFilter` and `Pipeline`
are listed as partly modelled for these reasons: pointers within a slice,
statistics, and the parsing of main's arguments.

There is no one specification of pipeline, writer and run control together.  Its
parts meet in two places, and both are checked there: packets leave the pipeline
in their order (`IsOrderedChannel`), and run control changes `struct ctrl` as the
writer assumes (`IsCtrl`).  What a run control command means for a packet that
is still in the pipeline is that it is written to the run that is on when the
writer gets it, which is what the code does and what `RunAttribution` states.
