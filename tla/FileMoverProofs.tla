--------------------------- MODULE FileMoverProofs ---------------------------
(***************************************************************************)
(* Why no published file is lost or replaced while fileMover.py takes the  *)
(* files away, for any runs, sizes, crashes and failures.  If the files    *)
(* that left for the archive are counted as published, a step of the       *)
(* script changes nothing that the writer sees, and the invariants of      *)
(* OutputJournalProofs hold.                                               *)
(***************************************************************************)
EXTENDS FileMover, TLAPS

\* The files that are published and those that have left for the archive.
EverPublished ==
    [f \in DOMAIN published \cup DOMAIN archive |->
        IF f \in DOMAIN published THEN published[f] ELSE archive[f]]

\* The writer with an output directory that nobody takes files from.
W == INSTANCE OutputJournalProofs WITH published <- EverPublished

-----------------------------------------------------------------------------
(* The inductive invariant                                                 *)

\* The script works on a file that is still published; it has all of its
\* content open, and has it in the archive when it removes the file.
MoverInv ==
    /\ listed \subseteq DOMAIN published
    /\ mover \in {"compress", "remove"} =>
         moving \in DOMAIN published \ listed /\ moving \in DOMAIN archive
    /\ mover = "compress" => reading = published[moving]
    /\ mover = "remove" => archive[moving] = published[moving]

BothInv == W!BaseInv /\ W!JournalInv /\ MoverInv

-----------------------------------------------------------------------------
(* The lemmas                                                              *)

\* The assumptions on the constants are those of the writer.
LEMMA WriterAssumptions == W!OutputAssumption /\ W!NamesAssumption
<1>1. W!OutputAssumption
  BY OutputAssumption
     DEF OutputAssumption, W!OutputAssumption, AllFaults, W!AllFaults
<1>2. W!NamesAssumption
  BY NamesAssumption DEF NamesAssumption, W!NamesAssumption, FileName, W!FileName
<1> QED
  BY <1>1, <1>2

\* At the beginning no file has been published.
LEMMA BothInit == MoverInit => BothInv
<1> SUFFICES ASSUME MoverInit PROVE BothInv
  OBVIOUS
<1>1. published = <<>> /\ archive = <<>>
  BY DEF MoverInit, Init
<1>2. EverPublished = <<>>
  BY <1>1 DEF EverPublished
<1>3. W!Init
  BY <1>2 DEF MoverInit, Init, W!Init, CtrlInit, W!CtrlInit
<1>4. W!BaseInv /\ W!JournalInv
  BY <1>3, WriterAssumptions, W!BaseInit, W!JournalInit
<1>5. MoverInv
  BY DEF MoverInit, MoverInv
<1> QED
  BY <1>4, <1>5 DEF BothInv

\* Without a step on either directory nothing changes for the writer.
LEMMA SameDirectories ==
    ASSUME UNCHANGED <<published, archive>>
    PROVE  UNCHANGED EverPublished
BY DEF EverPublished

\* A file that the writer publishes is published for good.
LEMMA PutEver ==
    ASSUME NEW f, NEW n, published' = Put(published, f, n),
           UNCHANGED archive
    PROVE  EverPublished' = W!Put(EverPublished, f, n)
BY DEF Put, W!Put, EverPublished

\* Closing a file is the same step of the writer alone.
LEMMA CloseMaps ==
    ASSUME NEW count, CloseAndMove(count), UNCHANGED archive
    PROVE  W!CloseAndMove(count)
<1>1. UNCHANGED published => UNCHANGED EverPublished
  BY SameDirectories
<1>2. published' = Put(published, currentFile, inProgress[currentFile]) =>
        EverPublished' =
          W!Put(EverPublished, currentFile, inProgress[currentFile])
  BY PutEver
<1> QED
  BY <1>1, <1>2 DEF CloseAndMove, W!CloseAndMove, Rename, W!Rename, Remove,
                    W!Remove, fileVars, W!fileVars

\* A step of the writer is a step of the writer alone: the actions that leave
\* the output directory alone, and the two that publish a file.
LEMMA WriterMaps ==
    ASSUME Next, UNCHANGED moverVars
    PROVE  W!Next
<1>0. UNCHANGED archive
  BY DEF moverVars
<1>1. ASSUME UNCHANGED published,
             \/ \E r \in Runs : StartRun(r)
             \/ StartRunning \/ Stop \/ Throws \/ Crash
      PROVE  W!Next
  <2>1. UNCHANGED EverPublished
    BY <1>0, <1>1, SameDirectories
  <2>2. ASSUME NEW r \in Runs, StartRun(r) PROVE W!StartRun(r)
    BY <2>1, <2>2 DEF StartRun, W!StartRun, Room, W!Room, StoreFirst,
      W!StoreFirst, Store, W!Store, Stores, W!Stores, fileVars, W!fileVars,
      diskVars, W!diskVars
  <2>3. StartRunning => W!StartRunning
    BY <2>1 DEF StartRunning, W!StartRunning, StoreSecond, W!StoreSecond,
      Store, W!Store, Stores, W!Stores, fileVars, W!fileVars, diskVars,
      W!diskVars
  <2>4. Stop => W!Stop
    BY <2>1 DEF Stop, W!Stop, StoreStop, W!StoreStop, fileVars, W!fileVars,
      diskVars, W!diskVars
  <2>5. Throws => W!Throws
    BY <2>1 DEF Throws, W!Throws, Restart, W!Restart, Reset, W!Reset,
      diskVars, W!diskVars
  <2>6. Crash => W!Crash
    BY <2>1 DEF Crash, W!Crash, Restart, W!Restart, Reset, W!Reset,
      journalVars, W!journalVars
  <2> QED
    BY <1>1, <2>2, <2>3, <2>4, <2>5, <2>6 DEF W!Next, W!ServerNext
<1>2. ASSUME UNCHANGED published,
             \/ Arrive \/ Check \/ Decide \/ CompareRun \/ SwitchRun
             \/ ChooseIndex \/ Create \/ UpdateJournal \/ Write \/ Recheck
      PROVE  W!Next
  <2>1. UNCHANGED EverPublished
    BY <1>0, <1>2, SameDirectories
  <2> USE <2>1 DEF Goto, W!Goto, controlVars, W!controlVars, fileVars,
                   W!fileVars, diskVars, W!diskVars, journalVars,
                   W!journalVars
  <2>2. Arrive => W!Arrive
    BY DEF Arrive, W!Arrive, Room, W!Room
  <2>3. Check => W!Check
    BY DEF Check, W!Check
  <2>4. Decide => W!Decide
    BY DEF Decide, W!Decide, NeedNextFile, W!NeedNextFile
  <2>5. CompareRun => W!CompareRun
    BY DEF CompareRun, W!CompareRun
  <2>6. SwitchRun => W!SwitchRun
    BY DEF SwitchRun, W!SwitchRun
  <2>7. ChooseIndex => W!ChooseIndex
    BY DEF ChooseIndex, W!ChooseIndex, JournalIndexes, W!JournalIndexes
  <2>8. Create => W!Create
    BY DEF Create, W!Create, Put, W!Put, Name, W!Name
  <2>9. UpdateJournal => W!UpdateJournal
    BY DEF UpdateJournal, W!UpdateJournal, Name, W!Name
  <2>10. Write => W!Write
    BY DEF Write, W!Write
  <2>11. Recheck => W!Recheck
    BY DEF Recheck, W!Recheck
  <2> QED
    BY <1>2, <2>2, <2>3, <2>4, <2>5, <2>6, <2>7, <2>8, <2>9, <2>10, <2>11
       DEF W!Next, W!Handle, W!OpenNextFile
<1>3. CASE CloseFirst
  <2>1. W!CloseFirst
    BY <1>0, <1>3, CloseMaps DEF CloseFirst, W!CloseFirst, Goto, W!Goto,
      controlVars, W!controlVars, journalVars, W!journalVars
  <2> QED
    BY <2>1 DEF W!Next, W!Handle, W!OpenNextFile
<1>4. CASE CloseStopped
  <2>1. W!CloseStopped
    BY <1>0, <1>4, CloseMaps DEF CloseStopped, W!CloseStopped, Goto, W!Goto,
      controlVars, W!controlVars, journalVars, W!journalVars
  <2> QED
    BY <2>1 DEF W!Next, W!Handle
<1>5. \/ \E r \in Runs : StartRun(r)
      \/ StartRunning \/ Stop \/ Throws \/ Crash \/ Arrive \/ Check \/ Decide
      \/ CompareRun \/ SwitchRun \/ ChooseIndex \/ Create \/ UpdateJournal
      \/ Write \/ Recheck
      => UNCHANGED published
  BY DEF StartRun, StartRunning, Stop, Throws, Crash, Arrive, Check, Decide,
         CompareRun, SwitchRun, ChooseIndex, Create, UpdateJournal, Write,
         Recheck, diskVars
<1> QED
  BY <1>1, <1>2, <1>3, <1>4, <1>5 DEF Next, ServerNext, Handle, OpenNextFile

\* A step of the script is no step of the writer: a file only leaves the
\* output directory when its content is in the archive.
LEMMA MoverStutters ==
    ASSUME MoverInv, MoverNext
    PROVE  UNCHANGED W!vars
<1>1. UNCHANGED EverPublished
  <2>1. CASE List \/ EndOfListing
    BY <2>1, SameDirectories DEF List, EndOfListing, vars
  <2>2. ASSUME NEW f \in listed, Open(f) PROVE UNCHANGED EverPublished
    BY <2>2 DEF Open, vars, Put, MoverInv, EverPublished
  <2>3. CASE Compress
    BY <2>3 DEF Compress, vars, MoverInv, EverPublished
  <2>4. CASE TakeAway
    <3>1. CASE UNCHANGED published
      BY <2>4, <3>1, SameDirectories DEF TakeAway
    <3>2. CASE published' = Remove(published, moving)
      BY <2>4, <3>2 DEF TakeAway, Remove, MoverInv, EverPublished
    <3> QED
      BY <2>4, <3>1, <3>2 DEF TakeAway
  <2> QED
    BY <2>1, <2>2, <2>3, <2>4 DEF MoverNext
<1> QED
  BY <1>1 DEF MoverNext, List, Open, Compress, TakeAway, EndOfListing, vars,
              W!vars, controlVars, fileVars, journalVars

\* What a step of the writer does to the output directory: it may add the
\* file that was open.
LEMMA WriterAdds ==
    ASSUME [Next]_vars
    PROVE  \/ UNCHANGED published
           \/ /\ currentFile # NoFile
              /\ published' =
                   Put(published, currentFile, inProgress[currentFile])
BY DEF Next, ServerNext, Handle, OpenNextFile, StartRun, StartRunning, Stop,
       Throws, Crash, Arrive, Check, Decide, CompareRun, SwitchRun,
       ChooseIndex, Create, UpdateJournal, Write, Recheck, CloseFirst,
       CloseStopped, CloseAndMove, Rename, diskVars, vars

\* The file that the writer publishes is new to both directories.
LEMMA WriterKeeps ==
    ASSUME BothInv, [Next]_vars, UNCHANGED moverVars
    PROVE  /\ \A f \in DOMAIN published :
                f \in DOMAIN published' /\ published'[f] = published[f]
           /\ \A f \in DOMAIN archive \ DOMAIN published :
                f \notin DOMAIN published' /\ archive'[f] = archive[f]
<1>1. currentFile # NoFile => currentFile \notin DOMAIN EverPublished
  BY DEF BothInv, W!JournalInv, W!NextInv
<1>2. currentFile # NoFile =>
        currentFile \notin DOMAIN published \cup DOMAIN archive
  BY <1>1 DEF EverPublished
<1>3. UNCHANGED archive
  BY DEF moverVars
<1> QED
  BY <1>2, <1>3, WriterAdds DEF Put

\* Every step that does not fail to write the journal keeps BothInv.
LEMMA BothStep ==
    ASSUME OnlyNewRuns, BothInv, [BothNext]_allVars, ~journalFailed'
    PROVE  BothInv'
<1>1. W!OnlyNewRuns
  BY DEF OnlyNewRuns, W!OnlyNewRuns
<1>2. [W!Next]_(W!vars)
  <2>1. CASE MoverNext
    BY <2>1, MoverStutters DEF BothInv
  <2>2. CASE Next /\ UNCHANGED moverVars
    BY <2>2, WriterMaps
  <2>3. CASE UNCHANGED allVars
    BY <2>3, SameDirectories DEF allVars, moverVars, vars, W!vars
  <2> QED
    BY <2>1, <2>2, <2>3 DEF BothNext
<1>3. W!BaseInv' /\ W!JournalInv'
  BY <1>1, <1>2, WriterAssumptions, W!BaseNext, W!JournalNext DEF BothInv
<1>4. MoverInv'
  <2> USE DEF BothInv, MoverInv
  <2>1. CASE List
    BY <2>1 DEF List, vars
  <2>2. ASSUME NEW f \in listed, Open(f) PROVE MoverInv'
    BY <2>2 DEF Open, vars, Put
  <2>3. CASE Compress
    BY <2>3 DEF Compress, vars
  <2>4. CASE TakeAway
    BY <2>4 DEF TakeAway, Remove
  <2>5. CASE EndOfListing
    BY <2>5 DEF EndOfListing, vars
  <2>6. CASE (Next /\ UNCHANGED moverVars) \/ UNCHANGED allVars
    <3>1. [Next]_vars /\ UNCHANGED moverVars
      BY <2>6 DEF allVars
    <3>2. \A f \in DOMAIN published :
            f \in DOMAIN published' /\ published'[f] = published[f]
      BY <3>1, WriterKeeps
    <3> QED
      BY <3>1, <3>2 DEF moverVars
  <2> QED
    BY <2>1, <2>2, <2>3, <2>4, <2>5, <2>6 DEF BothNext, MoverNext
<1> QED
  BY <1>3, <1>4 DEF BothInv

\* What a step leaves of the published and the archived files.
Archived ==
    /\ \A f \in DOMAIN published :
          \/ f \in DOMAIN published' /\ published'[f] = published[f]
          \/ archive'[f] = published[f]
    /\ \A f \in DOMAIN archive \ DOMAIN published :
          f \notin DOMAIN published' /\ archive'[f] = archive[f]

\* Every step keeps the files.
LEMMA BothKeeps ==
    ASSUME BothInv, [BothNext]_allVars
    PROVE  Archived
<1>1. CASE List \/ EndOfListing
  BY <1>1 DEF List, EndOfListing, vars, Archived
<1>2. ASSUME NEW f \in listed, Open(f) PROVE Archived
  BY <1>2 DEF Open, vars, Put, BothInv, MoverInv, Archived
<1>3. CASE Compress
  BY <1>3 DEF Compress, vars, BothInv, MoverInv, Archived
<1>4. CASE TakeAway
  BY <1>4 DEF TakeAway, Remove, BothInv, MoverInv, Archived
<1>5. CASE (Next /\ UNCHANGED moverVars) \/ UNCHANGED allVars
  <2>1. [Next]_vars /\ UNCHANGED moverVars
    BY <1>5 DEF allVars
  <2> QED
    BY <2>1, WriterKeeps DEF Archived
<1> QED
  BY <1>1, <1>2, <1>3, <1>4, <1>5 DEF BothNext, MoverNext

\* A journal that could not be written once is never relied on again.
LEMMA BothFailedStays ==
    ASSUME journalFailed, [BothNext]_allVars
    PROVE  journalFailed'
<1>1. CASE MoverNext
  BY <1>1 DEF MoverNext, List, Open, Compress, TakeAway, EndOfListing, vars,
              journalVars
<1>2. CASE Next \/ UNCHANGED allVars
  BY <1>2 DEF Next, ServerNext, Handle, OpenNextFile, StartRun, StartRunning,
    Stop, Arrive, Check, Decide, CloseFirst, CompareRun, SwitchRun,
    ChooseIndex, Create, UpdateJournal, Write, Recheck, CloseStopped, Throws,
    Crash, diskVars, journalVars, vars, allVars
<1> QED
  BY <1>1, <1>2 DEF BothNext

-----------------------------------------------------------------------------
(* Theorem                                                                 *)

\* As long as the journal could be written, a published file leaves only for
\* the archive, where it is whole and stays, and its name is never used again
\* (fileMover.py:16-26, output.cc:175).
THEOREM ArchiveSafety ==
    ASSUME OnlyNewRuns
    PROVE  BothSpec => ArchivedForGood
<1> DEFINE Guarded == ~journalFailed => BothInv
<1>1. MoverInit => Guarded
  BY BothInit
<1>2. Guarded /\ [BothNext]_allVars => Guarded'
  BY BothStep, BothFailedStays
<1>3. Guarded /\ [BothNext]_allVars => [~journalFailed => Archived]_allVars
  BY BothKeeps
<1> HIDE DEF Guarded
<1> QED
  BY <1>1, <1>2, <1>3, PTL DEF BothSpec, ArchivedForGood, Archived
=============================================================================
