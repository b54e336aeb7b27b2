---------------------------- MODULE OutputStream ----------------------------
(***************************************************************************)
(* The file writer of scdaq (OutputStream::operator()) against the run     *)
(* control server, which sets the run number and the running flag from its *)
(* own thread while packets are written.                                   *)
(*                                                                         *)
(* A file is named by its run and its index; its content is the number of  *)
(* packets in it.  `inProgress' and `published' are the files of the       *)
(* working directory and of the output directory: they and the journal     *)
(* outlive the process, everything else is lost with it.                   *)
(***************************************************************************)
EXTENDS Integers, Ctrl

CONSTANTS
    MaxFileSize,        \* max_file_size, in packets
    OutputForceWrite,   \* output_force_write
    GarbageIndexes,     \* what `index' can hold when it is not initialised
    MaxIndex,           \* bound: no new data once an index is here
    Faults,             \* what may go wrong, out of AllFaults
    NoFile,
    NoJournal

AllFaults == {"crash", "open", "write", "rename", "journal"}

ASSUME OutputAssumption ==
    /\ Runs \subseteq Nat \ {0}
    /\ MaxFileSize \in Nat
    /\ GarbageIndexes \subseteq Int
    /\ MaxIndex \in Nat
    /\ Faults \subseteq AllFaults
    /\ RunsIncrease \in BOOLEAN
    /\ OutputForceWrite \in BOOLEAN

FileName == [run : Runs \cup {0}, index : Int]

ASSUME NamesAssumption == NoFile \notin FileName /\ NoJournal \notin FileName

VARIABLES
    \* OutputStream and the place where its thread is
    pc, currentFile, currentFileSize, fileCount, currentRun,
    \* the disk
    inProgress, published, journal,
    \* history: the journal could not be written at some time
    journalFailed,
    \* history: every run that was on at some time since the packet was taken
    \* up
    window

fileVars == <<currentFile, currentFileSize, fileCount, currentRun>>
journalVars == <<journal, journalFailed>>
diskVars == <<inProgress, published, journal, journalFailed>>
vars == <<running, runNumber, starting, pc, currentFile, currentFileSize,
          fileCount, currentRun, inProgress, published, journal,
          journalFailed, commanded, active, window>>

Name(r, i) == [run |-> r, index |-> i]

Put(files, f, n) ==
    [g \in DOMAIN files \cup {f} |-> IF g = f THEN n ELSE files[g]]

Remove(files, f) == [g \in DOMAIN files \ {f} |-> files[g]]

\* Bound, which the code has not: an index is left for the file that the next
\* packet may open.  It holds up starts and packets, never the handling of one;
\* below MaxIndex a run is started, resumed and goes on with a journal, too.
Room ==
    /\ fileCount < MaxIndex
    /\ journal # NoJournal => journal.index < MaxIndex

Init ==
    /\ CtrlInit
    /\ pc = "idle"
    /\ currentFile = NoFile /\ currentFileSize = 0
    /\ fileCount = -1 /\ currentRun = 0
    /\ window = {}
    /\ inProgress = <<>> /\ published = <<>>
    /\ journal = NoJournal /\ journalFailed = FALSE

-----------------------------------------------------------------------------
(* session::process_command                                                *)

StartRun(r) ==
    /\ Room
    /\ StoreFirst(r)
    /\ window' = window \cup {r}
    /\ UNCHANGED <<pc, fileVars, diskVars>>

StartRunning == StoreSecond /\ UNCHANGED <<pc, window, fileVars, diskVars>>

Stop == StoreStop /\ UNCHANGED <<pc, window, fileVars, diskVars>>

-----------------------------------------------------------------------------
(* OutputStream::operator(), open_next_file, close_and_move_current_file   *)

Goto(from, to) == pc = from /\ pc' = to

\* A packet reaches the output filter.
Arrive ==
    /\ Goto("idle", "check")
    /\ running \/ OutputForceWrite => Room
    /\ UNCHANGED <<controlVars, fileVars, diskVars, window>>

\* The run status is read with acquire.
Check ==
    /\ pc = "check"
    /\ pc' = IF running \/ OutputForceWrite THEN "decide" ELSE "recheck"
    /\ window' = IF active THEN {commanded} ELSE {}
    /\ UNCHANGED <<controlVars, fileVars, diskVars>>

\* Mutant: the size of the file is not looked at.
NeedNextFileAnySize == currentFile = NoFile \/ currentRun # runNumber

NeedNextFile ==
    \/ currentFile = NoFile
    \/ currentFileSize > MaxFileSize
    \/ currentRun # runNumber

Decide ==
    /\ pc = "decide"
    /\ pc' = IF NeedNextFile THEN "close" ELSE "write"
    /\ UNCHANGED <<controlVars, fileVars, diskVars, window>>

\* rename replaces a file of the same name; that it failed is only logged.
Rename(f) ==
    \/ /\ published' = Put(published, f, inProgress[f])
       /\ inProgress' = Remove(inProgress, f)
    \/ "rename" \in Faults /\ UNCHANGED <<inProgress, published>>

\* Mutant: the size is not reset.
CloseAndMoveKeepsSize(count) ==
    IF currentFile = NoFile THEN UNCHANGED <<fileVars, inProgress, published>>
    ELSE /\ Rename(currentFile)
         /\ currentFile' = NoFile
         /\ fileCount' = count
         /\ UNCHANGED <<currentFileSize, currentRun>>

\* Close the file, if there is one, and leave file_count at `count'.
CloseAndMove(count) ==
    IF currentFile = NoFile THEN UNCHANGED <<fileVars, inProgress, published>>
    ELSE /\ Rename(currentFile)
         /\ currentFile' = NoFile
         /\ currentFileSize' = 0
         /\ fileCount' = count
         /\ UNCHANGED currentRun

CloseFirst ==
    /\ Goto("close", "compare")
    /\ CloseAndMove(fileCount + 1)
    /\ UNCHANGED <<controlVars, journalVars, window>>

\* Compare with the run number, then (in a second read) take it over.
CompareRun ==
    /\ pc = "compare"
    /\ pc' = IF currentRun # runNumber THEN "switch" ELSE "index"
    /\ UNCHANGED <<controlVars, fileVars, diskVars, window>>

SwitchRun ==
    /\ Goto("switch", "index")
    /\ currentRun' = runNumber
    /\ fileCount' = -1
    /\ UNCHANGED <<controlVars, currentFile, currentFileSize, diskVars, window>>

\* Mutant: the journal is not used.
JournalIndexesZero == {0}

\* The index that the journal gives to the first file of a run.  Without a
\* journal the two variables that are compared and used are uninitialised.
JournalIndexes ==
    IF journal = NoJournal THEN {0} \cup GarbageIndexes
    ELSE IF journal.run = currentRun THEN {journal.index}
    ELSE {0}

ChooseIndex ==
    /\ Goto("index", "create")
    /\ IF fileCount < 0 THEN fileCount' \in JournalIndexes
                        ELSE UNCHANGED fileCount
    /\ UNCHANGED <<controlVars, currentFile, currentFileSize, currentRun,
                   diskVars, window>>

\* fopen(..., "w") truncates a file of the same name.
Create ==
    /\ Goto("create", "journal")
    /\ currentFile' = Name(currentRun, fileCount)
    /\ inProgress' = Put(inProgress, Name(currentRun, fileCount), 0)
    /\ UNCHANGED <<controlVars, currentFileSize, fileCount, currentRun,
                   published, journalVars, window>>

\* Mutant: the journal names the file that was just opened.
UpdateJournalThisIndex ==
    /\ Goto("journal", "write")
    /\ journal' = Name(currentRun, fileCount)
    /\ UNCHANGED <<controlVars, fileVars, inProgress, published, journalFailed,
                   window>>

\* The new journal replaces the old one in one rename.  That it could not be
\* opened or renamed is only logged; what a full disk cut off reads as none.
UpdateJournal ==
    /\ Goto("journal", "write")
    /\ \/ /\ journal' = Name(currentRun, fileCount + 1)
          /\ UNCHANGED journalFailed
       \/ /\ "journal" \in Faults
          /\ ~journalFailed     \* bound: once
          /\ journal' \in {journal, NoJournal}
          /\ journalFailed' = TRUE
    /\ UNCHANGED <<controlVars, fileVars, inProgress, published, window>>

\* fwrite; that it wrote too little is only logged.
Write ==
    /\ Goto("write", "recheck")
    /\ \/ /\ inProgress' = [inProgress EXCEPT ![currentFile] = @ + 1]
          /\ currentFileSize' = currentFileSize + 1
       \/ "write" \in Faults /\ UNCHANGED <<inProgress, currentFileSize>>
    /\ UNCHANGED <<controlVars, currentFile, fileCount, currentRun, published,
                   journalVars, window>>

\* Mutant: the file is only closed when the next one is opened.
RecheckNever ==
    /\ Goto("recheck", "idle")
    /\ window' = {}
    /\ UNCHANGED <<controlVars, fileVars, diskVars>>

\* The run status is read again, after the packet was written.
Recheck ==
    /\ pc = "recheck"
    /\ IF ~running /\ currentFile # NoFile /\ ~OutputForceWrite
         THEN pc' = "stopped" /\ UNCHANGED window
         ELSE pc' = "idle" /\ window' = {}
    /\ UNCHANGED <<controlVars, fileVars, diskVars>>

CloseStopped ==
    /\ Goto("stopped", "idle")
    /\ CloseAndMove(-1)
    /\ window' = {}
    /\ UNCHANGED <<controlVars, journalVars>>

-----------------------------------------------------------------------------
(* The process ends and is started again                                   *)

\* The memory of the process that run.sh starts next.
Restart ==
    /\ Reset
    /\ pc' = "idle"
    /\ currentFile' = NoFile /\ currentFileSize' = 0
    /\ fileCount' = -1 /\ currentRun' = 0
    /\ window' = {}

\* An exception leaves main: the open file is flushed, but not moved.  The
\* writer throws when the file cannot be created; when the input throws, the
\* writer first finishes the packet it has.
Throws ==
    /\ \/ "crash" \in Faults /\ pc = "idle"
       \/ "open" \in Faults /\ pc = "create"
    /\ Restart
    /\ UNCHANGED diskVars

\* The process is killed or aborts: what stdio buffered is lost.
Crash ==
    /\ "crash" \in Faults
    /\ IF currentFile = NoFile THEN UNCHANGED inProgress
       ELSE \E n \in 0..inProgress[currentFile] :
              inProgress' = [inProgress EXCEPT ![currentFile] = n]
    /\ Restart
    /\ UNCHANGED <<published, journalVars>>

OpenNextFile ==
    CloseFirst \/ CompareRun \/ SwitchRun \/ ChooseIndex \/ Create
    \/ UpdateJournal

\* The steps of operator() once it has a packet.
Handle == Check \/ Decide \/ OpenNextFile \/ Write \/ Recheck \/ CloseStopped

ServerNext == (\E r \in Runs : StartRun(r)) \/ StartRunning \/ Stop

Next == ServerNext \/ Arrive \/ Handle \/ Throws \/ Crash

Spec == Init /\ [][Next]_vars

\* The board never stops sending packets and the two threads run.
FairSpec == Spec /\ WF_vars(Arrive) /\ WF_vars(Handle) /\ WF_vars(StartRunning)

-----------------------------------------------------------------------------
(* Properties                                                              *)

\* Every variable keeps its type, and without a file there is no size.
TypeOK ==
    /\ running \in BOOLEAN /\ starting \in BOOLEAN /\ active \in BOOLEAN
    /\ runNumber \in Runs \cup {0}
    /\ commanded \in Runs \cup {0}
    /\ window \subseteq Runs \cup {0}
    /\ pc \in {"idle", "check", "decide", "close", "compare", "switch",
               "index", "create", "journal", "write", "recheck", "stopped"}
    /\ currentFile \in FileName \cup {NoFile}
    /\ currentFileSize \in Nat
    /\ currentFile = NoFile => currentFileSize = 0
    /\ fileCount \in Int
    /\ currentRun \in Runs \cup {0}
    /\ DOMAIN inProgress \subseteq FileName
    /\ \A f \in DOMAIN inProgress : inProgress[f] \in Nat
    /\ DOMAIN published \subseteq FileName
    /\ \A f \in DOMAIN published : published[f] \in Nat
    /\ journal \in FileName \cup {NoJournal}
    /\ journalFailed \in BOOLEAN

\* Files that hold data, or that other programs may have taken away.
Taken == DOMAIN published \cup {f \in DOMAIN inProgress : inProgress[f] > 0}

\* Runs are not resumed once a later one was started, and nothing is written
\* outside runs.
OnlyNewRuns == RunsIncrease /\ ~OutputForceWrite

\* Whatever crashed when, the index in the journal lies above those of all the
\* files of its run, and its run is the last one that has files: it is safe
\* to start a run at 0 unless the journal names it, as long as the journal
\* could be written (output.cc:159-195).
JournalDominates ==
    OnlyNewRuns /\ ~journalFailed =>
        \A f \in Taken :
            /\ journal # NoJournal
            /\ f.run < journal.run
               \/ (f.run = journal.run /\ f.index < journal.index)

\* A file that was published is never replaced by another of its name, over
\* any number of files, runs, crashes and restarts, as long as the journal
\* could be written (output.cc:72, output.cc:139).  With output_force_write,
\* which is for debugging, run 0 comes back after a restart; this and the next
\* property are claimed with the option off (OnlyNewRuns).
PublishedImmutable ==
    [][~journalFailed => \A f \in DOMAIN published :
         f \in DOMAIN published' /\ published'[f] = published[f]]_vars

\* What was written to a file stays in it, in the working directory or in the
\* output directory: only a crash loses what stdio had buffered.  In
\* particular no file with data is truncated by fopen, as long as the journal
\* could be written (output.cc:187).
WrittenStays ==
    [][journalFailed \/ Crash \/
         \A f \in DOMAIN inProgress : inProgress[f] > 0 =>
         \/ f \in DOMAIN inProgress' /\ inProgress'[f] >= inProgress[f]
         \/ f \in DOMAIN published' /\ published'[f] = inProgress[f]]_vars

\* A packet is only written to the file of a run that was on at some time
\* since the packet was taken up, however start and stop commands interleave
\* with the handling of the packet (session.h:72, output.cc:94-99).
RunAttribution ==
    pc = "write" /\ ~OutputForceWrite =>
        /\ currentFile # NoFile /\ currentFile.run = currentRun
        /\ currentRun \in window

\* No file, open, published or left over by a crash, is longer than
\* max_file_size and one packet (output.cc:95).
FilesBounded ==
    /\ \A f \in DOMAIN inProgress : inProgress[f] <= MaxFileSize + 1
    /\ \A f \in DOMAIN published : published[f] <= MaxFileSize + 1
    /\ currentFile # NoFile => currentFileSize <= inProgress[currentFile]

\* Once a run is stopped for good, its last file is closed.
StopCloses == <>[]~running => <>[](currentFile = NoFile)

\* Once a run is stopped for good, no file remains in the working directory.
StopPublishes == <>[]~running => <>[](inProgress = <<>>)
=============================================================================
