------------------------ MODULE OutputJournalProofs ------------------------
(***************************************************************************)
(* Why the journal of OutputStream is safe to start from, for any runs,    *)
(* sizes and crashes: the invariant that relates the journal on disk to    *)
(* the counters in memory, and what follows for the files.                 *)
(***************************************************************************)
EXTENDS OutputStreamProofs

-----------------------------------------------------------------------------
(* The inductive invariant                                                 *)

\* The runs only grow: the one that was commanded last bounds the others.
RunsInv ==
    /\ runNumber = 0 \/ runNumber = commanded
    /\ pc \in {"decide", "close", "compare", "switch", "index", "create",
               "journal"} => runNumber = commanded
    /\ currentRun <= commanded
    /\ journal # NoJournal => journal.run <= commanded

\* The journal names the file after the open one, or, when no file is open
\* and the index is known, the next one; while a file is opened it does not
\* name a later one.
NextInv ==
    /\ currentFile # NoFile /\ pc # "journal" =>
         journal = Name(currentRun, fileCount + 1)
    /\ currentFile = NoFile /\ fileCount >= 0 /\ pc # "create" =>
         journal = Name(currentRun, fileCount)
    /\ pc \in {"index", "create", "journal"} /\ journal # NoJournal =>
         journal.run <= currentRun
    /\ pc \in {"create", "journal"} /\ journal # NoJournal
         /\ journal.run = currentRun => journal.index = fileCount
    /\ pc = "journal" => inProgress[currentFile] = 0
    /\ currentFile # NoFile => currentFile \notin DOMAIN published

\* The file f has a lower run, or a lower index, than the journal.
BelowJournal(f) ==
    /\ journal # NoJournal
    /\ f.run < journal.run \/ (f.run = journal.run /\ f.index < journal.index)

DominatesInv == \A f \in Taken : BelowJournal(f)

JournalInv == RunsInv /\ NextInv /\ DominatesInv

-----------------------------------------------------------------------------
(* The lemmas                                                              *)

\* A name is made of a run number, which is a natural number, and an index.
LEMMA NameFields ==
    ASSUME NEW f \in FileName
    PROVE  f.run \in Nat /\ f.index \in Int
<1>1. f.run \in Runs \cup {0} /\ f.index \in Int
  BY DEF FileName
<1>2. Runs \cup {0} \subseteq Nat
  BY OutputAssumption DEF OutputAssumption
<1> QED
  BY <1>1, <1>2

\* The run numbers are natural numbers.
LEMMA RunTypes ==
    ASSUME TypeOK
    PROVE  /\ runNumber \in Nat /\ commanded \in Nat /\ currentRun \in Nat
           /\ fileCount \in Int
           /\ journal # NoJournal => journal.run \in Nat /\ journal.index \in Int
<1>1. journal # NoJournal => journal \in FileName
  BY DEF TypeOK
<1>2. journal # NoJournal => journal.run \in Nat /\ journal.index \in Int
  BY <1>1, NameFields
<1> QED
  BY <1>2, OutputAssumption DEF OutputAssumption, TypeOK

LEMMA JournalInit == Init => JournalInv
<1> SUFFICES ASSUME Init PROVE JournalInv
  OBVIOUS
<1>1. RunsInv
  BY DEF Init, CtrlInit, RunsInv
<1>2. NextInv
  BY DEF Init, CtrlInit, NextInv
<1>3. Taken = {}
  BY DEF Init, CtrlInit, Taken
<1> QED
  BY <1>1, <1>2, <1>3 DEF JournalInv, DominatesInv

\* A step that leaves the disk alone leaves DominatesInv alone.
LEMMA SameDisk ==
    ASSUME DominatesInv, UNCHANGED diskVars
    PROVE  DominatesInv'
BY DEF DominatesInv, diskVars, Taken, BelowJournal

\* Closing the file loses none that holds data, and adds the one that is
\* closed at most.
LEMMA CloseTaken ==
    ASSUME BaseInv, NEW count \in Int, CloseAndMove(count)
    PROVE  /\ Taken' \subseteq Taken \cup ({currentFile} \ {NoFile})
           /\ currentFile = NoFile => fileCount' = fileCount
           /\ currentFile # NoFile => fileCount' = count
<1>1. CASE currentFile = NoFile
  BY <1>1 DEF CloseAndMove, fileVars, Taken
<1>2. CASE currentFile # NoFile
  <2>1. Rename(currentFile) /\ fileCount' = count
    BY <1>2 DEF CloseAndMove
  <2>2. CASE /\ published' = Put(published, currentFile, inProgress[currentFile])
             /\ inProgress' = Remove(inProgress, currentFile)
    BY <1>2, <2>1, <2>2 DEF Put, Remove, Taken
  <2>3. CASE UNCHANGED <<inProgress, published>>
    BY <1>2, <2>1, <2>3 DEF Taken
  <2> QED
    BY <2>1, <2>2, <2>3 DEF Rename
<1> QED
  BY <1>1, <1>2

\* The file that is open, with a journal that was written for it, and every
\* file that holds data is below the journal.
LEMMA OpenIsBelow ==
    ASSUME BaseInv, JournalInv, currentFile # NoFile, pc # "journal"
    PROVE  BelowJournal(currentFile)
<1>1. /\ currentFile = Name(currentRun, fileCount)
      /\ journal = Name(currentRun, fileCount + 1)
  BY DEF BaseInv, OpenInv, JournalInv, NextInv
<1>2. /\ currentRun \in Runs \cup {0}
      /\ fileCount \in Int /\ fileCount + 1 \in Int
  BY DEF BaseInv, TypeOK
<1>3. journal # NoJournal /\ journal.run = currentRun
      /\ journal.index = fileCount + 1
  BY <1>1, <1>2, NameType
<1>4. currentFile.run = currentRun /\ currentFile.index = fileCount
  BY <1>1, <1>2, NameType
<1>5. fileCount < fileCount + 1
  BY <1>2
<1> QED
  BY <1>3, <1>4, <1>5 DEF BelowJournal

\* The file that is about to be created holds no data.
LEMMA CreateIsNew ==
    ASSUME BaseInv, JournalInv, pc = "create"
    PROVE  Name(currentRun, fileCount) \notin Taken
<1> DEFINE n == Name(currentRun, fileCount)
<1>1. n.run = currentRun /\ n.index = fileCount
  BY NameType DEF BaseInv, TypeOK
<1>2. SUFFICES ASSUME n \in Taken PROVE FALSE
  OBVIOUS
<1>3. BelowJournal(n)
  BY <1>2 DEF JournalInv, DominatesInv
<1>4. /\ journal.run <= currentRun
      /\ journal.run = currentRun => journal.index = fileCount
  BY <1>3 DEF JournalInv, NextInv, BelowJournal
<1> HIDE DEF n
<1>5. /\ currentRun \in Nat /\ fileCount \in Int
      /\ journal.run \in Nat /\ journal.index \in Int
  BY <1>3, RunTypes DEF BaseInv, BelowJournal
<1> QED
  BY <1>1, <1>3, <1>4, <1>5 DEF BelowJournal

\* Every step that does not fail to write the journal keeps JournalInv: one
\* step of the proof per action.
LEMMA JournalNext ==
    ASSUME OnlyNewRuns, BaseInv, JournalInv, [Next]_vars, ~journalFailed'
    PROVE  JournalInv'
<1> USE DEF JournalInv
<1>0. RunsIncrease /\ ~OutputForceWrite
  BY DEF OnlyNewRuns
<1>1. ASSUME NEW r \in Runs, StartRun(r) PROVE JournalInv'
  <2>1. RunsInv'
    BY <1>1, <1>0, RunTypes, OutputAssumption
       DEF OutputAssumption, StartRun, StoreFirst, Store, Stores, RunsInv,
           NextInv, BaseInv, WindowInv, OpenInv, controlVars, fileVars,
           diskVars
  <2>2. NextInv'
    BY <1>1, <1>0, RunTypes DEF StartRun, StoreFirst, Store, Stores, RunsInv,
                                NextInv, BaseInv, OpenInv, controlVars,
                                fileVars, diskVars
  <2>3. DominatesInv'
    BY <1>1, SameDisk DEF StartRun, StoreFirst, Store, Stores, diskVars
  <2> QED
    BY <2>1, <2>2, <2>3
<1>2. CASE StartRunning
  <2>1. RunsInv'
    BY <1>2, <1>0, RunTypes DEF StartRunning, StoreSecond, Store, Stores,
                                RunsInv, NextInv, BaseInv, WindowInv, OpenInv,
                                controlVars, fileVars, diskVars
  <2>2. NextInv'
    BY <1>2, <1>0, RunTypes DEF StartRunning, StoreSecond, Store, Stores,
                                RunsInv, NextInv, BaseInv, OpenInv,
                                controlVars, fileVars, diskVars
  <2>3. DominatesInv'
    BY <1>2, SameDisk DEF StartRunning, StoreSecond, Store, Stores, diskVars
  <2> QED
    BY <2>1, <2>2, <2>3
<1>3. CASE Stop
  <2>1. RunsInv'
    BY <1>3, <1>0, RunTypes DEF Stop, StoreStop, RunsInv, NextInv, BaseInv,
                                WindowInv, OpenInv, controlVars, fileVars,
                                diskVars
  <2>2. NextInv'
    BY <1>3, <1>0, RunTypes DEF Stop, StoreStop, RunsInv, NextInv, BaseInv,
                                OpenInv, controlVars, fileVars, diskVars
  <2>3. DominatesInv'
    BY <1>3, SameDisk DEF Stop, StoreStop, diskVars
  <2> QED
    BY <2>1, <2>2, <2>3
<1>4. CASE Arrive
  <2>1. RunsInv'
    BY <1>4, <1>0, RunTypes DEF Arrive, Goto, RunsInv, NextInv, BaseInv,
                                WindowInv, OpenInv, controlVars, fileVars,
                                diskVars
  <2>2. NextInv'
    BY <1>4, <1>0, RunTypes DEF Arrive, Goto, RunsInv, NextInv, BaseInv,
                                OpenInv, controlVars, fileVars, diskVars
  <2>3. DominatesInv'
    BY <1>4, SameDisk DEF Arrive, Goto, diskVars
  <2> QED
    BY <2>1, <2>2, <2>3
<1>5. CASE Check
  <2>1. RunsInv'
    BY <1>5, <1>0, RunTypes DEF Check, RunsInv, NextInv, BaseInv, WindowInv,
                                OpenInv, controlVars, fileVars, diskVars
  <2>2. NextInv'
    BY <1>5, <1>0, RunTypes DEF Check, RunsInv, NextInv, BaseInv, OpenInv,
                                controlVars, fileVars, diskVars
  <2>3. DominatesInv'
    BY <1>5, SameDisk DEF Check, diskVars
  <2> QED
    BY <2>1, <2>2, <2>3
<1>6. CASE Decide
  <2>1. RunsInv'
    BY <1>6, <1>0, RunTypes DEF Decide, RunsInv, NextInv, BaseInv, WindowInv,
                                OpenInv, controlVars, fileVars, diskVars
  <2>2. NextInv'
    BY <1>6, <1>0, RunTypes DEF Decide, RunsInv, NextInv, BaseInv, OpenInv,
                                controlVars, fileVars, diskVars
  <2>3. DominatesInv'
    BY <1>6, SameDisk DEF Decide, diskVars
  <2> QED
    BY <2>1, <2>2, <2>3
<1>7. CASE CompareRun
  <2>1. RunsInv'
    BY <1>7, <1>0, RunTypes DEF CompareRun, RunsInv, NextInv, BaseInv,
                                WindowInv, OpenInv, controlVars, fileVars,
                                diskVars
  <2>2. NextInv'
    BY <1>7, <1>0, RunTypes DEF CompareRun, RunsInv, NextInv, BaseInv, OpenInv,
                                controlVars, fileVars, diskVars
  <2>3. DominatesInv'
    BY <1>7, SameDisk DEF CompareRun, diskVars
  <2> QED
    BY <2>1, <2>2, <2>3
<1>8. CASE SwitchRun
  <2>1. RunsInv'
    BY <1>8, <1>0, RunTypes DEF SwitchRun, Goto, RunsInv, NextInv, BaseInv,
                                WindowInv, OpenInv, controlVars, fileVars,
                                diskVars
  <2>2. NextInv'
    BY <1>8, <1>0, RunTypes DEF SwitchRun, Goto, RunsInv, NextInv, BaseInv,
                                OpenInv, controlVars, fileVars, diskVars
  <2>3. DominatesInv'
    BY <1>8, SameDisk DEF SwitchRun, Goto, diskVars
  <2> QED
    BY <2>1, <2>2, <2>3
<1>9. CASE Recheck
  <2>1. RunsInv'
    BY <1>9, <1>0, RunTypes DEF Recheck, RunsInv, NextInv, BaseInv, WindowInv,
                                OpenInv, controlVars, fileVars, diskVars
  <2>2. NextInv'
    BY <1>9, <1>0, RunTypes DEF Recheck, RunsInv, NextInv, BaseInv, OpenInv,
                                controlVars, fileVars, diskVars
  <2>3. DominatesInv'
    BY <1>9, SameDisk DEF Recheck, diskVars
  <2> QED
    BY <2>1, <2>2, <2>3
<1>10. CASE Throws
  <2>1. RunsInv'
    BY <1>10, <1>0, RunTypes DEF Throws, Restart, Reset, RunsInv, NextInv,
                                 BaseInv, WindowInv, OpenInv, controlVars,
                                 fileVars, diskVars
  <2>2. NextInv'
    BY <1>10, <1>0, RunTypes DEF Throws, Restart, Reset, RunsInv, NextInv,
                                 BaseInv, OpenInv, controlVars, fileVars,
                                 diskVars
  <2>3. DominatesInv'
    BY <1>10, SameDisk DEF Throws, Restart, Reset, diskVars
  <2> QED
    BY <2>1, <2>2, <2>3
<1>11. CASE ChooseIndex
  <2>1. RunsInv'
    BY <1>11, <1>0
       DEF ChooseIndex, Goto, RunsInv, controlVars, diskVars
  <2>2. currentFile = NoFile /\ pc = "index" /\ pc' = "create"
    BY <1>11 DEF ChooseIndex, Goto, BaseInv, OpenInv
  <2>3. UNCHANGED <<currentFile, currentRun, journal>>
    BY <1>11 DEF ChooseIndex, diskVars
  <2>4. journal # NoJournal /\ journal.run = currentRun =>
          journal.index = fileCount'
    <3>1. CASE fileCount < 0
      BY <1>11, <3>1 DEF ChooseIndex, JournalIndexes
    <3>2. CASE ~(fileCount < 0)
      <4>1. fileCount' = fileCount /\ fileCount >= 0 /\ fileCount \in Int
        BY <1>11, <3>2 DEF ChooseIndex, BaseInv, TypeOK
      <4>2. journal = Name(currentRun, fileCount)
        BY <2>2, <4>1 DEF NextInv
      <4>3. journal.index = fileCount
        BY <4>1, <4>2, NameType DEF BaseInv, TypeOK
      <4> QED
        BY <4>1, <4>3
    <3> QED
      BY <3>1, <3>2
  <2>5. NextInv'
    BY <2>2, <2>3, <2>4 DEF NextInv
  <2>6. DominatesInv'
    BY <1>11, SameDisk DEF ChooseIndex, diskVars
  <2> QED
    BY <2>1, <2>5, <2>6
<1>12. CASE Create
  <2> DEFINE f == Name(currentRun, fileCount)
  <2>1. RunsInv'
    BY <1>12, <1>0
       DEF journalVars, Create, Goto, RunsInv, controlVars, diskVars
  <2>2. pc = "create" /\ pc' = "journal" /\ f \notin Taken
    BY <1>12, CreateIsNew DEF Create, Goto
  <2>3. /\ UNCHANGED <<currentRun, fileCount, journal, published>>
        /\ currentFile' = f /\ inProgress' = Put(inProgress, f, 0)
    BY <1>12 DEF journalVars, Create
  <2>4. inProgress'[f] = 0 /\ f \notin DOMAIN published
    BY <2>2, <2>3 DEF Put, Taken
  <2>5. f # NoFile
    BY NameType DEF BaseInv, TypeOK
  <2> HIDE DEF f
  <2>6. NextInv'
    BY <2>2, <2>3, <2>4, <2>5 DEF NextInv
  <2>7. Taken' \subseteq Taken
    BY <2>3 DEF Put, Taken
  <2>8. DominatesInv'
    BY <2>3, <2>7 DEF DominatesInv, BelowJournal
  <2> QED
    BY <2>1, <2>6, <2>8
<1>13. CASE UpdateJournal
  <2>1. /\ pc = "journal" /\ pc' = "write" /\ currentFile # NoFile
        /\ journal' = Name(currentRun, fileCount + 1)
        /\ UNCHANGED <<currentFile, currentRun, fileCount, inProgress, published>>
    BY <1>13, <1>0
       DEF UpdateJournal, Goto, fileVars, BaseInv, OpenInv
  <2>2. /\ currentRun \in Runs \cup {0} /\ currentRun \in Nat
        /\ fileCount \in Int /\ fileCount + 1 \in Int
    BY RunTypes DEF BaseInv, TypeOK
  <2>3. /\ journal' # NoJournal /\ journal'.run = currentRun
        /\ journal'.index = fileCount + 1
    BY <2>1, <2>2, NameType
  <2>4. UNCHANGED <<runNumber, commanded>>
    BY <1>13 DEF UpdateJournal, controlVars
  <2>5. RunsInv'
    BY <2>1, <2>3, <2>4 DEF RunsInv
  <2>6. NextInv'
    BY <2>1 DEF NextInv
  <2>7. ASSUME NEW f \in Taken PROVE BelowJournal(f)'
    <3>1. /\ journal # NoJournal
          /\ f.run < journal.run
             \/ (f.run = journal.run /\ f.index < journal.index)
      BY <2>7 DEF DominatesInv, BelowJournal
    <3>2. /\ journal.run <= currentRun
          /\ journal.run = currentRun => journal.index = fileCount
      BY <2>1, <3>1 DEF NextInv
    <3>3. journal.run \in Nat /\ journal.index \in Int
      BY <3>1, RunTypes DEF BaseInv
    <3>4. f \in FileName
      BY <2>7 DEF Taken, BaseInv, TypeOK
    <3>5. f.run \in Nat /\ f.index \in Int
      BY <3>4, NameFields
    <3>6. f.run < currentRun \/ (f.run = currentRun /\ f.index < fileCount + 1)
      BY <2>2, <3>1, <3>2, <3>3, <3>5
    <3> QED
      BY <2>3, <3>6 DEF BelowJournal
  <2>8. DominatesInv'
    <3>1. Taken' = Taken
      BY <2>1 DEF Taken
    <3> QED
      BY <2>7, <3>1 DEF DominatesInv
  <2> QED
    BY <2>5, <2>6, <2>8
<1>14. CASE Write
  <2>1. RunsInv'
    BY <1>14, <1>0
       DEF journalVars, Write, Goto, RunsInv, controlVars
  <2>2. /\ pc = "write" /\ pc' = "recheck" /\ currentFile # NoFile
        /\ UNCHANGED <<currentFile, currentRun, fileCount, published, journal>>
    BY <1>14 DEF journalVars, Write, Goto, BaseInv, OpenInv
  <2>3. NextInv'
    BY <2>2 DEF NextInv
  <2>4. Taken' \subseteq Taken \cup {currentFile}
    BY <1>14, <2>2 DEF Write, Taken
  <2>5. BelowJournal(currentFile)
    BY <2>2, OpenIsBelow
  <2>6. DominatesInv'
    BY <2>2, <2>4, <2>5 DEF DominatesInv, BelowJournal
  <2> QED
    BY <2>1, <2>3, <2>6
<1>15. CASE CloseFirst
  <2>1. /\ pc = "close" /\ pc' = "compare"
        /\ UNCHANGED <<runNumber, commanded, journal>>
        /\ CloseAndMove(fileCount + 1) /\ fileCount + 1 \in Int
    BY <1>15 DEF journalVars, CloseFirst, Goto, controlVars, BaseInv, TypeOK
  <2>2. currentFile' = NoFile /\ currentRun' = currentRun
    BY <2>1, CloseBase
  <2>3. RunsInv'
    BY <2>1, <2>2 DEF RunsInv
  <2>4. /\ Taken' \subseteq Taken \cup ({currentFile} \ {NoFile})
        /\ currentFile = NoFile => fileCount' = fileCount
        /\ currentFile # NoFile => fileCount' = fileCount + 1
    BY <2>1, CloseTaken
  <2>5. NextInv'
    BY <2>1, <2>2, <2>4 DEF NextInv
  <2>6. DominatesInv'
    BY <2>1, <2>4, OpenIsBelow DEF DominatesInv, BelowJournal
  <2> QED
    BY <2>3, <2>5, <2>6
<1>16. CASE CloseStopped
  <2>1. /\ pc = "stopped" /\ pc' = "idle"
        /\ UNCHANGED <<runNumber, commanded, journal>>
        /\ CloseAndMove(-1) /\ -1 \in Int
    BY <1>16 DEF journalVars, CloseStopped, Goto, controlVars, BaseInv, TypeOK
  <2>2. currentFile' = NoFile /\ currentRun' = currentRun
    BY <2>1, CloseBase
  <2>3. RunsInv'
    BY <2>1, <2>2 DEF RunsInv
  <2>4. /\ Taken' \subseteq Taken \cup ({currentFile} \ {NoFile})
        /\ currentFile = NoFile => fileCount' = fileCount
        /\ currentFile # NoFile => fileCount' = -1
    BY <2>1, CloseTaken
  <2>5. NextInv'
    BY <2>1, <2>2, <2>4 DEF NextInv
  <2>6. DominatesInv'
    BY <2>1, <2>4, OpenIsBelow DEF DominatesInv, BelowJournal
  <2> QED
    BY <2>3, <2>5, <2>6
<1>17. CASE Crash
  <2>1. /\ pc' = "idle" /\ currentFile' = NoFile
        /\ runNumber' = 0 /\ currentRun' = 0
        /\ UNCHANGED <<published, journal, commanded>>
    BY <1>17 DEF journalVars, Crash, Restart, Reset
  <2>2. fileCount' = -1 /\ ~(fileCount' >= 0)
    BY <1>17 DEF Crash, Restart, Reset
  <2>3. RunsInv'
    BY <2>1, RunTypes DEF RunsInv, BaseInv
  <2>4. NextInv'
    BY <2>1, <2>2 DEF NextInv
  <2>5. Taken' \subseteq Taken
    <3>1. CASE currentFile = NoFile
      BY <1>17, <2>1, <3>1 DEF Crash, Taken
    <3>2. CASE currentFile # NoFile
      <4>1. PICK n \in 0..inProgress[currentFile] :
              inProgress' = [inProgress EXCEPT ![currentFile] = n]
        BY <1>17, <3>2 DEF Crash
      <4>2. /\ currentFile \in DOMAIN inProgress
            /\ inProgress[currentFile] \in Nat
        BY <3>2 DEF BaseInv, OpenInv, TypeOK
      <4>3. n > 0 => inProgress[currentFile] > 0
        BY <4>1, <4>2
      <4> QED
        BY <2>1, <4>1, <4>2, <4>3 DEF Taken
    <3> QED
      BY <3>1, <3>2
  <2>6. DominatesInv'
    BY <2>1, <2>5 DEF DominatesInv, BelowJournal
  <2> QED
    BY <2>3, <2>4, <2>6
<1>18. CASE UNCHANGED vars
  BY <1>18 DEF vars, RunsInv, NextInv, DominatesInv, Taken, BelowJournal
<1> QED
  BY <1>1, <1>2, <1>3, <1>4, <1>5, <1>6, <1>7, <1>8, <1>9, <1>10, <1>11, <1>12, <1>13, <1>14, <1>15, <1>16, <1>17, <1>18
     DEF Next, ServerNext, Handle, OpenNextFile

-----------------------------------------------------------------------------
(* Theorems                                                                *)

\* A journal that could not be written once is never relied on again.
LEMMA FailedStays ==
    ASSUME journalFailed, [Next]_vars
    PROVE  journalFailed'
BY DEF Next, ServerNext, Handle, OpenNextFile, StartRun, StartRunning, Stop,
       Arrive, Check, Decide, CloseFirst, CompareRun, SwitchRun, ChooseIndex,
       Create, UpdateJournal, Write, Recheck, CloseStopped, Throws, Crash,
       diskVars, journalVars, vars

GuardedInv == BaseInv /\ (~journalFailed => JournalInv)

\* GuardedInv is an invariant.
LEMMA JournalSafety ==
    ASSUME OnlyNewRuns
    PROVE  Spec => []GuardedInv
<1>1. Init => GuardedInv
  BY BaseInit, JournalInit DEF GuardedInv
<1>2. GuardedInv /\ [Next]_vars => GuardedInv'
  BY BaseNext, JournalNext, FailedStays DEF GuardedInv
<1> QED
  BY <1>1, <1>2, PTL DEF Spec

\* As long as the journal could be written it names a file above all that
\* exist, whenever the process was killed and started again
\* (output.cc:159-195).
THEOREM JournalIsSafe == Spec => []JournalDominates
<1>1. GuardedInv => JournalDominates
  BY DEF GuardedInv, JournalInv, DominatesInv, BelowJournal, JournalDominates
<1>2. CASE OnlyNewRuns
  <2>1. Spec => []GuardedInv
    BY <1>2, JournalSafety
  <2> QED
    BY <2>1, <1>1, PTL
<1>3. CASE ~OnlyNewRuns
  <2>1. JournalDominates
    BY <1>3 DEF JournalDominates
  <2> QED
    BY <2>1, PTL
<1> QED
  BY <1>2, <1>3

\* What a step leaves of the files: those that were published, and what was
\* written to the others.
Kept == /\ \A f \in DOMAIN published :
             f \in DOMAIN published' /\ published'[f] = published[f]
        /\ Crash \/ \A f \in DOMAIN inProgress : inProgress[f] > 0 =>
             \/ f \in DOMAIN inProgress' /\ inProgress'[f] >= inProgress[f]
             \/ f \in DOMAIN published' /\ published'[f] = inProgress[f]

\* Renaming the open file, or none, keeps the files.
LEMMA CloseKeeps ==
    ASSUME BaseInv, JournalInv, NEW count \in Int, CloseAndMove(count)
    PROVE  Kept
<1>1. \A f \in DOMAIN inProgress : inProgress[f] \in Nat
  BY DEF BaseInv, TypeOK
<1>2. CASE UNCHANGED <<inProgress, published>>
  BY <1>1, <1>2 DEF Kept
<1>3. CASE /\ currentFile # NoFile
           /\ published' = Put(published, currentFile, inProgress[currentFile])
           /\ inProgress' = Remove(inProgress, currentFile)
  <2>1. /\ DOMAIN published' = DOMAIN published \cup {currentFile}
        /\ published'[currentFile] = inProgress[currentFile]
        /\ \A f \in DOMAIN published : f # currentFile =>
             published'[f] = published[f]
    BY <1>3 DEF Put
  <2>2. currentFile \notin DOMAIN published
    BY <1>3 DEF JournalInv, NextInv
  <2>3. /\ DOMAIN inProgress' = DOMAIN inProgress \ {currentFile}
        /\ \A f \in DOMAIN inProgress' : inProgress'[f] = inProgress[f]
    BY <1>3 DEF Remove
  <2> QED
    BY <1>1, <2>1, <2>2, <2>3 DEF Kept
<1> QED
  BY <1>2, <1>3 DEF CloseAndMove, Rename

\* Every step keeps the files: one step of the proof per action that changes
\* them.
LEMMA StepKeeps ==
    ASSUME BaseInv, JournalInv, [Next]_vars
    PROVE  Kept
<1>1. \A f \in DOMAIN inProgress : inProgress[f] \in Nat
  BY DEF BaseInv, TypeOK
<1>2. CASE CloseFirst
  BY <1>2, CloseKeeps DEF CloseFirst, BaseInv, TypeOK
<1>3. CASE CloseStopped
  <2>1. -1 \in Int /\ CloseAndMove(-1)
    BY <1>3 DEF CloseStopped
  <2> QED
    BY <2>1, CloseKeeps
<1>4. CASE Create
  <2>1. Name(currentRun, fileCount) \notin Taken
    BY <1>4, CreateIsNew DEF Create, Goto
  <2> QED
    BY <1>1, <1>4, <2>1 DEF Create, Put, Taken, Kept
<1>5. CASE Write
  BY <1>1, <1>5 DEF Write, Kept
<1>6. CASE Crash
  BY <1>6 DEF Crash, Kept
<1>7. CASE UNCHANGED <<inProgress, published>>
  BY <1>1, <1>7 DEF Kept
<1>8. CASE (\E r \in Runs : StartRun(r)) \/ StartRunning \/ Stop \/ Arrive
             \/ Check \/ Decide \/ CompareRun \/ SwitchRun \/ ChooseIndex
             \/ UpdateJournal \/ Recheck \/ Throws \/ UNCHANGED vars
  BY <1>7, <1>8
     DEF StartRun, StoreFirst, StartRunning, StoreSecond, Stop, StoreStop,
         Arrive, Check, Decide, CompareRun, SwitchRun, ChooseIndex,
         UpdateJournal, Recheck, Throws, diskVars, vars
<1> QED
  BY <1>2, <1>3, <1>4, <1>5, <1>6, <1>8
     DEF Next, ServerNext, Handle, OpenNextFile

\* A published file is never replaced, as long as the journal could be written
\* (output.cc:139).
THEOREM PublishedSafety ==
    ASSUME OnlyNewRuns
    PROVE  Spec => PublishedImmutable
<1>1. GuardedInv /\ [Next]_vars =>
        [~journalFailed => \A f \in DOMAIN published :
           f \in DOMAIN published' /\ published'[f] = published[f]]_vars
  BY StepKeeps DEF GuardedInv, Kept
<1> QED
  BY <1>1, JournalSafety, PTL DEF Spec, PublishedImmutable

\* No file that holds data is truncated or lost, as long as the journal could
\* be written (output.cc:187).
THEOREM WrittenSafety ==
    ASSUME OnlyNewRuns
    PROVE  Spec => WrittenStays
<1>1. GuardedInv /\ [Next]_vars =>
        [journalFailed \/ Crash \/
         \A f \in DOMAIN inProgress : inProgress[f] > 0 =>
           \/ f \in DOMAIN inProgress' /\ inProgress'[f] >= inProgress[f]
           \/ f \in DOMAIN published' /\ published'[f] = inProgress[f]]_vars
  BY StepKeeps DEF GuardedInv, Kept
<1> QED
  BY <1>1, JournalSafety, PTL DEF Spec, WrittenStays
=============================================================================
