------------------------- MODULE OutputStreamProofs -------------------------
(***************************************************************************)
(* Proofs about OutputStream, for any runs, indexes, sizes and faults.     *)
(***************************************************************************)
EXTENDS OutputStream, TLAPS

-----------------------------------------------------------------------------
(* Types, the open file and the runs of a packet                           *)

\* Where the writer has no file, and where it must have one.
OpenInv ==
    /\ currentFile # NoFile => /\ currentFile = Name(currentRun, fileCount)
                               /\ currentFile \in DOMAIN inProgress
    /\ pc \in {"compare", "switch", "index", "create"} => currentFile = NoFile
    /\ pc \in {"journal", "write"} => currentFile # NoFile

\* The size that the writer keeps is that of its file, and it is looked at
\* before every write.
SizeInv ==
    /\ currentFile # NoFile => inProgress[currentFile] = currentFileSize
    /\ pc = "journal" => currentFileSize = 0
    /\ pc = "write" => currentFileSize <= MaxFileSize
    /\ \A f \in DOMAIN inProgress : inProgress[f] <= MaxFileSize + 1
    /\ \A f \in DOMAIN published : published[f] <= MaxFileSize + 1

\* While a packet is handled that was taken up when running was set, the run
\* number that the writer can read is one that was on since.
WindowInv ==
    ~OutputForceWrite =>
      /\ running \/ starting => active /\ runNumber = commanded
      /\ pc \in {"decide", "close", "compare", "switch", "index", "create",
                 "journal"} => runNumber \in window
      /\ pc \in {"index", "create", "journal", "write"} => currentRun \in window

BaseInv == TypeOK /\ OpenInv /\ SizeInv /\ WindowInv

LEMMA BaseInit == Init => BaseInv
<1>1. DOMAIN <<>> = {}
  OBVIOUS
<1>2. Init => TypeOK
  <2> SUFFICES ASSUME Init PROVE TypeOK
    OBVIOUS
  <2>1. /\ running \in BOOLEAN /\ starting \in BOOLEAN /\ active \in BOOLEAN
        /\ runNumber \in Runs \cup {0} /\ commanded \in Runs \cup {0}
        /\ currentRun \in Runs \cup {0} /\ window \subseteq Runs \cup {0}
    BY DEF Init, CtrlInit
  <2>2. /\ currentFile \in FileName \cup {NoFile}
        /\ currentFileSize \in Nat /\ currentFileSize = 0
        /\ fileCount \in Int /\ pc = "idle"
    BY DEF Init, CtrlInit
  <2>3. /\ DOMAIN inProgress = {} /\ DOMAIN published = {}
        /\ journal \in FileName \cup {NoJournal} /\ journalFailed \in BOOLEAN
    BY <1>1 DEF Init, CtrlInit
  <2> QED
    BY <2>1, <2>2, <2>3 DEF TypeOK
<1>3. Init => OpenInv /\ SizeInv /\ WindowInv
  BY <1>1 DEF Init, CtrlInit, OpenInv, SizeInv, WindowInv
<1> QED
  BY <1>2, <1>3 DEF BaseInv

\* The name of a file has the type of a name and is not NoFile.
LEMMA NameType ==
    ASSUME NEW r \in Runs \cup {0}, NEW i \in Int
    PROVE  /\ Name(r, i) \in FileName
           /\ Name(r, i) # NoFile /\ Name(r, i) # NoJournal
           /\ Name(r, i).run = r /\ Name(r, i).index = i
BY NamesAssumption DEF Name, FileName

\* What closing the file does, whether or not there is one and whether or not
\* it can be renamed.
LEMMA CloseBase ==
    ASSUME BaseInv, NEW count \in Int, CloseAndMove(count)
    PROVE  /\ currentFile' = NoFile /\ currentFileSize' = 0
           /\ fileCount' \in Int /\ currentRun' = currentRun
           /\ DOMAIN inProgress' \subseteq DOMAIN inProgress
           /\ \A f \in DOMAIN inProgress' : inProgress'[f] = inProgress[f]
           /\ DOMAIN published' \subseteq FileName
           /\ \A f \in DOMAIN published' : /\ published'[f] \in Nat
                                           /\ published'[f] <= MaxFileSize + 1
<1> USE DEF BaseInv
<1>1. CASE currentFile = NoFile
  BY <1>1 DEF CloseAndMove, fileVars, TypeOK, SizeInv
<1>2. CASE currentFile # NoFile
  <2>1. /\ Rename(currentFile)
        /\ currentFile' = NoFile /\ currentFileSize' = 0
        /\ fileCount' = count /\ currentRun' = currentRun
    BY <1>2 DEF CloseAndMove
  <2>2. /\ currentFile \in DOMAIN inProgress /\ currentFile \in FileName
        /\ inProgress[currentFile] \in Nat
        /\ inProgress[currentFile] <= MaxFileSize + 1
    BY <1>2 DEF OpenInv, SizeInv, TypeOK
  <2>3. CASE /\ published' = Put(published, currentFile, inProgress[currentFile])
             /\ inProgress' = Remove(inProgress, currentFile)
    <3>1. /\ DOMAIN inProgress' = DOMAIN inProgress \ {currentFile}
          /\ \A f \in DOMAIN inProgress' : inProgress'[f] = inProgress[f]
      BY <2>3 DEF Remove
    <3>2. /\ DOMAIN published' = DOMAIN published \cup {currentFile}
          /\ published'[currentFile] = inProgress[currentFile]
          /\ \A g \in DOMAIN published : g # currentFile =>
               published'[g] = published[g]
      BY <2>3 DEF Put
    <3> QED
      BY <2>1, <2>2, <3>1, <3>2 DEF TypeOK, SizeInv
  <2>4. CASE UNCHANGED <<inProgress, published>>
    BY <2>1, <2>4 DEF TypeOK, SizeInv
  <2> QED
    BY <2>1, <2>3, <2>4 DEF Rename
<1> QED
  BY <1>1, <1>2

\* Every step keeps BaseInv: one step of the proof per action.
LEMMA BaseNext == BaseInv /\ [Next]_vars => BaseInv'
<1> SUFFICES ASSUME BaseInv, [Next]_vars PROVE BaseInv'
  OBVIOUS
<1>1. ASSUME NEW r \in Runs, StartRun(r) PROVE BaseInv'
  <2>1. TypeOK'
    BY <1>1, OutputAssumption, NameType
       DEF StartRun, StoreFirst, Store, Stores, TypeOK, OpenInv, BaseInv,
           controlVars, fileVars, diskVars
  <2>2. OpenInv'
    BY <1>1, OutputAssumption, NameType
       DEF StartRun, StoreFirst, Store, Stores, TypeOK, OpenInv, BaseInv,
           controlVars, fileVars, diskVars
  <2>3. SizeInv'
    BY <1>1, OutputAssumption, NameType
       DEF StartRun, StoreFirst, Store, Stores, TypeOK, OpenInv, SizeInv,
           BaseInv, controlVars, fileVars, diskVars
  <2>4. WindowInv'
    BY <1>1, OutputAssumption, NameType
       DEF StartRun, StoreFirst, Store, Stores, TypeOK, OpenInv, WindowInv,
           BaseInv, controlVars, fileVars, diskVars
  <2> QED
    BY <2>1, <2>2, <2>3, <2>4 DEF BaseInv
<1>2. CASE StartRunning
  <2>1. TypeOK'
    BY <1>2, OutputAssumption, NameType
       DEF StartRunning, StoreSecond, Store, Stores, TypeOK, OpenInv, BaseInv,
           controlVars, fileVars, diskVars
  <2>2. OpenInv'
    BY <1>2, OutputAssumption, NameType
       DEF StartRunning, StoreSecond, Store, Stores, TypeOK, OpenInv, BaseInv,
           controlVars, fileVars, diskVars
  <2>3. SizeInv'
    BY <1>2, OutputAssumption, NameType
       DEF StartRunning, StoreSecond, Store, Stores, TypeOK, OpenInv, SizeInv,
           BaseInv, controlVars, fileVars, diskVars
  <2>4. WindowInv'
    BY <1>2, OutputAssumption, NameType
       DEF StartRunning, StoreSecond, Store, Stores, TypeOK, OpenInv,
           WindowInv, BaseInv, controlVars, fileVars, diskVars
  <2> QED
    BY <2>1, <2>2, <2>3, <2>4 DEF BaseInv
<1>3. CASE Stop
  <2>1. TypeOK'
    BY <1>3, OutputAssumption, NameType
       DEF Stop, StoreStop, TypeOK, OpenInv, BaseInv, controlVars, fileVars,
           diskVars
  <2>2. OpenInv'
    BY <1>3, OutputAssumption, NameType
       DEF Stop, StoreStop, TypeOK, OpenInv, BaseInv, controlVars, fileVars,
           diskVars
  <2>3. SizeInv'
    BY <1>3, OutputAssumption, NameType
       DEF Stop, StoreStop, TypeOK, OpenInv, SizeInv, BaseInv, controlVars,
           fileVars, diskVars
  <2>4. WindowInv'
    BY <1>3, OutputAssumption, NameType
       DEF Stop, StoreStop, TypeOK, OpenInv, WindowInv, BaseInv, controlVars,
           fileVars, diskVars
  <2> QED
    BY <2>1, <2>2, <2>3, <2>4 DEF BaseInv
<1>4. CASE Arrive
  <2>1. TypeOK'
    BY <1>4, OutputAssumption, NameType
       DEF Arrive, Goto, TypeOK, OpenInv, BaseInv, controlVars, fileVars,
           diskVars
  <2>2. OpenInv'
    BY <1>4, OutputAssumption, NameType
       DEF Arrive, Goto, TypeOK, OpenInv, BaseInv, controlVars, fileVars,
           diskVars
  <2>3. SizeInv'
    BY <1>4, OutputAssumption, NameType
       DEF Arrive, Goto, TypeOK, OpenInv, SizeInv, BaseInv, controlVars,
           fileVars, diskVars
  <2>4. WindowInv'
    BY <1>4, OutputAssumption, NameType
       DEF Arrive, Goto, TypeOK, OpenInv, WindowInv, BaseInv, controlVars,
           fileVars, diskVars
  <2> QED
    BY <2>1, <2>2, <2>3, <2>4 DEF BaseInv
<1>5. CASE Check
  <2>1. TypeOK'
    BY <1>5, OutputAssumption, NameType
       DEF Check, TypeOK, OpenInv, BaseInv, controlVars, fileVars, diskVars
  <2>2. OpenInv'
    BY <1>5, OutputAssumption, NameType
       DEF Check, TypeOK, OpenInv, BaseInv, controlVars, fileVars, diskVars
  <2>3. SizeInv'
    BY <1>5, OutputAssumption, NameType
       DEF Check, TypeOK, OpenInv, SizeInv, BaseInv, controlVars, fileVars,
           diskVars
  <2>4. WindowInv'
    BY <1>5, OutputAssumption, NameType
       DEF Check, TypeOK, OpenInv, WindowInv, BaseInv, controlVars, fileVars,
           diskVars
  <2> QED
    BY <2>1, <2>2, <2>3, <2>4 DEF BaseInv
<1>6. CASE Decide
  <2>1. TypeOK'
    BY <1>6, OutputAssumption, NameType
       DEF Decide, NeedNextFile, TypeOK, OpenInv, BaseInv, controlVars,
           fileVars, diskVars
  <2>2. OpenInv'
    BY <1>6, OutputAssumption, NameType
       DEF Decide, NeedNextFile, TypeOK, OpenInv, BaseInv, controlVars,
           fileVars, diskVars
  <2>3. SizeInv'
    BY <1>6, OutputAssumption, NameType
       DEF Decide, NeedNextFile, TypeOK, OpenInv, SizeInv, BaseInv,
           controlVars, fileVars, diskVars
  <2>4. WindowInv'
    BY <1>6, OutputAssumption, NameType
       DEF Decide, NeedNextFile, TypeOK, OpenInv, WindowInv, BaseInv,
           controlVars, fileVars, diskVars
  <2> QED
    BY <2>1, <2>2, <2>3, <2>4 DEF BaseInv
<1>7. CASE CompareRun
  <2>1. TypeOK'
    BY <1>7, OutputAssumption, NameType
       DEF CompareRun, TypeOK, OpenInv, BaseInv, controlVars, fileVars,
           diskVars
  <2>2. OpenInv'
    BY <1>7, OutputAssumption, NameType
       DEF CompareRun, TypeOK, OpenInv, BaseInv, controlVars, fileVars,
           diskVars
  <2>3. SizeInv'
    BY <1>7, OutputAssumption, NameType
       DEF CompareRun, TypeOK, OpenInv, SizeInv, BaseInv, controlVars,
           fileVars, diskVars
  <2>4. WindowInv'
    BY <1>7, OutputAssumption, NameType
       DEF CompareRun, TypeOK, OpenInv, WindowInv, BaseInv, controlVars,
           fileVars, diskVars
  <2> QED
    BY <2>1, <2>2, <2>3, <2>4 DEF BaseInv
<1>8. CASE SwitchRun
  <2>1. TypeOK'
    BY <1>8, OutputAssumption, NameType
       DEF SwitchRun, Goto, TypeOK, OpenInv, BaseInv, controlVars, fileVars,
           diskVars
  <2>2. OpenInv'
    BY <1>8, OutputAssumption, NameType
       DEF SwitchRun, Goto, TypeOK, OpenInv, BaseInv, controlVars, fileVars,
           diskVars
  <2>3. SizeInv'
    BY <1>8, OutputAssumption, NameType
       DEF SwitchRun, Goto, TypeOK, OpenInv, SizeInv, BaseInv, controlVars,
           fileVars, diskVars
  <2>4. WindowInv'
    BY <1>8, OutputAssumption, NameType
       DEF SwitchRun, Goto, TypeOK, OpenInv, WindowInv, BaseInv, controlVars,
           fileVars, diskVars
  <2> QED
    BY <2>1, <2>2, <2>3, <2>4 DEF BaseInv
<1>9. CASE ChooseIndex
  <2>1. TypeOK'
    <3>1. ASSUME NEW i \in JournalIndexes PROVE i \in Int
      <4>1. CASE i \in GarbageIndexes
        BY <4>1, OutputAssumption
      <4>2. journal \in FileName => journal.index \in Int
        BY DEF FileName
      <4> QED
        BY <3>1, <4>1, <4>2 DEF JournalIndexes, BaseInv, TypeOK
    <3>2. fileCount' \in Int
      BY <1>9, <3>1 DEF ChooseIndex, BaseInv, TypeOK
    <3> QED
      BY <1>9, <3>2
         DEF ChooseIndex, Goto, BaseInv, TypeOK, controlVars, diskVars
  <2>2. OpenInv'
    BY <1>9, OutputAssumption, NameType
       DEF ChooseIndex, Goto, JournalIndexes, TypeOK, OpenInv, BaseInv,
           controlVars, fileVars, diskVars
  <2>3. SizeInv'
    BY <1>9, OutputAssumption, NameType
       DEF ChooseIndex, Goto, JournalIndexes, TypeOK, OpenInv, SizeInv,
           BaseInv, controlVars, fileVars, diskVars
  <2>4. WindowInv'
    BY <1>9, OutputAssumption, NameType
       DEF ChooseIndex, Goto, JournalIndexes, TypeOK, OpenInv, WindowInv,
           BaseInv, controlVars, fileVars, diskVars
  <2> QED
    BY <2>1, <2>2, <2>3, <2>4 DEF BaseInv
<1>10. CASE Create
  <2>1. TypeOK'
    BY <1>10, OutputAssumption, NameType
       DEF Create, Goto, Put, TypeOK, OpenInv, BaseInv, controlVars, fileVars,
           diskVars, journalVars
  <2>2. OpenInv'
    BY <1>10, OutputAssumption, NameType
       DEF Create, Goto, Put, TypeOK, OpenInv, BaseInv, controlVars, fileVars,
           diskVars
  <2>3. SizeInv'
    BY <1>10, OutputAssumption, NameType
       DEF Create, Goto, Put, TypeOK, OpenInv, SizeInv, BaseInv, controlVars,
           fileVars, diskVars
  <2>4. WindowInv'
    BY <1>10, OutputAssumption, NameType
       DEF Create, Goto, Put, TypeOK, OpenInv, WindowInv, BaseInv, controlVars,
           fileVars, diskVars
  <2> QED
    BY <2>1, <2>2, <2>3, <2>4 DEF BaseInv
<1>11. CASE UpdateJournal
  <2>1. TypeOK'
    <3>1. Name(currentRun, fileCount + 1) \in FileName
      BY NameType DEF BaseInv, TypeOK
    <3>2. journal' \in FileName \cup {NoJournal} /\ journalFailed' \in BOOLEAN
      BY <1>11, <3>1 DEF UpdateJournal, BaseInv, TypeOK
    <3> QED
      BY <1>11, <3>2
         DEF UpdateJournal, Goto, TypeOK, OpenInv, BaseInv, controlVars,
             fileVars
  <2>2. OpenInv'
    BY <1>11, OutputAssumption, NameType
       DEF UpdateJournal, Goto, TypeOK, OpenInv, BaseInv, controlVars,
           fileVars, diskVars
  <2>3. SizeInv'
    BY <1>11, OutputAssumption, NameType
       DEF UpdateJournal, Goto, TypeOK, OpenInv, SizeInv, BaseInv, controlVars,
           fileVars, diskVars
  <2>4. WindowInv'
    BY <1>11, OutputAssumption, NameType
       DEF UpdateJournal, Goto, TypeOK, OpenInv, WindowInv, BaseInv,
           controlVars, fileVars, diskVars
  <2> QED
    BY <2>1, <2>2, <2>3, <2>4 DEF BaseInv
<1>12. CASE Write
  <2>1. TypeOK'
    BY <1>12, OutputAssumption, NameType
       DEF Write, Goto, TypeOK, OpenInv, BaseInv, controlVars, fileVars,
           diskVars, journalVars
  <2>2. OpenInv'
    BY <1>12, OutputAssumption, NameType
       DEF Write, Goto, TypeOK, OpenInv, BaseInv, controlVars, fileVars,
           diskVars
  <2>3. SizeInv'
    BY <1>12, OutputAssumption, NameType
       DEF Write, Goto, TypeOK, OpenInv, SizeInv, BaseInv, controlVars,
           fileVars, diskVars
  <2>4. WindowInv'
    BY <1>12, OutputAssumption, NameType
       DEF Write, Goto, TypeOK, OpenInv, WindowInv, BaseInv, controlVars,
           fileVars, diskVars
  <2> QED
    BY <2>1, <2>2, <2>3, <2>4 DEF BaseInv
<1>13. CASE Recheck
  <2>1. TypeOK'
    BY <1>13, OutputAssumption, NameType
       DEF Recheck, TypeOK, OpenInv, BaseInv, controlVars, fileVars, diskVars
  <2>2. OpenInv'
    BY <1>13, OutputAssumption, NameType
       DEF Recheck, TypeOK, OpenInv, BaseInv, controlVars, fileVars, diskVars
  <2>3. SizeInv'
    BY <1>13, OutputAssumption, NameType
       DEF Recheck, TypeOK, OpenInv, SizeInv, BaseInv, controlVars, fileVars,
           diskVars
  <2>4. WindowInv'
    BY <1>13, OutputAssumption, NameType
       DEF Recheck, TypeOK, OpenInv, WindowInv, BaseInv, controlVars, fileVars,
           diskVars
  <2> QED
    BY <2>1, <2>2, <2>3, <2>4 DEF BaseInv
<1>14. CASE Throws
  <2>1. TypeOK'
    <3>1. /\ running' \in BOOLEAN /\ starting' \in BOOLEAN /\ active' \in BOOLEAN
          /\ runNumber' = 0 /\ currentRun' = 0 /\ window' = {}
      BY <1>14 DEF Throws, Restart, Reset
    <3>2. /\ currentFile' = NoFile /\ currentFileSize' = 0
          /\ pc' = "idle" /\ fileCount' \in Int
      BY <1>14 DEF Throws, Restart, Reset
    <3>3. /\ DOMAIN inProgress' = DOMAIN inProgress
          /\ \A f \in DOMAIN inProgress' : inProgress'[f] \in Nat
          /\ UNCHANGED <<published, journal, journalFailed, commanded>>
      BY <1>14 DEF Throws, Restart, Reset, diskVars, BaseInv, TypeOK, OpenInv
    <3> QED
      BY <3>1, <3>2, <3>3 DEF BaseInv, TypeOK
  <2>2. OpenInv'
    BY <1>14, OutputAssumption, NameType
       DEF Throws, Restart, Reset, TypeOK, OpenInv, BaseInv, controlVars,
           fileVars, diskVars
  <2>3. SizeInv'
    BY <1>14, OutputAssumption, NameType
       DEF Throws, Restart, Reset, TypeOK, OpenInv, SizeInv, BaseInv,
           controlVars, fileVars, diskVars
  <2>4. WindowInv'
    BY <1>14, OutputAssumption, NameType
       DEF Throws, Restart, Reset, TypeOK, OpenInv, WindowInv, BaseInv,
           controlVars, fileVars, diskVars
  <2> QED
    BY <2>1, <2>2, <2>3, <2>4 DEF BaseInv
<1>15. CASE Crash
  <2>1. TypeOK'
    <3>1. /\ running' \in BOOLEAN /\ starting' \in BOOLEAN /\ active' \in BOOLEAN
          /\ runNumber' = 0 /\ currentRun' = 0 /\ window' = {}
      BY <1>15 DEF Crash, Restart, Reset
    <3>2. /\ currentFile' = NoFile /\ currentFileSize' = 0
          /\ pc' = "idle" /\ fileCount' \in Int
      BY <1>15 DEF Crash, Restart, Reset
    <3>3. /\ DOMAIN inProgress' = DOMAIN inProgress
          /\ \A f \in DOMAIN inProgress' : inProgress'[f] \in Nat
          /\ UNCHANGED <<published, journal, journalFailed, commanded>>
      BY <1>15
         DEF Crash, Restart, Reset, diskVars, journalVars, BaseInv, TypeOK,
             OpenInv
    <3> QED
      BY <3>1, <3>2, <3>3 DEF BaseInv, TypeOK
  <2>2. OpenInv'
    BY <1>15, OutputAssumption, NameType
       DEF Crash, Restart, Reset, TypeOK, OpenInv, BaseInv, controlVars,
           fileVars, diskVars
  <2>3. SizeInv'
    BY <1>15, OutputAssumption, NameType
       DEF Crash, Restart, Reset, TypeOK, OpenInv, SizeInv, BaseInv,
           controlVars, fileVars, diskVars
  <2>4. WindowInv'
    BY <1>15, OutputAssumption, NameType
       DEF Crash, Restart, Reset, TypeOK, OpenInv, WindowInv, BaseInv,
           controlVars, fileVars, diskVars
  <2> QED
    BY <2>1, <2>2, <2>3, <2>4 DEF BaseInv
<1>16. CASE CloseFirst
  <2>0. CloseAndMove(fileCount + 1) /\ fileCount + 1 \in Int
    BY <1>16 DEF CloseFirst, BaseInv, TypeOK
  <2>1. TypeOK'
    BY <1>16, <2>0, CloseBase
       DEF CloseFirst, Goto, TypeOK, BaseInv, controlVars, fileVars, diskVars,
           journalVars
  <2>2. OpenInv'
    BY <1>16, <2>0, CloseBase
       DEF CloseFirst, Goto, OpenInv, BaseInv, controlVars, fileVars, diskVars
  <2>3. SizeInv'
    BY <1>16, <2>0, CloseBase
       DEF CloseFirst, Goto, SizeInv, BaseInv, controlVars, fileVars, diskVars
  <2>4. WindowInv'
    BY <1>16, <2>0, CloseBase
       DEF CloseFirst, Goto, WindowInv, BaseInv, controlVars, fileVars,
           diskVars
  <2> QED
    BY <2>1, <2>2, <2>3, <2>4 DEF BaseInv
<1>17. CASE CloseStopped
  <2>0. CloseAndMove(-1) /\ -1 \in Int
    BY <1>17 DEF CloseStopped, BaseInv, TypeOK
  <2>1. TypeOK'
    BY <1>17, <2>0, CloseBase
       DEF CloseStopped, Goto, TypeOK, BaseInv, controlVars, fileVars, diskVars,
           journalVars
  <2>2. OpenInv'
    BY <1>17, <2>0, CloseBase
       DEF CloseStopped, Goto, OpenInv, BaseInv, controlVars, fileVars,
           diskVars
  <2>3. SizeInv'
    BY <1>17, <2>0, CloseBase
       DEF CloseStopped, Goto, SizeInv, BaseInv, controlVars, fileVars,
           diskVars
  <2>4. WindowInv'
    BY <1>17, <2>0, CloseBase
       DEF CloseStopped, Goto, WindowInv, BaseInv, controlVars, fileVars,
           diskVars
  <2> QED
    BY <2>1, <2>2, <2>3, <2>4 DEF BaseInv
<1>18. CASE UNCHANGED vars
  BY <1>18 DEF vars, BaseInv, TypeOK, OpenInv, SizeInv, WindowInv
<1> QED
  BY <1>1, <1>2, <1>3, <1>4, <1>5, <1>6, <1>7, <1>8, <1>9,
     <1>10, <1>11, <1>12, <1>13, <1>14, <1>15, <1>16, <1>17, <1>18
     DEF Next, ServerNext, Handle, OpenNextFile

-----------------------------------------------------------------------------
(* Theorems                                                                *)

\* BaseInv is an invariant.
THEOREM BaseSafety == Spec => []BaseInv
<1> QED
  BY BaseInit, BaseNext, PTL DEF Spec

\* The variables keep their types, for any runs and any faults.
THEOREM TypeSafety == Spec => []TypeOK
<1>1. BaseInv => TypeOK
  BY DEF BaseInv
<1> QED
  BY <1>1, BaseSafety, PTL

\* No packet is written to the file of a run that was not on while it was
\* handled, although run_number and running are two stores and four loads
\* (session.h:72-73, output.cc:94-95, 153-154).
THEOREM AttributionSafety == Spec => []RunAttribution
<1>1. BaseInv => RunAttribution
  <2> SUFFICES ASSUME BaseInv, pc = "write", ~OutputForceWrite
               PROVE  /\ currentFile # NoFile /\ currentFile.run = currentRun
                      /\ currentRun \in window
    BY DEF RunAttribution
  <2>1. currentFile # NoFile /\ currentFile = Name(currentRun, fileCount)
    BY DEF BaseInv, OpenInv
  <2>2. currentFile.run = currentRun
    BY <2>1, NameType DEF BaseInv, TypeOK
  <2> QED
    BY <2>1, <2>2 DEF BaseInv, WindowInv
<1> QED
  BY <1>1, BaseSafety, PTL

\* No file grows beyond max_file_size and one packet (output.cc:95).
THEOREM SizeSafety == Spec => []FilesBounded
<1>1. BaseInv => FilesBounded
  BY DEF BaseInv, TypeOK, SizeInv, OpenInv, FilesBounded
<1> QED
  BY <1>1, BaseSafety, PTL
=============================================================================
