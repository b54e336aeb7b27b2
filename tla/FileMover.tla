------------------------------ MODULE FileMover ------------------------------
(***************************************************************************)
(* The file writer and the script fileMover.py, which compresses the files *)
(* that were published into an archive and removes them, while the writer  *)
(* goes on and its process is started again.                               *)
(***************************************************************************)
EXTENDS OutputStream

CONSTANT MoverFaults    \* what may go wrong, out of {"compress", "remove"}

ASSUME MoverAssumption == MoverFaults \subseteq {"compress", "remove"}

VARIABLES
    mover,      \* where the script is
    listed,     \* the files of its listing that it has not come to
    moving,     \* the file it is working on
    reading,    \* the content of that file, which lbzip2 has open
    archive     \* /fff/output/scdaq: an archive file that is not complete
                \* has no packets

moverVars == <<mover, listed, moving, reading, archive>>
allVars == <<vars, moverVars>>

MoverInit ==
    /\ Init
    /\ mover = "list" /\ listed = {} /\ moving = NoFile /\ reading = 0
    /\ archive = <<>>

\* With an empty listing the script sleeps and lists again.
List ==
    /\ mover = "list"
    /\ published # <<>>
    /\ listed' = DOMAIN published
    /\ mover' = "next"
    /\ UNCHANGED <<moving, reading, archive, vars>>

\* The next file, in any order.  The shell truncates the archive file first.
Open(f) ==
    /\ mover = "next"
    /\ f \in listed
    /\ listed' = listed \ {f}
    /\ moving' = f
    /\ reading' = published[f]
    /\ archive' = Put(archive, f, 0)
    /\ mover' = "compress"
    /\ UNCHANGED vars

\* Mutant: the file is removed whether or not lbzip2 has failed.
CompressUnchecked ==
    /\ mover = "compress"
    /\ archive' \in {archive, [archive EXCEPT ![moving] = reading]}
    /\ mover' = "remove"
    /\ reading' = 0
    /\ UNCHANGED <<listed, moving, vars>>

\* When lbzip2 fails, the file is left to the next listing.
Compress ==
    /\ mover = "compress"
    /\ \/ /\ archive' = [archive EXCEPT ![moving] = reading]
          /\ mover' = "remove"
       \/ /\ "compress" \in MoverFaults
          /\ mover' = "next"
          /\ UNCHANGED archive
    /\ reading' = 0
    /\ UNCHANGED <<listed, moving, vars>>

\* The result of rm is not looked at.
TakeAway ==
    /\ mover = "remove"
    /\ \/ published' = Remove(published, moving)
       \/ "remove" \in MoverFaults /\ UNCHANGED published
    /\ mover' = "next"
    /\ UNCHANGED <<listed, moving, reading, archive, controlVars, fileVars, pc,
                   inProgress, journalVars, window>>

\* Mutant: the directory is listed only once.
EndOfListingEnds ==
    /\ mover = "next" /\ listed = {}
    /\ mover' = "ended"
    /\ moving' = NoFile
    /\ UNCHANGED <<listed, reading, archive, vars>>

EndOfListing ==
    /\ mover = "next" /\ listed = {}
    /\ mover' = "list"
    /\ moving' = NoFile
    /\ UNCHANGED <<listed, reading, archive, vars>>

MoverNext ==
    \/ List \/ Compress \/ TakeAway \/ EndOfListing
    \/ \E f \in listed : Open(f)

BothNext == MoverNext \/ (Next /\ UNCHANGED moverVars)

BothSpec == MoverInit /\ [][BothNext]_allVars

\* Bound: the names that files can have here.
Names == [run : Runs, index : GarbageIndexes \cup 0..MaxIndex]

\* The writer is as fair as without the mover, the script goes on, and not
\* every attempt to compress and remove a file fails.
BothFairSpec ==
    /\ BothSpec
    /\ WF_allVars(Arrive /\ UNCHANGED moverVars)
    /\ WF_allVars(Handle /\ UNCHANGED moverVars)
    /\ WF_allVars(StartRunning /\ UNCHANGED moverVars)
    /\ WF_allVars(MoverNext)
    /\ \A f \in Names :
          /\ SF_allVars(Compress /\ moving = f /\ mover' = "remove")
          /\ SF_allVars(TakeAway /\ moving = f /\ published' # published)

-----------------------------------------------------------------------------
(* Properties                                                              *)

\* A published file stays until it is in the archive whole, and then its name
\* is never used again, so that nothing in the archive is overwritten: the
\* journal, as long as it could be written, has to remember what the output
\* directory no longer shows (fileMover.py:16-26, output.cc:175).
ArchivedForGood ==
    [][~journalFailed =>
       /\ \A f \in DOMAIN published :
             \/ f \in DOMAIN published' /\ published'[f] = published[f]
             \/ archive'[f] = published[f]
       /\ \A f \in DOMAIN archive \ DOMAIN published :
             f \notin DOMAIN published' /\ archive'[f] = archive[f]]_allVars

\* Every file that is published leaves for the archive, while others keep
\* coming and attempts fail (fileMover.py:9-26).
FilesLeave ==
    \A f \in Names : f \in DOMAIN published ~> f \notin DOMAIN published
=============================================================================
