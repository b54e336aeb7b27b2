------------------------------- MODULE Inputs -------------------------------
(***************************************************************************)
(* The input filters of scdaq: run_pipeline creates the one that is        *)
(* configured.  The others do not exist, their variables never change.     *)
(***************************************************************************)
EXTENDS WZDma

CONSTANTS
    MaxQueue, Torn,              \* see XdmaInput
    MaxFrames, FrameSize, Sizes  \* see FileInput

VARIABLES
    input,       \* config::getInput()
    queue, xdmaPc, xdmaSkip, nextSlice, xdmaReturned,
    file, rest, size, pos, filePc, first, bytesRead, fileSkip,
    fileReturned, fileError

Xdma == INSTANCE XdmaInput
    WITH pc <- xdmaPc, skip <- xdmaSkip, returned <- xdmaReturned

File == INSTANCE FileInput
    WITH pc <- filePc, skip <- fileSkip, returned <- fileReturned,
         error <- fileError

ASSUME InputsAssumption == Xdma!XdmaAssumption /\ File!FileAssumption

xdmaVars == <<queue, xdmaPc, xdmaSkip, nextSlice, xdmaReturned>>
fileVars == <<file, rest, size, pos, filePc, first, bytesRead, fileSkip,
              fileReturned, fileError>>
inputVars == <<input, vars, xdmaVars, fileVars>>

\* A file that is not read need not vary.
NoFile ==
    /\ file = <<>> /\ rest = 0
    /\ size = CHOOSE s \in Sizes : \A t \in Sizes : s <= t

InputInit ==
    /\ input \in {"WZDMA", "DMA", "FILEDMA"}
    /\ Init /\ Xdma!Init /\ File!Init
    /\ input # "FILEDMA" => NoFile

InputNext ==
    /\ \/ input = "WZDMA" /\ Next /\ UNCHANGED <<xdmaVars, fileVars>>
       \/ input = "DMA" /\ Xdma!Next /\ UNCHANGED <<vars, fileVars>>
       \/ input = "FILEDMA" /\ File!Next /\ UNCHANGED <<vars, xdmaVars>>
    /\ UNCHANGED input

\* An input that was not created is never ready for a step, so the fairness of
\* all three asks nothing of it.
InputSpec ==
    /\ InputInit /\ [][InputNext]_inputVars
    /\ Fairness /\ Xdma!Fairness /\ File!Fairness

-----------------------------------------------------------------------------
(* Properties, besides those of WZDma: see the modules of the inputs.      *)

\* The types of the XDMA and of the file input, with the bound on the packets
\* that are skipped (DmaInputFilter.cc:61-97, FileDmaInputFilter.cc:74-106).
XdmaTypeOK == Xdma!TypeOK
FileTypeOK == File!TypeOK

\* The slices get whole packets of the board in their order
\* (DmaInputFilter.cc:68-96).
IsXdmaSource == Xdma!IsPacketSource

\* The slices get the packets of the file, again and again
\* (FileDmaInputFilter.cc:35-106).
IsFileSource == File!IsFileSource

\* A call of either input returns or throws, that of the XDMA input unless EIO
\* is reported again and again (DmaInputFilter.cc:68-84,
\* FileDmaInputFilter.cc:41-68).
XdmaCallReturns == Xdma!CallReturns
FileCallEnds == File!CallEnds
=============================================================================
