-------------------------------- MODULE Ctrl --------------------------------
(***************************************************************************)
(* The struct ctrl, as the commands of run control and the end of the      *)
(* process change it: what the file writer may rely on, and what run       *)
(* control must guarantee.                                                 *)
(***************************************************************************)
EXTENDS Naturals

CONSTANTS
    Runs,               \* the run numbers that run control may start
    RunsIncrease        \* does run control never go back to an earlier run?

VARIABLES
    running, runNumber,
    starting,           \* is the server between the two stores of a start?
    commanded, active   \* history: the run that was commanded last, and
                        \* whether it was neither stopped nor cut off since

controlVars == <<running, runNumber, starting, commanded, active>>

CtrlInit ==
    /\ running = FALSE /\ runNumber = 0 /\ starting = FALSE
    /\ commanded = 0 /\ active = FALSE

\* Mutant: the flag is stored first.
StoresSwapped == <<"running", "run_number">>

\* The two stores of a start command, in their order.
Stores == <<"run_number", "running">>

Store(field) ==
    /\ runNumber' = IF field = "run_number" THEN commanded' ELSE runNumber
    /\ running' = (field = "running" \/ running)

\* "start r", up to its first store.
StoreFirst(r) ==
    /\ ~starting
    /\ RunsIncrease => r >= commanded
    /\ ~running \/ runNumber # r
    /\ commanded' = r /\ active' = TRUE
    /\ Store(Stores[1])
    /\ starting' = TRUE

StoreSecond ==
    /\ starting
    /\ UNCHANGED <<commanded, active>>
    /\ Store(Stores[2])
    /\ starting' = FALSE

\* "stop"
StoreStop ==
    /\ ~starting
    /\ running
    /\ running' = FALSE
    /\ active' = FALSE
    /\ UNCHANGED <<runNumber, starting, commanded>>

\* The process ends; the next one begins like this.
Reset ==
    /\ running' = FALSE /\ runNumber' = 0 /\ starting' = FALSE
    /\ active' = FALSE
    /\ UNCHANGED commanded

CtrlNext == (\E r \in Runs : StoreFirst(r)) \/ StoreSecond \/ StoreStop \/ Reset

CtrlSpec == CtrlInit /\ [][CtrlNext]_controlVars
=============================================================================
