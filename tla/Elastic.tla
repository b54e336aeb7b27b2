------------------------------- MODULE Elastic -------------------------------
(***************************************************************************)
(* ElasticProcessor, a parallel filter that adds the muons of a slice to   *)
(* the index of the run.  All calls share one request url and one curl     *)
(* handle.  A slice is given by its blocks, a block by its muons that pass *)
(* the cuts.                                                               *)
(***************************************************************************)
EXTENDS Naturals

CONSTANTS
    Threads,
    Runs,
    Blocks,      \* the numbers of blocks of a slice
    Muons,       \* the numbers of muons of its first block that pass the cuts
    MaxData,     \* bound: the muons that fit into the memory
    NoRun        \* the request url is empty

VARIABLES
    running, runNumber,  \* struct ctrl
    cRequestUrl, handle, \* of the filter: the run of the index; the request
    pc,                  \* where each thread is
    rest,                \* the blocks from p to the end of the slice
    muons,
    particleData         \* the muons that were appended

ctrlVars == <<running, runNumber>>
sliceVars == <<rest, muons>>
vars == <<ctrlVars, cRequestUrl, handle, pc, sliceVars, particleData>>

Init ==
    /\ running = FALSE /\ runNumber = 0
    /\ cRequestUrl = NoRun /\ handle = "none"
    /\ pc = [t \in Threads |-> "idle"]
    /\ rest = [t \in Threads |-> 0]
    /\ muons = [t \in Threads |-> 0]
    /\ particleData = [t \in Threads |-> 0]

Goto(t, from, to) == pc[t] = from /\ pc' = [pc EXCEPT ![t] = to]

\* session::process_command
Start(r) ==
    /\ running' = TRUE /\ runNumber' = r
    /\ UNCHANGED <<cRequestUrl, handle, pc, sliceVars, particleData>>

Stop ==
    /\ running' = FALSE
    /\ UNCHANGED <<runNumber, cRequestUrl, handle, pc, sliceVars, particleData>>

\* The filter is called with a slice.
Enter(t) ==
    /\ Goto(t, "idle", "look")
    /\ \E n \in Blocks : rest' = [rest EXCEPT ![t] = n]
    /\ \E n \in Muons : muons' = [muons EXCEPT ![t] = n]
    /\ particleData' = [particleData EXCEPT ![t] = 0]
    /\ UNCHANGED <<ctrlVars, cRequestUrl, handle>>

\* Several threads may find the url empty.
Look(t) ==
    /\ Goto(t, "look", IF ~running THEN "clear"
                       ELSE IF cRequestUrl = NoRun THEN "create" ELSE "append")
    /\ UNCHANGED <<ctrlVars, cRequestUrl, handle, sliceVars, particleData>>

\* makeCreateIndexRequest: the handle is freed and made again, the index of the
\* run is requested, and then the handle is set up for bulk population.
CreateIndex(t) ==
    /\ Goto(t, "create", "populate")
    /\ cRequestUrl' = runNumber
    /\ handle' = "index"
    /\ UNCHANGED <<ctrlVars, sliceVars, particleData>>

SetUpBulk(t) ==
    /\ Goto(t, "populate", "append")
    /\ handle' = "bulk"
    /\ UNCHANGED <<ctrlVars, cRequestUrl, sliceVars, particleData>>

\* p has not reached the end of the slice.
NextBlock(t) ==
    /\ rest[t] # 0
    /\ Goto(t, "append", "block")
    /\ UNCHANGED <<ctrlVars, cRequestUrl, handle, sliceVars, particleData>>

\* makeAppendToBulkRequest advances its own copy of p only.
AppendToBulk(t) ==
    /\ particleData[t] + muons[t] <= MaxData
    /\ Goto(t, "block", "append")
    /\ particleData' = [particleData EXCEPT ![t] = @ + muons[t]]
    /\ UNCHANGED <<ctrlVars, cRequestUrl, handle, sliceVars>>

OutOfMemory(t) ==
    /\ pc[t] = "block"
    /\ particleData[t] + muons[t] > MaxData
    /\ pc' = [u \in Threads |-> "exited"]
    /\ UNCHANGED <<ctrlVars, cRequestUrl, handle, sliceVars, particleData>>

\* At the end of the slice the data are posted; that it failed is ignored.
Post(t) ==
    /\ rest[t] = 0
    /\ Goto(t, "append", "clear")
    /\ UNCHANGED <<ctrlVars, cRequestUrl, handle, sliceVars, particleData>>

\* The run status is read again.
Clear(t) ==
    /\ Goto(t, "clear", "idle")
    /\ cRequestUrl' = IF running THEN cRequestUrl ELSE NoRun
    /\ UNCHANGED <<ctrlVars, handle, sliceVars, particleData>>

\* Two threads use the handle, or one frees it, at the same time.
SharedHandleFails ==
    /\ \E t, u \in Threads :
         /\ t # u
         /\ pc[t] \in {"create", "populate"}
         /\ pc[u] \in {"create", "populate", "block", "append"}
    /\ pc' = [t \in Threads |-> "exited"]
    /\ UNCHANGED <<ctrlVars, cRequestUrl, handle, sliceVars, particleData>>

Call(t) ==
    Look(t) \/ CreateIndex(t) \/ SetUpBulk(t) \/ NextBlock(t)
    \/ AppendToBulk(t) \/ OutOfMemory(t) \/ Post(t) \/ Clear(t)

Next ==
    \/ \E r \in Runs : Start(r)
    \/ Stop
    \/ \E t \in Threads : Enter(t) \/ Call(t)
    \/ SharedHandleFails

Spec == Init /\ [][Next]_vars

\* A thread that was called goes on.
FairSpec == Spec /\ \A t \in Threads : WF_vars(Call(t))

-----------------------------------------------------------------------------
(* Properties                                                              *)

\* The data of a slice that came while a run was on are posted, if the process
\* does not fail (elastico.cc:155-163, "Create elastic populator" in
\* scdaq.cc:74).
Populates == \A t \in Threads : pc[t] = "append" ~> pc[t] \in {"clear", "exited"}
=============================================================================
