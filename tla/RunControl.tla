----------------------------- MODULE RunControl -----------------------------
(***************************************************************************)
(* Run control: the script runControl.py, which polls the state of the     *)
(* experiment, and the server of scdaq with its sessions, which carries    *)
(* out the script's commands.  Both may end at any time.                   *)
(*                                                                         *)
(* A connection is a record of what lies between the script and a session: *)
(* `stage' is the handler that the session waits for, `data' the command   *)
(* that was sent and not yet read, `open' whether the script still has its *)
(* end.  TCP and boost::asio are external: a command arrives as it was     *)
(* sent, commands are handled in the order in which they were sent, and    *)
(* the connections of a process that ends are closed.                      *)
(***************************************************************************)
EXTENDS Naturals, Sequences, SequencesExt

CONSTANTS
    MaxRun,      \* bound: the runs of the experiment are 1..MaxRun
    MaxEnds,     \* bound: how often the script ends
    MaxExits,    \* bound: how often scdaq exits
    MaxConns,    \* bound: connections that are not yet deleted
    NoCommand

ASSUME RunControlAssumption ==
    /\ MaxRun \in Nat \ {0}
    /\ MaxEnds \in Nat /\ MaxExits \in Nat /\ MaxConns \in Nat \ {0}

VARIABLES
    experiment,            \* what a snapshot would say
    \* runControl.py
    script,                \* where its loop is, or "dead"
    snapshot, reply, ends,
    \* the connections, in the order in which they were made
    conns,
    \* scdaq
    up, running, runNumber, exits,
    \* history: the run that was started last
    commanded

scriptVars == <<script, snapshot, reply, ends>>
ctrlVars == <<running, runNumber, commanded>>
vars == <<experiment, script, snapshot, reply, ends, conns, up, running,
          runNumber, exits, commanded>>

Runs == 1..MaxRun

\* The beam mode and the DAQ state are allowed, and the number of the run.
Experiment == [on : BOOLEAN, run : Runs]

Command == [name : {"start"}, run : Runs] \cup [name : {"stop"}]

ASSUME CommandAssumption == NoCommand \notin Command

Connection ==
    [stage : {"backlog", "reading", "starting", "writing"},
     data : Command \cup {NoCommand},
     open : BOOLEAN]

Init ==
    /\ experiment \in Experiment
    /\ script = "poll" /\ snapshot = experiment /\ reply = "none" /\ ends = 0
    /\ conns = <<>>
    /\ up = FALSE /\ running = FALSE /\ runNumber = 0 /\ exits = 0
    /\ commanded = 0

\* The beam comes and goes, and run numbers only grow.
ExperimentChanges ==
    /\ \E e \in Experiment :
          e.run >= experiment.run /\ e # experiment /\ experiment' = e
    /\ UNCHANGED <<scriptVars, conns, up, exits, ctrlVars>>

-----------------------------------------------------------------------------
(* runControl.py                                                           *)

\* The connections whose end in the script is open: one at most.
Mine == {i \in DOMAIN conns : conns[i].open}

Close == [i \in DOMAIN conns |-> [conns[i] EXCEPT !.open = FALSE]]

\* Mutant: a command is only sent when the state of the experiment changed.
PollOnce ==
    /\ script = "poll"
    /\ snapshot' = experiment
    /\ script' = IF snapshot = experiment THEN "sleep" ELSE "connect"
    /\ reply' = "none"
    /\ UNCHANGED <<ends, experiment, conns, up, exits, ctrlVars>>

Poll ==
    /\ script = "poll"
    /\ snapshot' = experiment
    /\ script' = "connect"
    /\ reply' = "none"
    /\ UNCHANGED <<ends, experiment, conns, up, exits, ctrlVars>>

Connect ==
    /\ script = "connect"
    /\ Len(conns) < MaxConns
    /\ IF up
         THEN /\ script' = "send"
              /\ conns' = Append(conns, [stage |-> "backlog",
                                         data |-> NoCommand, open |-> TRUE])
         ELSE script' = "sleep" /\ UNCHANGED conns
    /\ UNCHANGED <<snapshot, reply, ends, experiment, up, exits, ctrlVars>>

Message ==
    IF snapshot.on THEN [name |-> "start", run |-> snapshot.run]
                   ELSE [name |-> "stop"]

\* Sending fails when scdaq has exited since.
Send ==
    /\ script = "send"
    /\ script' = IF Mine = {} THEN "sleep" ELSE "recv"
    /\ conns' = [i \in DOMAIN conns |->
                    IF i \in Mine THEN [conns[i] EXCEPT !.data = Message]
                                  ELSE conns[i]]
    /\ UNCHANGED <<snapshot, reply, ends, experiment, up, exits, ctrlVars>>

\* recv has no timeout; it also ends when the connection does.
Receive ==
    /\ script = "recv"
    /\ reply # "none" \/ Mine = {}
    /\ script' = "sleep"
    /\ conns' = Close
    /\ UNCHANGED <<snapshot, reply, ends, experiment, up, exits, ctrlVars>>

Sleep ==
    /\ script = "sleep"
    /\ script' = "poll"
    /\ UNCHANGED <<snapshot, reply, ends, experiment, conns, up, exits, ctrlVars>>

\* Mutant: the connection of a script that was killed stays open.
ScriptEndsConnected ==
    /\ script # "dead"
    /\ ends < MaxEnds
    /\ ends' = ends + 1
    /\ script' = "dead"
    /\ UNCHANGED <<snapshot, reply, experiment, conns, up, exits, ctrlVars>>

\* The request for a snapshot fails, which nothing catches, or the script is
\* killed.
ScriptEnds ==
    /\ script # "dead"
    /\ ends < MaxEnds
    /\ ends' = ends + 1
    /\ script' = "dead"
    /\ conns' = Close
    /\ UNCHANGED <<snapshot, reply, experiment, up, exits, ctrlVars>>

ScriptStarts ==
    /\ script = "dead"
    /\ script' = "poll"
    /\ UNCHANGED <<snapshot, reply, ends, experiment, conns, up, exits, ctrlVars>>

-----------------------------------------------------------------------------
(* server and session                                                      *)

serverUnchanged == <<script, snapshot, ends, experiment, up, exits>>

\* Mutant: the handlers are run by several threads.
AnyThread == TRUE

\* No session is between the two stores of a start: one thread runs all
\* handlers.
ThreadIsFree == \A i \in DOMAIN conns : conns[i].stage # "starting"

SetStage(i, stage) == conns' = [conns EXCEPT ![i].stage = stage]

\* server::handle_accept: connections are accepted one after the other.
HandleAccept(i) ==
    /\ ThreadIsFree
    /\ conns[i].stage = "backlog"
    /\ \A k \in 1..(i - 1) : conns[k].stage # "backlog"
    /\ SetStage(i, "reading")
    /\ UNCHANGED <<serverUnchanged, reply, ctrlVars>>

\* Mutant: a running run is not replaced.
AcceptsUnlessRunning(command) == command.name = "stop" <=> running

\* session::process_command: is the command carried out, or ignored?
Accepts(command) ==
    IF command.name = "stop" THEN running
                             ELSE ~running \/ runNumber # command.run

\* Mutant: the commands of two connections are handled in any order.
AnyArrival(i) == conns[i].data # NoCommand

\* A command that arrived earlier on another connection is handled first.
NextArrival(i) ==
    /\ conns[i].data # NoCommand
    /\ \A k \in 1..(i - 1) : conns[k].data = NoCommand

\* Mutant: a command that is ignored is not answered.
ReplyUnlessIgnored(i, answer) ==
    /\ conns' = [conns EXCEPT ![i].stage = "writing", ![i].data = NoCommand]
    /\ reply' = IF conns[i].open /\ answer # "ignored" THEN answer ELSE reply

\* The reply is written as soon as the command was carried out.
Reply(i, answer) ==
    /\ conns' = [conns EXCEPT ![i].stage = "writing", ![i].data = NoCommand]
    /\ reply' = IF conns[i].open THEN answer ELSE reply

\* session::handle_read and process_command.  A start has two stores.
HandleRead(i) ==
    /\ ThreadIsFree
    /\ conns[i].stage = "reading"
    /\ NextArrival(i)
    /\ \/ /\ ~Accepts(conns[i].data)
          /\ Reply(i, "ignored")
          /\ UNCHANGED ctrlVars
       \/ /\ Accepts(conns[i].data) /\ conns[i].data.name = "stop"
          /\ running' = FALSE
          /\ Reply(i, "ok")
          /\ UNCHANGED <<runNumber, commanded>>
       \/ /\ Accepts(conns[i].data) /\ conns[i].data.name = "start"
          /\ runNumber' = conns[i].data.run /\ commanded' = conns[i].data.run
          /\ conns' = [conns EXCEPT ![i].stage = "starting",
                                    ![i].data = NoCommand]
          /\ UNCHANGED <<running, reply>>
    /\ UNCHANGED serverUnchanged

StoreRunning(i) ==
    /\ conns[i].stage = "starting"
    /\ running' = TRUE
    /\ Reply(i, "ok")
    /\ UNCHANGED <<serverUnchanged, runNumber, commanded>>

\* session::handle_read with an error: the script has closed its end.
HandleReadError(i) ==
    /\ ThreadIsFree
    /\ conns[i].stage = "reading"
    /\ conns[i].data = NoCommand /\ ~conns[i].open
    /\ conns' = RemoveAt(conns, i)
    /\ UNCHANGED <<serverUnchanged, reply, ctrlVars>>

\* session::handle_write, in the order in which the replies were written: the
\* session is deleted if its reply was not.
HandleWrite(i) ==
    /\ ThreadIsFree
    /\ conns[i].stage = "writing"
    /\ \A k \in 1..(i - 1) : conns[k].stage # "writing"
    /\ \/ SetStage(i, "reading")
       \/ ~conns[i].open /\ conns' = RemoveAt(conns, i)
    /\ UNCHANGED <<serverUnchanged, reply, ctrlVars>>

-----------------------------------------------------------------------------
(* scdaq                                                                   *)

\* The struct ctrl and all connections are gone.
ScdaqExits ==
    /\ up
    /\ exits < MaxExits
    /\ exits' = exits + 1
    /\ up' = FALSE
    /\ running' = FALSE /\ runNumber' = 0
    /\ conns' = <<>>
    /\ UNCHANGED <<scriptVars, experiment, commanded>>

\* main, started by run.sh.
ScdaqStarts ==
    /\ ~up
    /\ up' = TRUE
    /\ UNCHANGED <<scriptVars, experiment, conns, exits, ctrlVars>>

ScriptNext == Poll \/ Connect \/ Send \/ Receive \/ Sleep

Handler(i) ==
    HandleAccept(i) \/ HandleRead(i) \/ StoreRunning(i)
    \/ HandleReadError(i) \/ HandleWrite(i)

ServerNext == \E i \in DOMAIN conns : Handler(i)

Next ==
    \/ ExperimentChanges
    \/ ScriptNext \/ ScriptEnds \/ ScriptStarts
    \/ ServerNext \/ ScdaqExits \/ ScdaqStarts

Spec == Init /\ [][Next]_vars

\* The script and the server's thread run, no handler is kept waiting, run.sh
\* starts scdaq, and somebody starts the script when it has ended.  That
\* anything ends, or that the experiment changes, is never sure.
FairSpec ==
    /\ Spec
    /\ WF_vars(ScriptNext)
    /\ \A i \in 1..MaxConns : WF_vars(i \in DOMAIN conns /\ Handler(i))
    /\ WF_vars(ScdaqStarts)
    /\ WF_vars(ScriptStarts)

-----------------------------------------------------------------------------
(* Properties                                                              *)

\* Every variable keeps its type, and the script never has two connections.
TypeOK ==
    /\ experiment \in Experiment /\ snapshot \in Experiment
    /\ script \in {"poll", "connect", "send", "recv", "sleep", "dead"}
    /\ reply \in {"none", "ok", "ignored"}
    /\ ends \in 0..MaxEnds /\ exits \in 0..MaxExits
    /\ conns \in Seq(Connection)
    /\ up \in BOOLEAN /\ running \in BOOLEAN
    /\ runNumber \in Runs \cup {0} /\ commanded \in Runs \cup {0}
    /\ \A i, j \in Mine : i = j

Agrees(e) ==
    up /\ IF e.on THEN running /\ runNumber = e.run ELSE ~running

\* When the script has got its reply, scdaq does what the snapshot asked for,
\* whether the reply is "ok" or "ignored" and whatever earlier scripts left in
\* their connections; unless scdaq exited (session.h:69-94).
ReplyIsTrue ==
    script = "recv" /\ reply # "none" /\ Mine # {} => Agrees(snapshot)

\* The script, whose recv has no timeout, never waits in vain: its command is
\* still under way or the server is at it, unless the reply is there or the
\* connection has ended, whatever was ignored and whoever ended in between
\* (runControl.py:44, session.h:69-94).
ReplyIsDue ==
    script = "recv" /\ reply = "none" =>
        \A i \in Mine : conns[i].data # NoCommand \/ conns[i].stage = "starting"

\* Runs are never started again after a later one, through restarts of scdaq
\* and with commands of a script that was killed: the assumption on which the
\* journal of the file writer relies (session.h:71-75).
CommandedOnlyGrows == [][commanded' >= commanded]_vars

\* What the file writer is checked with and proved for is what run control
\* does: the stores of commands come in their order and never mix, and runs do
\* not go back (session.h:69-94, server.h:12-41).
Starting == \E i \in DOMAIN conns : conns[i].stage = "starting"

Control == INSTANCE Ctrl
    WITH RunsIncrease <- TRUE, starting <- Starting,
         active <- running \/ Starting

IsCtrl == Control!CtrlSpec

\* When the experiment stays as it is, scdaq ends up following it, whatever
\* ended and was started again before (runControl.py:26-77).
Follows ==
    \A e \in Experiment : <>[](experiment = e) => <>[]Agrees(e)
=============================================================================
