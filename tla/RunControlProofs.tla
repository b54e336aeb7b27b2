-------------------------- MODULE RunControlProofs --------------------------
(***************************************************************************)
(* Proofs about RunControl, for any bounds: any number of runs, of         *)
(* connections and of ends of the script and of scdaq.                     *)
(***************************************************************************)
EXTENDS RunControl, SequenceTheorems, TLAPS

-----------------------------------------------------------------------------
(* What the handlers do to the connections                                 *)

\* One connection changes, but not who has its other end.
LEMMA ChangeConn ==
    ASSUME conns \in Seq(Connection),
           NEW i \in DOMAIN conns, NEW c \in Connection,
           c.open = conns[i].open,
           conns' = [conns EXCEPT ![i] = c]
    PROVE  /\ conns' \in Seq(Connection)
           /\ Len(conns') = Len(conns)
           /\ DOMAIN conns' = DOMAIN conns
           /\ conns'[i] = c
           /\ \A k \in DOMAIN conns : k # i => conns'[k] = conns[k]
           /\ Mine' = Mine
<1>1. /\ conns' \in Seq(Connection)
      /\ Len(conns') = Len(conns)
      /\ DOMAIN conns' = DOMAIN conns
      /\ conns'[i] = c
      /\ \A k \in DOMAIN conns : k # i => conns'[k] = conns[k]
  BY ExceptSeq, LenProperties
<1> QED
  BY <1>1 DEF Mine

\* Where the connection k was before connection i was deleted.
Old(i, k) == IF k < i THEN k ELSE k + 1

\* A connection is deleted, and the order of the others stays.
LEMMA DropConn ==
    ASSUME conns \in Seq(Connection), NEW i \in DOMAIN conns,
           conns' = RemoveAt(conns, i)
    PROVE  /\ conns' \in Seq(Connection)
           /\ Len(conns') = Len(conns) - 1
           /\ DOMAIN conns' = 1..(Len(conns) - 1)
           /\ \A k \in DOMAIN conns' : /\ Old(i, k) \in DOMAIN conns
                                       /\ conns'[k] = conns[Old(i, k)]
<1> DEFINE n == Len(conns)
           front == SubSeq(conns, 1, i - 1)
           rest == SubSeq(conns, i + 1, n)
<1>1. /\ n \in Nat /\ DOMAIN conns = 1..n /\ i \in 1..n
      /\ \A k \in 1..n : conns[k] \in Connection
  BY LenProperties
<1>2. /\ front \in Seq(Connection) /\ Len(front) = i - 1
      /\ \A k \in 1..(i - 1) : front[k] = conns[k]
  BY <1>1, SubSeqProperties
<1>3. /\ rest \in Seq(Connection) /\ Len(rest) = n - i
      /\ \A k \in 1..(n - i) : rest[k] = conns[i + k]
  <2>1. /\ rest \in Seq(Connection)
        /\ Len(rest) = IF i + 1 <= n THEN n - (i + 1) + 1 ELSE 0
        /\ \A k \in 1..(n - (i + 1) + 1) : rest[k] = conns[(i + 1) + k - 1]
    BY <1>1, SubSeqProperties
  <2> HIDE DEF rest
  <2>2. Len(rest) = n - i /\ n - (i + 1) + 1 = n - i
    BY <1>1, <2>1
  <2>3. ASSUME NEW k \in 1..(n - i) PROVE rest[k] = conns[i + k]
    <3>1. (i + 1) + k - 1 = i + k
      BY <1>1
    <3> QED
      BY <2>1, <2>2, <3>1
  <2> QED
    BY <2>1, <2>2, <2>3
<1>4. conns' = front \o rest
  BY DEF RemoveAt
<1> HIDE DEF front, rest
<1>5. /\ conns' \in Seq(Connection)
      /\ Len(conns') = Len(front) + Len(rest)
      /\ \A k \in 1..(Len(front) + Len(rest)) :
            conns'[k] = IF k <= Len(front) THEN front[k]
                                           ELSE rest[k - Len(front)]
  <2> DEFINE joined == front \o rest
  <2>1. /\ joined \in Seq(Connection)
        /\ Len(joined) = Len(front) + Len(rest)
        /\ \A k \in 1..(Len(front) + Len(rest)) :
              joined[k] = IF k <= Len(front) THEN front[k]
                                             ELSE rest[k - Len(front)]
    BY <1>2, <1>3, ConcatProperties
  <2> HIDE DEF joined
  <2>2. conns' = joined
    BY <1>4 DEF joined
  <2> QED
    BY <2>1, <2>2
<1>6. Len(conns') = n - 1 /\ DOMAIN conns' = 1..(n - 1)
  BY <1>1, <1>2, <1>3, <1>5, LenProperties
<1>7. ASSUME NEW k \in 1..(n - 1)
      PROVE  Old(i, k) \in 1..n /\ conns'[k] = conns[Old(i, k)]
  <2>1. CASE k < i
    BY <1>1, <1>2, <1>3, <1>5, <2>1 DEF Old
  <2>2. CASE ~(k < i)
    <3> DEFINE j == k - (i - 1)
    <3>1. j \in 1..(n - i) /\ i + j = k + 1 /\ ~(k <= i - 1) /\ k + 1 \in 1..n
      BY <1>1, <2>2
    <3>2. conns'[k] = rest[j]
      <4>1. n \in Nat /\ i \in 1..n /\ Len(front) = i - 1 /\ Len(rest) = n - i
        BY <1>1, <1>2, <1>3
      <4>2. k \in 1..(Len(front) + Len(rest))
        BY ONLY <4>1, k \in 1..(n - 1)
      <4>3. ~(k <= Len(front)) /\ k - Len(front) = j
        BY ONLY <3>1, <4>1
      <4>4. conns'[k] = rest[k - Len(front)]
        BY ONLY <1>5, <4>2, <4>3
      <4> QED
        BY ONLY <4>3, <4>4
    <3>3. rest[j] = conns[i + j]
      BY <1>3, <3>1
    <3> QED
      BY <2>2, <3>1, <3>2, <3>3 DEF Old
  <2> QED
    BY <2>1, <2>2
<1> QED
  BY <1>1, <1>5, <1>6, <1>7

\* What is a step of the server's thread besides commands: a connection is
\* waited on again, or deleted.
Moves(i) ==
    /\ ThreadIsFree
    /\ conns' = [conns EXCEPT ![i].stage = "reading"]
    /\ UNCHANGED <<serverUnchanged, reply, ctrlVars>>

Drops(i) ==
    /\ ThreadIsFree /\ ~conns[i].open
    /\ conns' = RemoveAt(conns, i)
    /\ UNCHANGED <<serverUnchanged, reply, ctrlVars>>

LEMMA Handlers ==
    ASSUME NEW i \in DOMAIN conns, Handler(i)
    PROVE  Moves(i) \/ Drops(i) \/ HandleRead(i) \/ StoreRunning(i)
BY DEF Handler, HandleAccept, HandleReadError, HandleWrite, SetStage, Moves,
       Drops

-----------------------------------------------------------------------------
(* Type correctness                                                        *)

\* The script holds the newest connection, only between connecting and
\* closing, and only one handler is between its two stores.
TypeInv ==
    /\ TypeOK
    /\ \A i \in Mine : i = Len(conns)
    /\ Mine # {} => script \in {"send", "recv"}
    /\ conns # <<>> => up
    /\ \A i, j \in DOMAIN conns :
          conns[i].stage = "starting" /\ conns[j].stage = "starting" => i = j

LEMMA CommandTypes ==
    /\ \A c \in Command : c.name \in {"start", "stop"}
    /\ \A c \in Command : c.name = "start" => c.run \in Runs
    /\ snapshot \in Experiment => Message \in Command
BY DEF Command, Message, Experiment

LEMMA TypeInit == Init => TypeInv
<1> SUFFICES ASSUME Init PROVE TypeInv
  OBVIOUS
<1>1. conns \in Seq(Connection) /\ DOMAIN conns = {}
  BY EmptySeq DEF Init
<1>2. snapshot \in Experiment /\ experiment \in Experiment
  BY DEF Init
<1>3. ends \in 0..MaxEnds /\ exits \in 0..MaxExits
  BY RunControlAssumption DEF Init, RunControlAssumption
<1> QED
  BY <1>1, <1>2, <1>3 DEF Init, TypeInv, TypeOK, Mine

\* The steps that leave the connections as they are, or close or forget them.
LEMMA TypeScript ==
    ASSUME TypeInv,
           \/ ExperimentChanges \/ Poll \/ Sleep \/ Receive
           \/ ScriptEnds \/ ScriptStarts \/ ScdaqExits \/ ScdaqStarts
    PROVE  TypeInv'
<1>1. /\ conns \in Seq(Connection) /\ DOMAIN conns = 1..Len(conns)
      /\ \A k \in DOMAIN conns : conns[k] \in Connection
  BY LenProperties DEF TypeInv, TypeOK
<1>2. CASE Receive \/ ScriptEnds
  <2>1. conns' = Close
    BY <1>2 DEF Receive, ScriptEnds
  <2>2. ASSUME NEW k \in DOMAIN conns
        PROVE  /\ [conns[k] EXCEPT !.open = FALSE] \in Connection
               /\ [conns[k] EXCEPT !.open = FALSE].stage = conns[k].stage
               /\ [conns[k] EXCEPT !.open = FALSE].open = FALSE
    BY <1>1 DEF Connection
  <2>3. /\ DOMAIN conns' = 1..Len(conns)
        /\ \A k \in DOMAIN conns : /\ conns'[k] \in Connection
                                   /\ conns'[k].stage = conns[k].stage
                                   /\ conns'[k].open = FALSE
    BY <1>1, <2>1, <2>2 DEF Close
  <2>4. conns' = [k \in 1..Len(conns) |-> conns'[k]]
    BY <1>1, <2>1, <2>3 DEF Close
  <2>5. conns' \in Seq(Connection) /\ Len(conns') = Len(conns)
    BY <1>1, <2>3, <2>4, IsASeq, LenProperties
  <2>6. Mine' = {}
    BY <1>1, <2>3 DEF Mine
  <2>7. conns' # <<>> => conns # <<>>
    BY <1>1, <2>3
  <2> QED
    BY <1>1, <1>2, <2>3, <2>5, <2>6, <2>7, RunControlAssumption
       DEF TypeInv, TypeOK, Receive, ScriptEnds, ctrlVars
<1>3. CASE ScdaqExits
  <2>1. conns' \in Seq(Connection) /\ Mine' = {} /\ DOMAIN conns' = {}
        /\ conns' = <<>>
    BY <1>3, EmptySeq DEF Mine, ScdaqExits
  <2>2. exits' \in 0..MaxExits
    BY <1>3, RunControlAssumption DEF TypeInv, TypeOK, ScdaqExits
  <2>3. TypeOK'
    BY <1>3, <2>1, <2>2 DEF TypeInv, TypeOK, ScdaqExits, scriptVars
  <2> QED
    BY <2>1, <2>3 DEF TypeInv
<1>4. ASSUME UNCHANGED conns,
             \/ ExperimentChanges \/ Poll \/ Sleep \/ ScriptStarts
             \/ ScdaqStarts
      PROVE  TypeInv'
  <2>1. UNCHANGED Mine
    BY <1>4 DEF Mine
  <2> QED
    BY <1>4, <2>1 DEF TypeInv, TypeOK, ExperimentChanges, Poll, Sleep,
       ScriptStarts, ScdaqStarts, scriptVars, ctrlVars
<1> QED
  BY <1>2, <1>3, <1>4 DEF ExperimentChanges, Poll, Sleep, ScriptStarts,
                          ScdaqStarts

\* The connections of the state.
LEMMA ConnTypes ==
    ASSUME TypeInv
    PROVE  /\ conns \in Seq(Connection) /\ Len(conns) \in Nat
           /\ DOMAIN conns = 1..Len(conns)
           /\ \A k \in DOMAIN conns :
                 /\ conns[k] \in Connection
                 /\ conns[k].data \in Command \cup {NoCommand}
                 /\ conns[k].open \in BOOLEAN
                 /\ conns[k].stage
                       \in {"backlog", "reading", "starting", "writing"}
<1>1. /\ conns \in Seq(Connection) /\ Len(conns) \in Nat
      /\ DOMAIN conns = 1..Len(conns)
      /\ \A k \in DOMAIN conns : conns[k] \in Connection
  BY LenProperties DEF TypeInv, TypeOK
<1> QED
  BY <1>1 DEF Connection

\* A connection is made, the last one.
LEMMA NewConn ==
    ASSUME TypeInv, Connect, up
    PROVE  /\ conns' \in Seq(Connection) /\ Len(conns') = Len(conns) + 1
           /\ DOMAIN conns' = 1..(Len(conns) + 1)
           /\ \A k \in DOMAIN conns : conns'[k] = conns[k]
           /\ conns'[Len(conns) + 1] = [stage |-> "backlog",
                                        data |-> NoCommand, open |-> TRUE]
           /\ Mine' = {Len(conns) + 1}
<1> DEFINE c == [stage |-> "backlog", data |-> NoCommand, open |-> TRUE]
<1>1. c \in Connection /\ c.open = TRUE
  BY DEF Connection
<1>2. conns' = Append(conns, c)
  BY DEF Connect
<1> HIDE DEF c
<1>3. /\ conns' \in Seq(Connection) /\ Len(conns') = Len(conns) + 1
      /\ \A k \in 1..Len(conns) : conns'[k] = conns[k]
      /\ conns'[Len(conns) + 1] = c
  BY <1>1, <1>2, ConnTypes, AppendProperties
<1>4. DOMAIN conns' = 1..(Len(conns) + 1)
  BY <1>3, ConnTypes, LenProperties
<1>5. Mine = {}
  BY DEF TypeInv, Connect
<1>6. Mine' = {Len(conns) + 1}
  BY <1>1, <1>3, <1>4, <1>5, ConnTypes DEF Mine
<1> QED
  BY <1>3, <1>4, <1>6, ConnTypes DEF c

LEMMA TypeConnect == TypeInv /\ Connect => TypeInv'
<1> SUFFICES ASSUME TypeInv, Connect PROVE TypeInv'
  OBVIOUS
<1>1. CASE up
  <2>1. /\ conns' \in Seq(Connection) /\ Len(conns') = Len(conns) + 1
        /\ Mine' = {Len(conns')}
    BY <1>1, NewConn
  <2>2. \A i, j \in DOMAIN conns' :
           conns'[i].stage = "starting" /\ conns'[j].stage = "starting" => i = j
    <3>1. /\ DOMAIN conns' = 1..(Len(conns) + 1)
          /\ \A k \in DOMAIN conns : conns'[k] = conns[k]
          /\ conns'[Len(conns) + 1].stage = "backlog"
      BY <1>1, NewConn
    <3> QED
      BY <3>1, ConnTypes DEF TypeInv
  <2>3. TypeOK'
    BY <2>1, <1>1 DEF TypeInv, TypeOK, Connect, ctrlVars
  <2> QED
    BY <1>1, <2>1, <2>2, <2>3 DEF TypeInv, Connect
<1>2. CASE ~up
  <2>1. UNCHANGED conns /\ UNCHANGED Mine
    BY <1>2 DEF Connect, Mine
  <2> QED
    BY <1>2, <2>1 DEF TypeInv, TypeOK, Connect, ctrlVars
<1> QED
  BY <1>1, <1>2

\* The command is put into the connection of the script.
LEMMA SentCommand ==
    ASSUME TypeInv, Send
    PROVE  /\ conns' \in Seq(Connection) /\ Len(conns') = Len(conns)
           /\ DOMAIN conns' = DOMAIN conns
           /\ \A k \in DOMAIN conns :
                 /\ conns'[k].stage = conns[k].stage
                 /\ conns'[k].open = conns[k].open
                 /\ k \notin Mine => conns'[k] = conns[k]
                 /\ k \in Mine => conns'[k].data = Message
           /\ Mine' = Mine
<1>1. Message \in Command
  BY CommandTypes DEF TypeInv, TypeOK
<1>2. ASSUME NEW k \in DOMAIN conns
      PROVE  /\ [conns[k] EXCEPT !.data = Message] \in Connection
             /\ [conns[k] EXCEPT !.data = Message].stage = conns[k].stage
             /\ [conns[k] EXCEPT !.data = Message].open = conns[k].open
             /\ [conns[k] EXCEPT !.data = Message].data = Message
  BY <1>1, ConnTypes DEF Connection
<1>3. /\ DOMAIN conns' = DOMAIN conns
      /\ \A k \in DOMAIN conns :
            conns'[k] = IF k \in Mine THEN [conns[k] EXCEPT !.data = Message]
                                      ELSE conns[k]
  BY DEF Send
<1>4. conns' = [k \in 1..Len(conns) |-> conns'[k]]
  BY <1>3, ConnTypes DEF Send
<1>5. \A k \in DOMAIN conns : conns'[k] \in Connection
  BY <1>2, <1>3, ConnTypes
<1>6. conns' \in Seq(Connection) /\ Len(conns') = Len(conns)
  BY <1>3, <1>4, <1>5, ConnTypes, IsASeq, LenProperties
<1>7. \A k \in DOMAIN conns : /\ conns'[k].stage = conns[k].stage
                              /\ conns'[k].open = conns[k].open
                              /\ k \notin Mine => conns'[k] = conns[k]
                              /\ k \in Mine => conns'[k].data = Message
  BY <1>2, <1>3
<1>8. Mine' = Mine
  BY <1>3, <1>7 DEF Mine
<1> QED
  BY <1>3, <1>6, <1>7, <1>8

LEMMA TypeSend == TypeInv /\ Send => TypeInv'
<1> SUFFICES ASSUME TypeInv, Send PROVE TypeInv'
  OBVIOUS
<1>1. /\ conns' \in Seq(Connection) /\ Len(conns') = Len(conns)
      /\ DOMAIN conns' = DOMAIN conns /\ Mine' = Mine
      /\ \A k \in DOMAIN conns : conns'[k].stage = conns[k].stage
  BY SentCommand
<1>2. TypeOK'
  BY <1>1 DEF TypeInv, TypeOK, Send, ctrlVars
<1>3. conns' # <<>> => conns # <<>>
  BY <1>1, ConnTypes
<1> QED
  BY <1>1, <1>2, <1>3 DEF TypeInv, Send

\* What a handler makes of its connection.
LEMMA ConnUpdates ==
    ASSUME NEW c \in Connection,
           NEW st \in {"backlog", "reading", "starting", "writing"}
    PROVE  LET moved == [c EXCEPT !.stage = st]
               answered == [c EXCEPT !.stage = st, !.data = NoCommand]
           IN  /\ moved \in Connection /\ moved.stage = st
               /\ moved.data = c.data /\ moved.open = c.open
               /\ answered \in Connection /\ answered.stage = st
               /\ answered.data = NoCommand /\ answered.open = c.open
BY DEF Connection

\* The connection i is in another stage, with a command that was taken or not.
Staged(i, st) ==
    /\ conns' \in Seq(Connection) /\ Len(conns') = Len(conns)
    /\ DOMAIN conns' = DOMAIN conns
    /\ \A k \in DOMAIN conns : k # i => conns'[k] = conns[k]
    /\ conns'[i].stage = st /\ conns'[i].open = conns[i].open
    /\ Mine' = Mine

LEMMA MovedConn ==
    ASSUME TypeInv, NEW i \in DOMAIN conns, Moves(i)
    PROVE  Staged(i, "reading") /\ conns'[i].data = conns[i].data
<1> DEFINE c == [conns[i] EXCEPT !.stage = "reading"]
<1>1. c \in Connection /\ c.stage = "reading" /\ c.open = conns[i].open
      /\ c.data = conns[i].data
  BY ConnTypes, ConnUpdates
<1>2. conns' = [conns EXCEPT ![i] = c] /\ conns \in Seq(Connection)
  BY DEF Moves, TypeInv, TypeOK
<1> HIDE DEF c
<1> QED
  BY <1>1, <1>2, ChangeConn DEF Staged

LEMMA AnsweredConn ==
    ASSUME TypeInv, NEW i \in DOMAIN conns,
           NEW st \in {"backlog", "reading", "starting", "writing"},
           conns' = [conns EXCEPT ![i].stage = st, ![i].data = NoCommand]
    PROVE  Staged(i, st) /\ conns'[i].data = NoCommand
<1> DEFINE c == [conns[i] EXCEPT !.stage = st, !.data = NoCommand]
<1>1. c \in Connection /\ c.stage = st /\ c.open = conns[i].open
      /\ c.data = NoCommand
  <2>1. conns[i] \in Connection
        /\ st \in {"backlog", "reading", "starting", "writing"}
    BY ConnTypes
  <2> QED
    BY ONLY <2>1 DEF Connection
<1>2. conns' = [conns EXCEPT ![i] = c] /\ conns \in Seq(Connection)
  BY DEF TypeInv, TypeOK
<1> HIDE DEF c
<1> QED
  BY <1>1, <1>2, ChangeConn DEF Staged

\* A connection that the script has closed is deleted.
LEMMA DroppedConn ==
    ASSUME TypeInv, NEW i \in DOMAIN conns, Drops(i)
    PROVE  /\ conns' \in Seq(Connection)
           /\ Len(conns') = Len(conns) - 1 /\ DOMAIN conns' = 1..Len(conns')
           /\ \A k \in DOMAIN conns' : /\ Old(i, k) \in DOMAIN conns
                                       /\ conns'[k] = conns[Old(i, k)]
           /\ \A k \in Mine' : Old(i, k) \in Mine /\ k = Len(conns')
           /\ Mine' # {} => Mine # {}
<1>1. /\ conns' \in Seq(Connection)
      /\ Len(conns') = Len(conns) - 1 /\ DOMAIN conns' = 1..Len(conns')
      /\ \A k \in DOMAIN conns' : /\ Old(i, k) \in DOMAIN conns
                                  /\ conns'[k] = conns[Old(i, k)]
  <2>1. conns' = RemoveAt(conns, i) /\ conns \in Seq(Connection)
    BY DEF Drops, TypeInv, TypeOK
  <2> QED
    BY <2>1, DropConn
<1>2. ASSUME NEW k \in Mine' PROVE Old(i, k) \in Mine /\ k = Len(conns')
  <2>1. k \in DOMAIN conns' /\ conns'[k].open
    BY DEF Mine
  <2>2. Old(i, k) \in Mine /\ Old(i, k) = Len(conns)
    BY <1>1, <2>1 DEF Mine, TypeInv
  <2>3. k < i => i <= Len(conns) /\ k < Len(conns) /\ Old(i, k) = k
    BY <1>1, <2>1, ConnTypes DEF Old
  <2>4. ~(k < i) => Old(i, k) = k + 1
    BY DEF Old
  <2> QED
    BY <1>1, <2>1, <2>2, <2>3, <2>4, ConnTypes
<1> QED
  BY <1>1, <1>2

\* The two kinds of steps of a command.
Ignores(i) ==
    /\ ~Accepts(conns[i].data)
    /\ Reply(i, "ignored")
    /\ UNCHANGED ctrlVars

Stops(i) ==
    /\ Accepts(conns[i].data) /\ conns[i].data.name = "stop"
    /\ running' = FALSE
    /\ Reply(i, "ok")
    /\ UNCHANGED <<runNumber, commanded>>

Starts(i) ==
    /\ Accepts(conns[i].data) /\ conns[i].data.name = "start"
    /\ runNumber' = conns[i].data.run /\ commanded' = conns[i].data.run
    /\ conns' = [conns EXCEPT ![i].stage = "starting", ![i].data = NoCommand]
    /\ UNCHANGED <<running, reply>>

LEMMA ReadConn ==
    ASSUME TypeInv, NEW i \in DOMAIN conns, HandleRead(i)
    PROVE  /\ ThreadIsFree /\ NextArrival(i) /\ conns[i].stage = "reading"
           /\ UNCHANGED serverUnchanged
           /\ conns[i].data \in Command /\ conns[i].data # NoCommand
           /\ conns'[i].data = NoCommand
           /\ \/ Ignores(i) /\ Staged(i, "writing")
              \/ Stops(i) /\ Staged(i, "writing")
              \/ Starts(i) /\ Staged(i, "starting")
<1>1. /\ ThreadIsFree /\ NextArrival(i) /\ conns[i].stage = "reading"
      /\ UNCHANGED serverUnchanged
      /\ Ignores(i) \/ Stops(i) \/ Starts(i)
  BY DEF HandleRead, Ignores, Stops, Starts
<1>2. conns[i].data \in Command /\ conns[i].data # NoCommand
  BY <1>1, ConnTypes DEF NextArrival
<1>3. CASE Ignores(i) \/ Stops(i)
  <2>1. conns' = [conns EXCEPT ![i].stage = "writing", ![i].data = NoCommand]
    BY <1>3 DEF Ignores, Stops, Reply
  <2> QED
    BY <1>1, <1>2, <1>3, <2>1, AnsweredConn
<1>4. CASE Starts(i)
  <2>1. conns' = [conns EXCEPT ![i].stage = "starting", ![i].data = NoCommand]
    BY <1>4 DEF Starts
  <2> QED
    BY <1>1, <1>2, <1>4, <2>1, AnsweredConn
<1> QED
  BY <1>1, <1>3, <1>4

LEMMA StoredConn ==
    ASSUME TypeInv, NEW i \in DOMAIN conns, StoreRunning(i)
    PROVE  Staged(i, "writing") /\ conns'[i].data = NoCommand
<1>1. conns' = [conns EXCEPT ![i].stage = "writing", ![i].data = NoCommand]
  BY DEF StoreRunning, Reply
<1> QED
  BY <1>1, AnsweredConn

\* A handler keeps TypeInv.
LEMMA TypeHandler ==
    ASSUME TypeInv, NEW i \in DOMAIN conns, Handler(i)
    PROVE  TypeInv'
<1>1. CASE Drops(i)
  <2>1. /\ conns' \in Seq(Connection)
        /\ Mine' # {} => Mine # {}
        /\ \A k \in Mine' : k = Len(conns')
    BY <1>1, DroppedConn
  <2>2. \A k \in DOMAIN conns' : conns'[k].stage # "starting"
    BY <1>1, DroppedConn DEF Drops, ThreadIsFree
  <2>3. TypeOK'
    BY <1>1, <2>1
       DEF TypeInv, TypeOK, Drops, serverUnchanged, ctrlVars
  <2> QED
    BY <1>1, <2>1, <2>2, <2>3, EmptySeq, ConnTypes
       DEF TypeInv, Drops, serverUnchanged
<1>2. ASSUME NEW st \in {"reading", "starting", "writing"}, Staged(i, st),
             st = "starting" => ThreadIsFree,
             UNCHANGED serverUnchanged,
             reply' \in {"none", "ok", "ignored"}, running' \in BOOLEAN,
             runNumber' \in Runs \cup {0}, commanded' \in Runs \cup {0}
      PROVE  TypeInv'
  <2>1. TypeOK'
    BY <1>2 DEF TypeInv, TypeOK, Staged, serverUnchanged
  <2>2. \A k, j \in DOMAIN conns' :
           conns'[k].stage = "starting" /\ conns'[j].stage = "starting" => k = j
    BY <1>2 DEF TypeInv, Staged, ThreadIsFree
  <2>3. up'
    BY <1>2, ConnTypes DEF TypeInv, serverUnchanged
  <2> QED
    BY <1>2, <2>1, <2>2, <2>3 DEF TypeInv, Staged, serverUnchanged
<1>3. CASE Moves(i)
  <2>1. UNCHANGED <<serverUnchanged, reply, ctrlVars>>
    BY <1>3 DEF Moves
  <2> QED
    BY <1>2, <1>3, <2>1, MovedConn DEF TypeInv, TypeOK, ctrlVars
<1>4. CASE HandleRead(i)
  <2>1. /\ ThreadIsFree /\ UNCHANGED serverUnchanged
        /\ conns[i].data \in Command
        /\ \/ Ignores(i) /\ Staged(i, "writing")
           \/ Stops(i) /\ Staged(i, "writing")
           \/ Starts(i) /\ Staged(i, "starting")
    BY <1>4, ReadConn
  <2>2. /\ reply \in {"none", "ok", "ignored"} /\ running \in BOOLEAN
        /\ runNumber \in Runs \cup {0} /\ commanded \in Runs \cup {0}
    BY DEF TypeInv, TypeOK
  <2>3. CASE Ignores(i) \/ Stops(i)
    <3>1. /\ reply' \in {"none", "ok", "ignored"} /\ running' \in BOOLEAN
          /\ UNCHANGED <<runNumber, commanded>>
      BY <2>2, <2>3 DEF Ignores, Stops, Reply, ctrlVars
    <3>2. CASE Staged(i, "writing")
      BY <1>2, <2>1, <2>2, <3>1, <3>2
    <3>3. CASE Starts(i)
      BY <2>1, <2>3, <3>3, CommandTypes DEF Starts, Stops, Ignores
    <3> QED
      BY <2>1, <3>2, <3>3
  <2>4. CASE Starts(i)
    <3>1. /\ runNumber' \in Runs /\ commanded' \in Runs
          /\ UNCHANGED <<running, reply>>
      BY <2>1, <2>4, CommandTypes DEF Starts
    <3>2. Staged(i, "starting")
      BY <2>1, <2>4 DEF Starts, Stops, Ignores
    <3> QED
      BY <1>2, <2>1, <2>2, <3>1, <3>2
  <2> QED
    BY <2>1, <2>3, <2>4
<1>5. CASE StoreRunning(i)
  <2>1. /\ UNCHANGED <<serverUnchanged, runNumber, commanded>>
        /\ running' = TRUE /\ reply' \in {reply, "ok"}
    BY <1>5 DEF StoreRunning, Reply
  <2> QED
    BY <1>2, <1>5, <2>1, StoredConn DEF TypeInv, TypeOK
<1> QED
  BY <1>1, <1>3, <1>4, <1>5, Handlers

LEMMA TypeNext == TypeInv /\ [Next]_vars => TypeInv'
<1> SUFFICES ASSUME TypeInv, [Next]_vars PROVE TypeInv'
  OBVIOUS
<1>1. CASE UNCHANGED vars
  BY <1>1 DEF vars, TypeInv, TypeOK, Mine
<1> QED
  BY <1>1, TypeScript, TypeConnect, TypeSend, TypeHandler
     DEF Next, ScriptNext, ServerNext

\* The variables keep their types and the script never has two connections,
\* for any number of runs, of connections and of ends.
THEOREM TypeSafety == Spec => []TypeOK
<1>1. TypeInv => TypeOK
  BY DEF TypeInv
<1> QED
  BY <1>1, TypeInit, TypeNext, PTL DEF Spec

-----------------------------------------------------------------------------
(* Runs only grow                                                          *)

IsStart(k) ==
    conns[k].data # NoCommand /\ conns[k].data.name = "start"

\* The starts that are under way came in the order of the connections, after
\* the one that was carried out last and before the snapshot of the script.
OrderInv ==
    /\ TypeInv
    /\ commanded <= snapshot.run /\ snapshot.run <= experiment.run
    /\ \A k \in DOMAIN conns : IsStart(k) =>
          commanded <= conns[k].data.run /\ conns[k].data.run <= snapshot.run
    /\ \A j, k \in DOMAIN conns : IsStart(j) /\ IsStart(k) /\ j < k =>
          conns[j].data.run <= conns[k].data.run

LEMMA OrderTypes ==
    ASSUME OrderInv
    PROVE  /\ TypeInv
           /\ commanded \in Nat /\ snapshot.run \in Nat /\ experiment.run \in Nat
           /\ snapshot \in Experiment /\ experiment \in Experiment
           /\ \A k \in DOMAIN conns : IsStart(k) => conns[k].data.run \in Nat
<1>1. Runs \subseteq Nat
  BY RunControlAssumption DEF Runs
<1>2. \A k \in DOMAIN conns : IsStart(k) => conns[k].data.run \in Runs
  BY ConnTypes, CommandTypes DEF OrderInv, IsStart
<1>3. /\ TypeInv /\ commanded \in Runs \cup {0}
      /\ snapshot \in Experiment /\ experiment \in Experiment
  BY DEF OrderInv, TypeInv, TypeOK
<1>4. \A e \in Experiment : e.run \in Runs
  BY DEF Experiment
<1>5. \A k \in DOMAIN conns : IsStart(k) => conns[k].data.run \in Nat
  BY <1>1, <1>2
<1>6. snapshot.run \in Nat /\ experiment.run \in Nat
  BY <1>1, <1>3, <1>4
<1>7. commanded \in Nat
  BY <1>1, <1>3
<1> QED
  BY <1>3, <1>5, <1>6, <1>7

LEMMA OrderInit == Init => OrderInv
<1> SUFFICES ASSUME Init PROVE OrderInv
  OBVIOUS
<1>1. DOMAIN conns = {} /\ snapshot.run = experiment.run
      /\ snapshot.run \in Nat /\ commanded = 0
  BY RunControlAssumption DEF Init, Experiment, Runs
<1> QED
  BY <1>1, TypeInit DEF OrderInv

\* The commands that are there after the step were there before, in the same
\* order.
LEMMA OrderKept ==
    ASSUME OrderInv, TypeInv', NEW was \in [DOMAIN conns' -> DOMAIN conns],
           \A k \in DOMAIN conns' :
              conns'[k].data \in {conns[was[k]].data, NoCommand},
           \A j, k \in DOMAIN conns' : j < k => was[j] < was[k],
           UNCHANGED commanded,
           snapshot'.run \in Nat,
           snapshot.run <= snapshot'.run, snapshot'.run <= experiment'.run
    PROVE  OrderInv'
<1>1. ASSUME NEW k \in DOMAIN conns', IsStart(k)'
      PROVE  IsStart(was[k]) /\ conns'[k].data.run = conns[was[k]].data.run
  BY <1>1 DEF IsStart
<1>2. ASSUME NEW k \in DOMAIN conns', IsStart(k)'
      PROVE  commanded' <= conns'[k].data.run
             /\ conns'[k].data.run <= snapshot'.run
  BY <1>1, <1>2, OrderTypes DEF OrderInv
<1>3. ASSUME NEW j \in DOMAIN conns', NEW k \in DOMAIN conns',
             IsStart(j)', IsStart(k)', j < k
      PROVE  conns'[j].data.run <= conns'[k].data.run
  BY <1>1, <1>3 DEF OrderInv
<1>4. commanded' <= snapshot'.run
  BY OrderTypes DEF OrderInv
<1> QED
  BY <1>2, <1>3, <1>4 DEF OrderInv

\* The connections keep their commands, or their handlers have taken them.
LEMMA OrderSame ==
    ASSUME OrderInv, TypeInv', DOMAIN conns' \subseteq DOMAIN conns,
           \A k \in DOMAIN conns' :
              conns'[k].data \in {conns[k].data, NoCommand},
           UNCHANGED commanded,
           snapshot'.run \in Nat,
           snapshot.run <= snapshot'.run, snapshot'.run <= experiment'.run
    PROVE  OrderInv'
<1> DEFINE was == [k \in DOMAIN conns' |-> k]
<1>1. was \in [DOMAIN conns' -> DOMAIN conns]
  OBVIOUS
<1>2. /\ \A k \in DOMAIN conns' :
            conns'[k].data \in {conns[was[k]].data, NoCommand}
      /\ \A j, k \in DOMAIN conns' : j < k => was[j] < was[k]
  OBVIOUS
<1> HIDE DEF was
<1> QED
  BY <1>1, <1>2, OrderKept

LEMMA OrderScript ==
    ASSUME OrderInv, TypeInv',
           \/ ExperimentChanges \/ Poll \/ Sleep \/ Receive
           \/ ScriptEnds \/ ScriptStarts \/ ScdaqExits \/ ScdaqStarts
    PROVE  OrderInv'
<1>1. /\ snapshot.run <= snapshot'.run /\ snapshot'.run <= experiment'.run
      /\ snapshot'.run \in Nat /\ UNCHANGED commanded
  <2>1. /\ snapshot.run \in Nat /\ experiment.run \in Nat
        /\ snapshot.run <= experiment.run
    BY OrderTypes DEF OrderInv
  <2>2. experiment'.run \in Nat
    BY RunControlAssumption DEF TypeInv, TypeOK, Experiment, Runs
  <2>3. CASE ExperimentChanges
    BY <2>1, <2>2, <2>3 DEF ExperimentChanges, scriptVars, ctrlVars
  <2>4. CASE Poll
    BY <2>1, <2>4 DEF Poll, ctrlVars
  <2> QED
    BY <2>1, <2>3, <2>4 DEF Sleep, Receive, ScriptEnds, ScriptStarts,
       ScdaqExits, ScdaqStarts, scriptVars, ctrlVars
<1>2. CASE Receive \/ ScriptEnds
  <2>1. conns' = Close
    BY <1>2 DEF Receive, ScriptEnds
  <2>2. /\ DOMAIN conns' = DOMAIN conns
        /\ \A k \in DOMAIN conns : conns'[k].data = conns[k].data
    BY <2>1, ConnTypes DEF Close, OrderInv, Connection
  <2> QED
    BY <1>1, <2>2, OrderSame
<1>3. CASE ScdaqExits
  <2>1. DOMAIN conns' = {}
    BY <1>3, EmptySeq DEF ScdaqExits
  <2> QED
    BY <1>1, <2>1, OrderSame
<1>4. CASE UNCHANGED conns
  BY <1>1, <1>4, OrderSame
<1> QED
  BY <1>2, <1>3, <1>4 DEF ExperimentChanges, Poll, Sleep, ScriptStarts,
                          ScdaqStarts

LEMMA OrderConnect == OrderInv /\ TypeInv' /\ Connect => OrderInv'
<1> SUFFICES ASSUME OrderInv, TypeInv', Connect PROVE OrderInv'
  OBVIOUS
<1>1. UNCHANGED <<snapshot, experiment, commanded>>
  BY DEF Connect, ctrlVars
<1>2. CASE up
  <2>1. /\ DOMAIN conns' = 1..(Len(conns) + 1)
        /\ \A k \in DOMAIN conns : conns'[k] = conns[k]
        /\ conns'[Len(conns) + 1].data = NoCommand
    BY <1>2, NewConn DEF OrderInv
  <2>2. DOMAIN conns = 1..Len(conns) /\ Len(conns) \in Nat
    BY ConnTypes DEF OrderInv
  <2>3. \A k \in DOMAIN conns' :
           IsStart(k)' => /\ k \in DOMAIN conns /\ IsStart(k)
                          /\ conns'[k].data.run = conns[k].data.run
    BY <2>1, <2>2 DEF IsStart
  <2> QED
    BY <1>1, <2>3 DEF OrderInv
<1>3. CASE ~up
  BY <1>1, <1>3, OrderTypes, OrderSame DEF Connect, OrderInv
<1> QED
  BY <1>2, <1>3

\* The command that is sent is of the last connection, and of the snapshot.
LEMMA OrderSend == OrderInv /\ TypeInv' /\ Send => OrderInv'
<1> SUFFICES ASSUME OrderInv, TypeInv', Send PROVE OrderInv'
  OBVIOUS
<1>1. UNCHANGED <<snapshot, experiment, commanded>>
  BY DEF Send, ctrlVars
<1>2. /\ DOMAIN conns' = DOMAIN conns /\ DOMAIN conns = 1..Len(conns)
      /\ \A k \in DOMAIN conns : /\ k \notin Mine => conns'[k] = conns[k]
                                 /\ k \in Mine => conns'[k].data = Message
      /\ Len(conns) \in Nat
      /\ \A k \in Mine : k = Len(conns)
  BY SentCommand, ConnTypes DEF OrderInv, TypeInv
<1>3. /\ snapshot.run \in Nat /\ commanded \in Nat
      /\ commanded <= snapshot.run /\ snapshot.run <= experiment.run
  BY OrderTypes DEF OrderInv
<1>4. ASSUME NEW k \in DOMAIN conns, IsStart(k)'
      PROVE  /\ k \in Mine => conns'[k].data.run = snapshot.run
             /\ k \notin Mine => IsStart(k)
                                 /\ conns'[k].data.run = conns[k].data.run
             /\ commanded <= conns'[k].data.run
             /\ conns'[k].data.run <= snapshot.run
             /\ conns'[k].data.run \in Nat
  <2>1. CASE k \in Mine
    <3>1. Message.name = "start" => Message.run = snapshot.run
      BY DEF Message
    <3> QED
      BY <1>2, <1>3, <1>4, <2>1, <3>1 DEF IsStart
  <2>2. CASE k \notin Mine
    BY <1>2, <1>4, <2>2, OrderTypes DEF IsStart, OrderInv
  <2> QED
    BY <2>1, <2>2
<1>5. ASSUME NEW j \in DOMAIN conns, NEW k \in DOMAIN conns,
             IsStart(j)', IsStart(k)', j < k
      PROVE  conns'[j].data.run <= conns'[k].data.run
  <2>1. j \notin Mine
    BY <1>2, <1>5
  <2>2. CASE k \in Mine
    BY <1>4, <1>5, <2>2
  <2>3. CASE k \notin Mine
    BY <1>4, <1>5, <2>1, <2>3 DEF OrderInv
  <2> QED
    BY <2>2, <2>3
<1> QED
  BY <1>1, <1>2, <1>3, <1>4, <1>5 DEF OrderInv

\* The command that is carried out is the first of all.
LEMMA OrderHandler ==
    ASSUME OrderInv, TypeInv', NEW i \in DOMAIN conns, Handler(i)
    PROVE  OrderInv' /\ commanded <= commanded'
<1>1. /\ TypeInv /\ DOMAIN conns = 1..Len(conns) /\ Len(conns) \in Nat
      /\ commanded \in Nat /\ snapshot.run \in Nat
      /\ snapshot.run <= experiment.run
  BY ConnTypes, OrderTypes DEF OrderInv
<1>2. UNCHANGED <<snapshot, experiment>>
  BY Handlers DEF Moves, Drops, HandleRead, StoreRunning, serverUnchanged
<1>3. CASE Drops(i)
  <2> DEFINE was == [k \in DOMAIN conns' |-> Old(i, k)]
  <2>1. /\ was \in [DOMAIN conns' -> DOMAIN conns]
        /\ \A k \in DOMAIN conns' : conns'[k] = conns[was[k]]
        /\ DOMAIN conns' = 1..Len(conns') /\ Len(conns') \in Nat
    BY <1>1, <1>3, DroppedConn, LenProperties
  <2>2. \A j, k \in DOMAIN conns' : j < k => was[j] < was[k]
    BY <1>1, <2>1 DEF Old
  <2>3. UNCHANGED commanded
    BY <1>3 DEF Drops, ctrlVars
  <2> HIDE DEF was
  <2> QED
    BY <1>1, <1>2, <2>1, <2>2, <2>3, OrderKept
<1>4. CASE Moves(i)
  <2>1. /\ DOMAIN conns' = DOMAIN conns /\ UNCHANGED commanded
        /\ \A k \in DOMAIN conns : conns'[k].data = conns[k].data
    BY <1>1, <1>4, MovedConn DEF Staged, Moves, ctrlVars
  <2> QED
    BY <1>1, <1>2, <2>1, OrderSame
<1>5. CASE StoreRunning(i)
  <2>1. /\ DOMAIN conns' = DOMAIN conns /\ UNCHANGED commanded
        /\ \A k \in DOMAIN conns :
              conns'[k].data \in {conns[k].data, NoCommand}
    BY <1>1, <1>5, StoredConn DEF Staged, StoreRunning
  <2> QED
    BY <1>1, <1>2, <2>1, OrderSame
<1>6. CASE HandleRead(i)
  <2>1. /\ DOMAIN conns' = DOMAIN conns
        /\ \A k \in DOMAIN conns :
              conns'[k].data \in {conns[k].data, NoCommand}
        /\ conns'[i].data = NoCommand
    BY <1>1, <1>6, ReadConn DEF Staged
  <2>2. CASE UNCHANGED commanded
    BY <1>1, <1>2, <2>1, <2>2, OrderSame
  <2>3. CASE Starts(i)
    <3>1. IsStart(i) /\ commanded' = conns[i].data.run
      BY <1>1, <1>6, <2>3, ReadConn DEF Starts, IsStart
    <3>2. commanded <= commanded' /\ commanded' <= snapshot.run
          /\ commanded' \in Nat
      BY <3>1, OrderTypes DEF OrderInv
    <3>3. ASSUME NEW k \in DOMAIN conns, IsStart(k)'
          PROVE  /\ IsStart(k) /\ i < k
                 /\ conns'[k].data.run = conns[k].data.run
      BY <1>1, <1>6, <2>1, <3>3, ReadConn DEF IsStart, NextArrival
    <3> QED
      BY <1>1, <1>2, <2>1, <3>1, <3>2, <3>3 DEF OrderInv
  <2> QED
    BY <1>1, <1>6, <2>2, <2>3, ReadConn DEF Ignores, Stops, ctrlVars
<1> QED
  BY <1>3, <1>4, <1>5, <1>6, Handlers

LEMMA OrderNext == OrderInv /\ [Next]_vars => OrderInv' /\ commanded <= commanded'
<1> SUFFICES ASSUME OrderInv, [Next]_vars
             PROVE  OrderInv' /\ commanded <= commanded'
  OBVIOUS
<1>1. TypeInv' /\ commanded \in Nat
  BY TypeNext, OrderTypes DEF OrderInv
<1>2. CASE UNCHANGED vars
  <2>1. UNCHANGED <<conns, commanded, snapshot, experiment>>
    BY <1>2 DEF vars
  <2> QED
    BY <1>1, <2>1, OrderTypes, OrderSame DEF OrderInv
<1>3. CASE \E i \in DOMAIN conns : Handler(i)
  BY <1>1, <1>3, OrderHandler
<1>4. CASE \/ ExperimentChanges \/ Poll \/ Sleep \/ Receive
           \/ ScriptEnds \/ ScriptStarts \/ ScdaqExits \/ ScdaqStarts
  <2>1. UNCHANGED commanded
    BY <1>4 DEF ExperimentChanges, Poll, Sleep, Receive, ScriptEnds,
       ScriptStarts, ScdaqExits, ScdaqStarts, ctrlVars
  <2> QED
    BY <1>1, <1>4, <2>1, OrderScript
<1>5. CASE Connect \/ Send
  <2>1. UNCHANGED commanded
    BY <1>5 DEF Connect, Send, ctrlVars
  <2> QED
    BY <1>1, <1>5, <2>1, OrderConnect, OrderSend
<1> QED
  BY <1>2, <1>3, <1>4, <1>5 DEF Next, ScriptNext, ServerNext

\* Runs are never started again after a later one: for any number of runs, of
\* connections that wait with commands of dead scripts, and of ends.
THEOREM CommandedSafety == Spec => CommandedOnlyGrows
<1>1. OrderInv /\ [Next]_vars => [commanded' >= commanded]_vars
  BY OrderNext, OrderTypes DEF OrderInv
<1> QED
  BY <1>1, OrderInit, OrderNext, PTL DEF Spec, CommandedOnlyGrows

-----------------------------------------------------------------------------
(* RunControl implements Ctrl                                              *)

LEMMA ControlInit == Init => Control!CtrlInit
BY DEF Init, Control!CtrlInit, Starting

\* A step of the server's thread is one of the struct ctrl, or none.
LEMMA ControlHandler ==
    ASSUME OrderInv, OrderInv', NEW i \in DOMAIN conns, Handler(i)
    PROVE  [Control!CtrlNext]_Control!controlVars
<1>1. TypeInv /\ running \in BOOLEAN /\ running' \in BOOLEAN
  BY DEF OrderInv, TypeInv, TypeOK
<1>2. CASE Moves(i)
  <2>1. Starting = FALSE /\ Starting' = FALSE /\ UNCHANGED ctrlVars
    BY <1>1, <1>2, MovedConn DEF Moves, Staged, Starting, ThreadIsFree
  <2> QED
    BY <2>1 DEF Control!controlVars, ctrlVars
<1>3. CASE Drops(i)
  <2>1. Starting = FALSE /\ Starting' = FALSE /\ UNCHANGED ctrlVars
    BY <1>1, <1>3, DroppedConn DEF Drops, Starting, ThreadIsFree
  <2> QED
    BY <2>1 DEF Control!controlVars, ctrlVars
<1>4. CASE HandleRead(i)
  <2>1. Starting = FALSE /\ conns[i].data \in Command
    BY <1>1, <1>4, ReadConn DEF Starting, ThreadIsFree
  <2>2. Staged(i, "writing") => Starting' = FALSE
    BY <2>1 DEF Staged, Starting
  <2>3. CASE Ignores(i) /\ Staged(i, "writing")
    BY <2>1, <2>2, <2>3 DEF Ignores, Control!controlVars, ctrlVars
  <2>4. CASE Stops(i) /\ Staged(i, "writing")
    <3>1. running
      BY <2>4 DEF Stops, Accepts
    <3>2. Control!StoreStop
      BY <2>1, <2>2, <2>4, <3>1 DEF Stops, Control!StoreStop
    <3> QED
      BY <3>2 DEF Control!CtrlNext
  <2>5. CASE Starts(i) /\ Staged(i, "starting")
    <3> DEFINE r == conns[i].data.run
    <3>1. Starting' = TRUE /\ r \in Runs
      BY <2>1, <2>5, CommandTypes DEF Staged, Starting, Starts
    <3>2. r >= commanded
      BY <1>1, <1>4, <2>5, ReadConn, OrderTypes DEF OrderInv, IsStart, Starts
    <3>3. ~running \/ runNumber # r
      BY <2>5 DEF Starts, Accepts
    <3>4. Control!StoreFirst(r)
      BY <1>1, <2>1, <2>5, <3>1, <3>2, <3>3
         DEF Starts, Control!StoreFirst, Control!Store, Control!Stores
    <3> QED
      BY <3>1, <3>4 DEF Control!CtrlNext
  <2> QED
    BY <1>1, <1>4, <2>3, <2>4, <2>5, ReadConn
<1>5. CASE StoreRunning(i)
  <2>1. Starting = TRUE /\ Starting' = FALSE
    BY <1>1, <1>5, StoredConn
       DEF StoreRunning, Staged, Starting, TypeInv
  <2>2. Control!StoreSecond
    BY <1>1, <1>5, <2>1
       DEF StoreRunning, Control!StoreSecond, Control!Store, Control!Stores
  <2> QED
    BY <2>2 DEF Control!CtrlNext
<1> QED
  BY <1>2, <1>3, <1>4, <1>5, Handlers

LEMMA ControlStep ==
    OrderInv /\ OrderInv' /\ [Next]_vars => [Control!CtrlNext]_Control!controlVars
<1> SUFFICES ASSUME OrderInv, OrderInv', [Next]_vars
             PROVE  [Control!CtrlNext]_Control!controlVars
  OBVIOUS
<1>1. TypeInv
  BY DEF OrderInv
<1>2. ASSUME UNCHANGED <<ctrlVars, Starting>>
      PROVE  [Control!CtrlNext]_Control!controlVars
  BY <1>2 DEF Control!controlVars, ctrlVars
<1>3. ASSUME UNCHANGED <<ctrlVars, conns>>
      PROVE  [Control!CtrlNext]_Control!controlVars
  BY <1>2, <1>3 DEF Starting
<1>4. CASE UNCHANGED vars
  BY <1>3, <1>4 DEF vars, ctrlVars
<1>5. CASE Connect
  <2>1. CASE up
    BY <1>1, <1>2, <1>5, <2>1, NewConn, ConnTypes DEF Starting, Connect
  <2>2. CASE ~up
    BY <1>3, <1>5, <2>2 DEF Connect
  <2> QED
    BY <2>1, <2>2
<1>6. CASE Send
  BY <1>1, <1>2, <1>6, SentCommand DEF Starting, Send
<1>7. CASE Receive \/ ScriptEnds
  <2>1. conns' = Close /\ UNCHANGED ctrlVars
    BY <1>7 DEF Receive, ScriptEnds
  <2>2. /\ DOMAIN conns' = DOMAIN conns
        /\ \A k \in DOMAIN conns : conns'[k].stage = conns[k].stage
    BY <1>1, <2>1, ConnTypes DEF Close, Connection
  <2> QED
    BY <1>2, <2>1, <2>2 DEF Starting
<1>8. CASE ScdaqExits
  <2>1. Starting' = FALSE
    BY <1>8, EmptySeq DEF ScdaqExits, Starting
  <2>2. Control!Reset
    BY <1>8, <2>1 DEF ScdaqExits, Control!Reset
  <2> QED
    BY <2>2 DEF Control!CtrlNext
<1>9. CASE ExperimentChanges \/ Poll \/ Sleep \/ ScriptStarts \/ ScdaqStarts
  BY <1>3, <1>9 DEF ExperimentChanges, Poll, Sleep, ScriptStarts, ScdaqStarts
<1>10. CASE \E i \in DOMAIN conns : Handler(i)
  BY <1>10, ControlHandler
<1> QED
  BY <1>4, <1>5, <1>6, <1>7, <1>8, <1>9, <1>10
     DEF Next, ScriptNext, ServerNext

\* What run control does to the struct ctrl is what the file writer is proved
\* correct for: whole starts and stops, one after the other, whose runs grow.
THEOREM ControlSafety == Spec => IsCtrl
<1> QED
  BY ControlInit, ControlStep, OrderInit, OrderNext, PTL
     DEF Spec, IsCtrl, Control!CtrlSpec

-----------------------------------------------------------------------------
(* Replies are true                                                        *)

NothingSent == \A k \in DOMAIN conns : conns[k].data = NoCommand

\* The script waits for the reply on connection i: its command is that of the
\* snapshot, and when it was taken it is the last of all that were sent.
\* Without a reply it was not taken, or it is a start that is not complete.
Awaited(i) ==
    /\ reply = "none" =>
          conns[i].data # NoCommand \/ conns[i].stage = "starting"
    /\ conns[i].data # NoCommand => conns[i].data = Message
    /\ conns[i].stage = "starting" =>
          NothingSent /\ snapshot.on /\ runNumber = snapshot.run
    /\ reply # "none" => NothingSent /\ ThreadIsFree /\ Agrees(snapshot)

AnswerInv ==
    /\ TypeInv
    /\ script \in {"connect", "send"} => reply = "none"
    /\ script = "send" =>
          \A i \in Mine : /\ conns[i].data = NoCommand
                          /\ conns[i].stage \in {"backlog", "reading"}
    /\ script = "recv" => \A i \in Mine : Awaited(i)

LEMMA AnswerInit == Init => AnswerInv
BY TypeInit DEF Init, AnswerInv

\* Without a connection there is not much to say.
LEMMA AnswerAlone ==
    ASSUME TypeInv', Mine' = {}, script' \in {"connect", "send"} => reply' = "none"
    PROVE  AnswerInv'
BY DEF AnswerInv

LEMMA AnswerScript ==
    ASSUME AnswerInv, TypeInv',
           \/ ExperimentChanges \/ ScriptNext
           \/ ScriptEnds \/ ScriptStarts \/ ScdaqExits \/ ScdaqStarts
    PROVE  AnswerInv'
<1>1. TypeInv
  BY DEF AnswerInv
<1>2. CASE Poll \/ Sleep \/ ScriptStarts \/ ScdaqStarts
  <2>1. Mine = {} /\ UNCHANGED conns
    <3>1. CASE ScdaqStarts
      <4>1. DOMAIN conns = {} /\ UNCHANGED conns
        BY <1>1, <3>1, EmptySeq DEF ScdaqStarts, TypeInv
      <4> QED
        BY <4>1 DEF Mine
    <3>2. CASE Poll \/ Sleep \/ ScriptStarts
      BY <1>1, <3>2 DEF Poll, Sleep, ScriptStarts, TypeInv
    <3> QED
      BY <1>2, <3>1, <3>2
  <2>2. Mine' = {}
    BY <2>1 DEF Mine
  <2>3. script' \in {"connect", "send"} => reply' = "none"
    BY <1>2 DEF Poll, Sleep, ScriptStarts, ScdaqStarts, AnswerInv, scriptVars
  <2> QED
    BY <2>2, <2>3, AnswerAlone
<1>3. CASE Receive \/ ScriptEnds \/ ScdaqExits
  <2>1. Mine' = {}
    <3>1. CASE ScdaqExits
      BY <3>1, EmptySeq DEF ScdaqExits, Mine
    <3>2. CASE Receive \/ ScriptEnds
      <4>1. conns' = Close
        BY <3>2 DEF Receive, ScriptEnds
      <4>2. \A k \in DOMAIN conns' : conns'[k].open = FALSE
        BY <1>1, <4>1, ConnTypes DEF Close, Connection
      <4> QED
        BY <4>2 DEF Mine
    <3> QED
      BY <1>3, <3>1, <3>2
  <2>2. script' \in {"connect", "send"} => reply' = "none"
    BY <1>3 DEF Receive, ScriptEnds, ScdaqExits, AnswerInv, scriptVars
  <2> QED
    BY <2>1, <2>2, AnswerAlone
<1>4. CASE Connect
  <2>1. reply = "none" /\ UNCHANGED reply
    BY <1>4 DEF Connect, AnswerInv
  <2>2. CASE up
    <3>1. /\ script' = "send" /\ Mine' = {Len(conns) + 1}
          /\ conns'[Len(conns) + 1].data = NoCommand
          /\ conns'[Len(conns) + 1].stage = "backlog"
      BY <1>1, <1>4, <2>2, NewConn DEF Connect
    <3> QED
      BY <2>1, <3>1 DEF AnswerInv
  <2>3. CASE ~up
    <3>1. script' = "sleep"
      BY <1>4, <2>3 DEF Connect
    <3> QED
      BY <3>1 DEF AnswerInv
  <2> QED
    BY <2>2, <2>3
<1>5. CASE Send
  <2>1. reply = "none" /\ UNCHANGED <<reply, snapshot>>
        /\ script' \in {"sleep", "recv"}
    BY <1>5 DEF Send, AnswerInv
  <2>0. Message # NoCommand
    BY <1>1, CommandTypes, CommandAssumption DEF TypeInv, TypeOK
  <2>2. ASSUME NEW i \in Mine'
        PROVE  conns'[i].data = Message /\ conns'[i].stage # "starting"
    BY <1>1, <1>5, <2>2, SentCommand DEF Send, AnswerInv, Mine
  <2>3. Message' = Message
    BY <2>1 DEF Message
  <2>4. \A i \in Mine' : Awaited(i)'
    BY <2>0, <2>1, <2>2, <2>3 DEF Awaited
  <2> QED
    BY <2>1, <2>4 DEF AnswerInv
<1>6. CASE ExperimentChanges
  <2>1. UNCHANGED <<script, snapshot, reply, conns, up, running, runNumber>>
    BY <1>6 DEF ExperimentChanges, scriptVars, ctrlVars
  <2> QED
    BY <2>1 DEF AnswerInv, Mine, Awaited, NothingSent, ThreadIsFree, Message,
                Agrees
<1> QED
  BY <1>2, <1>3, <1>4, <1>5, <1>6 DEF ScriptNext

\* The connections keep what they are, or a closed one is deleted.
LEMMA AnswerMoves ==
    ASSUME AnswerInv, TypeInv', NEW i \in DOMAIN conns, Moves(i)
    PROVE  AnswerInv'
<1>1. /\ TypeInv /\ ThreadIsFree /\ Staged(i, "reading")
      /\ conns'[i].data = conns[i].data
      /\ UNCHANGED <<script, snapshot, reply, up, running, runNumber>>
  BY MovedConn DEF AnswerInv, Moves, serverUnchanged, ctrlVars
<1>2. /\ \A k \in DOMAIN conns : conns'[k].data = conns[k].data
      /\ \A k \in DOMAIN conns' : conns'[k].stage \in {conns[k].stage, "reading"}
      /\ DOMAIN conns' = DOMAIN conns /\ Mine' = Mine
  BY <1>1 DEF Staged
<1>3. Message' = Message /\ Agrees(snapshot)' = Agrees(snapshot)
  BY <1>1 DEF Message, Agrees
<1>4. /\ NothingSent => NothingSent'
      /\ ThreadIsFree'
  BY <1>1, <1>2 DEF NothingSent, ThreadIsFree
<1>5. \A k \in Mine : Awaited(k) => Awaited(k)'
  BY <1>1, <1>2, <1>3, <1>4 DEF Awaited, Mine, ThreadIsFree
<1> QED
  BY <1>1, <1>2, <1>5 DEF AnswerInv, Mine

LEMMA AnswerDrops ==
    ASSUME AnswerInv, TypeInv', NEW i \in DOMAIN conns, Drops(i)
    PROVE  AnswerInv'
<1>1. /\ TypeInv /\ ThreadIsFree
      /\ UNCHANGED <<script, snapshot, reply, up, running, runNumber>>
  BY DEF AnswerInv, Drops, serverUnchanged, ctrlVars
<1>2. /\ \A k \in DOMAIN conns' : /\ Old(i, k) \in DOMAIN conns
                                  /\ conns'[k] = conns[Old(i, k)]
      /\ \A k \in Mine' : Old(i, k) \in Mine /\ k \in DOMAIN conns'
  BY <1>1, DroppedConn DEF Mine
<1>3. Message' = Message /\ Agrees(snapshot)' = Agrees(snapshot)
  BY <1>1 DEF Message, Agrees
<1>4. /\ NothingSent => NothingSent'
      /\ ThreadIsFree'
  BY <1>1, <1>2 DEF NothingSent, ThreadIsFree
<1>5. \A k \in Mine' : Awaited(Old(i, k)) => Awaited(k)'
  BY <1>1, <1>2, <1>3, <1>4 DEF Awaited, ThreadIsFree
<1> QED
  BY <1>1, <1>2, <1>5 DEF AnswerInv

\* A command of the script itself is the last of all.
LEMMA AnswerReads ==
    ASSUME AnswerInv, TypeInv', NEW i \in DOMAIN conns, HandleRead(i)
    PROVE  AnswerInv'
<1> DEFINE st == conns'[i].stage
<1>1. /\ TypeInv /\ ThreadIsFree /\ conns[i].data # NoCommand
      /\ conns'[i].data = NoCommand
      /\ UNCHANGED <<script, snapshot, up>>
      /\ \A k \in 1..(i - 1) : conns[k].data = NoCommand
  BY ReadConn DEF AnswerInv, serverUnchanged, NextArrival
<1>2. /\ DOMAIN conns' = DOMAIN conns /\ Mine' = Mine
      /\ \A k \in DOMAIN conns : k # i => conns'[k] = conns[k]
      /\ \/ Ignores(i) /\ st = "writing"
         \/ Stops(i) /\ st = "writing"
         \/ Starts(i) /\ st = "starting"
  BY <1>1, ReadConn DEF Staged
<1>3. Message' = Message
  BY <1>1 DEF Message
<1>4. CASE i \notin Mine
  <2>1. ~conns[i].open
    BY <1>4 DEF Mine
  <2>2. UNCHANGED reply
    BY <1>2, <2>1 DEF Ignores, Stops, Starts, Reply
  <2>3. \A k \in Mine : conns'[k] = conns[k]
    BY <1>2, <1>4 DEF Mine
  <2>4. ASSUME NEW k \in Mine, Awaited(k)
        PROVE  Awaited(k)'
    <3>1. reply = "none"
      BY <1>1, <2>4 DEF Awaited, NothingSent
    <3>2. conns[k].stage # "starting"
      BY <1>1 DEF ThreadIsFree, Mine
    <3> QED
      BY <1>3, <2>2, <2>3, <2>4, <3>1, <3>2 DEF Awaited
  <2> QED
    BY <1>1, <1>2, <2>2, <2>3, <2>4 DEF AnswerInv
<1>5. CASE i \in Mine
  <2>1. /\ Mine = {i} /\ script = "recv" /\ Awaited(i)
        /\ \A k \in DOMAIN conns : k = i \/ k \in 1..(i - 1)
    BY <1>1, <1>5, ConnTypes DEF AnswerInv, TypeInv, TypeOK
  <2>2. NothingSent'
    BY <1>1, <1>2, <2>1 DEF NothingSent
  <2>3. conns[i].data = Message /\ reply = "none" /\ up
    BY <1>1, <1>5, <2>1, ConnTypes DEF Awaited, NothingSent, TypeInv
  <2>4. CASE Ignores(i) /\ st = "writing"
    <3>1. Agrees(snapshot)'
      BY <1>1, <2>3, <2>4
         DEF Ignores, Accepts, Message, Agrees, ctrlVars
    <3>2. ThreadIsFree'
      BY <1>1, <1>2, <2>4 DEF ThreadIsFree
    <3>3. reply' # "none"
      BY <1>5, <2>4 DEF Ignores, Reply, Mine
    <3>4. Awaited(i)'
      BY <1>1, <2>2, <2>4, <3>1, <3>2, <3>3 DEF Awaited
    <3> QED
      BY <1>1, <1>2, <2>1, <3>4 DEF AnswerInv
  <2>5. CASE Stops(i) /\ st = "writing"
    <3>1. Agrees(snapshot)'
      BY <1>1, <2>3, <2>5 DEF Stops, Message, Agrees
    <3>2. ThreadIsFree'
      BY <1>1, <1>2, <2>5 DEF ThreadIsFree
    <3>3. reply' # "none"
      BY <1>5, <2>5 DEF Stops, Reply, Mine
    <3>4. Awaited(i)'
      BY <1>1, <2>2, <2>5, <3>1, <3>2, <3>3 DEF Awaited
    <3> QED
      BY <1>1, <1>2, <2>1, <3>4 DEF AnswerInv
  <2>6. CASE Starts(i) /\ st = "starting"
    <3>1. snapshot.on /\ runNumber' = snapshot.run
      BY <2>3, <2>6 DEF Starts, Message
    <3>2. reply' = "none"
      BY <2>3, <2>6 DEF Starts
    <3>3. Awaited(i)'
      BY <1>1, <2>2, <2>6, <3>1, <3>2 DEF Awaited
    <3> QED
      BY <1>1, <1>2, <2>1, <3>3 DEF AnswerInv
  <2> QED
    BY <1>2, <2>4, <2>5, <2>6
<1> QED
  BY <1>4, <1>5

LEMMA AnswerStores ==
    ASSUME AnswerInv, TypeInv', NEW i \in DOMAIN conns, StoreRunning(i)
    PROVE  AnswerInv'
<1>1. /\ TypeInv /\ conns[i].stage = "starting" /\ running' = TRUE
      /\ UNCHANGED <<script, snapshot, up, runNumber>>
      /\ reply' = IF conns[i].open THEN "ok" ELSE reply
  BY DEF AnswerInv, StoreRunning, Reply, serverUnchanged
<1>2. /\ DOMAIN conns' = DOMAIN conns /\ Mine' = Mine
      /\ \A k \in DOMAIN conns : k # i => conns'[k] = conns[k]
      /\ conns'[i].data = NoCommand /\ conns'[i].stage = "writing"
  BY <1>1, StoredConn DEF Staged
<1>3. Message' = Message
  BY <1>1 DEF Message
<1>4. ThreadIsFree'
  BY <1>1, <1>2 DEF ThreadIsFree, TypeInv
<1>5. CASE i \notin Mine
  <2>1. UNCHANGED reply
    BY <1>1, <1>5 DEF Mine
  <2>2. \A k \in Mine : k \in DOMAIN conns /\ conns'[k] = conns[k]
    BY <1>2, <1>5 DEF Mine
  <2>3. ASSUME NEW k \in Mine, Awaited(k)
        PROVE  Awaited(k)'
    <3>1. reply = "none"
      BY <1>1, <2>3 DEF Awaited, ThreadIsFree
    <3>2. conns[k].stage # "starting"
      BY <1>1, <1>5, <2>2 DEF TypeInv
    <3> QED
      BY <1>3, <2>1, <2>2, <2>3, <3>1, <3>2 DEF Awaited
  <2> QED
    BY <1>1, <1>2, <2>1, <2>2, <2>3 DEF AnswerInv
<1>6. CASE i \in Mine
  <2>1. Mine = {i} /\ script = "recv" /\ Awaited(i)
    BY <1>1, <1>6 DEF AnswerInv, TypeInv, TypeOK
  <2>2. NothingSent'
    BY <1>1, <1>2, <2>1 DEF Awaited, NothingSent
  <2>3. Agrees(snapshot)'
    <3>1. snapshot.on /\ runNumber = snapshot.run
      BY <1>1, <2>1 DEF Awaited
    <3>2. up
      BY <1>1, ConnTypes DEF TypeInv
    <3> QED
      BY <1>1, <3>1, <3>2 DEF Agrees
  <2>4. reply' # "none"
    BY <1>1, <1>6 DEF Mine
  <2>5. Awaited(i)'
    BY <1>2, <1>4, <2>2, <2>3, <2>4 DEF Awaited
  <2> QED
    BY <1>1, <1>2, <2>1, <2>5 DEF AnswerInv
<1> QED
  BY <1>5, <1>6

LEMMA AnswerNext == AnswerInv /\ [Next]_vars => AnswerInv'
<1> SUFFICES ASSUME AnswerInv, [Next]_vars PROVE AnswerInv'
  OBVIOUS
<1>1. TypeInv'
  BY TypeNext DEF AnswerInv
<1>2. CASE UNCHANGED vars
  BY <1>2 DEF vars, AnswerInv, TypeInv, TypeOK, Mine, Awaited, NothingSent,
              ThreadIsFree, Message, Agrees
<1>3. CASE \E i \in DOMAIN conns : Handler(i)
  BY <1>1, <1>3, Handlers, AnswerMoves, AnswerDrops, AnswerReads, AnswerStores
<1> QED
  BY <1>1, <1>2, <1>3, AnswerScript DEF Next, ServerNext

\* When the script has got its reply, scdaq does what the snapshot asked for,
\* whatever commands of dead scripts are handled before.
THEOREM ReplySafety == Spec => []ReplyIsTrue
<1>1. AnswerInv => ReplyIsTrue
  BY DEF AnswerInv, Awaited, ReplyIsTrue
<1> QED
  BY <1>1, AnswerInit, AnswerNext, PTL DEF Spec

\* The script never waits for a reply that nobody will write, for any number of
\* connections, of ends of scripts before it and of exits of scdaq.
THEOREM DueSafety == Spec => []ReplyIsDue
<1>1. AnswerInv => ReplyIsDue
  BY DEF AnswerInv, Awaited, ReplyIsDue
<1> QED
  BY <1>1, AnswerInit, AnswerNext, PTL DEF Spec
=============================================================================
